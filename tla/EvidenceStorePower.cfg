SPECIFICATION Spec
CONSTANTS
    Writers = {w1, w2}
    HardenedWriters = {w1}
    Readers = {r1}
    Operators = {}
    Values = {v1, v2}
    Absent = Absent
    Torn = Torn
    Inodes = {i1, i2, i3}
    LiveReview = FALSE
    MaxLocks = 3
    MaxPowerLosses = 1
    MaxOpCrashes = 0
SYMMETRY Symmetry
INVARIANTS
    ManifestImpliesRecord
    ReadsAreNeverRejected
    PublishedIsDurable
    HardenedAckIsDurable
PROPERTIES
    ImplementsRegister
CHECK_DEADLOCK FALSE
