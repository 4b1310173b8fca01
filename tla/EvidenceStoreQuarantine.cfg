SPECIFICATION FairSpec
CONSTANTS
    Writers = {w1, w2}
    HardenedWriters = {w2}
    Readers = {}
    Operators = {o1, o2}
    Values = {v1}
    Absent = Absent
    Torn = Torn
    Inodes = {i1, i2}
    LiveReview = FALSE
    MaxLocks = 2
    MaxPowerLosses = 0
    MaxOpCrashes = 1
INVARIANTS
    MutualExclusion
PROPERTIES
    QuarantineSparesReplacement
    StaleLockIsCleared
CHECK_DEADLOCK FALSE
