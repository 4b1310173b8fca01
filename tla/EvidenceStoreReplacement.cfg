SPECIFICATION Spec
CONSTANTS
    Writers = {w1, w2}
    HardenedWriters = {}
    Readers = {}
    Operators = {o1}
    Values = {v1, v2}
    Absent = Absent
    Torn = Torn
    Inodes = {i1, i2, i3, i4}
    LiveReview = TRUE
    MaxLocks = 3
    MaxPowerLosses = 0
    MaxOpCrashes = 0
SYMMETRY Symmetry
PROPERTIES
    QuarantineSparesReplacement
CHECK_DEADLOCK FALSE
