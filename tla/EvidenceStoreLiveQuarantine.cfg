SPECIFICATION Spec
CONSTANTS
    Writers = {w1, w2}
    HardenedWriters = {}
    Readers = {r1}
    Operators = {o1}
    Values = {v1, v2}
    Absent = Absent
    Torn = Torn
    Inodes = {i1, i2, i3}
    LiveReview = TRUE
    MaxLocks = 2
    MaxPowerLosses = 0
    MaxOpCrashes = 0
SYMMETRY Symmetry
INVARIANTS
    AnswersAgree
PROPERTIES
    NothingIsClobbered
CHECK_DEADLOCK FALSE
