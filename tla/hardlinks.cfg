SPECIFICATION Spec
CONSTANTS
    Names = {n1, n2, n3}
    Blocks = {A, B}
    Tails = {s, t}
    Times = {1, 2}
    Now = 3
    Absent = Absent
    NoHash = NoHash
    MaxFaults = 2
    MaxWrites = 1
SYMMETRY FileSymmetry
CONSTRAINT TwoDisturbances
INVARIANTS
    EachLossHasAFault
    OriginalSurvives
    OneFilePerHash
CHECK_DEADLOCK FALSE
