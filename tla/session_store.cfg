\* Two sessions of two rounds, one after the other, over a store of one; the daemon killed once.
SPECIFICATION Spec
CONSTANTS
    Path = {a}
    NoTree = NoTree
    Call = {c1}
    NSid = 2
    MaxRounds = 2
    MaxStored = 1
    MaxEdits = 1
    MaxCalls = 1
    MaxCrashes = 1
INVARIANTS OneActive StoreCap RestorePointDurable
PROPERTIES Promise
CHECK_DEADLOCK FALSE
