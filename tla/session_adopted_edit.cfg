\* An edit adopted on resume, then a restore.
SPECIFICATION Spec
CONSTANTS
    Path = {a, b}
    NoTree = NoTree
    Call = {c1, c2}
    NSid = 1
    MaxRounds = 2
    MaxStored = 1
    MaxEdits = 1
    MaxCalls = 2
    MaxCrashes = 0
SYMMETRY Symmetry
PROPERTIES AdoptedEditsSurvive
CHECK_DEADLOCK FALSE
