\* Two resumes of one pause.
SPECIFICATION Spec
CONSTANTS
    Path = {a}
    NoTree = NoTree
    Call = {c1, c2}
    NSid = 1
    MaxRounds = 1
    MaxStored = 1
    MaxEdits = 2
    MaxCalls = 2
    MaxCrashes = 0
SYMMETRY Symmetry
PROPERTIES PauseWaitsForUser
CHECK_DEADLOCK FALSE
