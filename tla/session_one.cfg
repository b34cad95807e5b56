\* One session of two rounds, two files, two edits by the user, two handler calls.
SPECIFICATION Spec
CONSTANTS
    Path = {a, b}
    NoTree = NoTree
    Call = {c1, c2}
    NSid = 1
    MaxRounds = 2
    MaxStored = 1
    MaxEdits = 2
    MaxCalls = 2
    MaxCrashes = 0
SYMMETRY Symmetry
INVARIANTS TypeOK RoundsCounted SettledHonestly
    FixesRecorded
PROPERTIES RestoreOnlyUnedited RestoreUndoesFixes Promise
CHECK_DEADLOCK FALSE
