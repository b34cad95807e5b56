\* Liveness of one session of one round: pauses, resumes, cancellation, shutdown.
SPECIFICATION FairSpec
CONSTANTS
    Path = {a}
    NoTree = NoTree
    Call = {c1, c2}
    NSid = 1
    MaxRounds = 1
    MaxStored = 1
    MaxEdits = 2
    MaxCalls = 2
    MaxCrashes = 0
PROPERTIES CancelEnds ResumeWakes
CHECK_DEADLOCK FALSE
