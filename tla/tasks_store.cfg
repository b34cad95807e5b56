SPECIFICATION Spec
CONSTANTS
    s1 = s1
    s2 = s2
    Session = {s1, s2}
    Waiting = {}
    Releasing = {s1, s2}
    Collecting = {s1, s2}
    Nobody = Nobody
    Cap = 2
    MaxTasks = 3
    MaxEdits = 0
    Bad = {}
    MayRevert = FALSE
    GitMayFail = FALSE
    Worktree = TRUE
    Always = FALSE
SYMMETRY Sessions
INVARIANTS CapHolds DeliveredMeansWritten
PROPERTIES OnlyUselessDropped
