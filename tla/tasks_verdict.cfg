SPECIFICATION Spec
CONSTANTS
    s1 = s1
    s2 = s2
    Session = {s1, s2}
    Waiting = {s2}
    Releasing = {s1}
    Collecting = {s2}
    Nobody = Nobody
    Cap = 2
    MaxTasks = 2
    MaxEdits = 2
    Bad = {1}
    MayRevert = FALSE
    GitMayFail = TRUE
    Worktree = FALSE
    Always = FALSE
INVARIANTS TypeOK VerdictOfTheTree ClaimsFreed
