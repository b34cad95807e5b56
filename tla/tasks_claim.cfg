SPECIFICATION Spec
CONSTANTS
    s1 = s1
    s2 = s2
    Session = {s1, s2}
    Waiting = {}
    Releasing = {s1}
    Collecting = {}
    Nobody = Nobody
    Cap = 2
    MaxTasks = 2
    MaxEdits = 1
    Bad = {}
    MayRevert = FALSE
    GitMayFail = FALSE
    Worktree = FALSE
    Always = FALSE
INVARIANTS ClaimHeld
CHECK_DEADLOCK FALSE
