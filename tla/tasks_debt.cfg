SPECIFICATION Spec
CONSTANTS
    s1 = s1
    s2 = s2
    Session = {s1, s2}
    Waiting = {}
    Releasing = {s1,s2}
    Collecting = {}
    Nobody = Nobody
    Cap = 2
    MaxTasks = 2
    MaxEdits = 2
    Bad = {1}
    MayRevert = FALSE
    GitMayFail = FALSE
    Worktree = TRUE
    Always = FALSE
PROPERTIES NewerFailureOwed
CHECK_DEADLOCK FALSE
