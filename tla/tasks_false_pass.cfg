SPECIFICATION Spec
CONSTANTS
    s1 = s1
    s2 = s2
    Session = {s1, s2}
    Waiting = {}
    Releasing = {s1}
    Collecting = {s2}
    Nobody = Nobody
    Cap = 2
    MaxTasks = 1
    MaxEdits = 1
    Bad = {1}
    MayRevert = FALSE
    GitMayFail = FALSE
    Worktree = TRUE
    Always = FALSE
INVARIANTS SnapshotVerdictQualified
