\* Reused sidecars: stale syncs, failed deletions, timeouts.
SPECIFICATION Spec
CONSTANTS
    Task = {t1, t2}
    Existing = {a, b}
    Collector = Collector
    Closer = Closer
    Owner = Owner
    Nobody = Nobody
    Size = 2
    MaxMade = 2
    MaxGone = 0
    MaxUndeleted = 1
    Modes = {FALSE}
    CanInterrupt = FALSE
    CanTimeOut = TRUE
INVARIANTS TypeOK MembersInPlace
SYMMETRY Symmetry
CHECK_DEADLOCK FALSE
