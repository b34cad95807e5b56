\* A cancelled creation survives Destroy.
SPECIFICATION Spec
CONSTANTS
    Task = {t1}
    Existing = {}
    Collector = Collector
    Closer = Closer
    Owner = Owner
    Nobody = Nobody
    Size = 2
    MaxMade = 3
    MaxGone = 0
    MaxUndeleted = 0
    Modes = {FALSE}
    CanInterrupt = FALSE
    CanTimeOut = FALSE
INVARIANTS DestroyDeletesAll
SYMMETRY Symmetry
CHECK_DEADLOCK FALSE
