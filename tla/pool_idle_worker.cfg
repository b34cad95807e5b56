\* A worker sleeps beside a free sidecar.
SPECIFICATION Spec
CONSTANTS
    Task = {t1, t2, t3, t4}
    Existing = {}
    Collector = Collector
    Closer = Closer
    Owner = Owner
    Nobody = Nobody
    Size = 3
    MaxMade = 4
    MaxGone = 0
    MaxUndeleted = 0
    Modes = {TRUE}
    CanInterrupt = FALSE
    CanTimeOut = FALSE
INVARIANTS NextAvailable
SYMMETRY Symmetry
CHECK_DEADLOCK FALSE
