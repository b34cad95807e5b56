\* Clones, replacements and interrupts, two tasks.
SPECIFICATION Spec
CONSTANTS
    Task = {t1, t2}
    Existing = {}
    Collector = Collector
    Closer = Closer
    Owner = Owner
    Nobody = Nobody
    Size = 2
    MaxMade = 5
    MaxGone = 1
    MaxUndeleted = 0
    Modes = {FALSE}
    CanInterrupt = TRUE
    CanTimeOut = FALSE
INVARIANTS OneOwner Counted RecordUpToDate DestroyLeavesNone
PROPERTIES TerminalIsFinal
SYMMETRY Symmetry
CHECK_DEADLOCK FALSE
