\* Tasks one at a time with an owner, or the workers of RunDistributed: all are answered.
SPECIFICATION FairSpec
CONSTANTS
    Task = {t1, t2, t3}
    Existing = {}
    Collector = Collector
    Closer = Closer
    Owner = Owner
    Nobody = Nobody
    Size = 2
    MaxMade = 2
    MaxGone = 0
    MaxUndeleted = 0
    Modes = {TRUE, FALSE}
    CanInterrupt = FALSE
    CanTimeOut = FALSE
PROPERTIES AcquireReturns OwnerReturns
CHECK_DEADLOCK FALSE
