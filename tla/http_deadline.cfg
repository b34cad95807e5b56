\* Calls of four units, a budget for retries and an ordinary deadline of one each.
SPECIFICATION SpecHttp
CHECK_DEADLOCK FALSE
CONSTANTS
    c1 = c1
    c2 = c2
    Call = {c1, c2}
    Asked <- AskedLong
    ClientTimeout = 1
    Budget = 1
    RetryMax = 1
    RetryAfter = {1}
    Credential = {t1, t2, t3}
    MaxLogins = 2
INVARIANTS
    GetsItsTime
