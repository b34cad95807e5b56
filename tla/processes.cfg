\* Every part.  Parts = {"daemon"} looks at the daemon alone.
SPECIFICATION Spec
CONSTANT Parts = {"daemon", "output", "watch", "pass", "detach", "factory", "key"}
INVARIANTS ProcessesTypeOK ShownTruly ResultsHonest OneAtATime
PROPERTIES OthersKept EveryoneServed
CHECK_DEADLOCK FALSE
