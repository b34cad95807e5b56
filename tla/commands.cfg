\* Every part.  Parts = {"rows"} looks at the dashboard's rows alone.
SPECIFICATION Spec
CONSTANT Parts = {"log", "branch", "rows", "view", "records", "mirror", "run",
                  "setup", "mutation", "variant", "http", "creds", "env", "config"}
INVARIANTS CommandsTypeOK DrawnTrue NothingLost RunsHonest SetUpRight
PROPERTIES AimedRight
CHECK_DEADLOCK FALSE
