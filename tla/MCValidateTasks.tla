--------------------------- MODULE MCValidateTasks ---------------------------
(* ValidateTasks on small instances, and properties the code does not have. *)
EXTENDS ValidateTasks, TLC

Sessions == Permutations(Session)

\* "Must not release the claim before the run finishes" (handleValidate): a session
\* with a run in flight has its claim.  Its superseded run releases the new one's.
ClaimHeld ==
    \A i \in TaskId : run[i].at \in {"queued", "run"} => run[i].by \in claims

\* "Whether root's last known run failed" (owesBlockingRun): a failure is owed until
\* a newer run passes.  An older one that passed may report after it.
NewerFailureOwed ==
    [][\A i \in TaskId : run[i].at = "tell" /\ run'[i].at = "done" =>
        ((\E j \in store : j > i /\ run[j].at = "done" /\ ~task[j].pass) => owes')]_vars
==============================================================================
