---------------------------- MODULE MCSidecarPool ----------------------------
(* Small instances of SidecarPool for TLC. *)
EXTENDS SidecarPool, TLC

\* Tasks are interchangeable, and so are the sidecars the pool starts from;
\* created sidecars are numbered.
Symmetry == Permutations(Task) \cup Permutations(Existing)

-----------------------------------------------------------------------------
(* What comments of the code say and the code does not do; see README.       *)

\* RunDistributed "schedules commands in configuration order onto the next
\* available worker": while there are commands left, that is, while no worker but the
\* command's own first use of the pool is over, none sleeps beside a free sidecar with
\* no token to come.
NextAvailable ==
    ~ /\ \A t, u \in Task : pc[t] = "over" /\ pc[u] = "over" => t = u
      /\ \E t \in Task : pc[t] = "wait"
      /\ \E i \in Id : free[i] > 0
      /\ token = 0
      /\ \A t \in Task : pc[t] # "look"
      /\ \A p \in Proc : Ready(p)

\* saveActivePoolState runs after the plan because "only once the run has actually
\* used them are they all guaranteed to be reflected in pool.IDs()".
RunUsesWholePool == (\A t \in Task : pc[t] = "over") => pendingCreates = 0

\* "Destroy deletes every pool sidecar and clears pool state."
DestroyDeletesAll ==
    pc[Owner] = "destroyed" /\ Ready(Owner) => remote \subseteq file

\* "Sidecars that could not be deleted stay in pool state so a later run can retry
\* them."
UndeletedRecorded ==
    pc[Owner] = "destroyed" /\ Ready(Owner) => remote \subseteq file \cup orphans

\* "Close keeps the pool's sidecars for reuse": what it keeps is in the state file.
KeptRecorded ==
    pc[Owner] = "kept" /\ BackgroundDone /\ ~Saving => ids \cap remote \subseteq file
==============================================================================
