------------------------------ MODULE MCSession ------------------------------
(* Small instances of Session for TLC. *)
EXTENDS Session, TLC

\* Files are interchangeable, and so are handlers; sessions are not (they have
\* ages).
Symmetry == Permutations(Path) \cup Permutations(Call)

-----------------------------------------------------------------------------
(* What comments of the code say and the code does not do; see README.       *)

\* "A file the user has edited since the session left it is not overwritten
\* unless force is set": nor is an edit the session paused for and then adopted.
AdoptedEditsSurvive ==
    [][\A c \in Call :
        calls[c].op = "restoring" /\ ~calls[c].force /\ tree' # tree /\ calls'[c] = Idle =>
            LET s == calls[c].sid IN
            \A p \in Path : (hist[s].adopted[p] \cap tree[p].user) \subseteq tree'[p].user]_vars

\* "Anything still in flight when the session ended did not finish; say so rather
\* than leaving it shown as running on a session that is over."
NoFixRunningWhenOver ==
    \A s \in Sid : Finished(s) =>
        \A i \in DOMAIN sess[s].rounds : sess[s].rounds[i].fix # "running"

\* ErrEditedSince, "files were edited after the session changed them", is
\* returned only when the user edited something after the session's last look.
RefusalMeansEdited ==
    [][\A c \in Call :
        LET s == calls[c].sid IN
        calls[c].op = "restore" /\ calls'[c] = Idle /\ sess[s].left # NoTree
            /\ sess'[s].state # "lost"
            => edits > hist[s].leftAt]_vars

\* "Before the first byte is written: the tree is exactly st.expected."
SavedTreeIsTheTree ==
    [][\A s \in Sid :
        sess[s].restore = "none" /\ sess'[s].restore = "saved" => tree = loop[s].expected]_vars
==============================================================================
