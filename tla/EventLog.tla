------------------------------- MODULE EventLog -------------------------------
(***************************************************************************)
(* A project's event log (eventlog/eventlog.go): commands of several       *)
(* processes append to it, whichever opens it trims it, and the watch      *)
(* daemon follows it by offset.  The lock is a process's own; the file is  *)
(* all they share.                                                         *)
(*                                                                         *)
(* The n-th event written is n, a line is a unit of offset.                *)
(***************************************************************************)
EXTENDS Integers, Sequences, FiniteSets

CONSTANTS
    Writer,       \* processes that record events
    MaxEvents,    \* bound: events written
    MaxLogLines,  \* maxLogLines: a longer log is trimmed when it is opened
    TrimToLines,  \* trimToLines: what is left of it
    RecentEvents  \* RecentEvents: what the daemon keeps

LogAssumption ==
    /\ MaxEvents \in Nat /\ RecentEvents \in Nat \ {0}
    /\ MaxLogLines \in Nat /\ TrimToLines \in 0..MaxLogLines

VARIABLES
    log,       \* the file's lines
    events,    \* events written
    writer,    \* per process: what it is at, the lines it read, its command's id
    tail,      \* the daemon's offset and the events it keeps
    stamped    \* the command ids that have been written, a bag in a sequence

logVars == <<log, events, writer, tail, stamped>>

Opened == [at |-> "open", lines |-> <<>>, pending |-> <<>>]

InitLog ==
    /\ log = <<>> /\ events = 0
    /\ writer = [w \in Writer |-> [Opened EXCEPT !.at = "closed"]]
    /\ tail = [offset |-> 0, kept |-> <<>>]
    /\ stamped = <<>>

LastOf(s, n) == SubSeq(s, IF Len(s) > n THEN Len(s) - n + 1 ELSE 1, Len(s))

\* Open reads the whole log; a short one stays.
OpenLog(w) ==
    /\ writer[w].at = "closed"
    /\ writer' = [writer EXCEPT ![w] =
         IF Len(log) > MaxLogLines THEN [@ EXCEPT !.at = "trim", !.lines = log] ELSE Opened]
    /\ UNCHANGED <<log, events, tail, stamped>>

\* A long one is replaced by the end of what was read: what another process wrote
\* since is gone with it.
Trim(w) ==
    /\ writer[w].at = "trim"
    /\ log' = LastOf(writer[w].lines, TrimToLines)
    /\ writer' = [writer EXCEPT ![w] = Opened]
    /\ UNCHANGED <<events, tail, stamped>>

SetCommandID(w) ==
    /\ writer[w].at = "open" /\ writer[w].pending = <<>> /\ events < MaxEvents
    /\ writer' = [writer EXCEPT ![w].pending = <<w, events + 1>>]
    /\ UNCHANGED <<log, events, tail, stamped>>

\* Mutant: the id is not taken off.
RecordKeepsID(w, terminal) ==
    /\ writer[w].at = "open" /\ events < MaxEvents
    /\ events' = events + 1 /\ log' = Append(log, events + 1)
    /\ stamped' = IF terminal /\ writer[w].pending # <<>>
                  THEN Append(stamped, writer[w].pending) ELSE stamped
    /\ UNCHANGED <<writer, tail>>

\* An event; one that ends a command takes its id with it.
Record(w, terminal) ==
    /\ writer[w].at = "open" /\ events < MaxEvents
    /\ events' = events + 1 /\ log' = Append(log, events + 1)
    /\ stamped' = IF terminal /\ writer[w].pending # <<>>
                  THEN Append(stamped, writer[w].pending) ELSE stamped
    /\ writer' = [writer EXCEPT ![w].pending = IF terminal THEN <<>> ELSE @]
    /\ UNCHANGED tail

CloseLog(w) ==
    /\ writer[w].at \in {"open", "trim"}
    /\ writer' = [writer EXCEPT ![w] = [Opened EXCEPT !.at = "closed"]]
    /\ UNCHANGED <<log, events, tail, stamped>>

\* Mutant: a log that has become shorter is read again.
NewLinesAgain ==
    IF Len(log) < tail.offset THEN log ELSE SubSeq(log, tail.offset + 1, Len(log))

\* What TailFrom returns: nothing while the log is not longer than the offset.
NewLines == SubSeq(log, tail.offset + 1, Len(log))

TailFrom ==
    /\ NewLines # <<>>
    /\ tail' = [offset |-> Len(log), kept |-> LastOf(tail.kept \o NewLines, RecentEvents)]
    /\ UNCHANGED <<log, events, writer, stamped>>

NextLog ==
    \/ \E w \in Writer : \/ OpenLog(w) \/ Trim(w) \/ SetCommandID(w) \/ CloseLog(w)
                         \/ \E terminal \in BOOLEAN : Record(w, terminal)
    \/ TailFrom

SpecLog == InitLog /\ [][NextLog]_logVars

-----------------------------------------------------------------------------
(* Properties. *)

LogTypeOK ==
    /\ events \in 0..MaxEvents /\ tail.offset \in 0..MaxEvents
    /\ Len(tail.kept) <= RecentEvents
    /\ \A w \in Writer : writer[w].at \in {"closed", "trim", "open"}

\* Whoever trims the log under it, the daemon never takes an event twice nor one before
\* another that is older.
TailInOrder ==
    /\ \A i \in 1..(Len(tail.kept) - 1) : tail.kept[i] < tail.kept[i + 1]
    /\ \A i \in 1..(Len(stamped) - 1), j \in 2..Len(stamped) : i < j => stamped[i] # stamped[j]
==============================================================================
