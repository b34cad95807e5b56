---------------------------- MODULE CommandOutput ----------------------------
(***************************************************************************)
(* A remote command's output on its way to the dashboard.                  *)
(*                                                                         *)
(* The API keeps it and serves it over connections that are cut at will    *)
(* (circleci/client.go, sse/sse.go); the daemon follows it from the last   *)
(* cursor it saw into a buffer that keeps the tail (watchd/output.go); an   *)
(* output pane reads the buffer from its own offset, on a tick, with       *)
(* requests that are answered later (ui/watch/output.go, outputmodel.go).  *)
(*                                                                         *)
(* A command writes the numbers 1..Size and exits.  A cursor is the number *)
(* of the last one delivered; a number is a byte.  What the command has    *)
(* not written yet is a frame that does not come.                          *)
(***************************************************************************)
EXTENDS Integers, Sequences, SequencesExt, FiniteSets

CONSTANTS
    Command,           \* commands, in the order of their names
    Size,              \* bound: what a command writes
    BufferCap,         \* maxBytes: what a buffer keeps
    MaxCommands,       \* finished commands the daemon keeps
    PaneCap,           \* maxPaneLines: what a pane keeps
    MaxStalls,         \* maxStreamStalls
    MaxStreamAttempts, \* maxStreamAttempts
    MaxPanes,          \* bound: panes opened
    Prompt             \* is a request answered before the next tick and the next pane?

OutputAssumption ==
    /\ Size \in Nat \ {0} /\ BufferCap \in Nat \ {0} /\ PaneCap \in Nat \ {0}
    /\ MaxCommands \in Nat \ {0} /\ MaxStalls \in Nat /\ MaxStreamAttempts \in Nat \ {0}
    /\ MaxPanes \in Nat /\ Prompt \in BOOLEAN

VARIABLES
    stream,     \* per command: the daemon's reader of it
    buffer,     \* per command: the daemon's buffer
    byProject,  \* the commands the daemon keeps, oldest first
    pane,       \* the open output pane
    asked,      \* the requests of panes, not answered yet
    panes       \* panes opened

streamVars == <<stream, buffer, byProject>>
paneVars == <<pane, asked, panes>>
outputVars == <<streamVars, paneVars>>

Numbers == 1..Size
Run(from, to) == [i \in 1..(to - from) |-> from + i]

\* A stream: away while it is not connected; seen: whether this connection brought a
\* frame; cursor: where to resume.
Stream == [at : {"none", "away", "open", "over"}, seen : BOOLEAN, cursor : 0..Size,
           stalls : 0..MaxStalls, attempts : 0..MaxStreamAttempts]
NoStream == [at |-> "none", seen |-> FALSE, cursor |-> 0, stalls |-> 0, attempts |-> 0]

EmptyBuffer == [data |-> <<>>, dropped |-> 0, running |-> TRUE, failed |-> FALSE]
Closed == [open |-> FALSE, seq |-> 0, cmd |-> CHOOSE c \in Command : TRUE, text |-> <<>>,
           offset |-> 0, running |-> FALSE, truncated |-> FALSE, err |-> FALSE]
NoOutput == [found |-> FALSE, data |-> <<>>, next |-> 0, running |-> FALSE,
             truncated |-> FALSE, failed |-> FALSE]

InitOutput ==
    /\ stream = [c \in Command |-> NoStream]
    /\ buffer = [c \in Command |-> EmptyBuffer]
    /\ byProject = <<>>
    /\ pane = Closed /\ asked = {} /\ panes = 0

-----------------------------------------------------------------------------
(* The daemon's output store. *)

\* The oldest finished commands go until the project is under its cap; running ones
\* are never evicted, their streams still write.
EvictOldest(ids) ==
    LET finished == {i \in DOMAIN ids : ~buffer[ids[i]].running}
        excess == Len(ids) - MaxCommands
        goes == {i \in finished : Cardinality({j \in finished : j < i}) < excess}
    IN  [i \in 1..(Len(ids) - Cardinality(goes)) |->
            ids[CHOOSE k \in DOMAIN ids \ goes :
                  Cardinality({j \in DOMAIN ids \ goes : j <= k}) = i]]

\* A command already known is ignored; without a client there is nothing to stream.
RegisterCommand(c) ==
    /\ stream[c].at = "none"
    /\ byProject' = EvictOldest(Append(byProject, c))
    /\ \E client \in BOOLEAN :
        /\ stream' = [stream EXCEPT ![c].at = IF client THEN "away" ELSE "over"]
        /\ buffer' = [buffer EXCEPT ![c].running = client, ![c].failed = ~client]
    /\ UNCHANGED paneVars

\* Mutant: the buffer is cut to its size before the chunk is added.
AppendedUncut(b, p) ==
    LET excess == IF Len(b.data) > BufferCap THEN Len(b.data) - BufferCap ELSE 0
    IN  [b EXCEPT !.data = SubSeq(b.data, excess + 1, Len(b.data)) \o p, !.dropped = @ + excess]

\* Appended: the tail is kept, what it pushes out is counted.
Appended(b, p) ==
    LET all == b.data \o p
        excess == IF Len(all) > BufferCap THEN Len(all) - BufferCap ELSE 0
    IN  [b EXCEPT !.data = SubSeq(all, excess + 1, Len(all)), !.dropped = @ + excess]

Finished(b, failed) == [b EXCEPT !.running = FALSE, !.failed = failed]

\* What is at or after an offset: past the end nothing, before the retained window
\* all of it, marked.
ReadBuffer(b, offset) ==
    LET total == b.dropped + Len(b.data)
    IN  [found |-> TRUE, next |-> total, running |-> b.running, failed |-> b.failed,
         truncated |-> offset < b.dropped,
         data |-> IF offset < b.dropped THEN b.data
                  ELSE IF offset >= total THEN <<>>
                  ELSE SubSeq(b.data, offset - b.dropped + 1, Len(b.data))]

Kept(c) == \E i \in DOMAIN byProject : byProject[i] = c
ReadStore(c, offset) == IF Kept(c) THEN ReadBuffer(buffer[c], offset) ELSE NoOutput

-----------------------------------------------------------------------------
(* The daemon's reader of a command's stream (streamCommandOutput, streamOnce). *)

Connect(c) ==
    /\ stream[c].at = "away"
    /\ stream' = [stream EXCEPT ![c].at = "open", ![c].seen = FALSE]
    /\ UNCHANGED <<buffer, byProject, paneVars>>

\* Mutant: the frame's id is not kept.
FrameNoID(c) ==
    /\ stream[c].at = "open"
    /\ \E to \in (stream[c].cursor + 1)..Size :
        buffer' = [buffer EXCEPT ![c] = Appended(@, Run(stream[c].cursor, to))]
    /\ stream' = [stream EXCEPT ![c].seen = TRUE]
    /\ UNCHANGED <<byProject, paneVars>>

\* A whole frame of output: delivered, then its id is kept as the cursor.
Frame(c) ==
    /\ stream[c].at = "open"
    /\ \E to \in (stream[c].cursor + 1)..Size :
        /\ buffer' = [buffer EXCEPT ![c] = Appended(@, Run(stream[c].cursor, to))]
        /\ stream' = [stream EXCEPT ![c].seen = TRUE, ![c].cursor = to]
    /\ UNCHANGED <<byProject, paneVars>>

\* The terminal frame, exit or an error that no retry helps.
Exit(c) ==
    /\ stream[c].at = "open" /\ stream[c].cursor = Size
    /\ stream' = [stream EXCEPT ![c].at = "over"]
    /\ \E failed \in BOOLEAN : buffer' = [buffer EXCEPT ![c] = Finished(@, failed)]
    /\ UNCHANGED <<byProject, paneVars>>

\* Mutant: a connection that is cut is never counted.
EndsUncounted(c, err, rejected) ==
    IF rejected
    THEN /\ stream' = [stream EXCEPT ![c].at = "over"]
         /\ buffer' = [buffer EXCEPT ![c] = Finished(@, TRUE)]
    ELSE stream' = [stream EXCEPT ![c].at = "away"] /\ UNCHANGED buffer

\* A connection ends before a terminal frame, a partial frame is dropped.  With an
\* error and no frame at all it is a stall; too many of these in a row, or too many
\* attempts, or a rejection, end the stream.
Ends(c, err, rejected) ==
    LET s == stream[c]
        stalls == IF s.seen THEN 0 ELSE IF err THEN s.stalls + 1 ELSE s.stalls
    IN  IF rejected \/ stalls > MaxStalls \/ s.attempts + 1 >= MaxStreamAttempts
        THEN /\ stream' = [stream EXCEPT ![c].at = "over"]
             /\ buffer' = [buffer EXCEPT ![c] = Finished(@, TRUE)]
        ELSE /\ stream' = [stream EXCEPT ![c].at = "away", ![c].stalls = stalls,
                                         ![c].attempts = @ + 1]
             /\ UNCHANGED buffer

Cut(c) ==
    /\ stream[c].at = "open"
    /\ \/ \E err \in BOOLEAN : Ends(c, err, FALSE)
       \/ ~stream[c].seen /\ Ends(c, TRUE, TRUE)
    /\ UNCHANGED <<byProject, paneVars>>

-----------------------------------------------------------------------------
(* The output pane. *)

Ask(c, seq, offset) == [cmd |-> c, seq |-> seq, offset |-> offset]

\* It opens on what the last snapshot said of the command, and asks for its start.
OpenPane(c) ==
    /\ ~pane.open /\ panes < MaxPanes /\ Kept(c)
    /\ Prompt => asked = {}
    /\ panes' = panes + 1
    /\ pane' = [Closed EXCEPT !.open = TRUE, !.seq = panes + 1, !.cmd = c,
                              !.running = buffer[c].running]
    /\ asked' = asked \cup {Ask(c, panes + 1, 0)}
    /\ UNCHANGED streamVars

ClosePane ==
    /\ pane.open /\ pane' = Closed
    /\ UNCHANGED <<streamVars, asked, panes>>

\* The tick chain of this pane, which a finished command ends.
Tick ==
    /\ pane.open /\ pane.running
    /\ Prompt => asked = {}
    /\ asked' = asked \cup {Ask(pane.cmd, pane.seq, pane.offset)}
    /\ UNCHANGED <<streamVars, pane, panes>>

\* The pane keeps its tail.
Fed(text, data) ==
    LET all == text \o data
    IN  SubSeq(all, IF Len(all) > PaneCap THEN Len(all) - PaneCap + 1 ELSE 1, Len(all))

\* Mutant: what the pane asks for next stays what it asked for.
ShownNoOffset(chunk) ==
    [pane EXCEPT !.text = Fed(@, chunk.data), !.running = chunk.running,
                 !.truncated = @ \/ chunk.truncated \/ Len(pane.text \o chunk.data) > PaneCap,
                 !.err = chunk.failed]

\* A chunk is folded into the pane, which remembers what it has lost.
Shown(chunk) ==
    [pane EXCEPT !.text = Fed(@, chunk.data), !.offset = chunk.next, !.running = chunk.running,
                 !.truncated = @ \/ chunk.truncated \/ Len(pane.text \o chunk.data) > PaneCap,
                 !.err = chunk.failed]

\* An answer: only the command's name ties it to the pane that is open.
Answer(a) ==
    /\ asked' = asked \ {a}
    /\ LET chunk == ReadStore(a.cmd, a.offset)
       IN  pane' = IF ~pane.open \/ pane.cmd # a.cmd THEN pane
                   ELSE IF chunk.found THEN Shown(chunk)
                   ELSE [pane EXCEPT !.err = TRUE, !.running = FALSE]
    /\ UNCHANGED <<streamVars, panes>>

AnswerFails(a) ==
    /\ asked' = asked \ {a}
    /\ pane' = IF pane.open /\ pane.cmd = a.cmd THEN [pane EXCEPT !.err = TRUE] ELSE pane
    /\ UNCHANGED <<streamVars, panes>>

NextOutput ==
    \/ \E c \in Command : \/ RegisterCommand(c) \/ Connect(c) \/ Frame(c)
                          \/ Exit(c) \/ Cut(c) \/ OpenPane(c)
    \/ ClosePane \/ Tick
    \/ \E a \in asked : Answer(a) \/ AnswerFails(a)

\* The daemon's goroutine connects and reads on; the transport ends a connection
\* that brings nothing (Cut), and a request over the local socket is answered in the end.
FairOutput ==
    /\ \A c \in Command : WF_outputVars(Connect(c)) /\ WF_outputVars(Frame(c) \/ Exit(c) \/ Cut(c))
    /\ WF_outputVars(Tick) /\ SF_outputVars(\E a \in asked : Answer(a))

SpecOutput == InitOutput /\ [][NextOutput]_outputVars /\ FairOutput

-----------------------------------------------------------------------------
(* Properties. *)

OutputTypeOK ==
    /\ stream \in [Command -> Stream]
    /\ \A c \in Command : Len(buffer[c].data) <= BufferCap /\ buffer[c].dropped \in 0..Size
    /\ Len(pane.text) <= PaneCap /\ pane.offset \in 0..Size /\ panes \in 0..MaxPanes

\* Whatever was cut and resumed, and however little is kept, a buffer holds the end of
\* what the command wrote up to the cursor, each byte once and in its place.
BufferIsTail ==
    \A c \in Command :
        LET b == buffer[c] IN b.data = Run(b.dropped, stream[c].cursor)

\* What a pane shows is output of its command, in order and each byte once; if it does not
\* say that some was dropped, it is all of the output up to the pane's offset.
PaneHonest ==
    pane.open =>
        /\ \A i \in 1..(Len(pane.text) - 1) : pane.text[i] < pane.text[i + 1]
        /\ ~pane.truncated => pane.text = Run(0, pane.offset)

\* A stream that was started ends, and its command is not reported running for ever.
Streaming(c) == stream[c].at \in {"away", "open"}
StreamEnds == \A c \in Command : Streaming(c) ~> ~buffer[c].running

\* A pane that stays open on a command stops asking once the command is over.
PaneSettles == (pane.open /\ pane.running) ~> (~pane.open \/ ~pane.running)
==============================================================================
