---------------------------- MODULE DashboardRows ----------------------------
(***************************************************************************)
(* The two panes of `chunk watch` (ui/watch/model.go): the rows of the     *)
(* sidecars, re-sorted by recency at every poll, the cursor and the scroll *)
(* offset that have to follow them, and the invocations of the selected    *)
(* sidecar, expanded and collapsed by keys and clicks.                     *)
(*                                                                         *)
(* Rendering is abstracted to the number of lines that a row and an        *)
(* invocation take, which is what scrolling and clicking depend on.        *)
(***************************************************************************)
EXTENDS Integers, Sequences, FiniteSets, SequencesExt

CONSTANTS
    Row,           \* sidecars
    Repo,          \* per sidecar: the repository its header names
    Group,         \* per sidecar: its worktree and branch, within Repo
    Own,           \* the sidecars of the session that runs the dashboard
    RowLines,      \* per sidecar: lines of its row, without headers
    Heights,       \* heights of the content area the terminal is resized to
    MaxShownEvents \* bound: events in the log

RowsAssumption ==
    /\ IsFiniteSet(Row) /\ Repo \in [Row -> Nat] /\ Group \in [Row -> Nat]
    /\ RowLines \in [Row -> Nat \ {0}] /\ Own \subseteq Row /\ Heights \subseteq Nat \ {0} /\ MaxShownEvents \in Nat

VARIABLES
    rows,     \* m.sidecars, in the order of the pane
    runs,     \* m.events: [row, closes] in the order they were logged
    selIdx,   \* m.selectedIdx, counted from 0
    selID,    \* m.selectedID, NoRow for none and before the first poll
    scroll,   \* m.leftScrollOffset
    focus,    \* m.focusedPane
    rightIdx, \* m.rightSelectedIdx
    toggled,  \* m.toggledInvocs: the times (indices in runs) of the events they end in
    height,   \* rows of the content area
    failed    \* m.daemonErr # nil: the error takes a line of the content

rowsVars == <<rows, runs, selIdx, selID, scroll, focus, rightIdx, toggled, height, failed>>

NoRow == "none"

-----------------------------------------------------------------------------
(* The order of the rows. *)

\* The time of a sidecar's last event, 0 for one with no event in the window: its file's
\* time, by which the code then goes, is taken to be older than every event.
Activity(log, s) ==
    LET at == {i \in DOMAIN log : log[i].row = s}
    IN IF at = {} THEN 0 ELSE CHOOSE i \in at : \A j \in at : j <= i

Latest(log, S) ==
    LET times == {Activity(log, s) : s \in S} IN CHOOSE t \in times : \A u \in times : u <= t

\* Repositories by their latest activity, worktrees by theirs, the viewer's own row
\* first in its worktree, then recency; a tie, of rows, worktrees or repositories, is
\* before on neither side.
Before(log, listed, a, b) ==
    LET repo(s) == Latest(log, {x \in listed : Repo[x] = Repo[s]})
        group(s) == Latest(log, {x \in listed : Repo[x] = Repo[s] /\ Group[x] = Group[s]})
    IN IF Repo[a] # Repo[b]
       THEN repo(a) > repo(b)
       ELSE IF Group[a] # Group[b]
       THEN group(a) > group(b)
       ELSE IF (a \in Own) # (b \in Own)
       THEN a \in Own
       ELSE Activity(log, a) > Activity(log, b)

\* What the stable sort makes of the rows in the orders they may be listed in.  It puts a
\* row behind the last that it is not before, so that neighbours are in order; the rows of
\* tied repositories or worktrees, which the comparison does not tell apart, may be left
\* as they were listed, one between two of another.
Sorted(log, listed) ==
    {list \in Injection(1..Cardinality(listed), listed) :
        \A i \in DOMAIN list : i > 1 => ~Before(log, listed, list[i], list[i - 1])}

\* A bug the mutants put in: the cursor stays where it was in the pane.
SameIndex(list, s) == IF selIdx + 1 \in DOMAIN list THEN selIdx ELSE 0

IndexOf(list, s) ==
    LET at == {i \in DOMAIN list : list[i] = s}
    IN IF at = {} THEN 0 ELSE (CHOOSE i \in at : TRUE) - 1

IDAt(list, i) == IF i + 1 \in DOMAIN list THEN list[i + 1] ELSE NoRow

-----------------------------------------------------------------------------
(* The lines of the sidecar pane. *)

\* The lines of row i when the first row drawn is row `first`: a repository header,
\* with a blank before all but the first drawn, two lines above a worktree with
\* several sessions, the row, and a divider from the next row of its repository.
Lines(list, first, i) ==
    LET s == list[i + 1]
        newRepo == i = first \/ Repo[list[i]] # Repo[s]
        newGroup == newRepo \/ Group[list[i]] # Group[s]
        multi == Cardinality({x \in Range(list) : Repo[x] = Repo[s] /\ Group[x] = Group[s]}) > 1
    IN (IF newRepo THEN 1 ELSE 0) + (IF newRepo /\ i # first THEN 1 ELSE 0)
       + (IF multi /\ newGroup THEN 2 ELSE 0) + RowLines[s]
       + (IF i + 1 < Len(list) /\ Repo[list[i + 2]] = Repo[s] THEN 1 ELSE 0)

\* The first row there is no room for, Len(list) when all from `first` on are drawn.
PaneEnd(list, first, lines) ==
    LET used[i \in first - 1 .. Len(list) - 1] ==
            IF i < first THEN IF first > 0 THEN 3 ELSE 2 ELSE used[i - 1] + Lines(list, first, i)
        budget(i) == IF i < Len(list) - 1 THEN lines - 1 ELSE lines
        over == {i \in first .. Len(list) - 1 : used[i] > budget(i)}
    IN IF over = {} THEN Len(list) ELSE CHOOSE i \in over : \A j \in over : i <= j

ContentHeight(h, err) == IF err /\ h > 1 THEN h - 1 ELSE h

\* adjustLeftScroll: down until the selected row is drawn, up while that hides nothing.
Down(list, sel, lines, from) ==
    LET stop == {o \in from .. sel : o = sel \/ sel < PaneEnd(list, o, lines)}
    IN CHOOSE o \in stop : \A p \in stop : o <= p

Up(list, lines, from) ==
    LET full == {o \in 0 .. from : \A p \in o .. from - 1 : PaneEnd(list, p, lines) = Len(list)}
    IN CHOOSE o \in full : \A p \in full : o <= p

\* Bugs: the offset follows the cursor in one direction only, or is never moved back up.
ScrolledDown(list, sel, lines, offset) == Up(list, lines, offset)
ScrolledNotUp(list, sel, lines, offset) ==
    Down(list, sel, lines, IF sel < offset THEN sel ELSE offset)

Scrolled(list, sel, lines, offset) ==
    Up(list, lines, Down(list, sel, lines, IF sel < offset THEN sel ELSE offset))

-----------------------------------------------------------------------------
(* The invocations of a sidecar: runs of its events, each ended by a summary. *)

\* The times of the sidecar's events, and the times at which its invocations end:
\* those of the summaries, and of the last event while it is not followed by one.
Times(log, s) == {i \in DOMAIN log : log[i].row = s}
EndTimes(log, s) == {i \in Times(log, s) : log[i].closes \/ i = Activity(log, s)}

\* From the most recent one, as the activity pane shows them.
Invocations(log, s) == SetToSortSeq(EndTimes(log, s), >)

EventsOf(log, s, end) ==
    {i \in Times(log, s) : i <= end /\ ~\E j \in EndTimes(log, s) : i <= j /\ j < end}

\* The newest is expanded, the older ones are not, and a toggle flips that.
Expanded(list, r) == IF r = 1 THEN list[r] \notin toggled ELSE list[r] \in toggled

\* The lines under the header of the r-th invocation: the pane leaves out the summary,
\* which its header shows, and the search for a clicked header counts it.
Drawn(s, list, r) ==
    IF Expanded(list, r) THEN Cardinality({i \in EventsOf(runs, s, list[r]) : ~runs[i].closes}) ELSE 0
Counted(s, list, r) ==
    IF Expanded(list, r) THEN Cardinality(EventsOf(runs, s, list[r])) ELSE 0

\* The line of the r-th header: a blank before all but the first.
HeaderLine(under(_, _, _), s, list, r) ==
    LET at[k \in 1..r] == IF k = 1 THEN 0 ELSE at[k - 1] + under(s, list, k - 1) + 2
    IN at[r]

\* The invocations whose header the click at the line is taken for: one or none.
Hit(s, line) ==
    LET list == Invocations(runs, s)
    IN {r \in DOMAIN list : HeaderLine(Counted, s, list, r) = line}

Flipped(time) == (toggled \union {time}) \ (toggled \intersect {time})

-----------------------------------------------------------------------------

InitRows ==
    /\ rows = <<>> /\ runs = <<>> /\ selIdx = 0 /\ selID = NoRow /\ scroll = 0
    /\ focus = "left" /\ rightIdx = 0 /\ toggled = {} /\ failed = FALSE
    /\ height \in Heights

\* A poll's answer: the sidecars that are listed now and the events logged since.
Polled(log, listed) ==
    /\ runs' = log
    /\ rows' \in Sorted(log, listed)
    /\ selIdx' = IndexOf(rows', selID)
    /\ selID' = IDAt(rows', selIdx')
    /\ failed' = FALSE
    /\ scroll' = Scrolled(rows', selIdx', ContentHeight(height, FALSE), scroll)
    /\ UNCHANGED <<focus, rightIdx, toggled, height>>

Data ==
    \E listed \in SUBSET Row :
        \/ Polled(runs, listed)
        \/ /\ Len(runs) < MaxShownEvents
           /\ \E s \in listed, closes \in BOOLEAN :
                Polled(Append(runs, [row |-> s, closes |-> closes]), listed)

PollFailed ==
    /\ failed' = TRUE
    /\ scroll' = Scrolled(rows, selIdx, ContentHeight(height, TRUE), scroll)
    /\ UNCHANGED <<rows, runs, selIdx, selID, focus, rightIdx, toggled, height>>

Resize ==
    /\ height' \in Heights
    /\ scroll' = Scrolled(rows, selIdx, ContentHeight(height', failed), scroll)
    /\ UNCHANGED <<rows, runs, selIdx, selID, focus, rightIdx, toggled, failed>>

Focus ==
    /\ focus' \in {"left", "right"}
    /\ UNCHANGED <<rows, runs, selIdx, selID, scroll, rightIdx, toggled, height, failed>>

\* An arrow key in the left pane; one at the end of the list moves nothing.
Select(to) ==
    /\ focus = "left"
    /\ selIdx' = IF to \in 0 .. Len(rows) - 1 THEN to ELSE selIdx
    /\ selID' = IDAt(rows, selIdx')
    /\ rightIdx' = 0
    /\ scroll' = Scrolled(rows, selIdx', ContentHeight(height, failed), scroll)
    /\ UNCHANGED <<rows, runs, focus, toggled, height, failed>>

\* And in the right pane, where the cursor is bounded above only when it is drawn.
MoveRight(to) ==
    /\ focus = "right" /\ to \in 0..MaxShownEvents /\ rightIdx' = to
    /\ UNCHANGED <<rows, runs, selIdx, selID, scroll, focus, toggled, height, failed>>

Toggle ==
    LET list == Invocations(runs, selID)
    IN /\ focus = "right" /\ selID # NoRow
       /\ rightIdx + 1 \in DOMAIN list
       /\ toggled' = Flipped(list[rightIdx + 1])
       /\ UNCHANGED <<rows, runs, selIdx, selID, scroll, focus, rightIdx, height, failed>>

\* A click on a line of the activity pane.
Click(line) ==
    /\ selID # NoRow
    /\ \E r \in Hit(selID, line) :
        /\ focus' = "right" /\ rightIdx' = r - 1
        /\ toggled' = Flipped(Invocations(runs, selID)[r])
    /\ UNCHANGED <<rows, runs, selIdx, selID, scroll, height, failed>>

NextRows ==
    \/ Data \/ PollFailed \/ Resize \/ Focus \/ Toggle
    \/ Select(selIdx + 1) \/ Select(selIdx - 1)
    \/ MoveRight(rightIdx + 1) \/ MoveRight(rightIdx - 1)
    \/ \E line \in 0 .. 3 * MaxShownEvents : Click(line)

SpecRows == InitRows /\ [][NextRows]_rowsVars

-----------------------------------------------------------------------------
(* Properties. *)

\* Type invariant: the cursor and the offset are rows of the list, or 0.
RowsTypeOK ==
    /\ Range(rows) \subseteq Row /\ Len(rows) = Cardinality(Range(rows))
    /\ runs \in Seq([row : Row, closes : BOOLEAN])
    /\ selIdx \in 0 .. (IF rows = <<>> THEN 0 ELSE Len(rows) - 1)
    /\ selID = IDAt(rows, selIdx)
    /\ scroll \in 0..selIdx
    /\ focus \in {"left", "right"} /\ rightIdx \in 0..MaxShownEvents
    /\ toggled \subseteq DOMAIN runs
    /\ height \in Heights /\ failed \in BOOLEAN

\* Whatever polls, resizes, errors and keys did to the list, the row under the cursor
\* is drawn in full, or nothing is drawn above it and it is too tall for the terminal.
SelectedDrawn ==
    rows # <<>> =>
        \/ scroll = selIdx
        \/ selIdx < PaneEnd(rows, scroll, ContentHeight(height, failed))

\* And no row is hidden above it while there is room for all that follow.
NoRoomWasted ==
    scroll > 0 => PaneEnd(rows, scroll - 1, ContentHeight(height, failed)) < Len(rows)

\* A poll that reorders the rows leaves the selection, and with it the activity and the
\* output that Enter opens, on the sidecar it was on, as long as that is listed.
SelectionKept ==
    [][rows' # rows /\ selID \in Range(rows') => selID' = selID]_rowsVars

\* "(0-indexed within buildCollapsibleLines output)": a click on a header that is drawn
\* is a click on that invocation.
ClickHitsHeader ==
    selID # NoRow =>
        LET list == Invocations(runs, selID)
        IN \A r \in DOMAIN list : Hit(selID, HeaderLine(Drawn, selID, list, r)) = {r}

=============================================================================
