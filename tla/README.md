# A verification model of chunk

`chunk` is a command-line tool with a background daemon.  It runs a project's
tests and reviews on cloud sandboxes ("sidecars"), has an agent fix what the
reviews found, and writes the fixes into the user's working tree.  This directory
holds TLA+ models of its parts, the TLC configurations that check them, and
theorems TLAPS proves about them.

    tlc -workers 4 -config session_one.cfg MCSession.tla     # check one run
    tlapm SessionProofs.tla                                  # check the proofs of one module

`PROJECT.json` lists the runs, maps every definition to the lines it models, and
names the hazards of the code with the properties that cover them.

## The system

| part | module | state | operations | what is hard |
|---|---|---|---|---|
| watchd sessions (`session_*.go`) | `Session`, `ReviewSessions` | store of sessions, a goroutine and a record each, restore refs in git | start, round, fix, apply, pause, resume, cancel, restore, evict, stop | the user edits the same files; handlers race with the loop; writes that are cut short; the daemon dies |
| validation tasks (`tasks.go`, `validate.go`, `claims.go`) | `ValidateTasks` | tasks and debts per project, claims per session | start, supersede, finish, collect, evict | verdicts for a tree that has moved on; results finishing out of order; at-least-once delivery |
| daemon lifecycle (`daemon.go`, `client.go`, `pid*.go`) | `DaemonLifecycle` | PID file, socket file | launch, check, ping, replace, stop, clean up | several clients at once; a daemon removing its successor's files |
| output (`output.go`, `sse.go`, `outputmodel.go`) | `CommandOutput` | bounded buffer per command with offsets, a pane that follows it | stream, reconnect, append, evict, read | a reader behind the eviction; a connection cut anywhere |
| watch loop, samplers (`liveness.go`, `load.go`, `resources.go`) | `WatchState` | published sidecars, the API's last list | poll, list, confirm, sample | what is shown is judged by an older list |
| conflicts, pull requests (`conflicts.go`, `prmonitor.go`) | `BranchWatch` | a report per checkout, a fetch per branch | fetch, read, preview, reuse | the user commits and switches in between |
| sidecar pool (`sidecar/pool.go`) | `SidecarPool` | entries, checked-out count, terminal errors, one wake-up channel | acquire, release, replace, retire, destroy, background create and sync | lost wake-ups; everyone waiting; close against creation |
| sidecar records (`active.go`, `reap.go`) | `SidecarRecords` | a file per session and branch | create, use, save, re-key, delete, reap | files written between a look and a deletion |
| keys (`sidecar/session.go`) | `KeyPair` | the user's SSH key, a lock file | generate, wait, break the lock, migrate, register | processes that find no key, or a dead one's lock |
| sync (`rsync.go`) | `WorkspaceMirror` | the tree and its copy | push, pull | broken off anywhere; ignored files |
| review pass (`review/run.go`) | `ReviewPass` | results by prompt, first fatal error | acquire, run, cancel the rest, collect | a fatal error racing others' results |
| detached review (`review/detach.go`) | `DetachedReview` | a record here, a run directory there | launch, save, look | the directory is read file by file while the run goes on |
| factory (`factory/*.go`, `watchd/factory*.go`) | `Factory` | worktree, attempts, feedback, record | implement, pull, push, check, judge, commit | trees of three kinds that must be the same one |
| validation runs, hooks (`cmd/validate.go`, `validate/*`) | `ValidateRun` | attempts, cache, plan | hook, delegate, prepare, run local and remote | what a hook is told, and when it gives up |
| mutation testing (`mutate/runner.go`) | `MutationRun` | patches on sidecars | apply, test, reverse, replace | a sidecar that is still patched |
| variants (`variants/*.go`) | `VariantRun` | a sidecar per variant | create, patch, run, delete, sweep | a sweep beside a run |
| setup from CI (`ciconfig/*`, `validate/ciconfig.go`) | `CommandSetup` | agenda of steps | walk, classify, fill in | steps missed without a word |
| environments (`envbuilder/*`) | `EnvBuilder` | facts, tags, layers | detect, choose a tag, write | pages that fail; layers that need each other |
| project config (`config/project.go`, `cmd/init.go`, `cmd/sidecar.go`) | `ProjectSetup` | `.chunk/config.json` | init, set, setup | whole-file rewrites |
| credentials (`config`, `cmd/auth.go`) | `Credentials` | config file, keychain | resolve, log in, save, remove, backfill | precedence; what outlives a logout |
| HTTP clients (`httpcl`) | `HttpClient` | the token, attempts | send, retry, reload | two 401s and a login at once |
| event log (`eventlog`) | `EventLog` | a file shared by processes | append, trim, tail | trimmed under the reader |
| dashboard (`ui/watch/*`) | `DashboardRows`, `SessionView` | selection, scroll, folding, timers | poll, keys, clicks | lists that move under the cursor |
| risk, score, file state, settings, OAuth, telemetry, upgrade, prompts, other UI | - | - | - | see "Not modelled" |

The CLI talks to the daemon over HTTP on a Unix socket.  The daemon's handlers and
its session goroutines share each session's record under a mutex, and share the
user's working tree, with no lock, with the user's editor.  Reviews, fixes,
mutations and distributed validation take sandboxes from a pool.  Commands of
several terminals share the files in the project and in the user's directories.

What would make each part correct:

* sessions: one at a time; nothing written before it can be undone, whatever dies;
  no edit of the user lost; a cancel, resume or restore that was accepted is acted
  on, once; a session that is over says so everywhere;
* tasks: a verdict belongs to the tree it is reported for, a failing tree stays in
  debt until a later tree passes, each outcome reaches its session at least once;
* lifecycle: a daemon leaves its successor's socket alone, and a client that waits
  gets a daemon;
* pool: no sandbox used by two, never more checked out than there are, every
  waiting acquirer gets an entry or an error;
* reviews, validation, mutations, variants, factory: every result is accounted for,
  is of the tree it is reported for, and a failed run is not reported as a pass;
* shared files: what a command writes takes nothing away that another meant to keep;
* dashboard: events in order, a report true of what it names, the selected row on the
  screen, and a key strikes what was under it.

## Modules

The first three components have an MC module, runs and proofs each; the others are
modelled module by module and checked in two composed modules, which the sections
after them describe.

### Session

`Session.tla` models the sessions of one project: `sessionStore`, `runLoop`,
`runRound`, `applyFixes`, `pauseSession`, `settleSession`, and the handlers that
start, resume, cancel and restore.  `MCSession.tla` adds the symmetry sets.

| variable | in the code |
|---|---|
| `tree`, `edits` | the user's working tree; a file is the set of user edits and the set of fixes it contains |
| `refs` | `refs/chunk/restore/<session>` |
| `store` | `sessionStore.sessions` and `byProject`; session n is the n-th ever started |
| `sess` | `sessionEntry`: state, rounds, restore point, `leftTree`, `cancelled`, its context, the `resume` channel (capacity 1) |
| `loop` | the goroutine: its position, `loopState.expected`, `touched`, the patch in hand, `done`, the error it ends with |
| `calls` | each handler's call in flight, between its critical sections |
| `stopping`, `crashes` | the daemon's context; kills so far |
| `hist` | history for the properties: files written, writes cut short, edits adopted |

One action is one critical section, one git command or one look at the tree.  So
`resumeSession` is two steps (`ResumeAccepted` reads the state, `SendResume`
sends), `cancelSession` is two, a restore is a check and a write, and a round is
review, fix, look, save, apply, record, with the user free to edit in between.
Sessions are kept in memory only: `Crash` forgets them and keeps `tree` and `refs`,
and a `git apply` under way may have written any part of its files.

Approximations: a review or a fix is the outcome it can have; the pool of the
reviews opens or does not (`SidecarPool` is checked by itself); `changedBetween` is
merged with the pause it precedes; one git command is atomic, except `git apply`,
which a done context or a kill can cut short, and the writes of a restore.

| run | instance | shows |
|---|---|---|
| `session_one` | 1 session, 2 rounds, 2 files, 2 edits, 2 calls | rounds are numbered and bounded; a session that is over has no open round, and is cancelled if and only if a cancel was accepted (`SettledHonestly`); recorded files cover the written ones; an unforced restore never meets a newer edit, and undoes all recorded fixes; the session implements `ReviewSessions` (`Promise`) |
| `session_store` | 2 sessions of 2 rounds, a store of 1, a kill at any point | at most one is active; the store keeps its cap although an active session is never dropped; what was written has its restore point, also after a kill; the sessions implement `ReviewSessions` |
| `session_live` | 1 session of 1 round, fairness | a session told to stop ends, paused or not (`CancelEnds`); an accepted resume ends its pause (`ResumeWakes`) |

The bounds: two files are needed to write one without the other and to tell the
files of two rounds apart; two rounds for whatever accumulates over rounds; two
edits so that one is adopted and another follows; two calls so that two handlers
race; one kill, because a restarted daemon has no memory of the sessions before it.

Fairness (`FairSpec`): weak fairness of each loop and each handler.  Every sandbox
call has a timeout and git commands end, so a goroutine runs on; a pause takes a
step only if a resume or a done context is there.  Nothing obliges the user.

**What it implements.**  `ReviewSessions.tla` is what the daemon promises of its
sessions to those who list them and act on them: `Starts`, `Pauses`, `Asks`,
`Resumes`, `Stops`, `Ends`, `Dies`, over a state per session, the resumes accepted that
have not ended a pause (`owed`), and whether it was told to stop.  The mapping `P` in
`Session` shows every state that is over as "ended", and takes `owed` from the history
of a session's resumes, which count for nothing once its context is done.  `Promise`
says that every behaviour of `Session` is one of `ReviewSessions`: one session of a
project is live at a time, none comes back, no pause ends for nothing, and two pauses
never end for one resume, although the state is read under the lock, the resume is sent
without it, and the channel may be full.  `SessionView` is the dashboard that relies on
it.

**Proofs.**  `SessionProofs.tla` proves `TypeCorrect` (`Spec => []TypeOK`).  `TypeOK`
alone is not inductive: closing the last round needs a round, saving a restore point
needs a tree that was looked at, putting files back needs a restore point.  `TypeInv`
adds those (`RoundOpen`, `HasLooked`, `CallsKnown`, `PointSaved`).  Every step of a
loop changes one session, its loop and its history, so `LoopUpdate` proves once what
such a step keeps, and each action only shows the three new values.

On top of the types it proves

* `OneAtATime` (`Spec => []OneActive`): with `ActiveStored`, an active session is in
  the store, so `add` sees it, and eviction drops only what has ended;
* `RestorePointKept` (`Spec => []RestorePointDurable`): a session that has written
  nothing has left no fix anywhere (`NoTrace`: not in the tree, in no restore point,
  in no tree a loop will save), so the restore point it saves first is clean, and
  nothing replaces it; the write needs the restore point (`PointFirst`);
* `PromiseKept` (`Spec => Promise`): every step is a step of `ReviewSessions` or a
  stutter.  `StateFits` ties where the loop is to the state it shows, `Begun` what has
  a history to what was started, and `ResumesOwed` bounds what can end a pause: the
  resumes a handler is about to send, the one in the channel and the one the loop has
  taken are together no more than what was accepted and has ended no pause.  That is
  what makes the unlocked send harmless to the abstraction.

and of what is recorded of a session:

* `EndIsHonest` (`SettledHonestly`): `Honest`, that a session that is over has no open
  round and says it was cancelled exactly if it was told to, is kept because a cancel is
  accepted only under the lock the end is written under, from an active session;
* `StoreWithinCap` (`StoreCap`): one session is active, so of a full store there is
  always one that ended, and among those a first one, to drop;
* `FixesAreRecorded` (`FixesRecorded`): `WroteInv`, that the loop remembers what it
  wrote and the session lists it, but for the write the loop is about to record;
* `RestoreUndoes` (`RestoreUndoesFixes`): from `PointClean`;
* `RestoreSpares` (`RestoreOnlyUnedited`): `PastInv`, that a tree somebody remembers
  holds no edit later than the time it was looked at;
* `RoundsAreCounted` (`RoundsCounted`): `RoundsInv` says that rounds are numbered by
  how many that were not superseded come before them (`Numbered`), and that the loop's own
  count is theirs, or one less within a round.  A step begins a round, changes the last,
  gives it up, closes all or leaves them (`Begins`, `Moves`, `Gives`, `Closes`, `Leaves`).

They rest on `BoundsAssumption` (the bounds are naturals, the store holds at least
one) and `NoTreeAssumption` (`NoTree` is not a tree).

### SidecarPool

`SidecarPool.tla` models one pool (`sidecar/pool.go`) from the moment it is
assembled, with the tasks that use it, the goroutines that sync the sidecars it
reuses, the collector of the clones, the goroutine that ends the background sync,
and the command that closes or destroys it.

| variable | in the code |
|---|---|
| `free` | `Pool.free`, the channel of entries, as a bag |
| `token` | `Pool.updates`, a channel of capacity 1 |
| `ids`, `entries` | `Pool.ids`, `Pool.entries`, without the positions |
| `pendingSyncs`, `pendingCreates`, `checkedOut`, `closed`, `syncErr` | the fields of those names |
| `concurrent`, `ctxDone` | how the tasks are run (at once, as in `RunDistributed`, or one by one); the command's context |
| `cancelled`, `creating`, `landed`, `bad` | the creations: their context, those in flight, those not collected yet |
| `remote`, `made`, `orphans`, `gone`, `undeleted` | the sidecars on the server; `orphans` were created while the client had stopped listening |
| `file`, `stateMu`, `snap` | the pool's state file, the lock of its writers, what each is about to write |
| `pc`, `hand`, `fresh`, `errands` | each goroutine: its place, the entry it has, the sidecar it just created, what it still has to do |

One action is one critical section of `Pool.mu` with the remote calls before it.
What follows the unlock (`notifyUpdate`, `persistState`, a deletion) is a list of
errands, one step each, so that others come in between: `Acquire` takes an entry,
`FindsNone` goes to sleep, `Wake` consumes the token, `Release`, `Rebuild` and `Swap`
(`Replace`), `Retire`; `Install`, `Synced`, `SyncFails`, `EndSync` for the background
sync; `CloneLands`, `CloneFails`, `CollectClone`, `CollectFailure`, `EndCollect` for
the creations; `Destroy`, `DeleteMembers`, `Close`, `Kept` for the owner.  `Vanish`
(a sidecar disappears) and `Interrupt` (Ctrl-C) are the environment's.

| run | instance | shows |
|---|---|---|
| `pool_replace` | 2 tasks, no reused sidecars, capacity 2, 5 creations, one vanishes, interrupts | one owner per sidecar; `checkedOut` is exact; the state file keeps up with `ids` whoever writes last; `Destroy` leaves nothing whose ID was learnt; the sync error is reported only when nothing can come any more |
| `pool_reuse` | 2 tasks, 2 reused sidecars, 2 creations, a deletion that fails, timeouts | with background syncs, some of which find their sidecar stale and replace it, the channel never overflows (a send under `mu` would block for good) |
| `pool_live` | 3 tasks, capacity 2, fairness | every `Acquire` returns, with an entry or an error; `Destroy` and `Close` return |

The bounds: two tasks contend for one free entry; a seed and a clone are the two ways
a creation goes; five creations let a task replace a sidecar while a clone lands
and the replacement be replaced; three tasks over capacity two let two workers
share the one token.  `CHECK_DEADLOCK` is off: a pool that is closed stops.

Fairness: weak fairness of each task, each sync, each goroutine's errands, the
creations and the owner's wait; remote calls have timeouts or a context.

**Proofs.**  `SidecarPoolProofs.tla` proves `PoolTypes`, `OneOwnerAlways` and
`CountedAlways` for any numbers of tasks, sidecars and creations.  The type needs
`FreshMade` (a goroutine that is about to install a sidecar has created one).
`OneOwner` (an entry is free once, or in one hand, or neither) needs `LandedApart` (a
clone nobody collected is in nobody's hand) and `Unborn` (the next ID has no owner).
`GivesBack`, `Born` and `PutFree` state once how ownership moves.  The other four are

* `SendsHaveRoom` (`MembersInPlace`): members and creations to come are no more than the
  capacity, and what is free or in use is a member.  `pendingCreates` is the creations in
  flight, landed or failed and not collected (`ClonesOwed`), and a clone that lands takes
  the place it was counted for;
* `ErrorIsFinal` (`TerminalIsFinal`): `pendingSyncs` is the syncs that have not reported
  (`SyncsOwed`), so when `Acquire` finds both counts zero and nobody with an entry,
  nothing can become free any more;
* `RecordIsUpToDate` (`RecordUpToDate`), if no sidecar is reused: whoever is to write
  holds the file's lock and writes next (`WriteFirst`), what is about to be written is
  the members or will be saved again (`SnapGood`), and so is the file (`Recorded`).
  With reused sidecars it is false: a replacement made by a background sync is saved
  when the syncs are over, and not at all if one failed (`KeptRecorded`, see "Further
  divergences");
* `DestroyDeletesWhatItLearnt` (`DestroyLeavesNone`), if deletions succeed and the wait
  does not time out: at every step a sidecar on the server is a member, or somebody has it
  in hand or in an errand, or is to collect it, or nobody ever heard of it (`Accounts`);
  past the start of `Destroy` nobody replaces anything (`ClosedInv`), and its wait is over
  only when the collector and the syncs are (`BackInv`).  Without either hypothesis it is
  false: what cannot be deleted, or lands after the wait, is still there.

`Idle` (a goroutine whose step it is has no errand left, the collector's deletions apart)
is under all of them.  They rest on `SizeAssumption`, `BoundsAssumption` and
`ProcessAssumption` (the goroutines are distinct).

Left out: the semaphore of concurrent creations, a state file that cannot be written,
the active record (`saveActivePoolState`), the errors of assembling a pool, the order
of the channel and of the slices.  The last hides one thing worth knowing:
`startBackgroundSync` indexes `p.ids` by the position in `p.entries`, and after a
`Destroy` that timed out and could not delete some members the two no longer agree.

### ValidateTasks

`ValidateTasks.tla` models how the daemon validates one project: `handleValidate`,
`handleAsyncValidate`, `handleCollect`, `startValidateTask`, `runValidateNow`, the
`taskStore`, and what a run leaves in `riskMemory` and `claimStore`.

| variable | in the code |
|---|---|
| `tree` | the working tree: its content, a number; equal contents have equal digests |
| `owes`, `green` | `riskMemory.failed` and `riskMemory.green` of the project |
| `claims` | `claimStore.claims`: the sessions that have one |
| `validateMu`, `saw` | the run that holds `daemon.validateMu`; the contents it has read so far |
| `store`, `task`, `started` | `taskStore.tasks` and `byProject`, a `taskEntry` each; task n is the n-th started |
| `run` | the goroutine of each task: waiting for its turn, running, between the looks and the locks of `finish`, about to call `onFinish` |
| `call` | each session's request, between its steps |
| `written` | history: the results that reached a caller |

One action is one critical section or one look at the tree, so the user can edit
between the snapshot, the copy, the fingerprint, the turn, the end of the checks, the
second fingerprint, the record and the collection.  A run reads the tree, or a copy
(`Worktree`); `Verdicts` is what it can conclude: if it read one content, that
content's verdict, and otherwise anything, because a run that reads half of one
content and half of another says nothing of either.

`Waiting`, `Releasing` and `Collecting` bound who does what: a session of the code may
do all three, and the theorems cover that.  `Room` bounds the background runs: nobody
asks for one who could not start it.  `MayRevert = FALSE` in the runs: the tree never
returns to a content it had.  If it does, a digest cannot tell (see `MayRevert` below).

| run | instance | shows |
|---|---|---|
| `tasks_verdict` | 2 sessions, one released twice, one waiting or collecting; 3 contents, one fails; looks can fail | a result that is handed over as current is the verdict of the caller's tree; every claim has somebody who will release it |
| `tasks_store` | 3 runs, of copies, over a cap of 2; responses are lost | the cap holds although runs are never evicted; nothing is stamped as delivered that was not written; what is dropped was useless, or there was nothing else to drop |
| `tasks_false_pass` | copies, one edit | violated: an edit between the snapshot and the fingerprint makes the copy's verdict pass for the tree's |

The bounds: a superseding run needs a superseded one, so two; three contents are what
it takes to edit before and during a run; a cap of two with three runs is full with
runs, with results, and with one of each.

No fairness and no liveness: a result is kept until it is collected, and nothing in
the daemon obliges anybody to collect it.

**Proofs.**  `ValidateTasksProofs.tla` proves, for any numbers of sessions, runs,
edits and any policy,

* `TasksTypes`: with `RoomKept` (whoever is on the way to a run has room for it),
  `Unstarted` and `CopyOfTree`;
* `DeliveredAlways` (`DeliveredMeansWritten`): with `AckWritten`, what a handler is
  about to acknowledge has been written;
* `ClaimsAlways` (`ClaimsFreed`), which is inductive by itself given the types;
* `VerdictAlways` (`VerdictOfTheTree`), if the tree never returns to a content it
  had.  The invariant is `RunOk`: what a run in the tree has read lies between the
  content it will be judged by and the tree (a run that is superseded is no longer in
  the store); so if the two are equal when it ends, it has read that content and
  nothing else, and its verdict stays right for as long as the tree is that content.
  `TurnsOk` says that who runs holds `validateMu`, `LooksPast` that no handler has
  seen a content the tree has yet to reach.  The hypothesis is needed: see `MayRevert`
  under "Further divergences";
* `StoreKeepsCap` (`CapHolds`): a start is refused when every place is a run of a copy,
  so there is always something to drop, and dropping one at a time makes room;
* `UsefulIsKept` (`OnlyUselessDropped`): what goes is a superseded run, or a delivered
  result, or an unread one of a full store in which all were unread.

They rest on `BoundsAssumption`, `FlagsAssumption` and `ProcessAssumption`.

Left out: the size of a change and the evidence of earlier runs (a session that
`decideRisk` holds for them is one that waits, like any in `Waiting`), which paths a claim names and its expiry, the output's tail, the daemon's stop.


### The daemon: DaemonLifecycle, CommandOutput, WatchState, BranchWatch

**DaemonLifecycle** (`watchd/daemon.go`, `client.go`, `pid*.go`).  `pidFile` and
`sockFile` are the two files, each naming a daemon or nobody; `daemon` is the place of
each process in `runDaemon`, `client` the place of each command in `EnsureRunning`,
`EnsureLaunched` or the stop that a login asks for.  One action is one file operation,
one ping or one signal: `WritePID`, `RemoveSocket`, `Listen`, `StatSocket`, `Serve` on
the way up; `CloseServer`, `Drained`, `RemoveOwnSocket`, `ReadOwnPID`, `RemovePID` on
the way down; `Check`, `Ping`, `Stop`, `Stopped`, `Launch`, `Launched`,
`LaunchDeadline` for a command; `Crash` anywhere.  `SuccessorKept`: a daemon that winds
down, once its server is closed, leaves the socket of its successor alone, which is what `os.SameFile` is
for.  `LauncherServed` (in `EveryoneServed`): a command that needs a daemon gets one.
What goes wrong beside it: closing the server unlinks the path at once, whoever's socket
is there, also for a daemon that was told to exit before it served; between reading the PID
file and removing it a successor may write it (`ReadOwnPID`, `RemovePID`); and two
launchers in step with each other may each remove the other daemon's socket before
listening, so that one daemon serves a socket nobody can name.  Left out: a PID file
that is read while it is empty, and a file system that gives the new socket the old
one's inode, with which `SameSocket` cannot tell them apart.
`HostProofs.tla` proves `SuccessorSafe` (`SuccessorKept`) for any daemons,
commands, crashes and reused PIDs: a socket is named for the daemon that listened on it,
a daemon listens once (`Bound`), and one that has closed its server remembers a socket
that is gone for good (`Forgotten`), because the close unlinks whatever stands there.

**CommandOutput** (`watchd/output.go`, `circleci/client.go`, `sse/sse.go`,
`ui/watch/outputmodel.go`).  A command writes 1..`Size`; `stream` is the daemon's
reader with its cursor, stalls and attempts, `buffer` the tail it keeps and the count
of what it dropped, `byProject` the commands kept, `pane` the dashboard's window with
its own offset, `asked` the requests not answered.  `RegisterCommand` with
`EvictOldest`,
`Connect`, `Frame`, `Exit`, `Cut`, `OpenPane`, `Tick`, `Answer`.  `BufferIsTail` and
`PaneHonest` say that nothing is shown twice or missing unmarked, wherever connections
are cut; `StreamEnds` that no command is reported running for ever.
`HostProofs.tla` proves the type, `BuffersAreTails` and, if answers come before a pane is
closed (`Prompt`), `PanesHonest`, for any commands, sizes, caps and cuts.  `OutInv` says
that a pane has at most one request outstanding and that it asks from where the pane's own
text ends; `OutHonest` that a pane's text is in order, never past its offset, and all of
1..offset unless the pane says it was truncated.

**WatchState** (`load.go`, `liveness.go`, `resources.go`).  A poll is two steps,
`LoadSidecars` and `Publish`; the list of sidecars is fetched beside it (`API`,
`Fetched`) and judged by the time before the request.  `ExistingKept`: no sidecar that
exists is dropped, although the list, the file and the deletion race.
`UnwatchedUnsampled`: once nobody looks, samplers end.  Time is counted in list
intervals; `Neighbour` is one more sidecar, so that the list is asked for on time.
`HostProofs.tla` proves the type and `NoneDropped` (`ExistingKept`).  `WatchInv` carries
the argument the code's comment gives: a sidecar that exists and is not on the list, or
not in the answer somebody has fetched, has a file that is no older than the list or the
request, and a list never confirms the end of what is younger than itself.

**BranchWatch** (`conflicts.go`, `prmonitor.go`).  A check is `ReadBranch`,
`FetchTarget`, `ReadTarget`, `ReadHead`, `Preview`, with `Checkout`, `Commit` and `Push`
between any two.  `ReportTrue`: a published report is true of the two commits it names.
Two things are not promised and do not hold.  The branch a report names need not be the
one its head is of (`ReportOfItsBranch`): the two are read one after the other, and a report
that is reused for the same two commits keeps its name (`SamePair` in `Preview`).  And the pull
request is kept per project while it is fetched per branch, so the answer for a branch
that was left may replace the one of the branch that is checked out (`FetchedPR`).
`CommandPartsProofs.tla` proves `ReportsTrue` for any branches and commits: `ReportTrue` is
inductive as it stands, since `Preview` publishes the two commits it compared.

### Sidecars and the tree: SidecarRecords, KeyPair, WorkspaceMirror

**SidecarRecords** (`active.go`, `reap.go`).  A file per session and branch; a save is
`Write` and then `Prune` of the other files that name the same sidecars; the reaper is
`LoadEntries`, `ListSidecars`, with which it looks up the caller's own file, and one
`ReapFile` per file.  Two organizations share the directory, and branches are checked out
between a command's steps (`CheckoutKey`).  `OneFilePerSidecar` at rest;
`ReapSparesUsed` as long as the reaper's picture of the files is still true, whatever was
created, deleted or checked out since.  It says nothing of a file that was written since:
that one is judged by its old age and names, and a sidecar that was used again meanwhile is
deleted (`ReapSparesRewarmed` asks for more, and does not hold).  Two
adopters that name the same sidecar at once may each prune the file the other has just
written, and leave none; `use` saves no organization, so another organization's reaper
does not know such a file is not its own.
`CommandPartsProofs.tla` proves `RecordsKept` (the type and `OneFilePerSidecar`) and
`ReaperSparesUsed` for any processes, checkouts and sidecars.  `OneFileOwed` is the
invariant: two files name the same sidecar only while a process that wrote one of them
still owes the prune of the other; every other step takes names away.

**KeyPair** (`sidecar/session.go`).  `Stat`, `Lock` or `LockTaken`, `Poll`, `Deadline`
and `BreakLock` for the file of a process that was killed, `Recheck`, `WritePublic`,
`WritePrivate`, `Release`, `Register`.  `PairMatches`, `OpensOrFails`.
`HostProofs.tla` proves `RegisteredIsOffered` (`PairMatches`) under `TwoOrUnharmed`:
no process is killed, or there are two.  Then whoever is past the lock holds it
(`Exclusive`), because who breaks it has nobody left to disturb (`LastOne`); with three
it is false, see "Further divergences".

**WorkspaceMirror** (`rsync.go`).  A push or a pull moves one path per step, in any
order, while both sides are edited (`EditTree`, `EditCopy`), and may break off
(`BreakOff`).  `SyncedIsExact`: a push that says Synced left an exact copy of what
nobody edited, with a repository around it.  `TrackedKept`: a pull leaves files that are
tracked and ignored alone.  The patch strategy of `sync.go` is reached by no command;
`known_hosts`, which pushes may write at once, is left out.
`CommandPartsProofs.tla` proves `MirrorsExact` (the type and both properties) for any paths,
contents, edits and transfers.  `PushExact`: what a push has moved and nobody has edited
since is the same on both sides; `PullSpares`: a pull that moves files holds the list of
those it must leave alone.

### Work on sidecars: ReviewPass, DetachedReview, Factory, ValidateRun, MutationRun, VariantRun

The pool is, in these, what its `Acquire` and `Release` promise: an entry nobody else
has, or an error (see `OneOwner` and `AcquireReturns` of `SidecarPool`).

**ReviewPass** (`review/run.go`, `review/findings.go`, `cmd/reviewactivity.go`).  The
loop that acquires (`Acquire`, `AcquireFails`, `AllStarted`), a goroutine per prompt
(`Begin`, `RunOne`, `Attributed`, `Settle`, `Release`), `Quit`, `PassEnds`.
`NoSpuriousCancel`: after a fatal error nobody is told that he cancelled.
`PassComplete`, `RowsSettled` and `FindingsMerged` for what is reported, what the log
and the rows say, and the merge of findings.  Prompts are numbered; two files `a.md` and
`a.txt` share a name in the code, and so a row.
`ReviewProofs.tla` proves the type, `PassesHonest` (`NoSpuriousCancel`, `PassComplete` and
`RowsSettled` for any prompts, sidecars and repeats) and `MergingLosesNothing`.  `PassInv`
has a part per question: whose entry is whose (`PassMembers`), where each prompt's work is
(`PassWork`), who may have cancelled (`PassCancel`), what the rows show (`PassRows`) and
what is reported (`PassOutcome`).

**DetachedReview** (`review/detach.go`, `cmd/reviewdetach.go`).  The run's shell writes
its PID, runs the review and writes its exit code (`WritesPID`, `ReviewEnds`,
`WritesCode`); `Restart` kills it; a starter is `CheckNoActiveRun`, `Launch`, `Save`; a
reader looks at the exit file and then at the process.  `OneRunAtATime` for one terminal
that hears its answers; with two of them, or answers that are lost, nothing keeps two
runs apart, and the comment claims no more.
`ReviewProofs.tla` proves the type, `EndsAreEnds` (`ToldTruly`, for any starters) and,
with one starter and no answer lost, `OneDetachedRun`: whoever is about to launch saw no
run, or the one it saw has ended (`OneDetached`).

**Factory** (`factory/*.go`, `watchd/factory*.go`).  Trees are numbers: the
implementer's, each reviewer's, the worktree's.  A round is `Implement`, `Collect`,
`Pull`, `KillStrays`, `Push`, `MarkNew`, `Review` and `RunValidation` side by side,
`Judge`; the way out is `LastPull`, `Commit`, `ClosePool`, `RemoveWorktree`, and every
step may fail.  `ChecksDescribeChange`: what judges a round judges the change that round
collected.  `WorkKept`, `RoundsClosed`, `RunEnds`.  `Rewrites` is FALSE in the run; see
below.
`ReviewProofs.tla` proves the type, `NoRoundOpen` (`RoundsClosed`) and, without `Rewrites`,
`WorkJudgedAndKept` (`ChecksDescribeChange`, `WorkKept`), for any rounds, reviewers and
failures.  `FactoryHonest` follows the change through a round: the worktree holds what was
judged or what is on its way to be (`WorktreeJudged`, `ChangeOnItsWay`), and every check
that is in was of the change the round collected (`ChecksSoFar`).

**ValidateRun** (`cmd/validate.go`, `validate/*`).  A run of an agent's Stop hook, a
commit gate or a person: `InitHook` with every way to leave early, `Delegated`,
`DelegateToDaemon` and `BackgroundRun`, `Cached`, `Prepare`, `RunAutofix`, `StartRemote`, the workers
(`AcquireWorker`, `TakeJob`, `RunOnSidecar`, `WorkerLeaves`), `Interrupted`, `RunRest`,
`Finish`; `tries`, `continuing`, `later` and `known` outlive it.  A Stop hook's run that
the daemon keeps for later (`later`, at most `MaxLater`) has the hook's session, and so its
attempts: when it has its turn (`BackgroundRun`) it counts a failure or starts over, by
whether the agent went on because of a hook (`Kind`) when it was handed over.  The daemon
runs one at a time, so it comes between the other runs; beside a run outside the daemon it
is not modelled.  `PassedRanAll`, `GateHolds`; `SignalsCapped` counts from the last commit
gate, turn or background run, because one of a turn's first hook that has its turn late
starts the count over.  `MaxAttempts` is at least 2: a limit of 1, which the configuration
accepts, lets a failing commit through at the first failure.
`CommandPartsProofs.tla` proves the type and `RunsAnswerTruly` (all three) for any commands, workers,
limits and edits.  `TriesOk`: the attempts on file are at least as many as the agent was told
to go on, whatever is interrupted.  `WorkOk`: a remote command that has not run is in the queue or
in a worker's hands, and a worker leaves only for an error, an interruption or an empty
queue, so a run that ends without one ran them all.

**MutationRun** (`mutate/runner.go`).  `Baseline`, `Schedule`, and per mutation `Apply`,
`Test`, `ReversePatch`, `Return`; a sidecar whose tree is in doubt is replaced.
`VerdictHonest`, `MutationsTold`.
`CommandPartsProofs.tla` proves both, `VerdictsHonest` and `EveryMutationTold`, for any
mutations and sidecars: a mutation under way has a sidecar to itself (`OwnWorker`), whose
tree holds what its stage says until the run is cancelled (`TreeKnown`), and mutations are
scheduled in order, all of them unless the scheduler gave up (`Scheduled`).

**VariantRun** (`variants/*.go`).  `Create`, `SyncVariant`, `ApplyPatch`,
`RunVariantCommand`, `Delete` per variant, an interrupt, a kill, and the `Sweep` of
another run, with time in ticks.  `SweepSpares`, `NothingStranded`, `AssessedHonest`.
A create that is retried may leave a second sidecar on the server whose ID nobody heard;
it counts as unheard here.
`CommandPartsProofs.tla` proves the type, `VariantsAssessed` (`AssessedHonest`, `NothingStranded`)
and `SweepsSpare`, the last if a run's steps end within the age that protects its sidecars
(`RunsEndInTime`: what `Timeout` and `SetupTime` are for); `VariantAges` bounds the age of a
sidecar by what its variant has been through.

### Setting a project up: CommandSetup, EnvBuilder, ProjectSetup

**CommandSetup** (`ciconfig/*`, `validate/ciconfig.go`, `validate/setup.go`).  The walk
over the gating jobs is an agenda of step lists: `AddRun`, `WalkConditional`,
`WalkCommand`, `WalkOrb`, `WalkBuiltin`; then `Detect` classifies and fills in.  YAML and
shell text are the facts they yield.  `CoverageTrue` compares with `Reached`, a reference
definition of what the gating jobs, or the `build` of a config without workflows
(`ImplicitBuild`), lead to: whatever the extractor does not report as unread is among its
candidates.  `NeverTestless`: a test that CI or the layout has is in the config that is
written.  A parameter has a value or has none; which value, and the text that a step gets
from it, are left out, so two invocations of a job with the same parameters and other
values are one here.

**EnvBuilder** (`envbuilder/*`).  `DetectStack`, `DetectCommands`, `TakeLocal`,
`FetchPage`, `FetchFails`, `ChooseTag`, `WriteDockerfile`.  A repository is a set of
facts; a command needs a tool and files and gives tools.  `LayersBuild` and `StepsRun`:
every layer finds what it copies, reads and calls.  `VersionFits`: of all tags, the
highest the project allows.  Left out, or narrowed to what the code gets right: stacks
that tie in `detectStack`, where Go's map order decides; Go without `go.sum` or with a
local `replace`; yarn and pnpm with playwright, whose browsers come before the packages;
playwright in another language's project; `uvloop` with `uv.lock`, which is not capped;
`engines` of "<21.0", read as 21; more than 300 tags, after which the highest seen is
taken; `requirements-dev`; meson; Dart workspaces with odd names.

**ProjectSetup** (`config/project.go`, `cmd/init.go`, `cmd/sidecar.go`).  Every command
that rewrites `.chunk/config.json` loads it, changes its part, and then `Truncate`s and
`WriteBody`s it; `chunk sidecar setup` does so twice around `SyncSandbox` and
`RunSteps`.  `CommandsKept`, `StepsInWorkspace`, `NeverTests`, with one process at a time
(`Alone`), files the user leaves valid (`Breaks`) and setup without a sidecar ID
(`Explicit`); the other values are below.
`CommandPartsProofs.tla` proves `ConfigKeepsCommands` (`CommandsKept`) and
`SetupStepsInPlace` (`StepsInWorkspace`) under these hypotheses, for any commands, gates,
sandboxes and turns.  `WantedThere`: the commands the user wants are in the file, or in
what the one command that is about to write it will write; `RecordThere`: a setup that was
given no sidecar has a record of the one it syncs to, and of its workspace once it has.

### Services and credentials: HttpClient, Credentials

**HttpClient** (`httpcl`).  A call is sent, answered, rate-limited or rejected, with a
deadline over all of it; after a 401 `LockReload`, `ReadStore`, `SwapToken`,
`SendSecond`, one reader at a time.  `LoginReaches`: a call that begins after a good
credential is stored is not refused for want of one.  `GetsItsTime` fails, see the
findings.  Callers that meet a 401 at once read the keychain one after the other, and a
`Retry-After` of 0 has no floor.
`CommandPartsProofs.tla` proves `LoginsReach` (the type and `LoginReaches`) for any calls,
retries and logins.  `HttpInv`: whoever is at the store holds `reloadMu` (`OneReader`), and
for a call that began once a good credential was stored, all that anybody reads is good
(`GoodIsRead`) and the client holds what the call was sent with or a good one (`WillDo`), so
that a rejected call always finds another to send.

**Credentials** (`config`, `authprompt`, `cmd/auth.go`).  The config file and the
keychain; per process `Validate`, `Save`, `WriteConfig`, `SaveUserID`, the removals,
`ClearUserID`.  Resolution is environment, file, keychain.  `LoggedOutIsAnonymous`: an
account is on record only while a token resolves.
`CommandPartsProofs.tla` proves `LoggedOutStaysAnonymous` (the type and
`LoggedOutIsAnonymous`) for any tokens, environment and order of commands, under
`OneProcess`: one command at a time, without which it is false.  `CommandSafe`: an account
in the file has a token that resolves, or the command is about to look whether it has to go
(`Forgetting`); and the copy a command is about to write is as safe (`CopySafe`), but that a
removal of the token looks at the account only next.

### Shared log and dashboard: EventLog, DashboardRows, SessionView

**EventLog** (`eventlog`).  `OpenLog`, `Trim`, `Record`, `CloseLog` per process, `TailFrom`
by the daemon; the lock is a process's own.  `TailInOrder`: nothing is taken twice or out
of order.  Nothing is promised of completeness: a trim by one process loses what another
wrote since it read, and hides from the daemon what is appended until the file is longer
than its offset again.
`CommandPartsProofs.tla` proves `EventsInOrder` (the type and `TailInOrder`) for any
processes, lengths and trims.  `LogInv`: the file, and what a trim has read of it, is in the
order of writing (`Ordered`, `ReadsOrdered`), and whatever lies beyond the daemon's offset
is newer than all it has kept (`TailBehind`), because a file is cut only to lines that were
in it and never below `TrimToLines`.

**DashboardRows** (`ui/watch/model.go`).  `Data` re-sorts the rows under `selIdx`,
`selID`, `scroll`; keys, clicks, folding, resizes.  Lines are counted, not drawn.
The sort is stable and the order the daemon lists rows in is free: rows that tie come as
they are listed, those of tied worktrees or repositories one between another.  A sidecar
without an event goes by its file's time in the code, which is taken to be older here than
every event.
`SelectionKept`, `SelectedDrawn`, `NoRoomWasted`.
`CommandPartsProofs.tla` proves `CursorDrawn` and `SelectionStays` for any finite set of
sidecars, any heights of rows and any terminals.  `RowsInv` is `SelectedDrawn` and
`NoRoomWasted` with `ListShaped`: rows are distinct and the cursor is on the one it names.
The lemma `ScrollShows` says that from any offset `Scrolled` ends at one where the row is
drawn and no room is wasted.

**SessionView** (`ui/watch/session.go`).  The sessions of `ReviewSessions`, polled into a
list that re-orders under an index; `Resume`, a `CancelReview` that is pressed twice; the
chains of ticks and spinner messages.  `CancelConfirmed`, `OneSpinner`.
`CommandPartsProofs.tla` proves `OneSpinnerAtATime` and `CancelsAreConfirmed` for any
sessions.  `TimersInv`: there is a chain of spins exactly while the dashboard thinks there
is, and while anything runs; `KeysInv`: a press that waits for its second was made on the
session it names.

### The composed modules

`MCProcesses` composes the modules whose processes have to come to an end, with their
fairness; `MCCommands` those of which only safety is asked, on the repositories, CI
configs, registries and accounts of `MCRepositories`.  Each holds every part's variables
and instantiates every part on a small instance (the bounds stand beside the `INSTANCE`).
The parts share no state, so the composition does not interleave them: `part` names the
one a behaviour is of, and `OthersRest` keeps the others' variables.  The states are the
sum of the parts' and not their product, every action of every part is taken in one run,
and `Parts = {"daemon"}` in a cfg looks at one part alone.  Interaction is inside the
parts: a pass and its pool, the daemon and its clients, the dashboard and the sessions.

`ProcessesProofs.tla` and `CommandsProofs.tla` prove what the runs ask of the composition
from the theorems of the parts.  A part's invariant is instantiated with the part
(`ProcessesInv`, `CommandsInv` are the conjunctions); a step of the composition is a step of
one part, and a stutter of all the others.

| run | property | asks of the parts |
|---|---|---|
| `processes` | `ProcessesTypeOK` | the type of each |
| | `ShownTruly` | `BufferIsTail`, `PaneHonest`, `RowsSettled`, `RoundsClosed`, `ToldTruly` |
| | `ResultsHonest` | `NoSpuriousCancel`, `PassComplete`, `FindingsMerged`, `ChecksDescribeChange`, `WorkKept` |
| | `OneAtATime` | `OneRunAtATime`, `PairMatches` |
| | `OthersKept` | `SuccessorKept`, `ExistingKept` |
| | `EveryoneServed` | `LauncherServed`, `StreamEnds`, `UnwatchedUnsampled`, `PassOver`, `RunReported`, `RunEnds`, `OpensOrFails` |
| `commands` | `CommandsTypeOK` | the type of each |
| | `DrawnTrue` | `TailInOrder`, `ReportTrue`, `SelectedDrawn`, `NoRoomWasted`, `OneSpinner` |
| | `NothingLost` | `OneFilePerSidecar`, `SyncedIsExact`, `TrackedKept`, `SweepSpares`, `NothingStranded`, `CommandsKept`, `LoginReaches`, `LoggedOutIsAnonymous` |
| | `RunsHonest` | `PassedRanAll`, `GateHolds`, `SignalsCapped`, `VerdictHonest`, `MutationsTold`, `AssessedHonest` |
| | `SetUpRight` | `CoverageTrue`, `NeverTestless`, `LayersBuild`, `StepsRun`, `VersionFits`, `StepsInWorkspace`, `NeverTests` |
| | `AimedRight` | `SelectionKept`, `CancelConfirmed`, `ReapSparesUsed` |

Bounds: two of whatever competes (clients, streams, reviewers, processes with a key,
writers of the log, commands over the same records, calls), three prompts over two
sidecars so that one waits, three rounds of a factory so that one repeats the tree of
the last, buffers that hold less than what is written, a screen that shows less than the
rows, and a repository, config or registry for every case the code tells apart.  Runs of
a part with larger bounds are a matter of its `INSTANCE`.

Two organizations own the sidecars of the records; checkouts and organizations are alike,
so the first process starts in the first checkout and the first sidecar is the first
organization's.  One Stop hook's run at a time waits in the background.

Fairness (`MCProcesses!Fairness`): weak fairness of each daemon's and each command's
steps, of each stream's connection and its frames, ends or cuts, of the poll and the
samplers, of a pass's loop and goroutines, of a detached run's shell and its reader, of a
factory run, and of each process with a key: calls have timeouts, and a goroutine runs
on.  One is strong: the daemon's answers to a pane, because the pane that asks may be
closed and opened again.  A user, a kill, a cut or a restart is never owed.

## Findings

| run | property | what happens |
|---|---|---|
| `tasks_false_pass` | `SnapshotVerdictQualified` | an edit between the snapshot of the tree and its fingerprint makes the verdict of the copy pass for the tree's |
| `http_deadline` | `GetsItsTime` | a call that asks for five minutes is cut off after the budget for retries and the ordinary deadline |

## Further divergences

Where a comment or a document promises something the code does not do.  Each of these
cfgs ends with a counterexample (`tlc -config <cfg>.cfg <module>.tla`).

| cfg | module, property | what happens |
|---|---|---|
| `session_stale_resume` | `MCSession`, `PauseWaitsForUser` | a second resume stays in the channel and ends the next pause |
| `session_adopted_edit` | `MCSession`, `AdoptedEditsSurvive` | an edit the session paused for and adopted is overwritten by an unforced restore |
| `pool_idle_worker` | `MCSidecarPool`, `NextAvailable` | two entries become free, one token: a worker sleeps beside a free sidecar |
| `pool_orphan` | `MCSidecarPool`, `DestroyDeletesAll` | a creation that is cancelled after the server acted leaves a sidecar nobody knows |
| `tasks_claim` | `MCValidateTasks`, `ClaimHeld` | a superseded run releases the claim of its session's next run |
| `tasks_debt` | `MCValidateTasks`, `NewerFailureOwed` | an older run that passed reports after a newer one that failed, and clears its debt |

The same can be seen of these by asking for the property, or changing the constant, in
the cfg or the `INSTANCE` that is named.

| where | property or constant | what happens |
|---|---|---|
| `session_one` | `NoFixRunningWhenOver` (`MCSession`) | a round whose look at the tree fails leaves its fix "running" on a session that is over |
| `session_one` | `RefusalMeansEdited` (`MCSession`) | a restore cut short is refused when tried again: its own writes look like edits |
| `session_one` | `RestoreUndoesEverything` (`MCSession`) | files written by a `git apply` that was cut short are not recorded, and a restore leaves them |
| `session_one` | `SavedTreeIsTheTree` (`MCSession`) | an edit between the look and the restore point: the point is not the tree |
| `pool_orphan` | `RunUsesWholePool` (`MCSidecarPool`) | a distributed run ends before a clone has landed |
| `pool_reuse` | `UndeletedRecorded` (`MCSidecarPool`) | a clone that lands after closing and cannot be deleted is recorded nowhere |
| `pool_reuse` | `KeptRecorded` (`MCSidecarPool`) | a stale sidecar's replacement is not saved when another sync fails |
| `tasks_verdict` | `GreenWasValidated` (`MCValidateTasks`) | the tree recorded as known to pass is one the run never read |
| `tasks_verdict` | `MayRevert = TRUE`, `VerdictOfTheTree` | the tree moves while a run reads it and moves back: its verdict is reported as current |
| `MCProcesses!Detached` | `DiedIsDead` | the script looks for the exit code and then for the process: a run that ends in between is said to have died (`review/detach.go:136`) |
| `MCProcesses!Key` | three `Openers`, `PairMatches` | a waiter that gives up on a dead process's lock removes the lock file of whoever took it since: two generate, and one registers a key that ssh does not offer |
| `MCProcesses!Loop` | `Rewrites = TRUE`, `ChecksDescribeChange`, `WorkKept` | a validation command that changes files runs beside the reviews, on the tree the run then commits: nobody judged what it wrote (`factory/loop.go:94`) |
| `MCProcesses!Output` | `Prompt = FALSE`, two `MaxPanes`, a `PaneCap` of 2, `PaneHonest` | an answer that was asked for by a pane that is closed reaches one opened since on the same command: output is shown twice |
| `MCCommands!Rows` | `ClickHitsHeader` | the lines that a click counts include the closing event, which is not drawn: it folds another invocation (`model.go:955`) |
| `MCCommands!Checkout` | `ReportOfItsBranch` | another branch is checked out between the look at the branch and at its head, or a report is reused: it names a branch its head is not of (`conflicts.go:185`, `:211`) |
| `MCCommands!Records` | `ReapSparesRewarmed` | a sidecar that is used again after the reaper loaded the files is deleted by its file's old time (`reap.go:140`) |
| `MCCommands!Run` | `BlocksCapped` | a commit between two Stop hooks resets the count, and the agent is told to go on more often than `docs/HOOKS.md:390` says |
| `MCCommands!Run` | `GatesSeeFormatted` | the sidecars are synced before the formatter runs: the gates check the tree as it was (`validate.go:1451`) |
| `MCCommands!Run` | - | a run files its pass under the tree it began with; a setup error exits 1, which an agent takes for a warning |
| `MCCommands!Setup` | a workflow with `Entry("a")` and the same entry with `pre = <<"fmt">>`, `CoverageTrue` | the job is read once, with the first entry's pre-steps (`ciconfig.go:250`) |
| `MCCommands!Variants` | `Timeout = 0`, `SweepSpares` | a command with no limit outlives the age that protects its sidecar from another run's sweep (`variants.go:42`) |
| `MCCommands!Creds` | `SavedIsUsed` | a credential goes to the keychain while an older one stands in the config file, which is looked at first (`config.go:177`): what was stored is not what is used |
| `MCCommands!Creds` | two processes, `LoggedOutIsAnonymous` | two rewrites of the config file lose one of them, which `config.go:361` calls negligible |
| `MCCommands!Creds` | - | a login overwrites the keychain's token without asking, and one whose account could not be asked for (a 429) keeps the last account |
| `MCCommands!ConfigFile` | `Explicit = TRUE`, `StepsInWorkspace` | setup with a sidecar ID runs its steps where the record says, and the record is of another sidecar, or of none (`cmd/sidecar.go:1270`) |
| `MCCommands!ConfigFile` | `Breaks = TRUE`, `InitGuard` | a file that does not parse or validate counts as none, and a plain init replaces it (`cmd/init.go:548`) |
| `MCCommands!ConfigFile` | `Breaks = TRUE`, or two `Procs` and `Alone = FALSE`, `CommandsKept` | the user's commands go with it, or with the older copy another command writes back |

## What is proved, and what is not

The theorems of the parts hold for all values of the constants that meet the named
assumptions.

| module | every safety and action property of its runs | hypotheses beyond the assumptions |
|---|---|---|
| `Session` | `TypeOK`, `OneActive`, `RestorePointDurable`, `Promise`, `SettledHonestly`, `StoreCap`, `FixesRecorded`, `RestoreUndoesFixes`, `RestoreOnlyUnedited`, `RoundsCounted` | none |
| `SidecarPool` | `TypeOK`, `OneOwner`, `Counted`, `MembersInPlace`, `TerminalIsFinal`, `RecordUpToDate`, `DestroyLeavesNone` | no reused sidecars for `RecordUpToDate`; deletions that succeed in time for `DestroyLeavesNone` |
| `ValidateTasks` | `TypeOK`, `DeliveredMeansWritten`, `ClaimsFreed`, `VerdictOfTheTree`, `CapHolds`, `OnlyUselessDropped` | the tree does not return to a content it had, for `VerdictOfTheTree` |

Of the two composed runs, at their own constants and from theorems about each part for
every constant:

| run | property | theorem | from | hypotheses of the parts' theorems |
|---|---|---|---|---|
| `processes` | `ProcessesTypeOK` | `ProcessesTyped` | the type theorems of the seven parts | none |
| | `ShownTruly` | `ShownAsItWas` | `BuffersAreTails`, `PanesHonest`, `PassesHonest`, `NoRoundOpen`, `EndsAreEnds` | `Prompt` for `PanesHonest` |
| | `ResultsHonest` | `ResultsStand` | `PassesHonest`, `MergingLosesNothing`, `WorkJudgedAndKept` | `~Rewrites` for the last |
| | `OneAtATime` | `OneAtATimeHere` | `OneDetachedRun`, `RegisteredIsOffered` | `OneCaller` and `~Lossy`; `TwoOrUnharmed` |
| | `OthersKept` | `OthersStay` | `SuccessorSafe`, `NoneDropped` | none |
| `commands` | `RunsHonest` | `RunsAreHonest` | `RunsAnswerTruly`, `VerdictsHonest`, `EveryMutationTold`, `VariantsAssessed` | none |
| | `NothingLost` | `NothingIsLost` | `RecordsKept`, `MirrorsExact`, `VariantsAssessed`, `SweepsSpare`, `ConfigKeepsCommands`, `LoginsReach`, `LoggedOutStaysAnonymous` | `RunsEndInTime` for `SweepsSpare`; `Alone` and `~Breaks` for `ConfigKeepsCommands`; `OneProcess` for the last |
| | `DrawnTrue` | `DrawnIsTrue` | `EventsInOrder`, `ReportsTrue`, `CursorDrawn`, `OneSpinnerAtATime` | none |
| | `AimedRight` | `AimsRight` | `SelectionStays`, `CancelsAreConfirmed`, `ReaperSparesUsed` | none |

Each hypothesis is one the property is false without, by a counterexample of TLC, and each
run that checks the property meets it: ask `pool_reuse` for `RecordUpToDate` or
`DestroyLeavesNone`, set `MayRevert` in `tasks_verdict`, and see the table above for those
of the composed runs.  The assumptions about the parts' constants (`LogAssumption`,
`RunAssumption` and so on) are definitions that `MCProcesses` and `MCCommands` assume of
their instances, so that TLC evaluates them there.

Checked by TLC on the instances of the runs only:

- liveness (`CancelEnds`, `ResumeWakes`, `AcquireReturns`, `OwnerReturns`,
  `EveryoneServed`), which is out of the prover's reach;
- `SetUpRight`, but for `StepsInWorkspace` (`SetupStepsInPlace`): what a walk of any CI
  config finds and what any repository's image is built of is computed by recursion over
  data, of which the provers do no induction;
- `CommandsTypeOK`, which holds those parts' types too.  The types of `ValidateRun`,
  `VariantRun`, `SidecarRecords`, `WorkspaceMirror`, `EventLog`, `HttpClient` and
  `Credentials` are proved.

## Plan

The promise of the pool as a module (`Acquire` gives an entry nobody else has, or an
error), which `SidecarPool` implements and `ReviewPass`, `ValidateRun` and `MutationRun`
instantiate.

## Not modelled

Scores, risk and history are arithmetic over what git reports; file state is a lock and a
rename around a file, atomic where it is used; settings are a merge by precedence; the
OAuth login, telemetry, the upgrade check, tasks, skills and prompts are sequential calls
of services; the git utilities are what they return.  Rendering, formatting, flags and
messages, SSH and the contents of a review or a fix are outcomes.  `PROJECT.json` lists
each part with its reason.
