---------------------------- MODULE ProjectSetup ----------------------------
(***************************************************************************)
(* A project's .chunk/config.json and the commands that rewrite it: each   *)
(* loads the whole file, changes its part and writes the whole file back,  *)
(* in place.  `chunk sidecar setup' does so twice, around the minutes it   *)
(* spends syncing and provisioning a sidecar.                              *)
(*                                                                         *)
(* A body is the set of commands it names, those placed on the sidecar,    *)
(* whether a rule of it fails validation, whether it names an              *)
(* organization, and the steps of its saved environment.                   *)
(***************************************************************************)
EXTENDS Naturals, Sequences, FiniteSets, SequencesExt

CONSTANTS Procs,        \* processes of chunk in this project
          Named,        \* command names
          Gates,        \* those setup places on the sidecar
          Here,         \* those marked local
          Found,        \* what init detects
          Sandboxes,    \* sidecar ids
          None,         \* no sidecar
          Breaks,       \* whether the user may leave the file invalid
          Explicit,     \* whether setup may be given a sidecar id
          Alone,        \* whether a command runs by itself
          MaxTurns      \* commands and edits in a behaviour

NamesAssumption ==
    /\ Gates \subseteq Named /\ Here \subseteq Named /\ Found \subseteq Named
    /\ None \notin Sandboxes

VARIABLES configDisk,   \* the file
          wanted,       \* the commands asked for and never taken back
          chunk,        \* what each process is doing
          active,       \* the active sidecar record
          holders,      \* the sidecars that hold the project's files
          trail,        \* the provisioning steps run: name, and where
          turns

projectVars == <<configDisk, wanted, chunk, active, holders, trail, turns>>

Body == [cmds : SUBSET Named, remote : SUBSET Named, bad : BOOLEAN,
         org : BOOLEAN, env : Seq({"system", "install", "test"})]
FreshConfig == [cmds |-> {}, remote |-> {}, bad |-> FALSE, org |-> FALSE, env |-> <<>>]
NoRecord == [id |-> None, ws |-> FALSE]
NoCommand == [op |-> "none", pc |-> "done", cfg |-> FreshConfig, env |-> <<>>, id |-> None]

\* What detection answers, and what older versions of chunk saved of it.
Detected == <<"system", "install", "test">>

ForConfig(env) == SelectSeq(env, LAMBDA s : s # "test")

ProjectTypeOK ==
    /\ configDisk.state \in {"absent", "ok", "broken", "torn"} /\ configDisk.body \in Body
    /\ configDisk.body.remote \subseteq configDisk.body.cmds
    /\ wanted \subseteq Named /\ holders \subseteq Sandboxes
    /\ active \in [id : Sandboxes \cup {None}, ws : BOOLEAN]
    /\ active.ws => active.id # None
    /\ \A p \in Procs : chunk[p].cfg \in Body /\ chunk[p].id \in Sandboxes \cup {None}
    /\ \A i \in DOMAIN trail : trail[i].step \in {"system", "install", "test"}
    /\ turns \in 0..MaxTurns

InitProjectSetup ==
    /\ configDisk = [state |-> "absent", body |-> FreshConfig]
    /\ wanted = {} /\ holders = {} /\ trail = <<>> /\ turns = 0
    /\ chunk = [p \in Procs |-> NoCommand]
    /\ active = NoRecord

Quiet == \A p \in Procs : chunk[p].pc = "done"
Turn == turns < MaxTurns /\ turns' = turns + 1 /\ (Alone => Quiet)

-----------------------------------------------------------------------------
(* The user's editor.                                                      *)

EditConfig ==
    /\ Turn /\ configDisk.state # "torn"
    /\ \E cs \in SUBSET Named, bad \in {b \in BOOLEAN : b => Breaks},
          state \in {x \in {"ok", "broken"} : x = "broken" => Breaks} :
          /\ configDisk' = [state |-> state,
                            body |-> [configDisk.body EXCEPT
                                        !.cmds = cs, !.remote = @ \cap cs, !.bad = bad,
                                        !.env = IF Len(@) > 0 THEN Detected ELSE @]]
          /\ wanted' = cs
    /\ UNCHANGED <<chunk, active, holders, trail>>

-----------------------------------------------------------------------------
(* LoadProjectConfig and SaveProjectConfig.                                *)

Loads == configDisk.state = "ok" /\ ~configDisk.body.bad
LoadedConfig == [configDisk.body EXCEPT !.env = ForConfig(@)]
OrFresh == IF Loads THEN LoadedConfig ELSE FreshConfig

CommandGoes(p, pc, cfg) == chunk' = [chunk EXCEPT ![p].pc = pc, ![p].cfg = cfg]
CommandEnds(p) == chunk' = [chunk EXCEPT ![p] = NoCommand]

\* The file is truncated, then written.
Truncate(p) ==
    /\ chunk[p].pc \in {"save", "saveEnv", "saveMarks"} /\ ~chunk[p].cfg.bad
    /\ configDisk' = [state |-> "torn", body |-> FreshConfig]
    /\ LET writes == [save |-> "write", saveEnv |-> "writeEnv", saveMarks |-> "writeMarks"]
       IN  CommandGoes(p, writes[chunk[p].pc], chunk[p].cfg)
    /\ UNCHANGED <<wanted, active, holders, trail, turns>>

WriteBody(p) ==
    /\ chunk[p].pc \in {"write", "writeEnv", "writeMarks"}
    /\ configDisk' = [state |-> "ok", body |-> chunk[p].cfg]
    /\ IF chunk[p].pc = "writeEnv" /\ chunk[p].op = "setup"
       THEN CommandGoes(p, "resolve", chunk[p].cfg) ELSE CommandEnds(p)
    /\ UNCHANGED <<wanted, active, holders, trail, turns>>

-----------------------------------------------------------------------------
(* The commands, up to what each writes.                                   *)

CommandStarts(p, op, pc, cfg, more) ==
    /\ chunk[p].pc = "done" /\ Turn
    /\ chunk' = [chunk EXCEPT ![p] = [op |-> op, pc |-> pc, cfg |-> cfg,
                                      env |-> cfg.env, id |-> None]]
    /\ wanted' = wanted \cup more
    /\ UNCHANGED <<configDisk, active, holders, trail>>

ConfigSet(p) == CommandStarts(p, "set", "save", [OrFresh EXCEPT !.org = TRUE], {})

SaveCommand(p) ==
    \E c \in Named : CommandStarts(p, "command", "save", [OrFresh EXCEPT !.cmds = @ \cup {c}], {c})

\* The organization of a sidecar created on the way is kept for the next one.
PersistOrg(p) == ~OrFresh.org /\ CommandStarts(p, "org", "save", [OrFresh EXCEPT !.org = TRUE], {})

SidecarEnv(p) == CommandStarts(p, "env", "saveEnv", [OrFresh EXCEPT !.env = ForConfig(Detected)], {})

MarkRemote(p) ==
    /\ Loads /\ \E c \in LoadedConfig.cmds \ LoadedConfig.remote :
          CommandStarts(p, "mark", "save", [LoadedConfig EXCEPT !.remote = @ \cup {c}], {})

HasData == Loads /\ configDisk.body.cmds # {}

\* Mutant: a forced init never starts from the file.
SeedNever(force) == FreshConfig

Seed(force) == IF force /\ Loads THEN LoadedConfig ELSE FreshConfig

\* Detection replaces the commands, unless it is skipped.
InitProject(p) ==
    \E force, skip \in BOOLEAN :
        /\ HasData => force
        /\ LET cfg == IF skip THEN [Seed(force) EXCEPT !.org = TRUE]
                      ELSE [Seed(force) EXCEPT !.cmds = Found, !.remote = {}, !.org = TRUE]
           IN  /\ chunk[p].pc = "done" /\ Turn
               /\ chunk' = [chunk EXCEPT ![p] =
                     [op |-> IF force THEN "force" ELSE "init", pc |-> "save", cfg |-> cfg,
                      env |-> <<>>, id |-> None]]
               /\ wanted' = IF skip THEN wanted ELSE IF force THEN Found ELSE wanted \cup Found
    /\ UNCHANGED <<configDisk, active, holders, trail>>

-----------------------------------------------------------------------------
(* `chunk sidecar setup'.                                                  *)

\* A fresh detection still has its test step; the saved copy has not.
StartSetup(p) ==
    \/ \E force \in BOOLEAN :
          /\ OrFresh.env = <<>> \/ force
          /\ chunk[p].pc = "done" /\ Turn
          /\ chunk' = [chunk EXCEPT ![p] =
                [op |-> "setup", pc |-> "saveEnv", env |-> Detected, id |-> None,
                 cfg |-> [OrFresh EXCEPT !.env = ForConfig(Detected)]]]
          /\ UNCHANGED <<configDisk, wanted, active, holders, trail>>
    \/ OrFresh.env # <<>> /\ CommandStarts(p, "setup", "resolve", OrFresh, {})

\* A given sidecar, the active one, or a new one that becomes active.
ResolveSandbox(p) ==
    /\ chunk[p].pc = "resolve"
    /\ \E s \in Sandboxes, given \in {g \in BOOLEAN : g => Explicit} :
          /\ given \/ active.id = s \/ (active.id = None /\ s \notin holders)
          /\ chunk' = [chunk EXCEPT ![p].pc = "sync", ![p].id = s]
          /\ active' = IF given \/ active.id = s THEN active ELSE [id |-> s, ws |-> FALSE]
    /\ UNCHANGED <<configDisk, wanted, holders, trail, turns>>

\* Mutant: the sync leaves the record alone.
PersistNothing == UNCHANGED active

\* The workspace is saved with the active record when there is one.
PersistWorkspace == active' = [active EXCEPT !.ws = active.id # None]

SyncSandbox(p) ==
    /\ chunk[p].pc = "sync"
    /\ CommandGoes(p, "run", chunk[p].cfg)
    /\ holders' = holders \cup {chunk[p].id} /\ PersistWorkspace
    /\ UNCHANGED <<configDisk, wanted, trail, turns>>

FailSetup(p) ==
    /\ chunk[p].pc \in {"sync", "run"}
    /\ CommandEnds(p)
    /\ UNCHANGED <<configDisk, wanted, active, holders, trail, turns>>

\* Mutant: a detected test command runs as a step of its own.
StepsAll(env) == env

Steps(env) == SelectSeq(env, LAMBDA s : s # "test")

\* The steps left run in one action: nobody else changes what they read.
RunSteps(p) ==
    /\ chunk[p].pc = "run"
    /\ trail' = [i \in DOMAIN Steps(chunk[p].env) |->
                    [step |-> Steps(chunk[p].env)[i], inside |-> active.ws, on |-> chunk[p].id]]
    /\ LET marks == {c \in chunk[p].cfg.cmds : c \in Gates /\ c \notin Here} \ chunk[p].cfg.remote
       IN  IF marks = {} THEN CommandEnds(p)
           ELSE CommandGoes(p, "saveMarks", [chunk[p].cfg EXCEPT !.remote = @ \cup marks])
    /\ UNCHANGED <<configDisk, wanted, active, holders, turns>>

ForgetActive ==
    /\ Turn /\ active # NoRecord /\ active' = NoRecord
    /\ UNCHANGED <<configDisk, wanted, chunk, holders, trail>>

-----------------------------------------------------------------------------
NextProject ==
    \/ EditConfig \/ ForgetActive
    \/ \E p \in Procs :
         \/ Truncate(p) \/ WriteBody(p) \/ ConfigSet(p) \/ SaveCommand(p)
         \/ PersistOrg(p) \/ SidecarEnv(p) \/ MarkRemote(p) \/ InitProject(p)
         \/ StartSetup(p) \/ ResolveSandbox(p) \/ SyncSandbox(p) \/ FailSetup(p) \/ RunSteps(p)

SpecProject == InitProjectSetup /\ [][NextProject]_projectVars

-----------------------------------------------------------------------------
\* No command loses one the user wrote or asked for: every one of them is in
\* the file again once the processes that rewrite it are through.
CommandsKept == Quiet /\ configDisk.state = "ok" => wanted \subseteq configDisk.body.cmds

\* A provisioning step runs in the directory the files were synced to, and
\* the test command is never one of them (sidecarSetupRunSetup).
StepsInWorkspace == \A i \in DOMAIN trail : trail[i].inside
NeverTests == \A i \in DOMAIN trail : trail[i].step # "test"

\* "Guard: exit cleanly if config exists and --force not set"
\* (internal/cmd/init.go:548): a plain init writes over no file that names
\* commands.
InitGuard == \A p \in Procs : chunk[p].op = "init" /\ chunk[p].pc = "write" => wanted \subseteq chunk[p].cfg.cmds
=============================================================================
