----------------------------- MODULE CommandSetup -----------------------------
(***************************************************************************)
(* How `chunk init` finds a repository's validate commands: the run steps  *)
(* of the CircleCI config's jobs that run on a working branch              *)
(* (internal/ciconfig), classified into roles (internal/validate/          *)
(* ciconfig.go), with what the file names at the root suggest filled in or *)
(* instead of it, and Claude asked when neither knows (setup.go).          *)
(*                                                                         *)
(* A step's text is what the substring and flag tests say of it; a branch  *)
(* pattern is the set of probe branches it matches.                        *)
(***************************************************************************)
EXTENDS Integers, Sequences, FiniteSets, SequencesExt

CONSTANTS
    Config,        \* checked-in configs, by number
    RootFiles,     \* sets of file names at the root of a repository
    MaxDepth,      \* maxDepth: of custom commands in custom commands
    MaxCandidates  \* maxCandidates: steps kept

SetupAssumption == MaxDepth \in Nat /\ MaxCandidates \in Nat

VARIABLES
    chosen,     \* the config's number
    has,        \* the file names
    phase,      \* "extract", "walk", "classify" or "over"
    agenda,     \* what the walk still has to do: a stack of step lists
    candidates, \* run steps found
    missed,     \* what the extractor reports that it could not read
    detection   \* the commands, by role, and where they are from

setupVars == <<chosen, has, phase, agenda, candidates, missed, detection>>

config == Config[chosen]

Nothing == [orbs |-> {}, truncated |-> 0, unresolved |-> 0, tooDeep |-> 0]

InitSetup ==
    /\ chosen \in DOMAIN Config /\ has \in RootFiles /\ phase = "extract" /\ agenda = <<>>
    /\ candidates = <<>> /\ missed = Nothing
    /\ detection = [commands |-> <<>>, source |-> "none"]

-----------------------------------------------------------------------------
(* The jobs that gate a working branch. *)

\* A job pinned to other branches, or away from this one, is none.
RunsOnWorkingBranch(e) ==
    /\ \A pattern \in e.ignore : pattern = {}
    /\ e.only = {} \/ \E pattern \in e.only : pattern # {}

\* Only a condition that the file itself settles switches a workflow off.
WorkflowRuns(w) == w.when # "false" /\ w.unless # "true"

SameGate(e, f) == e.job = f.job /\ e.params = f.params

\* A config without workflows runs the job named build.
ImplicitBuild ==
    [job |-> "build", params |-> {}, approval |-> FALSE, only |-> {}, ignore |-> {},
     pre |-> <<>>, post |-> <<>>]

WorkflowJobs ==
    FlattenSeq([i \in DOMAIN config.workflows |->
        LET w == config.workflows[i] IN
        IF w.scheduled \/ ~WorkflowRuns(w) THEN <<>>
        ELSE SelectSeq(w.jobs, LAMBDA e : ~e.approval /\ RunsOnWorkingBranch(e))])

GateJobs ==
    LET entries == IF config.workflows # <<>> THEN WorkflowJobs
                   ELSE IF "build" \in DOMAIN config.jobs THEN <<ImplicitBuild>> ELSE <<>>
        fresh == SetToSortSeq({i \in DOMAIN entries :
                                  \A j \in 1..(i - 1) : ~SameGate(entries[j], entries[i])}, <)
    IN [i \in DOMAIN fresh |-> entries[fresh[i]]]

-----------------------------------------------------------------------------
(* Parameters: a list of steps is walked with the set of parameters that   *)
(* have a value; which value that is, and the text a step gets from it,    *)
(* are left out.                                                           *)

\* A value passed on from outside is only as good as what it refers to, and hides
\* the default.
MergeArgs(declared, step, args) ==
    (declared \ step.forwards) \cup step.gives \cup (step.forwards \cap args)

-----------------------------------------------------------------------------
(* The walk. *)

List(steps, args, depth) == [steps |-> steps, args |-> args, depth |-> depth]

\* setup: true: the file only generates the real config.
Extract ==
    /\ phase = "extract"
    /\ IF config.found # "yes" \/ config.setup
       THEN phase' = "classify" /\ UNCHANGED <<agenda, missed>>
       ELSE LET jobsOf(e) ==
                    IF e.job \in DOMAIN config.jobs
                    THEN LET args == config.jobs[e.job].defaults \cup e.params
                         IN <<List(e.pre, args, 0), List(config.jobs[e.job].steps, args, 0),
                              List(e.post, args, 0)>>
                    ELSE <<>>
            IN /\ agenda' = FlattenSeq([i \in DOMAIN GateJobs |-> jobsOf(GateJobs[i])])
               /\ missed' = [missed EXCEPT !.orbs =
                                {GateJobs[i].job : i \in DOMAIN GateJobs} \ DOMAIN config.jobs]
               /\ phase' = "walk"
    /\ UNCHANGED <<chosen, has, candidates, detection>>

Here == Head(agenda)
Step == config.step[Head(Here.steps)]
AtStep == phase = "walk" /\ agenda # <<>> /\ Here.steps # <<>>

\* The agenda after this step, with more lists to walk before the rest.
Then(lists) == lists \o <<List(Tail(Here.steps), Here.args, Here.depth)>> \o Tail(agenda)

\* Does it still refer to a parameter without a value, or to the pipeline?
Unresolved(step, args) == ~(step.needs \subseteq args) \/ step.background = "unknown"

\* A step that runs when the job failed, or in the background, is no gate.
Gates(step) == step.when = "on_success" /\ step.background # "yes" /\ step.text # "empty"

Keep(found) ==
    IF \E i \in DOMAIN candidates : candidates[i] = found THEN UNCHANGED <<candidates, missed>>
    ELSE IF Len(candidates) >= MaxCandidates
    THEN missed' = [missed EXCEPT !.truncated = @ + 1] /\ UNCHANGED candidates
    ELSE candidates' = Append(candidates, found) /\ UNCHANGED missed

AddRun ==
    /\ AtStep /\ Step.kind = "run"
    /\ IF ~Gates(Step) THEN UNCHANGED <<candidates, missed>>
       ELSE IF Unresolved(Step, Here.args)
       THEN missed' = [missed EXCEPT !.unresolved = @ + 1] /\ UNCHANGED candidates
       ELSE Keep([text |-> Step.text, dir |-> Step.dir])
    /\ agenda' = Then(<<>>)
    /\ UNCHANGED <<chosen, has, phase, detection>>

\* Mutant: the steps under a condition are left out.
SkipConditional ==
    /\ AtStep /\ Step.kind = "when" /\ agenda' = Then(<<>>)
    /\ UNCHANGED <<chosen, has, phase, candidates, missed, detection>>

\* when: and unless: wrap steps that are walked whatever their condition.
WalkConditional ==
    /\ AtStep /\ Step.kind = "when"
    /\ agenda' = Then(<<List(Step.nested, Here.args, Here.depth)>>)
    /\ UNCHANGED <<chosen, has, phase, candidates, missed, detection>>

\* Mutant: commands are followed however deep they are.
NeverDeep(depth) == FALSE

TooDeep(depth) == depth >= MaxDepth

WalkCommand ==
    /\ AtStep /\ Step.kind = "command" /\ Step.name \in DOMAIN config.commands
    /\ IF TooDeep(Here.depth)
       THEN missed' = [missed EXCEPT !.tooDeep = @ + 1] /\ agenda' = Then(<<>>)
       ELSE LET command == config.commands[Step.name] IN
            /\ agenda' = Then(<<List(command.steps, MergeArgs(command.defaults, Step, Here.args),
                                     Here.depth + 1),
                                List(Step.nested, Here.args, Here.depth)>>)
            /\ UNCHANGED missed
    /\ UNCHANGED <<chosen, has, phase, candidates, detection>>

WalkOrb ==
    /\ AtStep /\ Step.kind = "orb"
    /\ missed' = [missed EXCEPT !.orbs = @ \cup {Step.name}]
    /\ agenda' = Then(<<List(Step.nested, Here.args, Here.depth)>>)
    /\ UNCHANGED <<chosen, has, phase, candidates, detection>>

\* checkout, save_cache and the like.
WalkBuiltin ==
    /\ AtStep /\ Step.kind = "builtin"
    /\ agenda' = Then(<<>>)
    /\ UNCHANGED <<chosen, has, phase, candidates, missed, detection>>

WalkOn ==
    /\ phase = "walk"
    /\ IF agenda = <<>> THEN phase' = "classify" /\ UNCHANGED agenda
       ELSE Here.steps = <<>> /\ agenda' = Tail(agenda) /\ UNCHANGED phase
    /\ UNCHANGED <<chosen, has, candidates, missed, detection>>

-----------------------------------------------------------------------------
(* Roles. *)

EmitOrder == <<"install", "test", "lint", "format-check", "format">>

\* A formatter told to report is a gate; the short flags say so only next to a
\* command that is itself known to format.
RefineFormat(role, reports) == IF role = "format" /\ reports THEN "format-check" ELSE role

Classify(c) ==
    LET t == config.text[c.text] IN
    IF t.ciOnly \/ t.skipped \/ c.dir = "outside" THEN "none"
    ELSE IF t.role # "none" THEN RefineFormat(t.role, t.shortFlag \/ t.longFlag)
    ELSE RefineFormat(t.label, t.longFlag)

\* At most one command for each role: the first.
CommandsFromCI ==
    LET first(role) == {i \in DOMAIN candidates :
                            /\ Classify(candidates[i]) = role
                            /\ \A j \in 1..(i - 1) : Classify(candidates[j]) # role}
        commandOf(role) == [role |-> role, from |-> candidates[CHOOSE i \in first(role) : TRUE]]
        found == SelectSeq(EmitOrder, LAMBDA role : first(role) # {})
    IN [n \in DOMAIN found |-> commandOf(found[n])]

\* What the toolchain's defaults are, the first that fits.
CommandsFromFilenames ==
    LET go == "go.mod" \in has
        roles == CASE "Taskfile.yml" \in has /\ go -> <<"test", "lint", "format">>
                   [] "Taskfile.yml" \notin has /\ "Makefile" \in has /\ go -> <<"test", "lint">>
                   [] has \cap {"Taskfile.yml", "Makefile"} = {} /\ go -> <<"test", "lint", "format">>
                   [] ~go /\ has # {} -> <<"test">>
                   [] OTHER -> <<>>
    IN [n \in DOMAIN roles |->
           [role |-> roles[n], from |-> [text |-> "layout", dir |-> "root"]]]

Has(commands, role) == \E i \in DOMAIN commands : commands[i].role = role

\* Mutant: CI is taken at its word but for the formatter.
FillsFormatter(role) == role = "format"

\* The formatter and the test are filled in; a gate CI does not name is not.
Fills(role) == role \in {"format", "test"}

WithDefaults(ci, defaults) ==
    LET all == ci \o SelectSeq(defaults, LAMBDA d : Fills(d.role) /\ ~Has(ci, d.role))
        ordered == SelectSeq(EmitOrder, LAMBDA role : Has(all, role))
        commandOf(role) == all[CHOOSE i \in DOMAIN all : all[i].role = role]
    IN [n \in DOMAIN ordered |-> commandOf(ordered[n])]

\* Claude is asked for a test command when a client is there.
AskClaude ==
    \E answer \in {<<>>, <<[role |-> "test", from |-> [text |-> "claude", dir |-> "root"]]>>} :
        detection' = [commands |-> answer, source |-> IF answer = <<>> THEN "none" ELSE "claude"]

Detect ==
    /\ phase = "classify" /\ phase' = "over"
    /\ CASE CommandsFromCI # <<>> ->
              detection' = [commands |-> WithDefaults(CommandsFromCI, CommandsFromFilenames),
                            source |-> "ci"]
         [] CommandsFromCI = <<>> /\ CommandsFromFilenames # <<>> ->
              detection' = [commands |-> CommandsFromFilenames, source |-> "layout"]
         [] OTHER -> AskClaude
    /\ UNCHANGED <<chosen, has, agenda, candidates, missed>>

NextSetup ==
    \/ Extract \/ AddRun \/ WalkConditional \/ WalkCommand \/ WalkOrb \/ WalkBuiltin
    \/ WalkOn \/ Detect

SpecSetup == InitSetup /\ [][NextSetup]_setupVars

-----------------------------------------------------------------------------
(* Type invariant. *)
SetupTypeOK ==
    /\ phase \in {"extract", "walk", "classify", "over"}
    /\ \A i \in DOMAIN agenda : agenda[i].depth \in 0..MaxDepth
    /\ Len(candidates) <= MaxCandidates
    /\ missed.unresolved \in Nat /\ missed.tooDeep \in Nat /\ missed.truncated \in Nat
    /\ \A i \in DOMAIN detection.commands : detection.commands[i].role \in Range(EmitOrder)

\* The steps that steps of `ids` lead to, conditions and commands followed.
LeadsTo(ids) ==
    ids \cup UNION {Range(config.step[i].nested) : i \in ids}
        \cup UNION {Range(config.commands[config.step[i].name].steps) :
                        i \in {j \in ids : config.step[j].kind = "command"}}

\* Those that any entry of a workflow that runs on a push leads to, or the build of a
\* config without workflows.
Reached ==
    LET pushed == {w \in DOMAIN config.workflows :
                      ~config.workflows[w].scheduled /\ WorkflowRuns(config.workflows[w])}
        entries == IF config.workflows = <<>> THEN {ImplicitBuild}
                   ELSE UNION {Range(config.workflows[w].jobs) : w \in pushed}
        gating == {e \in entries : ~e.approval /\ RunsOnWorkingBranch(e)
                                   /\ e.job \in DOMAIN config.jobs}
        start == UNION {Range(e.pre) \cup Range(e.post) \cup Range(config.jobs[e.job].steps) :
                            e \in gating}
        reach[n \in 0..Cardinality(DOMAIN config.step)] ==
            IF n = 0 THEN start ELSE LeadsTo(reach[n - 1])
    IN reach[Cardinality(DOMAIN config.step)]

\* When the extractor reports nothing that it could not read, every gating run
\* step of the config's jobs is among its candidates, with commands in commands,
\* cycles, forwarded parameters and jobs invoked twice (Extract, walk, addRun:
\* "dropping the subtree silently let a config ... report full coverage").
CoverageTrue ==
    phase \in {"classify", "over"} /\ config.found = "yes" /\ ~config.setup
    /\ missed.unresolved = 0 /\ missed.tooDeep = 0 /\ missed.truncated = 0 =>
        \A i \in Reached :
            config.step[i].kind = "run" /\ Gates(config.step[i]) =>
                \E n \in DOMAIN candidates : candidates[n].text = config.step[i].text
                                             /\ candidates[n].dir = config.step[i].dir

\* A config is written with a test whenever one was found in the CI config or the layout
\* suggests one, and its one autofix command rewrites the tree (withDefaults, refineFormat).
NeverTestless ==
    phase = "over" =>
        /\ Has(CommandsFromFilenames, "test") => Has(detection.commands, "test")
        /\ (\E i \in DOMAIN candidates : Classify(candidates[i]) = "test")
              => Has(detection.commands, "test")
        /\ \A i \in DOMAIN detection.commands :
              detection.commands[i].role = "format"
              /\ detection.commands[i].from.text \in DOMAIN config.text =>
                  ~config.text[detection.commands[i].from.text].longFlag
==============================================================================
