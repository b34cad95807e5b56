--------------------------- MODULE MCRepositories ---------------------------
(* The repositories, CI configs, registries and accounts MCCommands runs the commands on. *)
EXTENDS Naturals, FiniteSets

-----------------------------------------------------------------------------
(* CI configs. *)

Step(kind, name, text, needs) ==
    [kind |-> kind, name |-> name, text |-> text, dir |-> "root", needs |-> needs,
     when |-> "on_success", background |-> "no", nested |-> <<>>, gives |-> {}, forwards |-> {}]

NamedSteps ==
    [test |-> Step("run", "", "test", {}), lint |-> Step("run", "", "lint", {"p"}),
     fmt |-> Step("run", "", "fmt", {}), opaque |-> Step("run", "", "opaque", {}),
     dump |-> [Step("run", "", "test", {}) EXCEPT !.when = "on_fail"],
     daemon |-> [Step("run", "", "lint", {}) EXCEPT !.background = "unknown"],
     away |-> [Step("run", "", "test", {}) EXCEPT !.dir = "outside"],
     cond |-> [Step("when", "", "", {}) EXCEPT !.nested = <<"test", "call">>],
     call |-> [Step("command", "c", "", {}) EXCEPT !.forwards = {"p"}, !.nested = <<"fmt">>],
     give |-> [Step("command", "c", "", {}) EXCEPT !.gives = {"p"}],
     loop |-> Step("command", "d", "", {}),
     orb |-> [Step("orb", "o/x", "", {}) EXCEPT !.nested = <<"fmt">>],
     checkout |-> Step("builtin", "checkout", "", {})]

Text(role, label) ==
    [role |-> role, label |-> label, ciOnly |-> FALSE, skipped |-> FALSE,
     shortFlag |-> FALSE, longFlag |-> FALSE]

Texts == [test |-> Text("test", "none"), lint |-> Text("lint", "none"),
          fmt |-> [Text("format", "none") EXCEPT !.longFlag = TRUE],
          opaque |-> [Text("none", "format") EXCEPT !.shortFlag = TRUE]]

Entry(job) == [job |-> job, params |-> {}, approval |-> FALSE, only |-> {}, ignore |-> {},
               pre |-> <<>>, post |-> <<>>]
Flow(jobs) == [scheduled |-> FALSE, when |-> "unknown", unless |-> "unknown", jobs |-> jobs]

Lists == <<<<"checkout", "cond">>, <<"give", "orb", "dump">>, <<"loop">>, <<"opaque", "daemon">>,
           <<"away", "lint">>, <<"fmt", "test", "opaque">>>>

Flows ==
    <<<<Flow(<<Entry("a"), Entry("b")>>)>>,
      <<[Flow(<<Entry("b")>>) EXCEPT !.when = "false"],
        Flow(<<[Entry("a") EXCEPT !.params = {"p"}], Entry("b"),
               [Entry("b") EXCEPT !.params = {"p"}], Entry("orb-job")>>)>>,
      <<Flow(<<[Entry("a") EXCEPT !.only = {{}}], [Entry("b") EXCEPT !.ignore = {{}}],
               [Entry("a") EXCEPT !.approval = TRUE]>>)>>>>

\* A config of two jobs, the first of the name given.
CIRepo(found, generated, first, a, b, flows) ==
    [found |-> found, setup |-> generated, step |-> NamedSteps, text |-> Texts,
     commands |-> [c |-> [steps |-> <<"lint">>, defaults |-> {}],
                   d |-> [steps |-> <<"test", "loop">>, defaults |-> {}]],
     jobs |-> [j \in {first, "b"} |-> IF j = "b" THEN [steps |-> b, defaults |-> {}]
                                      ELSE [steps |-> a, defaults |-> {"p"}]],
     workflows |-> flows]

\* Two jobs in each of the workflows; a config that generates another; none; and configs
\* without workflows, with a job named build and with none.
CIConfigs ==
    [k \in 1..117 |->
        CASE k <= 108 -> CIRepo("yes", FALSE, "a", Lists[((k - 1) % 6) + 1],
                                Lists[(((k - 1) \div 6) % 6) + 1], Flows[((k - 1) \div 36) + 1])
          [] k \in {109, 110} -> CIRepo(IF k = 109 THEN "yes" ELSE "no", k = 109, "a", Lists[6],
                                        Lists[1], Flows[1])
          [] k \in 111..116 -> CIRepo("yes", FALSE, "build", Lists[k - 110], Lists[6], <<>>)
          [] k = 117 -> CIRepo("yes", FALSE, "a", Lists[6], Lists[6], <<>>)]

RootFileSets == {{}, {"go.mod"}, {"Makefile", "go.mod"}, {"Taskfile.yml", "go.mod"},
                    {"Cargo.toml"}}

-----------------------------------------------------------------------------
(* Repositories by the files in them, and the tags of Docker Hub by page. *)

With(base, more) == {base \cup x : x \in SUBSET more}

PythonRepositories ==
    With({"pyproject", "uv.lock"}, {"uv-members", "uvloop"})
    \cup With({"Pipfile"}, {"pyproject"}) \cup With({"requirements"}, {"pyproject"})
    \cup {r \in With({"pyproject"}, {"extras", "hatch", "requirements-dev", "groups", "uvloop"}) :
              r \cap {"extras", "hatch", "requirements-dev", "groups"} # {}}

NodeRepositories ==
    {r \in With({"package.json"}, {"tsconfig", "yarn.lock", "pnpm-lock", "playwright", "nx"}) :
        ~({"yarn.lock", "pnpm-lock"} \subseteq r)}

OtherRepositories ==
    With({"go.mod", "go.sum"}, {"dart-sass", "pandoc", "asciidoctor", "rst2html", "pinned"})
    \cup With({"pom"}, {"skipped"}) \cup With({"gradle", "gradlew"}, {"openjdk-8", "openjdk-17"})
    \cup With({"Cargo"}, {"workspace", "nightly"})
    \cup With({"Gemfile"}, {"Gemfile.lock", "gemspec", "lib"})
    \cup {{"composer.json"}, {"mix"}, {"CMake"}, {"pubspec"}, {"build.sbt"}, {"build.sbt", "cross"}}
    \cup With({"sln"}, {"old-framework", "subdir"}) \cup With({"stack.yaml"}, {"cabal"}) \cup {{"cabal"}}

Mixed == {{"go.mod", "go.sum", "package.json"}, {"pyproject", "uv.lock", "package.json"},
          {"Gemfile", "package.json", "yarn.lock"}, {"pom", "gradle", "gradlew"},
          {"go.mod", "go.sum", "Cargo"}}

EnvRepositories == PythonRepositories \cup NodeRepositories \cup OtherRepositories \cup Mixed

Tag(kind, v, otp) == [kind |-> kind, v |-> v, otp |-> otp]

EnvHubs == {
    <<{Tag("version", 3, 0), Tag("version", 2, 1), Tag("other", 0, 0)},
      {Tag("version", 2, 0), Tag("version", 1, 0), Tag("version", 1, 1), Tag("date", 1, 0)}>>,
    <<{Tag("version", 3, 0), Tag("version", 4, 0), Tag("date", 2, 0), Tag("date", 3, 0)}>>,
    <<{Tag("other", 0, 0)}>>}

-----------------------------------------------------------------------------
(* Commands, rows of the dashboard, accounts. *)

ThreeCommands == <<[role |-> "gate", local |-> FALSE], [role |-> "autofix", local |-> TRUE],
                   [role |-> "gate", local |-> FALSE]>>

RepoOfRow == [s \in {"s1", "s2", "s3"} |-> IF s = "s3" THEN 2 ELSE 1]
LinesOfRow == [s \in {"s1", "s2", "s3"} |-> IF s = "s2" THEN 4 ELSE 3]

AccountTokens == [circleci |-> {"t1", "t2"}, anthropic |-> {"k"}, oauth |-> {"k"}, github |-> {"k"}]
NoTokenInEnv == [circleci |-> "no token", anthropic |-> "no token",
                 oauth |-> "no token", github |-> "no token"]
=============================================================================
