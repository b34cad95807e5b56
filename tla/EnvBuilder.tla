----------------------------- MODULE EnvBuilder -----------------------------
(***************************************************************************)
(* `chunk sidecar env' and `chunk sidecar build': which stack a repository *)
(* is, how it is installed and tested, which tag of the stack's image to   *)
(* take, and the Dockerfile made of it.                                    *)
(*                                                                         *)
(* A repository is the set of facts detection looks for: files, and what   *)
(* they say.  A command is a sequence of runs, each the tool it needs, the *)
(* facts it reads from the working directory and the tools it provides.    *)
(* Versions are numbers; a tag may also name a platform (otp), 0 when not. *)
(***************************************************************************)
EXTENDS Integers, FiniteSets, Sequences, SequencesExt, FiniteSetsExt

CONSTANTS Repositories, \* sets of facts
          Hubs,         \* the pages of tags the registry may answer
          Declared,     \* the versions a repository may declare, 0 for none
          PageLimit     \* pages read at most: 300 tags

VARIABLES repo,         \* the facts
          code,         \* the language most source files are in, and whether
                        \* they outnumber an indicator file
          says,         \* the version and the platform declared
          hub, tags,    \* the registry, and the tags read so far
          page,         \* pages read
          env,          \* what is detected so far
          layers,       \* the Dockerfile
          stage

envVars == <<repo, code, says, hub, tags, page, env, layers, stage>>

Has(f) == f \in repo

-----------------------------------------------------------------------------
(* The stack.                                                              *)

Indicators == [
    python |-> {"pyproject", "setup.py", "requirements", "Pipfile"},
    go |-> {"go.mod"}, javascript |-> {"package.json"}, typescript |-> {"tsconfig"},
    rust |-> {"Cargo"}, java |-> {"pom", "gradle"}, scala |-> {"build.sbt"},
    ruby |-> {"Gemfile"}, php |-> {"composer.json"}, elixir |-> {"mix"},
    cpp |-> {"CMake", "meson"}, dart |-> {"pubspec"}, haskell |-> {"stack.yaml", "cabal"},
    dotnet |-> {"sln"}]

Stacks == DOMAIN Indicators

\* An indicator is worth ten source files; tsconfig counts twice.
Score(s) == 10 * Cardinality(Indicators[s] \cap repo)
            + (IF s = "typescript" /\ Has("tsconfig") THEN 10 ELSE 0)
            + (IF code.in = s THEN (IF code.many THEN 25 ELSE 5) ELSE 0)

\* Ties fall as the map happens to be walked.
BestStacks == {s \in Stacks : Score(s) > 0 /\ \A r \in Stacks : Score(r) <= Score(s)}

-----------------------------------------------------------------------------
(* Its commands.                                                           *)

Run(tool, reads, gives) == [tool |-> tool, reads |-> reads, gives |-> gives]
Cmds(install, test, deps) == [install |-> install, test |-> test, deps |-> deps]
When(cond, seq) == IF cond THEN seq ELSE <<>>

\* Names from the repository that are no plain token are left out.
SafeToken(f) == f \notin {"odd-name"}

\* Workspace members with test groups are synced one by one.
UVSync ==
    <<Run("uv", {"pyproject", "uv.lock"}, {"pytest"})>>
    \o When(Has("uv-members") /\ SafeToken("uv-members"), <<Run("uv", {"uv-members"}, {})>>)

\* Without a lock file pytest comes from whichever list names it.
PipParts ==
    <<Run("pip", {"pyproject"}, IF Has("extras") THEN {"pytest"} ELSE {})>>
    \o When(Has("hatch"), <<Run("pip", {}, {"pytest"})>>)
    \o When(Has("requirements-dev"), <<Run("pip", {"requirements-dev"}, {"pytest"})>>)
    \o When(Has("groups"), <<Run("pip", {}, {"pytest"})>>)

PythonCommands ==
    IF Has("uv.lock") THEN Cmds(UVSync, <<Run("uv", {"pyproject"}, {})>>, <<"uv">>)
    ELSE IF Has("Pipfile")
    THEN Cmds(<<Run("pipenv", {"Pipfile"}, {})>>, <<Run("pipenv", {"Pipfile"}, {})>>, <<"pipenv">>)
    ELSE IF Has("requirements")
    THEN Cmds(<<Run("pip", {"requirements"}, {"pytest"})>>, <<Run("pytest", {}, {})>>, <<"pip">>)
    ELSE Cmds(PipParts, <<Run("pytest", {}, {})>>, <<"pip">>)

\* Tools the tests mention are installed beside the toolchain.
GoCommands ==
    Cmds(<<Run("go", {"go.mod"} \cup ({"go.sum"} \cap repo), {})>>,
         <<Run("go", {"source"} \cup ({"dart-sass", "pandoc"} \cap repo), {})>>,
         <<"git">> \o When(Has("dart-sass"), <<"dart-sass">>)
                   \o When(Has("asciidoctor"), <<"asciidoctor">>)
                   \o When(Has("pandoc"), <<"pandoc">>) \o When(Has("rst2html"), <<"rst2html">>))

PackageManager == IF Has("yarn.lock") THEN "yarn" ELSE IF Has("pnpm-lock") THEN "pnpm" ELSE "npm"

\* An nx repository without a test script runs its targets.
NodeTest(pm) == <<Run(pm, {"package.json"} \cup ({"nx", "workspaces"} \cap repo), {})>>

NodeCommands ==
    Cmds(<<Run(PackageManager, {"package.json"}, {})>>, NodeTest(PackageManager),
         <<"node", PackageManager>>)

\* Maven leaves out the modules a plain JVM cannot build.
MavenCommands ==
    LET run == <<Run("mvn", {"pom"} \cup ({"skipped"} \cap repo), {})>> IN Cmds(run, run, <<"mvn">>)

JDKs == SelectSeq(<<"openjdk-8", "openjdk-11", "openjdk-17">>, Has)

GradleCommands ==
    Cmds(<<Run("sh", {"gradlew"}, {})>>,
         <<Run("sh", {"gradlew"} \cup (ToSet(JDKs) \cap repo), {})>>, JDKs)

\* Members that need a nightly toolchain are excluded from the test.
RustCommands ==
    Cmds(<<Run("cargo", {"Cargo"}, {})>>,
         <<Run("cargo", {"Cargo"} \cup ({"workspace", "nightly"} \cap repo), {})>>, <<>>)

RubyCommands ==
    Cmds(<<Run("bundle", {"Gemfile"} \cup ({"Gemfile.lock", "gemspec"} \cap repo)
                         \cup (IF Has("gemspec") THEN {"lib"} \cap repo ELSE {}), {})>>,
         <<Run("bundle", {"Gemfile", "source"}, {})>>, <<>>)

PHPCommands ==
    Cmds(<<Run("composer", {"composer.json"}, {"phpunit"})>>,
         <<Run("faketime", {}, {}), Run("phpunit", {"source"}, {})>>,
         <<"composer", "locales", "tzdata", "faketime">>)

ElixirCommands == Cmds(<<Run("mix", {"mix"}, {})>>, <<Run("mix", {"mix", "source"}, {})>>, <<>>)

\* The solution may be one directory down; the newest framework is tested.
DotNetCommands ==
    Cmds(<<Run("dotnet", {"sln", "subdir"} \cap repo, {})>>,
         <<Run(IF Has("old-framework") THEN "old-runtime" ELSE "dotnet", {"source"}, {})>>, <<>>)

\* A package of a monorepo is tested when it has a test directory.
DartCommands ==
    IF Has("pubspec") THEN Cmds(<<Run("dart", {"pubspec"}, {})>>, <<Run("dart", {"pubspec"}, {})>>, <<>>)
    ELSE Cmds(When(Has("packages"), <<Run("dart", {"packages"}, {})>>),
              <<Run("dart", {"packages", "package-tests"} \cap repo, {})>>, <<>>)

HaskellCommands ==
    LET tool == IF Has("stack.yaml") THEN "stack" ELSE "cabal"
    IN  Cmds(<<Run(tool, {"stack.yaml", "cabal"} \cap repo, {})>>, <<Run(tool, {"source"}, {})>>, <<>>)

\* A cross-platform build is tested on the JVM only.
ScalaCommands ==
    Cmds(<<Run("sbt", {"build.sbt"}, {})>>,
         <<Run("sbt", {"build.sbt"} \cup ({"cross"} \cap repo), {})>>, <<"sbt">>)

CPPCommands ==
    IF Has("meson") /\ ~Has("CMake")
    THEN Cmds(<<Run("meson", {"meson"}, {"build"})>>, <<Run("build", {}, {})>>, <<>>)
    ELSE Cmds(<<Run("cmake", {"CMake"}, {"build"})>>, <<Run("build", {}, {})>>, <<>>)

Commands(s) ==
    CASE s = "python" -> PythonCommands
      [] s = "go" -> GoCommands
      [] s \in {"javascript", "typescript"} -> NodeCommands
      [] s = "java" -> IF Has("pom") THEN MavenCommands ELSE GradleCommands
      [] s = "rust" -> RustCommands
      [] s = "ruby" -> RubyCommands
      [] s = "php" -> PHPCommands
      [] s = "elixir" -> ElixirCommands
      [] s = "dotnet" -> DotNetCommands
      [] s = "dart" -> DartCommands
      [] s = "haskell" -> HaskellCommands
      [] s = "scala" -> ScalaCommands
      [] s = "cpp" -> CPPCommands
      [] OTHER -> Cmds(<<>>, <<>>, <<>>)

-----------------------------------------------------------------------------
(* The image and its tag.                                                  *)

\* What the images hold (external), besides a shell.
Provides == [
    python |-> {"pip"}, go |-> {"go"}, javascript |-> {"npm"}, typescript |-> {"npm"},
    rust |-> {"cargo"}, java |-> {"java"}, scala |-> {"java"}, ruby |-> {"bundle"},
    php |-> {"php"}, elixir |-> {"mix"}, cpp |-> {"cmake"}, dart |-> {"dart"},
    haskell |-> {"stack", "cabal"}, dotnet |-> {"dotnet"}, unknown |-> {}]

NoTag == [kind |-> "none", v |-> 0, otp |-> 0]
NoCap == 99
GoFloor == 2        \* Go 1.23
Usual == 2          \* Java 21, Java 17 for Scala, GHC 9.10, Python 3.13
OrUsual == IF says.v > 0 THEN says.v ELSE Usual
OrNoCap == IF says.v > 0 THEN says.v ELSE NoCap

Floored(v) == IF v = NoCap THEN v ELSE IF v > GoFloor THEN v ELSE GoFloor

\* The install command names uvloop only when it lists packages itself.
NamesUvloop == Has("uvloop") /\ (Has("hatch") \/ Has("groups"))
               /\ {"uv.lock", "Pipfile", "requirements"} \cap repo = {}

\* The highest version a stack may take.
Cap(s) ==
    CASE s = "go" -> Floored(OrNoCap)
      [] s \in {"javascript", "typescript"} -> IF Has("package.json") THEN OrNoCap ELSE NoCap
      [] s = "java" -> IF Has("pom") THEN OrNoCap ELSE OrUsual
      [] s \in {"scala", "haskell"} -> OrUsual
      [] s = "python" -> IF NamesUvloop THEN Usual ELSE NoCap
      [] s = "elixir" -> OrNoCap
      [] OTHER -> NoCap

Kind(s) == IF s = "cpp" THEN "date" ELSE "version"

Highest(ts) == CHOOSE t \in ts : \A u \in ts : u.v <= t.v

\* Tags of the platform a CI file names come first, then plain ones; when
\* none fits, the highest there is.
OfPlatform(s) == {t \in tags : s = "elixir" /\ says.otp > 0 /\ says.v > 0
                                /\ t.otp = says.otp /\ t.v <= Cap(s)}
Plain(s) == {t \in tags : t.kind = Kind(s) /\ t.otp = 0}

\* Mutant: the registry's latest, whatever the repository declares.
Latest(s) == Highest(Plain(s))

BestTag(s) ==
    LET fits == {t \in Plain(s) : t.v <= Cap(s)}
    IN  IF OfPlatform(s) # {} THEN Highest(OfPlatform(s))
        ELSE IF fits # {} THEN Highest(fits) ELSE Highest(Plain(s))

-----------------------------------------------------------------------------
(* The steps and the Dockerfile.                                           *)

ByShell == {"node", "mvn", "sbt", "git", "locales", "tzdata", "faketime", "asciidoctor", "pandoc",
            "rst2html", "dart-sass", "openjdk-8", "openjdk-11", "openjdk-17"}

\* Mutant: pipenv has no installer.
PipWithout == {"uv"}

ByPip == {"uv", "pipenv"}
ByNpm == {"yarn", "pnpm"}

\* The dependencies that have an installer; node brings npm.
Installers == ByShell \cup ByPip \cup ByNpm \cup {"composer"}
Takes(d) == IF d \in ByShell THEN "sh" ELSE IF d \in ByPip THEN "pip"
            ELSE IF d \in ByNpm THEN "npm" ELSE "php"

Install(d) == Run(Takes(d), {}, IF d = "node" THEN {"node", "npm"} ELSE {d})

SystemRuns(deps) ==
    LET known == SelectSeq(deps, LAMBDA d : d \in Installers)
    IN  [i \in DOMAIN known |-> Install(known[i])]

Playwright ==
    When(Has("playwright"),
         <<Run(IF Has("pnpm-lock") THEN "pnpm" ELSE IF Has("yarn.lock") THEN "yarn" ELSE "npm",
               {"package.json"}, {"browsers"})>>)

\* The provisioning steps, in their order.
SetupRuns == SystemRuns(env.cmds.deps) \o env.cmds.install \o Playwright

Copy(fs) == [copies |-> fs]
CopyAll == Copy(repo \cup {"source"})
Split(first, then) == <<Copy(first)>> \o then \o <<CopyAll>>

GoManifests == {"go.mod", "go.sum"}

\* Mutant: the lib directory a gemspec reads comes with the rest.
GemfileOnly == {"Gemfile"} \cup ({"Gemfile.lock", "gemspec"} \cap repo)

RubyManifests == {"Gemfile"} \cup ({"Gemfile.lock", "gemspec"} \cap repo)
                 \cup (IF Has("gemspec") THEN {"lib"} \cap repo ELSE {})

\* Mutant: an older framework is tested with the SDK's own runtime.
NoRuntimes == <<>>

\* The runtime of an older framework is installed beside the SDK.
OldRuntime == When(Has("old-framework"), <<Run("sh", {}, {"old-runtime"})>>)

\* Manifests before the rest for Go and Ruby, to keep the install layer.
CopyAndInstall ==
    CASE env.stack = "go" -> Split(GoManifests, env.cmds.install)
      [] env.stack = "ruby" -> Split(RubyManifests, env.cmds.install)
      [] env.stack = "dotnet" -> <<CopyAll>> \o OldRuntime \o env.cmds.install
      [] OTHER -> <<CopyAll>> \o env.cmds.install

Dockerfile == SystemRuns(env.cmds.deps) \o CopyAndInstall \o env.cmds.test

-----------------------------------------------------------------------------
NoEnv == [stack |-> "unknown", cmds |-> Cmds(<<>>, <<>>, <<>>), from |-> "none", tag |-> NoTag]

InitEnv ==
    /\ repo \in Repositories
    /\ code \in [in : {s \in Stacks : Indicators[s] \cap repo # {}}, many : BOOLEAN]
    /\ says \in [v : Declared, otp : Declared]
    /\ says.otp > 0 => "mix" \in repo
    /\ hub \in Hubs
    /\ tags = {} /\ page = 0 /\ env = NoEnv /\ layers = <<>> /\ stage = "stack"

Reads == <<repo, code, says, hub>>

DetectStack ==
    /\ stage = "stack" /\ stage' = "commands"
    /\ \E s \in BestStacks : env' = [env EXCEPT !.stack = s]
    /\ UNCHANGED <<Reads, tags, page, layers>>

DetectCommands ==
    /\ stage = "commands" /\ stage' = "version"
    /\ env' = [env EXCEPT !.cmds = Commands(env.stack)]
    /\ UNCHANGED <<Reads, tags, page, layers>>

\* A version .circleci/config.yml pins is taken; .NET's is worked out here.
TakeLocal ==
    /\ stage = "version" /\ stage' = "steps"
    /\ Has("pinned") \/ env.stack = "dotnet"
    /\ env' = [env EXCEPT !.from = "local"]
    /\ UNCHANGED <<Reads, tags, page, layers>>

FetchPage ==
    /\ stage = "version" /\ ~Has("pinned") /\ env.stack # "dotnet"
    /\ page < Len(hub) /\ page < PageLimit
    /\ tags' = tags \cup hub[page + 1] /\ page' = page + 1
    /\ UNCHANGED <<Reads, env, layers, stage>>

\* A request fails, or no tag looks like a version.
FetchFails ==
    /\ stage = "version" /\ ~Has("pinned") /\ env.stack # "dotnet" /\ stage' = "failed"
    /\ page < Min({Len(hub), PageLimit}) \/ Plain(env.stack) = {}
    /\ UNCHANGED <<Reads, tags, page, env, layers>>

ChooseTag ==
    /\ stage = "version" /\ stage' = "steps"
    /\ page = Min({Len(hub), PageLimit}) /\ Plain(env.stack) # {}
    /\ env' = [env EXCEPT !.from = "tag", !.tag = BestTag(env.stack)]
    /\ UNCHANGED <<Reads, tags, page, layers>>

WriteDockerfile ==
    /\ stage = "steps" /\ stage' = "written"
    /\ layers' = Dockerfile
    /\ UNCHANGED <<Reads, tags, page, env>>

NextEnv == DetectStack \/ DetectCommands \/ TakeLocal \/ FetchPage \/ FetchFails
           \/ ChooseTag \/ WriteDockerfile

SpecEnv == InitEnv /\ [][NextEnv]_envVars

-----------------------------------------------------------------------------
EnvTypeOK ==
    /\ env.stack \in Stacks \cup {"unknown"}
    /\ env.from = "tag" => env.tag \in tags
    /\ page \in 0..PageLimit
    /\ stage \in {"stack", "commands", "version", "steps", "written", "failed"}

\* A sequence of copies and runs goes through on an image: what is copied is
\* there, every tool is in the image or was installed before, and every fact
\* read was copied before.
GoesThrough(ops, tools, files) ==
    \A i \in DOMAIN ops :
        LET op == ops[i]
            before == {ops[j] : j \in 1..(i - 1)}
        IN  IF "copies" \in DOMAIN op THEN op.copies \subseteq repo \cup {"source"}
            ELSE /\ op.tool \in tools \cup {"sh"}
                        \cup UNION {b.gives : b \in {b \in before : "gives" \in DOMAIN b}}
                 /\ op.reads \subseteq files
                        \cup UNION {b.copies : b \in {b \in before : "copies" \in DOMAIN b}}

\* The generated Dockerfile builds and its tests start (dockerfileContent).
LayersBuild == stage = "written" => GoesThrough(layers, Provides[env.stack], {})

\* So do the provisioning steps, in a sidecar that holds the project.
StepsRun == stage \in {"steps", "written"} =>
    GoesThrough(SetupRuns, Provides[env.stack], repo \cup {"source"})

\* Of all the registry's tags, the chosen one is the highest of those within
\* what the repository declares, whenever there is one.
VersionFits ==
    env.from = "tag" =>
        LET all == UNION {hub[i] : i \in DOMAIN hub}
            right(t) == t.kind = Kind(env.stack) /\ t.v <= Cap(env.stack)
            otps == {t \in all : right(t) /\ says.otp > 0 /\ t.otp = says.otp}
            plain == {t \in all : right(t) /\ t.otp = 0}
        IN  IF otps # {} /\ says.v > 0 /\ env.stack = "elixir"
            THEN env.tag \in otps /\ \A t \in otps : t.v <= env.tag.v
            ELSE plain # {} => env.tag \in plain /\ \A t \in plain : t.v <= env.tag.v
=============================================================================
