-------------------------------- MODULE MCProject --------------------------------
(***************************************************************************)
(* A project before and after it has oaths: `varar init` in a directory     *)
(* (Scaffold), and the index of three oaths that may refer to each other's  *)
(* sections, in chains and in cycles (IndexCache).  A behaviour is that of  *)
(* one of them; the other stays as it began.                                *)
(***************************************************************************)
EXTENDS IndexCache

CONSTANTS
    Login, Cart, Checkout,
    Projects, MaxRuns, MaxChanges   \* of Scaffold

VARIABLES disk, at, runner, flag, exit, byHand, completed, author, runs, changes

Scaffolding == INSTANCE Scaffold

\* A project before its first `init`: no file is init's, no version in package.json is, no
\* config is wired by it, and a package.json or a config that is not there says nothing.
ASSUME ProjectsAssumption ==
    \A p \in Projects :
        /\ p = [files |-> p.files, pkg |-> p.pkg, config |-> p.config, jest |-> p.jest,
                ignore |-> p.ignore]
        /\ p.files \in [Scaffolding!Files -> {"none", "theirs"}]
        /\ p.pkg = [is |-> p.pkg.is, type |-> p.pkg.type, jestKey |-> p.pkg.jestKey,
                    script |-> p.pkg.script, dev |-> p.pkg.dev]
        /\ p.pkg.is \in {"none", "unreadable", "json"}
        /\ p.pkg.is = "none" => p.pkg.type = "none"
        /\ p.pkg.dev \in [DOMAIN p.pkg.dev -> {"none", "own"}]
        /\ Scaffolding!Needed \subseteq DOMAIN p.pkg.dev
        /\ p.config = [is |-> p.config.is, define |-> p.config.define,
                       plugins |-> p.config.plugins, test |-> p.config.test,
                       mentions |-> p.config.mentions, wired |-> 0]
        /\ p.config.is \in {"none", "theirs"} /\ p.config.mentions \in BOOLEAN

initVars == <<disk, at, runner, flag, exit, byHand, completed, author, runs, changes>>
allVars == <<vars, initVars>>

--------------------------------------------------------------------------------
MCPaths == {Login, Cart, Checkout}

Steps == Para("steps")
Setup == Heading(1, "setup")

MCOutlines ==
    (Login :> {<<Setup, Steps>>, <<Para("prose"), Setup, Steps>>,
               <<Setup, Steps, Link(Cart, "setup")>>}) @@
    (Cart :> {<<Setup, Steps, Para("rows")>>,
              <<Setup, Link(Login, "setup"), Heading(2, "fill"), Steps>>}) @@
    (Checkout :> {<<Steps>>, <<Link(Cart, "setup"), Steps>>, <<Link(Login, WholeFile)>>})

MCStepSources == {{"steps", "rows"}, {"rows"}}

--------------------------------------------------------------------------------
MCConfig(is, define, plugins, test, mentions) ==
    [is |-> is, define |-> define, plugins |-> plugins, test |-> test,
     mentions |-> mentions, wired |-> 0]

MCNoConfig == MCConfig("none", 0, "none", "none", FALSE)
MCPlainConfig == MCConfig("theirs", 1, "none", "block", FALSE)

\* Every form of a runner config that wireVitest may meet.
MCConfigs ==
    {MCConfig("theirs", d, p, t, FALSE) :
        d \in 0 .. 2, p \in {"none", "list", "lists", "value"},
        t \in {"none", "block", "blocks", "value", "reporter list", "reporter lists",
               "reporters value"}}
        \cup {MCConfig("theirs", 1, "list", "block", TRUE)}

\* No package.json, one that is not JSON, and those of projects that are under way.
MCPackage(is, type, dev, jestKey, script) ==
    [is |-> is, type |-> type, jestKey |-> jestKey, script |-> script,
     dev |-> [n \in {"@varar/varar", "@varar/vitest", "vitest", "jest"} |->
                 IF n \in dev THEN "own" ELSE "none"]]

MCNoPackage == MCPackage("none", "none", {}, FALSE, "none")
MCPackages ==
    {MCNoPackage, MCPackage("unreadable", "none", {}, FALSE, "none")}
        \cup {MCPackage("json", type, dev, jestKey, script) :
                type \in {"none", "module", "commonjs"},
                dev \in {{}, {"vitest"}, {"jest"}, {"jest", "@varar/vitest"}},
                jestKey \in BOOLEAN, script \in {"none", "vitest", "jest"}}

MCNames == {"varar.config.json", "deep-thought.md", "deep-thought.steps.ts"}
MCNoFiles == [f \in MCNames |-> "none"]

MCProject(files, pkg, config, jest, ignore) ==
    [files |-> files, pkg |-> pkg, config |-> config, jest |-> jest, ignore |-> ignore]

MCProjects ==
    {MCProject(MCNoFiles, p, c, jest, "none") :
        p \in MCPackages, c \in {MCNoConfig, MCPlainConfig}, jest \in BOOLEAN}
    \cup {MCProject(MCNoFiles, p, c, FALSE, "other") :
        p \in {MCNoPackage, MCPackage("json", "none", {"vitest"}, FALSE, "jest")},
        c \in MCConfigs}
    \cup {MCProject(f, MCNoPackage, MCNoConfig, FALSE, ignore) :
        f \in [MCNames -> {"none", "theirs"}],
        ignore \in {"none", "other", "ignores .varar"}}

--------------------------------------------------------------------------------
\* The directory of a behaviour of the index: init is never run in it.
NoProject == MCProject(MCNoFiles, MCNoPackage, MCNoConfig, FALSE, "no directory")

\* A behaviour of init has no oaths yet.
NoOaths == Init /\ docs = << >> /\ steps = {"rows"}

Indexing == disk = NoProject

MCInit ==
    \/ /\ Init /\ disk = NoProject /\ author = NoProject
       /\ at = 0 /\ runner = "none" /\ flag = "none" /\ exit = "none"
       /\ byHand = {} /\ completed = FALSE /\ runs = 0 /\ changes = 0
    \/ NoOaths /\ Scaffolding!Init

MCNext ==
    \/ Indexing /\ Next /\ UNCHANGED initVars
    \/ ~Indexing /\ Scaffolding!Next /\ UNCHANGED vars

MCSpec == MCInit /\ [][MCNext]_allVars

--------------------------------------------------------------------------------
\* See Scaffold: what the author wrote stays as it was written.
NeverClobber == Scaffolding!NeverClobber

\* See Scaffold: however runs of init are broken off, the next one that ends well ends alike.
Converges == Scaffolding!Converges

\* See Scaffold: a run that asks for nothing by hand leaves a project whose oaths run.
ScaffoldRuns == Scaffolding!ScaffoldRuns
================================================================================
