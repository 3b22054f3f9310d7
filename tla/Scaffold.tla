-------------------------------- MODULE Scaffold --------------------------------
(***************************************************************************)
(* varar init (cli/src/init.ts, cli/src/runners.ts): the runner is resolved *)
(* first, and the files are then written or amended one after the other.    *)
(* Any of them may refuse to be written, which ends the run where it is;    *)
(* the author edits the project and runs init again.                        *)
(*                                                                         *)
(* A runner config is told apart by what wireVitest looks for in it: how    *)
(* often it has `export default defineConfig({`, the form of its `plugins`, *)
(* and the form of its `test` and of the `reporters` in it.                 *)
(***************************************************************************)
EXTENDS Integers, FiniteSets

CONSTANTS
    Projects,     \* what a directory may hold before the first run
    MaxRuns,      \* bound: runs of init
    MaxChanges    \* bound: the author's edits

Files == {"varar.config.json", "deep-thought.md", "deep-thought.steps.ts"}
Needed == {"@varar/varar", "@varar/vitest", "vitest"}
Runners == {"vitest", "jest"}
Flags == Runners \cup {"none", "unknown"}
\* Mutant: the dependencies come before there is a package.json.
PlacesDependenciesFirst ==
    <<"varar.config.json", "deep-thought.md", "deep-thought.steps.ts",
      "devDependencies", "type", "runner config", ".gitignore">>

\* The order of runInit.
Places == <<"varar.config.json", "deep-thought.md", "deep-thought.steps.ts",
            "type", "runner config", "devDependencies", ".gitignore">>

VARIABLES
    disk,         \* the project
    at,           \* the place among Places that init is at; 0 when it does not run
    runner,       \* the runner it resolved
    flag,         \* its --runner
    exit,         \* how the last run ended
    byHand,       \* what it told the author to add
    completed,    \* history: a run has ended well
    author,       \* history: the project, had init never been run
    runs, changes

initVars == <<disk, at, runner, flag, exit, byHand, completed, author, runs, changes>>

Config(is, define, plugins, test, mentions, wired) ==
    [is |-> is, define |-> define, plugins |-> plugins, test |-> test,
     mentions |-> mentions, wired |-> wired]
NoConfig == Config("none", 0, "none", "none", FALSE, 0)
FreshConfig == Config("ours", 1, "list", "reporter list", TRUE, 1)

Init ==
    /\ disk \in Projects /\ author = disk
    /\ at = 0 /\ runner = "none" /\ flag = "none" /\ exit = "none"
    /\ byHand = {} /\ completed = FALSE
    /\ runs = 0 /\ changes = 0

--------------------------------------------------------------------------------
\* readPackageJson: a file that is not JSON is as good as none.
Readable == disk.pkg.is = "json"

\* What each rule of detectRunner finds; probe() reads it all.
WithConfig ==
    {r \in Runners :
        \/ r = "vitest" /\ disk.config.is # "none"
        \/ r = "jest" /\ (disk.jest \/ (Readable /\ disk.pkg.jestKey))}
InDependencies == {r \in Runners : Readable /\ disk.pkg.dev[r] # "none"}
InScript == {r \in Runners : Readable /\ disk.pkg.script = r}

FirstOf(S) == IF "vitest" \in S THEN "vitest" ELSE "jest"

\* Mutant: what the scripts and dependencies name wins over a config.
DetectByName ==
    IF InDependencies # {} /\ "jest" \in InDependencies THEN "jest"
    ELSE IF WithConfig # {} THEN FirstOf(WithConfig) ELSE "vitest"

\* detectRunner.
Detect ==
    IF WithConfig # {} THEN FirstOf(WithConfig)
    ELSE IF InDependencies # {} THEN FirstOf(InDependencies)
    ELSE IF InScript # {} THEN FirstOf(InScript)
    ELSE "vitest"

Resolved(f) == IF f = "none" THEN Detect ELSE f

\* Only vitest has an adapter.
Start(f) ==
    /\ at = 0 /\ runs < MaxRuns /\ runs' = runs + 1
    /\ flag' = f /\ byHand' = {}
    /\ IF Resolved(f) = "vitest"
       THEN at' = 1 /\ runner' = "vitest" /\ exit' = "running"
       ELSE at' = 0 /\ runner' = "none" /\ exit' = "refused"
    /\ UNCHANGED <<disk, completed, author, changes>>

--------------------------------------------------------------------------------
At(place) == at > 0 /\ Places[at] = place
OneOn ==
    /\ at' = at + 1
    /\ UNCHANGED <<runner, flag, exit, completed, author, runs, changes>>

\* A scaffold file that is there is skipped.
WriteFile(f) ==
    /\ At(f)
    /\ disk' = [disk EXCEPT !.files[f] = IF @ = "none" THEN "ours" ELSE @]
    /\ OneOn /\ UNCHANGED byHand

\* A package.json of init's own has nothing but the type.
OwnPackage ==
    [disk.pkg EXCEPT !.is = "json", !.type = "module"]

\* ensureEsm: what becomes of package.json.
Esm ==
    IF disk.pkg.is = "none" THEN OwnPackage
    ELSE IF Readable /\ disk.pkg.type = "none" THEN [disk.pkg EXCEPT !.type = "module"]
    ELSE disk.pkg

EnsureEsm ==
    /\ At("type")
    /\ disk' = [disk EXCEPT !.pkg = Esm]
    /\ byHand' = byHand \cup (IF disk'.pkg.is = "json" /\ disk'.pkg.type = "module"
                              THEN {} ELSE {"type"})
    /\ OneOn

--------------------------------------------------------------------------------
\* wiredMarkers: what init adds mentions them too.
Marked(c) == c.mentions

\* wireVitest knows the shape.
CanWire(c) ==
    /\ c.define = 1
    /\ c.plugins # "lists"
    /\ c.test \notin {"blocks", "reporter lists"}

Wired(c) == [c EXCEPT !.wired = @ + 1, !.mentions = TRUE]

EnsureRunnerConfig ==
    /\ At("runner config")
    /\ LET c == disk.config
       IN \/ /\ c.is = "none"
             /\ disk' = [disk EXCEPT !.config = FreshConfig]
             /\ UNCHANGED byHand
          \/ /\ c.is # "none" /\ Marked(c)
             /\ UNCHANGED <<disk, byHand>>
          \/ /\ c.is # "none" /\ ~Marked(c) /\ CanWire(c)
             /\ disk' = [disk EXCEPT !.config = Wired(c)]
             /\ UNCHANGED byHand
          \/ /\ c.is # "none" /\ ~Marked(c)      \* also when no parser can be asked
             /\ byHand' = byHand \cup {"config"}
             /\ UNCHANGED disk
    /\ OneOn

\* Mutant: the needed ranges replace those that are there.
Repinned == [n \in DOMAIN disk.pkg.dev |-> IF n \in Needed THEN "ours" ELSE disk.pkg.dev[n]]

\* What is needed, without repinning what is there.
Added ==
    [n \in DOMAIN disk.pkg.dev |->
        IF n \in Needed /\ disk.pkg.dev[n] = "none" THEN "ours" ELSE disk.pkg.dev[n]]

EnsureDevDependencies ==
    /\ At("devDependencies")
    /\ disk' = IF Readable THEN [disk EXCEPT !.pkg.dev = Added] ELSE disk
    /\ OneOn /\ UNCHANGED byHand

\* The last step of runInit; a .gitignore is amended and never created.
EnsureGitignore ==
    /\ At(".gitignore")
    /\ disk' = [disk EXCEPT !.ignore = IF @ = "other" THEN "ignores .varar" ELSE @]
    /\ at' = 0 /\ exit' = "done" /\ completed' = TRUE
    /\ UNCHANGED <<runner, flag, byHand, author, runs, changes>>

\* A read or a write throws, and nothing is undone.
Throw ==
    /\ at > 0
    /\ at' = 0 /\ exit' = "threw"
    /\ UNCHANGED <<disk, runner, flag, byHand, completed, author, runs, changes>>

--------------------------------------------------------------------------------
Change ==
    /\ changes < MaxChanges /\ changes' = changes + 1
    /\ UNCHANGED <<at, runner, flag, exit, byHand, completed, runs>>

\* The author rewrites a scaffolded file, or pins a version, at any time.
AuthorWrites(f) ==
    /\ Change /\ disk.files[f] = "ours"
    /\ disk' = [disk EXCEPT !.files[f] = "theirs"]
    /\ author' = [author EXCEPT !.files[f] = "theirs"]

AuthorPins(n) ==
    /\ Change /\ author.pkg.is = "json" /\ disk.pkg.dev[n] # "own"
    /\ disk' = [disk EXCEPT !.pkg.dev[n] = "own"]
    /\ author' = [author EXCEPT !.pkg.dev[n] = "own"]

\* The author adds the printed snippet.
AuthorWires ==
    /\ Change /\ "config" \in byHand /\ ~author.config.mentions
    /\ disk' = [disk EXCEPT !.config.mentions = TRUE]
    /\ author' = [author EXCEPT !.config.mentions = TRUE]

Next ==
    \/ \E f \in Flags : Start(f)
    \/ \E f \in Files : WriteFile(f) \/ AuthorWrites(f)
    \/ \E n \in Needed : AuthorPins(n)
    \/ AuthorWires
    \/ EnsureEsm \/ EnsureRunnerConfig \/ EnsureDevDependencies \/ EnsureGitignore
    \/ Throw

Spec == Init /\ [][Next]_initVars

--------------------------------------------------------------------------------
\* init.ts:103, "NEVER CLOBBER": whenever init stops, by itself or by an error, and
\* however often it was run, all that the author wrote is there as it was written.
NeverClobber ==
    /\ \A f \in Files : author.files[f] = "theirs" => disk.files[f] = "theirs"
    /\ author.pkg.is = "unreadable" => disk.pkg = author.pkg
    /\ author.pkg.is = "json" =>
          /\ author.pkg.type # "none" => disk.pkg.type = author.pkg.type
          /\ \A n \in DOMAIN author.pkg.dev :
                author.pkg.dev[n] # "none" => disk.pkg.dev[n] = author.pkg.dev[n]
    /\ author.config.is = "theirs" =>
          \/ disk.config = author.config
          \/ ~Marked(author.config) /\ disk.config = Wired(author.config)
    /\ author.ignore = "none" => disk.ignore = "none"

\* What one undisturbed run makes of the author's project p, which asks for byHand.
Scaffolded(p) ==
    [files |-> [f \in Files |-> IF p.files[f] = "theirs" THEN "theirs" ELSE "ours"],
     pkg |-> IF p.pkg.is = "unreadable" THEN p.pkg
             ELSE [p.pkg EXCEPT
                     !.is = "json",
                     !.type = IF p.pkg.type = "none" THEN "module" ELSE @,
                     !.dev = [n \in DOMAIN @ |-> IF n \in Needed /\ @[n] = "none" THEN "ours"
                                                 ELSE @[n]]],
     config |-> IF p.config.is = "none" THEN FreshConfig
                ELSE IF Marked(p.config) \/ "config" \in byHand THEN p.config
                ELSE Wired(p.config),
     jest |-> p.jest,
     ignore |-> IF p.ignore = "other" THEN "ignores .varar" ELSE p.ignore]

\* doc/REMOVE-CLI-RUN.md:231, "twice in a row is a no-op the second time", and more: a run
\* that ends well leaves what one undisturbed run would have, whatever runs were broken
\* off before it, and once one has, a run that is told of no runner is not refused.
Converges ==
    /\ exit = "done" => disk = Scaffolded(author)
    /\ completed /\ exit = "refused" => flag # "none"

\* A later property of the same name wins over the one that init adds.
Overridden(c) ==
    c.is = "theirs" /\ (c.plugins = "value" \/ c.test \in {"value", "reporters value"})

\* init.test.ts:121, "scaffolds a runnable vitest project": after a run that ends well
\* and asks for nothing by hand, the oaths run; but for a config whose own plugins or
\* reporters are no array literal.
ScaffoldRuns ==
    exit = "done" /\ byHand = {} /\ ~Overridden(author.config) =>
        /\ \A f \in Files : disk.files[f] # "none"
        /\ disk.pkg.is = "json" /\ disk.pkg.type = "module"
        /\ \A n \in Needed : disk.pkg.dev[n] # "none"
        /\ disk.config.wired = 1 \/ author.config.mentions
================================================================================
