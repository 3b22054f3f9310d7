----------------------------- MODULE Project_proofs -----------------------------
(***************************************************************************)
(* A plan depends on nothing that its cache key leaves out, or that is not  *)
(* inlined for the worker, and what it takes in is highlighted where it was *)
(* written (IndexCache).  However runs of init are broken off and repeated, *)
(* and whatever the author does between them, each part of the project is   *)
(* as the author made it or as one run would have (Scaffold).               *)
(***************************************************************************)
EXTENDS MCProject, FiniteSetTheorems, TLAPS

\* Pairs of a path and what is there, of one set of paths or of another.
LEMMA SamePairs ==
    ASSUME NEW f, NEW g, NEW S, NEW T,
           {<<q, f[q]>> : q \in S} = {<<q, g[q]>> : q \in T}
    PROVE  \A q \in S : q \in T /\ f[q] = g[q]
<1> SUFFICES ASSUME NEW q \in S PROVE q \in T /\ f[q] = g[q]
    OBVIOUS
<1>1. <<q, f[q]>> \in {<<r, g[r]>> : r \in T}
    OBVIOUS
<1>2. PICK r \in T : <<q, f[q]>> = <<r, g[r]>>
    BY <1>1
<1> QED
    BY <1>2

\* A referenced section is the same in two projects of one workspace key.
LEMMA SameSections ==
    ASSUME NEW ds, NEW es, WorkspaceKey(ds) = WorkspaceKey(es)
    PROVE  /\ Referenced(ds) = Referenced(es)
           /\ \A k \in Referenced(ds) : Section(ds, k) = Section(es, k)
<1>1. Referenced(ds) = Referenced(es)
    BY DEF WorkspaceKey
<1> DEFINE D == ReferencedPaths(ds) \cap DOMAIN ds
           E == ReferencedPaths(es) \cap DOMAIN es
<1>2. {<<q, ds[q]>> : q \in D} = {<<q, es[q]>> : q \in E}
    BY DEF WorkspaceKey
<1>3. (\A q \in D : q \in E /\ ds[q] = es[q]) /\ (\A q \in E : q \in D)
    <2> HIDE DEF D, E
    <2>1. \A q \in D : q \in E /\ ds[q] = es[q]
        BY <1>2, SamePairs
    <2>2. {<<q, es[q]>> : q \in E} = {<<q, ds[q]>> : q \in D}
        BY <1>2
    <2>3. \A q \in E : q \in D /\ es[q] = ds[q]
        BY <2>2, SamePairs
    <2> QED
        BY <2>1, <2>3
<1>4. ASSUME NEW k \in Referenced(ds)
      PROVE  Section(ds, k) = Section(es, k)
    <2>1. k[1] \in ReferencedPaths(ds) /\ k[1] \in ReferencedPaths(es)
        BY <1>1 DEF ReferencedPaths
    <2>2. k[1] \in DOMAIN ds => k[1] \in DOMAIN es /\ ds[k[1]] = es[k[1]]
        BY <1>3, <2>1
    <2>3. k[1] \in DOMAIN es => k[1] \in DOMAIN ds
        BY <1>3, <2>1
    <2> QED
        BY <2>2, <2>3 DEF Section
<1> QED
    BY <1>1, <1>4

\* Plans of one key are made from the same things.
LEMMA KeyDecides ==
    ASSUME NEW ds, NEW es, NEW st, NEW su, NEW p, NEW q,
           PlanKey(ds, st, p) = PlanKey(es, su, q)
    PROVE  FreshPlan(ds, st, p) = FreshPlan(es, su, q)
<1>1. p = q /\ ds[p] = es[p] /\ st = su /\ WorkspaceKey(ds) = WorkspaceKey(es)
    BY DEF PlanKey
<1> DEFINE refs == Referenced(ds)
<1>2. /\ refs = Referenced(es)
      /\ \A k \in refs : Section(ds, k) = Section(es, k)
    BY <1>1, SameSections
<1>3. StandAlone(ds, refs, p) = StandAlone(es, refs, p)
    BY <1>1 DEF StandAlone
<1>4. Nested(ds) = Nested(es)
    BY <1>2 DEF Nested
<1>5. Calls(ds, refs, p) = Calls(es, refs, p)
    BY <1>1, <1>2, <1>3, <1>4 DEF Calls
<1>6. Visited(ds, refs, p) = Visited(es, refs, p)
    BY <1>2, <1>5 DEF Visited
<1>7. [k \in Visited(ds, refs, p) |-> Section(ds, k)]
          = [k \in Visited(es, refs, p) |-> Section(es, k)]
    BY <1>2, <1>6 DEF Visited
<1> QED
    BY <1>1, <1>2, <1>3, <1>5, <1>7 DEF FreshPlan, Plan

--------------------------------------------------------------------------------
\* Each cached plan is the fresh plan of some files with its key.
CacheOK ==
    \A c \in plans : \E ds, st, p :
        c.key = PlanKey(ds, st, p) /\ c.plan = FreshPlan(ds, st, p)

LEMMA HitsAreFresh ==
    ASSUME CacheOK, NEW ds, NEW st, NEW p
    PROVE  PlanOf(ds, st, p) = FreshPlan(ds, st, p)
<1> DEFINE hits == {c \in plans : c.key = PlanKey(ds, st, p)}
<1>1. CASE hits = {}
    BY <1>1 DEF PlanOf
<1>2. CASE hits # {}
    <2> DEFINE c == CHOOSE h \in hits : TRUE
    <2>1. c \in plans /\ c.key = PlanKey(ds, st, p)
        BY <1>2
    <2>2. PICK es, su, q : c.key = PlanKey(es, su, q) /\ c.plan = FreshPlan(es, su, q)
        BY <2>1 DEF CacheOK
    <2>3. c.plan = FreshPlan(ds, st, p)
        BY <2>1, <2>2, KeyDecides
    <2> QED
        BY <1>2, <2>3 DEF PlanOf
<1> QED
    BY <1>1, <1>2

IInv == CacheOK /\ StaleIsImpossible

\* A reindex indexes and caches fresh plans.
LEMMA ReindexInv == IInv /\ Reindex => IInv'
<1> SUFFICES ASSUME IInv, Reindex PROVE IInv'
    OBVIOUS
<1> DEFINE oaths == OathsOf(docs, steps)
<1>1. \A p \in DOMAIN docs : oaths[p] = FreshPlan(docs, steps, p)
    BY HitsAreFresh DEF IInv, OathsOf
<1>2. CacheOK'
    <2> SUFFICES ASSUME NEW c \in plans'
                 PROVE  \E ds, st, p :
                           c.key = PlanKey(ds, st, p) /\ c.plan = FreshPlan(ds, st, p)
        BY DEF CacheOK
    <2>1. CASE c \in plans
        BY <2>1 DEF IInv, CacheOK
    <2>2. ASSUME NEW p \in DOMAIN docs,
                 c = [key |-> PlanKey(docs, steps, p), plan |-> oaths[p]]
          PROVE  c.key = PlanKey(docs, steps, p) /\ c.plan = FreshPlan(docs, steps, p)
        BY <2>2, <1>1
    <2> QED
        BY <2>1, <2>2 DEF Reindex
<1>3. StaleIsImpossible'
    <2>1. index'.oaths = oaths /\ DOMAIN oaths = DOMAIN docs
        BY DEF Reindex, OathsOf
    <2>2. indexed'.docs = docs /\ indexed'.steps = steps
        BY DEF Reindex
    <2> QED
        BY <1>1, <2>1, <2>2 DEF StaleIsImpossible
<1> QED
    BY <1>2, <1>3 DEF IInv

LEMMA StepInv == IInv /\ [Next]_vars => IInv'
<1> SUFFICES ASSUME IInv, [Next]_vars PROVE IInv'
    OBVIOUS
<1>1. CASE Reindex
    BY <1>1, ReindexInv
<1>2. CASE UNCHANGED <<plans, index, indexed>>
    BY <1>2 DEF IInv, CacheOK, StaleIsImpossible
<1>3. ASSUME NEW p \in Paths, RemoveOath(p) \/ \E o \in Outlines[p] : EditOath(p, o)
      PROVE  UNCHANGED <<plans, index, indexed>>
    BY <1>3 DEF RemoveOath, EditOath
<1>4. ASSUME NEW st \in StepSources, EditSteps(st)
      PROVE  UNCHANGED <<plans, index, indexed>>
    BY <1>4 DEF EditSteps
<1> QED
    BY <1>1, <1>2, <1>3, <1>4 DEF Next, vars

\* "A stale entry is impossible" (index-workspace.ts:21): in any session of edits and
\* reindexes, of a project of any shape, the plans of the index are fresh.
THEOREM PlansAreFresh == Spec => []StaleIsImpossible
<1>1. Init => IInv
    BY DEF Init, IInv, CacheOK, StaleIsImpossible
<1>2. IInv => StaleIsImpossible
    BY DEF IInv
<1> QED
    BY <1>1, <1>2, StepInv, PTL DEF Spec
--------------------------------------------------------------------------------
\* A run of init has seen to the place n, or has ended well, and so has seen to it.
Past(n) == at > n \/ exit = "done"

\* Init writes only the scaffold files that are not there.
FilesInv ==
    /\ author.files \in [Scaffolding!Files -> {"none", "theirs"}]
    /\ disk.files \in [Scaffolding!Files -> {"none", "ours", "theirs"}]
    /\ \A f \in Scaffolding!Files :
          /\ disk.files[f] # author.files[f] =>
                author.files[f] = "none" /\ disk.files[f] = "ours"
    /\ Past(1) => disk.files["varar.config.json"] # "none"
    /\ Past(2) => disk.files["deep-thought.md"] # "none"
    /\ Past(3) => disk.files["deep-thought.steps.ts"] # "none"

\* A package.json has these parts.
Package(p) ==
    p = [is |-> p.is, type |-> p.type, jestKey |-> p.jestKey, script |-> p.script,
         dev |-> p.dev]

\* What it makes of a package.json: it may give it a type and the needed versions, and
\* one that it cannot read it leaves alone.
PackageInv ==
    LET a == author.pkg  d == disk.pkg IN
    /\ Package(a) /\ Package(d) /\ d.jestKey = a.jestKey /\ d.script = a.script
    /\ a.is \in {"none", "unreadable", "json"} /\ (a.is = "none" => a.type = "none")
    /\ a.is = "unreadable" => d = a
    /\ a.is = "json" => d.is = "json"
    /\ a.is = "none" => d = a \/ (d.is = "json" /\ d.type = "module")
    /\ d.type # a.type => a.type = "none" /\ d.type = "module"
    /\ Past(4) /\ a.is # "unreadable" => d.is = "json" /\ d.type # "none"

VersionsInv ==
    LET a == author.pkg.dev  d == disk.pkg.dev IN
    /\ Scaffolding!Needed \subseteq DOMAIN a
    /\ a \in [DOMAIN a -> {"none", "own"}] /\ d \in [DOMAIN a -> {"none", "ours", "own"}]
    /\ \A n \in DOMAIN a :
          d[n] # a[n] => n \in Scaffolding!Needed /\ a[n] = "none" /\ d[n] = "ours"
    /\ Past(6) /\ author.pkg.is # "unreadable" =>
          \A n \in Scaffolding!Needed : d[n] # "none"

\* A runner config has these parts.
RunnerConfig(c) ==
    c = [is |-> c.is, define |-> c.define, plugins |-> c.plugins, test |-> c.test,
         mentions |-> c.mentions, wired |-> c.wired]

\* What it makes of a runner config: one of its own where there is none, and one that is
\* there it wires once or asks the author to.
ConfigInv ==
    LET a == author.config  d == disk.config IN
    /\ RunnerConfig(a) /\ a.wired = 0
    /\ a.is \in {"none", "theirs"} /\ a.mentions \in BOOLEAN
    /\ d = a \/ (IF a.is = "none" THEN d = Scaffolding!FreshConfig
                 ELSE ~a.mentions /\ d = Scaffolding!Wired(a))
    /\ "config" \in byHand => d = a /\ a.is = "theirs" /\ (at = 0 \/ Past(5))
    /\ Past(5) => d.is # "none" /\ (d = a => a.mentions \/ "config" \in byHand)
    /\ completed => d.is # "none"

\* A project has these parts, and init does nothing to a jest config.
Project(p) ==
    p \in [files : {p.files}, pkg : {p.pkg}, config : {p.config}, jest : {p.jest},
           ignore : {p.ignore}]
PartsInv == Project(author) /\ Project(disk) /\ disk.jest = author.jest

IgnoreInv ==
    /\ disk.ignore # author.ignore =>
          author.ignore = "other" /\ disk.ignore = "ignores .varar"
    /\ exit = "done" => disk.ignore # "other"

\* What a run has told its author of package.json.
ToldInv ==
    Past(4) /\ "type" \notin byHand => disk.pkg.is = "json" /\ disk.pkg.type = "module"

PlaceInv == at \in 0 .. 7 /\ (at > 0 => exit = "running")

\* A project that has been through a whole run has a config, and so a runner.
RefusalInv == completed /\ exit = "refused" => flag # "none"

ScaffoldInv ==
    /\ FilesInv /\ PackageInv /\ VersionsInv /\ ConfigInv
    /\ PartsInv /\ IgnoreInv /\ ToldInv /\ PlaceInv /\ RefusalInv

\* The place that a run is at is known by its number.
LEMMA PlaceNumbers ==
    ASSUME at \in 0 .. 7, NEW x, Scaffolding!At(x)
    PROVE  /\ x = "varar.config.json" => at = 1
           /\ x = "deep-thought.md" => at = 2
           /\ x = "deep-thought.steps.ts" => at = 3
           /\ x = "type" => at = 4
           /\ x = "runner config" => at = 5
           /\ x = "devDependencies" => at = 6
           /\ x = ".gitignore" => at = 7
<1>1. at > 0 /\ Scaffolding!Places[at] = x
    BY DEF Scaffolding!At
<1>2. \/ at = 1 \/ at = 2 \/ at = 3 \/ at = 4 \/ at = 5 \/ at = 6 \/ at = 7
    <2>1. at > 0
        BY <1>1
    <2> QED
        BY <2>1
<1>3. \/ at = 1 /\ x = "varar.config.json"
      \/ at = 2 /\ x = "deep-thought.md"
      \/ at = 3 /\ x = "deep-thought.steps.ts"
      \/ at = 4 /\ x = "type"
      \/ at = 5 /\ x = "runner config"
      \/ at = 6 /\ x = "devDependencies"
      \/ at = 7 /\ x = ".gitignore"
    <2>1. /\ Scaffolding!Places[1] = "varar.config.json"
          /\ Scaffolding!Places[2] = "deep-thought.md"
          /\ Scaffolding!Places[3] = "deep-thought.steps.ts"
          /\ Scaffolding!Places[4] = "type"
          /\ Scaffolding!Places[5] = "runner config"
          /\ Scaffolding!Places[6] = "devDependencies"
          /\ Scaffolding!Places[7] = ".gitignore"
        BY DEF Scaffolding!Places
    <2> QED
        BY <1>1, <1>2, <2>1, Zenon
<1> QED
    BY <1>3

\* A config that is there is found before anything else.
LEMMA ConfigIsDetected ==
    ASSUME disk.config.is # "none"
    PROVE  Scaffolding!Detect = "vitest"
<1>1. "vitest" \in Scaffolding!WithConfig
    BY DEF Scaffolding!WithConfig, Scaffolding!Runners
<1> QED
    BY <1>1 DEF Scaffolding!Detect, Scaffolding!FirstOf

LEMMA StartInv ==
    ASSUME ScaffoldInv, NEW f, Scaffolding!Start(f)
    PROVE  ScaffoldInv'
<1> USE DEF ScaffoldInv
<1>1. UNCHANGED <<disk, author, completed>> /\ byHand' = {}
    BY DEF Scaffolding!Start
<1>2. at' \in {0, 1} /\ (at' = 1 => exit' = "running")
    BY DEF Scaffolding!Start
<1>3. /\ exit' # "done" /\ flag' = f
      /\ exit' = "refused" => Scaffolding!Resolved(f) # "vitest"
    BY DEF Scaffolding!Start
<1>4. ~Past(1)' /\ ~Past(2)' /\ ~Past(3)' /\ ~Past(4)' /\ ~Past(5)' /\ ~Past(6)'
    BY <1>2, <1>3 DEF Past
<1>5. FilesInv' /\ PackageInv' /\ VersionsInv'
    BY <1>1, <1>4 DEF FilesInv, PackageInv, VersionsInv
<1>6. ConfigInv'
    BY <1>1, <1>4 DEF ConfigInv
<1>7. PartsInv' /\ IgnoreInv'
    BY <1>1, <1>3, Zenon DEF PartsInv, IgnoreInv, Project
<1>8. ToldInv' /\ PlaceInv'
    BY <1>2, <1>4 DEF ToldInv, PlaceInv
<1>9. RefusalInv'
    BY <1>1, <1>3, ConfigIsDetected DEF RefusalInv, Scaffolding!Resolved, ConfigInv
<1> QED
    BY <1>5, <1>6, <1>7, <1>8, <1>9

\* What the author or a run does to a part leaves the others as they are.
LEMMA FilesChange ==
    ASSUME Project(disk), NEW g, disk' = [disk EXCEPT !.files = g]
    PROVE  /\ Project(disk') /\ disk'.files = g /\ disk'.pkg = disk.pkg
           /\ disk'.config = disk.config /\ disk'.jest = disk.jest
           /\ disk'.ignore = disk.ignore
BY DEF Project

LEMMA WriteFileInv ==
    ASSUME ScaffoldInv, NEW f \in Scaffolding!Files, Scaffolding!WriteFile(f)
    PROVE  ScaffoldInv'
<1> USE DEF ScaffoldInv
<1> DEFINE g == [disk.files EXCEPT ![f] = IF @ = "none" THEN "ours" ELSE @]
<1>1. /\ at \in 1 .. 7 /\ at' = at + 1 /\ exit = "running" /\ UNCHANGED exit
    BY DEF Scaffolding!WriteFile, Scaffolding!OneOn, PlaceInv, Scaffolding!At
<1>2. UNCHANGED <<completed, author, flag, byHand>> /\ disk' = [disk EXCEPT !.files = g]
    BY DEF Scaffolding!WriteFile, Scaffolding!OneOn
<1>3. /\ Project(disk)' /\ disk'.files = g /\ disk'.pkg = disk.pkg
      /\ disk'.config = disk.config /\ disk'.jest = disk.jest
      /\ disk'.ignore = disk.ignore
    <2> HIDE DEF g
    <2> QED
        BY <1>2, FilesChange DEF PartsInv
<1>4. \/ f = "varar.config.json" /\ at = 1
      \/ f = "deep-thought.md" /\ at = 2
      \/ f = "deep-thought.steps.ts" /\ at = 3
    <2>1. Scaffolding!At(f) /\ at \in 0 .. 7
        BY DEF Scaffolding!WriteFile, PlaceInv
    <2>2. \/ f = "varar.config.json" \/ f = "deep-thought.md"
          \/ f = "deep-thought.steps.ts"
        BY DEF Scaffolding!Files
    <2> QED
        BY <2>1, <2>2, PlaceNumbers
<1>5. FilesInv'
    BY <1>1, <1>2, <1>3, <1>4 DEF FilesInv, Past, Scaffolding!Files
<1>6. PackageInv' /\ VersionsInv'
    BY <1>1, <1>2, <1>3, <1>4 DEF PackageInv, VersionsInv, Past
<1>7. ConfigInv'
    BY <1>1, <1>2, <1>3, <1>4 DEF ConfigInv, Past
<1>8. PartsInv' /\ IgnoreInv'
    BY <1>1, <1>2, <1>3 DEF PartsInv, IgnoreInv
<1>9. ToldInv' /\ PlaceInv'
    BY <1>1, <1>4 DEF ToldInv, PlaceInv, Past
<1>10. RefusalInv'
    BY <1>1 DEF RefusalInv
<1> QED
    BY <1>5, <1>6, <1>7, <1>8, <1>9, <1>10

\* A run that goes on to its next place.
LEMMA NextPlace ==
    ASSUME PlaceInv, Scaffolding!OneOn, at > 0, at # 7
    PROVE  /\ at' = at + 1 /\ at' \in 1 .. 7 /\ exit = "running" /\ exit' = "running"
           /\ UNCHANGED <<completed, author, flag>> /\ PlaceInv'
BY DEF PlaceInv, Scaffolding!OneOn

LEMMA PackageChange ==
    ASSUME Project(disk), NEW g, disk' = [disk EXCEPT !.pkg = g]
    PROVE  /\ Project(disk)' /\ disk'.pkg = g /\ disk'.files = disk.files
           /\ disk'.config = disk.config /\ disk'.jest = disk.jest
           /\ disk'.ignore = disk.ignore
BY DEF Project

LEMMA Typed ==
    ASSUME NEW p, Package(p), NEW t, NEW e, e = [p EXCEPT !.type = t]
    PROVE  /\ Package(e) /\ e.is = p.is /\ e.type = t /\ e.dev = p.dev
           /\ e.jestKey = p.jestKey /\ e.script = p.script
BY DEF Package

LEMMA MadeJson ==
    ASSUME NEW p, Package(p), NEW e, e = [p EXCEPT !.is = "json"]
    PROVE  /\ Package(e) /\ e.is = "json" /\ e.dev = p.dev
           /\ e.jestKey = p.jestKey /\ e.script = p.script
BY DEF Package

LEMMA EnsureEsmInv ==
    ASSUME ScaffoldInv, Scaffolding!EnsureEsm
    PROVE  ScaffoldInv'
<1> USE DEF ScaffoldInv
<1>1. at = 4
    <2>1. Scaffolding!At("type") /\ at \in 0 .. 7
        BY DEF Scaffolding!EnsureEsm, PlaceInv
    <2> QED
        BY <2>1, PlaceNumbers
<1>2. /\ at' = 5 /\ exit = "running" /\ exit' = "running" /\ PlaceInv'
      /\ UNCHANGED <<completed, author, flag>>
    BY <1>1, NextPlace DEF Scaffolding!EnsureEsm
<1>3. /\ Project(disk)' /\ disk'.pkg = Scaffolding!Esm /\ disk'.files = disk.files
      /\ disk'.config = disk.config /\ disk'.jest = disk.jest
      /\ disk'.ignore = disk.ignore
    BY PackageChange DEF Scaffolding!EnsureEsm, PartsInv
<1>4. byHand' = byHand \cup (IF disk'.pkg.is = "json" /\ disk'.pkg.type = "module"
                             THEN {} ELSE {"type"})
    BY DEF Scaffolding!EnsureEsm
<1>5. ~Past(5)' /\ ~Past(6)' /\ ~Past(5) /\ Past(1) /\ Past(2) /\ Past(3)
    BY <1>1, <1>2 DEF Past
<1>6. FilesInv'
    BY <1>2, <1>3, <1>5 DEF FilesInv
<1>7. PackageInv' /\ disk'.pkg.dev = disk.pkg.dev
    <2> DEFINE d == disk.pkg  e == disk'.pkg  m == [d EXCEPT !.is = "json"]
    <2>1. Package(d)
        BY DEF PackageInv
    <2>2. CASE d.is = "none"
        <3>1. e = [m EXCEPT !.type = "module"]
            BY <1>3, <2>2 DEF Scaffolding!Esm, Scaffolding!OwnPackage
        <3>2. /\ Package(m) /\ m.is = "json" /\ m.dev = d.dev
              /\ m.jestKey = d.jestKey /\ m.script = d.script
            BY <2>1, MadeJson
        <3>3. /\ Package(e) /\ e.is = "json" /\ e.type = "module" /\ e.dev = d.dev
              /\ e.jestKey = d.jestKey /\ e.script = d.script
            <4> HIDE DEF m, e
            <4> QED
                BY <3>1, <3>2, Typed
        <3> QED
            BY <1>2, <2>2, <3>3 DEF PackageInv
    <2>3. CASE d.is = "json" /\ d.type = "none"
        <3>1. e = [d EXCEPT !.type = "module"]
            BY <1>3, <2>3 DEF Scaffolding!Esm, Scaffolding!Readable
        <3>2. /\ Package(e) /\ e.is = "json" /\ e.type = "module" /\ e.dev = d.dev
              /\ e.jestKey = d.jestKey /\ e.script = d.script
            <4> HIDE DEF e
            <4> QED
                BY <2>1, <2>3, <3>1, Typed
        <3> QED
            BY <1>2, <2>3, <3>2 DEF PackageInv
    <2>4. CASE d.is # "none" /\ ~(d.is = "json" /\ d.type = "none")
        <3>1. e = d
            BY <1>3, <2>4 DEF Scaffolding!Esm, Scaffolding!Readable
        <3> QED
            BY <1>2, <2>4, <3>1 DEF PackageInv
    <2> QED
        BY <2>2, <2>3, <2>4
<1>8. VersionsInv'
    BY <1>2, <1>5, <1>7 DEF VersionsInv
<1>9. ConfigInv'
    BY <1>1, <1>2, <1>3, <1>4, <1>5 DEF ConfigInv
<1>10. PartsInv' /\ IgnoreInv'
    BY <1>2, <1>3, Zenon DEF PartsInv, IgnoreInv, Project
<1>11. ToldInv'
    BY <1>4 DEF ToldInv
<1>12. RefusalInv'
    BY <1>2 DEF RefusalInv
<1> QED
    BY <1>2, <1>6, <1>7, <1>8, <1>9, <1>10, <1>11, <1>12

LEMMA ConfigChange ==
    ASSUME Project(disk), NEW g, disk' = [disk EXCEPT !.config = g]
    PROVE  /\ Project(disk)' /\ disk'.config = g /\ disk'.files = disk.files
           /\ disk'.pkg = disk.pkg /\ disk'.jest = disk.jest
           /\ disk'.ignore = disk.ignore
BY DEF Project

LEMMA WiredOnce ==
    ASSUME NEW c, RunnerConfig(c), c.wired = 0
    PROVE  /\ Scaffolding!Wired(c).is = c.is /\ Scaffolding!Wired(c).wired = 1
           /\ Scaffolding!Wired(c).mentions = TRUE
<1> DEFINE e == [c EXCEPT !.wired = 1]
<1>1. e.is = c.is /\ e.wired = 1 /\ "mentions" \in DOMAIN e /\ "is" \in DOMAIN e
    BY DEF RunnerConfig
<1>2. Scaffolding!Wired(c) = [e EXCEPT !.mentions = TRUE]
    BY DEF Scaffolding!Wired
<1> HIDE DEF e
<1> QED
    BY <1>1, <1>2

LEMMA EnsureRunnerConfigInv ==
    ASSUME ScaffoldInv, Scaffolding!EnsureRunnerConfig
    PROVE  ScaffoldInv'
<1> USE DEF ScaffoldInv
<1>1. at = 5
    <2>1. Scaffolding!At("runner config") /\ at \in 0 .. 7
        BY DEF Scaffolding!EnsureRunnerConfig, PlaceInv
    <2> QED
        BY <2>1, PlaceNumbers
<1>2. /\ at' = 6 /\ exit = "running" /\ exit' = "running" /\ PlaceInv'
      /\ UNCHANGED <<completed, author, flag>>
    <2>1. Scaffolding!OneOn
        BY DEF Scaffolding!EnsureRunnerConfig
    <2> QED
        BY <1>1, <2>1, NextPlace
<1>3. ~Past(5) /\ Past(5)' /\ ~Past(6)' /\ Past(1) /\ Past(2) /\ Past(3) /\ Past(4)
    BY <1>1, <1>2 DEF Past
<1>4. "config" \notin byHand
    BY <1>1, <1>3 DEF ConfigInv
\* What becomes of the config, and what the author is told.
<1>5. /\ Project(disk)' /\ disk'.files = disk.files /\ disk'.pkg = disk.pkg
      /\ disk'.jest = disk.jest /\ disk'.ignore = disk.ignore
      /\ \/ /\ disk.config.is = "none" /\ disk'.config = Scaffolding!FreshConfig
            /\ byHand' = byHand
         \/ /\ disk.config.is # "none" /\ disk.config.mentions
            /\ disk'.config = disk.config /\ byHand' = byHand
         \/ /\ disk.config.is # "none" /\ ~disk.config.mentions
            /\ disk'.config = Scaffolding!Wired(disk.config) /\ byHand' = byHand
         \/ /\ disk.config.is # "none" /\ ~disk.config.mentions
            /\ disk'.config = disk.config /\ byHand' = byHand \cup {"config"}
    <2>1. \/ /\ disk.config.is = "none" /\ byHand' = byHand
             /\ disk' = [disk EXCEPT !.config = Scaffolding!FreshConfig]
          \/ /\ disk.config.is # "none" /\ disk.config.mentions
             /\ disk' = disk /\ byHand' = byHand
          \/ /\ disk.config.is # "none" /\ ~disk.config.mentions /\ byHand' = byHand
             /\ disk' = [disk EXCEPT !.config = Scaffolding!Wired(disk.config)]
          \/ /\ disk.config.is # "none" /\ ~disk.config.mentions
             /\ disk' = disk /\ byHand' = byHand \cup {"config"}
        BY Zenon DEF Scaffolding!EnsureRunnerConfig, Scaffolding!Marked
    <2>2. Project(disk)
        BY DEF PartsInv
    <2> QED
        BY <2>1, <2>2, ConfigChange, Zenon
<1>6. FilesInv' /\ PackageInv' /\ VersionsInv'
    BY <1>2, <1>3, <1>5 DEF FilesInv, PackageInv, VersionsInv
<1>7. PartsInv' /\ IgnoreInv'
    BY <1>2, <1>5, Zenon DEF PartsInv, IgnoreInv, Project
<1>8. ToldInv'
    BY <1>3, <1>5 DEF ToldInv
<1>9. ConfigInv'
    <2> DEFINE a == author.config  d == disk.config  e == disk'.config
    <2>1. /\ RunnerConfig(a) /\ a.wired = 0
          /\ a.is \in {"none", "theirs"} /\ a.mentions \in BOOLEAN
          /\ d = a \/ (IF a.is = "none" THEN d = Scaffolding!FreshConfig
                       ELSE ~a.mentions /\ d = Scaffolding!Wired(a))
        BY DEF ConfigInv
    <2>2. /\ Scaffolding!FreshConfig.is = "ours" /\ Scaffolding!FreshConfig.mentions = TRUE
          /\ Scaffolding!Wired(a).is = a.is /\ Scaffolding!Wired(a).mentions = TRUE
        BY <2>1, WiredOnce DEF Scaffolding!FreshConfig, Scaffolding!Config
    <2>3. /\ e = a \/ (IF a.is = "none" THEN e = Scaffolding!FreshConfig
                       ELSE ~a.mentions /\ e = Scaffolding!Wired(a))
          /\ e.is # "none"
        BY <1>5, <2>1, <2>2, Zenon
    <2>4. "config" \in byHand' => e = a /\ a.is = "theirs"
        BY <1>4, <1>5, <2>1, <2>2
    <2>5. e = a => a.mentions \/ "config" \in byHand'
        BY <1>5, <2>1, <2>2
    <2> QED
        BY <1>2, <1>3, <2>1, <2>3, <2>4, <2>5 DEF ConfigInv
<1>10. RefusalInv'
    BY <1>2 DEF RefusalInv
<1> QED
    BY <1>2, <1>6, <1>7, <1>8, <1>9, <1>10

\* A version is added where one is needed and there is none, and no other is touched.
LEMMA AddedVersions ==
    ASSUME VersionsInv
    PROVE  LET a == author.pkg.dev  d == disk.pkg.dev  e == Scaffolding!Added
           IN  /\ e \in [DOMAIN a -> {"none", "ours", "own"}]
               /\ \A n \in DOMAIN a : e[n] # a[n] =>
                     n \in Scaffolding!Needed /\ a[n] = "none" /\ e[n] = "ours"
               /\ \A n \in Scaffolding!Needed : n \in DOMAIN a /\ e[n] # "none"
<1> DEFINE a == author.pkg.dev  d == disk.pkg.dev
<1>1. /\ Scaffolding!Needed \subseteq DOMAIN a
      /\ d \in [DOMAIN a -> {"none", "ours", "own"}]
      /\ \A n \in DOMAIN a :
            d[n] # a[n] => n \in Scaffolding!Needed /\ a[n] = "none" /\ d[n] = "ours"
    BY DEF VersionsInv
<1> HIDE DEF a, d
<1>2. Scaffolding!Added = [n \in DOMAIN d |->
          IF n \in Scaffolding!Needed /\ d[n] = "none" THEN "ours" ELSE d[n]]
    BY DEF Scaffolding!Added, d
<1>3. DOMAIN d = DOMAIN a
    BY <1>1
<1> QED
    BY <1>1, <1>2, <1>3 DEF a, d

LEMMA VersionsChange ==
    ASSUME NEW p, Package(p), NEW v, NEW e, e = [p EXCEPT !.dev = v]
    PROVE  /\ Package(e) /\ e.dev = v /\ e.is = p.is /\ e.type = p.type
           /\ e.jestKey = p.jestKey /\ e.script = p.script
BY DEF Package

LEMMA EnsureDevDependenciesInv ==
    ASSUME ScaffoldInv, Scaffolding!EnsureDevDependencies
    PROVE  ScaffoldInv'
<1> USE DEF ScaffoldInv
<1>1. at = 6
    <2>1. Scaffolding!At("devDependencies") /\ at \in 0 .. 7
        BY DEF Scaffolding!EnsureDevDependencies, PlaceInv
    <2> QED
        BY <2>1, PlaceNumbers
<1>2. /\ at' = 7 /\ exit' = "running" /\ UNCHANGED <<completed, author, flag>> /\ PlaceInv'
    <2>1. Scaffolding!OneOn
        BY DEF Scaffolding!EnsureDevDependencies
    <2> QED
        BY <1>1, <2>1, NextPlace
<1>3. /\ Past(1) /\ Past(2) /\ Past(3) /\ Past(4) /\ Past(5)
      /\ Past(1)' /\ Past(2)' /\ Past(3)' /\ Past(4)' /\ Past(5)' /\ Past(6)'
    BY <1>1, <1>2 DEF Past
<1>4. byHand' = byHand
    BY DEF Scaffolding!EnsureDevDependencies
\* The needed versions are added, or there is no package.json that can be read.
<1>5. /\ Project(disk)' /\ disk'.files = disk.files /\ disk'.config = disk.config
      /\ disk'.jest = disk.jest /\ disk'.ignore = disk.ignore
      /\ Package(disk.pkg)' /\ disk'.pkg.is = disk.pkg.is /\ disk'.pkg.type = disk.pkg.type
      /\ disk'.pkg.jestKey = disk.pkg.jestKey /\ disk'.pkg.script = disk.pkg.script
      /\ \/ disk.pkg.is = "json" /\ disk'.pkg.dev = Scaffolding!Added
         \/ disk.pkg.is # "json" /\ disk'.pkg = disk.pkg
    <2>1. Package(disk.pkg) /\ Project(disk)
        BY DEF PackageInv, PartsInv
    <2>2. CASE disk.pkg.is = "json"
        <3> DEFINE g == [disk.pkg EXCEPT !.dev = Scaffolding!Added]
        <3>1. disk' = [disk EXCEPT !.pkg = g]
            BY <2>2 DEF Scaffolding!EnsureDevDependencies, Scaffolding!Readable
        <3>2. /\ Package(g) /\ g.dev = Scaffolding!Added /\ g.is = disk.pkg.is
              /\ g.type = disk.pkg.type /\ g.jestKey = disk.pkg.jestKey
              /\ g.script = disk.pkg.script
            BY <2>1, VersionsChange
        <3> HIDE DEF g
        <3>3. /\ Project(disk)' /\ disk'.pkg = g /\ disk'.files = disk.files
              /\ disk'.config = disk.config /\ disk'.jest = disk.jest
              /\ disk'.ignore = disk.ignore
            BY <2>1, <3>1, PackageChange
        <3> QED
            BY <2>2, <3>2, <3>3, Zenon
    <2>3. CASE disk.pkg.is # "json"
        <3>1. disk' = disk
            BY <2>3 DEF Scaffolding!EnsureDevDependencies, Scaffolding!Readable
        <3> QED
            BY <2>1, <2>3, <3>1, Zenon
    <2> QED
        BY <2>2, <2>3
<1>6. FilesInv'
    BY <1>2, <1>3, <1>5 DEF FilesInv
<1>7. PackageInv'
    <2>1. CASE disk.pkg.is = "json"
        BY <1>2, <1>3, <1>5, <2>1 DEF PackageInv
    <2>2. CASE disk.pkg.is # "json"
        BY <1>2, <1>3, <1>5, <2>2 DEF PackageInv
    <2> QED
        BY <2>1, <2>2
<1>8. VersionsInv'
    <2>1. CASE disk.pkg.is = "json"
        <3>1. /\ disk'.pkg.dev = Scaffolding!Added /\ author' = author
              /\ Scaffolding!Needed \subseteq DOMAIN author.pkg.dev
              /\ author.pkg.dev \in [DOMAIN author.pkg.dev -> {"none", "own"}]
            BY <1>2, <1>5, <2>1 DEF VersionsInv
        <3> QED
            BY <3>1, AddedVersions DEF VersionsInv
    <2>2. CASE disk.pkg.is # "json"
        <3>1. author.pkg.is = "unreadable" /\ disk'.pkg = disk.pkg
            BY <1>3, <1>5, <2>2 DEF PackageInv
        <3> QED
            BY <1>2, <3>1 DEF VersionsInv
    <2> QED
        BY <2>1, <2>2
<1>9. ConfigInv'
    BY <1>2, <1>3, <1>4, <1>5 DEF ConfigInv
<1>10. PartsInv' /\ IgnoreInv'
    BY <1>2, <1>5, Zenon DEF PartsInv, IgnoreInv, Project
<1>11. ToldInv'
    BY <1>3, <1>4, <1>5 DEF ToldInv
<1>12. RefusalInv'
    BY <1>2 DEF RefusalInv
<1> QED
    BY <1>2, <1>6, <1>7, <1>8, <1>9, <1>10, <1>11, <1>12

LEMMA ThrowInv ==
    ASSUME ScaffoldInv, Scaffolding!Throw
    PROVE  ScaffoldInv'
<1> USE DEF ScaffoldInv
<1>1. at' = 0 /\ exit' = "threw"
    BY DEF Scaffolding!Throw
<1>2. UNCHANGED <<disk, byHand, completed, author, flag>>
    BY DEF Scaffolding!Throw
<1>3. /\ ~Past(1)' /\ ~Past(2)' /\ ~Past(3)' /\ ~Past(4)' /\ ~Past(5)' /\ ~Past(6)'
      /\ PlaceInv'
    BY <1>1 DEF Past, PlaceInv
<1>4. FilesInv' /\ PackageInv' /\ VersionsInv'
    BY <1>2, <1>3 DEF FilesInv, PackageInv, VersionsInv
<1>5. ConfigInv'
    BY <1>1, <1>2, <1>3 DEF ConfigInv
<1>6. PartsInv' /\ IgnoreInv'
    BY <1>1, <1>2, Zenon DEF PartsInv, IgnoreInv, Project
<1>7. ToldInv'
    BY <1>3 DEF ToldInv
<1>8. RefusalInv'
    BY <1>1 DEF RefusalInv
<1> QED
    BY <1>3, <1>4, <1>5, <1>6, <1>7, <1>8

LEMMA IgnoreChange ==
    ASSUME Project(disk), NEW g, disk' = [disk EXCEPT !.ignore = g]
    PROVE  /\ Project(disk)' /\ disk'.ignore = g /\ disk'.files = disk.files
           /\ disk'.config = disk.config /\ disk'.jest = disk.jest
           /\ disk'.pkg = disk.pkg
BY DEF Project

LEMMA EnsureGitignoreInv ==
    ASSUME ScaffoldInv, Scaffolding!EnsureGitignore
    PROVE  ScaffoldInv'
<1> USE DEF ScaffoldInv
<1>1. at = 7
    <2>1. Scaffolding!At(".gitignore") /\ at \in 0 .. 7
        BY DEF Scaffolding!EnsureGitignore, PlaceInv
    <2> QED
        BY <2>1, PlaceNumbers
<1>2. at' = 0 /\ exit' = "done" /\ completed' = TRUE /\ UNCHANGED <<author, byHand>>
    BY DEF Scaffolding!EnsureGitignore
<1>3. /\ Past(1) /\ Past(2) /\ Past(3) /\ Past(4) /\ Past(5) /\ Past(6)
      /\ Past(1)' /\ Past(2)' /\ Past(3)' /\ Past(4)' /\ Past(5)' /\ Past(6)'
    BY <1>1, <1>2 DEF Past
<1>4. /\ Project(disk)' /\ disk'.files = disk.files /\ disk'.config = disk.config
      /\ disk'.jest = disk.jest /\ disk'.pkg = disk.pkg
      /\ disk'.ignore = IF disk.ignore = "other" THEN "ignores .varar" ELSE disk.ignore
    BY IgnoreChange DEF Scaffolding!EnsureGitignore, PartsInv
<1>5. FilesInv' /\ PackageInv'
    BY <1>2, <1>3, <1>4 DEF FilesInv, PackageInv
<1>6. VersionsInv' /\ ConfigInv'
    BY <1>2, <1>3, <1>4 DEF VersionsInv, ConfigInv
<1>7. PartsInv'
    BY <1>2, <1>4, Zenon DEF PartsInv, Project
<1>8. IgnoreInv'
    BY <1>2, <1>4 DEF IgnoreInv
<1>9. ToldInv'
    BY <1>2, <1>3, <1>4 DEF ToldInv
<1>10. PlaceInv' /\ RefusalInv'
    BY <1>2 DEF PlaceInv, RefusalInv
<1> QED
    BY <1>5, <1>6, <1>7, <1>8, <1>9, <1>10

--------------------------------------------------------------------------------
\* The author's steps: what he writes is on the disk and in the history alike.
LEMMA AuthorWritesInv ==
    ASSUME ScaffoldInv, NEW f \in Scaffolding!Files, Scaffolding!AuthorWrites(f)
    PROVE  ScaffoldInv'
<1> USE DEF ScaffoldInv
<1>1. /\ UNCHANGED <<at, exit, byHand, completed, flag>> /\ disk.files[f] = "ours"
      /\ disk' = [disk EXCEPT !.files = [@ EXCEPT ![f] = "theirs"]]
      /\ author' = [author EXCEPT !.files = [@ EXCEPT ![f] = "theirs"]]
    BY DEF Scaffolding!AuthorWrites, Scaffolding!Change
<1>2. /\ Project(disk)' /\ disk'.files = [disk.files EXCEPT ![f] = "theirs"]
      /\ disk'.pkg = disk.pkg /\ disk'.config = disk.config /\ disk'.jest = disk.jest
      /\ disk'.ignore = disk.ignore
    BY <1>1 DEF PartsInv, Project
<1>3. /\ Project(author)' /\ author'.files = [author.files EXCEPT ![f] = "theirs"]
      /\ author'.pkg = author.pkg /\ author'.config = author.config
      /\ author'.jest = author.jest /\ author'.ignore = author.ignore
    BY <1>1 DEF PartsInv, Project
<1>4. \A n \in 1 .. 6 : Past(n)' <=> Past(n)
    BY <1>1 DEF Past
<1>5. FilesInv'
    BY <1>1, <1>2, <1>3, <1>4 DEF FilesInv, Scaffolding!Files
<1>6. PackageInv' /\ VersionsInv'
    BY <1>2, <1>3, <1>4 DEF PackageInv, VersionsInv
<1>7. ConfigInv'
    BY <1>1, <1>2, <1>3, <1>4 DEF ConfigInv
<1>8. PartsInv' /\ IgnoreInv'
    BY <1>1, <1>2, <1>3, Zenon DEF PartsInv, IgnoreInv
<1>9. ToldInv' /\ PlaceInv' /\ RefusalInv'
    BY <1>1, <1>2, <1>4 DEF ToldInv, PlaceInv, RefusalInv
<1> QED
    BY <1>5, <1>6, <1>7, <1>8, <1>9

LEMMA AuthorPinsInv ==
    ASSUME ScaffoldInv, NEW n \in Scaffolding!Needed, Scaffolding!AuthorPins(n)
    PROVE  ScaffoldInv'
<1> USE DEF ScaffoldInv
<1> DEFINE b == [author.pkg.dev EXCEPT ![n] = "own"]
           e == [disk.pkg.dev EXCEPT ![n] = "own"]
<1>1. /\ UNCHANGED <<at, exit, byHand, completed, flag>> /\ author.pkg.is = "json"
      /\ disk' = [disk EXCEPT !.pkg = [disk.pkg EXCEPT !.dev = e]]
      /\ author' = [author EXCEPT !.pkg = [author.pkg EXCEPT !.dev = b]]
    BY DEF Scaffolding!AuthorPins, Scaffolding!Change
<1>2. /\ Project(disk)' /\ disk'.pkg = [disk.pkg EXCEPT !.dev = e]
      /\ disk'.files = disk.files /\ disk'.config = disk.config /\ disk'.jest = disk.jest
      /\ disk'.ignore = disk.ignore
    BY <1>1, PackageChange DEF PartsInv
<1>3. /\ Project(author)' /\ author'.pkg = [author.pkg EXCEPT !.dev = b]
      /\ author'.files = author.files /\ author'.config = author.config
      /\ author'.jest = author.jest /\ author'.ignore = author.ignore
    <2> DEFINE g == [author.pkg EXCEPT !.dev = b]
    <2>1. author' = [author EXCEPT !.pkg = g] /\ Project(author)
        BY <1>1 DEF PartsInv
    <2> HIDE DEF g
    <2>2. /\ Project(author') /\ author'.pkg = g /\ author'.files = author.files
          /\ author'.config = author.config /\ author'.jest = author.jest
          /\ author'.ignore = author.ignore
        BY <2>1 DEF Project
    <2> QED
        BY <2>2 DEF g
<1>4. /\ Package(disk'.pkg) /\ disk'.pkg.dev = e /\ disk'.pkg.is = disk.pkg.is
      /\ disk'.pkg.type = disk.pkg.type /\ disk'.pkg.jestKey = disk.pkg.jestKey
      /\ disk'.pkg.script = disk.pkg.script
    <2>1. Package(disk.pkg)
        BY DEF PackageInv
    <2> HIDE DEF e
    <2> QED
        BY <1>2, <2>1, VersionsChange
<1>5. /\ Package(author'.pkg) /\ author'.pkg.dev = b /\ author'.pkg.is = author.pkg.is
      /\ author'.pkg.type = author.pkg.type /\ author'.pkg.jestKey = author.pkg.jestKey
      /\ author'.pkg.script = author.pkg.script
    <2>1. Package(author.pkg)
        BY DEF PackageInv
    <2> HIDE DEF b
    <2> QED
        BY <1>3, <2>1, VersionsChange
<1>6. \A i \in 1 .. 6 : Past(i)' <=> Past(i)
    BY <1>1 DEF Past
<1>7. FilesInv'
    BY <1>2, <1>3, <1>6 DEF FilesInv
<1>8. PackageInv'
    <2>1. disk.pkg.is = "json"
        BY <1>1 DEF PackageInv
    <2> HIDE DEF b, e
    <2> QED
        BY <1>1, <1>4, <1>5, <1>6, <2>1 DEF PackageInv
<1>9. VersionsInv'
    <2>1. /\ author.pkg.dev \in [DOMAIN author.pkg.dev -> {"none", "own"}]
          /\ disk.pkg.dev \in [DOMAIN author.pkg.dev -> {"none", "ours", "own"}]
          /\ n \in DOMAIN author.pkg.dev
        BY DEF VersionsInv
    <2>2. /\ b \in [DOMAIN b -> {"none", "own"}] /\ DOMAIN b = DOMAIN author.pkg.dev
          /\ e \in [DOMAIN b -> {"none", "ours", "own"}]
          /\ b[n] = "own" /\ e[n] = "own"
          /\ \A k \in DOMAIN b : k # n =>
                b[k] = author.pkg.dev[k] /\ e[k] = disk.pkg.dev[k]
        BY <2>1
    <2> HIDE DEF b, e
    <2> QED
        BY <1>4, <1>5, <1>6, <2>2 DEF VersionsInv
<1>10. ConfigInv'
    BY <1>1, <1>2, <1>3, <1>6 DEF ConfigInv
<1>11. PartsInv' /\ IgnoreInv'
    BY <1>1, <1>2, <1>3, Zenon DEF PartsInv, IgnoreInv
<1>12. ToldInv' /\ PlaceInv' /\ RefusalInv'
    BY <1>1, <1>4, <1>6 DEF ToldInv, PlaceInv, RefusalInv
<1> QED
    BY <1>7, <1>8, <1>9, <1>10, <1>11, <1>12

LEMMA Mentioned ==
    ASSUME NEW c, RunnerConfig(c), NEW e, e = [c EXCEPT !.mentions = TRUE]
    PROVE  RunnerConfig(e) /\ e.mentions = TRUE /\ e.is = c.is /\ e.wired = c.wired
BY DEF RunnerConfig

LEMMA AuthorWiresInv ==
    ASSUME ScaffoldInv, Scaffolding!AuthorWires
    PROVE  ScaffoldInv'
<1> USE DEF ScaffoldInv
<1>1. /\ UNCHANGED <<at, exit, byHand, completed, flag>> /\ "config" \in byHand
      /\ disk' = [disk EXCEPT !.config = [@ EXCEPT !.mentions = TRUE]]
      /\ author' = [author EXCEPT !.config = [@ EXCEPT !.mentions = TRUE]]
    BY DEF Scaffolding!AuthorWires, Scaffolding!Change
<1>2. /\ Project(disk)' /\ disk'.config = [disk.config EXCEPT !.mentions = TRUE]
      /\ disk'.files = disk.files /\ disk'.pkg = disk.pkg /\ disk'.jest = disk.jest
      /\ disk'.ignore = disk.ignore
    BY <1>1 DEF PartsInv, Project
<1>3. /\ Project(author)' /\ author'.config = [author.config EXCEPT !.mentions = TRUE]
      /\ author'.files = author.files /\ author'.pkg = author.pkg
      /\ author'.jest = author.jest /\ author'.ignore = author.ignore
    BY <1>1 DEF PartsInv, Project
<1>4. \A n \in 1 .. 6 : Past(n)' <=> Past(n)
    BY <1>1 DEF Past
<1>5. FilesInv' /\ PackageInv' /\ VersionsInv'
    BY <1>2, <1>3, <1>4 DEF FilesInv, PackageInv, VersionsInv
<1>6. ConfigInv'
    <2> DEFINE a == author.config
    <2>1. /\ RunnerConfig(a) /\ a.wired = 0
          /\ disk.config = a /\ a.is = "theirs" /\ (at = 0 \/ Past(5))
        BY <1>1 DEF ConfigInv
    <2>2. /\ author'.config = [a EXCEPT !.mentions = TRUE]
          /\ disk'.config = author'.config
        BY <1>2, <1>3, <2>1
    <2>3. /\ RunnerConfig(author'.config) /\ author'.config.mentions = TRUE
          /\ author'.config.is = a.is /\ author'.config.wired = 0
        <3> HIDE DEF a
        <3> QED
            BY <2>1, <2>2, Mentioned
    <2>4. (at = 0 \/ Past(5))' /\ author'.config.is = "theirs"
        BY <1>1, <1>4, <2>1, <2>3
    <2> QED
        BY <2>2, <2>3, <2>4 DEF ConfigInv
<1>7. PartsInv' /\ IgnoreInv'
    BY <1>1, <1>2, <1>3, Zenon DEF PartsInv, IgnoreInv
<1>8. ToldInv' /\ PlaceInv' /\ RefusalInv'
    BY <1>1, <1>2, <1>4 DEF ToldInv, PlaceInv, RefusalInv
<1> QED
    BY <1>5, <1>6, <1>7, <1>8

--------------------------------------------------------------------------------
\* A project that init has not been run in.
LEMMA UntouchedInv ==
    ASSUME NEW p,
           Project(p), p.files \in [Scaffolding!Files -> {"none", "theirs"}],
           Package(p.pkg), p.pkg.is \in {"none", "unreadable", "json"},
           p.pkg.is = "none" => p.pkg.type = "none",
           p.pkg.dev \in [DOMAIN p.pkg.dev -> {"none", "own"}],
           Scaffolding!Needed \subseteq DOMAIN p.pkg.dev,
           RunnerConfig(p.config), p.config.wired = 0,
           p.config.is \in {"none", "theirs"}, p.config.mentions \in BOOLEAN,
           disk = p, author = p, at = 0, exit = "none", byHand = {}, completed = FALSE
    PROVE  ScaffoldInv
<1>1. ~Past(1) /\ ~Past(2) /\ ~Past(3) /\ ~Past(4) /\ ~Past(5) /\ ~Past(6)
    BY DEF Past
<1>2. FilesInv
    BY <1>1 DEF FilesInv
<1>3. PackageInv
    BY <1>1 DEF PackageInv
<1>4. VersionsInv
    BY <1>1 DEF VersionsInv
<1>5. ConfigInv
    BY <1>1 DEF ConfigInv
<1>6. PartsInv /\ IgnoreInv
    BY Zenon DEF PartsInv, IgnoreInv
<1>7. ToldInv /\ PlaceInv /\ RefusalInv
    BY <1>1 DEF ToldInv, PlaceInv, RefusalInv
<1> QED
    BY <1>2, <1>3, <1>4, <1>5, <1>6, <1>7 DEF ScaffoldInv

LEMMA ProjectsUntouched ==
    ASSUME NEW p \in Projects
    PROVE  /\ Project(p) /\ p.files \in [Scaffolding!Files -> {"none", "theirs"}]
           /\ Package(p.pkg) /\ p.pkg.is \in {"none", "unreadable", "json"}
           /\ p.pkg.is = "none" => p.pkg.type = "none"
           /\ p.pkg.dev \in [DOMAIN p.pkg.dev -> {"none", "own"}]
           /\ Scaffolding!Needed \subseteq DOMAIN p.pkg.dev
           /\ RunnerConfig(p.config) /\ p.config.wired = 0
           /\ p.config.is \in {"none", "theirs"} /\ p.config.mentions \in BOOLEAN
<1>1. p = [files |-> p.files, pkg |-> p.pkg, config |-> p.config, jest |-> p.jest,
           ignore |-> p.ignore]
    BY ProjectsAssumption
<1>2. Project(p)
    BY <1>1 DEF Project
<1>3. /\ p.files \in [Scaffolding!Files -> {"none", "theirs"}]
      /\ Package(p.pkg) /\ p.pkg.is \in {"none", "unreadable", "json"}
      /\ p.pkg.is = "none" => p.pkg.type = "none"
      /\ p.pkg.dev \in [DOMAIN p.pkg.dev -> {"none", "own"}]
      /\ Scaffolding!Needed \subseteq DOMAIN p.pkg.dev
      /\ p.config.is \in {"none", "theirs"} /\ p.config.mentions \in BOOLEAN
    BY ProjectsAssumption, Zenon DEF Package
<1>4. p.config = [is |-> p.config.is, define |-> p.config.define,
                  plugins |-> p.config.plugins, test |-> p.config.test,
                  mentions |-> p.config.mentions, wired |-> 0]
    BY ProjectsAssumption, Zenon
<1>5. RunnerConfig(p.config) /\ p.config.wired = 0
    BY <1>4 DEF RunnerConfig
<1> QED
    BY <1>2, <1>3, <1>5

LEMMA NoProjectUntouched ==
    LET p == NoProject
    IN  /\ Project(p) /\ p.files \in [Scaffolding!Files -> {"none", "theirs"}]
        /\ Package(p.pkg) /\ p.pkg.is \in {"none", "unreadable", "json"}
        /\ p.pkg.is = "none" => p.pkg.type = "none"
        /\ p.pkg.dev \in [DOMAIN p.pkg.dev -> {"none", "own"}]
        /\ Scaffolding!Needed \subseteq DOMAIN p.pkg.dev
        /\ RunnerConfig(p.config) /\ p.config.wired = 0
        /\ p.config.is \in {"none", "theirs"} /\ p.config.mentions \in BOOLEAN
<1> DEFINE p == NoProject
<1>1. p.files \in [Scaffolding!Files -> {"none", "theirs"}]
    BY DEF NoProject, MCProject, MCNoFiles, MCNames, Scaffolding!Files
<1>2. /\ p.pkg = MCNoPackage /\ p.config = MCNoConfig /\ Project(p)
    BY DEF NoProject, MCProject, Project
<1>3. Package(MCNoPackage) /\ MCNoPackage.is = "none" /\ MCNoPackage.type = "none"
    BY DEF MCNoPackage, MCPackage, Package
<1>4. /\ MCNoPackage.dev \in [DOMAIN MCNoPackage.dev -> {"none", "own"}]
      /\ Scaffolding!Needed \subseteq DOMAIN MCNoPackage.dev
    BY DEF MCNoPackage, MCPackage, Scaffolding!Needed
<1>5. /\ RunnerConfig(MCNoConfig) /\ MCNoConfig.wired = 0
      /\ MCNoConfig.is = "none" /\ MCNoConfig.mentions = FALSE
    BY DEF MCNoConfig, MCConfig, RunnerConfig
<1> QED
    BY <1>1, <1>2, <1>3, <1>4, <1>5

LEMMA ScaffoldInitInv == MCInit => ScaffoldInv
<1>1. ASSUME disk = NoProject /\ author = NoProject,
             at = 0 /\ exit = "none" /\ byHand = {} /\ completed = FALSE
      PROVE  ScaffoldInv
    BY <1>1, NoProjectUntouched, UntouchedInv
<1>2. ASSUME Scaffolding!Init
      PROVE  ScaffoldInv
    <2>1. disk \in Projects /\ author = disk
        BY <1>2 DEF Scaffolding!Init
    <2>2. at = 0 /\ exit = "none" /\ byHand = {} /\ completed = FALSE
        BY <1>2 DEF Scaffolding!Init
    <2> QED
        BY <2>1, <2>2, ProjectsUntouched, UntouchedInv
<1> QED
    BY <1>1, <1>2 DEF MCInit

LEMMA ScaffoldStepInv == ScaffoldInv /\ [MCNext]_allVars => ScaffoldInv'
<1> SUFFICES ASSUME ScaffoldInv, [MCNext]_allVars PROVE ScaffoldInv'
    OBVIOUS
<1>1. CASE UNCHANGED initVars
    <2>1. UNCHANGED <<disk, at, flag, exit, byHand, completed, author>>
        BY <1>1 DEF initVars
    <2>2. \A n : Past(n)' = Past(n)
        BY <2>1 DEF Past
    <2>3. FilesInv' /\ PackageInv' /\ VersionsInv'
        BY <2>1 DEF ScaffoldInv, FilesInv, PackageInv, VersionsInv, Past
    <2>4. ConfigInv'
        BY <2>1 DEF ScaffoldInv, ConfigInv, Past
    <2>5. PartsInv' /\ IgnoreInv'
        BY <2>1, Zenon DEF ScaffoldInv, PartsInv, IgnoreInv
    <2>6. ToldInv' /\ PlaceInv' /\ RefusalInv'
        BY <2>1 DEF ScaffoldInv, ToldInv, PlaceInv, RefusalInv, Past
    <2> QED
        BY <2>3, <2>4, <2>5, <2>6 DEF ScaffoldInv
<1>2. CASE Scaffolding!Next
    <2>1. ASSUME NEW f \in Scaffolding!Flags, Scaffolding!Start(f) PROVE ScaffoldInv'
        BY <2>1, StartInv
    <2>2. ASSUME NEW f \in Scaffolding!Files, Scaffolding!WriteFile(f) PROVE ScaffoldInv'
        BY <2>2, WriteFileInv
    <2>3. ASSUME NEW f \in Scaffolding!Files, Scaffolding!AuthorWrites(f)
          PROVE  ScaffoldInv'
        BY <2>3, AuthorWritesInv
    <2>4. ASSUME NEW n \in Scaffolding!Needed, Scaffolding!AuthorPins(n)
          PROVE  ScaffoldInv'
        BY <2>4, AuthorPinsInv
    <2> QED
        BY <1>2, <2>1, <2>2, <2>3, <2>4, AuthorWiresInv, EnsureEsmInv,
           EnsureRunnerConfigInv, EnsureDevDependenciesInv, EnsureGitignoreInv, ThrowInv
        DEF Scaffolding!Next
<1> QED
    BY <1>1, <1>2 DEF MCNext, allVars

--------------------------------------------------------------------------------
\* What the author wrote is part of what there is.
LEMMA NothingClobbered == ScaffoldInv => Scaffolding!NeverClobber
<1> SUFFICES ASSUME ScaffoldInv PROVE Scaffolding!NeverClobber
    OBVIOUS
<1>1. \A f \in Scaffolding!Files : author.files[f] = "theirs" => disk.files[f] = "theirs"
    BY DEF ScaffoldInv, FilesInv
<1>2. author.pkg.is = "unreadable" => disk.pkg = author.pkg
    BY DEF ScaffoldInv, PackageInv
<1>3. author.pkg.is = "json" /\ author.pkg.type # "none" => disk.pkg.type = author.pkg.type
    BY DEF ScaffoldInv, PackageInv
<1>4. \A n \in DOMAIN author.pkg.dev :
          author.pkg.dev[n] # "none" => disk.pkg.dev[n] = author.pkg.dev[n]
    BY DEF ScaffoldInv, VersionsInv
<1>5. author.config.is = "theirs" =>
          \/ disk.config = author.config
          \/ ~author.config.mentions /\ disk.config = Scaffolding!Wired(author.config)
    BY DEF ScaffoldInv, ConfigInv
<1>6. author.ignore = "none" => disk.ignore = "none"
    BY DEF ScaffoldInv, IgnoreInv
<1> QED
    BY <1>1, <1>2, <1>3, <1>4, <1>5, <1>6
    DEF Scaffolding!NeverClobber, Scaffolding!Marked

\* Two package.json files of the same parts are the same.
LEMMA SamePackage ==
    ASSUME NEW p, Package(p), NEW q, Package(q), p.is = q.is, p.type = q.type,
           p.jestKey = q.jestKey, p.script = q.script, p.dev = q.dev
    PROVE  p = q
BY Zenon DEF Package

LEMMA SameVersions ==
    ASSUME NEW D, NEW V, NEW W, NEW d \in [D -> V], NEW e \in [D -> W],
           \A n \in D : d[n] = e[n]
    PROVE  d = e
OBVIOUS

\* The package.json that a whole run leaves.
LEMMA PackageScaffolded ==
    ASSUME ScaffoldInv, exit = "done"
    PROVE  disk.pkg = Scaffolding!Scaffolded(author).pkg
<1> USE DEF ScaffoldInv
<1> DEFINE a == author.pkg  d == disk.pkg
           D == [n \in DOMAIN a.dev |->
                    IF n \in Scaffolding!Needed /\ a.dev[n] = "none" THEN "ours"
                    ELSE a.dev[n]]
           t == IF a.type = "none" THEN "module" ELSE a.type
           e == [[[a EXCEPT !.is = "json"] EXCEPT !.type = t] EXCEPT !.dev = D]
<1>1. Past(4) /\ Past(6)
    BY DEF Past
<1>2. Package(a) /\ Package(d) /\ d.jestKey = a.jestKey /\ d.script = a.script
    BY DEF PackageInv
<1>3. CASE a.is = "unreadable"
    BY <1>3 DEF PackageInv, Scaffolding!Scaffolded
<1>4. CASE a.is # "unreadable"
    <2>1. Scaffolding!Scaffolded(author).pkg =
              [a EXCEPT !.is = "json", !.type = t, !.dev = D]
        BY <1>4 DEF Scaffolding!Scaffolded
    <2>2. [a EXCEPT !.is = "json", !.type = t, !.dev = D] = e
        <3> HIDE DEF a, t, D
        <3> QED
            OBVIOUS
    <2>3. /\ Package(e) /\ e.is = "json" /\ e.type = t /\ e.dev = D
          /\ e.jestKey = a.jestKey /\ e.script = a.script
        <3> DEFINE m == [a EXCEPT !.is = "json"]  n == [m EXCEPT !.type = t]
        <3>1. /\ Package(m) /\ m.is = "json"
              /\ m.jestKey = a.jestKey /\ m.script = a.script
            BY <1>2, MadeJson
        <3>2. e = [n EXCEPT !.dev = D]
            OBVIOUS
        <3> HIDE DEF m, t, D, a, e
        <3>3. /\ Package(n) /\ n.is = "json" /\ n.type = t
              /\ n.jestKey = a.jestKey /\ n.script = a.script
            BY <3>1, Typed
        <3> HIDE DEF n
        <3> QED
            BY <3>2, <3>3, VersionsChange
    <2>4. d.is = "json" /\ d.type = t
        BY <1>1, <1>4 DEF PackageInv
    <2>5. d.dev = D
        <3>1. /\ d.dev \in [DOMAIN a.dev -> {"none", "ours", "own"}]
              /\ a.dev \in [DOMAIN a.dev -> {"none", "own"}]
              /\ \A n \in DOMAIN a.dev :
                    d.dev[n] # a.dev[n] =>
                        n \in Scaffolding!Needed /\ a.dev[n] = "none" /\ d.dev[n] = "ours"
              /\ \A n \in Scaffolding!Needed : d.dev[n] # "none"
            BY <1>1, <1>4 DEF VersionsInv
        <3> HIDE DEF a, d
        <3>2. \A n \in DOMAIN a.dev : d.dev[n] = D[n]
            BY <3>1
        <3>3. D \in [DOMAIN a.dev -> {"none", "ours", "own"}]
            BY <3>1
        <3> HIDE DEF D
        <3> QED
            BY <3>1, <3>2, <3>3, SameVersions
    <2> HIDE DEF a, d, e, t, D
    <2>6. d = e
        BY <1>2, <2>3, <2>4, <2>5, SamePackage
    <2> QED
        BY <2>1, <2>2, <2>6 DEF d
<1> QED
    BY <1>3, <1>4

LEMMA SameProject ==
    ASSUME NEW p, Project(p), NEW q, Project(q), p.files = q.files, p.pkg = q.pkg,
           p.config = q.config, p.jest = q.jest, p.ignore = q.ignore
    PROVE  p = q
BY DEF Project

LEMMA RunsConverge == ScaffoldInv => Scaffolding!Converges
<1> SUFFICES ASSUME ScaffoldInv PROVE Scaffolding!Converges
    OBVIOUS
<1> USE DEF ScaffoldInv
<1>1. ASSUME exit = "done"
      PROVE  disk = Scaffolding!Scaffolded(author)
    <2> DEFINE s == Scaffolding!Scaffolded(author)
    <2>1. Past(1) /\ Past(2) /\ Past(3) /\ Past(5)
        BY <1>1 DEF Past
    <2>2. disk.pkg = s.pkg
        BY <1>1, PackageScaffolded
    <2>3. disk.files = s.files
        <3>1. s.files = [f \in Scaffolding!Files |->
                  IF author.files[f] = "theirs" THEN "theirs" ELSE "ours"]
            BY DEF Scaffolding!Scaffolded
        <3>2. \A f \in Scaffolding!Files : disk.files[f] = s.files[f]
            BY <2>1, <3>1 DEF FilesInv, Scaffolding!Files
        <3>3. s.files \in [Scaffolding!Files -> {"none", "ours", "theirs"}]
            BY <3>1
        <3>4. disk.files \in [Scaffolding!Files -> {"none", "ours", "theirs"}]
            BY DEF FilesInv
        <3> HIDE DEF s
        <3> QED
            BY <3>2, <3>3, <3>4, SameVersions
    <2>4. disk.config = s.config
        <3>1. s.config = IF author.config.is = "none" THEN Scaffolding!FreshConfig
                         ELSE IF author.config.mentions \/ "config" \in byHand
                              THEN author.config
                         ELSE Scaffolding!Wired(author.config)
            BY DEF Scaffolding!Scaffolded, Scaffolding!Marked
        <3> HIDE DEF s
        <3> QED
            BY <2>1, <3>1 DEF ConfigInv
    <2>5. disk.jest = s.jest
        BY DEF PartsInv, Scaffolding!Scaffolded
    <2>6. disk.ignore = s.ignore
        BY <1>1 DEF IgnoreInv, Scaffolding!Scaffolded
    <2>7. Project(s)
        BY DEF Project, Scaffolding!Scaffolded
    <2>8. Project(disk)
        BY DEF PartsInv
    <2>9. disk = s
        <3> HIDE DEF s
        <3> QED
            BY <2>2, <2>3, <2>4, <2>5, <2>6, <2>7, <2>8, SameProject
    <2> QED
        BY <2>9
<1>2. completed /\ exit = "refused" => flag # "none"
    BY DEF RefusalInv
<1> QED
    BY <1>1, <1>2 DEF Scaffolding!Converges

LEMMA ScaffoldedRuns == ScaffoldInv => Scaffolding!ScaffoldRuns
<1> SUFFICES ASSUME ScaffoldInv, exit = "done", byHand = {}
             PROVE  /\ \A f \in Scaffolding!Files : disk.files[f] # "none"
                    /\ disk.pkg.is = "json" /\ disk.pkg.type = "module"
                    /\ \A n \in Scaffolding!Needed : disk.pkg.dev[n] # "none"
                    /\ disk.config.wired = 1 \/ author.config.mentions
    BY DEF Scaffolding!ScaffoldRuns
<1> USE DEF ScaffoldInv
<1>1. Past(1) /\ Past(2) /\ Past(3) /\ Past(4) /\ Past(5) /\ Past(6)
    BY DEF Past
<1>2. \A f \in Scaffolding!Files : disk.files[f] # "none"
    BY <1>1 DEF FilesInv, Scaffolding!Files
<1>3. disk.pkg.is = "json" /\ disk.pkg.type = "module"
    BY <1>1 DEF ToldInv
<1>4. author.pkg.is # "unreadable"
    BY <1>3 DEF PackageInv
<1>5. \A n \in Scaffolding!Needed : disk.pkg.dev[n] # "none"
    BY <1>1, <1>4 DEF VersionsInv
<1>6. disk.config.wired = 1 \/ author.config.mentions
    <2>1. Scaffolding!FreshConfig.wired = 1
        BY DEF Scaffolding!FreshConfig, Scaffolding!Config
    <2>2. RunnerConfig(author.config) /\ author.config.wired = 0
        BY DEF ConfigInv
    <2>3. Scaffolding!Wired(author.config).wired = 1
        BY <2>2, WiredOnce
    <2> QED
        BY <1>1, <2>1, <2>3 DEF ConfigInv
<1> QED
    BY <1>2, <1>3, <1>5, <1>6

LEMMA ScaffoldAlways == MCSpec => []ScaffoldInv
BY ScaffoldInitInv, ScaffoldStepInv, PTL DEF MCSpec

\* init.ts:103, "NEVER CLOBBER": in a project of any shape, whatever init found it could not
\* write and however often it was run again, what the author wrote is there.
THEOREM InitNeverClobbers == MCSpec => []NeverClobber
<1>1. ScaffoldInv => NeverClobber
    BY NothingClobbered DEF NeverClobber
<1> QED
    BY <1>1, ScaffoldAlways, PTL

\* A run of init that ends well leaves what one undisturbed run would have left, whatever
\* the runs before it were broken off at and whatever the author wrote between them.
THEOREM InitConverges == MCSpec => []Converges
<1>1. ScaffoldInv => Converges
    BY RunsConverge DEF Converges
<1> QED
    BY <1>1, ScaffoldAlways, PTL

\* init.test.ts:121: a run that ends well and asks for nothing by hand leaves the files, the
\* module type, the versions and the config that oaths need to run.
THEOREM InitScaffoldsRunnable == MCSpec => []ScaffoldRuns
<1>1. ScaffoldInv => ScaffoldRuns
    BY ScaffoldedRuns DEF ScaffoldRuns
<1> QED
    BY <1>1, ScaffoldAlways, PTL
--------------------------------------------------------------------------------
\* Numbers, finite sets and chains.
LEMMA Least ==
    ASSUME NEW T \in SUBSET Nat, T # {}
    PROVE  \E m \in T : \A n \in T : m <= n
<1> DEFINE U == {0 .. n : n \in T}
<1>1. U \subseteq FiniteSubsetsOf(Nat)
    <2>1. \A n \in Nat : 0 .. n \in SUBSET Nat /\ IsFiniteSet(0 .. n)
        BY FS_Interval
    <2> QED
        BY <2>1 DEF FiniteSubsetsOf
<1>2. \E x \in U : \A y \in U : ~(<<y, x>> \in StrictSubsetOrdering(Nat))
    <2>1. U # {}
        OBVIOUS
    <2> HIDE DEF U
    <2> QED
        BY <1>1, <2>1, WFMin, FS_StrictSubsetOrderingWellFounded
<1>3. PICK m \in T : \A n \in T : ~(<<0 .. n, 0 .. m>> \in StrictSubsetOrdering(Nat))
    BY <1>2
<1>4. ASSUME NEW n \in T, n < m PROVE FALSE
    <2>1. /\ 0 .. n \subseteq 0 .. m /\ m \notin 0 .. n /\ m \in 0 .. m
          /\ 0 .. n \subseteq Nat /\ 0 .. m \subseteq Nat
        BY <1>4, SMT
    <2>2. <<0 .. n, 0 .. m>> \in StrictSubsetOrdering(Nat)
        BY <2>1 DEF StrictSubsetOrdering
    <2> QED
        BY <1>3, <2>2
<1> QED
    BY <1>4

LEMMA FiniteImage ==
    ASSUME NEW S, IsFiniteSet(S), NEW f
    PROVE  IsFiniteSet({f[x] : x \in S})
<1> DEFINE T == {f[x] : x \in S}  g == [x \in S |-> f[x]]
<1>1. g \in Surjection(S, T)
    BY DEF Surjection
<1> HIDE DEF g, T
<1>2. IsFiniteSet(T)
    BY <1>1, FS_Surjection
<1> QED
    BY <1>2 DEF T

LEMMA InjectiveLength ==
    ASSUME NEW S, IsFiniteSet(S), NEW n \in Nat, NEW c \in [1 .. n -> S],
           \A a, b \in 1 .. n : c[a] = c[b] => a = b
    PROVE  n <= Cardinality(S)
<1>1. c \in Injection(1 .. n, S)
    BY DEF Injection, IsInjective
<1>2. Cardinality(1 .. n) <= Cardinality(S)
    BY <1>1, FS_Injection
<1>3. Cardinality(1 .. n) = n
    BY FS_Interval
<1> QED
    BY <1>2, <1>3

--------------------------------------------------------------------------------
\* The documents that the plugin inlines for an oath.

\* The oath files that there may be.
Docs(ds) == DOMAIN ds \subseteq Paths /\ \A p \in DOMAIN ds : ds[p] \in Outlines[p]

LEMMA FinitelyReferenced ==
    ASSUME NEW ds, Docs(ds)
    PROVE  IsFiniteSet(DOMAIN ds) /\ IsFiniteSet(Referenced(ds))
<1>1. IsFiniteSet(DOMAIN ds)
    BY OathsAssumption, FS_Subset DEF Docs
<1>2. ASSUME NEW p \in DOMAIN ds
      PROVE  IsFiniteSet(References(ds[p]))
    <2> DEFINE links == {i \in DOMAIN ds[p] : ds[p][i].kind = "link"}
               f == [i \in DOMAIN ds[p] |-> KeyOf(ds[p][i])]
    <2>1. IsFiniteSet(DOMAIN ds[p])
        <3>1. Len(ds[p]) \in Nat /\ DOMAIN ds[p] = 1 .. Len(ds[p])
            BY OathsAssumption DEF Docs
        <3> QED
            BY <3>1, FS_Interval
    <2>2. IsFiniteSet(links)
        BY <2>1, FS_Subset
    <2>3. References(ds[p]) = {f[i] : i \in links}
        BY DEF References
    <2> HIDE DEF links, f
    <2> QED
        BY <2>2, <2>3, FiniteImage
<1>3. IsFiniteSet({References(ds[p]) : p \in DOMAIN ds})
    <2> DEFINE f == [p \in DOMAIN ds |-> References(ds[p])]
    <2>1. {References(ds[p]) : p \in DOMAIN ds} = {f[p] : p \in DOMAIN ds}
        OBVIOUS
    <2> HIDE DEF f
    <2> QED
        BY <1>1, <2>1, FiniteImage
<1> QED
    BY <1>1, <1>2, <1>3, FS_UNION DEF Referenced

\* A path of n documents, each of which refers to the next.
PathOf(ds, p, q, n) ==
    \E r \in [1 .. n -> DOMAIN ds] :
        r[1] = p /\ r[n] = q /\ \A j \in 1 .. n - 1 : RefersTo(ds, r[j], r[j + 1])

\* One that comes to a document twice may leave out the way round.
LEMMA WithoutTheWayRound ==
    ASSUME NEW ds, NEW p, NEW q, NEW n \in Nat \ {0}, NEW r \in [1 .. n -> DOMAIN ds],
           r[1] = p, r[n] = q, \A j \in 1 .. n - 1 : RefersTo(ds, r[j], r[j + 1]),
           NEW a \in 1 .. n, NEW b \in 1 .. n, a < b, r[a] = r[b]
    PROVE  n - (b - a) \in 1 .. n - 1 /\ PathOf(ds, p, q, n - (b - a))
<1> DEFINE m == n - (b - a)
           s == [j \in 1 .. m |-> IF j <= a THEN r[j] ELSE r[j + (b - a)]]
<1>1. m \in 1 .. n - 1 /\ a \in 1 .. m
    OBVIOUS
<1>2. s \in [1 .. m -> DOMAIN ds]
    OBVIOUS
<1>3. s[1] = p /\ s[m] = q
    <2>1. s[1] = p
        BY <1>1
    <2>2. CASE m <= a
        <3>1. m = a /\ b = n
            BY <1>1, <2>2
        <3> QED
            BY <1>1, <3>1
    <2>3. CASE ~(m <= a)
        BY <1>1, <2>3
    <2> QED
        BY <2>1, <2>2, <2>3
<1>4. ASSUME NEW j \in 1 .. m - 1
      PROVE  RefersTo(ds, s[j], s[j + 1])
    <2>1. j \in 1 .. m /\ j + 1 \in 1 .. m
        BY <1>1
    <2>2. CASE j < a
        <3>1. s[j] = r[j] /\ s[j + 1] = r[j + 1] /\ j \in 1 .. n - 1
            BY <1>1, <2>1, <2>2
        <3> QED
            BY <3>1
    <2>3. CASE j = a
        <3>1. s[j] = r[b] /\ s[j + 1] = r[b + 1] /\ b \in 1 .. n - 1
            BY <1>1, <2>1, <2>3
        <3> QED
            BY <3>1
    <2>4. CASE j > a
        <3> DEFINE i == j + (b - a)
        <3>1. s[j] = r[i] /\ s[j + 1] = r[i + 1] /\ i \in 1 .. n - 1
            BY <1>1, <2>1, <2>4
        <3> QED
            BY <3>1
    <2> QED
        BY <2>2, <2>3, <2>4
<1> HIDE DEF s
<1> QED
    BY <1>1, <1>2, <1>3, <1>4 DEF PathOf

\* So a shortest one is no longer than there are documents.
LEMMA ShortPath ==
    ASSUME NEW ds, Docs(ds), NEW p, NEW q, NEW n \in Nat \ {0}, PathOf(ds, p, q, n)
    PROVE  \E m \in 1 .. Cardinality(DOMAIN ds) : PathOf(ds, p, q, m)
<1> DEFINE T == {m \in Nat \ {0} : PathOf(ds, p, q, m)}
<1>1. T \in SUBSET Nat /\ T # {}
    OBVIOUS
<1>2. PICK m \in T : \A k \in T : m <= k
    <2> HIDE DEF T
    <2> QED
        BY <1>1, Least
<1>3. m \in Nat \ {0} /\ PathOf(ds, p, q, m)
    OBVIOUS
<1>4. PICK r \in [1 .. m -> DOMAIN ds] :
          r[1] = p /\ r[m] = q /\ \A j \in 1 .. m - 1 : RefersTo(ds, r[j], r[j + 1])
    BY <1>3 DEF PathOf
<1>5. ASSUME NEW a \in 1 .. m, NEW b \in 1 .. m, a < b, r[a] = r[b]
      PROVE  FALSE
    <2>1. m - (b - a) \in 1 .. m - 1 /\ PathOf(ds, p, q, m - (b - a))
        BY <1>3, <1>4, <1>5, WithoutTheWayRound
    <2>2. m - (b - a) \in T
        BY <1>3, <2>1
    <2> QED
        BY <1>2, <1>3, <2>1, <2>2
<1>6. \A a, b \in 1 .. m : r[a] = r[b] => a = b
    <2> SUFFICES ASSUME NEW a \in 1 .. m, NEW b \in 1 .. m, r[a] = r[b], a # b PROVE FALSE
        OBVIOUS
    <2>1. CASE a < b
        BY <1>5, <2>1
    <2>2. CASE b < a
        BY <1>5, <2>2
    <2> QED
        BY <1>3, <2>1, <2>2
<1>7. m <= Cardinality(DOMAIN ds)
    BY <1>3, <1>4, <1>6, InjectiveLength, FinitelyReferenced
<1>8. Cardinality(DOMAIN ds) \in Nat
    BY FinitelyReferenced, FS_CardinalityType
<1> QED
    BY <1>3, <1>7, <1>8

Inlined(ds, p) == {p} \cup ReferencedSources(ds, p)

\* A document that an inlined one refers to is inlined.
LEMMA InlinedIsClosed ==
    ASSUME NEW ds, Docs(ds), NEW p \in DOMAIN ds, NEW d \in Inlined(ds, p),
           NEW q \in DOMAIN ds, RefersTo(ds, d, q)
    PROVE  q \in Inlined(ds, p)
<1> SUFFICES ASSUME q # p PROVE q \in ReferencedSources(ds, p)
    BY DEF Inlined
<1>1. \E n \in Nat \ {0} : PathOf(ds, p, d, n)
    <2>1. CASE d = p
        <3> DEFINE r == [j \in 1 .. 1 |-> p]
        <3>1. /\ r \in [1 .. 1 -> DOMAIN ds] /\ r[1] = p
              /\ \A j \in 1 .. 1 - 1 : RefersTo(ds, r[j], r[j + 1])
            OBVIOUS
        <3> HIDE DEF r
        <3>2. PathOf(ds, p, d, 1)
            BY <2>1, <3>1 DEF PathOf
        <3> QED
            BY <3>2
    <2>2. CASE d # p
        <3>1. d \in ReferencedSources(ds, p)
            BY <2>2 DEF Inlined
        <3>2. PICK n \in 2 .. Cardinality(DOMAIN ds) : PathOf(ds, p, d, n)
            BY <3>1 DEF ReferencedSources, PathOf
        <3>3. Cardinality(DOMAIN ds) \in Nat
            BY FinitelyReferenced, FS_CardinalityType
        <3> QED
            BY <3>2, <3>3
    <2> QED
        BY <2>1, <2>2
<1>2. PICK n \in Nat \ {0} : PathOf(ds, p, d, n)
    BY <1>1
<1>3. PICK r \in [1 .. n -> DOMAIN ds] :
          r[1] = p /\ r[n] = d /\ \A j \in 1 .. n - 1 : RefersTo(ds, r[j], r[j + 1])
    BY <1>2 DEF PathOf
<1>4. PathOf(ds, p, q, n + 1)
    <2> DEFINE s == [j \in 1 .. n + 1 |-> IF j = n + 1 THEN q ELSE r[j]]
    <2>1. s \in [1 .. n + 1 -> DOMAIN ds]
        BY <1>3
    <2>2. s[1] = p /\ s[n + 1] = q
        BY <1>3
    <2>3. ASSUME NEW j \in 1 .. (n + 1) - 1
          PROVE  RefersTo(ds, s[j], s[j + 1])
        <3>1. s[j] = r[j] /\ s[j + 1] = IF j = n THEN q ELSE r[j + 1]
            BY <1>3
        <3>2. CASE j = n
            BY <1>3, <3>1, <3>2
        <3>3. CASE j # n
            <4>1. j \in 1 .. n - 1
                BY <3>3
            <4> QED
                BY <1>3, <3>1, <3>3, <4>1
        <3> QED
            BY <3>2, <3>3
    <2> HIDE DEF s
    <2> QED
        BY <2>1, <2>2, <2>3 DEF PathOf
<1>5. n + 1 \in Nat \ {0}
    OBVIOUS
<1>6. PICK m \in 1 .. Cardinality(DOMAIN ds) : PathOf(ds, p, q, m)
    BY <1>4, <1>5, ShortPath
<1>7. m # 1
    <2> SUFFICES ASSUME m = 1 PROVE FALSE
        OBVIOUS
    <2>1. PathOf(ds, p, q, 1)
        BY <1>6
    <2> QED
        BY <2>1 DEF PathOf
<1>8. m \in 2 .. Cardinality(DOMAIN ds)
    <2>1. Cardinality(DOMAIN ds) \in Nat
        BY FinitelyReferenced, FS_CardinalityType
    <2> QED
        BY <1>6, <1>7, <2>1
<1> QED
    BY <1>6, <1>8 DEF PathOf, ReferencedSources
\* The inlined documents are enough to resolve every reference that is met in them.
LEMMA RuntimeSections ==
    ASSUME NEW ds, Docs(ds), NEW p \in DOMAIN ds
    PROVE  LET rs == RuntimeDocs(ds, p) IN
           /\ p \in DOMAIN rs /\ DOMAIN rs \subseteq DOMAIN ds
           /\ \A q \in DOMAIN rs : rs[q] = ds[q]
           /\ Docs(rs) /\ Referenced(rs) \subseteq Referenced(ds)
           /\ \A k \in Referenced(rs) : k[1] \in DOMAIN ds => k[1] \in DOMAIN rs
           /\ \A k \in Referenced(rs) : Section(rs, k) = Section(ds, k)
<1> DEFINE rs == RuntimeDocs(ds, p)
<1>1. /\ p \in DOMAIN rs /\ DOMAIN rs \subseteq DOMAIN ds
      /\ \A q \in DOMAIN rs : rs[q] = ds[q]
    BY DEF RuntimeDocs, ReferencedSources
<1>2. ASSUME NEW k \in Referenced(rs)
      PROVE  /\ k \in Referenced(ds)
             /\ k[1] \in DOMAIN ds => k[1] \in DOMAIN rs
    <2> HIDE DEF rs
    <2>1. PICK d \in DOMAIN rs : k \in References(rs[d])
        BY <1>2 DEF Referenced
    <2>2. d \in DOMAIN ds /\ k \in References(ds[d])
        BY <1>1, <2>1
    <2>3. k \in Referenced(ds)
        BY <2>2 DEF Referenced
    <2>4. ASSUME k[1] \in DOMAIN ds
          PROVE  k[1] \in DOMAIN rs
        <3>1. DOMAIN rs = Inlined(ds, p)
            BY <2>3 DEF rs, RuntimeDocs, Inlined
        <3>2. RefersTo(ds, d, k[1])
            BY <2>2 DEF RefersTo
        <3> QED
            BY <2>1, <2>4, <3>1, <3>2, InlinedIsClosed
    <2> QED
        BY <2>3, <2>4
<1> HIDE DEF rs
<1>3. ASSUME NEW k \in Referenced(rs)
      PROVE  Section(rs, k) = Section(ds, k)
    <2>1. k[1] \in DOMAIN ds <=> k[1] \in DOMAIN rs
        BY <1>1, <1>2
    <2>2. k[1] \in DOMAIN rs => rs[k[1]] = ds[k[1]]
        BY <1>1
    <2> QED
        BY <2>1, <2>2 DEF Section
<1>4. Docs(rs)
    BY <1>1 DEF Docs
<1> QED
    BY <1>1, <1>2, <1>3, <1>4 DEF rs

\* What a section of a document refers to, the document refers to.
LEMMA SectionRefers ==
    ASSUME NEW ds, NEW k, NEW j \in LinksOf(Section(ds, k).blocks)
    PROVE  k[1] \in DOMAIN ds /\ j \in References(ds[k[1]])
<1>1. Section(ds, k).blocks # {}
    BY DEF LinksOf
<1>2. /\ k[1] \in DOMAIN ds
      /\ Section(ds, k).blocks =
             {<<i, ds[k[1]][i]>> : i \in SectionCandidates(ds[k[1]], k[2])}
    BY <1>1 DEF Section
<1>3. PICK i \in SectionCandidates(ds[k[1]], k[2]) :
          ds[k[1]][i].kind = "link" /\ j = KeyOf(ds[k[1]][i])
    BY <1>2 DEF LinksOf
<1>4. i \in DOMAIN ds[k[1]]
    BY DEF SectionCandidates, Candidates
<1> QED
    BY <1>2, <1>3, <1>4 DEF References

LEMMA OwnRefers ==
    ASSUME NEW ds, NEW refs, NEW p,
           NEW j \in LinksOf({<<i, ds[p][i]>> : i \in StandAlone(ds, refs, p)})
    PROVE  j \in References(ds[p])
<1>1. PICK i \in StandAlone(ds, refs, p) : ds[p][i].kind = "link" /\ j = KeyOf(ds[p][i])
    BY DEF LinksOf
<1>2. i \in DOMAIN ds[p]
    BY DEF StandAlone, Candidates
<1> QED
    BY <1>1, <1>2 DEF References

\* A call of resolveReference, in so many words.
IsCall(ds, refs, p, c, n) ==
    /\ n \in 1 .. Cardinality(Referenced(ds))
    /\ c \in [1 .. n -> Referenced(ds)]
    /\ \A a, b \in 1 .. n : c[a] = c[b] => a = b
    /\ c[1] \in LinksOf({<<i, ds[p][i]>> : i \in StandAlone(ds, refs, p)})
    /\ \A j \in 1 .. n - 1 : c[j + 1] \in LinksOf(Section(ds, c[j]).blocks)

LEMMA CallsAre ==
    ASSUME NEW ds, Docs(ds), NEW refs, NEW p, NEW c
    PROVE  c \in Calls(ds, refs, p) <=> \E n \in Nat : IsCall(ds, refs, p, c, n)
<1> DEFINE S == Referenced(ds)
           own == LinksOf({<<i, ds[p][i]>> : i \in StandAlone(ds, refs, p)})
<1>1. Cardinality(S) \in Nat
    BY FinitelyReferenced, FS_CardinalityType
<1>2. ASSUME NEW n \in 1 .. Cardinality(S), c \in [1 .. n -> S]
      PROVE  /\ Len(c) = n /\ DOMAIN c = 1 .. n
             /\ \A j \in 1 .. n - 1 : <<c[j], c[j + 1]>> \in Nested(ds) <=>
                                          c[j + 1] \in LinksOf(Section(ds, c[j]).blocks)
    <2>1. Len(c) = n /\ DOMAIN c = 1 .. n
        BY <1>1, <1>2
    <2>2. \A j \in 1 .. n - 1 : c[j] \in S /\ c[j + 1] \in S
        BY <1>1, <1>2
    <2> QED
        BY <2>1, <2>2 DEF Nested
<1>3. ASSUME c \in Calls(ds, refs, p)
      PROVE  \E n \in Nat : IsCall(ds, refs, p, c, n)
    <2>1. PICK n \in 1 .. Cardinality(S) : c \in [1 .. n -> S]
        BY <1>3 DEF Calls
    <2>2. /\ IsInjective(c) /\ c[1] \in own
          /\ \A j \in 1 .. Len(c) - 1 : <<c[j], c[j + 1]>> \in Nested(ds)
        BY <1>3 DEF Calls
    <2>3. \A j \in 1 .. n - 1 : c[j + 1] \in LinksOf(Section(ds, c[j]).blocks)
        BY <1>2, <2>1, <2>2
    <2>4. \A a, b \in 1 .. n : c[a] = c[b] => a = b
        BY <1>2, <2>1, <2>2 DEF IsInjective
    <2>5. n \in Nat
        BY <1>1, <2>1
    <2> QED
        BY <2>1, <2>2, <2>3, <2>4, <2>5 DEF IsCall
<1>4. ASSUME NEW n \in Nat, IsCall(ds, refs, p, c, n)
      PROVE  c \in Calls(ds, refs, p)
    <2>1. n \in 1 .. Cardinality(S) /\ c \in [1 .. n -> S]
        BY <1>4 DEF IsCall
    <2>2. \A j \in 1 .. Len(c) - 1 : <<c[j], c[j + 1]>> \in Nested(ds)
        BY <1>2, <1>4, <2>1 DEF IsCall
    <2>3. IsInjective(c) /\ c[1] \in own
        BY <1>2, <1>4, <2>1 DEF IsCall, IsInjective
    <2>4. c \in UNION {[1 .. k -> S] : k \in 1 .. Cardinality(S)}
        BY <2>1
    <2> QED
        BY <2>2, <2>3, <2>4 DEF Calls
<1> QED
    BY <1>3, <1>4

\* The calls are those of the whole project: none leaves the inlined documents.
LEMMA RuntimeCalls ==
    ASSUME NEW ds, Docs(ds), NEW p \in DOMAIN ds
    PROVE  LET rs == RuntimeDocs(ds, p)  refs == Referenced(ds) IN
           Calls(rs, refs, p) = Calls(ds, refs, p)
<1> DEFINE rs == RuntimeDocs(ds, p)  refs == Referenced(ds)  S == Referenced(rs)
<1>1. /\ rs[p] = ds[p] /\ Docs(rs) /\ S \subseteq refs
      /\ p \in DOMAIN rs /\ DOMAIN rs \subseteq DOMAIN ds
      /\ \A q \in DOMAIN rs : rs[q] = ds[q]
      /\ \A k \in S : k[1] \in DOMAIN ds => k[1] \in DOMAIN rs
      /\ \A k \in S : Section(rs, k) = Section(ds, k)
    BY RuntimeSections
<1> HIDE DEF rs
<1>2. StandAlone(rs, refs, p) = StandAlone(ds, refs, p)
    BY <1>1 DEF StandAlone
<1>3. LinksOf({<<i, rs[p][i]>> : i \in StandAlone(rs, refs, p)})
          = LinksOf({<<i, ds[p][i]>> : i \in StandAlone(ds, refs, p)})
    BY <1>1, <1>2
<1>4. Cardinality(S) \in Nat /\ Cardinality(refs) \in Nat /\ Cardinality(S) <= Cardinality(refs)
      /\ IsFiniteSet(S)
    BY <1>1, FinitelyReferenced, FS_CardinalityType, FS_Subset
<1>5. ASSUME NEW c, NEW n \in Nat, IsCall(rs, refs, p, c, n)
      PROVE  IsCall(ds, refs, p, c, n)
    <2>1. n \in 1 .. Cardinality(refs)
        BY <1>4, <1>5 DEF IsCall
    <2>2. c \in [1 .. n -> refs] /\ c \in [1 .. n -> S]
        BY <1>1, <1>5 DEF IsCall
    <2>3. \A j \in 1 .. n - 1 : c[j + 1] \in LinksOf(Section(ds, c[j]).blocks)
        <3> SUFFICES ASSUME NEW j \in 1 .. n - 1
                     PROVE  c[j + 1] \in LinksOf(Section(ds, c[j]).blocks)
            OBVIOUS
        <3>1. c[j] \in S
            BY <2>2
        <3> QED
            BY <1>1, <1>5, <3>1 DEF IsCall
    <2> QED
        BY <1>3, <1>5, <2>1, <2>2, <2>3 DEF IsCall
<1>6. ASSUME NEW c, NEW n \in Nat, IsCall(ds, refs, p, c, n)
      PROVE  IsCall(rs, refs, p, c, n)
    <2>1. /\ n \in 1 .. Cardinality(refs) /\ c \in [1 .. n -> refs]
          /\ \A a, b \in 1 .. n : c[a] = c[b] => a = b
          /\ c[1] \in LinksOf({<<i, ds[p][i]>> : i \in StandAlone(ds, refs, p)})
          /\ \A j \in 1 .. n - 1 : c[j + 1] \in LinksOf(Section(ds, c[j]).blocks)
        BY <1>6 DEF IsCall
    <2>2. \A j \in 1 .. n : c[j] \in S
        <3> DEFINE bad == {j \in 1 .. n : c[j] \notin S}
        <3> SUFFICES ASSUME bad # {} PROVE FALSE
            OBVIOUS
        <3>1. bad \in SUBSET Nat
            OBVIOUS
        <3>2. PICK j \in bad : \A i \in bad : j <= i
            <4> HIDE DEF bad
            <4> QED
                BY <3>1, Least
        <3>3. j \in 1 .. n /\ c[j] \notin S
            OBVIOUS
        <3>4. CASE j = 1
            <4>1. c[1] \in References(rs[p])
                BY <1>1, <2>1, OwnRefers
            <4>2. c[1] \in S
                BY <1>1, <4>1 DEF Referenced
            <4> QED
                BY <3>3, <3>4, <4>2
        <3>5. CASE j # 1
            <4>1. j - 1 \in 1 .. n - 1 /\ j - 1 \in 1 .. n /\ (j - 1) + 1 = j
                BY <3>3, <3>5
            <4>2. c[j - 1] \in S
                BY <3>2, <4>1
            <4>3. c[j] \in LinksOf(Section(ds, c[j - 1]).blocks)
                BY <2>1, <4>1
            <4>4. c[j - 1][1] \in DOMAIN ds /\ c[j] \in References(ds[c[j - 1][1]])
                BY <4>3, SectionRefers
            <4>5. c[j - 1][1] \in DOMAIN rs /\ c[j] \in References(rs[c[j - 1][1]])
                BY <1>1, <4>2, <4>4
            <4>6. c[j] \in S
                BY <4>5 DEF Referenced
            <4> QED
                BY <3>3, <4>6
        <3> QED
            BY <3>4, <3>5
    <2>3. c \in [1 .. n -> S]
        BY <2>1, <2>2
    <2>4. n \in 1 .. Cardinality(S)
        <3>1. n <= Cardinality(S)
            BY <1>4, <2>1, <2>3, InjectiveLength
        <3> QED
            BY <1>4, <2>1, <3>1
    <2>5. \A j \in 1 .. n - 1 : c[j + 1] \in LinksOf(Section(rs, c[j]).blocks)
        <3> SUFFICES ASSUME NEW j \in 1 .. n - 1
                     PROVE  c[j + 1] \in LinksOf(Section(rs, c[j]).blocks)
            OBVIOUS
        <3>1. c[j] \in S
            BY <2>2
        <3> QED
            BY <1>1, <2>1, <3>1
    <2> QED
        BY <1>3, <2>1, <2>3, <2>4, <2>5 DEF IsCall
<1>7. \A c : c \in Calls(rs, refs, p) <=> c \in Calls(ds, refs, p)
    <2> SUFFICES ASSUME NEW c
                 PROVE  c \in Calls(rs, refs, p) <=> c \in Calls(ds, refs, p)
        OBVIOUS
    <2>1. c \in Calls(rs, refs, p) <=> \E n \in Nat : IsCall(rs, refs, p, c, n)
        BY <1>1, CallsAre
    <2>2. c \in Calls(ds, refs, p) <=> \E n \in Nat : IsCall(ds, refs, p, c, n)
        BY CallsAre
    <2> QED
        BY <1>5, <1>6, <2>1, <2>2
<1>8. Calls(rs, refs, p) = Calls(ds, refs, p)
    <2>1. \A x \in Calls(rs, refs, p) : x \in Calls(ds, refs, p)
        BY <1>7
    <2>2. \A x \in Calls(ds, refs, p) : x \in Calls(rs, refs, p)
        BY <1>7
    <2> QED
        BY <2>1, <2>2
<1> QED
    BY <1>8 DEF rs

\* And so is the plan.
LEMMA RuntimePlanAlike ==
    ASSUME NEW ds, Docs(ds), NEW st, NEW p \in DOMAIN ds
    PROVE  RuntimePlan(ds, st, p) = FreshPlan(ds, st, p)
<1> DEFINE rs == RuntimeDocs(ds, p)  refs == Referenced(ds)
<1>1. /\ rs[p] = ds[p] /\ Docs(rs) /\ Referenced(rs) \subseteq refs
      /\ p \in DOMAIN rs
      /\ \A k \in Referenced(rs) : Section(rs, k) = Section(ds, k)
    BY RuntimeSections
<1>2. Calls(rs, refs, p) = Calls(ds, refs, p)
    BY RuntimeCalls
<1> HIDE DEF rs
<1>3. StandAlone(rs, refs, p) = StandAlone(ds, refs, p)
    BY <1>1 DEF StandAlone
<1>4. ASSUME NEW c \in Calls(rs, refs, p)
      PROVE  Last(c) \in Referenced(rs)
    <2>1. PICK n \in Nat : IsCall(rs, refs, p, c, n)
        BY <1>1, <1>4, CallsAre
    <2>2. c \in [1 .. n -> Referenced(rs)] /\ n \in 1 .. n /\ Len(c) = n
        <3>1. Cardinality(Referenced(rs)) \in Nat
            BY <1>1, FinitelyReferenced, FS_CardinalityType
        <3> QED
            BY <2>1, <3>1 DEF IsCall
    <2> QED
        BY <2>2 DEF Last
<1>5. Visited(rs, refs, p) = Visited(ds, refs, p)
    BY <1>1, <1>2, <1>4 DEF Visited
<1>6. [k \in Visited(rs, refs, p) |-> Section(rs, k)]
          = [k \in Visited(ds, refs, p) |-> Section(ds, k)]
    <2>1. \A k \in Visited(rs, refs, p) : Section(rs, k) = Section(ds, k)
        BY <1>1 DEF Visited
    <2> QED
        BY <1>5, <2>1
<1> QED
    BY <1>1, <1>2, <1>3, <1>6 DEF rs, RuntimePlan, FreshPlan, Plan

\* The oath files are always some that there may be.
LEMMA DocsStay == Spec => []Docs(docs)
<1>1. Init => Docs(docs)
    BY DEF Init, Docs
<1>2. Docs(docs) /\ [Next]_vars => Docs(docs)'
    <2> SUFFICES ASSUME Docs(docs), [Next]_vars PROVE Docs(docs')
        BY DEF Docs
    <2>1. ASSUME NEW p \in Paths, NEW o \in Outlines[p], EditOath(p, o)
          PROVE  Docs(docs')
        BY <2>1 DEF EditOath, Docs
    <2>2. ASSUME NEW p \in Paths, RemoveOath(p)
          PROVE  Docs(docs')
        BY <2>2 DEF RemoveOath, Docs
    <2>3. CASE UNCHANGED docs
        BY <2>3 DEF Docs
    <2> QED
        BY <2>1, <2>2, <2>3 DEF Next, vars, EditSteps, Reindex
<1> QED
    BY <1>1, <1>2, PTL DEF Spec

\* plugin.ts:124-126: with the documents inlined for it, the worker makes of every oath the
\* plan that was made at build time: in a project of any size, whatever its references.
THEOREM RuntimePlansAgree == Spec => []RuntimePlansAlike
<1>1. Docs(docs) => RuntimePlansAlike
    BY RuntimePlanAlike DEF RuntimePlansAlike
<1> QED
    BY <1>1, DocsStay, PTL
--------------------------------------------------------------------------------
\* Where the steps of consumed paragraphs are highlighted.

\* A set of which each member has a predecessor in it has, if it is finite, a part of which
\* each has a successor: a smallest part that has predecessors has no last member.
LEMMA NoFirstNoLast ==
    ASSUME NEW U, IsFiniteSet(U), U # {}, NEW R,
           \A k \in U : \E j \in U : <<j, k>> \in R
    PROVE  \E K \in SUBSET U : K # {} /\ \A k \in K : \E j \in K : <<k, j>> \in R
<1> DEFINE P == {V \in SUBSET U : V # {} /\ \A k \in V : \E j \in V : <<j, k>> \in R}
<1>1. P \subseteq FiniteSubsetsOf(U) /\ U \in P
    BY FS_FiniteSubsetsOfFinite
<1>2. \E V \in P : \A W2 \in P : ~(<<W2, V>> \in StrictSubsetOrdering(U))
    <2>1. P # {}
        BY <1>1
    <2> HIDE DEF P
    <2> QED
        BY <1>1, <2>1, WFMin, FS_StrictSubsetOrderingWellFounded
<1>3. PICK V \in P : \A W2 \in P : ~(<<W2, V>> \in StrictSubsetOrdering(U))
    BY <1>2
<1>4. V \subseteq U /\ V # {} /\ \A k \in V : \E j \in V : <<j, k>> \in R
    OBVIOUS
<1>5. ASSUME NEW k \in V, \A j \in V : <<k, j>> \notin R
      PROVE  FALSE
    <2> DEFINE V2 == V \ {k}
    <2>1. \A i \in V2 : \E j \in V2 : <<j, i>> \in R
        BY <1>4, <1>5
    <2>2. V2 # {}
        <3>1. PICK j \in V : <<j, k>> \in R
            BY <1>4
        <3>2. j # k
            BY <1>5, <3>1
        <3> QED
            BY <3>1, <3>2
    <2>3. V2 \in P /\ V2 \subseteq V /\ V2 # V
        BY <1>4, <2>1, <2>2
    <2>4. <<V2, V>> \in StrictSubsetOrdering(U)
        BY <1>4, <2>3 DEF StrictSubsetOrdering
    <2> QED
        BY <1>3, <2>3, <2>4
<1> QED
    BY <1>4, <1>5

LEMMA LinkIn ==
    ASSUME NEW T, NEW i, NEW x, <<i, x>> \in T, x.kind = "link"
    PROVE  KeyOf(x) \in LinksOf(T)
BY DEF LinksOf

\* A section that a call finds is found by a call wherever another finds it: one that comes
\* to it twice may stop at the first time.
Called(ds, k) ==
    \E h \in DOMAIN ds : \E n \in Nat : \E c :
        IsCall(ds, Referenced(ds), h, c, n) /\ c[n] = k

LEMMA CallGoesOn ==
    ASSUME NEW ds, Docs(ds), NEW j \in Referenced(ds), Called(ds, j),
           NEW k \in Referenced(ds), k \in LinksOf(Section(ds, j).blocks)
    PROVE  Called(ds, k)
<1> DEFINE S == Referenced(ds)
<1>a. PICK h \in DOMAIN ds : \E n \in Nat : \E c : IsCall(ds, S, h, c, n) /\ c[n] = j
    BY DEF Called
<1>b. PICK n \in Nat : \E c : IsCall(ds, S, h, c, n) /\ c[n] = j
    BY <1>a
<1>1. PICK c : IsCall(ds, S, h, c, n) /\ c[n] = j
    BY <1>b
<1>2. IsFiniteSet(S) /\ Cardinality(S) \in Nat
    BY FinitelyReferenced, FS_CardinalityType
<1>3. /\ n \in 1 .. Cardinality(S) /\ n \in Nat \ {0} /\ c \in [1 .. n -> S]
      /\ \A a, b \in 1 .. n : c[a] = c[b] => a = b
      /\ c[1] \in LinksOf({<<i, ds[h][i]>> : i \in StandAlone(ds, S, h)})
      /\ \A i \in 1 .. n - 1 : c[i + 1] \in LinksOf(Section(ds, c[i]).blocks)
    BY <1>1, <1>2 DEF IsCall
<1>4. ASSUME NEW m \in 1 .. n, c[m] = k
      PROVE  Called(ds, k)
    <2> DEFINE d == [i \in 1 .. m |-> c[i]]
    <2>1. m \in Nat /\ m \in 1 .. Cardinality(S) /\ d \in [1 .. m -> S] /\ d[m] = k
        BY <1>2, <1>3, <1>4
    <2>2. \A a, b \in 1 .. m : d[a] = d[b] => a = b
        BY <1>3
    <2>3. d[1] = c[1] /\ \A i \in 1 .. m - 1 : d[i + 1] \in LinksOf(Section(ds, d[i]).blocks)
        BY <1>3
    <2> HIDE DEF d
    <2>4. IsCall(ds, S, h, d, m)
        BY <1>3, <2>1, <2>2, <2>3 DEF IsCall
    <2> QED
        BY <2>1, <2>4 DEF Called
<1>5. ASSUME \A m \in 1 .. n : c[m] # k
      PROVE  Called(ds, k)
    <2> DEFINE d == [i \in 1 .. n + 1 |-> IF i = n + 1 THEN k ELSE c[i]]
    <2>1. n + 1 \in Nat /\ d \in [1 .. n + 1 -> S] /\ d[n + 1] = k
        BY <1>3
    <2>2. \A a, b \in 1 .. n + 1 : d[a] = d[b] => a = b
        BY <1>3, <1>5
    <2>3. n + 1 \in 1 .. Cardinality(S)
        <3> HIDE DEF d
        <3>1. n + 1 <= Cardinality(S)
            BY <1>2, <2>1, <2>2, InjectiveLength
        <3> QED
            BY <1>2, <1>3, <3>1
    <2>4. d[1] = c[1]
        BY <1>3
    <2>5. ASSUME NEW i \in 1 .. (n + 1) - 1
          PROVE  d[i + 1] \in LinksOf(Section(ds, d[i]).blocks)
        <3>1. d[i] = c[i] /\ d[i + 1] = IF i = n THEN k ELSE c[i + 1]
            BY <1>3
        <3>2. CASE i = n
            BY <1>1, <3>1, <3>2
        <3>3. CASE i # n
            <4>1. i \in 1 .. n - 1
                BY <1>3, <3>3
            <4> QED
                BY <1>3, <3>1, <3>3, <4>1
        <3> QED
            BY <3>2, <3>3
    <2> HIDE DEF d
    <2>6. IsCall(ds, S, h, d, n + 1)
        BY <1>3, <2>1, <2>2, <2>3, <2>4, <2>5 DEF IsCall
    <2> QED
        BY <2>1, <2>6 DEF Called
<1> QED
    BY <1>4, <1>5

\* With sound references, each section that is referred to is called.
LEMMA EverySectionIsCalled ==
    ASSUME NEW ds, Docs(ds), SoundReferences(ds), NEW k \in Referenced(ds)
    PROVE  Called(ds, k)
<1> DEFINE S == Referenced(ds)
           U == {j \in S : ~Called(ds, j)}
           R == {e \in S \X S : e[2] \in LinksOf(Section(ds, e[1]).blocks)}
<1>1. IsFiniteSet(U)
    BY FinitelyReferenced, FS_Subset
<1>2. ASSUME NEW j \in U
      PROVE  \E i \in U : <<i, j>> \in R
    <2>1. j \in S /\ ~Called(ds, j)
        OBVIOUS
    <2>2. PICK d \in DOMAIN ds : j \in References(ds[d])
        BY <2>1 DEF Referenced
    <2>3. PICK b \in DOMAIN ds[d] : ds[d][b].kind = "link" /\ j = KeyOf(ds[d][b])
        BY <2>2 DEF References
    <2>4. b \in Candidates(ds[d])
        BY <2>3 DEF Candidates, IsCandidate
    <2>5. CASE b \in StandAlone(ds, S, d)
        <3> DEFINE c == [i \in 1 .. 1 |-> j]
        <3>1. j \in LinksOf({<<i, ds[d][i]>> : i \in StandAlone(ds, S, d)})
            <4>1. <<b, ds[d][b]>> \in {<<i, ds[d][i]>> : i \in StandAlone(ds, S, d)}
                BY <2>5
            <4> QED
                BY <2>3, <4>1, LinkIn
        <3>2. 1 \in 1 .. Cardinality(S)
            <4>1. Cardinality(S) \in Nat /\ Cardinality(S) # 0
                BY <2>1, FinitelyReferenced, FS_CardinalityType, FS_EmptySet
            <4> QED
                BY <4>1
        <3>3. /\ c \in [1 .. 1 -> S] /\ c[1] = j
              /\ \A x, y \in 1 .. 1 : c[x] = c[y] => x = y
              /\ \A i \in 1 .. 1 - 1 : c[i + 1] \in LinksOf(Section(ds, c[i]).blocks)
            BY <2>1
        <3> HIDE DEF c
        <3>4. IsCall(ds, S, d, c, 1)
            BY <3>1, <3>2, <3>3 DEF IsCall
        <3> QED
            BY <2>1, <3>3, <3>4 DEF Called
    <2>6. CASE b \notin StandAlone(ds, S, d)
        <3>1. PICK i \in S : i[1] = d /\ b \in SectionCandidates(ds[d], i[2])
            BY <2>4, <2>6 DEF StandAlone
        <3>2. Section(ds, i).found = "section"
            BY <3>1 DEF SoundReferences
        <3>3. Section(ds, i).blocks = {<<x, ds[d][x]>> : x \in SectionCandidates(ds[d], i[2])}
            BY <3>1, <3>2 DEF Section
        <3>4. j \in LinksOf(Section(ds, i).blocks)
            <4>1. <<b, ds[d][b]>> \in Section(ds, i).blocks
                BY <3>1, <3>3
            <4> QED
                BY <2>3, <4>1, LinkIn
        <3>5. ~Called(ds, i)
            BY <2>1, <3>1, <3>4, CallGoesOn
        <3> QED
            BY <2>1, <3>1, <3>4, <3>5
    <2> QED
        BY <2>5, <2>6
<1>3. U = {}
    <2> SUFFICES ASSUME U # {} PROVE FALSE
        OBVIOUS
    <2>1. PICK K \in SUBSET U : K # {} /\ \A i \in K : \E j \in K : <<i, j>> \in R
        <3> HIDE DEF U, R
        <3> QED
            BY <1>1, <1>2, NoFirstNoLast
    <2>2. K \in SUBSET S /\ \A i \in K : \E j \in K : j \in Within(ds, i)
        BY <2>1 DEF Within
    <2> QED
        BY <2>1, <2>2 DEF SoundReferences
<1> QED
    BY <1>3

\* A call that finds a section of p labels it with p: it comes from another document.
LEMMA CallIsLabelled ==
    ASSUME NEW ds, Docs(ds), SoundReferences(ds), NEW h \in DOMAIN ds, NEW n \in Nat, NEW c,
           IsCall(ds, Referenced(ds), h, c, n)
    PROVE  /\ Len(c) = n /\ Last(c) = c[n] /\ c[n] \in Referenced(ds)
           /\ Label(h, c) = c[n][1]
<1>1. Cardinality(Referenced(ds)) \in Nat
    BY FinitelyReferenced, FS_CardinalityType
<1>2. n \in 1 .. n /\ c \in [1 .. n -> Referenced(ds)] /\ Len(c) = n
    BY <1>1 DEF IsCall
<1>3. Last(c) = c[n] /\ c[n] \in Referenced(ds)
    BY <1>2 DEF Last
<1>4. CASE n = 1
    <2>1. c[1] \in References(ds[h])
        BY OwnRefers DEF IsCall
    <2>2. c[1][1] # h
        BY <2>1 DEF SoundReferences
    <2> QED
        BY <1>2, <1>3, <1>4, <2>2 DEF Label
<1>5. CASE n # 1
    <2>1. n - 1 \in 1 .. n - 1 /\ (n - 1) + 1 = n
        BY <1>2, <1>5
    <2>2. c[n] \in LinksOf(Section(ds, c[n - 1]).blocks)
        BY <2>1 DEF IsCall
    <2>3. c[n - 1][1] \in DOMAIN ds /\ c[n] \in References(ds[c[n - 1][1]])
        BY <2>2, SectionRefers
    <2>4. c[n][1] # c[n - 1][1]
        BY <2>3 DEF SoundReferences
    <2> QED
        BY <1>2, <1>3, <1>5, <2>4 DEF Label
<1> QED
    BY <1>2, <1>3, <1>4, <1>5

LEMMA FreshMatches ==
    ASSUME NEW ds, Docs(ds), SoundReferences(ds), NEW st, NEW oaths,
           DOMAIN oaths = DOMAIN ds, \A q \in DOMAIN ds : oaths[q] = FreshPlan(ds, st, q),
           NEW p \in DOMAIN ds, NEW i \in Candidates(ds[p]), ds[p][i].kind \in st \ {"rows"}
    PROVE  Match(p, i, p) \in MatchesOf(oaths)
<1> DEFINE S == Referenced(ds)
<1>1. \A q \in DOMAIN ds :
          /\ oaths[q].doc = ds[q] /\ oaths[q].steps = st
          /\ oaths[q].alone = StandAlone(ds, S, q) /\ oaths[q].calls = Calls(ds, S, q)
          /\ oaths[q].sections = [k \in Visited(ds, S, q) |-> Section(ds, k)]
    BY DEF FreshPlan, Plan
<1>2. CASE i \in StandAlone(ds, S, p)
    <2>1. Match(p, i, p) \in Matches(p, oaths[p])
        <3>1. i \in {j \in oaths[p].alone : oaths[p].doc[j].kind \in oaths[p].steps}
            <4>1. i \in oaths[p].alone
                BY <1>1, <1>2
            <4>2. oaths[p].doc[i].kind \in oaths[p].steps
                <5>1. oaths[p].doc = ds[p] /\ oaths[p].steps = st
                    BY <1>1
                <5>2. ds[p][i].kind \in st
                    OBVIOUS
                <5> QED
                    BY <5>1, <5>2, Zenon
            <4> QED
                BY <4>1, <4>2
        <3>2. Match(p, i, p) \in {Match(p, j, p) :
                  j \in {k \in oaths[p].alone : oaths[p].doc[k].kind \in oaths[p].steps}}
            BY <3>1
        <3> QED
            BY <3>2 DEF Matches
    <2> QED
        BY <2>1 DEF MatchesOf
<1>3. CASE i \notin StandAlone(ds, S, p)
    <2>1. PICK k \in S : k[1] = p /\ i \in SectionCandidates(ds[p], k[2])
        BY <1>3 DEF StandAlone
    <2>2. Section(ds, k).found = "section"
        BY <2>1 DEF SoundReferences
    <2>3. <<i, ds[p][i]>> \in Section(ds, k).blocks
        BY <2>1, <2>2 DEF Section
    <2>4. Called(ds, k)
        BY <2>1, EverySectionIsCalled
    <2>a. PICK h \in DOMAIN ds : \E n \in Nat : \E c : IsCall(ds, S, h, c, n) /\ c[n] = k
        BY <2>4 DEF Called
    <2>b. PICK n \in Nat : \E c : IsCall(ds, S, h, c, n) /\ c[n] = k
        BY <2>a
    <2>5. PICK c : IsCall(ds, S, h, c, n) /\ c[n] = k
        BY <2>b
    <2>6. Last(c) = k /\ Label(h, c) = p
        BY <2>1, <2>5, CallIsLabelled
    <2>7. c \in Calls(ds, S, h)
        BY <2>5, CallsAre
    <2>8. k \in Visited(ds, S, h)
        BY <2>1, <2>6, <2>7 DEF Visited
    <2>9. c \in oaths[h].calls /\ oaths[h].sections[k] = Section(ds, k) /\ oaths[h].steps = st
        BY <1>1, <2>7, <2>8
    <2>10. Match(p, i, p) \in Matches(h, oaths[h])
        <3> DEFINE b == <<i, ds[p][i]>>
                   shown == {Match(Label(h, c), d[1], Last(c)[1]) :
                                d \in {x \in oaths[h].sections[Last(c)].blocks :
                                          x[2].kind \in oaths[h].steps \ {"rows"}}}
        <3>1. b \in oaths[h].sections[Last(c)].blocks /\ b[2].kind \in oaths[h].steps \ {"rows"}
            BY <2>3, <2>6, <2>9
        <3>2. Match(Label(h, c), b[1], Last(c)[1]) = Match(p, i, p)
            BY <2>1, <2>6
        <3>3. Match(p, i, p) \in shown
            <4> HIDE DEF b
            <4>1. Match(Label(h, c), b[1], Last(c)[1]) \in shown
                BY <3>1
            <4> QED
                BY <3>2, <4>1
        <3> QED
            BY <2>9, <3>3 DEF Matches
    <2> QED
        BY <2>10 DEF MatchesOf
<1> QED
    BY <1>2, <1>3

\* The matches of an index are those of its plans.
MatchesInv ==
    /\ IInv /\ Docs(docs) /\ Docs(indexed.docs)
    /\ DOMAIN index.oaths = DOMAIN indexed.docs
    /\ index.matches = MatchesOf(index.oaths)

LEMMA MatchesStay == Spec => []MatchesInv
<1>1. Init => MatchesInv
    <2> SUFFICES ASSUME Init PROVE MatchesInv
        OBVIOUS
    <2>1. IInv /\ Docs(docs)
        BY DEF Init, IInv, CacheOK, StaleIsImpossible, Docs
    <2>2. index.oaths = << >> /\ index.matches = {} /\ indexed.docs = << >>
        BY DEF Init, NothingIndexed
    <2>3. MatchesOf(<< >>) = {}
        BY DEF MatchesOf
    <2> QED
        BY <2>1, <2>2, <2>3 DEF MatchesInv, Docs
<1>2. MatchesInv /\ [Next]_vars => MatchesInv'
    <2> SUFFICES ASSUME MatchesInv, [Next]_vars PROVE MatchesInv'
        OBVIOUS
    <2>1. IInv'
        BY StepInv DEF MatchesInv
    <2>2. CASE Reindex
        <3>1. /\ index'.oaths = OathsOf(docs, steps)
              /\ index'.matches = MatchesOf(OathsOf(docs, steps))
              /\ indexed'.docs = docs /\ docs' = docs
            BY <2>2 DEF Reindex
        <3>2. DOMAIN OathsOf(docs, steps) = DOMAIN docs
            BY DEF OathsOf
        <3> QED
            BY <2>1, <3>1, <3>2 DEF MatchesInv, Docs
    <2>3. CASE UNCHANGED <<index, indexed>> /\ Docs(docs')
        BY <2>1, <2>3 DEF MatchesInv, Docs
    <2>4. ASSUME NEW p \in Paths, RemoveOath(p) \/ \E o \in Outlines[p] : EditOath(p, o)
          PROVE  UNCHANGED <<index, indexed>> /\ Docs(docs')
        BY <2>4 DEF RemoveOath, EditOath, MatchesInv, Docs
    <2>5. ASSUME NEW st \in StepSources, EditSteps(st)
          PROVE  UNCHANGED <<index, indexed>> /\ Docs(docs')
        BY <2>5 DEF EditSteps, MatchesInv, Docs
    <2>6. CASE UNCHANGED vars
        BY <2>3, <2>6 DEF vars, MatchesInv, Docs
    <2> QED
        BY <2>2, <2>3, <2>4, <2>5, <2>6 DEF Next
<1> QED
    BY <1>1, <1>2, PTL DEF Spec

\* However a paragraph's section is consumed, through any chain of oaths, the editor shows
\* its steps where they were written (index-workspace.ts, addMatches and tagWithDoc): in any
\* project whose references are sound.
THEOREM ConsumedStepsHighlighted == Spec => []EveryStepHighlighted
<1>1. MatchesInv => EveryStepHighlighted
    <2> SUFFICES ASSUME MatchesInv, SoundReferences(indexed.docs),
                        NEW p \in DOMAIN indexed.docs, NEW i \in Candidates(indexed.docs[p]),
                        indexed.docs[p][i].kind \in indexed.steps \ {"rows"}
                 PROVE  Match(p, i, p) \in index.matches
        BY DEF EveryStepHighlighted
    <2>1. \A q \in DOMAIN indexed.docs :
              index.oaths[q] = FreshPlan(indexed.docs, indexed.steps, q)
        BY DEF MatchesInv, IInv, StaleIsImpossible
    <2> QED
        BY <2>1, FreshMatches DEF MatchesInv
<1> QED
    BY <1>1, MatchesStay, PTL
================================================================================
