------------------------------- MODULE IndexCache -------------------------------
(***************************************************************************)
(* buildWorkspaceIndex (language/src/index-workspace.ts) with the cache it  *)
(* keeps across reindexes, and the workspace that the vitest plugin inlines *)
(* (vitest/src/workspace.ts, runtimeWorkspace of runtime.ts).               *)
(*                                                                         *)
(* A plan is what plan() makes it from: its document, the step definitions, *)
(* the candidates that stand alone, the calls of resolveReference and the   *)
(* sections that they find.  A key made of hashes is what was hashed.       *)
(***************************************************************************)
EXTENDS Outline, SequencesExt

CONSTANTS
    Paths,        \* the paths config.docs may find
    Outlines,     \* the blocks each of them may have
    StepSources,  \* the kinds of paragraph that the step files may match
    MaxEdits      \* bound: edits of a session

ASSUME BoundAssumption == MaxEdits \in Nat

\* An oath is a sequence of blocks.
ASSUME OathsAssumption ==
    /\ IsFiniteSet(Paths)
    /\ \A p \in Paths : \A o \in Outlines[p] : Len(o) \in Nat /\ DOMAIN o = 1 .. Len(o)

VARIABLES
    docs,         \* the oath files there are
    steps,        \* the step files
    edits,        \* edits so far
    plans,        \* cache.plans: keys, each with the plan made under it
    index,        \* the last index: its oaths and its matches
    indexed       \* the files it was built from (history)

vars == <<docs, steps, edits, plans, index, indexed>>

--------------------------------------------------------------------------------
\* buildWorkspace: the sections that the documents ds refer to.
Referenced(ds) == UNION {References(ds[p]) : p \in DOMAIN ds}

\* The candidates of p that none of the sections refs takes.
StandAlone(ds, refs, p) ==
    {i \in Candidates(ds[p]) :
        \A k \in refs : k[1] = p => i \notin SectionCandidates(ds[p], k[2])}

\* What resolveReference finds at k.
Section(ds, k) ==
    IF k[1] \notin DOMAIN ds THEN [found |-> "nothing", blocks |-> {}]
    ELSE IF k[2] # WholeFile /\ Cardinality(Named(ds[k[1]], k[2])) > 1
    THEN [found |-> "ambiguous", blocks |-> {}]
    ELSE [found |-> "section",
          blocks |-> {<<i, ds[k[1]][i]>> : i \in SectionCandidates(ds[k[1]], k[2])}]

LinksOf(blocks) == {KeyOf(b[2]) : b \in {c \in blocks : c[2].kind = "link"}}

\* The sections that refer to sections.
Nested(ds) ==
    {e \in Referenced(ds) \X Referenced(ds) : e[2] \in LinksOf(Section(ds, e[1]).blocks)}

\* The calls of resolveReference while p is planned, each as its chain of keys.
Calls(ds, refs, p) ==
    LET S == Referenced(ds)
        own == LinksOf({<<i, ds[p][i]>> : i \in StandAlone(ds, refs, p)})
        nested == Nested(ds)
    IN {c \in UNION {[1 .. n -> S] : n \in 1 .. Cardinality(S)} :
           /\ IsInjective(c)
           /\ c[1] \in own
           /\ \A j \in 1 .. Len(c) - 1 : <<c[j], c[j + 1]>> \in nested}

\* The sections that they read.
Visited(ds, refs, p) ==
    {k \in Referenced(ds) : \E c \in Calls(ds, refs, p) : Last(c) = k}

\* plan(), in a project whose consumed sections are refs.
Plan(ds, refs, st, p) ==
    [doc |-> ds[p], steps |-> st, alone |-> StandAlone(ds, refs, p),
     calls |-> Calls(ds, refs, p),
     sections |-> [k \in Visited(ds, refs, p) |-> Section(ds, k)]]

FreshPlan(ds, st, p) == Plan(ds, Referenced(ds), st, p)

--------------------------------------------------------------------------------
ReferencedPaths(ds) == {k[1] : k \in Referenced(ds)}

\* Mutant: the topology alone.
TopologyKey(ds) == [referenced |-> Referenced(ds), docs |-> {}]

\* workspaceKey.
WorkspaceKey(ds) ==
    [referenced |-> Referenced(ds),
     docs |-> {<<q, ds[q]>> : q \in ReferencedPaths(ds) \cap DOMAIN ds}]

\* planKey: docKey, registryKey and workspaceKey.
PlanKey(ds, st, p) ==
    [path |-> p, doc |-> ds[p], steps |-> st, workspace |-> WorkspaceKey(ds)]

\* The plan that is cached under the key of p, or a new one.
PlanOf(ds, st, p) ==
    LET hits == {c \in plans : c.key = PlanKey(ds, st, p)} IN
    IF hits = {} THEN FreshPlan(ds, st, p) ELSE (CHOOSE c \in hits : TRUE).plan

\* `oaths`.
OathsOf(ds, st) == [p \in DOMAIN ds |-> PlanOf(ds, st, p)]

--------------------------------------------------------------------------------
\* Mutant: a spliced step is labelled with the oath that runs it.
LabelledByHost(p, c) == p

\* step.docPath ?? file.path: tagWithDoc leaves out the document of a section that is
\* referred to from within it.
Label(p, c) ==
    LET from == IF Len(c) = 1 THEN p ELSE c[Len(c) - 1][1] IN
    IF Last(c)[1] = from THEN p ELSE Last(c)[1]

\* Where the editor shows the matches of a plan: a path, and the place of the block.
\* `origin` is the document the step was written in.
Match(path, i, origin) == [path |-> path, at |-> i, origin |-> origin]

Matches(p, pl) ==
    {Match(p, i, p) : i \in {j \in pl.alone : pl.doc[j].kind \in pl.steps}}
    \cup UNION {{Match(Label(p, c), b[1], Last(c)[1]) :
                   b \in {d \in pl.sections[Last(c)].blocks :
                             d[2].kind \in pl.steps \ {"rows"}}} :
                c \in pl.calls}

\* What addMatches keeps of the matches of every plan.
MatchesOf(oaths) == UNION {Matches(p, oaths[p]) : p \in DOMAIN oaths}

--------------------------------------------------------------------------------
\* Mutant: the documents that the oath itself refers to.
DirectSources(ds, p) ==
    {q \in DOMAIN ds : q # p /\ \E k \in References(ds[p]) : k[1] = q}

\* referencedSources.
RefersTo(ds, p, q) == \E k \in References(ds[p]) : k[1] = q

ReferencedSources(ds, p) ==
    {q \in DOMAIN ds \ {p} :
        \E n \in 2 .. Cardinality(DOMAIN ds) : \E r \in [1 .. n -> DOMAIN ds] :
            r[1] = p /\ r[n] = q /\ \A j \in 1 .. n - 1 : RefersTo(ds, r[j], r[j + 1])}

\* runtimeWorkspace, and the plan made with it: the calls are those of its documents,
\* the consumed sections those of the project (referencedKeys).
RuntimeDocs(ds, p) ==
    LET inlined == {p} \cup ReferencedSources(ds, p) IN
    IF Referenced(ds) = {} THEN [q \in {p} |-> ds[q]] ELSE [q \in inlined |-> ds[q]]

RuntimePlan(ds, st, p) == Plan(RuntimeDocs(ds, p), Referenced(ds), st, p)

--------------------------------------------------------------------------------
NothingIndexed == [docs |-> << >>, steps |-> {}]

Init ==
    /\ docs \in UNION {[P -> UNION {Outlines[p] : p \in P}] : P \in SUBSET Paths}
    /\ \A p \in DOMAIN docs : docs[p] \in Outlines[p]
    /\ steps \in StepSources
    /\ edits = 0
    /\ plans = {}
    /\ index = [oaths |-> << >>, matches |-> {}]
    /\ indexed = NothingIndexed

\* An oath is created, written or removed; the step files are written.
EditOath(p, o) ==
    /\ edits < MaxEdits /\ o \in Outlines[p]
    /\ docs' = [q \in DOMAIN docs \cup {p} |-> IF q = p THEN o ELSE docs[q]]
    /\ edits' = edits + 1
    /\ UNCHANGED <<steps, plans, index, indexed>>

RemoveOath(p) ==
    /\ edits < MaxEdits /\ p \in DOMAIN docs
    /\ docs' = [q \in DOMAIN docs \ {p} |-> docs[q]]
    /\ edits' = edits + 1
    /\ UNCHANGED <<steps, plans, index, indexed>>

EditSteps(st) ==
    /\ edits < MaxEdits
    /\ steps' = st
    /\ edits' = edits + 1
    /\ UNCHANGED <<docs, plans, index, indexed>>

\* buildWorkspaceIndex.
Reindex ==
    LET oaths == OathsOf(docs, steps) IN
    /\ indexed # [docs |-> docs, steps |-> steps]
    /\ index' = [oaths |-> oaths, matches |-> MatchesOf(oaths)]
    /\ plans' = plans \cup {[key |-> PlanKey(docs, steps, p), plan |-> oaths[p]] :
                               p \in DOMAIN docs}
    /\ indexed' = [docs |-> docs, steps |-> steps]
    /\ UNCHANGED <<docs, steps, edits>>

Next ==
    \/ \E p \in Paths : RemoveOath(p) \/ \E o \in Outlines[p] : EditOath(p, o)
    \/ \E st \in StepSources : EditSteps(st)
    \/ Reindex

Spec == Init /\ [][Next]_vars

--------------------------------------------------------------------------------
\* Every variable holds what its declaration says; an index has the oaths there were.
TypeOK ==
    /\ DOMAIN docs \subseteq Paths /\ \A p \in DOMAIN docs : docs[p] \in Outlines[p]
    /\ steps \in StepSources
    /\ edits \in 0 .. MaxEdits
    /\ \A c, d \in plans : c.key = d.key => c = d
    /\ DOMAIN index.oaths = DOMAIN indexed.docs

\* index-workspace.ts:20-21, "a stale entry is impossible": whatever was edited since a
\* plan was cached, a reindex uses the plan that its files would be given afresh.
StaleIsImpossible ==
    \A p \in DOMAIN index.oaths :
        index.oaths[p] = FreshPlan(indexed.docs, indexed.steps, p)

\* plugin.ts:124-126: the plan that the worker makes, of the sources inlined for it, is
\* the one that was made at build time with the whole project at hand.
RuntimePlansAlike ==
    \A p \in DOMAIN docs : RuntimePlan(docs, steps, p) = FreshPlan(docs, steps, p)

\* Every reference finds its section, none is within itself, and none is written in
\* the document it refers to.
Within(ds, k) == LinksOf(Section(ds, k).blocks)
SoundReferences(ds) ==
    /\ \A k \in Referenced(ds) : Section(ds, k).found = "section"
    /\ \A K \in SUBSET Referenced(ds) :
          (\A k \in K : \E j \in K : j \in Within(ds, k)) => K = {}
    /\ \A p \in DOMAIN ds : \A k \in References(ds[p]) : k[1] # p

\* Consumed or not, and however often, every matching paragraph of a project with
\* sound references is highlighted where it was written.
EveryStepHighlighted ==
    SoundReferences(indexed.docs) =>
        \A p \in DOMAIN indexed.docs : \A i \in Candidates(indexed.docs[p]) :
            indexed.docs[p][i].kind \in indexed.steps \ {"rows"} =>
                Match(p, i, p) \in index.matches
================================================================================
