-------------------------------- MODULE Planner --------------------------------
(***************************************************************************)
(* plan() (core/src/plan.ts), run over every oath of a project: the loop    *)
(* over the candidates of the host, the example that is open, and           *)
(* resolveReference as a stack of frames.  A candidate is its place in its  *)
(* document.                                                                *)
(*                                                                         *)
(* The language server plans a document once more when a reference to it is *)
(* hovered on (lsp/src/handlers.ts), and shows what the reference splices   *)
(* in.  The two share no state: a behaviour is a project planned, or one    *)
(* reference of it hovered on.                                              *)
(***************************************************************************)
EXTENDS Outline, SequencesExt

CONSTANTS
    Paths,        \* the oaths of the project
    Outlines      \* the blocks each of them may have

ASSUME OathsAssumption ==
    /\ IsFiniteSet(Paths)
    /\ \A p \in Paths : \A o \in Outlines[p] :
          Len(o) \in Nat /\ DOMAIN o = 1 .. Len(o)

VARIABLES
    docs,         \* workspace.docs
    todo,         \* oaths still to plan
    host,         \* the oath being planned, if any
    units,        \* its candidates still to group
    frames,       \* the calls of resolveReference under way, outermost first
    open,         \* `open`: the example under construction, if any
    examples,     \* `examples`
    diagnostics,  \* `diagnostics`
    plans,        \* the finished plans
    hover,        \* the section hovered on, if any
    shown         \* the steps that the hover shows, once it does

hoverVars == <<hover, shown>>
hostVars == <<todo, host, plans, hoverVars>>
vars == <<docs, hostVars, units, frames, open, examples, diagnostics>>

None == {}
NoPlan == [examples |-> << >>, diagnostics |-> {}]

First(S) == CHOOSE i \in S : \A j \in S : i <= j
Rest(S) == S \ {First(S)}

Init ==
    /\ docs \in [Paths -> UNION {Outlines[p] : p \in Paths}]
    /\ \A p \in Paths : docs[p] \in Outlines[p]
    /\ todo = Paths
    /\ host = None
    /\ units = {}
    /\ frames = << >>
    /\ open = None
    /\ examples = << >>
    /\ diagnostics = {}
    /\ plans = [p \in Paths |-> NoPlan]
    /\ hover = None /\ shown = None

Referenced == UNION {References(docs[p]) : p \in Paths}

\* Mutant: only the heading right above a candidate can be consumed.
ConsumedByNearest(p, i) ==
    \/ Key(p, WholeFile) \in Referenced
    \/ \E h \in Open(docs[p], i) :
          /\ \A g \in Open(docs[p], i) : g <= h
          /\ Key(p, docs[p][h].slug) \in Referenced

Consumed(p, i) ==
    \E s \in Scope(docs[p], i) \cup {WholeFile} : Key(p, s) \in Referenced

--------------------------------------------------------------------------------
\* planCandidate.
Diagnosis(code, p, i) == [code |-> code, doc |-> p, at |-> i]

OwnDiagnoses(p, i) ==
    IF docs[p][i].kind = "ambiguous" THEN {Diagnosis("ambiguous", p, i)} ELSE {}

Matched(b) == b.kind \in {"steps", "failing"}
IsLink(b) == b.kind = "link"

\* The unit of a matching candidate: its step, and where it was written.
Unit(p, i) ==
    [name |-> <<p, i>>, scope |-> Scope(docs[p], i), from |-> i, to |-> i,
     steps |-> <<[doc |-> p, at |-> i, docPath |-> None]>>,
     fails |-> docs[p][i].kind = "failing"]

StartPlan(p) ==
    /\ host = None /\ hover = None /\ p \in todo
    /\ host' = {p}
    /\ todo' = todo \ {p}
    /\ units' = {i \in Candidates(docs[p]) : ~Consumed(p, i)}
    /\ diagnostics' = UNION {OwnDiagnoses(p, i) : i \in units'}
    /\ UNCHANGED <<docs, plans, hoverVars, frames, open, examples>>

--------------------------------------------------------------------------------
\* The example that is open, once closed.
Flushed == IF open = None THEN examples ELSE Append(examples, CHOOSE e \in open : TRUE)

\* startMerged and mergeInto; `borrowed` is nameFromReference.
Started(u) ==
    [name |-> u.name, scope |-> u.scope, from |-> u.from, to |-> u.to,
     steps |-> u.steps, fails |-> u.fails, borrowed |-> FALSE]

Merged(e, u, fromReference) ==
    [e EXCEPT !.name = IF e.borrowed /\ ~fromReference THEN u.name ELSE @,
              !.scope = IF e.borrowed /\ ~fromReference THEN u.scope ELSE @,
              !.borrowed = @ /\ fromReference,
              !.to = u.to,
              !.steps = @ \o u.steps,
              !.fails = @ \/ u.fails]

\* The loop is at candidate i of p.
AtUnit(p, i) == host = {p} /\ frames = << >> /\ units # {} /\ i = First(units)
NextUnit == units' = Rest(units)

\* The unit at i opens an example, or the open one goes on with it.
OpenOrJoin(p, i, opened, joined) ==
    \/ /\ open # None /\ ~Delimited(docs[p], i)
       /\ open' = joined
       /\ UNCHANGED examples
    \/ /\ open = None \/ Delimited(docs[p], i)
       /\ examples' = Flushed
       /\ open' = {opened}

GroupSteps(p, i) ==
    /\ AtUnit(p, i) /\ Matched(docs[p][i])
    /\ OpenOrJoin(p, i, Started(Unit(p, i)),
                  {Merged(e, Unit(p, i), FALSE) : e \in open})
    /\ NextUnit
    /\ UNCHANGED <<docs, hostVars, frames, diagnostics>>

\* One example per row, told apart from others by having no step of the plan.
RowsOf(p, i) == [Started(Unit(p, i)) EXCEPT !.steps = << >>]

GroupRows(p, i) ==
    /\ AtUnit(p, i) /\ docs[p][i].kind = "rows"
    /\ examples' = Append(Flushed, RowsOf(p, i))
    /\ open' = None
    /\ NextUnit
    /\ UNCHANGED <<docs, hostVars, frames, diagnostics>>

GroupProse(p, i) ==
    /\ AtUnit(p, i) /\ docs[p][i].kind \in {"prose", "ambiguous"}
    /\ examples' = Flushed
    /\ open' = None
    /\ NextUnit
    /\ UNCHANGED <<docs, hostVars, frames, diagnostics>>

--------------------------------------------------------------------------------
\* resolveReference.
Deepest == frames[Len(frames)]
Chain == {frames[i].key : i \in DOMAIN frames}

\* Mutant: a reference is only checked against the one it is nested in.
RefusedByParent(b) ==
    IF frames # << >> /\ KeyOf(b) = Deepest.key THEN "cycle"
    ELSE IF b.path \notin Paths THEN "not found"
    ELSE IF b.slug # WholeFile /\ Cardinality(Named(docs[b.path], b.slug)) > 1
    THEN "ambiguous anchor"
    ELSE "nothing"

\* What is wrong with a reference, if anything, before its section is read.
Refused(b) ==
    IF KeyOf(b) \in Chain THEN "cycle"
    ELSE IF b.path \notin Paths THEN "not found"
    ELSE IF b.slug # WholeFile /\ Cardinality(Named(docs[b.path], b.slug)) > 1
    THEN "ambiguous anchor"
    ELSE "nothing"

\* The call for the reference at i of p.
Frame(p, i) ==
    LET b == docs[p][i] IN
    [key |-> KeyOf(b), path |-> b.path, from |-> p, at |-> i, out |-> << >>,
     left |-> SectionCandidates(docs[b.path], b.slug)]

\* A diagnostic, or a call on top of fs.
Resolve(p, i, fs) ==
    LET refused == Refused(docs[p][i]) IN
    \/ /\ refused # "nothing"
       /\ diagnostics' = diagnostics \cup {Diagnosis(refused, p, i)}
       /\ frames' = fs
    \/ /\ refused = "nothing"
       /\ frames' = Append(fs, Frame(p, i))
       /\ UNCHANGED diagnostics

\* The unit stays until what it splices in has joined.
LeaveIfRefused(b) == IF Refused(b) # "nothing" THEN NextUnit ELSE UNCHANGED units

GroupReference(p, i) ==
    /\ AtUnit(p, i) /\ IsLink(docs[p][i])
    /\ Resolve(p, i, << >>)
    /\ LeaveIfRefused(docs[p][i])
    /\ UNCHANGED <<docs, hostVars, open, examples>>

\* The innermost call, past its next candidate.
Past(f) == [f EXCEPT !.left = Rest(f.left)]
WithDeepest(f) == [frames EXCEPT ![Len(frames)] = f]

\* The loop over the section is at candidate i of p.
Left == IF frames = << >> THEN {} ELSE Deepest.left
InSection(p, i) == Left # {} /\ p = Deepest.path /\ i = First(Left)

\* tagWithDoc.
Tagged(path, from, u) ==
    IF path = from THEN u ELSE [u EXCEPT !.steps[1].docPath = {path}]

SpliceCandidate(p, i) ==
    /\ InSection(p, i) /\ ~IsLink(docs[p][i])
    /\ LET u == Tagged(p, Deepest.from, Unit(p, i)) IN
       frames' = WithDeepest(
          IF Matched(docs[p][i]) THEN [Past(Deepest) EXCEPT !.out = Append(@, u)]
          ELSE Past(Deepest))
    /\ diagnostics' = diagnostics \cup OwnDiagnoses(p, i)
    /\ UNCHANGED <<docs, hostVars, units, open, examples>>

SpliceReference(p, i) ==
    /\ InSection(p, i) /\ IsLink(docs[p][i])
    /\ Resolve(p, i, WithDeepest(Past(Deepest)))
    /\ UNCHANGED <<docs, hostVars, units, open, examples>>

Empty(f) ==
    IF f.out = << >> THEN {Diagnosis("empty", f.from, f.at)} ELSE {}

\* A nested call returns to its caller.
ReturnInner ==
    LET n == Len(frames) IN
    /\ n > 1 /\ frames[n].left = {}
    /\ frames' = [SubSeq(frames, 1, n - 1) EXCEPT ![n - 1].out = @ \o frames[n].out]
    /\ diagnostics' = diagnostics \cup Empty(frames[n])
    /\ UNCHANGED <<docs, hostVars, units, open, examples>>

\* All that a reference spliced in, as one unit: its parts are never separated.
Spliced(f) ==
    [f.out[1] EXCEPT !.steps = [j \in DOMAIN f.out |-> f.out[j].steps[1]],
                     !.to = f.out[Len(f.out)].to,
                     !.fails = \E j \in DOMAIN f.out : f.out[j].fails]

\* Mutant: an example ends where its last part was written.
EndsWhereWritten(e, i) == e

\* The spans of the example are those of its own document.
EndsAtReference(e, i) == [e EXCEPT !.to = i]

Borrowing(p, i, u) ==
    [Started(u) EXCEPT !.borrowed = TRUE, !.scope = Scope(docs[p], i), !.from = i]

\* The outermost call returns to the grouping loop.
ReturnOuter(p) ==
    LET f == frames[1]  i == First(units) IN
    /\ host = {p} /\ Len(frames) = 1 /\ f.left = {}
    /\ frames' = << >>
    /\ diagnostics' = diagnostics \cup Empty(f)
    /\ NextUnit
    /\ IF f.out = << >> THEN UNCHANGED <<open, examples>>
       ELSE OpenOrJoin(p, i,
                EndsAtReference(Borrowing(p, i, Spliced(f)), i),
                {EndsAtReference(Merged(e, Spliced(f), TRUE), i) : e \in open})
    /\ UNCHANGED <<docs, hostVars>>

FinishPlan(p) ==
    /\ host = {p} /\ frames = << >> /\ units = {} /\ hover = None
    /\ plans' = [plans EXCEPT ![p] = [examples |-> Flushed, diagnostics |-> diagnostics]]
    /\ host' = None /\ open' = None /\ examples' = << >> /\ diagnostics' = {}
    /\ UNCHANGED <<docs, todo, hoverVars, units, frames>>

--------------------------------------------------------------------------------
\* Mutant: the document is planned as the project plans it.
HoveredAsPlanned(p) == {i \in Candidates(docs[p]) : ~Consumed(p, i)}

\* sectionSteps plans as if nothing were referenced.
Hovered(p) == Candidates(docs[p])

\* The cursor is on the reference at i of p, and its section is one.
HoverReference(p, i) ==
    LET b == docs[p][i] IN
    /\ todo = Paths /\ host = None /\ hover = None
    /\ IsLink(b) /\ Refused(b) = "nothing"
    /\ hover' = {KeyOf(b)}
    /\ host' = {b.path}
    /\ units' = Hovered(b.path)
    /\ diagnostics' = UNION {OwnDiagnoses(b.path, j) : j \in units'}
    /\ UNCHANGED <<docs, todo, plans, shown, frames, open, examples>>

\* The steps of the examples that are in the section; rows have none.
StepsUnder(es, slug) ==
    FlattenSeq([n \in DOMAIN es |->
                   IF slug = WholeFile \/ slug \in es[n].scope THEN es[n].steps ELSE << >>])

FinishHover(k) ==
    /\ host = {k[1]} /\ frames = << >> /\ units = {}
    /\ shown' = {StepsUnder(Flushed, k[2])}
    /\ host' = None /\ open' = None /\ examples' = << >>
    /\ UNCHANGED <<docs, todo, plans, hover, units, frames, diagnostics>>

--------------------------------------------------------------------------------
Next ==
    \/ \E p \in Paths :
          \/ StartPlan(p) \/ ReturnOuter(p) \/ FinishPlan(p)
          \/ \E i \in units :
                GroupSteps(p, i) \/ GroupRows(p, i) \/ GroupProse(p, i) \/ GroupReference(p, i)
          \/ \E i \in Left : SpliceCandidate(p, i) \/ SpliceReference(p, i)
          \/ \E i \in DOMAIN docs[p] : HoverReference(p, i)
    \/ ReturnInner
    \/ \E k \in hover : FinishHover(k)

Spec == Init /\ [][Next]_vars

--------------------------------------------------------------------------------
\* Every variable holds what its declaration says.
TypeOK ==
    /\ DOMAIN docs = Paths /\ \A p \in Paths : docs[p] \in Outlines[p]
    /\ todo \subseteq Paths /\ host \subseteq Paths
    /\ hover = None => host \cap todo = {}
    /\ frames # << >> => host # None /\ units # {}
    /\ \A i \in DOMAIN frames : frames[i].path \in Paths
    /\ DOMAIN plans = Paths

\* The sections being resolved are distinct sections of the project, so that
\* resolution cannot nest deeper than there are sections: "reported as a cycle
\* instead of recursing forever" (plan.ts:192-193).
ChainsEnd ==
    /\ Cardinality(Chain) = Len(frames)
    /\ Chain \subseteq Referenced

Planned == {p \in Paths : p \notin todo /\ host # {p}}
Done == Planned = Paths
ExamplesOf(p) == plans[p].examples
Sharing(b) == IsCandidate(b) /\ (IsLink(b) \/ Matched(b))

\* The references of p that something is reported about, as one that cannot be resolved.
Dangling(ds, p) == {x.at : x \in {y \in ds : y.doc = p /\ IsLink(docs[p][y.at])}}

Together(p, j, k) == \A n \in j .. k : Sharing(docs[p][n])

LongestRun(p, from, to, dangling) ==
    /\ from <= to
    /\ \A k \in from .. to :
          Sharing(docs[p][k]) \/ \E j \in k + 1 .. to : j \in dangling
    /\ \A k \in 1 .. from - 1 : Together(p, k, from) => k \in dangling
    /\ \A k \in to + 1 .. Len(docs[p]) : Together(p, to, k) => k \in dangling

NamedByItsOwn(p, e) ==
    LET own == {k \in e.from .. e.to : Matched(docs[p][k]) /\ ~Consumed(p, k)} IN
    own # {} => \E k \in own : e.name = <<p, k>> /\ \A j \in own : k <= j

\* "An example runs from one delimiter to the next" (ADR 0012:37): one that is not a row
\* is a longest run of matching paragraphs and references in its own document.  Nothing
\* is left out at its ends but references that are reported, and only before one of these
\* does a delimiter stand within it: the grouping passes over it with the heading before
\* it (plan.ts:142).  "An example that opens with one is named by its own first
\* step-bearing paragraph, not by the section it pulls in", and it sits under the headings
\* of one it runs through.
\*
\* A delimiter after a reference ends the example, as plan.ts:136-140 says.  ADR
\* 0016:95-97 says the opposite of a paragraph after one: that it "continues the same
\* example regardless of precededByDelimiter".
ExamplesRunOn ==
    \A p \in Planned : \A i \in DOMAIN ExamplesOf(p) :
        LET e == ExamplesOf(p)[i] IN
        e.steps # << >> =>
            /\ LongestRun(p, e.from, e.to, Dangling(plans[p].diagnostics, p))
            /\ NamedByItsOwn(p, e)
            /\ \E k \in e.from .. e.to : e.scope = Scope(docs[p], k)

\* The sections reached from a section by references, in one step.
Within(k) ==
    {KeyOf(docs[k[1]][i]) :
        i \in {j \in SectionCandidates(docs[k[1]], k[2]) : IsLink(docs[k[1]][j])}}
Resolvable == {k \in Referenced : k[1] \in Paths}

\* No set of sections is closed under being reached from within itself.
Acyclic ==
    \A K \in SUBSET Resolvable :
        (\A k \in K : \E j \in K : j \in Within(k)) => K = {}

RunsSomewhere(p, k) ==
    \E q \in Paths : \E i \in DOMAIN ExamplesOf(q) :
        LET e == ExamplesOf(q)[i] IN
        \E j \in DOMAIN e.steps : e.steps[j].doc = p /\ e.steps[j].at = k

\* A section that stops being an example of its own runs where it is referenced:
\* no matching paragraph of the project is left out unless something is said.
NothingLost ==
    (Done /\ (\A p \in Paths : plans[p].diagnostics = {}) /\ Acyclic) =>
        \A p \in Paths : \A k \in DOMAIN docs[p] :
            docs[p][k].kind \in {"steps", "failing"} => RunsSomewhere(p, k)
================================================================================
