-------------------------------- MODULE Candidate --------------------------------
(***************************************************************************)
(* planCandidate (core/src/plan.ts): what one paragraph, with the tables    *)
(* and fences that follow it, becomes; and resolveHits (core/src/matcher.ts)*)
(* which picks the steps of a sentence among the matches of all expressions.*)
(*                                                                         *)
(* A paragraph is its sentences, each with its offset and the places where  *)
(* expressions match it, and the words it has.  structure() puts no second  *)
(* paragraph into a candidate.                                              *)
(***************************************************************************)
EXTENDS Integers, SequencesExt

CONSTANT Bodies   \* the candidates that an oath may have

VARIABLES
    body,         \* the candidate
    sentence,     \* the sentence at hand
    left,         \* the matches of it that the loop of resolveHits has not come to
    reached,      \* `cursor`: where the last of the kept ones ends
    kept,         \* `steps` of resolveHits
    steps,        \* `allSteps`
    ambiguities,  \* `allAmbiguities`
    unit,         \* what the candidate is planned as, if it is
    diagnostics   \* the codes of the diagnostics of its plan

sentenceVars == <<sentence, left, reached, kept>>
vars == <<body, sentenceVars, steps, ambiguities, unit, diagnostics>>

Unplanned == [kind |-> "unplanned"]

--------------------------------------------------------------------------------
\* A match: an expression, and the characters it takes.
Hit(expression, from, to) == [expression |-> expression, from |-> from, to |-> to]

\* Mutant: the first match wins, however short.
LeftmostShortest(g, h) == g.from < h.from \/ (g.from = h.from /\ g.to < h.to)

\* The order of resolveHits.
LeftmostLongest(g, h) == g.from < h.from \/ (g.from = h.from /\ g.to > h.to)

\* Expressions that take the same characters.
Collisions(hits) ==
    {T \in {{g \in hits : g.from = h.from /\ g.to = h.to} : h \in hits} :
        \E g, h \in T : g # h}

\* `adjusted`: matches have their place in the paragraph.
Adjusted(s) == {Hit(h.expression, h.from + s.start, h.to + s.start) : h \in s.hits}

HitsOf(k) == IF k \in DOMAIN body.sentences THEN Adjusted(body.sentences[k]) ELSE {}

Unread ==
    /\ sentence = 1 /\ left = HitsOf(1) /\ reached = -1 /\ kept = << >>
    /\ steps = << >> /\ ambiguities = {}
    /\ unit = Unplanned /\ diagnostics = {}

Init == body \in Bodies /\ Unread

Ambiguous == Collisions(HitsOf(sentence)) # {}

\* `sorted`: the loop comes to the least of those that are left.
Comes(h) == h \in left /\ \A g \in left : g = h \/ LeftmostLongest(h, g)

Keep(h) ==
    /\ ~Ambiguous /\ Comes(h) /\ h.from >= reached
    /\ kept' = Append(kept, h) /\ reached' = h.to
    /\ left' = left \ {h}
    /\ UNCHANGED <<body, sentence, steps, ambiguities, unit, diagnostics>>

PassOver(h) ==
    /\ ~Ambiguous /\ Comes(h) /\ h.from < reached
    /\ left' = left \ {h}
    /\ UNCHANGED <<body, sentence, reached, kept, steps, ambiguities, unit, diagnostics>>

NextSentence ==
    /\ sentence' = sentence + 1 /\ left' = HitsOf(sentence + 1)
    /\ reached' = -1 /\ kept' = << >>

SentenceResolved ==
    /\ sentence <= Len(body.sentences) /\ ~Ambiguous /\ left = {}
    /\ steps' = steps \o kept
    /\ NextSentence
    /\ UNCHANGED <<body, ambiguities, unit, diagnostics>>

SentenceAmbiguous ==
    /\ Ambiguous
    /\ ambiguities' = ambiguities \cup Collisions(HitsOf(sentence))
    /\ NextSentence
    /\ UNCHANGED <<body, steps, unit, diagnostics>>

--------------------------------------------------------------------------------
\* hadAmbiguous, and the steps that pass 1 keeps.
HadAmbiguous == ambiguities # {}
Steps == IF HadAmbiguous THEN << >> ELSE steps

--------------------------------------------------------------------------------
IsTable(b) == b.kind = "table"
IsErrorFence(b) == b.kind = "fence" /\ b.info = "error"

HasErrorFence == \E i \in DOMAIN body.rest : IsErrorFence(body.rest[i])

\* The block right below the paragraph.
Below == IF body.rest = << >> THEN {} ELSE {Head(body.rest)}

\* detectHeaderBound.
Bound == {b \in Below : IsTable(b) /\ Steps # << >> /\ b.cells \subseteq body.words}

\* A table, or a fence that is a doc string.
Attachment == {b \in Below : ~IsErrorFence(b)}

\* Pass 3: only the last one does.
Attached(s, i) ==
    [hit |-> s, attached |-> IF i = Len(Steps) THEN Attachment ELSE {}]

RowUnit(b) ==
    [kind |-> "rows", steps |-> <<[hit |-> Last(Steps), attached |-> {}]>>,
     rows |-> b.rows, fails |-> FALSE]

\* Mutant: what matched before the ambiguity runs.
StepUnitOfUnambiguous ==
    [kind |-> "steps", steps |-> [i \in DOMAIN steps |-> Attached(steps[i], i)],
     fails |-> HasErrorFence]

StepUnit ==
    [kind |-> "steps", steps |-> [i \in DOMAIN Steps |-> Attached(Steps[i], i)],
     fails |-> HasErrorFence]

Diagnoses ==
    (IF HadAmbiguous THEN {"ambiguous-match"} ELSE {})
    \cup (IF HasErrorFence /\ Steps = << >> THEN {"error-fence-without-step"} ELSE {})

Read == sentence > Len(body.sentences)

PlanRows(b) ==
    /\ Read /\ unit = Unplanned /\ b \in Bound
    /\ unit' = RowUnit(b)
    /\ UNCHANGED <<body, sentenceVars, steps, ambiguities, diagnostics>>

PlanSteps ==
    /\ Read /\ unit = Unplanned /\ Bound = {}
    /\ unit' = StepUnit
    /\ diagnostics' = Diagnoses
    /\ UNCHANGED <<body, sentenceVars, steps, ambiguities>>

Next ==
    \/ \E h \in left : Keep(h) \/ PassOver(h)
    \/ SentenceResolved \/ SentenceAmbiguous \/ PlanSteps
    \/ \E b \in Below : PlanRows(b)

Spec == Init /\ [][Next]_vars

--------------------------------------------------------------------------------
Planned == unit # Unplanned
AsSteps == Planned /\ unit.kind = "steps"
Overlap(g, h) == g.from < h.to /\ h.from < g.to

\* matcher.test.ts:40, "longest-leftmost when ranges overlap", read as a whole: the
\* steps of a sentence are disjoint and in order, and a match that the loop has come to and
\* that is not one of them gives way to a step that begins before it, or with it and goes
\* on for longer.
LongestLeftmostWins ==
    LET hits == HitsOf(sentence)
        chosen == {kept[i] : i \in DOMAIN kept}
    IN Collisions(hits) = {} =>
          /\ \A i, j \in DOMAIN kept : i < j => kept[i].to <= kept[j].from
          /\ \A h \in hits \ (chosen \cup left) : \E g \in chosen :
                Overlap(g, h) /\ (g.from < h.from \/ (g.from = h.from /\ g.to > h.to))

\* plan.test.ts:71, "an ambiguous-match diagnostic and produces no runnable example":
\* nothing of a paragraph runs in part; it all runs, or it says why not.
AllOrNothing ==
    AsSteps =>
        IF "ambiguous-match" \in diagnostics THEN unit.steps = << >>
        ELSE \A k \in DOMAIN body.sentences : \A h \in Adjusted(body.sentences[k]) :
                \E i \in DOMAIN unit.steps :
                    unit.steps[i].hit = h \/ Overlap(unit.steps[i].hit, h)
================================================================================
