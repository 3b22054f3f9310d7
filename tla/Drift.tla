--------------------------------- MODULE Drift ---------------------------------
(***************************************************************************)
(* The drift algorithm of core/src/drift.ts.  A document is the sequence of *)
(* the names of its paragraphs, a name the sequence of its words, and the   *)
(* line of a paragraph its position.  A paragraph is live when a step       *)
(* definition matches it, which its name alone decides.                     *)
(***************************************************************************)
EXTENDS Integers, Sequences, FiniteSets, SequencesExt

\* A baseline is a set of [name, line].
Live(text, matching) == {i \in DOMAIN text : text[i] \in matching}

\* deriveOathBaseline: what a clean run records.
LiveExamples(text, live) == {[name |-> text[i], line |-> i] : i \in live}

\* The overlap of two token sets as a fraction, 1 for two empty sets.
Similarity(a, b) ==
    IF a \cup b = {} THEN <<1, 1>>
    ELSE <<Cardinality(a \cap b), Cardinality(a \cup b)>>

Exceeds(s, t) == s[1] * t[2] > t[1] * s[2]
Threshold == <<1, 2>>

Score(b, name) == Similarity(ToSet(b.name), ToSet(name))
Gap(b, i) == IF i > b.line THEN i - b.line ELSE b.line - i

Recognisable(b, text) ==
    {i \in DOMAIN text : ~Exceeds(Threshold, Score(b, text[i]))}

\* Mutant: the paragraph nearest the recorded line, whatever its score.
BeatsWhenNearer(b, text, i, j) == Gap(b, i) < Gap(b, j)

\* Mutant: the first paragraph that is similar enough.
BeatsWhenEarlier(b, text, i, j) == i < j

\* Paragraph i replaces paragraph j as the best match of b.
Beats(b, text, i, j) ==
    \/ Exceeds(Score(b, text[i]), Score(b, text[j]))
    \/ /\ ~Exceeds(Score(b, text[j]), Score(b, text[i]))
       /\ Gap(b, i) < Gap(b, j)

\* What the loop over the candidates ends with: nobody beats it, and it comes
\* before whoever it ties with.
Best(b, text) ==
    {i \in Recognisable(b, text) :
        \A j \in Recognisable(b, text) \ {i} :
            \/ Beats(b, text, i, j)
            \/ ~Beats(b, text, j, i) /\ i < j}

\* detectDrift: the baseline examples whose paragraph is no longer one.
Drifts(baseline, text, live) ==
    {b \in baseline : \E i \in Best(b, text) : i \notin live}
================================================================================
