------------------------------ MODULE Flattening ------------------------------
(***************************************************************************)
(* What a plan owes to the outlines alone, by the words of ADR 0016: the    *)
(* depth-first, document-order flattening of the references of an oath.     *)
(***************************************************************************)
EXTENDS Planner

Sections(d) == UNION {References(d[p]) : p \in Paths}

\* Places I of document p, the sections K being resolved.
Work(d) == UNION {{p} \X (SUBSET DOMAIN d[p]) \X (SUBSET Sections(d)) : p \in Paths}

\* A reference whose section is read.
Resolves(d, b, K) ==
    /\ IsLink(b) /\ KeyOf(b) \notin K /\ b.path \in Paths
    /\ b.slug = WholeFile \/ Cardinality(Named(d[b.path], b.slug)) <= 1

SectionOf(d, b, K) == <<b.path, SectionCandidates(d[b.path], b.slug), K \cup {KeyOf(b)}>>

\* The first of the places, or the section that it refers to, and then the others.
Flatten(d) ==
    LET flat[w \in Work(d)] ==
            IF w[2] = {} THEN << >>
            ELSE LET i == First(w[2])
                     b == d[w[1]][i]
                 IN  (IF Matched(b) THEN <<<<w[1], i>>>>
                      ELSE IF Resolves(d, b, w[3]) THEN flat[SectionOf(d, b, w[3])]
                      ELSE << >>)
                     \o flat[<<w[1], Rest(w[2]), w[3]>>]
    IN  flat

Flat(p, I, K) == Flatten(docs)[<<p, I, K>>]

\* Steps, as the places they were written at.
PlacesOf(ss) == [j \in DOMAIN ss |-> <<ss[j].doc, ss[j].at>>]

\* A candidate no reference of the project has in its section.
Standalone(p, i) ==
    ~\E k \in Referenced : k[1] = p /\ i \in SectionCandidates(docs[p], k[2])

\* ADR 0016: "The steps of an example are the depth-first, document-order
\* flattening of its reference graph", and a section that is referenced "runs only
\* where it is referenced".
DepthFirst ==
    \A p \in Planned :
        PlacesOf(StepsUnder(ExamplesOf(p), WholeFile)) =
            Flat(p, {i \in Candidates(docs[p]) : Standalone(p, i)}, {})

\* handlers.ts:446, "Hover on a reference block shows the steps it splices in, resolved
\* through any nested references": those and no others, in their order, although the
\* document of the section is planned as if it were a test of its own.
HoverShowsTheSplice ==
    (shown # None /\ diagnostics = {} /\ Acyclic) =>
        \A k \in hover : \A ss \in shown :
            PlacesOf(ss) = Flat(k[1], SectionCandidates(docs[k[1]], k[2]), {k})
================================================================================
