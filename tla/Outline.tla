-------------------------------- MODULE Outline --------------------------------
(***************************************************************************)
(* What structure() (core/src/structurer.ts) makes of the blocks of an      *)
(* oath, and what core/src/reference.ts says of its sections.               *)
(*                                                                         *)
(* A block is a heading with its level and slug, a thematic break, or a     *)
(* paragraph with what planCandidate will make of it: "steps" (it matches), *)
(* "failing" (it matches and carries an `error` fence), "rows" (it binds a  *)
(* table), "ambiguous", "prose", or "link", a reference block.              *)
(***************************************************************************)
EXTENDS Integers, Sequences, FiniteSets

Heading(level, slug) == [kind |-> "heading", level |-> level, slug |-> slug]
Break == [kind |-> "break"]
Para(kind) == [kind |-> kind]
Link(path, slug) == [kind |-> "link", path |-> path, slug |-> slug]

\* The slug of a reference to a whole file.
WholeFile == ""

IsHeading(b) == b.kind = "heading"
IsCandidate(b) == b.kind \notin {"heading", "break"}

\* scopeStack: a heading is on it until the next one of its level or above.
Open(blocks, i) ==
    {h \in 1 .. i - 1 :
        /\ IsHeading(blocks[h])
        /\ \A k \in h + 1 .. i - 1 :
              IsHeading(blocks[k]) => blocks[k].level > blocks[h].level}

Scope(blocks, i) == {blocks[h].slug : h \in Open(blocks, i)}

\* delimiterPending, as the candidate at i finds it.
Delimited(blocks, i) == i > 1 => ~IsCandidate(blocks[i - 1])

\* doc.examples: the places of the candidates among the blocks.
Candidates(blocks) == {i \in DOMAIN blocks : IsCandidate(blocks[i])}

--------------------------------------------------------------------------------
\* Mutant: the section of a heading stops at the next heading.
SectionOfNearest(blocks, slug) ==
    {i \in Candidates(blocks) :
        \/ slug = WholeFile
        \/ \E h \in Open(blocks, i) :
              blocks[h].slug = slug /\ \A g \in Open(blocks, i) : g <= h}

\* sectionCandidates, sectionKey, and the `referenced` of buildWorkspace.
SectionCandidates(blocks, slug) ==
    {i \in Candidates(blocks) : slug = WholeFile \/ slug \in Scope(blocks, i)}

Key(path, slug) == <<path, slug>>

KeyOf(b) == Key(b.path, b.slug)

References(blocks) ==
    {KeyOf(blocks[i]) : i \in {j \in DOMAIN blocks : blocks[j].kind = "link"}}

\* The headings a reference may mean.
Named(blocks, slug) ==
    {i \in DOMAIN blocks : IsHeading(blocks[i]) /\ blocks[i].slug = slug}
================================================================================
