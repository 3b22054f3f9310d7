------------------------------- MODULE Text_proofs -------------------------------
(***************************************************************************)
(* Of the reading of oaths and of renames, for all inputs.                  *)
(*                                                                         *)
(* A scanned oath has every line of text in exactly one block, whatever its *)
(* length: the blocks that were read end before the one that is being read, *)
(* which ends at the line before the next; and what is behind is in them.   *)
(*                                                                         *)
(* The steps of a candidate are its leftmost and longest matches, and run   *)
(* all or not at all: the loop comes to the matches in their order, and what*)
(* it passes over overlaps the last of those that it has kept.              *)
(*                                                                         *)
(* A text is cut outside of its code spans and quoted strings: these lie    *)
(* ahead of the marking, and behind it they are what is marked, or come     *)
(* after a delimiter that nothing closes.                                   *)
(*                                                                         *)
(* A rename leaves the sentences of the definition matching, if what it is  *)
(* renamed to matches itself written out, and its handler fitting: until    *)
(* the edits are applied, every such sentence is either one of the sites    *)
(* that are left or one of those that were edited.                          *)
(***************************************************************************)
EXTENDS MCText, FiniteSetTheorems, SequenceTheorems, TLAPS

BlockKinds ==
    {"none", "thematic", "heading", "item", "fence", "table", "quote", "paragraph"}

Reading == open # None
Behind == IF Reading THEN open.from ELSE i

Typed ==
    /\ lines \in Seq(Line)
    /\ i \in 1 .. Len(lines) + 1
    /\ open \in [kind : BlockKinds, from : Nat, to : Nat]
    /\ blocks \subseteq [kind : BlockKinds, from : Nat, to : Nat]

\* Where blocks are.
InPlace ==
    /\ Reading => 1 <= open.from /\ open.from <= open.to /\ open.to = i - 1
    /\ \A b \in blocks : 1 <= b.from /\ b.from <= b.to /\ b.to < Behind

\* No two of them meet.
Apart == \A b, c \in blocks : b = c \/ b.to < c.from \/ c.to < b.from

\* What is behind is in one of them.
Covered ==
    \A k \in 1 .. i - 1 : lines[k].kind # "blank" =>
        (Reading /\ Has(open, k)) \/ \E b \in blocks : Has(b, k)

ScanInv == Typed /\ InPlace /\ Apart /\ Covered

\* The block that an inner loop starts, from the next line on.
LEMMA StartKeeps ==
    ASSUME ScanInv, open = None, NEW kind \in BlockKinds, kind # "none",
           NEW to \in i .. Len(lines), Start(kind, to)
    PROVE  ScanInv'
<1> USE DEF Has, Reading, Behind, Block, None
<1>0. lines' = lines /\ blocks' = blocks /\ i' = to + 1 /\ open' = Block(kind, i, to)
    BY DEF Start
<1>1. Typed' /\ i \in Nat /\ to \in Nat /\ to >= i
    BY <1>0 DEF ScanInv, Typed
<1>2. open' # None
    BY <1>0
<1>3. InPlace'
    BY <1>0, <1>1, <1>2 DEF ScanInv, InPlace, Typed
<1>4. Apart'
    BY <1>0 DEF ScanInv, Apart
<1>5. Covered'
    <2> SUFFICES ASSUME NEW k \in 1 .. to, lines[k].kind # "blank"
                 PROVE  (open' # None /\ Has(open', k)) \/ \E b \in blocks : Has(b, k)
        BY <1>0, <1>1 DEF Covered
    <2>1. CASE k < i
        BY <2>1, <1>0, <1>1 DEF ScanInv, Covered, Typed
    <2>2. CASE k >= i
        BY <2>2, <1>0, <1>1, <1>2
    <2> QED
        BY <2>1, <2>2, <1>1
<1> QED
    BY <1>1, <1>3, <1>4, <1>5 DEF ScanInv

\* A line is added to the block that is being read.
LEMMA GrowKeeps ==
    ASSUME ScanInv, Reading, Left, Grow
    PROVE  ScanInv'
<1> USE DEF Has, Behind, Block
<1>0. lines' = lines /\ blocks' = blocks /\ i' = i + 1 /\ open' = [open EXCEPT !.to = i]
    BY DEF Grow
<1>1. Typed' /\ i \in Nat /\ open \in [kind : BlockKinds, from : Nat, to : Nat]
    BY <1>0 DEF ScanInv, Typed, Left
<1>2. open'.from = open.from /\ open'.to = i /\ open'.kind = open.kind
    BY <1>0, <1>1
<1>3. 1 <= open.from /\ open.from <= open.to /\ open.to = i - 1
    BY DEF ScanInv, InPlace
<1>4. Reading'
    BY <1>2, <1>3, <1>1 DEF Reading, None
<1>5. InPlace'
    BY <1>0, <1>1, <1>2, <1>3, <1>4 DEF ScanInv, InPlace, Typed
<1>6. Apart'
    BY <1>0 DEF ScanInv, Apart
<1>7. Covered'
    <2> SUFFICES ASSUME NEW k \in 1 .. i, lines[k].kind # "blank"
                 PROVE  Has(open', k) \/ \E b \in blocks : Has(b, k)
        BY <1>0, <1>1, <1>4 DEF Covered
    <2>1. CASE k < i
        BY <2>1, <1>1, <1>2, <1>3 DEF ScanInv, Covered
    <2>2. CASE k = i
        BY <2>2, <1>1, <1>2, <1>3
    <2> QED
        BY <2>1, <2>2, <1>1
<1> QED
    BY <1>1, <1>5, <1>6, <1>7 DEF ScanInv

\* The block that is being read is done.
LEMMA EndKeeps ==
    ASSUME ScanInv, Reading, End
    PROVE  ScanInv'
<1> USE DEF Has, Behind, Block
<1>0. lines' = lines /\ blocks' = blocks \cup {open} /\ i' = i /\ open' = None
    BY DEF End
<1>1. Typed' /\ i \in Nat
    BY <1>0 DEF ScanInv, Typed, None, BlockKinds
<1>2. ~Reading'
    BY <1>0 DEF Reading, None
<1>3. 1 <= open.from /\ open.from <= open.to /\ open.to = i - 1
    BY DEF ScanInv, InPlace
<1>4. \A b \in blocks : 1 <= b.from /\ b.from <= b.to /\ b.to < open.from
    BY DEF ScanInv, InPlace
<1>5. InPlace'
    BY <1>0, <1>1, <1>2, <1>3, <1>4 DEF ScanInv, InPlace, Typed
<1>6. Apart'
    BY <1>0, <1>4 DEF ScanInv, Apart
<1>7. Covered'
    BY <1>0, <1>2 DEF ScanInv, Covered
<1> QED
    BY <1>1, <1>5, <1>6, <1>7 DEF ScanInv

\* A block of the next line only, or none if it is blank.
LEMMA LineKeeps ==
    ASSUME ScanInv, open = None, Left, lines' = lines, i' = i + 1, open' = open,
           \/ lines[i].kind = "blank" /\ blocks' = blocks
           \/ \E kind \in BlockKinds : blocks' = blocks \cup {Block(kind, i, i)}
    PROVE  ScanInv'
<1> USE DEF Has, Reading, Behind, Block
<1>1. Typed' /\ i \in Nat /\ i >= 1
    BY DEF ScanInv, Typed, Left
<1>2. \A b \in blocks : 1 <= b.from /\ b.from <= b.to /\ b.to < i
    BY DEF ScanInv, InPlace
<1>3. InPlace'
    BY <1>1, <1>2 DEF ScanInv, InPlace, Typed
<1>4. Apart'
    BY <1>1, <1>2 DEF ScanInv, Apart, Typed
<1>5. Covered'
    <2> SUFFICES ASSUME NEW k \in 1 .. i, lines[k].kind # "blank"
                 PROVE  \E b \in blocks' : Has(b, k)
        BY <1>1 DEF Covered
    <2>1. CASE k < i
        BY <2>1, <1>1 DEF ScanInv, Covered
    <2>2. CASE k = i
        <3>1. PICK kind \in BlockKinds : blocks' = blocks \cup {Block(kind, i, i)}
            BY <2>2
        <3>2. Block(kind, i, i) \in blocks'
            BY <3>1
        <3> QED
            BY <2>2, <3>2, <1>1
    <2> QED
        BY <2>1, <2>2, <1>1
<1> QED
    BY <1>1, <1>3, <1>4, <1>5 DEF ScanInv

\* The next line is the last of the block that is being read.
LEMMA CloseKeeps ==
    ASSUME ScanInv, open.kind = "fence", CloseFence
    PROVE  ScanInv'
<1> USE DEF Has, Behind, Block
<1> DEFINE closed == [open EXCEPT !.to = i]
<1>0. /\ lines' = lines /\ i' = i + 1 /\ open' = None /\ Left
      /\ blocks' = blocks \cup {closed}
    BY DEF CloseFence, Closes, Here
<1>1. Typed' /\ i \in Nat /\ open \in [kind : BlockKinds, from : Nat, to : Nat]
    BY <1>0 DEF ScanInv, Typed, Left, None, BlockKinds
<1>2. closed.from = open.from /\ closed.to = i
    BY <1>1
<1>3. Reading /\ ~Reading'
    BY <1>0 DEF Reading, None
<1>4. 1 <= open.from /\ open.from <= open.to /\ open.to = i - 1
    BY <1>3 DEF ScanInv, InPlace
<1>5. \A b \in blocks : 1 <= b.from /\ b.from <= b.to /\ b.to < open.from
    BY <1>3 DEF ScanInv, InPlace
<1>6. blocks \subseteq [kind : BlockKinds, from : Nat, to : Nat]
    BY DEF ScanInv, Typed
<1> HIDE DEF closed
<1>7. InPlace'
    BY <1>0, <1>1, <1>2, <1>3, <1>4, <1>5, <1>6 DEF InPlace
<1>8. Apart'
    BY <1>0, <1>1, <1>2, <1>5, <1>6 DEF ScanInv, Apart
<1>9. Covered'
    <2> SUFFICES ASSUME NEW k \in 1 .. i, lines[k].kind # "blank"
                 PROVE  \E b \in blocks' : Has(b, k)
        BY <1>0, <1>1 DEF Covered
    <2>1. CASE k < i
        BY <2>1, <1>0, <1>1, <1>2, <1>3, <1>4 DEF ScanInv, Covered
    <2>2. CASE k = i
        BY <2>2, <1>0, <1>1, <1>2, <1>4
    <2> QED
        BY <2>1, <2>2, <1>1
<1> QED
    BY <1>1, <1>7, <1>8, <1>9 DEF ScanInv

LEMMA NextKeeps == ScanInv /\ [Next]_vars => ScanInv'
<1> SUFFICES ASSUME ScanInv, [Next]_vars PROVE ScanInv'
    OBVIOUS
<1>0. Left => i \in 1 .. Len(lines)
    BY DEF ScanInv, Typed, Left
<1>1. CASE Blank
    BY <1>1, LineKeeps DEF Blank, Here
<1>2. CASE OneLine
    <2>1. lines[i].kind \in BlockKinds
        BY <1>2 DEF OneLine, Here, BlockKinds
    <2> QED
        BY <1>2, <2>1, LineKeeps DEF OneLine, Here
<1>3. CASE StartFence
    BY <1>3, <1>0, StartKeeps DEF StartFence, Here, BlockKinds
<1>4. CASE StartQuote
    BY <1>4, <1>0, StartKeeps DEF StartQuote, Here, BlockKinds
<1>5. CASE StartParagraph
    BY <1>5, <1>0, StartKeeps DEF StartParagraph, Here, BlockKinds
<1>6. CASE StartTable
    <2>1. i + 1 \in i .. Len(lines)
        BY <1>6 DEF StartTable, AtTable, ScanInv, Typed
    <2> QED
        BY <1>6, <2>1, StartKeeps DEF StartTable, BlockKinds
<1>7. CASE GrowFence \/ GrowTable \/ GrowQuote \/ GrowParagraph
    <2>1. Reading /\ Left /\ Grow
        BY <1>7 DEF GrowFence, GrowTable, GrowQuote, GrowParagraph, AfterText, Here,
                    Reading, None, Block
    <2> QED
        BY <2>1, GrowKeeps
<1>8. CASE EndFence \/ EndTable \/ EndQuote \/ EndParagraph
    <2>1. Reading /\ End
        BY <1>8 DEF EndFence, EndTable, EndQuote, EndParagraph, Reading, None, Block
    <2> QED
        BY <2>1, EndKeeps
<1>9. CASE CloseFence
    BY <1>9, CloseKeeps DEF CloseFence
<1>10. CASE UNCHANGED vars
    BY <1>10 DEF vars, ScanInv, Typed, InPlace, Apart, Covered, Reading, Behind, Has
<1> QED
    BY <1>1, <1>2, <1>3, <1>4, <1>5, <1>6, <1>7, <1>8, <1>9, <1>10 DEF Next

\* EveryLineOnce, of the function scan(): for an oath of any length, each line of text is in
\* one block, and the blocks do not meet.
THEOREM TextIsThereOnce == Spec => []EveryLineOnce
<1>1. Init => ScanInv
    BY SourcesAssumption
    DEF Init, ScanInv, Typed, InPlace, Apart, Covered, Reading, Behind, None, Block, BlockKinds
<1>2. ScanInv => EveryLineOnce
    <2> SUFFICES ASSUME ScanInv, Scanned PROVE EveryLineOnce
        BY DEF EveryLineOnce
    <2>1. i = Len(lines) + 1 /\ ~Reading /\ Len(lines) \in Nat
        BY DEF ScanInv, Typed, Scanned, Left, Reading
    <2>2. \A k \in 1 .. Len(lines) :
             lines[k].kind # "blank" => \E b \in blocks : Has(b, k)
        BY <2>1 DEF ScanInv, Covered
    <2>3. \A b, c \in blocks : \A k \in 1 .. Len(lines) : Has(b, k) /\ Has(c, k) => b = c
        BY <2>1 DEF ScanInv, Typed, Apart, Has
    <2> QED
        BY <2>2, <2>3 DEF EveryLineOnce
<1> QED
    BY <1>1, <1>2, NextKeeps, PTL DEF Spec

--------------------------------------------------------------------------------
\* The fence b ends with the oath or with a fence that is long enough for it.
FenceEnds(b) ==
    b.kind = "fence" =>
        \/ b.to = Len(lines)
        \/ /\ b.from < b.to /\ b.to \in 1 .. Len(lines)
           /\ lines[b.to].kind = "fence" /\ lines[b.to].ticks >= lines[b.from].ticks

FenceInv == ScanInv /\ \A b \in blocks : FenceEnds(b)

\* A step that adds no fence leaves the others as they are.
LEMMA OtherBlocksKeep ==
    ASSUME \A b \in blocks : FenceEnds(b), lines' = lines,
           \A b \in blocks' : b \in blocks \/ b.kind # "fence"
    PROVE  \A b \in blocks' : FenceEnds(b)'
BY DEF FenceEnds

LEMMA FencesKeep == FenceInv /\ [Next]_vars => FenceInv'
<1> SUFFICES ASSUME FenceInv, [Next]_vars PROVE FenceInv'
    OBVIOUS
<1>1. ScanInv /\ ScanInv' /\ \A b \in blocks : FenceEnds(b)
    BY NextKeeps DEF FenceInv
<1>2. CASE CloseFence
  <2> DEFINE closed == [open EXCEPT !.to = i]
  <2>1. /\ lines' = lines /\ blocks' = blocks \cup {closed} /\ open.kind = "fence"
        /\ i <= Len(lines) /\ lines[i].kind = "fence" /\ lines[i].ticks >= lines[open.from].ticks
    BY <1>2 DEF CloseFence, Closes, Here, Left
  <2>2. /\ closed.from = open.from /\ closed.to = i /\ open.from < i /\ i \in 1 .. Len(lines)
    BY <1>1, <2>1 DEF ScanInv, Typed, InPlace, Reading, None, Block
  <2>3. ASSUME NEW b \in blocks'
        PROVE  FenceEnds(b)'
    <3>1. CASE b = closed
      BY <2>1, <2>2, <3>1 DEF FenceEnds
    <3>2. CASE b \in blocks
      BY <1>1, <2>1, <3>2 DEF FenceEnds
    <3> QED
      BY <2>1, <3>1, <3>2
  <2> QED
    BY <1>1, <2>3 DEF FenceInv
<1>3. CASE EndFence
  <2>1. lines' = lines /\ blocks' = blocks \cup {open} /\ open.kind = "fence" /\ ~Left
    BY <1>3 DEF EndFence, End
  <2>2. open.to = Len(lines)
    BY <1>1, <2>1 DEF ScanInv, Typed, InPlace, Reading, None, Block, Left
  <2>3. \A b \in blocks' : FenceEnds(b)'
    BY <1>1, <2>1, <2>2 DEF FenceEnds
  <2> QED
    BY <1>1, <2>3 DEF FenceInv
<1>4. CASE ~CloseFence /\ ~EndFence
  <2>1. lines' = lines /\ \A b \in blocks' : b \in blocks \/ b.kind # "fence"
    BY <1>4 DEF Next, vars, Blank, OneLine, StartFence, GrowFence, StartTable, GrowTable, EndTable,
                StartQuote, GrowQuote, EndQuote, StartParagraph, GrowParagraph, EndParagraph,
                Start, Grow, End, Block, Here
  <2> QED
    BY <1>1, <2>1, OtherBlocksKeep DEF FenceInv
<1> QED
    BY <1>2, <1>3, <1>4

\* scanner.test.ts:106-118, for a doc string of any length: what is between two fences is
\* in the block of the first, unless a fence that is long enough comes between.
THEOREM FencesAlwaysHold == Spec => []FencesHold
<1>1. Init => FenceInv
    BY SourcesAssumption
    DEF Init, FenceInv, ScanInv, Typed, InPlace, Apart, Covered, Reading, Behind, None, Block,
        BlockKinds
<1>2. FenceInv => FencesHold
  <2> SUFFICES ASSUME FenceInv, NEW f \in DOMAIN lines, NEW g \in DOMAIN lines,
                      f < g, lines[f].kind = "fence", lines[g].kind = "fence",
                      \A k \in f + 1 .. g - 1 :
                         lines[k].kind = "fence" => lines[k].ticks < lines[f].ticks,
                      NEW b \in blocks, b.kind = "fence", b.from = f
               PROVE  \A k \in f .. g : Has(b, k)
    BY DEF FencesHold
  <2>1. /\ lines \in Seq(Line) /\ DOMAIN lines = 1 .. Len(lines) /\ Len(lines) \in Nat
        /\ \A k \in 1 .. Len(lines) : lines[k].kind = "fence" => lines[k].ticks \in Nat
        /\ b.to \in Nat
    BY LineAssumption DEF FenceInv, ScanInv, Typed
  <2>2. CASE b.to = Len(lines)
    BY <2>1, <2>2 DEF Has
  <2>3. CASE b.to # Len(lines)
    <3>1. /\ f < b.to /\ b.to \in 1 .. Len(lines) /\ lines[b.to].kind = "fence"
          /\ lines[b.to].ticks >= lines[f].ticks
      BY <2>3 DEF FenceInv, FenceEnds
    <3>2. lines[b.to].ticks \in Nat /\ lines[f].ticks \in Nat
      BY <2>1, <3>1
    <3>3. ~(b.to < g)
      BY <2>1, <3>1, <3>2
    <3> QED
      BY <2>1, <3>1, <3>3 DEF Has
  <2> QED
    BY <2>2, <2>3
<1> QED
    BY <1>1, <1>2, FencesKeep, PTL DEF Spec
--------------------------------------------------------------------------------
\* The matches of a sentence, in the place they have in the paragraph, take characters.
TakesCharacters(h) == h.from \in Nat /\ h.to \in Nat /\ h.from < h.to

LEMMA HitsTyped ==
    ASSUME body \in Bodies, NEW k
    PROVE  \A h \in C!HitsOf(k) : TakesCharacters(h)
<1>1. CASE k \notin DOMAIN body.sentences
    BY <1>1 DEF C!HitsOf
<1>2. CASE k \in DOMAIN body.sentences
    BY <1>2, BodiesAssumption DEF TakesCharacters, C!HitsOf, C!Adjusted, C!Hit
<1> QED
    BY <1>1, <1>2

\* Where no two expressions collide, a match is known by its place.
LEMMA NoTwins ==
    ASSUME NEW H, C!Collisions(H) = {},
           NEW g \in H, NEW h \in H, g.from = h.from, g.to = h.to
    PROVE  g = h
<1> DEFINE T == {x \in H : x.from = h.from /\ x.to = h.to}
<1>1. T \in {{x \in H : x.from = y.from /\ x.to = y.to} : y \in H} /\ g \in T /\ h \in T
    OBVIOUS
<1> HIDE DEF T
<1> QED
    BY <1>1 DEF C!Collisions

\* Then the order of resolveHits is one of all matches.
LEMMA InOneOrder ==
    ASSUME NEW H, C!Collisions(H) = {}, \A h \in H : TakesCharacters(h),
           NEW g \in H, NEW h \in H, g # h
    PROVE  C!LeftmostLongest(g, h) \/ C!LeftmostLongest(h, g)
BY NoTwins DEF C!LeftmostLongest, TakesCharacters

\* The matches of the sentence at hand that are kept, and those that the loop has come to.
Chosen == {kept[m] : m \in DOMAIN kept}
Hits == C!HitsOf(sentence)

GivesWay(h, g) == C!Overlap(g, h) /\ C!LeftmostLongest(g, h)

ReadingTyped ==
    /\ body \in Bodies
    /\ sentence \in Nat \ {0}
    /\ left \subseteq Hits
    /\ kept \in Seq(Hits)
    /\ \E X : steps \in Seq(X)

\* The loop goes through the matches in their order; what it keeps ends where the next
\* begins, or before, and the last where the loop has got to; what it does not keep gives
\* way to what it keeps.
ChoiceInv ==
    ~C!Ambiguous =>
        /\ \A h \in Hits \ left, g \in left : C!LeftmostLongest(h, g)
        /\ Chosen \cap left = {}
        /\ \A m, n \in DOMAIN kept : m < n => kept[m].to <= kept[n].from
        /\ \A m \in DOMAIN kept : kept[m].to <= reached
        /\ IF kept = << >> THEN reached = -1 ELSE reached = kept[Len(kept)].to
        /\ \A h \in Hits \ (Chosen \cup left) : \E g \in Chosen : GivesWay(h, g)

\* Of the sentences that were read each match runs, or gives way, or is reported.
ReadInv ==
    \A k \in 1 .. sentence - 1 :
        IF C!Collisions(C!HitsOf(k)) # {} THEN ambiguities # {}
        ELSE \A h \in C!HitsOf(k) :
                \E m \in DOMAIN steps : steps[m] = h \/ C!Overlap(steps[m], h)

CandidateInv == ReadingTyped /\ ChoiceInv /\ ReadInv /\ AllOrNothing

LEMMA HitsStay ==
    ASSUME body' = body, NEW k
    PROVE  C!HitsOf(k)' = C!HitsOf(k)
BY DEF C!HitsOf, C!Adjusted

LEMMA CandidateStarts == C!Init => CandidateInv
<1> SUFFICES ASSUME C!Init PROVE CandidateInv
    OBVIOUS
<1> USE DEF C!Init, C!Unread
<1>1. ReadingTyped
    <2>1. << >> \in Seq(Hits) /\ << >> \in Seq({})
        OBVIOUS
    <2> QED
        BY <2>1 DEF ReadingTyped, Hits
<1>2. ChoiceInv
    BY DEF ChoiceInv, Chosen, Hits
<1>3. ReadInv
    BY DEF ReadInv
<1>4. AllOrNothing
    BY DEF AllOrNothing, C!AllOrNothing, C!AsSteps, C!Planned
<1> QED
    BY <1>1, <1>2, <1>3, <1>4 DEF CandidateInv

\* What is planned stays; and while nothing is planned, nothing is claimed of it.
LEMMA PlanStays ==
    ASSUME AllOrNothing, UNCHANGED <<body, unit, diagnostics>>
    PROVE  AllOrNothing'
BY DEF AllOrNothing, C!AllOrNothing, C!AsSteps, C!Planned, C!Adjusted, C!Hit, C!Overlap,
       C!Unplanned

\* Within a sentence, the ones before it stay as they were.
LEMMA ReadStays ==
    ASSUME ReadInv, UNCHANGED <<body, sentence, steps, ambiguities>>
    PROVE  ReadInv'
<1>1. \A k : C!HitsOf(k)' = C!HitsOf(k)
    BY HitsStay
<1>2. \A k : C!Collisions(C!HitsOf(k))' = C!Collisions(C!HitsOf(k))
    BY <1>1 DEF C!Collisions
<1> QED
    BY <1>1, <1>2 DEF ReadInv, C!Overlap

LEMMA KeepKeeps ==
    ASSUME CandidateInv, NEW h \in left, C!Keep(h)
    PROVE  CandidateInv'
<1> USE DEF CandidateInv
<1>1. Hits' = Hits /\ (C!Ambiguous <=> C!Ambiguous')
    BY HitsStay DEF C!Keep, Hits, C!Ambiguous, C!HitsOf, C!Adjusted, C!Hit, C!Collisions
<1>2. /\ \A g \in Hits : TakesCharacters(g)
      /\ left \subseteq Hits /\ h \in Hits /\ kept \in Seq(Hits)
    BY HitsTyped DEF ReadingTyped, Hits
<1>3. /\ ~C!Ambiguous
      /\ \A g \in left : g = h \/ C!LeftmostLongest(h, g)
      /\ h.from >= reached /\ kept' = Append(kept, h) /\ reached' = h.to
      /\ left' = left \ {h}
    BY DEF C!Keep, C!Comes
<1>4. ReadingTyped'
    <2>1. kept' \in Seq(Hits)
        BY <1>2, <1>3
    <2> QED
        BY <1>1, <1>2, <1>3, <2>1 DEF ReadingTyped, C!Keep
<1>5. /\ Len(kept) \in Nat /\ DOMAIN kept = 1 .. Len(kept)
      /\ Len(kept') = Len(kept) + 1 /\ DOMAIN kept' = 1 .. Len(kept) + 1
      /\ kept'[Len(kept) + 1] = h
      /\ \A m \in DOMAIN kept : kept'[m] = kept[m] /\ kept[m] \in Hits
    BY <1>2, <1>3
<1>6. Chosen' = Chosen \cup {h}
    <2>1. \A m \in DOMAIN kept' : m \in DOMAIN kept \/ m = Len(kept) + 1
        BY <1>5
    <2>2. \A m \in DOMAIN kept : m \in DOMAIN kept'
        BY <1>5
    <2>3. Chosen' = {kept'[m] : m \in DOMAIN kept'}
        BY DEF Chosen
    <2>4. Len(kept) + 1 \in DOMAIN kept'
        BY <1>5
    <2> QED
        BY <1>5, <2>1, <2>2, <2>3, <2>4 DEF Chosen
<1>7. ChoiceInv'
    <2> USE <1>3 DEF ChoiceInv
    <2>1. \A a \in Hits \ left', g \in left' : C!LeftmostLongest(a, g)
        BY <1>2
    <2>2. Chosen' \cap left' = {}
        BY <1>6
    <2>3. \A m \in DOMAIN kept : kept[m].to <= h.from /\ kept[m].to <= h.to
        <3>1. \A m \in DOMAIN kept : kept[m].to <= reached
            OBVIOUS
        <3>2. h.from < h.to /\ h.from \in Nat /\ h.to \in Nat
            BY <1>2 DEF TakesCharacters
        <3>3. \A m \in DOMAIN kept : kept[m].to \in Nat
            BY <1>2, <1>5 DEF TakesCharacters
        <3>4. reached \in Int
            BY <1>2, <1>5 DEF TakesCharacters
        <3> QED
            BY <3>1, <3>2, <3>3, <3>4
    <2>4. \A m, n \in DOMAIN kept' : m < n => kept'[m].to <= kept'[n].from
        BY <1>5, <2>3
    <2>5. \A m \in DOMAIN kept' : kept'[m].to <= reached'
        BY <1>2, <1>5, <2>3 DEF TakesCharacters
    <2>6. kept' # << >> /\ reached' = kept'[Len(kept')].to
        BY <1>5
    <2>7. \A a \in Hits \ (Chosen' \cup left') : \E g \in Chosen' : GivesWay(a, g)
        BY <1>6
    <2>8. \A a \in Hits, g \in Chosen' : GivesWay(a, g)' <=> GivesWay(a, g)
        BY DEF GivesWay, C!Overlap, C!LeftmostLongest
    <2> HIDE DEF ChoiceInv
    <2> QED
        BY <1>1, <2>1, <2>2, <2>4, <2>5, <2>6, <2>7, <2>8 DEF ChoiceInv, GivesWay,
           C!Overlap, C!LeftmostLongest
<1>8. ReadInv' /\ AllOrNothing'
    BY ReadStays, PlanStays DEF C!Keep
<1> QED
    BY <1>4, <1>7, <1>8

LEMMA PassOverKeeps ==
    ASSUME CandidateInv, NEW h \in left, C!PassOver(h)
    PROVE  CandidateInv'
<1> USE DEF CandidateInv
<1>1. Hits' = Hits /\ (C!Ambiguous <=> C!Ambiguous')
    BY HitsStay DEF C!PassOver, Hits, C!Ambiguous, C!HitsOf, C!Adjusted, C!Hit, C!Collisions
<1>2. /\ \A g \in Hits : TakesCharacters(g)
      /\ left \subseteq Hits /\ h \in Hits /\ kept \in Seq(Hits)
    BY HitsTyped DEF ReadingTyped, Hits
<1>3. /\ ~C!Ambiguous
      /\ \A g \in left : g = h \/ C!LeftmostLongest(h, g)
      /\ h.from < reached /\ kept' = kept /\ reached' = reached
      /\ left' = left \ {h}
    BY DEF C!PassOver, C!Comes
<1>4. ReadingTyped'
    BY <1>1, <1>2, <1>3 DEF ReadingTyped, C!PassOver
<1>5. Chosen' = Chosen
    BY <1>3 DEF Chosen
\* It overlaps the last one that was kept, which came before it.
<1>6. \E g \in Chosen : GivesWay(h, g)
    <2> DEFINE g == kept[Len(kept)]
    <2>1. kept # << >>
        BY <1>2, <1>3 DEF ChoiceInv, TakesCharacters
    <2>2. Len(kept) \in DOMAIN kept /\ g \in Chosen /\ g \in Hits
        BY <1>2, <2>1 DEF Chosen
    <2>3. reached = g.to /\ g \notin left
        BY <1>3, <2>1, <2>2 DEF ChoiceInv
    <2>4. C!LeftmostLongest(g, h)
        BY <1>2, <1>3, <2>2, <2>3 DEF ChoiceInv
    <2>5. g.from < h.to /\ h.from < g.to
        BY <1>2, <1>3, <2>2, <2>3, <2>4 DEF C!LeftmostLongest, TakesCharacters
    <2> QED
        BY <2>2, <2>4, <2>5 DEF GivesWay, C!Overlap
<1>7. ChoiceInv'
    <2>1. \A a \in Hits \ left', g \in left' : C!LeftmostLongest(a, g)
        BY <1>2, <1>3 DEF ChoiceInv
    <2>2. \A a \in Hits \ (Chosen \cup left') : \E g \in Chosen : GivesWay(a, g)
        BY <1>3, <1>6 DEF ChoiceInv
    <2> QED
        BY <1>1, <1>3, <1>5, <2>1, <2>2 DEF ChoiceInv, GivesWay, C!Overlap,
           C!LeftmostLongest
<1>8. ReadInv' /\ AllOrNothing'
    BY ReadStays, PlanStays DEF C!PassOver
<1> QED
    BY <1>4, <1>7, <1>8

\* At the beginning of a sentence there is nothing to choose from.
LEMMA SentenceStarts ==
    ASSUME CandidateInv, C!NextSentence, body' = body, \E X : steps' \in Seq(X)
    PROVE  ReadingTyped' /\ ChoiceInv'
<1>1. Hits' = C!HitsOf(sentence + 1) /\ left' = Hits'
    BY HitsStay DEF C!NextSentence, Hits, C!HitsOf, C!Adjusted
<1>2. << >> \in Seq(Hits')
    OBVIOUS
<1>3. ReadingTyped'
    BY <1>1, <1>2 DEF C!NextSentence, CandidateInv, ReadingTyped
<1>4. ChoiceInv'
    BY <1>1 DEF C!NextSentence, ChoiceInv, Chosen
<1> QED
    BY <1>3, <1>4

LEMMA ResolvedKeeps ==
    ASSUME CandidateInv, C!SentenceResolved
    PROVE  CandidateInv'
<1> USE DEF CandidateInv
<1>1. /\ body' = body /\ ambiguities' = ambiguities /\ steps' = steps \o kept
      /\ left = {} /\ ~C!Ambiguous /\ C!NextSentence /\ sentence \in Nat \ {0}
    BY DEF C!SentenceResolved, ReadingTyped
<1>2. PICK X : steps \in Seq(X)
    BY DEF ReadingTyped
<1>3. kept \in Seq(Hits)
    BY DEF ReadingTyped
<1>4. steps \in Seq(X \cup Hits) /\ kept \in Seq(X \cup Hits)
    BY <1>2, <1>3
<1>5. /\ steps' \in Seq(X \cup Hits)
      /\ \A m \in DOMAIN steps : m \in DOMAIN steps' /\ steps'[m] = steps[m]
      /\ \A m \in DOMAIN kept :
            Len(steps) + m \in DOMAIN steps' /\ steps'[Len(steps) + m] = kept[m]
    BY <1>1, <1>4
<1>6. ReadingTyped' /\ ChoiceInv'
    BY <1>1, <1>5, SentenceStarts
<1>7. ReadInv'
    <2>1. \A k : C!HitsOf(k)' = C!HitsOf(k)
        BY <1>1, HitsStay
    <2>2. \A k : C!Collisions(C!HitsOf(k))' = C!Collisions(C!HitsOf(k))
        BY <2>1 DEF C!Collisions
    <2>3. sentence' - 1 = sentence
        BY <1>1 DEF C!NextSentence
    <2>4. ASSUME NEW k \in 1 .. sentence - 1, C!Collisions(C!HitsOf(k)) = {},
                 NEW h \in C!HitsOf(k)
          PROVE  \E m \in DOMAIN steps' : steps'[m] = h \/ C!Overlap(steps'[m], h)
        BY <1>5, <2>4 DEF ReadInv
    <2>5. ASSUME NEW h \in Hits
          PROVE  \E m \in DOMAIN steps' : steps'[m] = h \/ C!Overlap(steps'[m], h)
        <3>1. h \in Chosen \/ \E g \in Chosen : GivesWay(h, g)
            BY <1>1 DEF ChoiceInv
        <3>2. \E m \in DOMAIN kept : kept[m] = h \/ C!Overlap(kept[m], h)
            BY <3>1 DEF Chosen, GivesWay
        <3> QED
            BY <1>5, <3>2
    <2>6. C!Collisions(C!HitsOf(sentence)) = {}
        BY <1>1 DEF C!Ambiguous
    <2>7. \A k \in 1 .. sentence : k \in 1 .. sentence - 1 \/ k = sentence
        BY <1>1
    <2>8. \A k \in 1 .. sentence - 1 :
              C!Collisions(C!HitsOf(k)) # {} => ambiguities' # {}
        BY <1>1 DEF ReadInv
    <2> QED
        BY <2>1, <2>2, <2>3, <2>4, <2>5, <2>6, <2>7, <2>8 DEF ReadInv, C!Overlap, Hits
<1>8. AllOrNothing'
    BY PlanStays DEF C!SentenceResolved
<1> QED
    BY <1>6, <1>7, <1>8

LEMMA AmbiguousKeeps ==
    ASSUME CandidateInv, C!SentenceAmbiguous
    PROVE  CandidateInv'
<1> USE DEF CandidateInv
<1>1. /\ body' = body /\ steps' = steps /\ C!NextSentence /\ sentence \in Nat \ {0}
      /\ ambiguities \subseteq ambiguities' /\ ambiguities' # {}
    BY DEF C!SentenceAmbiguous, ReadingTyped, C!Ambiguous
<1>2. ReadingTyped' /\ ChoiceInv'
    BY <1>1, SentenceStarts DEF ReadingTyped
<1>3. ReadInv'
    <2>1. \A k : C!HitsOf(k)' = C!HitsOf(k)
        BY <1>1, HitsStay
    <2>2. \A k : C!Collisions(C!HitsOf(k))' = C!Collisions(C!HitsOf(k))
        BY <2>1 DEF C!Collisions
    <2>3. \A k \in 1 .. sentence' - 1 : k \in 1 .. sentence - 1 \/ k = sentence
        BY <1>1 DEF C!NextSentence
    <2>4. C!Collisions(C!HitsOf(sentence)) # {}
        BY DEF C!SentenceAmbiguous, C!Ambiguous
    <2> QED
        BY <1>1, <2>1, <2>2, <2>3, <2>4 DEF ReadInv, C!Overlap
<1>4. AllOrNothing'
    BY PlanStays DEF C!SentenceAmbiguous
<1> QED
    BY <1>2, <1>3, <1>4

\* Planning reads what the sentences came to.
LEMMA PlanKeeps ==
    ASSUME CandidateInv, UNCHANGED <<body, C!sentenceVars, steps, ambiguities>>
    PROVE  ReadingTyped' /\ ChoiceInv' /\ ReadInv'
<1>1. Hits' = Hits /\ (C!Ambiguous <=> C!Ambiguous') /\ Chosen' = Chosen
    BY HitsStay DEF C!sentenceVars, Hits, Chosen, C!Ambiguous, C!HitsOf, C!Adjusted, C!Hit,
       C!Collisions
<1>2. ReadingTyped' /\ ChoiceInv'
    BY <1>1 DEF CandidateInv, ReadingTyped, ChoiceInv, C!sentenceVars, GivesWay, C!Overlap,
       C!LeftmostLongest
<1>3. ReadInv'
    BY ReadStays DEF CandidateInv, C!sentenceVars
<1> QED
    BY <1>2, <1>3

LEMMA PlanRowsKeeps ==
    ASSUME CandidateInv, NEW b, C!PlanRows(b)
    PROVE  CandidateInv'
<1>1. ReadingTyped' /\ ChoiceInv' /\ ReadInv'
    BY PlanKeeps DEF C!PlanRows
<1>2. AllOrNothing'
    BY DEF C!PlanRows, C!RowUnit, AllOrNothing, C!AllOrNothing, C!AsSteps
<1> QED
    BY <1>1, <1>2 DEF CandidateInv

LEMMA PlanStepsKeeps ==
    ASSUME CandidateInv, C!PlanSteps
    PROVE  CandidateInv'
<1>1. ReadingTyped' /\ ChoiceInv' /\ ReadInv'
    BY PlanKeeps DEF C!PlanSteps
<1>2. /\ body' = body /\ unit' = C!StepUnit /\ diagnostics' = C!Diagnoses
      /\ sentence > Len(body.sentences) /\ sentence \in Nat
    BY DEF C!PlanSteps, C!Read, CandidateInv, ReadingTyped
<1>3. /\ unit'.steps = [m \in DOMAIN C!Steps |-> C!Attached(C!Steps[m], m)]
      /\ \A m \in DOMAIN C!Steps : unit'.steps[m].hit = C!Steps[m]
    BY <1>2 DEF C!StepUnit, C!Attached
<1>4. CASE C!HadAmbiguous
    <2>1. unit'.steps = << >>
        BY <1>3, <1>4 DEF C!Steps
    <2>2. "ambiguous-match" \in diagnostics'
        BY <1>2, <1>4 DEF C!Diagnoses
    <2>3. AllOrNothing'
        BY <2>1, <2>2 DEF AllOrNothing, C!AllOrNothing
    <2> QED
        BY <1>1, <2>3 DEF CandidateInv
<1>5. CASE ~C!HadAmbiguous
    <2>1. C!Steps = steps /\ DOMAIN unit'.steps = DOMAIN steps
          /\ \A m \in DOMAIN steps : unit'.steps[m].hit = steps[m]
        BY <1>3, <1>5 DEF C!Steps
    <2>2. ASSUME NEW k \in DOMAIN body.sentences, NEW h \in C!Adjusted(body.sentences[k])
          PROVE  \E m \in DOMAIN unit'.steps :
                    unit'.steps[m].hit = h \/ C!Overlap(unit'.steps[m].hit, h)
        <3>1. h \in C!HitsOf(k) /\ k \in 1 .. sentence - 1
            BY <1>2, BodiesAssumption DEF C!HitsOf, CandidateInv, ReadingTyped
        <3>2. \E m \in DOMAIN steps : steps[m] = h \/ C!Overlap(steps[m], h)
            BY <1>5, <3>1 DEF CandidateInv, ReadInv, C!HadAmbiguous
        <3> QED
            BY <2>1, <3>2
    <2>3. "ambiguous-match" \notin diagnostics'
        BY <1>2, <1>5 DEF C!Diagnoses
    <2>4. AllOrNothing'
        BY <1>2, <2>2, <2>3 DEF AllOrNothing, C!AllOrNothing, C!Adjusted, C!Hit, C!Overlap
    <2> QED
        BY <1>1, <2>4 DEF CandidateInv
<1> QED
    BY <1>4, <1>5

LEMMA CandidateKeeps == CandidateInv /\ [C!Next]_C!vars => CandidateInv'
<1> SUFFICES ASSUME CandidateInv, [C!Next]_C!vars PROVE CandidateInv'
    OBVIOUS
<1>1. ASSUME NEW h \in left, C!Keep(h) PROVE CandidateInv'
    BY <1>1, KeepKeeps
<1>2. ASSUME NEW h \in left, C!PassOver(h) PROVE CandidateInv'
    BY <1>2, PassOverKeeps
<1>3. ASSUME NEW b, C!PlanRows(b) PROVE CandidateInv'
    BY <1>3, PlanRowsKeeps
<1>4. CASE UNCHANGED C!vars
    <2>1. ReadingTyped' /\ ChoiceInv' /\ ReadInv'
        BY <1>4, PlanKeeps DEF C!vars
    <2>2. AllOrNothing'
        BY <1>4, PlanStays DEF C!vars, CandidateInv
    <2> QED
        BY <2>1, <2>2 DEF CandidateInv
<1> QED
    BY <1>1, <1>2, <1>3, <1>4, ResolvedKeeps, AmbiguousKeeps, PlanStepsKeeps DEF C!Next

\* matcher.test.ts:40, "longest-leftmost when ranges overlap", of any number of matches: the
\* steps of a sentence are disjoint and in order, and a match gives way only to a step that
\* begins before it, or with it and goes on for longer (resolveHits).
THEOREM StepsAreLongestLeftmost == C!Spec => []LongestLeftmostWins
<1>1. CandidateInv => LongestLeftmostWins
    <2> SUFFICES ASSUME CandidateInv, ~C!Ambiguous PROVE LongestLeftmostWins
        BY DEF LongestLeftmostWins, C!LongestLeftmostWins, C!Ambiguous
    <2>1. ChoiceInv
        BY DEF CandidateInv
    <2> QED
        BY <2>1 DEF ChoiceInv, Chosen, Hits, GivesWay, LongestLeftmostWins,
           C!LongestLeftmostWins, C!LeftmostLongest
<1> QED
    BY <1>1, CandidateStarts, CandidateKeeps, PTL DEF C!Spec

\* plan.test.ts:71: of a paragraph of any sentences, nothing runs in part; every match runs,
\* or gives way to one that does, or the paragraph says why none of it runs (planBlock,
\* planCandidate).
THEOREM NothingRunsInPart == C!Spec => []AllOrNothing
<1>1. CandidateInv => AllOrNothing
    BY DEF CandidateInv
<1> QED
    BY <1>1, CandidateStarts, CandidateKeeps, PTL DEF C!Spec
--------------------------------------------------------------------------------
\* Renames.

\* Numbers have a least one.
LEMMA Least ==
    ASSUME NEW T \in SUBSET Nat, T # {}
    PROVE  \E m \in T : \A n \in T : m <= n
<1> DEFINE U == {0 .. n : n \in T}
<1>1. U \subseteq FiniteSubsetsOf(Nat)
    <2>1. \A n \in Nat : 0 .. n \in SUBSET Nat /\ IsFiniteSet(0 .. n)
        BY FS_Interval
    <2> QED
        BY <2>1 DEF FiniteSubsetsOf
<1>2. \E x \in U : \A y \in U : ~(<<y, x>> \in StrictSubsetOrdering(Nat))
    <2>1. U # {}
        OBVIOUS
    <2> HIDE DEF U
    <2> QED
        BY <1>1, <2>1, WFMin, FS_StrictSubsetOrderingWellFounded
<1>3. PICK m \in T : \A n \in T : ~(<<0 .. n, 0 .. m>> \in StrictSubsetOrdering(Nat))
    BY <1>2
<1>4. ASSUME NEW n \in T, n < m PROVE FALSE
    <2>1. /\ 0 .. n \subseteq 0 .. m /\ m \notin 0 .. n /\ m \in 0 .. m
          /\ 0 .. n \subseteq Nat /\ 0 .. m \subseteq Nat
        BY <1>4, SMT
    <2>2. <<0 .. n, 0 .. m>> \in StrictSubsetOrdering(Nat)
        BY <2>1 DEF StrictSubsetOrdering
    <2> QED
        BY <1>3, <2>2
<1> QED
    BY <1>4

\* A sequence of what a function gives for the numbers up to some number.
LEMMA SequenceOf ==
    ASSUME NEW n \in Nat, NEW f, f = [j \in 1 .. n |-> f[j]]
    PROVE  f \in Seq({f[j] : j \in 1 .. n})
OBVIOUS

\* What is left of a sequence without the first that was put before it.
LEMMA WithoutFirst ==
    ASSUME NEW X, NEW x, NEW s \in Seq(X)
    PROVE  <<x>> \o s # << >> /\ Tail(<<x>> \o s) = s
<1> DEFINE Y == X \cup {x}
<1>1. s \in Seq(Y) /\ <<x>> \in Seq(Y) /\ <<x>> \o s \in Seq(Y) /\ Len(<<x>> \o s) = Len(s) + 1
    OBVIOUS
<1>2. Tail(<<x>> \o s) \in Seq(Y) /\ Len(Tail(<<x>> \o s)) = Len(s) /\ <<x>> \o s # << >>
    BY <1>1
<1>3. \A m \in 1 .. Len(s) : Tail(<<x>> \o s)[m] = s[m]
    BY <1>1, <1>2
<1> QED
    BY <1>1, <1>2, <1>3, SeqEqual

\* The user's parameters are the types of what the expression captures.
Types(user) == [j \in DOMAIN user |-> user[j].type]
Captures(e) == [j \in DOMAIN e.params |-> R!TypeName[e.params[j]]]

Fits(h, e) == Types(R!UserParams(h)) = Captures(e) \/ (~h.stateful /\ e.params = << >>)

\* A handler is given a parameter for everything that the new expression captures: its own
\* where that is kept, and these are of its type.
LEMMA SyncFits ==
    ASSUME handler \in Handlers, expression \in Expressions, R!AsWritten,
           NEW new \in Expressions
    PROVE  Fits(R!HandlerSync(handler, expression, new), new)
<1> DEFINE h == handler
           old == expression
           user == R!UserParams(h)
           synced == [j \in DOMAIN new.params |-> R!SyncParam(old, new, user, j)]
           state == R!StateParam(h)
<1>1. /\ h \in [stateful : BOOLEAN, params : Seq(Parameter)]
      /\ new.params \in Seq(DOMAIN R!TypeName) /\ old.params \in Seq(DOMAIN R!TypeName)
    BY RenameAssumption
<1>2. PICK n \in Nat : DOMAIN new.params = 1 .. n
    BY <1>1
<1>3. synced \in Seq({synced[j] : j \in 1 .. n})
    <2>1. synced = [j \in 1 .. n |-> synced[j]]
        BY <1>2
    <2> HIDE DEF synced
    <2> QED
        BY <2>1, SequenceOf
\* A parameter that is kept is one that the author gave its type.
<1>4. \A j \in DOMAIN new.params : synced[j].type = R!TypeName[new.params[j]]
    <2> SUFFICES ASSUME NEW j \in DOMAIN new.params
                 PROVE  R!SyncParam(old, new, user, j).type = R!TypeName[new.params[j]]
        OBVIOUS
    <2>1. CASE R!Reused(old, new, user, j)
        <3>1. j \in DOMAIN user /\ j \in DOMAIN old.params /\ old.params[j] = new.params[j]
            BY <2>1 DEF R!Reused, R!Kept
        <3>2. user[j].type = R!TypeName[old.params[j]]
            BY <3>1 DEF R!AsWritten
        <3> QED
            BY <2>1, <3>1, <3>2 DEF R!SyncParam
    <2>2. CASE ~R!Reused(old, new, user, j)
        BY <2>2 DEF R!SyncParam
    <2> QED
        BY <2>1, <2>2
<1>5. Types(synced) = Captures(new)
    BY <1>4 DEF Types, Captures
<1> HIDE DEF user, synced, state
<1>6. CASE ~h.stateful /\ new.params = << >>
    <2>1. R!HandlerSync(h, old, new) = h
        BY <1>6 DEF R!HandlerSync
    <2> QED
        BY <1>6, <2>1 DEF Fits
<1>7. CASE ~(~h.stateful /\ new.params = << >>)
    <2> DEFINE g == R!HandlerSync(h, old, new)
    <2>1. g = [h EXCEPT !.params = state \o synced]
        BY <1>7 DEF R!HandlerSync, user, synced, state
    <2>2. g.stateful = h.stateful /\ g.params = state \o synced
        BY <1>1, <2>1
    <2>3. CASE h.stateful
        <3>1. PICK x : state = <<x>>
            BY <2>3 DEF state, R!StateParam
        <3>2. g.params # << >> /\ Tail(g.params) = synced
            BY <1>3, <2>2, <3>1, WithoutFirst
        <3>3. R!UserParams(g) = synced
            BY <2>2, <2>3, <3>2 DEF R!UserParams
        <3> QED
            BY <1>5, <3>3 DEF Fits
    <2>4. CASE ~h.stateful
        <3>1. state = << >>
            BY <2>4 DEF state, R!StateParam
        <3>2. g.params = synced
            BY <1>3, <2>2, <3>1
        <3>3. R!UserParams(g) = synced
            BY <2>2, <2>4, <3>2 DEF R!UserParams
        <3> QED
            BY <1>5, <3>3 DEF Fits
    <2> QED
        BY <1>1, <2>3, <2>4
<1> QED
    BY <1>6, <1>7

--------------------------------------------------------------------------------
\* What is to be done and what has been done.
Shifted(o) == <<o, "above">> \in typed
Promised == plan.by = "planRename" \/ R!Rewords

Rewritten(new, old) ==
    /\ [j \in DOMAIN new |-> new[j].type] = plan.new.params
    /\ \A j \in DOMAIN plan.new.params :
          R!Kept(plan.old, plan.new, j) => new[j] = old[j]

\* Every sentence of the definition in an oath, and no other, is a site: one with the values
\* it has, or one that was rendered with them.
SitesOf(o) ==
    /\ \A s \in plan.matches \cup edits : s.oath = o =>
          s.line \in DOMAIN docs[o] /\ R!Speaks(docs[o][s.line], plan.old)
    /\ \A l \in DOMAIN docs[o] : R!Speaks(docs[o][l], plan.old) =>
          \E s \in plan.matches \cup edits : s.oath = o /\ s.line = l
    /\ \A m \in plan.matches : m.oath = o => m.values = R!ParamValues(docs[o][m.line])
    /\ \A e \in edits : e.oath = o /\ ~R!BoundTo(docs[o][e.line]) =>
          Rewritten(e.values, docs[o][e.line].values)

\* Sites are lines of oaths, no two of them one line.
Sites(T) ==
    /\ \A m \in T : m.oath \in R!OathSet /\ m.line \in Nat
    /\ \A m, n \in T : m.oath = n.oath /\ m.line = n.line => m = n

BeforeEdits ==
    /\ phase \in {"idle", "naming", "filling", "applied"}
    /\ phase # "applied" =>
          /\ docs = written /\ docs \in [R!OathSet -> Seq(Sentence)]
          /\ expression \in Expressions /\ handler \in Handlers /\ R!AsWritten

Planned ==
    phase = "filling" =>
        /\ plan = [by |-> plan.by, old |-> plan.old, new |-> plan.new,
                   matches |-> plan.matches, handler |-> plan.handler]
        /\ plan.old = expression /\ plan.new \in Expressions
        /\ plan.by = "planRename" => Fits(plan.handler, plan.new)
        /\ Sites(plan.matches)
        /\ \A j \in DOMAIN answers : answers[j].type = plan.new.params[j]

SitesHold ==
    phase = "filling" /\ Promised => \A o \in R!OathSet : ~Shifted(o) => SitesOf(o)

RenameInv == BeforeEdits /\ Planned /\ SitesHold /\ R!StaysRunnable /\ R!HandlerFits

\* The first of some sites is one of them.
LEMMA FirstIsOne ==
    ASSUME NEW T, T # {}, Sites(T)
    PROVE  R!First(T) \in T
<1> DEFINE J == {j \in DOMAIN Oaths : \E m \in T : m.oath = Oaths[j]}
<1>1. J \in SUBSET Nat
    BY RenameAssumption
<1>2. J # {}
    BY DEF Sites, R!OathSet, R!ToSet
<1> HIDE DEF J
<1>3. PICK j \in J : \A k \in J : j <= k
    BY <1>1, <1>2, Least
<1> DEFINE K == {m.line : m \in {n \in T : n.oath = Oaths[j]}}
<1>4. K \in SUBSET Nat
    BY DEF Sites
<1>5. K # {}
    BY <1>3 DEF J
<1> HIDE DEF K
<1>6. PICK l \in K : \A k \in K : l <= k
    BY <1>4, <1>5, Least
<1>7. PICK m \in T : m.oath = Oaths[j] /\ m.line = l
    BY <1>6 DEF K
<1>8. ASSUME NEW n \in T, m # n PROVE R!Precedes(m, n)
    <2>1. PICK k \in DOMAIN Oaths : Oaths[k] = n.oath
        BY DEF Sites, R!OathSet, R!ToSet
    <2>2. k \in J /\ j \in DOMAIN Oaths /\ j \in Nat /\ k \in Nat
        BY <1>1, <1>3, <2>1 DEF J
    <2>3. CASE n.oath = m.oath
        <3>1. n.line \in K
            BY <1>7, <2>3 DEF K
        <3>2. m.line <= n.line /\ m.line \in Nat /\ n.line \in Nat /\ m.line # n.line
            BY <1>4, <1>6, <1>7, <1>8, <2>3, <3>1 DEF Sites
        <3> QED
            BY <1>7, <2>2, <2>3, <3>2 DEF R!Precedes
    <2>4. CASE n.oath # m.oath
        <3>1. j < k
            BY <1>3, <1>7, <2>1, <2>2, <2>4
        <3> QED
            BY <1>7, <2>1, <2>2, <3>1 DEF R!Precedes
    <2> QED
        BY <2>3, <2>4
<1>9. \E x \in T : \A n \in T : x = n \/ R!Precedes(x, n)
    BY <1>8
<1> QED
    BY <1>9 DEF R!First

\* The matches of the index are the sentences of the definition.
LEMMA MatchesAreSites ==
    ASSUME docs \in [R!OathSet -> Seq(Sentence)]
    PROVE  /\ Sites(R!Matches)
           /\ \A m \in R!Matches :
                 /\ m.oath \in R!OathSet /\ m.line \in DOMAIN docs[m.oath]
                 /\ R!Speaks(docs[m.oath][m.line], expression)
                 /\ m.values = R!ParamValues(docs[m.oath][m.line])
           /\ \A o \in R!OathSet : \A l \in DOMAIN docs[o] :
                 R!Speaks(docs[o][l], expression) =>
                     \E m \in R!Matches : m.oath = o /\ m.line = l
<1>1. ASSUME NEW m \in R!Matches
      PROVE  \E o \in R!OathSet : \E l \in DOMAIN docs[o] :
                 /\ R!Speaks(docs[o][l], expression)
                 /\ m = [oath |-> o, line |-> l, values |-> R!ParamValues(docs[o][l])]
    BY <1>1 DEF R!Matches, R!MatchesIn
<1>2. \A m \in R!Matches :
          /\ m.oath \in R!OathSet /\ m.line \in DOMAIN docs[m.oath]
          /\ R!Speaks(docs[m.oath][m.line], expression)
          /\ m.values = R!ParamValues(docs[m.oath][m.line])
          /\ m = [oath |-> m.oath, line |-> m.line, values |-> m.values]
    <2> SUFFICES ASSUME NEW m \in R!Matches
                 PROVE  /\ m.oath \in R!OathSet /\ m.line \in DOMAIN docs[m.oath]
                        /\ R!Speaks(docs[m.oath][m.line], expression)
                        /\ m.values = R!ParamValues(docs[m.oath][m.line])
                        /\ m = [oath |-> m.oath, line |-> m.line, values |-> m.values]
        OBVIOUS
    <2>1. PICK o \in R!OathSet : \E l \in DOMAIN docs[o] :
              /\ R!Speaks(docs[o][l], expression)
              /\ m = [oath |-> o, line |-> l, values |-> R!ParamValues(docs[o][l])]
        BY <1>1
    <2>2. PICK l \in DOMAIN docs[o] :
              /\ R!Speaks(docs[o][l], expression)
              /\ m = [oath |-> o, line |-> l, values |-> R!ParamValues(docs[o][l])]
        BY <2>1
    <2>3. m.oath = o /\ m.line = l /\ m.values = R!ParamValues(docs[o][l])
        BY <2>2
    <2> QED
        BY <2>2, <2>3
<1>3. \A m \in R!Matches : m.line \in Nat
    <2> SUFFICES ASSUME NEW m \in R!Matches PROVE m.line \in Nat
        OBVIOUS
    <2>1. docs[m.oath] \in Seq(Sentence) /\ m.line \in DOMAIN docs[m.oath]
        BY <1>2
    <2> QED
        BY <2>1
<1>4. \A m, n \in R!Matches : m.oath = n.oath /\ m.line = n.line => m = n
    <2> SUFFICES ASSUME NEW m \in R!Matches, NEW n \in R!Matches,
                        m.oath = n.oath, m.line = n.line
                 PROVE  m = n
        OBVIOUS
    <2>1. m.values = n.values
        BY <1>2
    <2>2. /\ m = [oath |-> m.oath, line |-> m.line, values |-> m.values]
          /\ n = [oath |-> n.oath, line |-> n.line, values |-> n.values]
        BY <1>2
    <2> QED
        BY <2>1, <2>2
<1>5. \A o \in R!OathSet : \A l \in DOMAIN docs[o] :
          R!Speaks(docs[o][l], expression) =>
              \E m \in R!Matches : m.oath = o /\ m.line = l
    <2> SUFFICES ASSUME NEW o \in R!OathSet, NEW l \in DOMAIN docs[o],
                        R!Speaks(docs[o][l], expression)
                 PROVE  \E m \in R!Matches : m.oath = o /\ m.line = l
        OBVIOUS
    <2>1. [oath |-> o, line |-> l, values |-> R!ParamValues(docs[o][l])] \in R!Matches
        BY DEF R!Matches, R!MatchesIn
    <2> QED
        BY <2>1
<1> QED
    BY <1>2, <1>3, <1>4, <1>5 DEF Sites

--------------------------------------------------------------------------------
\* A step before the edits are made: it has to keep the sites only.
LEMMA NotYetApplied ==
    ASSUME BeforeEdits', Planned', SitesHold', phase' # "applied"
    PROVE  RenameInv'
BY DEF RenameInv, R!StaysRunnable, R!HandlerFits, R!Renamed

LEMMA NamingKeeps ==
    ASSUME RenameInv, R!Prepare \/ R!NothingToRename \/ R!Escape
    PROVE  RenameInv'
<1>1. phase \in {"idle", "naming", "filling"} /\ phase' \in {"idle", "naming"}
    BY DEF R!Prepare, R!NothingToRename, R!Escape, R!Asking
<1>2. /\ docs' = docs /\ written' = written /\ expression' = expression
      /\ handler' = handler
    BY DEF R!Prepare, R!NothingToRename, R!Escape
<1>3. BeforeEdits'
    BY <1>1, <1>2 DEF RenameInv, BeforeEdits, R!AsWritten
<1> QED
    BY <1>1, <1>3, NotYetApplied DEF Planned, SitesHold

\* What a plan says at its beginning, for each of its sites: nothing is rendered yet.
LEMMA PlanRenameKeeps ==
    ASSUME RenameInv, NEW new \in Expressions, R!PlanRename(new)
    PROVE  RenameInv'
<1>1. /\ phase = "naming" /\ phase' = "filling" /\ edits' = {} /\ answers' = << >>
      /\ plan' = [by |-> "planRename", old |-> expression, new |-> new,
                  matches |-> R!Matches,
                  handler |-> R!HandlerSync(handler, expression, new)]
      /\ docs' = docs /\ written' = written /\ expression' = expression
      /\ handler' = handler /\ typed' = typed
    BY DEF R!PlanRename
<1>2. /\ plan'.by = "planRename" /\ plan'.old = expression /\ plan'.new = new
      /\ plan'.matches = R!Matches
      /\ plan'.handler = R!HandlerSync(handler, expression, new)
    BY <1>1
<1>3. /\ docs \in [R!OathSet -> Seq(Sentence)] /\ docs = written
      /\ expression \in Expressions /\ handler \in Handlers /\ R!AsWritten
    BY <1>1 DEF RenameInv, BeforeEdits
<1>4. BeforeEdits'
    BY <1>1, <1>3 DEF BeforeEdits, R!AsWritten
<1>5. Sites(R!Matches) /\ Fits(R!HandlerSync(handler, expression, new), new)
    BY <1>3, MatchesAreSites, SyncFits
<1>6. Planned'
    <2>1. plan' = [by |-> plan'.by, old |-> plan'.old, new |-> plan'.new,
                   matches |-> plan'.matches, handler |-> plan'.handler]
        BY <1>1, <1>2
    <2>2. Sites(plan'.matches)
        BY <1>2, <1>5
    <2>3. Fits(plan'.handler, plan'.new)
        BY <1>2, <1>5
    <2>4. \A j \in DOMAIN answers' : answers'[j].type = plan'.new.params[j]
        BY <1>1
    <2>5. Sites(plan.matches)'
        BY <2>2 DEF Sites
    <2>6. Fits(plan.handler, plan.new)'
        BY <2>3 DEF Fits, Types, Captures
    <2> QED
        BY <1>1, <1>2, <2>1, <2>4, <2>5, <2>6 DEF Planned
<1>7. ASSUME NEW o \in R!OathSet PROVE SitesOf(o)'
    <2>1. \A s \in plan'.matches \cup edits' : s.oath = o =>
              s.line \in DOMAIN docs'[o] /\ R!Speaks(docs'[o][s.line], plan'.old)
        BY <1>1, <1>2, <1>3, MatchesAreSites
    <2>2. \A l \in DOMAIN docs'[o] : R!Speaks(docs'[o][l], plan'.old) =>
              \E s \in plan'.matches \cup edits' : s.oath = o /\ s.line = l
        BY <1>1, <1>2, <1>3, MatchesAreSites
    <2>3. \A m \in plan'.matches : m.oath = o => m.values = R!ParamValues(docs'[o][m.line])
        BY <1>1, <1>2, <1>3, MatchesAreSites
    <2> QED
        BY <1>1, <2>1, <2>2, <2>3 DEF SitesOf
<1>8. SitesHold'
    BY <1>7 DEF SitesHold
<1> QED
    BY <1>1, <1>4, <1>6, <1>8, NotYetApplied

LEMMA AnswerKeeps ==
    ASSUME RenameInv, NEW v \in Answers, R!Answer(v)
    PROVE  RenameInv'
<1>1. /\ phase = "filling" /\ phase' = "filling" /\ edits' = edits /\ plan' = plan
      /\ docs' = docs /\ written' = written /\ expression' = expression
      /\ handler' = handler /\ typed' = typed
    BY DEF R!Answer, R!Asking
<1>2. BeforeEdits'
    BY <1>1 DEF RenameInv, BeforeEdits, R!AsWritten
<1>3. PICK j : /\ v.type = plan.new.params[j]
               /\ answers' = [k \in DOMAIN answers \cup {j} |->
                                  IF k = j THEN v ELSE answers[k]]
    BY DEF R!Answer
<1>4. \A k \in DOMAIN answers' : answers'[k].type = plan'.new.params[k]
    BY <1>1, <1>3 DEF RenameInv, Planned
<1>5. Planned'
    BY <1>1, <1>4 DEF RenameInv, Planned, Sites, Fits, Types, Captures
<1>6. ASSUME Promised', NEW o \in R!OathSet, ~Shifted(o)' PROVE SitesOf(o)'
    <2>1. SitesOf(o)
        BY <1>1, <1>6 DEF RenameInv, SitesHold, Promised, Shifted, R!Rewords
    <2> QED
        BY <1>1, <2>1 DEF SitesOf, Rewritten
<1>7. SitesHold'
    BY <1>6 DEF SitesHold
<1> QED
    BY <1>1, <1>2, <1>5, <1>7, NotYetApplied

\* All at once: what is kept of a sentence is all that it has.
LEMMA RenameStepKeeps ==
    ASSUME RenameInv, NEW new \in Expressions, R!RenameStep(new)
    PROVE  RenameInv'
<1> DEFINE E == {[oath |-> m.oath, line |-> m.line, values |-> m.values] : m \in R!Matches}
<1>1. /\ phase = "idle" /\ phase' = "filling" /\ edits' = E /\ answers' = << >>
      /\ plan' = [by |-> "renameStep", old |-> expression, new |-> new,
                  matches |-> {}, handler |-> handler]
      /\ docs' = docs /\ written' = written /\ expression' = expression
      /\ handler' = handler /\ typed' = typed
    BY DEF R!RenameStep
<1>2. /\ plan'.by = "renameStep" /\ plan'.old = expression /\ plan'.new = new
      /\ plan'.matches = {} /\ plan'.handler = handler
    BY <1>1
<1>3. /\ docs \in [R!OathSet -> Seq(Sentence)] /\ docs = written
      /\ expression \in Expressions /\ handler \in Handlers /\ R!AsWritten
    BY <1>1 DEF RenameInv, BeforeEdits
<1>4. BeforeEdits'
    BY <1>1, <1>3 DEF BeforeEdits, R!AsWritten
<1>5. \A e \in E : \E m \in R!Matches :
          e.oath = m.oath /\ e.line = m.line /\ e.values = m.values
    OBVIOUS
<1>6. \A m \in R!Matches : \E e \in E : e.oath = m.oath /\ e.line = m.line
    <2> SUFFICES ASSUME NEW m \in R!Matches
                 PROVE  \E e \in E : e.oath = m.oath /\ e.line = m.line
        OBVIOUS
    <2>1. [oath |-> m.oath, line |-> m.line, values |-> m.values] \in E
        OBVIOUS
    <2> HIDE DEF E
    <2> QED
        BY <2>1
<1> HIDE DEF E
<1>7. Planned'
    <2>1. plan' = [by |-> plan'.by, old |-> plan'.old, new |-> plan'.new,
                   matches |-> plan'.matches, handler |-> plan'.handler]
        BY <1>1, <1>2
    <2>2. Sites(plan.matches)'
        BY <1>2 DEF Sites
    <2>3. \A j \in DOMAIN answers' : answers'[j].type = plan'.new.params[j]
        BY <1>1
    <2>4. plan'.by # "planRename"
        BY <1>2
    <2> QED
        BY <1>1, <1>2, <2>1, <2>2, <2>3, <2>4 DEF Planned
<1>8. ASSUME Promised', NEW o \in R!OathSet PROVE SitesOf(o)'
    <2>1. expression.params = new.params
        BY <1>2, <1>8 DEF Promised, R!Rewords
    <2>2. \A s \in plan'.matches \cup edits' : s.oath = o =>
              s.line \in DOMAIN docs'[o] /\ R!Speaks(docs'[o][s.line], plan'.old)
        BY <1>1, <1>2, <1>3, <1>5, MatchesAreSites
    <2>3. \A l \in DOMAIN docs'[o] : R!Speaks(docs'[o][l], plan'.old) =>
              \E s \in plan'.matches \cup edits' : s.oath = o /\ s.line = l
        BY <1>1, <1>2, <1>3, <1>6, MatchesAreSites
    <2>4. ASSUME NEW e \in edits', e.oath = o, ~R!BoundTo(docs'[o][e.line])
          PROVE  Rewritten(e.values, docs[o][e.line].values)'
        <3>1. PICK m \in R!Matches :
                  e.oath = m.oath /\ e.line = m.line /\ e.values = m.values
            BY <1>1, <1>5, <2>4
        <3>2. e.values = docs[o][e.line].values
            <4>1. m.oath = o /\ m.line = e.line /\ ~R!BoundTo(docs[o][e.line])
                BY <1>1, <2>4, <3>1
            <4>2. m.values = R!ParamValues(docs[o][e.line])
                BY <1>3, <4>1, MatchesAreSites
            <4> QED
                BY <3>1, <4>1, <4>2 DEF R!ParamValues
        <3>3. R!Speaks(docs[o][e.line], expression)
            BY <1>3, <2>4, <3>1, MatchesAreSites
        <3>4. [j \in DOMAIN e.values |-> e.values[j].type] = new.params
            BY <2>1, <3>2, <3>3 DEF R!Speaks
        <3> QED
            BY <1>1, <1>2, <3>2, <3>4 DEF Rewritten
    <2> QED
        BY <1>2, <2>2, <2>3, <2>4 DEF SitesOf
<1>9. SitesHold'
    BY <1>8 DEF SitesHold
<1> QED
    BY <1>1, <1>4, <1>7, <1>9, NotYetApplied

\* The values for a site are what its sentence keeps, and answers of the types that are new.
LEMMA RenderKeeps ==
    ASSUME RenameInv, R!Render
    PROVE  RenameInv'
<1> DEFINE site == R!First(plan.matches)
           values == R!ValuesFor(site)
           edit == [oath |-> site.oath, line |-> site.line, values |-> values]
<1>1. /\ phase = "filling" /\ phase' = "filling" /\ edits' = edits \cup {edit}
      /\ plan' = [plan EXCEPT !.matches = plan.matches \ {site}] /\ answers' = << >>
      /\ docs' = docs /\ written' = written /\ expression' = expression
      /\ handler' = handler /\ typed' = typed
      /\ plan.by = "planRename" /\ plan.matches # {} /\ R!Unanswered = {}
    BY DEF R!Render
<1>2. Sites(plan.matches) /\ plan.new \in Expressions
    BY <1>1 DEF RenameInv, Planned
<1>3. site \in plan.matches
    BY <1>1, <1>2, FirstIsOne
<1>4. edit.oath = site.oath /\ edit.line = site.line /\ edit.values = values
    OBVIOUS
<1> HIDE DEF site, edit
<1>5. plan = [by |-> plan.by, old |-> plan.old, new |-> plan.new,
              matches |-> plan.matches, handler |-> plan.handler]
    BY <1>1 DEF RenameInv, Planned
<1>6. plan' = [by |-> plan.by, old |-> plan.old, new |-> plan.new,
               matches |-> plan.matches \ {site}, handler |-> plan.handler]
    BY <1>1, <1>5
<1>7. /\ plan'.by = plan.by /\ plan'.old = plan.old /\ plan'.new = plan.new
      /\ plan'.matches = plan.matches \ {site} /\ plan'.handler = plan.handler
    BY <1>6
<1>8. BeforeEdits'
    BY <1>1 DEF RenameInv, BeforeEdits, R!AsWritten
<1>9. Planned'
    <2>1. Sites(plan.matches)'
        BY <1>2, <1>7 DEF Sites
    <2>2. plan' = [by |-> plan'.by, old |-> plan'.old, new |-> plan'.new,
                   matches |-> plan'.matches, handler |-> plan'.handler]
        BY <1>6, <1>7
    <2>3. Fits(plan.handler, plan.new)'
        BY <1>1, <1>7 DEF RenameInv, Planned, Fits, Types, Captures
    <2>4. \A j \in DOMAIN answers' : answers'[j].type = plan'.new.params[j]
        BY <1>1
    <2>5. plan'.old = expression' /\ plan'.new \in Expressions
        BY <1>1, <1>7 DEF RenameInv, Planned
    <2> QED
        BY <2>1, <2>2, <2>3, <2>4, <2>5 DEF Planned
<1>10. ASSUME NEW o \in R!OathSet, ~Shifted(o)' PROVE SitesOf(o)'
    <2>1. SitesOf(o)
        BY <1>1, <1>10 DEF RenameInv, SitesHold, Promised, Shifted
    <2>2. \A s \in plan'.matches \cup edits' : s.oath = o =>
              s.line \in DOMAIN docs'[o] /\ R!Speaks(docs'[o][s.line], plan'.old)
        BY <1>1, <1>3, <1>4, <1>7, <2>1 DEF SitesOf
    <2>3. \A l \in DOMAIN docs'[o] : R!Speaks(docs'[o][l], plan'.old) =>
              \E s \in plan'.matches \cup edits' : s.oath = o /\ s.line = l
        <3> SUFFICES ASSUME NEW l \in DOMAIN docs[o], R!Speaks(docs[o][l], plan.old)
                     PROVE  \E s \in plan'.matches \cup edits' : s.oath = o /\ s.line = l
            BY <1>1, <1>7
        <3>1. PICK s \in plan.matches \cup edits : s.oath = o /\ s.line = l
            BY <2>1 DEF SitesOf
        <3>2. CASE s = site
            BY <1>1, <1>4, <3>1, <3>2
        <3>3. CASE s # site
            BY <1>1, <1>7, <3>1, <3>3
        <3> QED
            BY <3>2, <3>3
    <2>4. \A m \in plan'.matches : m.oath = o => m.values = R!ParamValues(docs'[o][m.line])
        BY <1>1, <1>7, <2>1 DEF SitesOf
    <2>5. ASSUME NEW e \in edits', e.oath = o, ~R!BoundTo(docs'[o][e.line])
          PROVE  Rewritten(e.values, docs[o][e.line].values)'
        <3>1. CASE e \in edits
            BY <1>1, <1>7, <2>1, <2>5, <3>1 DEF SitesOf, Rewritten
        <3>2. CASE e = edit
            <4> DEFINE old == docs[o][e.line].values
            <4>1. site.oath = o /\ site.line = e.line
                BY <1>4, <2>5, <3>2
            <4>2. R!Speaks(docs[o][e.line], plan.old) /\ ~R!BoundTo(docs[o][e.line])
                BY <1>1, <1>3, <2>1, <2>5, <4>1 DEF SitesOf
            <4>3. site.values = old
                BY <1>3, <2>1, <4>1, <4>2 DEF SitesOf, R!ParamValues
            <4>4. [j \in DOMAIN old |-> old[j].type] = plan.old.params
                BY <4>2 DEF R!Speaks
            <4> HIDE DEF old
            <4>5. ASSUME NEW j \in DOMAIN plan.new.params, R!Kept(plan.old, plan.new, j)
                  PROVE  values[j] = old[j] /\ values[j].type = plan.new.params[j]
                <5>1. j \in DOMAIN plan.old.params /\ plan.old.params[j] = plan.new.params[j]
                    BY <4>5 DEF R!Kept
                <5>2. j \in DOMAIN old /\ old[j].type = plan.old.params[j]
                    BY <4>4, <5>1
                <5>3. values[j] = site.values[j]
                    BY <4>3, <4>5, <5>2 DEF R!ValuesFor
                <5> QED
                    BY <4>3, <5>1, <5>2, <5>3
            <4>6. ASSUME NEW j \in DOMAIN plan.new.params, ~R!Kept(plan.old, plan.new, j)
                  PROVE  values[j].type = plan.new.params[j]
                <5>1. j \in DOMAIN answers
                    BY <1>1, <4>6 DEF R!Unanswered, R!Prompts
                <5>2. values[j] = answers[j]
                    BY <4>6 DEF R!ValuesFor
                <5> QED
                    BY <1>1, <5>1, <5>2 DEF RenameInv, Planned
            <4>7. DOMAIN values = DOMAIN plan.new.params
                BY DEF R!ValuesFor
            <4> HIDE DEF values
            <4>8. plan.new.params \in Seq(DOMAIN R!TypeName)
                BY <1>2, RenameAssumption
            <4>9. [j \in DOMAIN values |-> values[j].type] = plan.new.params
                BY <4>5, <4>6, <4>7, <4>8
            <4>10. e.values = values /\ docs'[o][e.line].values = old
                BY <1>1, <1>4, <3>2 DEF old
            <4> QED
                BY <1>7, <4>5, <4>9, <4>10 DEF Rewritten
        <3> QED
            BY <1>1, <2>5, <3>1, <3>2
    <2> QED
        BY <2>2, <2>3, <2>4, <2>5 DEF SitesOf
<1>11. SitesHold'
    BY <1>10 DEF SitesHold
<1> QED
    BY <1>1, <1>8, <1>9, <1>11, NotYetApplied

\* What is typed is no sentence, and below the others it moves none of them.
LEMMA TypeLineKeeps ==
    ASSUME RenameInv, NEW p \in R!OathSet, NEW place \in {"above", "below"},
           R!TypeLine(p, place)
    PROVE  RenameInv'
<1> DEFINE new == IF place = "above" THEN <<R!Prose>> \o docs[p]
                  ELSE Append(docs[p], R!Prose)
<1>1. /\ phase = "filling" /\ phase' = "filling" /\ edits' = edits /\ plan' = plan
      /\ answers' = answers /\ expression' = expression /\ handler' = handler
      /\ typed' = typed \cup {<<p, place>>}
    BY DEF R!TypeLine, R!Asking
<1>2. docs \in [R!OathSet -> Seq(Sentence)] /\ docs = written
    BY <1>1 DEF RenameInv, BeforeEdits
<1>3. docs' = [docs EXCEPT ![p] = new] /\ written' = docs'
    BY <1>2 DEF R!TypeLine
<1>4. R!Prose \in Sentence
    <2> DEFINE V == Seq([type : STRING, value : Int])
               H == Seq(STRING)
               nothing == << >>
    <2>1. /\ nothing \in V /\ nothing \in H
          /\ R!Prose = [wording |-> "prose", values |-> nothing, headers |-> nothing]
        BY EmptySeq DEF R!Prose
    <2> HIDE DEF V, H, nothing
    <2>2. R!Prose \in [wording : DOMAIN Words, values : V, headers : H]
        BY <2>1, RenameAssumption
    <2> QED
        BY <2>2 DEF Sentence, V, H
<1>5. docs[p] \in Seq(Sentence)
    BY <1>2
<1>6. new \in Seq(Sentence)
    BY <1>4, <1>5
<1>7. place = "below" =>
          /\ DOMAIN new = DOMAIN docs[p] \cup {Len(docs[p]) + 1}
          /\ \A l \in DOMAIN docs[p] : new[l] = docs[p][l]
          /\ new[Len(docs[p]) + 1] = R!Prose
    BY <1>4, <1>5
<1> HIDE DEF new
<1>8. BeforeEdits'
    BY <1>1, <1>2, <1>3, <1>6 DEF RenameInv, BeforeEdits, R!AsWritten
<1>9. Planned'
    BY <1>1 DEF RenameInv, Planned, Sites, Fits, Types, Captures
<1>10. ~R!Speaks(R!Prose, plan.old)
    <2>1. plan.old \in Expressions
        BY <1>1 DEF RenameInv, Planned, BeforeEdits
    <2> QED
        BY <2>1, RenameAssumption DEF R!Speaks, R!Prose
<1>11. ASSUME Promised', NEW o \in R!OathSet, ~Shifted(o)' PROVE SitesOf(o)'
    <2>1. SitesOf(o)
        BY <1>1, <1>11 DEF RenameInv, SitesHold, Promised, Shifted, R!Rewords
    <2>2. CASE o # p
        <3>1. docs'[o] = docs[o]
            BY <1>2, <1>3, <2>2
        <3> QED
            BY <1>1, <2>1, <3>1 DEF SitesOf, Rewritten
    <2>3. CASE o = p
        <3>1. place = "below"
            BY <1>1, <1>11, <2>3 DEF Shifted
        <3>2. /\ DOMAIN docs'[o] = DOMAIN docs[o] \cup {Len(docs[p]) + 1}
              /\ \A l \in DOMAIN docs[o] : docs'[o][l] = docs[o][l]
              /\ docs'[o][Len(docs[p]) + 1] = R!Prose
            BY <1>2, <1>3, <1>7, <2>3, <3>1
        <3>3. \A s \in plan.matches \cup edits : s.oath = o => s.line \in DOMAIN docs[o]
            BY <2>1 DEF SitesOf
        <3>4. \A l \in DOMAIN docs'[o] : R!Speaks(docs'[o][l], plan.old) => l \in DOMAIN docs[o]
            BY <1>10, <3>2
        <3>5. \A s \in plan'.matches \cup edits' : s.oath = o =>
                  s.line \in DOMAIN docs'[o] /\ R!Speaks(docs'[o][s.line], plan'.old)
            BY <1>1, <2>1, <3>2, <3>3 DEF SitesOf
        <3>6. \A l \in DOMAIN docs'[o] : R!Speaks(docs'[o][l], plan'.old) =>
                  \E s \in plan'.matches \cup edits' : s.oath = o /\ s.line = l
            BY <1>1, <2>1, <3>2, <3>4 DEF SitesOf
        <3>7. \A m \in plan'.matches : m.oath = o =>
                  m.values = R!ParamValues(docs'[o][m.line])
            BY <1>1, <2>1, <3>2, <3>3 DEF SitesOf
        <3>8. \A e \in edits' : e.oath = o /\ ~R!BoundTo(docs'[o][e.line]) =>
                  Rewritten(e.values, docs[o][e.line].values)'
            BY <1>1, <2>1, <3>2, <3>3 DEF SitesOf, Rewritten
        <3> QED
            BY <3>5, <3>6, <3>7, <3>8 DEF SitesOf
    <2> QED
        BY <2>2, <2>3
<1>12. SitesHold'
    BY <1>11 DEF SitesHold
<1> QED
    BY <1>1, <1>8, <1>9, <1>12, NotYetApplied

\* What the editor makes of the sentences, when every one of them has its site.
LEMMA ApplyKeeps ==
    ASSUME RenameInv, R!Apply
    PROVE  RenameInv'
<1>1. /\ phase = "filling" /\ phase' = "applied" /\ plan.matches = {}
      /\ docs' = [o \in R!OathSet |-> [l \in DOMAIN docs[o] |-> R!Edited(o, l)]]
      /\ expression' = plan.new /\ handler' = plan.handler
      /\ plan' = plan /\ edits' = edits /\ written' = written /\ typed' = typed
    BY DEF R!Apply
<1>2. /\ docs = written /\ plan.old = expression /\ plan.new \in Expressions
      /\ plan.by = "planRename" => Fits(plan.handler, plan.new)
    BY <1>1 DEF RenameInv, BeforeEdits, Planned
<1>3. R!HandlerFits'
    <2>1. plan.by = "planRename" => Fits(handler, expression)'
        BY <1>1, <1>2 DEF Fits, Types, Captures
    <2>2. R!UserParams(handler)' = R!UserParams(handler')
        BY DEF R!UserParams
    <2> QED
        BY <1>1, <2>1, <2>2 DEF R!HandlerFits, Fits, Types, Captures
<1>4. ASSUME Promised, NEW o \in R!OathSet, ~Shifted(o), NEW l \in DOMAIN written[o]
      PROVE  IF ~R!Speaks(written[o][l], plan.old) THEN docs'[o][l] = written[o][l]
             ELSE ~R!BoundTo(written[o][l]) =>
                  /\ plan.new.plain => R!Speaks(docs'[o][l], plan.new)
                  /\ \A j \in DOMAIN plan.new.params :
                        R!Kept(plan.old, plan.new, j) =>
                            docs'[o][l].values[j] = written[o][l].values[j]
    <2>1. SitesOf(o) /\ l \in DOMAIN docs[o]
        BY <1>1, <1>2, <1>4 DEF RenameInv, SitesHold
    <2>2. docs'[o][l] = R!Edited(o, l)
        BY <1>1, <2>1
    <2>3. CASE ~R!Speaks(written[o][l], plan.old)
        <3>1. ~ \E e \in edits : e.oath = o /\ e.line = l
            BY <1>2, <2>1, <2>3 DEF SitesOf
        <3>2. R!Edited(o, l) = docs[o][l]
            BY <3>1 DEF R!Edited
        <3> QED
            BY <1>2, <2>2, <2>3, <3>2
    <2>4. CASE R!Speaks(written[o][l], plan.old) /\ ~R!BoundTo(written[o][l])
        <3>1. \E e \in edits : e.oath = o /\ e.line = l
            BY <1>1, <1>2, <2>1, <2>4 DEF SitesOf
        <3> DEFINE edit == CHOOSE e \in edits : e.oath = o /\ e.line = l
        <3>2. edit \in edits /\ edit.oath = o /\ edit.line = l
            BY <3>1
        <3>3. R!Edited(o, l) = [wording |-> R!Rendered(plan.new), values |-> edit.values,
                                headers |-> docs[o][l].headers]
            BY <3>1 DEF R!Edited
        <3> HIDE DEF edit
        <3>4. Rewritten(edit.values, docs[o][l].values)
            BY <1>2, <2>1, <2>4, <3>2 DEF SitesOf
        <3>5. /\ docs'[o][l].wording = R!Rendered(plan.new)
              /\ docs'[o][l].values = edit.values
            BY <2>2, <3>3
        <3>6. plan.new.plain => docs'[o][l].wording = plan.new.wording
            BY <3>5 DEF R!Rendered
        <3> QED
            BY <1>2, <2>4, <3>4, <3>5, <3>6 DEF Rewritten, R!Speaks
    <2> QED
        BY <2>3, <2>4
<1>5. R!StaysRunnable'
    <2>1. (plan.by = "planRename" \/ R!Rewords)' => Promised
        BY <1>1 DEF R!Rewords, Promised
    <2>2. ASSUME Promised, NEW o \in R!OathSet, <<o, "above">> \notin typed',
                 NEW l \in DOMAIN written'[o]
          PROVE  IF ~R!Speaks(written'[o][l], plan'.old) THEN docs'[o][l] = written'[o][l]
                 ELSE ~R!BoundTo(written'[o][l]) =>
                      /\ expression'.plain => R!Speaks(docs'[o][l], expression')
                      /\ \A j \in DOMAIN expression'.params :
                            R!Kept(plan'.old, expression', j) =>
                                docs'[o][l].values[j] = written'[o][l].values[j]
        <3>1. ~Shifted(o) /\ l \in DOMAIN written[o]
            BY <1>1, <2>2 DEF Shifted
        <3>2. IF ~R!Speaks(written[o][l], plan.old) THEN docs'[o][l] = written[o][l]
              ELSE ~R!BoundTo(written[o][l]) =>
                  /\ plan.new.plain => R!Speaks(docs'[o][l], plan.new)
                  /\ \A j \in DOMAIN plan.new.params :
                        R!Kept(plan.old, plan.new, j) =>
                            docs'[o][l].values[j] = written[o][l].values[j]
            BY <1>4, <2>2, <3>1
        <3>3. plan' = plan /\ written' = written /\ expression' = plan.new
            BY <1>1
        <3> QED
            BY <3>2, <3>3, Zenon
    <2> QED
        BY <2>1, <2>2, Zenon DEF R!StaysRunnable
<1>6. BeforeEdits' /\ Planned' /\ SitesHold'
    BY <1>1 DEF BeforeEdits, Planned, SitesHold
<1> QED
    BY <1>3, <1>5, <1>6 DEF RenameInv

\* A rename keeps what it has gathered until it is applied, and then what it promised.
LEMMA RenameInvariant == R!Spec => []RenameInv
<1>1. R!Init => RenameInv
    BY RenameAssumption
    DEF R!Init, RenameInv, BeforeEdits, Planned, SitesHold, R!StaysRunnable, R!HandlerFits,
        R!Renamed
<1>2. RenameInv /\ [R!Next]_R!vars => RenameInv'
    <2> SUFFICES ASSUME RenameInv, [R!Next]_R!vars PROVE RenameInv'
        OBVIOUS
    <2>1. CASE R!Prepare \/ R!NothingToRename \/ R!Escape
        BY <2>1, NamingKeeps
    <2>2. CASE \E new \in Expressions : R!PlanRename(new)
        BY <2>2, PlanRenameKeeps
    <2>3. CASE \E new \in Expressions : R!RenameStep(new)
        BY <2>3, RenameStepKeeps
    <2>4. CASE \E v \in Answers : R!Answer(v)
        BY <2>4, AnswerKeeps
    <2>5. CASE R!Render
        BY <2>5, RenderKeeps
    <2>6. CASE R!Apply
        BY <2>6, ApplyKeeps
    <2>7. CASE \E p \in R!OathSet, place \in {"above", "below"} : R!TypeLine(p, place)
        BY <2>7, TypeLineKeeps
    <2>8. CASE UNCHANGED R!vars
        <3>1. /\ docs' = docs /\ expression' = expression /\ handler' = handler
              /\ phase' = phase /\ plan' = plan /\ answers' = answers /\ edits' = edits
              /\ written' = written /\ typed' = typed
            BY <2>8 DEF R!vars
        <3>2. BeforeEdits'
            BY <3>1, Zenon DEF RenameInv, BeforeEdits, R!AsWritten, R!UserParams
        <3>3. Planned'
            BY <3>1, Zenon DEF RenameInv, Planned, Sites, Fits, Types, Captures
        <3>4. SitesHold'
            <4>1. ASSUME NEW o, SitesOf(o) PROVE SitesOf(o)'
                BY <3>1, <4>1 DEF SitesOf, Rewritten
            <4> QED
                BY <3>1, <4>1 DEF RenameInv, SitesHold, Promised, R!Rewords, Shifted
        <3>5. R!StaysRunnable'
            BY <3>1, Zenon DEF RenameInv, R!StaysRunnable, R!Renamed, R!Rewords
        <3>6. R!HandlerFits'
            BY <3>1, Zenon DEF RenameInv, R!HandlerFits, R!Renamed, R!UserParams
        <3> QED
            BY <3>2, <3>3, <3>4, <3>5, <3>6 DEF RenameInv
    <2> QED
        BY <2>1, <2>2, <2>3, <2>4, <2>5, <2>6, <2>7, <2>8 DEF R!Next
<1> QED
    BY <1>1, <1>2, PTL DEF R!Spec

\* What the guide says of a rename, "the oaths stay runnable": a sentence that the
\* definition matched it still matches, with the values that it keeps, and no other sentence
\* changes, whatever the documents, the renames and what is typed meanwhile; with the
\* exceptions that StaysRunnable names, among them that a new expression with optional or
\* alternative text keeps the values only.
THEOREM RenamesStayRunnable == R!Spec => []StaysRunnable
<1>1. RenameInv => StaysRunnable
    BY DEF RenameInv, StaysRunnable
<1> QED
    BY <1>1, RenameInvariant, PTL

\* A handler that took what its expression captures takes, once it is renamed, what the new
\* one captures, however many parameters either has and whichever its author left out.
THEOREM HandlersFollow == R!Spec => []HandlerFits
<1>1. RenameInv => HandlerFits
    BY DEF RenameInv, HandlerFits
<1> QED
    BY <1>1, RenameInvariant, PTL

--------------------------------------------------------------------------------
\* Sentences.

\* Of finitely many numbers there is a first and a last.
LEMMA FirstOf ==
    ASSUME NEW T \in SUBSET Nat, T # {}
    PROVE  S!Min(T) \in T /\ \A n \in T : S!Min(T) <= n
<1>1. \E m \in T : \A n \in T : m <= n
    BY Least
<1> QED
    BY <1>1 DEF S!Min

LEMMA LastOf ==
    ASSUME NEW l \in Nat, NEW T \in SUBSET (0 .. l), T # {}
    PROVE  S!Max(T) \in T /\ \A n \in T : n <= S!Max(T)
<1> DEFINE U == {l - n : n \in T}
<1>1. U \in SUBSET Nat /\ U # {}
    <2>1. PICK n : n \in T
        OBVIOUS
    <2>2. l - n \in U
        BY <2>1
    <2>3. \A m \in T : l - m \in Nat
        OBVIOUS
    <2> QED
        BY <2>2, <2>3
<1> HIDE DEF U
<1>2. PICK u \in U : \A v \in U : u <= v
    BY <1>1, Least
<1>3. PICK m \in T : u = l - m
    BY <1>2 DEF U
<1>4. ASSUME NEW n \in T PROVE n <= m
    <2>1. l - n \in U
        BY DEF U
    <2> QED
        BY <1>2, <1>3, <2>1
<1>5. \E x \in T : \A n \in T : x >= n
    BY <1>4
<1> QED
    BY <1>5 DEF S!Max

\* What an opening delimiter is, and what closes it.
LEMMA ClosersAre ==
    ASSUME NEW t \in Seq(STRING), NEW k \in 1 .. Len(t), S!Opens(t, k)
    PROVE  /\ t[k] \in S!Delimiters
           /\ S!Closer(t, k) \in k + 1 .. Len(t) /\ t[S!Closer(t, k)] = t[k]
<1>1. S!Closers(t, k) \in SUBSET Nat /\ S!Closers(t, k) # {}
    BY DEF S!Opens, S!Closers
<1>2. S!Closer(t, k) \in S!Closers(t, k)
    BY <1>1, FirstOf DEF S!Closer
<1> QED
    BY <1>2 DEF S!Opens, S!Closers

\* The zones from a character on, by those from a later one.
ZonesBy(t, f, k) ==
    IF k > Len(t) THEN {}
    ELSE IF S!Opens(t, k) THEN {k .. S!Closer(t, k)} \cup f[S!Closer(t, k) + 1]
    ELSE f[k + 1]
IsZones(t, f) == f = [k \in Nat |-> ZonesBy(t, f, k)]

\* There are such zones: those that are right from some character on can be made right from
\* the one before it on.
LEMMA ZonesExist ==
    ASSUME NEW t \in Seq(STRING)
    PROVE  \E f : IsZones(t, f)
<1> DEFINE Right(f, n) ==
               f = [k \in Nat |-> f[k]] /\ \A k \in Nat : k >= n => f[k] = ZonesBy(t, f, k)
           l == Len(t) + 1
           Bad == {m \in 0 .. l : ~ \E f : Right(f, l - m)}
<1>1. l \in Nat /\ l = Len(t) + 1
    OBVIOUS
<1>2. Right([k \in Nat |-> {}], l)
    BY DEF ZonesBy
<1>3. ASSUME NEW m \in 1 .. l, NEW f, Right(f, l - m + 1) PROVE \E g : Right(g, l - m)
    <2> DEFINE n == l - m
               g == [k \in Nat |-> IF k = n THEN ZonesBy(t, f, n) ELSE f[k]]
    <2>1. n \in Nat /\ n + 1 = l - m + 1
        BY <1>1
    <2> HIDE DEF n
    <2>2. /\ g = [k \in Nat |-> g[k]] /\ g[n] = ZonesBy(t, f, n)
          /\ \A k \in Nat : k # n => g[k] = f[k]
        BY <2>1
    <2>3. \A k \in Nat : k >= n + 1 => f[k] = ZonesBy(t, f, k)
        BY <1>3, <2>1
    <2> HIDE DEF g
    <2>4. ASSUME NEW k \in Nat, k >= n PROVE ZonesBy(t, g, k) = ZonesBy(t, f, k)
        <3>1. CASE k > Len(t)
            BY <3>1 DEF ZonesBy
        <3>2. CASE k <= Len(t) /\ S!Opens(t, k) /\ k # 0
            <4>1. S!Closer(t, k) \in k + 1 .. Len(t)
                BY <3>2, ClosersAre
            <4>2. g[S!Closer(t, k) + 1] = f[S!Closer(t, k) + 1]
                BY <2>1, <2>2, <2>4, <4>1
            <4> QED
                BY <3>2, <4>2 DEF ZonesBy
        <3>3. CASE k <= Len(t) /\ S!Opens(t, k) /\ k = 0
            <4>1. S!Closers(t, 0) \in SUBSET Nat /\ S!Closers(t, 0) # {}
                BY <3>3 DEF S!Opens, S!Closers
            <4>2. S!Closer(t, 0) \in S!Closers(t, 0)
                BY <4>1, FirstOf DEF S!Closer
            <4>3. S!Closer(t, 0) \in 1 .. Len(t)
                BY <4>2 DEF S!Closers
            <4>4. S!Closer(t, 0) + 1 \in Nat /\ S!Closer(t, 0) + 1 # n
                BY <2>1, <2>4, <3>3, <4>3
            <4>5. g[S!Closer(t, 0) + 1] = f[S!Closer(t, 0) + 1]
                BY <2>2, <4>4
            <4> QED
                BY <3>3, <4>5 DEF ZonesBy
        <3>4. CASE k <= Len(t) /\ ~S!Opens(t, k)
            <4>1. g[k + 1] = f[k + 1]
                BY <2>1, <2>2, <2>4
            <4> QED
                BY <3>4, <4>1 DEF ZonesBy
        <3> QED
            BY <3>1, <3>2, <3>3, <3>4
    <2>5. ASSUME NEW k \in Nat, k >= n PROVE g[k] = ZonesBy(t, g, k)
        <3>1. CASE k = n
            BY <2>2, <2>4, <2>5, <3>1
        <3>2. CASE k # n
            <4>1. k >= n + 1
                BY <2>1, <2>5, <3>2
            <4> QED
                BY <2>2, <2>3, <2>4, <2>5, <3>2, <4>1
        <3> QED
            BY <3>1, <3>2
    <2>6. Right(g, n)
        BY <2>2, <2>5
    <2> QED
        BY <2>6 DEF n
<1> HIDE DEF Right
<1>4. /\ Bad \in SUBSET Nat /\ Bad \subseteq 0 .. l
      /\ \A m \in 0 .. l : m \in Bad <=> ~ \E f : Right(f, l - m)
    BY <1>1
<1> HIDE DEF Bad
<1>5. Bad = {}
    <2> SUFFICES ASSUME Bad # {} PROVE FALSE
        OBVIOUS
    <2>1. PICK m \in Bad : \A n \in Bad : m <= n
        BY <1>4, Least
    <2>2. m # 0
        <3>1. l - 0 = l /\ 0 \in 0 .. l
            BY <1>1
        <3> QED
            BY <1>2, <1>4, <2>1, <3>1
    <2>3. m - 1 \in 0 .. l /\ m \in 1 .. l /\ m - 1 \notin Bad
        BY <1>1, <1>4, <2>1, <2>2
    <2>4. PICK f : Right(f, l - (m - 1))
        BY <1>4, <2>3
    <2>5. l - (m - 1) = l - m + 1
        BY <1>1, <2>3
    <2>6. \E g : Right(g, l - m)
        BY <1>3, <2>3, <2>4, <2>5
    <2> QED
        BY <1>4, <2>1, <2>3, <2>6
<1>6. PICK f : Right(f, 0)
    <2>1. l \in 0 .. l /\ l - l = 0
        BY <1>1
    <2> QED
        BY <1>4, <1>5, <2>1
<1>7. IsZones(t, f)
    <2>1. f = [k \in Nat |-> f[k]] /\ \A k \in Nat : f[k] = ZonesBy(t, f, k)
        BY <1>6 DEF Right
    <2> QED
        BY <2>1 DEF IsZones
<1> QED
    BY <1>7

LEMMA ZonesAre ==
    ASSUME NEW t \in Seq(STRING)
    PROVE  \A k \in Nat : S!ZonesFrom(t)[k] = ZonesBy(t, S!ZonesFrom(t), k)
<1>1. PICK f : IsZones(t, f)
    BY ZonesExist
<1>2. IsZones(t, S!ZonesFrom(t))
    BY <1>1, Zenon DEF IsZones, ZonesBy, S!ZonesFrom
<1> QED
    BY <1>2 DEF IsZones

\* A zone goes from a delimiter to the one that closes it.
IsZone(t, k, z) ==
    \E o \in k .. Len(t) : S!Opens(t, o) /\ z = o .. S!Closer(t, o)

LEMMA ZonesLieAhead ==
    ASSUME NEW t \in Seq(STRING)
    PROVE  \A k \in Nat \ {0} : \A z \in S!ZonesFrom(t)[k] : IsZone(t, k, z)
<1> DEFINE l == Len(t) + 1
           f == S!ZonesFrom(t)
           Bad == {m \in 0 .. Len(t) : \E z \in f[l - m] : ~IsZone(t, l - m, z)}
<1>1. Len(t) \in Nat /\ l = Len(t) + 1
    OBVIOUS
<1>2. \A k \in Nat : f[k] = ZonesBy(t, f, k)
    BY ZonesAre
<1> HIDE DEF f
<1>3. /\ Bad \in SUBSET Nat /\ Bad \subseteq 0 .. Len(t)
      /\ \A m \in 0 .. Len(t) : m \in Bad <=> \E z \in f[l - m] : ~IsZone(t, l - m, z)
    BY <1>1
<1> HIDE DEF Bad
<1>4. Bad = {}
    <2> SUFFICES ASSUME Bad # {} PROVE FALSE
        OBVIOUS
    <2>1. PICK m \in Bad : \A n \in Bad : m <= n
        BY <1>3, Least
    <2> DEFINE k == l - m
    <2>2. k \in Nat /\ k >= 1 /\ k <= l /\ m = l - k
        BY <1>1, <1>3, <2>1
    <2>3. PICK z \in f[k] : ~IsZone(t, k, z)
        BY <1>3, <2>1
    <2> HIDE DEF k
    <2>4. z \in ZonesBy(t, f, k)
        BY <1>2, <2>2, <2>3
    <2>5. ASSUME NEW n \in k + 1 .. l, z \in f[n] PROVE FALSE
        <3>1. l - n \in 0 .. Len(t) /\ l - n < m /\ l - (l - n) = n
            BY <1>1, <2>2, <2>5
        <3>2. l - n \notin Bad
            <4>1. l - n \in Nat /\ m \in Nat
                BY <1>3, <2>1, <3>1
            <4> QED
                BY <2>1, <3>1, <4>1
        <3>3. IsZone(t, n, z)
            BY <1>3, <2>5, <3>1, <3>2
        <3> QED
            BY <1>1, <2>2, <2>3, <2>5, <3>3 DEF IsZone
    <2>6. k <= Len(t)
        BY <1>1, <2>2, <2>4 DEF ZonesBy
    <2>7. CASE ~S!Opens(t, k)
        BY <1>1, <2>2, <2>4, <2>5, <2>6, <2>7 DEF ZonesBy
    <2>8. CASE S!Opens(t, k)
        <3>1. S!Closer(t, k) \in k + 1 .. Len(t)
            BY <2>2, <2>6, <2>8, ClosersAre
        <3>2. S!Closer(t, k) + 1 \in k + 1 .. l
            BY <1>1, <2>2, <3>1
        <3>3. z = k .. S!Closer(t, k)
            BY <2>2, <2>4, <2>5, <2>6, <2>8, <3>2 DEF ZonesBy
        <3> QED
            BY <1>1, <2>2, <2>3, <2>6, <2>8, <3>3 DEF IsZone
    <2> QED
        BY <2>7, <2>8
<1>5. ASSUME NEW k \in Nat \ {0}, NEW z \in f[k] PROVE IsZone(t, k, z)
    <2>1. CASE k > Len(t)
        BY <1>2, <2>1 DEF ZonesBy
    <2>2. CASE k <= Len(t)
        <3>1. l - k \in 0 .. Len(t) /\ l - (l - k) = k
            BY <1>1, <2>2
        <3> QED
            BY <1>3, <1>4, <3>1
    <2> QED
        BY <1>1, <2>1, <2>2
<1> QED
    BY <1>5 DEF f

--------------------------------------------------------------------------------
\* The zones of the text, and how far the marking of them has come: to s, where it goes on
\* or where a delimiter that nothing closes has ended it.
Before(s) == {z \in S!Zones : \A k \in z : k < s}

MarkedTo(s) ==
    /\ S!Zones = Before(s) \cup S!ZonesFrom(text)[s]
    /\ skip = UNION Before(s)
    /\ \/ mark = s
       \/ /\ mark = Len(text) + 1 /\ s <= Len(text)
          /\ text[s] \in S!Delimiters /\ S!Closers(text, s) = {}

MarkInv == \E s \in 1 .. Len(text) + 1 : MarkedTo(s)

Span == [from : Nat, to : Nat]

SplitTyped ==
    /\ text \in Seq(STRING) /\ out \in Seq(Span)
    /\ mark \in 1 .. Len(text) + 1 /\ pos \in 1 .. Len(text) + 1
    /\ start \in 1 .. Len(text) + 2
    /\ IF start <= Len(text) + 1 THEN start <= pos ELSE pos = Len(text) + 1
    /\ S!Marking => pos = 1 /\ start = 1

\* What is behind is cut where it should be; a zone is in a sentence, or still ahead.
Covers(o, z) == \E n \in DOMAIN o : z \subseteq o[n].from .. o[n].to
Cut ==
    \A k \in 1 .. pos - 1 :
        text[k] = "!" /\ k \notin skip => \E n \in DOMAIN out : out[n].to = k
Whole ==
    \A z \in S!Zones : z \subseteq skip => (\A k \in z : k >= start) \/ Covers(out, z)

SplitInv == SplitTyped /\ MarkInv /\ Cut /\ Whole

LEMMA ZonesOfText ==
    ASSUME text \in Seq(STRING)
    PROVE  \A z \in S!Zones : IsZone(text, 1, z) /\ z \subseteq 1 .. Len(text)
<1> SUFFICES ASSUME NEW z \in S!Zones
             PROVE  IsZone(text, 1, z) /\ z \subseteq 1 .. Len(text)
    OBVIOUS
<1>1. IsZone(text, 1, z)
    BY ZonesLieAhead DEF S!Zones
<1>2. PICK o \in 1 .. Len(text) : S!Opens(text, o) /\ z = o .. S!Closer(text, o)
    BY <1>1 DEF IsZone
<1> QED
    BY <1>1, <1>2, ClosersAre

LEMMA SplitStarts == S!Init => SplitInv
<1> SUFFICES ASSUME S!Init PROVE SplitInv
    OBVIOUS
<1>1. /\ text \in Seq(STRING) /\ mark = 1 /\ skip = {} /\ pos = 1 /\ start = 1
      /\ out = << >> /\ Len(text) \in Nat
    BY TextsAssumption DEF S!Init
<1>2. \A z \in S!Zones : IsZone(text, 1, z)
    BY <1>1, ZonesOfText
<1>3. Before(1) = {}
    <2>1. ASSUME NEW z \in S!Zones PROVE ~ \A k \in z : k < 1
        <3>1. PICK o \in 1 .. Len(text) : S!Opens(text, o) /\ z = o .. S!Closer(text, o)
            BY <1>2 DEF IsZone
        <3>2. o \in z
            BY <1>1, <3>1, ClosersAre
        <3> QED
            BY <3>2
    <2> QED
        BY <2>1 DEF Before
<1>4. MarkedTo(1)
    BY <1>1, <1>3 DEF MarkedTo, S!Zones
<1>5. MarkInv
    BY <1>1, <1>4 DEF MarkInv
<1>6. SplitTyped
    <2>1. out \in Seq(Span)
        BY <1>1, EmptySeq
    <2> QED
        BY <1>1, <2>1 DEF SplitTyped
<1>7. Cut
    BY <1>1 DEF Cut
<1>8. Whole
    <2> SUFFICES ASSUME NEW z \in S!Zones PROVE \A k \in z : k >= 1
        BY <1>1 DEF Whole
    <2>1. PICK o \in 1 .. Len(text) : S!Opens(text, o) /\ z = o .. S!Closer(text, o)
        BY <1>2 DEF IsZone
    <2> QED
        BY <1>1, <2>1, ClosersAre
<1> QED
    BY <1>5, <1>6, <1>7, <1>8 DEF SplitInv

\* While it marks, all the text is ahead.
LEMMA MarkKeeps ==
    ASSUME SplitInv, S!MarkZone \/ S!MarkNoMore \/ S!MarkOther
    PROVE  SplitInv'
<1>1. /\ text' = text /\ pos' = pos /\ start' = start /\ out' = out /\ S!Marking
    BY DEF S!MarkZone, S!MarkNoMore, S!MarkOther
<1>2. /\ text \in Seq(STRING) /\ out \in Seq(Span) /\ Len(text) \in Nat
      /\ mark \in 1 .. Len(text) /\ pos = 1 /\ start = 1
    BY <1>1 DEF SplitInv, SplitTyped, S!Marking
<1>3. PICK s \in 1 .. Len(text) + 1 : MarkedTo(s)
    BY DEF SplitInv, MarkInv
<1>4. mark = s /\ S!Zones = Before(s) \cup S!ZonesFrom(text)[s] /\ skip = UNION Before(s)
    BY <1>2, <1>3 DEF MarkedTo
<1>5. S!Zones' = S!Zones
    BY <1>1 DEF S!Zones
<1>6. S!ZonesFrom(text)[s] = ZonesBy(text, S!ZonesFrom(text), s)
    BY <1>2, <1>4, ZonesAre
<1>7. \A k \in Nat \ {0} : \A z \in S!ZonesFrom(text)[k] : \E m \in z : m \in Nat /\ m >= k
    <2> SUFFICES ASSUME NEW k \in Nat \ {0}, NEW z \in S!ZonesFrom(text)[k]
                 PROVE  \E m \in z : m \in Nat /\ m >= k
        OBVIOUS
    <2>1. PICK o \in k .. Len(text) : S!Opens(text, o) /\ z = o .. S!Closer(text, o)
        BY <1>2, ZonesLieAhead DEF IsZone
    <2>2. S!Closer(text, o) \in o + 1 .. Len(text)
        BY <1>2, <2>1, ClosersAre
    <2> QED
        BY <2>1, <2>2
<1>8. \A z \in S!Zones : z \subseteq 1 .. Len(text)
    BY <1>2, ZonesOfText
<1>9. \A n : Before(n)' = Before(n)
    BY <1>5 DEF Before
<1>10. MarkInv' /\ mark' \in 1 .. Len(text) + 1
    <2>1. CASE S!MarkZone
        <3>0. PICK c : c = S!Closer(text, s)
            OBVIOUS
        <3> DEFINE zone == s .. c
        <3>1. S!Opens(text, s) /\ skip' = skip \cup zone /\ mark' = c + 1
            BY <1>4, <2>1, <3>0 DEF S!MarkZone
        <3>2. c \in s + 1 .. Len(text)
            BY <1>2, <1>4, <3>0, <3>1, ClosersAre
        <3>3. S!ZonesFrom(text)[s] = {zone} \cup S!ZonesFrom(text)[c + 1]
            BY <1>2, <1>4, <1>6, <3>0, <3>1 DEF ZonesBy
        <3>4. Before(c + 1) = Before(s) \cup {zone}
            <4>1. ASSUME NEW z \in Before(s) PROVE z \in Before(c + 1)
                <5>1. z \in S!Zones /\ z \subseteq 1 .. Len(text) /\ \A k \in z : k < s
                    BY <1>8, <4>1 DEF Before
                <5>2. \A k \in z : k < c + 1
                    BY <1>2, <1>4, <3>2, <5>1
                <5> QED
                    BY <5>1, <5>2 DEF Before
            <4>2. zone \in Before(c + 1)
                BY <1>4, <3>2, <3>3 DEF Before
            <4>3. ASSUME NEW z \in Before(c + 1), z \notin Before(s) PROVE z = zone
                <5>1. z \in S!ZonesFrom(text)[s] /\ \A k \in z : k < c + 1
                    BY <1>4, <4>3 DEF Before
                <5>2. z \notin S!ZonesFrom(text)[c + 1]
                    BY <1>2, <1>7, <3>2, <5>1
                <5> QED
                    BY <3>3, <5>1, <5>2
            <4> QED
                BY <4>1, <4>2, <4>3
        <3>5. S!Zones = Before(c + 1) \cup S!ZonesFrom(text)[c + 1]
            BY <1>4, <3>3, <3>4
        <3>6. skip' = UNION Before(c + 1)
            BY <1>4, <3>1, <3>4
        <3>7. MarkedTo(c + 1)'
            BY <1>1, <1>5, <1>9, <3>1, <3>5, <3>6 DEF MarkedTo
        <3> QED
            BY <1>1, <1>2, <3>1, <3>2, <3>7 DEF MarkInv
    <2>2. CASE S!MarkNoMore
        <3>1. /\ mark' = Len(text) + 1 /\ skip' = skip
              /\ text[s] \in S!Delimiters /\ S!Closers(text, s) = {}
            BY <1>4, <2>2 DEF S!MarkNoMore
        <3>2. MarkedTo(s)'
            BY <1>1, <1>2, <1>4, <1>5, <1>9, <3>1 DEF MarkedTo
        <3> QED
            BY <1>1, <1>2, <3>1, <3>2 DEF MarkInv
    <2>3. CASE S!MarkOther
        <3>1. /\ mark' = s + 1 /\ skip' = skip /\ text[s] \notin S!Delimiters
            BY <1>4, <2>3 DEF S!MarkOther
        <3>2. S!ZonesFrom(text)[s] = S!ZonesFrom(text)[s + 1]
            BY <1>2, <1>4, <1>6, <3>1 DEF ZonesBy, S!Opens
        <3>3. Before(s + 1) = Before(s)
            <4>1. ASSUME NEW z \in Before(s) PROVE z \in Before(s + 1)
                <5>1. z \in S!Zones /\ z \subseteq 1 .. Len(text) /\ \A k \in z : k < s
                    BY <1>8, <4>1 DEF Before
                <5>2. \A k \in z : k < s + 1
                    BY <1>2, <1>4, <5>1
                <5> QED
                    BY <5>1, <5>2 DEF Before
            <4>2. ASSUME NEW z \in Before(s + 1) PROVE z \in Before(s)
                <5>1. z \notin S!ZonesFrom(text)[s + 1]
                    BY <1>2, <1>4, <1>7, <4>2 DEF Before
                <5> QED
                    BY <1>4, <3>2, <4>2, <5>1 DEF Before
            <4> QED
                BY <4>1, <4>2
        <3>4. MarkedTo(s + 1)'
            BY <1>1, <1>4, <1>5, <1>9, <3>1, <3>2, <3>3 DEF MarkedTo
        <3> QED
            BY <1>1, <1>2, <1>4, <3>1, <3>4 DEF MarkInv
    <2> QED
        BY <2>1, <2>2, <2>3
<1>11. SplitTyped'
    BY <1>1, <1>2, <1>10 DEF SplitTyped
<1>12. Cut'
    BY <1>1, <1>2 DEF Cut
<1>13. Whole'
    <2> SUFFICES ASSUME NEW z \in S!Zones PROVE \A k \in z : k >= 1
        BY <1>1, <1>2, <1>5 DEF Whole
    <2> QED
        BY <1>8
<1> QED
    BY <1>10, <1>11, <1>12, <1>13 DEF SplitInv

\* What a segment leaves, when it is trimmed: one sentence with all its ink, or nothing.
LEMMA TrimmedHolds ==
    ASSUME text \in Seq(STRING), NEW from \in Nat \ {0}, NEW to \in 0 .. Len(text)
    PROVE  \/ /\ S!Trimmed(from, to) = << >>
              /\ \A k \in from .. to : text[k] \in S!White
           \/ \E e \in Span :
                 /\ S!Trimmed(from, to) = <<e>>
                 /\ e.to \in from .. to
                 /\ \A k \in from .. to : text[k] \notin S!White => e.from <= k /\ k <= e.to
<1> DEFINE ink == {k \in from .. to : text[k] \notin S!White}
<1>1. ink \in SUBSET Nat /\ ink \in SUBSET (0 .. to) /\ to \in Nat
    OBVIOUS
<1>2. CASE ink = {}
    BY <1>2 DEF S!Trimmed
<1>3. CASE ink # {}
    <2> DEFINE e == [from |-> S!Min(ink), to |-> S!Max(ink)]
    <2>1. S!Trimmed(from, to) = <<e>>
        BY <1>3 DEF S!Trimmed
    <2> HIDE DEF ink
    <2>2. S!Min(ink) \in ink /\ \A n \in ink : S!Min(ink) <= n
        BY <1>1, <1>3, FirstOf
    <2>3. S!Max(ink) \in ink /\ \A n \in ink : n <= S!Max(ink)
        BY <1>1, <1>3, LastOf
    <2>4. e \in Span /\ e.from = S!Min(ink) /\ e.to = S!Max(ink)
        BY <1>1, <2>2, <2>3 DEF Span
    <2> HIDE DEF e
    <2>5. e.to \in from .. to
        BY <2>3, <2>4 DEF ink
    <2>6. \A k \in from .. to : text[k] \notin S!White => e.from <= k /\ k <= e.to
        BY <2>2, <2>3, <2>4 DEF ink
    <2> QED
        BY <2>1, <2>4, <2>5, <2>6
<1> QED
    BY <1>2, <1>3

\* The white space after a cut is skipped, and no more than that.
LEMMA AfterWhiteIs ==
    ASSUME text \in Seq(STRING), NEW p \in 1 .. Len(text)
    PROVE  /\ S!AfterWhite(p) \in p + 1 .. Len(text) + 1
           /\ \A k \in p + 1 .. S!AfterWhite(p) - 1 : text[k] \in S!White
<1> DEFINE ink == {c \in p + 1 .. Len(text) : text[c] \notin S!White}
<1>1. ink \in SUBSET Nat /\ Len(text) \in Nat
    OBVIOUS
<1>2. CASE ink = {}
    BY <1>1, <1>2 DEF S!AfterWhite
<1>3. CASE ink # {}
    <2>1. S!AfterWhite(p) = S!Min(ink)
        BY <1>3 DEF S!AfterWhite
    <2> HIDE DEF ink
    <2>2. S!Min(ink) \in ink /\ \A n \in ink : S!Min(ink) <= n
        BY <1>1, <1>3, FirstOf
    <2>3. S!Min(ink) \in p + 1 .. Len(text)
        BY <2>2 DEF ink
    <2>4. ASSUME NEW k \in p + 1 .. S!Min(ink) - 1, text[k] \notin S!White PROVE FALSE
        <3>1. k \in ink /\ k < S!Min(ink)
            BY <1>1, <2>3, <2>4 DEF ink
        <3> QED
            BY <1>1, <2>2, <2>3, <3>1
    <2> QED
        BY <1>1, <2>1, <2>3, <2>4
<1> QED
    BY <1>2, <1>3

\* Another sentence, or none, leaves the sentences there are.
LEMMA OneMore ==
    ASSUME NEW o \in Seq(Span), NEW from, NEW to, NEW e \in Span
    PROVE  /\ o \o << >> = o
           /\ o \o <<e>> \in Seq(Span)
           /\ DOMAIN (o \o <<e>>) = DOMAIN o \cup {Len(o) + 1}
           /\ \A n \in DOMAIN o : (o \o <<e>>)[n] = o[n]
           /\ (o \o <<e>>)[Len(o) + 1] = e
OBVIOUS

\* A segment from where the last one ended: a zone is cut off with it whole, and a cut at ink
\* is the end of its sentence.
LEMMA CutOff ==
    ASSUME SplitInv, NEW to \in 0 .. Len(text),
           out' = out \o S!Trimmed(start, to)
    PROVE  /\ out' \in Seq(Span)
           /\ \A n \in DOMAIN out : n \in DOMAIN out' /\ out'[n] = out[n]
           /\ \A z \in S!Zones :
                 (\A k \in z : k \in start .. to) => Covers(out', z)
           /\ to \in start .. to /\ text[to] \notin S!White =>
                 \E n \in DOMAIN out' : out'[n].to = to
<1>1. /\ text \in Seq(STRING) /\ out \in Seq(Span) /\ start \in Nat \ {0}
      /\ Len(text) \in Nat
    BY DEF SplitInv, SplitTyped
<1>2. ASSUME NEW z \in S!Zones
      PROVE  \E o \in 1 .. Len(text) : \E c \in o + 1 .. Len(text) :
                 z = o .. c /\ text[o] \notin S!White /\ text[c] \notin S!White
    <2>1. PICK o \in 1 .. Len(text) : S!Opens(text, o) /\ z = o .. S!Closer(text, o)
        BY <1>1, ZonesOfText DEF IsZone
    <2>2. /\ text[o] \in S!Delimiters
          /\ S!Closer(text, o) \in o + 1 .. Len(text)
          /\ text[S!Closer(text, o)] = text[o]
        BY <1>1, <2>1, ClosersAre
    <2>3. text[o] \notin S!White
        BY <2>2 DEF S!Delimiters, S!White, S!TICK, S!QUOTE
    <2> QED
        BY <2>1, <2>2, <2>3
<1>3. CASE /\ S!Trimmed(start, to) = << >>
           /\ \A k \in start .. to : text[k] \in S!White
    <2>1. out' = out
        BY <1>1, <1>3
    <2>2. ASSUME NEW z \in S!Zones, \A k \in z : k \in start .. to PROVE FALSE
        <3>1. PICK o \in 1 .. Len(text) : \E c \in o + 1 .. Len(text) :
                  z = o .. c /\ text[o] \notin S!White /\ text[c] \notin S!White
            BY <1>2
        <3>2. o \in z /\ text[o] \notin S!White
            BY <3>1
        <3> QED
            BY <1>3, <2>2, <3>2
    <2> QED
        BY <1>1, <1>3, <2>1, <2>2
<1>4. CASE \E e \in Span :
               /\ S!Trimmed(start, to) = <<e>>
               /\ e.to \in start .. to
               /\ \A k \in start .. to : text[k] \notin S!White => e.from <= k /\ k <= e.to
    <2>1. PICK e \in Span :
              /\ S!Trimmed(start, to) = <<e>>
              /\ e.to \in start .. to
              /\ \A k \in start .. to : text[k] \notin S!White => e.from <= k /\ k <= e.to
        BY <1>4
    <2>2. out' = out \o <<e>>
        BY <2>1
    <2>3. /\ out' \in Seq(Span) /\ DOMAIN out' = DOMAIN out \cup {Len(out) + 1}
          /\ \A n \in DOMAIN out : out'[n] = out[n]
          /\ out'[Len(out) + 1] = e
        BY <1>1, <2>2, OneMore
    <2>4. ASSUME NEW z \in S!Zones, \A k \in z : k \in start .. to PROVE Covers(out', z)
        <3>1. PICK o \in 1 .. Len(text) : \E c \in o + 1 .. Len(text) :
                  z = o .. c /\ text[o] \notin S!White /\ text[c] \notin S!White
            BY <1>2
        <3>2. PICK c \in o + 1 .. Len(text) :
                  z = o .. c /\ text[o] \notin S!White /\ text[c] \notin S!White
            BY <3>1
        <3>3. o \in z /\ c \in z
            BY <3>2
        <3>4. e.from <= o /\ c <= e.to /\ e.from \in Nat /\ e.to \in Nat
            BY <2>1, <2>4, <3>2, <3>3 DEF Span
        <3>5. z \subseteq e.from .. e.to
            BY <3>2, <3>4
        <3> QED
            BY <2>3, <3>5 DEF Covers
    <2>5. ASSUME to \in start .. to, text[to] \notin S!White PROVE e.to = to
        BY <1>1, <2>1, <2>5
    <2> QED
        BY <2>3, <2>4, <2>5
<1> QED
    BY <1>1, <1>3, <1>4, TrimmedHolds

\* The steps after the marking touch no zone.
LEMMA MarksStay ==
    ASSUME SplitInv, UNCHANGED <<text, mark, skip>>
    PROVE  MarkInv' /\ S!Zones' = S!Zones
<1>1. S!Zones' = S!Zones
    BY DEF S!Zones
<1>2. \A n : Before(n)' = Before(n)
    BY <1>1 DEF Before
<1>3. PICK s \in 1 .. Len(text) + 1 : MarkedTo(s)
    BY DEF SplitInv, MarkInv
<1>4. MarkedTo(s)'
    BY <1>1, <1>2, <1>3 DEF MarkedTo
<1> QED
    BY <1>1, <1>4 DEF MarkInv

\* A cut is at no character of a zone, so that each is before it or after it, and after the
\* white space that follows.
LEMMA SplitKeeps ==
    ASSUME SplitInv, S!Split
    PROVE  SplitInv'
<1>1. /\ text' = text /\ mark' = mark /\ skip' = skip
      /\ out' = out \o S!Trimmed(start, pos) /\ pos' = S!AfterWhite(pos) /\ start' = pos'
      /\ ~S!Marking /\ pos <= Len(text) /\ S!Terminates(pos)
    BY DEF S!Split, S!Splitting
<1>2. /\ text \in Seq(STRING) /\ Len(text) \in Nat
      /\ mark \in 1 .. Len(text) + 1 /\ pos \in 1 .. Len(text)
      /\ start \in Nat \ {0} /\ start <= pos
    BY <1>1 DEF SplitInv, SplitTyped
<1>3. /\ out' \in Seq(Span)
      /\ \A n \in DOMAIN out : n \in DOMAIN out' /\ out'[n] = out[n]
      /\ \A z \in S!Zones :
            (\A k \in z : k \in start .. pos) => Covers(out', z)
      /\ pos \in start .. pos /\ text[pos] \notin S!White =>
            \E n \in DOMAIN out' : out'[n].to = pos
    <2>1. pos \in 0 .. Len(text)
        BY <1>2
    <2> QED
        BY <1>1, <2>1, CutOff
<1>4. /\ pos' \in pos + 1 .. Len(text) + 1
      /\ \A k \in pos + 1 .. pos' - 1 : text[k] \in S!White
    BY <1>1, <1>2, AfterWhiteIs
<1>5. MarkInv' /\ S!Zones' = S!Zones
    BY <1>1, MarksStay
<1> DEFINE next == pos'
<1>6. next \in Nat /\ pos \in Nat /\ pos' = next
    BY <1>2, <1>4
<1> HIDE DEF next
<1>7. SplitTyped'
    <2>1. start' \in 1 .. Len(text) + 2 /\ pos' \in 1 .. Len(text) + 1
        BY <1>1, <1>2, <1>4
    <2>2. IF start' <= Len(text) + 1 THEN start' <= pos' ELSE pos' = Len(text) + 1
        BY <1>1, <1>2, <1>4
    <2>3. ~S!Marking'
        BY <1>1 DEF S!Marking
    <2> QED
        BY <1>1, <1>2, <1>3, <2>1, <2>2, <2>3 DEF SplitTyped
<1>8. Cut'
    <2> SUFFICES ASSUME NEW k \in 1 .. pos' - 1, text[k] = "!", k \notin skip
                 PROVE  \E n \in DOMAIN out' : out'[n].to = k
        BY <1>1 DEF Cut
    <2>1. text[k] \notin S!White
        BY DEF S!White
    <2>2. CASE k < pos
        <3>1. PICK n \in DOMAIN out : out[n].to = k
            BY <1>2, <2>2 DEF SplitInv, Cut
        <3> QED
            BY <1>3, <3>1
    <2>3. CASE k = pos
        BY <1>2, <1>3, <2>1, <2>3
    <2>4. CASE k > pos
        <3>1. k \in pos + 1 .. pos' - 1
            BY <1>6, <2>4
        <3> QED
            BY <1>4, <2>1, <3>1
    <2> QED
        BY <1>2, <1>4, <2>2, <2>3, <2>4
<1>9. Whole'
    <2> SUFFICES ASSUME NEW z \in S!Zones, z \subseteq skip
                 PROVE  (\A k \in z : k >= start') \/ Covers(out', z)
        BY <1>1, <1>5 DEF Whole
    <2>1. pos \notin z
        BY <1>1 DEF S!Terminates
    <2>2. PICK o \in 1 .. Len(text) : S!Opens(text, o) /\ z = o .. S!Closer(text, o)
        BY <1>2, ZonesOfText DEF IsZone
    <2>3. /\ text[o] \notin S!White
          /\ S!Closer(text, o) \in o + 1 .. Len(text)
        BY <1>2, <2>2, ClosersAre DEF S!Delimiters, S!White, S!TICK, S!QUOTE
    <2>4. CASE Covers(out, z)
        BY <1>3, <2>4 DEF Covers
    <2>5. CASE \A k \in z : k >= start
        <3>1. CASE o > pos
            <4>1. o \notin pos + 1 .. pos' - 1
                BY <1>4, <2>3
            <4>2. o >= pos'
                BY <1>6, <3>1, <4>1
            <4> QED
                BY <1>1, <1>2, <1>4, <2>2, <2>3, <4>2
        <3>2. CASE o <= pos
            <4>1. S!Closer(text, o) < pos
                BY <1>2, <2>1, <2>2, <2>3, <3>2
            <4>2. \A k \in z : k \in start .. pos
                BY <1>2, <2>2, <2>3, <2>5, <4>1
            <4> QED
                BY <1>3, <4>2
        <3> QED
            BY <1>2, <3>1, <3>2
    <2> QED
        BY <2>4, <2>5 DEF SplitInv, Whole
<1> QED
    BY <1>5, <1>7, <1>8, <1>9 DEF SplitInv

LEMMA PassKeeps ==
    ASSUME SplitInv, S!Pass
    PROVE  SplitInv'
<1>1. /\ text' = text /\ mark' = mark /\ skip' = skip /\ start' = start /\ out' = out
      /\ pos' = pos + 1 /\ ~S!Marking /\ pos <= Len(text) /\ ~S!Terminates(pos)
    BY DEF S!Pass, S!Splitting
<1>2. MarkInv' /\ S!Zones' = S!Zones
    BY <1>1, MarksStay
<1>3. Len(text) \in Nat /\ pos \in 1 .. Len(text)
    BY <1>1 DEF SplitInv, SplitTyped
<1>4. SplitTyped'
    BY <1>1, <1>3 DEF SplitInv, SplitTyped, S!Marking
<1>5. Cut'
    <2>1. text[pos] = "!" => pos \in skip
        BY <1>1 DEF S!Terminates
    <2> QED
        BY <1>1, <1>3, <2>1 DEF SplitInv, Cut
<1>6. Whole'
    BY <1>1, <1>2 DEF SplitInv, Whole
<1> QED
    BY <1>2, <1>4, <1>5, <1>6 DEF SplitInv

LEMMA FinishKeeps ==
    ASSUME SplitInv, S!Finish
    PROVE  SplitInv'
<1>1. /\ text' = text /\ mark' = mark /\ skip' = skip /\ pos' = pos
      /\ out' = out \o S!Trimmed(start, Len(text)) /\ start' = Len(text) + 2
      /\ ~S!Marking /\ pos > Len(text)
    BY DEF S!Finish
<1>2. /\ text \in Seq(STRING) /\ Len(text) \in Nat /\ pos = Len(text) + 1
      /\ mark \in 1 .. Len(text) + 1
    <2>1. /\ text \in Seq(STRING) /\ mark \in 1 .. Len(text) + 1
          /\ pos \in 1 .. Len(text) + 1
        BY DEF SplitInv, SplitTyped
    <2>2. Len(text) \in Nat
        BY <2>1
    <2> QED
        BY <1>1, <2>1, <2>2
<1>3. /\ out' \in Seq(Span)
      /\ \A n \in DOMAIN out : n \in DOMAIN out' /\ out'[n] = out[n]
      /\ \A z \in S!Zones :
            (\A k \in z : k \in start .. Len(text)) => Covers(out', z)
    <2>1. Len(text) \in 0 .. Len(text)
        BY <1>2
    <2> QED
        BY <1>1, <2>1, CutOff
<1>4. MarkInv' /\ S!Zones' = S!Zones
    BY <1>1, MarksStay
<1>5. SplitTyped'
    BY <1>1, <1>2, <1>3 DEF SplitTyped, S!Marking
<1>6. Cut'
    <2> SUFFICES ASSUME NEW k \in 1 .. pos - 1, text[k] = "!", k \notin skip
                 PROVE  \E n \in DOMAIN out' : out'[n].to = k
        BY <1>1 DEF Cut
    <2>1. PICK n \in DOMAIN out : out[n].to = k
        BY DEF SplitInv, Cut
    <2> QED
        BY <1>3, <2>1
<1>7. Whole'
    <2> SUFFICES ASSUME NEW z \in S!Zones, z \subseteq skip PROVE Covers(out', z)
        BY <1>1, <1>4 DEF Whole
    <2>1. z \subseteq 1 .. Len(text)
        BY <1>2, ZonesOfText
    <2>2. CASE Covers(out, z)
        BY <1>3, <2>2 DEF Covers
    <2>3. CASE \A k \in z : k >= start
        <3>1. start \in Nat
            BY DEF SplitInv, SplitTyped
        <3>2. \A k \in z : k \in start .. Len(text)
            BY <1>2, <2>1, <2>3, <3>1
        <3> QED
            BY <1>3, <3>2
    <2> QED
        BY <2>2, <2>3 DEF SplitInv, Whole
<1> QED
    BY <1>4, <1>5, <1>6, <1>7 DEF SplitInv

\* Splitting keeps what it has cut, and the zones it has marked whole.
LEMMA SplitInvariant == S!Spec => []SplitInv
<1>1. SplitInv /\ [S!Next]_S!vars => SplitInv'
    <2> SUFFICES ASSUME SplitInv, [S!Next]_S!vars PROVE SplitInv'
        OBVIOUS
    <2>1. CASE S!MarkZone \/ S!MarkNoMore \/ S!MarkOther
        BY <2>1, MarkKeeps
    <2>2. CASE S!Split
        BY <2>2, SplitKeeps
    <2>3. CASE S!Pass
        BY <2>3, PassKeeps
    <2>4. CASE S!Finish
        BY <2>4, FinishKeeps
    <2>5. CASE UNCHANGED S!vars
        <3>1. /\ text' = text /\ mark' = mark /\ skip' = skip
              /\ pos' = pos /\ start' = start /\ out' = out
            BY <2>5 DEF S!vars
        <3>2. MarkInv' /\ S!Zones' = S!Zones
            BY <3>1, MarksStay
        <3> QED
            BY <3>1, <3>2 DEF SplitInv, SplitTyped, Cut, Whole, Covers, S!Marking
    <2> QED
        BY <2>1, <2>2, <2>3, <2>4, <2>5 DEF S!Next
<1> QED
    BY <1>1, SplitStarts, PTL DEF S!Spec

\* What the guide says of sentences, for a text of any length: a terminator outside of code
\* spans and quoted strings ends one, and each of these is in one whole, but for those
\* after a delimiter that nothing closes.
THEOREM CutsAreOutsideZones == S!Spec => []CutsOutsideZones
<1>1. ASSUME SplitInv PROVE CutsOutsideZones
    <2> SUFFICES ASSUME S!Done
                 PROVE  /\ \A k \in DOMAIN text \ UNION S!Zones :
                              text[k] = "!" => \E n \in DOMAIN out : out[n].to = k
                        /\ \A zone \in S!Zones :
                              S!AfterStray(S!Min(zone)) \/ Covers(out, zone)
        BY DEF CutsOutsideZones, S!CutsOutsideZones, Covers
    <2>1. /\ text \in Seq(STRING) /\ Len(text) \in Nat /\ start = Len(text) + 2
          /\ mark = Len(text) + 1 /\ pos = Len(text) + 1
        BY <1>1 DEF SplitInv, SplitTyped, S!Done, S!Marking
    <2>2. PICK s \in 1 .. Len(text) + 1 : MarkedTo(s)
        BY <1>1 DEF SplitInv, MarkInv
    <2>3. ASSUME NEW k \in DOMAIN text \ UNION S!Zones, text[k] = "!"
          PROVE  \E n \in DOMAIN out : out[n].to = k
        <3>1. k \in 1 .. pos - 1
            BY <2>1
        <3>2. k \notin skip
            BY <2>2, <2>3 DEF MarkedTo, Before
        <3> QED
            BY <1>1, <2>3, <3>1, <3>2 DEF SplitInv, Cut
    <2>4. ASSUME NEW zone \in S!Zones
          PROVE  S!AfterStray(S!Min(zone)) \/ Covers(out, zone)
        <3>1. PICK o \in 1 .. Len(text) : S!Opens(text, o) /\ zone = o .. S!Closer(text, o)
            BY <2>1, ZonesOfText DEF IsZone
        <3>2. S!Closer(text, o) \in o + 1 .. Len(text)
            BY <2>1, <3>1, ClosersAre
        <3>3. CASE zone \in Before(s)
            <4>1. zone \subseteq skip
                BY <2>2, <3>3 DEF MarkedTo
            <4>2. o \in zone /\ ~(o >= start)
                BY <2>1, <3>1, <3>2
            <4> QED
                BY <1>1, <4>1, <4>2 DEF SplitInv, Whole
        <3>4. CASE zone \notin Before(s)
            <4>1. /\ zone \in S!ZonesFrom(text)[s]
                  /\ S!ZonesFrom(text)[s] = ZonesBy(text, S!ZonesFrom(text), s)
                BY <2>1, <2>2, <3>4, ZonesAre DEF MarkedTo
            <4>2. /\ s <= Len(text) /\ text[s] \in S!Delimiters
                  /\ S!Closers(text, s) = {}
                BY <2>1, <2>2, <4>1 DEF MarkedTo, ZonesBy
            <4>3. S!ZonesFrom(text)[s] = S!ZonesFrom(text)[s + 1]
                BY <2>1, <4>1, <4>2 DEF ZonesBy, S!Opens
            <4>4. \A z \in S!ZonesFrom(text)[s + 1] : \A k \in z : k \in Nat /\ k > s
                <5> SUFFICES ASSUME NEW z \in S!ZonesFrom(text)[s + 1]
                             PROVE  \A k \in z : k \in Nat /\ k > s
                    OBVIOUS
                <5>1. IsZone(text, s + 1, z)
                    BY <2>1, ZonesLieAhead
                <5> QED
                    BY <2>1, <5>1 DEF IsZone
            <4>5. S!Min(zone) > s /\ S!Min(zone) \in Nat
                <5>1. zone \in SUBSET Nat /\ zone # {}
                    BY <3>1, <3>2
                <5> QED
                    BY <4>1, <4>3, <4>4, <5>1, FirstOf
            <4>6. s \notin UNION S!Zones
                BY <2>1, <2>2, <4>3, <4>4 DEF MarkedTo, Before
            <4> QED
                BY <4>2, <4>5, <4>6 DEF S!AfterStray
        <3> QED
            BY <3>3, <3>4
    <2> QED
        BY <2>3, <2>4
<1> QED
    BY <1>1, SplitInvariant, PTL
================================================================================
