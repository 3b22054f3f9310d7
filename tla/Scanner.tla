-------------------------------- MODULE Scanner ---------------------------------
(***************************************************************************)
(* scan (core/src/scanner.ts): the blocks of an oath, found line by line.   *)
(*                                                                         *)
(* A line has the kind that the regular expressions give it: "blank",       *)
(* "text", "heading", "item", "quote", "thematic", "row", "delim" (a row    *)
(* that can stand between the header and the rows of a table) or "fence",   *)
(* with the number of its backticks.  A block is its kind and the lines it  *)
(* has; `open` is the one that an inner loop of the scanner is in.          *)
(***************************************************************************)
EXTENDS Integers, Sequences, FiniteSets

CONSTANTS Line, Sources   \* lines, and the oaths: sequences of them

Kinds == {"blank", "text", "heading", "item", "quote", "thematic", "row", "delim", "fence"}

ASSUME LineAssumption ==
    \A l \in Line : l.kind \in Kinds /\ (l.kind = "fence" => l.ticks \in Nat)
ASSUME SourcesAssumption == Sources \subseteq Seq(Line)

VARIABLES
    lines,    \* the lines of the oath
    i,        \* the next line
    open,     \* the block that is being read, if one is
    blocks    \* those that were

vars == <<lines, i, open, blocks>>

Block(kind, from, to) == [kind |-> kind, from |-> from, to |-> to]
None == Block("none", 0, 0)

Init ==
    /\ lines \in Sources
    /\ i = 1 /\ open = None /\ blocks = {}

--------------------------------------------------------------------------------
Left == i <= Len(lines)
Here(kinds) == Left /\ lines[i].kind \in kinds

\* A header and what has to follow it.
AtTable == Here({"row", "delim"}) /\ i < Len(lines) /\ lines[i + 1].kind = "delim"

Start(kind, to) ==
    /\ open' = Block(kind, i, to)
    /\ i' = to + 1
    /\ UNCHANGED <<lines, blocks>>

Grow ==
    /\ open' = [open EXCEPT !.to = i]
    /\ i' = i + 1
    /\ UNCHANGED <<lines, blocks>>

End ==
    /\ blocks' = blocks \cup {open}
    /\ open' = None
    /\ UNCHANGED <<lines, i>>

Blank ==
    /\ open = None /\ Here({"blank"})
    /\ i' = i + 1
    /\ UNCHANGED <<lines, open, blocks>>

\* tryThematic, tryHeading, tryListItem: blocks of one line.
OneLine ==
    /\ open = None /\ Here({"thematic", "heading", "item"})
    /\ blocks' = blocks \cup {Block(lines[i].kind, i, i)}
    /\ i' = i + 1
    /\ UNCHANGED <<lines, open>>

--------------------------------------------------------------------------------
\* tryFence: up to a fence of at least as many backticks, whatever comes between.
StartFence == open = None /\ Here({"fence"}) /\ Start("fence", i)

\* Mutant: any fence closes.
ClosesAny == Here({"fence"})

Closes == Here({"fence"}) /\ lines[i].ticks >= lines[open.from].ticks

GrowFence == open.kind = "fence" /\ Left /\ ~Closes /\ Grow

\* Mutant: the scanner goes on at the fence that closes.
CloseFenceAgain ==
    /\ open.kind = "fence" /\ Closes
    /\ blocks' = blocks \cup {[open EXCEPT !.to = i]}
    /\ open' = None
    /\ UNCHANGED <<lines, i>>

CloseFence ==
    /\ open.kind = "fence" /\ Closes
    /\ blocks' = blocks \cup {[open EXCEPT !.to = i]}
    /\ open' = None
    /\ i' = i + 1
    /\ UNCHANGED lines

\* Nothing closes it: it goes on to the end.
EndFence == open.kind = "fence" /\ ~Left /\ End

--------------------------------------------------------------------------------
StartTable == open = None /\ AtTable /\ Start("table", i + 1)
GrowTable == open.kind = "table" /\ Here({"row", "delim"}) /\ Grow
EndTable == open.kind = "table" /\ ~Here({"row", "delim"}) /\ End

StartQuote == open = None /\ Here({"quote"}) /\ Start("quote", i)
GrowQuote == open.kind = "quote" /\ Here({"quote"}) /\ Grow
EndQuote == open.kind = "quote" /\ ~Here({"quote"}) /\ End

\* consumeParagraph: what nothing else took, and the text below it.
StartParagraph ==
    /\ open = None /\ ~AtTable /\ Here({"text", "row", "delim"})
    /\ Start("paragraph", i)

AfterText == ~Here({"text"})

GrowParagraph == open.kind = "paragraph" /\ ~AfterText /\ Grow
EndParagraph == open.kind = "paragraph" /\ AfterText /\ End

Next ==
    \/ Blank \/ OneLine
    \/ StartFence \/ GrowFence \/ CloseFence \/ EndFence
    \/ StartTable \/ GrowTable \/ EndTable
    \/ StartQuote \/ GrowQuote \/ EndQuote
    \/ StartParagraph \/ GrowParagraph \/ EndParagraph

Spec == Init /\ [][Next]_vars

--------------------------------------------------------------------------------
Scanned == ~Left /\ open = None
Has(b, k) == b.from <= k /\ k <= b.to

\* When scan() returns the text is there once: every line of it that is not blank is in
\* a block, and no line is in two.
EveryLineOnce ==
    Scanned =>
        /\ \A k \in 1 .. Len(lines) : lines[k].kind # "blank" => \E b \in blocks : Has(b, k)
        /\ \A b, c \in blocks : \A k \in 1 .. Len(lines) : Has(b, k) /\ Has(c, k) => b = c

\* scanner.test.ts:106-118, of a doc string: what is between two fences is in no block of
\* its own, unless a fence that is long enough for the first is between them.
FencesHold ==
    Scanned => \A f, g \in DOMAIN lines :
        /\ f < g /\ lines[f].kind = "fence" /\ lines[g].kind = "fence"
        /\ \E b \in blocks : b.kind = "fence" /\ b.from = f
        /\ \A k \in f + 1 .. g - 1 : lines[k].kind = "fence" => lines[k].ticks < lines[f].ticks
        => \E b \in blocks : b.from = f /\ \A k \in f .. g : Has(b, k)
================================================================================
