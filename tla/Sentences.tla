------------------------------- MODULE Sentences --------------------------------
(***************************************************************************)
(* splitSentences (core/src/sentences.ts): where the sentences of a block   *)
(* begin and end.  First the code spans and quoted strings are marked, then *)
(* the text is cut at the terminators outside them.                         *)
(*                                                                         *)
(* A character stands for its class: an upper case letter, a lower case     *)
(* one, a digit, or one of the characters that the code looks for.          *)
(***************************************************************************)
EXTENDS Integers, SequencesExt, FiniteSetsExt

CONSTANTS
    Texts,          \* the texts there may be
    Abbreviations   \* sequences of characters that end in a dot

VARIABLES
    text,   \* the text of a block
    mark,   \* `j`, the next character to look for a delimiter at
    skip,   \* the characters in no-split zones
    pos,    \* `i`, the next character to look for a terminator at
    start,  \* segmentStart
    out     \* the sentences, each from its first to its last character

vars == <<text, mark, skip, pos, start, out>>

TICK == "tick"
QUOTE == "quote"
White == {"space", "newline"}
Delimiters == {TICK, QUOTE}

Init ==
    /\ text \in Texts
    /\ mark = 1 /\ skip = {}
    /\ pos = 1 /\ start = 1 /\ out = << >>

--------------------------------------------------------------------------------
\* The delimiters of a text t that close what the one at k opens, and the first of them.
Closers(t, k) == {c \in k + 1 .. Len(t) : t[c] = t[k]}
Closer(t, k) == Min(Closers(t, k))

Opens(t, k) == t[k] \in Delimiters /\ Closers(t, k) # {}

Marking == mark <= Len(text)

MarkZone ==
    /\ Marking /\ Opens(text, mark)
    /\ skip' = skip \cup (mark .. Closer(text, mark))
    /\ mark' = Closer(text, mark) + 1
    /\ UNCHANGED <<text, pos, start, out>>

\* A delimiter that nothing closes is the end of it: `break`.
MarkNoMore ==
    /\ Marking /\ text[mark] \in Delimiters /\ Closers(text, mark) = {}
    /\ mark' = Len(text) + 1
    /\ UNCHANGED <<text, skip, pos, start, out>>

MarkOther ==
    /\ Marking /\ text[mark] \notin Delimiters
    /\ mark' = mark + 1
    /\ UNCHANGED <<text, skip, pos, start, out>>

--------------------------------------------------------------------------------
At(k) == IF k \in DOMAIN text THEN text[k] ELSE "none"

EndsAbbreviation(k) ==
    \E a \in Abbreviations :
        Len(a) <= k /\ SubSeq(text, k - Len(a) + 1, k) = a

\* isInsideNumberOrAbbrev.
InsideNumberOrAbbrev(k) ==
    \/ At(k - 1) = "digit" /\ At(k + 1) = "digit"
    \/ EndsAbbreviation(k)
    \/ At(k + 1) = "lower"

\* Mutant: the zones are not looked at.
TerminatesAnywhere(k) ==
    text[k] \in {".", "!", "newline"} /\ (text[k] = "." => ~InsideNumberOrAbbrev(k))

Terminates(k) ==
    /\ k \notin skip
    /\ text[k] \in {".", "!", "newline"}
    /\ text[k] = "." => ~InsideNumberOrAbbrev(k)

\* pushSegment: the trimmed segment, if anything is left of it.
Trimmed(from, to) ==
    LET ink == {k \in from .. to : text[k] \notin White}
    IN IF ink = {} THEN << >> ELSE <<[from |-> Min(ink), to |-> Max(ink)]>>

\* The first character after k that is not white space.
AfterWhite(k) ==
    LET ink == {c \in k + 1 .. Len(text) : text[c] \notin White}
    IN IF ink = {} THEN Len(text) + 1 ELSE Min(ink)

Splitting == ~Marking /\ pos <= Len(text)

Split ==
    /\ Splitting /\ Terminates(pos)
    /\ out' = out \o Trimmed(start, pos)
    /\ pos' = AfterWhite(pos)
    /\ start' = pos'
    /\ UNCHANGED <<text, mark, skip>>

Pass ==
    /\ Splitting /\ ~Terminates(pos)
    /\ pos' = pos + 1
    /\ UNCHANGED <<text, mark, skip, start, out>>

\* The last sentence does not need a terminator; `start` is past the text then.
Finish ==
    /\ ~Marking /\ pos > Len(text) /\ start <= Len(text) + 1
    /\ out' = out \o Trimmed(start, Len(text))
    /\ start' = Len(text) + 2
    /\ UNCHANGED <<text, mark, skip, pos>>

Next == MarkZone \/ MarkNoMore \/ MarkOther \/ Split \/ Pass \/ Finish

Spec == Init /\ [][Next]_vars

--------------------------------------------------------------------------------
Done == start = Len(text) + 2

\* examples.mdx:294: the code spans and quoted strings of a text, from left to right.
ZonesFrom(t) ==
    LET from[k \in Nat] ==
            IF k > Len(t) THEN {}
            ELSE IF Opens(t, k) THEN {k .. Closer(t, k)} \cup from[Closer(t, k) + 1]
            ELSE from[k + 1]
    IN from
Zones == ZonesFrom(text)[1]

\* A delimiter that nothing closes is to the left of k.
AfterStray(k) == \E s \in 1 .. k - 1 : text[s] \in Delimiters /\ s \notin UNION Zones

\* examples.mdx:291-296, "Varar splits a paragraph into sentences on `.`, `!`, `?`, and
\* hard line breaks" and "Terminators inside backtick code spans or double-quoted strings
\* don't split": a terminator outside of these is the last of a sentence, and each of them
\* is in one sentence, but for those after a delimiter that nothing closes.
CutsOutsideZones ==
    Done =>
        /\ \A k \in DOMAIN text \ UNION Zones :
              text[k] = "!" => \E n \in DOMAIN out : out[n].to = k
        /\ \A zone \in Zones :
              \/ AfterStray(Min(zone))
              \/ \E n \in DOMAIN out : zone \subseteq out[n].from .. out[n].to
================================================================================
