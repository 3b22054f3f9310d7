------------------------------- MODULE EditorViews -------------------------------
(***************************************************************************)
(* The views of one editor of the website (website/src/scripts/             *)
(* editor-mount.ts): its tabs and the language of the site, the button that *)
(* types the next version of a file into its view, keystroke by keystroke   *)
(* (lib/replay-plan.ts), and the button that defines a step for the         *)
(* selection in the oath (lib/cm-generate-step.ts).                         *)
(*                                                                         *)
(* A document is a short sequence of characters, positions are the gaps     *)
(* between them.  A promise that is settled is heard of within the same     *)
(* step: microtasks run before the next event.                              *)
(***************************************************************************)
EXTENDS Integers, FiniteSets, SequencesExt

CONSTANTS
    Order,        \* the files of the editor, as written: their names
    Lang,         \* the language of each; "neutral" for an oath
    Oath, Steps,  \* the oath, and the step file in TypeScript
    Versions,     \* the versions of each file, the first of them mounted
    Languages,    \* what the site may be set to
    MaxClicks, MaxKeys, MaxSelections, MaxSwitches   \* bounds

ASSUME BoundsAssumption ==
    /\ MaxClicks \in Nat /\ MaxKeys \in Nat /\ MaxSelections \in Nat /\ MaxSwitches \in Nat

Files == Range(Order)

ASSUME OathAssumption == Oath \in Files

\* Every file has a version that is mounted.
ASSUME VersionsAssumption ==
    \A f \in Files : Versions[f] \in Seq(Seq(STRING)) /\ Versions[f] # << >>

None == "none"

VARIABLES
    doc, anchor, head,  \* of each view: its text and its selection
    replaying,          \* a tick of a replay of it is due, and its promise pending
    strokes,            \* the keystrokes left of that replay
    version,            \* versionIndex: the version asked for last
    busy,               \* busyUri
    active, lang,       \* the tab shown, the language of the site
    settling,           \* the characters selected that wait for their 200 ms
    affordance,         \* the characters that the oath offers to define
    asked,              \* var/generateSnippet requests under way
    left,               \* history: the text last asked for or left by the user
    clicks, keys, selections, switches

view == <<doc, anchor, head, left>>
replay == <<replaying, strokes, version, busy>>
tabs == <<active, lang>>
define == <<settling, affordance, asked>>
bounds == <<clicks, keys, selections, switches>>
editorVars == <<view, replay, tabs, define, bounds>>

--------------------------------------------------------------------------------
\* effectiveLang.
EffectiveLang(l) == IF \E f \in Files : Lang[f] = l THEN l ELSE "ts"

Visible(f, l) == Lang[f] \in {"neutral", EffectiveLang(l)}

Init ==
    /\ doc = [f \in Files |-> Versions[f][1]] /\ left = doc
    /\ anchor = [f \in Files |-> 0] /\ head = [f \in Files |-> 0]
    /\ replaying = [f \in Files |-> FALSE] /\ strokes = [f \in Files |-> << >>]
    /\ version = [f \in Files |-> 1] /\ busy = None
    /\ active = Order[1] /\ lang = "ts"
    /\ settling = {} /\ affordance = {} /\ asked = 0
    /\ clicks = 0 /\ keys = 0 /\ selections = 0 /\ switches = 0

--------------------------------------------------------------------------------
\* diffChars: a longest common subsequence, as the places it has in either text.
Nth(I, k) == CHOOSE i \in I : Cardinality({j \in I : j <= i}) = k
Common(d, e) ==
    {c \in (SUBSET DOMAIN d) \X (SUBSET DOMAIN e) :
        /\ Cardinality(c[1]) = Cardinality(c[2])
        /\ \A k \in 1 .. Cardinality(c[1]) : d[Nth(c[1], k)] = e[Nth(c[2], k)]}
Diffs(d, e) ==
    LET common == Common(d, e)
        longest == Max({Cardinality(c[1]) : c \in common})
    IN {c \in common : Cardinality(c[1]) = longest}

\* n characters are deleted from the right end, as with Backspace.
Deletes(caret, n) == [r \in 1 .. n |-> [kind |-> "delete", at |-> caret + n - r]]

\* Mutant: the caret stays where it was, so that every character goes before the last.
InsertsWithoutCaret(caret, chars) ==
    [s \in DOMAIN chars |-> [kind |-> "insert", at |-> caret, text |-> chars[s]]]

\* The characters are inserted one after the other, as they are typed.
Inserts(caret, chars) ==
    [s \in DOMAIN chars |-> [kind |-> "insert", at |-> caret + s - 1, text |-> chars[s]]]

\* planReplay for a diff c: between one common character and the next, what is removed
\* goes from its right end and what is added comes from its left.
PlanReplay(d, e, c) ==
    LET n == Cardinality(c[1])
        Place(I, k, end) == IF k = 0 THEN 0 ELSE IF k > n THEN end ELSE Nth(I, k)
        Between(k) ==
            LET caret == Place(c[2], k, Len(e) + 1)
                removed == Place(c[1], k + 1, Len(d) + 1) - Place(c[1], k, Len(d) + 1) - 1
                added == SubSeq(e, caret + 1, Place(c[2], k + 1, Len(e) + 1) - 1)
            IN Deletes(caret, removed) \o Inserts(caret, added)
    IN FlattenSeq([k \in 1 .. n + 1 |-> Between(k - 1)])

EditCaret(op) == IF op.kind = "insert" THEN op.at ELSE op.at + 1
CaretAfter(op) == IF op.kind = "insert" THEN op.at + 1 ELSE op.at
Applied(d, op) ==
    IF op.kind = "insert" THEN InsertAt(d, op.at + 1, op.text) ELSE RemoveAt(d, op.at + 1)

--------------------------------------------------------------------------------
\* Lines, as lineAt and line find them.
LineOf(d, p) == Cardinality({q \in 1 .. p : d[q] = "newline"})
LineFrom(d, p) == CHOOSE q \in 0 .. p :
    /\ q = 0 \/ d[q] = "newline"
    /\ \A r \in q + 1 .. p : d[r] # "newline"
LineTo(d, p) == CHOOSE q \in p .. Len(d) :
    /\ q = Len(d) \/ d[q + 1] = "newline"
    /\ \A r \in p + 1 .. q : d[r] # "newline"

\* nextCaretStep: a line towards the target with the column carried along, or within the
\* line to a boundary of words (an external choice), but not past the target.
NextCaretSteps(d, cur, target) ==
    LET column == cur - LineFrom(d, cur)
        next == IF LineOf(d, target) > LineOf(d, cur) THEN LineTo(d, cur) + 1
                ELSE LineFrom(d, LineFrom(d, cur) - 1)
    IN IF LineOf(d, cur) # LineOf(d, target)
       THEN {IF next + column < LineTo(d, next) THEN next + column ELSE LineTo(d, next)}
       ELSE (cur + 1) .. target \cup target .. (cur - 1)

\* step() of replayTo, with the keystrokes ops left: what it makes of text and caret.
Stroke(d, h, ops) ==
    IF ops = << >> THEN {[doc |-> d, head |-> h, strokes |-> ops, over |-> TRUE]}
    ELSE IF h # EditCaret(ops[1])
    THEN {[doc |-> d, head |-> p, strokes |-> ops, over |-> FALSE] :
            p \in NextCaretSteps(d, h, EditCaret(ops[1]))}
    ELSE {[doc |-> Applied(d, ops[1]), head |-> CaretAfter(ops[1]), strokes |-> Tail(ops),
           over |-> FALSE]}

--------------------------------------------------------------------------------
\* The characters selected in f.
Selected(f) == anchor[f] + 1 .. head[f] \cup head[f] + 1 .. anchor[f]

\* Mutant: the timer goes on when the selection is empty.
SettlesOn == IF Selected(Oath)' = {} THEN settling ELSE Selected(Oath)'

\* debouncePlugin: the timer starts anew, and not at all when nothing is selected.
Settling == Selected(Oath)'

\* A transaction gives f the text d and sets the selection, as those of replayTo and of
\* runGenerateStepDef do, and what CodeMirror makes of a key or a click (external).  The
\* affordance is dismissed by one that does; those that only carry effects, as the results
\* of a run, leave it and are not dispatched here.
Dispatch(f, d, a, h) ==
    /\ doc' = [doc EXCEPT ![f] = d]
    /\ anchor' = [anchor EXCEPT ![f] = a] /\ head' = [head EXCEPT ![f] = h]
    /\ settling' = IF f = Oath THEN Settling ELSE settling
    /\ affordance' = IF f = Oath THEN {} ELSE affordance

\* Mutant: cancelReplay leaves the promise pending.
UnsettledBusy(f) == busy

\* The promise of a replay of f is settled: its `then` clears busyUri if f is there.
SettledBusy(f) == IF replaying[f] /\ busy = f THEN None ELSE busy

\* cancelReplay.
Cancel(f) ==
    /\ replaying' = [replaying EXCEPT ![f] = FALSE]
    /\ strokes' = [strokes EXCEPT ![f] = << >>]
    /\ busy' = SettledBusy(f)

--------------------------------------------------------------------------------
\* A click on the version button.  The promise of a replay under way in the same view is
\* settled too, and its `then` finds busyUri set by this click.
ClickVersion ==
    LET f == active
        next == (version[f] % Len(Versions[f])) + 1
        target == Versions[f][next]
    IN
    /\ clicks < MaxClicks /\ clicks' = clicks + 1
    /\ Len(Versions[f]) > 1 /\ busy # f
    /\ version' = [version EXCEPT ![f] = next]
    /\ left' = [left EXCEPT ![f] = target]
    /\ \E c \in Diffs(doc[f], target) :
       \E s \in Stroke(doc[f], head[f], PlanReplay(doc[f], target, c)) :
          /\ IF s.over THEN UNCHANGED <<doc, anchor, head, settling, affordance>>
             ELSE Dispatch(f, s.doc, s.head, s.head)
          /\ strokes' = [strokes EXCEPT ![f] = s.strokes]
          /\ replaying' = [replaying EXCEPT ![f] = ~s.over]
          /\ busy' = IF s.over \/ replaying[f] THEN None ELSE f
    /\ UNCHANGED <<tabs, asked, keys, selections, switches>>

\* The timer of a replay fires.
Tick(f) ==
    /\ replaying[f]
    /\ \E s \in Stroke(doc[f], head[f], strokes[f]) :
          IF s.over
          THEN /\ Cancel(f)
               /\ UNCHANGED <<doc, anchor, head, settling, affordance>>
          ELSE /\ Dispatch(f, s.doc, s.head, s.head)
               /\ strokes' = [strokes EXCEPT ![f] = s.strokes]
               /\ UNCHANGED <<replaying, busy>>
    /\ UNCHANGED <<left, version, tabs, asked, bounds>>

--------------------------------------------------------------------------------
\* The user types over the selection of the file that is shown.  The files of other
\* languages are read-only.
Type ==
    LET f == active
        chosen == Selected(f)
        from == IF anchor[f] < head[f] THEN anchor[f] ELSE head[f]
        typed == SubSeq(doc[f], 1, from) \o <<"x">>
                    \o SubSeq(doc[f], from + Cardinality(chosen) + 1, Len(doc[f]))
    IN
    /\ keys < MaxKeys /\ keys' = keys + 1
    /\ Lang[f] \in {"neutral", "ts"}
    /\ Dispatch(f, typed, from + 1, from + 1)
    /\ left' = [left EXCEPT ![f] = typed]
    /\ Cancel(f)
    /\ UNCHANGED <<version, tabs, asked, clicks, selections, switches>>

\* The user selects some of the oath; that is no change of it, and no replay ends.
Select(a, h) ==
    /\ active = Oath
    /\ selections < MaxSelections /\ selections' = selections + 1
    /\ Dispatch(Oath, doc[Oath], a, h)
    /\ UNCHANGED <<left, replay, tabs, asked, clicks, keys, switches>>

SelectionSettles ==
    /\ settling # {}
    /\ affordance' = settling /\ settling' = {}
    /\ UNCHANGED <<view, replay, tabs, asked, bounds>>

\* confirmAffordance: by its button or by Enter.  Snippets are for TypeScript only.
Confirm ==
    /\ active = Oath /\ affordance # {} /\ affordance' = {}
    /\ asked' = IF EffectiveLang(lang) = "ts" /\ Selected(Oath) # {} THEN asked + 1 ELSE asked
    /\ UNCHANGED <<view, replay, tabs, settling, bounds>>

Escape ==
    /\ active = Oath /\ affordance # {} /\ affordance' = {}
    /\ UNCHANGED <<view, replay, tabs, settling, asked, bounds>>

\* appendStepDef: the definition, a blank line below all there is but the white space
\* at its end.
Body(d) ==
    LET printed == {k \in DOMAIN d : d[k] # "newline"}
    IN SubSeq(d, 1, Cardinality({k \in DOMAIN d : \E p \in printed : k <= p}))
Appended(d) ==
    IF Body(d) = << >> THEN <<"step", "newline">>
    ELSE Body(d) \o <<"newline", "newline", "step", "newline">>

\* The rest of runGenerateStepDef: no replay made this change, so the one of the steps ends.
Answered ==
    /\ asked > 0 /\ asked' = asked - 1
    /\ LET d == Appended(doc[Steps])
       IN Dispatch(Steps, d, Len(d) - 2, Len(d) - 1) /\ left' = [left EXCEPT ![Steps] = d]
    /\ Cancel(Steps)
    /\ UNCHANGED <<version, tabs, bounds>>

--------------------------------------------------------------------------------
\* A click on a tab.
ShowFile(f) ==
    /\ switches < MaxSwitches /\ switches' = switches + 1
    /\ Visible(f, lang) /\ active' = f
    /\ UNCHANGED <<view, replay, lang, define, clicks, keys, selections>>

\* setLang and applySiteLang: when the tab shown vanishes, the file at the same position
\* among those of the new language is shown.
OfLang(l) == SelectSeq(Order, LAMBDA f : Lang[f] = l)
ShownIn(l) ==
    LET old == OfLang(Lang[active])
        new == OfLang(EffectiveLang(l))
        k == CHOOSE k \in DOMAIN old : old[k] = active
    IN IF Lang[active] \in {"neutral", EffectiveLang(l)} THEN active
       ELSE IF new = << >> THEN Order[1]
       ELSE new[IF k < Len(new) THEN k ELSE Len(new)]

SetLang(l) ==
    /\ switches < MaxSwitches /\ switches' = switches + 1
    /\ l # lang /\ lang' = l /\ active' = ShownIn(l)
    /\ UNCHANGED <<view, replay, define, clicks, keys, selections>>

Next ==
    \/ ClickVersion \/ Type
    \/ \E f \in Files : Tick(f) \/ ShowFile(f)
    \/ \E a, h \in 0 .. Len(doc[Oath]) : Select(a, h)
    \/ SelectionSettles \/ Confirm \/ Escape \/ Answered
    \/ \E l \in Languages : SetLang(l)

\* Timers fire; nothing else need ever happen.
Fairness == \A f \in Files : WF_editorVars(Tick(f))

Spec == Init /\ [][Next]_editorVars /\ Fairness

--------------------------------------------------------------------------------
\* editor-mount.ts:71-72, "the user always wins": a view that no replay is at holds what
\* was asked of it or left in it last, typed, inserted or replayed, and not a character else.
UserWins == \A f \in Files : ~replaying[f] => doc[f] = left[f]

\* The button offers to define the very characters that are selected, whatever typed,
\* replayed or selected since.
ButtonFits == affordance # {} => affordance = Selected(Oath)

\* editor-mount.ts:304-305: a button that is waiting for a replay comes back when it has
\* run, has been cancelled by the user or by an insertion.
ButtonComesBack == \A f \in Files : busy = f ~> busy # f

\* editor-mount.ts:300, "While the replay runs the button is disabled".
DisabledWhileReplaying == replaying[active] => busy = active
================================================================================
