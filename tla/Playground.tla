------------------------------- MODULE Playground -------------------------------
(***************************************************************************)
(* The editors of a documentation page (mountEditor in website/src/scripts/ *)
(* editor-mount.ts) over RunClient: every edit re-arms the debounce timer   *)
(* of its editor, the timer starts a run of the text as it is then, and     *)
(* what the run answers is dispatched to the editor's view, whose fields    *)
(* (website/src/lib/cm-run.ts) drop it at the next edit.                    *)
(***************************************************************************)
EXTENDS RunClient

CONSTANTS
    Editors,      \* the editors of the page
    MaxActs       \* bound: edits, and clicks on "Accept as prose"

ASSUME BoundsAssumption ==
    /\ MaxActs \in Nat
    /\ Cardinality(Calls) >= Cardinality(Editors) + MaxActs

VARIABLES
    text,         \* the texts each editor has had
    timer,        \* editors whose runTimer is armed
    of,           \* [id, editor, text, update] of the calls made
    shown,        \* the call whose outcome each view's fields carry
    drifted,      \* editors whose drift button is up: driftCount > 0
    acts          \* what the reader has done, edits and clicks

editorVars == <<text, timer, of, shown, drifted, acts>>
allVars == <<vars, editorVars>>

NoRun == {}

PageInit ==
    /\ Init
    /\ text = [e \in Editors |-> 1]
    /\ timer = Editors
    /\ of = [c \in Calls |-> NoRun]
    /\ shown = [e \in Editors |-> NoRun]
    /\ drifted = {}
    /\ acts = 0

Made == {c \in Calls : of[c] # NoRun}

--------------------------------------------------------------------------------
\* The reader does something.
Acts == acts < MaxActs /\ acts' = acts + 1

\* Mutant: an edit during a run is left to that run.
RearmWhenQuiet(e) ==
    timer' = IF Pending = {} THEN timer \cup {e} ELSE timer

\* autoRun and scheduleRun.
Rearm(e) == timer' = timer \cup {e}

Type(e) ==
    /\ Acts
    /\ text' = [text EXCEPT ![e] = @ + 1]
    /\ Rearm(e)
    /\ shown' = [shown EXCEPT ![e] = NoRun]
    /\ UNCHANGED <<vars, of, drifted>>

\* runNow, up to its await.
RunNow(e, update) ==
    \E c \in Calls :
        /\ c = CHOOSE d \in Calls : of[d] = NoRun
        /\ RunOath(c)
        /\ of' = [of EXCEPT ![c] = {[id |-> Cardinality(Made), editor |-> e,
                                     text |-> text[e], update |-> update]}]

TimerFires(e) ==
    /\ e \in timer
    /\ timer' = timer \ {e}
    /\ RunNow(e, FALSE)
    /\ UNCHANGED <<text, shown, drifted, acts>>

\* The button stays up, through edits too, until the outcome of a run says otherwise.
ClickAccept(e) ==
    /\ Acts
    /\ e \in drifted
    /\ RunNow(e, TRUE)
    /\ UNCHANGED <<text, timer, shown, drifted>>

OfEditor(c, e) == \E r \in of[c] : r.editor = e
Newer(c, d) == \E r \in of[c], q \in of[d] : r.id > q.id

\* An outcome may report drift, but not that of a run that failed or accepts.
MayDrift(c) == status'[c] = "resolved" /\ \A r \in of[c] : ~r.update

\* runNow, after its await: the outcomes are dispatched in the order the calls
\* were made when one event settles several.
Dispatch ==
    LET settled == {c \in Pending : status'[c] # "pending"}
        Last(own) == {c \in own : \A d \in own \ {c} : Newer(c, d)}
        last == [e \in Editors |-> Last({c \in settled : OfEditor(c, e)})]
        told == {e \in Editors : last[e] # {}}
    IN /\ shown' = [e \in Editors |-> IF e \in told THEN last[e] ELSE shown[e]]
       /\ \E some \in SUBSET {e \in told : \A c \in last[e] : MayDrift(c)} :
             drifted' = (drifted \ told) \cup some

RunTimesOut(c) ==
    Timeout(c) /\ Dispatch /\ UNCHANGED <<text, timer, of, acts>>

WorkerTells(w) ==
    (Message(w) \/ WorkerError(w)) /\ Dispatch /\ UNCHANGED <<text, timer, of, acts>>

Settles == (\E c \in Calls : RunTimesOut(c)) \/ (\E w \in Workers : WorkerTells(w))

WorkerSteps ==
    /\ \/ \E w \in Workers : TakeRequest(w) \/ Hang(w)
       \/ \E w \in Workers, c \in Calls : Respond(w, c)
    /\ UNCHANGED editorVars

PageNext ==
    \/ \E e \in Editors : Type(e) \/ TimerFires(e) \/ ClickAccept(e)
    \/ Settles
    \/ WorkerSteps

\* Timers fire.
PageFairness ==
    /\ \A e \in Editors : WF_allVars(TimerFires(e))
    /\ \A c \in Calls : WF_allVars(RunTimesOut(c))

PageSpec == PageInit /\ [][PageNext]_allVars /\ PageFairness

--------------------------------------------------------------------------------
\* What an editor shows is the answer to a run of that editor, whatever groups
\* share its worker.
ShowsItsOwn ==
    \A e \in Editors : \A c \in shown[e] :
        /\ OfEditor(c, e)
        /\ \A d \in answer[c] : OfEditor(d, e)

\* The text of an editor has been run, and its run has settled.
Ran(e) ==
    \E c \in Made : \E r \in of[c] :
        r.editor = e /\ r.text = text[e] /\ status[c] # "pending"

\* A text that stays is run, and its run settles, whatever hangs or is
\* terminated in between and whatever is typed elsewhere.
TextsAreRun == \A e \in Editors : ~Ran(e) ~> Ran(e)
================================================================================
