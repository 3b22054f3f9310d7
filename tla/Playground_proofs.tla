---------------------------- MODULE Playground_proofs ----------------------------
(***************************************************************************)
(* For any number of calls and workers: the invariants of RunClient, and    *)
(* that the editors of a page show their own runs.                          *)
(***************************************************************************)
EXTENDS Playground, TLAPS

\* A call that has an answer has its own, and is no longer pending.
OwnAnswers == \A c \in Calls :
    /\ answer[c] \subseteq {c}
    /\ status[c] = "resolved" => answer[c] = {c}

IInv == TypeOK /\ OwnAnswers /\ CurrentIsAlive

\* A fresh page has posted nothing.
LEMMA InitIInv == Init => IInv
<1> SUFFICES ASSUME Init PROVE IInv
    OBVIOUS
<1>1. << >> \in Seq(Calls)
    OBVIOUS
<1> QED
    BY <1>1 DEF Init, IInv, TypeOK, OwnAnswers, CurrentIsAlive, Nobody

\* Terminating a worker and forgetting it leaves every variable in order.
LEMMA TerminateKeeps ==
    ASSUME TypeOK, NEW w \in Workers, Terminate(w), Forget(w), UNCHANGED spawned
    PROVE  /\ worker' \subseteq Workers /\ alive' \subseteq spawned'
           /\ spawned' \subseteq Workers
           /\ requests' \in [Workers -> Seq(Calls)]
           /\ responses' \in [Workers -> Seq(Calls)]
           /\ running' \in [Workers -> SUBSET Calls]
           /\ hung' \subseteq alive'
           /\ worker' \subseteq alive'
<1>1. << >> \in Seq(Calls)
    OBVIOUS
<1>2. requests' \in [Workers -> Seq(Calls)] /\ responses' \in [Workers -> Seq(Calls)]
    BY <1>1 DEF TypeOK, Terminate
<1> QED
    BY <1>2 DEF TypeOK, Terminate, Forget, Nobody

\* Every step of the page and its workers keeps the invariant.
LEMMA NextIInv == IInv /\ [Next]_vars => IInv'
<1> SUFFICES ASSUME IInv, [Next]_vars PROVE IInv'
    OBVIOUS
<1> USE DEF IInv
<1>1. ASSUME NEW c \in Calls, RunOath(c) PROVE IInv'
    <2>1. PICK w \in Workers :
              /\ IF worker = Nobody THEN IsSpawned(w) ELSE worker = {w}
              /\ worker' = {w}
              /\ spawned' = spawned \cup {w}
              /\ alive' = IF worker = Nobody THEN alive \cup {w} ELSE alive
              /\ target' = [target EXCEPT ![c] = {w}]
              /\ requests' = [requests EXCEPT ![w] = Append(@, c)]
        BY <1>1 DEF RunOath
    <2>2. /\ status[c] = "idle"
          /\ status' = [status EXCEPT ![c] = "pending"]
          /\ UNCHANGED <<answer, running, hung, responses>>
        BY <1>1 DEF RunOath, workerVars
    <2>3. CurrentIsAlive'
        BY <2>1 DEF CurrentIsAlive
    <2>4. requests' \in [Workers -> Seq(Calls)]
        <3>1. requests \in [Workers -> Seq(Calls)]
            BY DEF TypeOK
        <3>2. Append(requests[w], c) \in Seq(Calls)
            BY <3>1
        <3> QED
            BY <2>1, <3>1, <3>2
    <2>5. TypeOK'
        BY <2>1, <2>2, <2>4 DEF TypeOK
    <2>6. OwnAnswers'
        BY <2>2 DEF TypeOK, OwnAnswers
    <2> QED
        BY <2>3, <2>5, <2>6
<1>2. ASSUME NEW c \in Calls, Timeout(c) PROVE IInv'
    <2>1. PICK w \in target[c] : Forget(w) /\ Terminate(w)
        BY <1>2 DEF Timeout
    <2>2. /\ status' = [status EXCEPT ![c] = "timed out"]
          /\ UNCHANGED <<spawned, target, answer>>
        BY <1>2 DEF Timeout
    <2>3. w \in Workers
        BY <2>1 DEF TypeOK
    <2>4. TypeOK' /\ CurrentIsAlive'
        BY <2>1, <2>2, <2>3, TerminateKeeps DEF TypeOK, CurrentIsAlive
    <2>5. OwnAnswers'
        BY <2>2 DEF TypeOK, OwnAnswers
    <2> QED
        BY <2>4, <2>5
<1>3. ASSUME NEW w \in Workers, Message(w) PROVE IInv'
    <2> DEFINE r == Head(responses[w])
               takers == {c \in Listening(w) : Takes(c, r)}
    <2>1. /\ responses[w] # << >>
          /\ status' = [c \in Calls |-> IF c \in takers THEN "resolved" ELSE status[c]]
          /\ answer' = [c \in Calls |-> IF c \in takers THEN {r} ELSE answer[c]]
          /\ responses' = [responses EXCEPT ![w] = Tail(@)]
          /\ UNCHANGED <<worker, alive, spawned, target, requests, running, hung>>
        BY <1>3 DEF Message, workerVars
    <2>2. r \in Calls /\ Tail(responses[w]) \in Seq(Calls)
        <3>1. responses[w] \in Seq(Calls)
            BY DEF TypeOK
        <3> QED
            BY <2>1, <3>1
    <2>3. responses' \in [Workers -> Seq(Calls)]
        BY <2>1, <2>2 DEF TypeOK
    <2> HIDE DEF r
    <2>4. TypeOK'
        BY <2>1, <2>2, <2>3 DEF TypeOK
    <2>5. OwnAnswers'
        BY <2>1, <2>2 DEF TypeOK, OwnAnswers, Takes
    <2> QED
        BY <2>1, <2>4, <2>5 DEF CurrentIsAlive
<1>4. ASSUME NEW w \in Workers, WorkerError(w) PROVE IInv'
    <2>1. /\ status' = [c \in Calls |-> IF c \in Listening(w) THEN "failed" ELSE status[c]]
          /\ Forget(w) /\ Terminate(w)
          /\ UNCHANGED <<spawned, target, answer>>
        BY <1>4 DEF WorkerError
    <2>2. TypeOK' /\ CurrentIsAlive'
        BY <2>1, TerminateKeeps DEF TypeOK, CurrentIsAlive
    <2>3. OwnAnswers'
        BY <2>1 DEF TypeOK, OwnAnswers
    <2> QED
        BY <2>2, <2>3
<1>5. ASSUME NEW w \in Workers, TakeRequest(w) PROVE IInv'
    <2>1. /\ requests[w] # << >>
          /\ running' = [running EXCEPT ![w] = @ \cup {Head(requests[w])}]
          /\ requests' = [requests EXCEPT ![w] = Tail(@)]
          /\ UNCHANGED <<worker, alive, spawned, status, target, answer, hung, responses>>
        BY <1>5 DEF TakeRequest, pageVars
    <2>2. Head(requests[w]) \in Calls /\ Tail(requests[w]) \in Seq(Calls)
        <3>1. requests[w] \in Seq(Calls)
            BY DEF TypeOK
        <3> QED
            BY <2>1, <3>1
    <2>3. TypeOK'
        BY <2>1, <2>2 DEF TypeOK
    <2> QED
        BY <2>1, <2>3 DEF OwnAnswers, CurrentIsAlive
<1>6. ASSUME NEW w \in Workers, Hang(w) PROVE IInv'
    BY <1>6 DEF Hang, pageVars, TypeOK, OwnAnswers, CurrentIsAlive
<1>7. ASSUME NEW w \in Workers, NEW c \in Calls, Respond(w, c) PROVE IInv'
    <2>1. /\ running' = [running EXCEPT ![w] = @ \ {c}]
          /\ responses' = [responses EXCEPT ![w] = Append(@, c)]
          /\ UNCHANGED <<worker, alive, spawned, status, target, answer, requests, hung>>
        BY <1>7 DEF Respond, pageVars
    <2>2. Append(responses[w], c) \in Seq(Calls)
        <3>1. responses[w] \in Seq(Calls)
            BY DEF TypeOK
        <3> QED
            BY <3>1
    <2>3. TypeOK'
        BY <2>1, <2>2 DEF TypeOK
    <2> QED
        BY <2>1, <2>3 DEF OwnAnswers, CurrentIsAlive
<1>8. CASE UNCHANGED vars
    BY <1>8 DEF vars, pageVars, workerVars, TypeOK, OwnAnswers, CurrentIsAlive
<1> QED
    BY <1>1, <1>2, <1>3, <1>4, <1>5, <1>6, <1>7, <1>8 DEF Next

--------------------------------------------------------------------------------
\* For any calls and workers: the page never posts to a worker it has
\* terminated, whichever call's timer or error terminated it.
THEOREM PostsToTheLiving == Spec => []CurrentIsAlive
<1>1. Spec => []IInv
    BY InitIInv, NextIInv, PTL DEF Spec
<1>2. IInv => CurrentIsAlive
    BY DEF IInv
<1> QED
    BY <1>1, <1>2, PTL

\* For any calls and workers: what resolves a call is the response to it.
THEOREM AnswersReachTheirCallers == Spec => []OwnAnswer
<1>1. Spec => []IInv
    BY InitIInv, NextIInv, PTL DEF Spec
<1>2. IInv => OwnAnswer
    BY DEF IInv, OwnAnswers, OwnAnswer
<1> QED
    BY <1>1, <1>2, PTL

\* For any calls and workers: every variable holds what its declaration says.
THEOREM PageTypeCorrect == Spec => []TypeOK
<1>1. Spec => []IInv
    BY InitIInv, NextIInv, PTL DEF Spec
<1>2. IInv => TypeOK
    BY DEF IInv
<1> QED
    BY <1>1, <1>2, PTL

--------------------------------------------------------------------------------
\* What a view shows is a call of its editor, made before.
Shows ==
    /\ of = [c \in Calls |-> of[c]]
    /\ shown = [e \in Editors |-> shown[e]]
    /\ \A e \in Editors : \A c \in shown[e] :
          c \in Calls /\ status[c] # "idle" /\ OfEditor(c, e)

\* The calls and the workers do not know of the editors.
LEMMA PageStepIsStep == PageNext => [Next]_vars
BY DEF PageNext, Type, TimerFires, ClickAccept, RunNow, Settles, RunTimesOut, WorkerTells,
       WorkerSteps, Next, vars

\* A call is made once.
LEMMA NeverIdleAgain ==
    ASSUME IInv, [Next]_vars, NEW c \in Calls, status[c] # "idle"
    PROVE  status'[c] # "idle"
<1> USE DEF IInv, TypeOK
<1>1. ASSUME NEW d \in Calls, RunOath(d) PROVE status'[c] # "idle"
    BY <1>1 DEF RunOath
<1>2. ASSUME NEW d \in Calls, Timeout(d) PROVE status'[c] # "idle"
    BY <1>2 DEF Timeout
<1>3. ASSUME NEW w \in Workers, Message(w) PROVE status'[c] # "idle"
    <2>1. status' = [d \in Calls |->
              IF d \in {b \in Listening(w) : Takes(b, Head(responses[w]))}
              THEN "resolved" ELSE status[d]]
        BY <1>3 DEF Message
    <2> QED
        BY <2>1
<1>4. ASSUME NEW w \in Workers, WorkerError(w) PROVE status'[c] # "idle"
    BY <1>4 DEF WorkerError
<1>5. ASSUME NEW w \in Workers, TakeRequest(w) \/ Hang(w) PROVE status'[c] # "idle"
    BY <1>5 DEF TakeRequest, Hang, pageVars
<1>6. ASSUME NEW w \in Workers, NEW d \in Calls, Respond(w, d) PROVE status'[c] # "idle"
    BY <1>6 DEF Respond, pageVars
<1>7. CASE UNCHANGED vars
    BY <1>7 DEF vars, pageVars
<1> QED
    BY <1>1, <1>2, <1>3, <1>4, <1>5, <1>6, <1>7 DEF Next

\* A view goes on showing calls of its editor when one more call is made.
LEMMA RunNowShows ==
    ASSUME IInv, Shows, NEW e \in Editors, NEW update, RunNow(e, update), UNCHANGED shown
    PROVE  Shows'
<1>1. PICK c \in Calls :
          /\ RunOath(c)
          /\ of' = [of EXCEPT ![c] = {[id |-> Cardinality(Made), editor |-> e,
                                       text |-> text[e], update |-> update]}]
    BY DEF RunNow
<1>2. of' = [d \in Calls |-> of'[d]]
    BY <1>1 DEF Shows
<1>3. ASSUME NEW f \in Editors, NEW d \in shown[f]
      PROVE  d \in Calls /\ status'[d] # "idle" /\ OfEditor(d, f)'
    <2>1. d \in Calls /\ status[d] # "idle" /\ OfEditor(d, f)
        BY <1>3 DEF Shows
    <2>2. status[c] = "idle"
        BY <1>1 DEF RunOath
    <2>3. of'[d] = of[d]
        BY <1>1, <2>1, <2>2 DEF Shows
    <2>4. [Next]_vars
        BY <1>1 DEF Next
    <2> QED
        BY <2>1, <2>3, <2>4, NeverIdleAgain DEF OfEditor
<1> QED
    BY <1>2, <1>3 DEF Shows

\* Every step of the page keeps what its views show their own.
LEMMA PageNextShows == IInv /\ Shows /\ [PageNext]_allVars => Shows'
<1> SUFFICES ASSUME IInv, Shows, [PageNext]_allVars PROVE Shows'
    OBVIOUS
<1>1. ASSUME NEW e \in Editors, Type(e) PROVE Shows'
    <2>1. shown' = [shown EXCEPT ![e] = NoRun] /\ UNCHANGED <<status, of>>
        BY <1>1 DEF Type, vars, pageVars
    <2> QED
        BY <2>1 DEF Shows, NoRun, OfEditor
<1>2. ASSUME NEW e \in Editors, TimerFires(e) \/ ClickAccept(e) PROVE Shows'
    <2>1. (\E update \in BOOLEAN : RunNow(e, update)) /\ UNCHANGED shown
        BY <1>2 DEF TimerFires, ClickAccept
    <2> QED
        BY <2>1, RunNowShows
<1>3. CASE Settles
    <2>1. Dispatch /\ UNCHANGED of
        BY <1>3 DEF Settles, RunTimesOut, WorkerTells
    <2>2. [Next]_vars
        BY <1>3 DEF Settles, RunTimesOut, WorkerTells, Next
    <2>3. ASSUME NEW e \in Editors, NEW c \in shown'[e]
          PROVE  c \in Calls /\ status[c] # "idle" /\ OfEditor(c, e)
        <3> DEFINE own == {d \in {b \in Pending : status'[b] # "pending"} : OfEditor(d, e)}
        <3>1. c \in shown[e] \/ c \in own
            BY <2>1, <2>3 DEF Dispatch
        <3>2. CASE c \in own
            BY <3>2 DEF Pending
        <3> QED
            BY <3>1, <3>2 DEF Shows
    <2>4. shown' = [e \in Editors |-> shown'[e]]
        BY <2>1 DEF Dispatch
    <2> QED
        BY <2>1, <2>2, <2>3, <2>4, NeverIdleAgain DEF Shows, OfEditor
<1>4. CASE WorkerSteps
    <2>1. UNCHANGED <<of, shown, status>>
        BY <1>4 DEF WorkerSteps, editorVars, TakeRequest, Hang, Respond, pageVars
    <2> QED
        BY <2>1 DEF Shows, OfEditor
<1>5. CASE UNCHANGED allVars
    BY <1>5 DEF allVars, vars, pageVars, editorVars, Shows, OfEditor
<1> QED
    BY <1>1, <1>2, <1>3, <1>4, <1>5 DEF PageNext

\* For any editors, calls and workers: an editor shows the answer to a run of its
\* own, whatever groups share its worker.
THEOREM EditorsShowTheirOwn == PageSpec => []ShowsItsOwn
<1>1. PageInit => IInv /\ Shows
    BY InitIInv DEF PageInit, Shows, NoRun
<1>2. IInv /\ Shows /\ [PageNext]_allVars => (IInv /\ Shows)'
    <2>1. [PageNext]_allVars => [Next]_vars
        BY PageStepIsStep DEF allVars
    <2> QED
        BY <2>1, NextIInv, PageNextShows
<1>3. IInv /\ Shows => ShowsItsOwn
    BY DEF IInv, OwnAnswers, Shows, ShowsItsOwn
<1>4. PageSpec => [](IInv /\ Shows)
    BY <1>1, <1>2, PTL DEF PageSpec
<1> QED
    BY <1>3, <1>4, PTL
================================================================================
