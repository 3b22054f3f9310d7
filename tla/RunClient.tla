------------------------------- MODULE RunClient -------------------------------
(***************************************************************************)
(* The playground's runs: runOath of website/src/lib/run-client.ts on the   *)
(* page, and the workers it talks to (website/src/lib/run-worker.ts), each  *)
(* with a queue of requests, runs suspended at their awaits, and a queue of *)
(* responses.  A run may also never leave its synchronous part, and then    *)
(* its worker does nothing more until it is terminated.                     *)
(***************************************************************************)
EXTENDS Integers, Sequences, FiniteSets

CONSTANTS
    Calls,        \* invocations of runOath
    Workers       \* bound: workers the page may spawn

VARIABLES
    worker,       \* the page's `worker`: {} for null, or the one it names
    alive,        \* workers spawned and not terminated
    spawned,      \* workers spawned
    status,       \* what the promise of each call is
    target,       \* `w` of each call
    answer,       \* whose response resolved it
    requests,     \* messages posted to each worker and not yet taken
    running,      \* runs of each worker suspended at an await
    hung,         \* workers stuck in a run
    responses     \* messages each worker posted and the page has not seen

pageVars == <<worker, alive, spawned, status, target, answer>>
workerVars == <<running, hung>>
vars == <<pageVars, requests, workerVars, responses>>

Pending == {c \in Calls : status[c] = "pending"}
Nobody == {}

Init ==
    /\ worker = Nobody
    /\ alive = {}
    /\ spawned = {}
    /\ status = [c \in Calls |-> "idle"]
    /\ target = [c \in Calls |-> Nobody]
    /\ answer = [c \in Calls |-> Nobody]
    /\ requests = [w \in Workers |-> << >>]
    /\ running = [w \in Workers |-> {}]
    /\ hung = {}
    /\ responses = [w \in Workers |-> << >>]

--------------------------------------------------------------------------------
\* The page.

\* spawn(): one more worker; its name is nothing to the page.
IsSpawned(w) == w \notin spawned /\ w = CHOOSE v \in Workers : v \notin spawned

\* `worker ?? spawn()`, the listeners, the timer and the message.
RunOath(c) ==
    /\ status[c] = "idle"
    /\ \E w \in Workers :
        /\ IF worker = Nobody THEN IsSpawned(w) ELSE worker = {w}
        /\ worker' = {w}
        /\ spawned' = spawned \cup {w}
        /\ alive' = IF worker = Nobody THEN alive \cup {w} ELSE alive
        /\ target' = [target EXCEPT ![c] = {w}]
        /\ requests' = [requests EXCEPT ![w] = Append(@, c)]
    /\ status' = [status EXCEPT ![c] = "pending"]
    /\ UNCHANGED <<answer, workerVars, responses>>

\* The listeners of the calls whose worker is w.
Listening(w) == {c \in Pending : target[c] = {w}}

\* Mutant: a response is whoever's it reaches.
TakesAny(c, r) == TRUE

\* Every listener of w is told of a response; a call takes its own.
Takes(c, r) == c = r

Message(w) ==
    /\ responses[w] # << >>
    /\ LET r == Head(responses[w])
           takers == {c \in Listening(w) : Takes(c, r)}
       IN /\ status' = [c \in Calls |->
                           IF c \in takers THEN "resolved" ELSE status[c]]
          /\ answer' = [c \in Calls |-> IF c \in takers THEN {r} ELSE answer[c]]
    /\ responses' = [responses EXCEPT ![w] = Tail(@)]
    /\ UNCHANGED <<worker, alive, spawned, target, requests, workerVars>>

\* w.terminate(): its tasks are discarded, and so are its unseen messages.
Terminate(w) ==
    /\ alive' = alive \ {w}
    /\ requests' = [requests EXCEPT ![w] = << >>]
    /\ running' = [running EXCEPT ![w] = {}]
    /\ hung' = hung \ {w}
    /\ responses' = [responses EXCEPT ![w] = << >>]

\* Mutant: the page goes on posting to the worker it terminated.
ForgetNothing(w) == UNCHANGED worker

\* `worker = null`, whichever worker that is.
Forget(w) == worker' = Nobody

\* An error of the worker that no run catches: every call listening fails, and
\* the first one terminates the worker.  Nobody listens, nothing happens.
WorkerError(w) ==
    /\ w \in alive \ hung
    /\ Listening(w) # {}
    /\ status' = [c \in Calls |-> IF c \in Listening(w) THEN "failed" ELSE status[c]]
    /\ Forget(w)
    /\ Terminate(w)
    /\ UNCHANGED <<spawned, target, answer>>

TimesOut(c) == status[c] = "pending"

Timeout(c) ==
    /\ TimesOut(c)
    /\ status' = [status EXCEPT ![c] = "timed out"]
    /\ \E w \in target[c] : Forget(w) /\ Terminate(w)
    /\ UNCHANGED <<spawned, target, answer>>

--------------------------------------------------------------------------------
\* The workers.

\* onmessage: the run starts, and is suspended or over before the next task.
TakeRequest(w) ==
    /\ w \in alive \ hung
    /\ requests[w] # << >>
    /\ running' = [running EXCEPT ![w] = @ \cup {Head(requests[w])}]
    /\ requests' = [requests EXCEPT ![w] = Tail(@)]
    /\ UNCHANGED <<pageVars, hung, responses>>

\* A run, or a handler of it, that does not return.
Hang(w) ==
    /\ w \in alive \ hung
    /\ running[w] # {}
    /\ hung' = hung \cup {w}
    /\ UNCHANGED <<pageVars, requests, running, responses>>

Respond(w, c) ==
    /\ w \in alive \ hung
    /\ c \in running[w]
    /\ running' = [running EXCEPT ![w] = @ \ {c}]
    /\ responses' = [responses EXCEPT ![w] = Append(@, c)]
    /\ UNCHANGED <<pageVars, requests, hung>>

--------------------------------------------------------------------------------
Next ==
    \/ \E c \in Calls : RunOath(c) \/ Timeout(c)
    \/ \E w \in Workers :
          Message(w) \/ WorkerError(w) \/ TakeRequest(w) \/ Hang(w)
    \/ \E w \in Workers, c \in Calls : Respond(w, c)

Spec == Init /\ [][Next]_vars

--------------------------------------------------------------------------------
\* Every variable holds what its declaration says.
TypeOK ==
    /\ worker \subseteq Workers /\ alive \subseteq spawned /\ spawned \subseteq Workers
    /\ status \in [Calls -> {"idle", "pending", "resolved", "failed", "timed out"}]
    /\ target \in [Calls -> SUBSET Workers]
    /\ answer \in [Calls -> SUBSET Calls]
    /\ requests \in [Workers -> Seq(Calls)] /\ responses \in [Workers -> Seq(Calls)]
    /\ running \in [Workers -> SUBSET Calls]
    /\ hung \subseteq alive

\* "Requests are tagged with an id and matched back to the right caller": what
\* resolves a call is the response to it.
OwnAnswer == \A c \in Calls : status[c] = "resolved" => answer[c] = {c}

\* The page never posts to a worker it has terminated, whichever call's timer or
\* error terminated it.
CurrentIsAlive == worker \subseteq alive
================================================================================
