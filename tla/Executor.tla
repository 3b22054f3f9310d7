------------------------------- MODULE Executor -------------------------------
(***************************************************************************)
(* executePlan (core/src/execute.ts): the examples of a plan, each run by   *)
(* the sink when it pleases and suspended at every await, so that the steps *)
(* of several examples interleave (the browser runs all of them at once).   *)
(*                                                                         *)
(* What a handler returns is told apart only as far as the comparison does *)
(* (core/src/cell-diff.ts, param-diff.ts, doc-string-diff.ts): undefined,   *)
(* null, a scalar, or an object with what it answers in each slot, or in    *)
(* the column of a bound row.  An error says what an `error` fence expects  *)
(* ("named") or does not ("other"); "nothing" is no error.                  *)
(***************************************************************************)
EXTENDS Integers, Sequences, FiniteSets

CONSTANTS
    Examples,     \* the examples of the plan
    Files,        \* the step files
    Plans         \* what the plan says of an example

Errors == {"named", "other"}

\* A slot is answered by what the document says, by something else of its type, by a
\* value of another type or shape, or left undefined.
Answers == {"same", "other", "misshapen", "undefined"}

NotAnObject(shape) == [shape |-> shape, cells |-> << >>]
Undefined == NotAnObject("undefined")
Null == NotAnObject("null")
Scalar == NotAnObject("scalar")
Object(cells) == [shape |-> "object", cells |-> cells]
Nobody == [example |-> "nobody", by |-> -1]

PlannedSteps ==
    [file : Files, kind : {"stimulus", "sensor"}, slots : Seq({"param", "table", "text"})]

\* The planner makes no example without a step, and a table or doc string comes last.
ASSUME PlansAssumption ==
    \A p \in Plans :
        /\ p.steps \in Seq(PlannedSteps) /\ p.steps # << >>
        /\ \A j \in DOMAIN p.steps : LET slots == p.steps[j].slots IN
              \A k \in DOMAIN slots : slots[k] # "param" => k = Len(slots)
        /\ p.expects \in {"pass", "fail"} /\ p.rows \in BOOLEAN /\ p.message \in BOOLEAN

VARIABLES
    plan,         \* [steps, rows, expects, message] of each example
    at,           \* where its run is suspended
    step,         \* the step it is at
    states,       \* stateByFile: the state of each step file, told by its maker
    returned,     \* what its handlers returned, step by step (history)
    thrown,       \* `thrown`
    observed,     \* the observer's <<ordinal, outcome>> notifications
    verdict       \* what became of the promise the sink was given

vars == <<plan, at, step, states, returned, thrown, observed, verdict>>

Steps(e) == plan[e].steps
StepAt(e) == Steps(e)[step[e]]

\* What the handler of step s of e may return.  A sensor with one slot returns what is in
\* it, and one with several a tuple of them, of any length.
Returns(e, s) ==
    {Undefined, Null, Scalar} \cup
    {Object(cells) : cells \in
        IF plan[e].rows THEN {<< >>, <<"same">>, <<"other">>}
        ELSE IF s.kind = "stimulus" THEN {<< >>}
        ELSE {<< >>} \cup [DOMAIN s.slots -> Answers]}

Init ==
    /\ plan \in [Examples -> Plans]
    /\ at = [e \in Examples |-> "queued"]
    /\ step = [e \in Examples |-> 0]
    /\ states = [e \in Examples |-> [f \in Files |-> Nobody]]
    /\ returned = [e \in Examples |-> << >>]
    /\ thrown = [e \in Examples |-> "nothing"]
    /\ observed = [e \in Examples |-> << >>]
    /\ verdict = [e \in Examples |-> "none"]

--------------------------------------------------------------------------------
\* Mutant: one state per step file for the whole plan.
EnterSharedStep(e, n, known) ==
    /\ step' = [step EXCEPT ![e] = n]
    /\ at' = [at EXCEPT ![e] =
                 IF \A d \in Examples : known[d][Steps(e)[n].file] = Nobody
                   THEN "context" ELSE "handler"]
    /\ states' = [known EXCEPT ![e] =
                     [f \in Files |->
                        IF known[e][f] = Nobody /\ \E d \in Examples : known[d][f] # Nobody
                          THEN CHOOSE s \in {known[d][f] : d \in Examples} : s # Nobody
                          ELSE known[e][f]]]

\* The loop reaches step n of e: the state of its file is looked up, and
\* createContext is awaited if there is none yet.
EnterStep(e, n, known) ==
    /\ step' = [step EXCEPT ![e] = n]
    /\ at' = [at EXCEPT ![e] = IF known[e][Steps(e)[n].file] = Nobody
                                 THEN "context" ELSE "handler"]
    /\ states' = known

\* The sink invokes run().
Run(e) ==
    /\ at[e] = "queued"
    /\ EnterStep(e, 1, states)
    /\ UNCHANGED <<plan, returned, thrown, observed, verdict>>

\* The step file's factory has made a state, and the handler is called with it.
ContextReady(e) ==
    /\ at[e] = "context"
    /\ states' = [states EXCEPT ![e][StepAt(e).file] = [example |-> e, by |-> 0]]
    /\ at' = [at EXCEPT ![e] = "handler"]
    /\ UNCHANGED <<plan, step, returned, thrown, observed, verdict>>

\* The factory rejects: run() does, outside the try and before expectedOutcome.
ContextRejects(e) ==
    /\ at[e] = "context"
    /\ at' = [at EXCEPT ![e] = "over"]
    /\ verdict' = [verdict EXCEPT ![e] = "failed"]
    /\ UNCHANGED <<plan, step, states, returned, thrown, observed>>

--------------------------------------------------------------------------------
\* compareParams, compareTable and compareDocString find no difference.  The latter two
\* compare nothing with undefined.
Fits(kind, a) == a = "same" \/ (kind \in {"table", "text"} /\ a = "undefined")

\* Mutant: a sensor that returns nothing is not compared.
LaxAnswers(s, v) ==
    \/ v = Undefined
    \/ Len(v.cells) = Len(s.slots) /\ \A k \in DOMAIN s.slots : Fits(s.slots[k], v.cells[k])

\* The value returned is that of the slot, or a tuple with a value for each.
AnswersSlots(s, v) ==
    /\ Len(s.slots) = 1 => v.cells # <<"undefined">>
    /\ Len(v.cells) = Len(s.slots) /\ \A k \in DOMAIN s.slots : Fits(s.slots[k], v.cells[k])

\* A stimulus returns the next state or nothing; a sensor without slots returns
\* nothing, and one with slots answers each of them.  The rows of a header-bound
\* table are compared after the loop.
Accepts(e, v) ==
    LET s == StepAt(e)
    IN \/ s.kind = "stimulus" /\ v # Scalar
       \/ s.kind = "sensor" /\ plan[e].rows
       \/ s.kind = "sensor" /\ ~plan[e].rows /\ s.slots = << >> /\ v = Undefined
       \/ s.kind = "sensor" /\ ~plan[e].rows /\ s.slots # << >> /\ AnswersSlots(s, v)

\* An object a stimulus returns replaces the state of its step file.
StatesAfter(e, v) ==
    IF StepAt(e).kind = "stimulus" /\ v.shape = "object"
      THEN [states EXCEPT ![e][StepAt(e).file] = [example |-> e, by |-> step[e]]]
      ELSE states

\* compareRow: the columns that a returned object has are compared, and no others.
RowDiffers(v) == v.cells = <<"other">>

\* After the loop an undefined return is an error too.
RowThrows(e, v) ==
    IF plan[e].rows /\ (v = Undefined \/ RowDiffers(v)) THEN Errors ELSE {"nothing"}

\* expectedOutcome: an example that must fail passes when it threw, and what it
\* threw says what the fence says.
Passes(e, error) ==
    IF plan[e].expects = "fail"
      THEN error # "nothing" /\ (plan[e].message => error = "named")
      ELSE error = "nothing"

Conclude(e, error) ==
    /\ at' = [at EXCEPT ![e] = "over"]
    /\ thrown' = [thrown EXCEPT ![e] = error]
    /\ verdict' = [verdict EXCEPT ![e] = IF Passes(e, error) THEN "passed" ELSE "failed"]
    /\ UNCHANGED <<plan, step>>

Observe(e, outcomes) == observed' = [observed EXCEPT ![e] = @ \o outcomes]

\* The handler's promise resolves with v and the step passes: the next one is
\* entered, or the rows are compared and the example concluded.
StepPasses(e, v) ==
    /\ at[e] = "handler"
    /\ Accepts(e, v)
    /\ returned' = [returned EXCEPT ![e] = Append(@, v)]
    /\ IF step[e] < Len(Steps(e))
         THEN /\ EnterStep(e, step[e] + 1, StatesAfter(e, v))
              /\ Observe(e, <<<<step[e], "pass">>>>)
              /\ UNCHANGED <<plan, thrown, verdict>>
         ELSE \E error \in RowThrows(e, v) :
                 /\ Conclude(e, error)
                 /\ Observe(e, IF error = "nothing" THEN <<<<step[e], "pass">>>>
                               ELSE <<<<step[e], "pass">>, <<step[e], "fail">>>>)
                 /\ states' = StatesAfter(e, v)

\* The loop breaks, and the rows are compared only if nothing was thrown.
Fail(e, error) ==
    /\ Observe(e, <<<<step[e], "fail">>>>)
    /\ Conclude(e, error)
    /\ UNCHANGED states

\* It resolves with v and v is not what the step must return.
StepMismatches(e, v, error) ==
    /\ at[e] = "handler"
    /\ ~Accepts(e, v)
    /\ returned' = [returned EXCEPT ![e] = Append(@, v)]
    /\ Fail(e, error)

\* It rejects with an error...
StepRejects(e, error) ==
    /\ at[e] = "handler"
    /\ UNCHANGED returned
    /\ Fail(e, error)

LastReturn(e) ==
    IF returned[e] = << >> THEN Undefined ELSE returned[e][Len(returned[e])]

\* ...or with undefined, which leaves `thrown` as it was: the rows are compared
\* with what the step before it returned.
StepRejectsEmpty(e) ==
    /\ at[e] = "handler"
    /\ \E error \in RowThrows(e, LastReturn(e)) :
          /\ Conclude(e, error)
          /\ Observe(e, IF error = "nothing" THEN <<<<step[e], "fail">>>>
                        ELSE <<<<step[e], "fail">>, <<Len(Steps(e)), "fail">>>>)
    /\ UNCHANGED <<states, returned>>

Next ==
    \E e \in Examples :
        \/ Run(e)
        \/ ContextReady(e)
        \/ ContextRejects(e)
        \/ at[e] = "handler" /\ \E v \in Returns(e, StepAt(e)) :
              StepPasses(e, v) \/ \E error \in Errors : StepMismatches(e, v, error)
        \/ \E error \in Errors : StepRejects(e, error)
        \/ StepRejectsEmpty(e)

Spec == Init /\ [][Next]_vars

--------------------------------------------------------------------------------
Makers == [example : Examples, by : Nat] \cup {Nobody}
Values == [shape : {"undefined", "null", "scalar", "object"}, cells : Seq(Answers)]
Outcomes == Nat \X {"pass", "fail"}

\* Every variable holds a value of the kind the code keeps in it.
TypeOK ==
    /\ plan \in [Examples -> Plans]
    /\ at \in [Examples -> {"queued", "context", "handler", "over"}]
    /\ step \in [Examples -> Nat]
    /\ states \in [Examples -> [Files -> Makers]]
    /\ returned \in [Examples -> Seq(Values)]
    /\ thrown \in [Examples -> Errors \cup {"nothing"}]
    /\ observed \in [Examples -> Seq(Outcomes)]
    /\ verdict \in [Examples -> {"none", "passed", "failed"}]

\* The steps of e before k that replaced the state of file f.
Replacements(e, f, k) ==
    {j \in 1..(k - 1) : /\ j <= Len(returned[e])
                        /\ Steps(e)[j].file = f
                        /\ Steps(e)[j].kind = "stimulus"
                        /\ returned[e][j].shape = "object"}

\* "successive steps from the same stepfile share the same context object, steps
\* in different stepfiles each get their own" (execute.ts:34): a handler is given
\* the state the last stimulus of its own example and file returned, or the one
\* the factory made for them, whatever the other examples do meanwhile.
OwnState ==
    \A e \in Examples :
        at[e] = "handler" =>
            LET s == states[e][StepAt(e).file]
                r == Replacements(e, StepAt(e).file, step[e])
            IN /\ s.example = e
               /\ IF r = {} THEN s.by = 0
                  ELSE s.by \in r /\ \A j \in r : j <= s.by

\* v is what step j of e must return for the document to hold.  A tuple may leave the
\* table or the doc string at its end undefined; a row is looked at when it is over.
Answered(e, j, v) ==
    LET s == Steps(e)[j]
        n == Len(s.slots)
        undefined == n > 1 /\ s.slots[n] # "param" /\ v.cells[n] = "undefined"
    IN /\ s.kind = "stimulus" => v # Scalar
       /\ s.kind = "sensor" /\ ~plan[e].rows =>
             IF n = 0 THEN v = Undefined
             ELSE /\ Len(v.cells) = n
                  /\ \A k \in 1 .. n : v.cells[k] = "same" \/ (k = n /\ undefined)

\* What the last step returned may leave out the column of the row.
RowAnswered(v) == v # Undefined /\ v.cells # <<"other">>

AllHold(e) ==
    /\ Len(returned[e]) = Len(Steps(e))
    /\ \A j \in 1 .. Len(Steps(e)) : Answered(e, j, returned[e][j])
    /\ plan[e].rows => RowAnswered(returned[e][Len(Steps(e))])

\* A step was observed failing.
SawFailure(e) == \E i \in DOMAIN observed[e] : observed[e][i][2] = "fail"

\* A step that rejected with undefined was observed failing, and threw nothing.
RejectedEmpty(e) == thrown[e] = "nothing" /\ SawFailure(e)

\* A factory rejected: the example ended before its last step, and no step failed.
ContextRejected(e) ==
    thrown[e] = "nothing" /\ ~SawFailure(e) /\ Len(returned[e]) < Len(Steps(e))

Earned(e) ==
    verdict[e] # "none" =>
        (verdict[e] = "passed" <=>
            IF plan[e].expects = "pass" THEN AllHold(e) \/ RejectedEmpty(e)
            ELSE /\ ~AllHold(e) /\ ~RejectedEmpty(e) /\ ~ContextRejected(e)
                 /\ plan[e].message => thrown[e] = "named")

\* An example passes exactly if every one of its steps was run and answered the
\* document, or if its `error` fence expects a failure, that is not so, and the
\* error says what the fence says: whatever the examples interleaved with it do
\* (execute.ts:76-256).  The code makes two exceptions.  A handler that rejects with
\* undefined has failed and is taken not to have: its example passes, and with a
\* fence fails.  And where a factory rejects (execute.ts:78, outside the try) the
\* example fails whatever its fence expects.
VerdictsAreEarned == \A e \in Examples : Earned(e)
================================================================================
