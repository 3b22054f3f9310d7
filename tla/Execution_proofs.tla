--------------------------- MODULE Execution_proofs ---------------------------
(***************************************************************************)
(* For every plan, however the examples interleave: the types, the state a  *)
(* handler is given, and what a verdict stands for; and for every number of *)
(* runs in the playground's worker, with any step files: whose registry and *)
(* whose state each of them uses.                                           *)
(***************************************************************************)
EXTENDS MCExecution, SequenceTheorems, TLAPS

\* While the run of e is suspended at a step, the steps before it were answered.
Underway(e) ==
    /\ at[e] # "over" => /\ verdict[e] = "none" /\ thrown[e] = "nothing" /\ ~SawFailure(e)
                         /\ \A j \in 1 .. Len(returned[e]) : Answered(e, j, returned[e][j])
    /\ at[e] = "queued" => returned[e] = << >>
    /\ at[e] \in {"context", "handler"} =>
          step[e] \in 1 .. Len(Steps(e)) /\ Len(returned[e]) = step[e] - 1

\* The state e has for the step file f, if any, is the one it should have.
Maker(e, f) ==
    LET r == Replacements(e, f, Len(returned[e]) + 1) IN
    IF states[e][f] = Nobody THEN r = {}
    ELSE /\ states[e][f].example = e
         /\ IF r = {} THEN states[e][f].by = 0
            ELSE states[e][f].by \in r /\ \A j \in r : j <= states[e][f].by

Owned(e) ==
    /\ at[e] # "over" => \A f \in Files : Maker(e, f)
    /\ at[e] = "context" => states[e][StepAt(e).file] = Nobody
    /\ at[e] = "handler" => states[e][StepAt(e).file] # Nobody

Sound(e) == Underway(e) /\ Owned(e) /\ Earned(e)

\* The invariant.
IInv == TypeOK /\ \A e \in Examples : Sound(e)

--------------------------------------------------------------------------------
\* A planned example has a step, and its steps are typed.
LEMMA PlanTyped ==
    ASSUME TypeOK, NEW e \in Examples
    PROVE  /\ Steps(e) \in Seq(PlannedSteps) /\ Len(Steps(e)) \in Nat \ {0}
           /\ \A j \in 1 .. Len(Steps(e)) : Steps(e)[j] \in PlannedSteps
           /\ \A j \in 1 .. Len(Steps(e)) : LET slots == Steps(e)[j].slots IN
                 \A k \in 1 .. Len(slots) : slots[k] # "param" => k = Len(slots)
           /\ plan[e].expects \in {"pass", "fail"}
           /\ plan[e].rows \in BOOLEAN /\ plan[e].message \in BOOLEAN
<1>1. plan[e] \in Plans
    BY DEF TypeOK
<1>2. /\ Steps(e) \in Seq(PlannedSteps) /\ Steps(e) # << >>
      /\ \A j \in DOMAIN Steps(e) : LET slots == Steps(e)[j].slots IN
            \A k \in DOMAIN slots : slots[k] # "param" => k = Len(slots)
      /\ plan[e].expects \in {"pass", "fail"}
      /\ plan[e].rows \in BOOLEAN /\ plan[e].message \in BOOLEAN
    BY <1>1, PlansAssumption DEF Steps
<1>3. \A j \in 1 .. Len(Steps(e)) : Steps(e)[j] \in PlannedSteps
    BY <1>2
<1>4. \A j \in 1 .. Len(Steps(e)) : DOMAIN Steps(e)[j].slots = 1 .. Len(Steps(e)[j].slots)
    BY <1>3 DEF PlannedSteps
<1> QED
    BY <1>2, <1>3, <1>4

\* What a handler may return is a value.
LEMMA ReturnsAreValues ==
    ASSUME TypeOK, NEW e \in Examples, NEW s \in PlannedSteps, NEW v \in Returns(e, s)
    PROVE  v \in Values
<1>1. << >> \in Seq(Answers) /\ <<"same">> \in Seq(Answers) /\ <<"other">> \in Seq(Answers)
    BY DEF Answers
<1>2. \A cells \in [DOMAIN s.slots -> Answers] : cells \in Seq(Answers)
    BY DEF PlannedSteps
<1>3. Undefined \in Values /\ Null \in Values /\ Scalar \in Values
    BY <1>1 DEF Undefined, Null, Scalar, NotAnObject, Values
<1>4. \A cells \in Seq(Answers) : Object(cells) \in Values
    BY DEF Object, Values
<1> QED
    BY <1>1, <1>2, <1>3, <1>4 DEF Returns

\* A step accepts exactly what answers the document: a table or doc string that may be
\* left undefined is the last of several slots.
LEMMA AcceptsWhatAnswers ==
    ASSUME TypeOK, NEW e \in Examples, step[e] \in 1 .. Len(Steps(e)), NEW v \in Values
    PROVE  Accepts(e, v) <=> Answered(e, step[e], v)
<1> DEFINE s == Steps(e)[step[e]]
           n == Len(s.slots)
<1>1. /\ s \in PlannedSteps /\ plan[e].rows \in BOOLEAN
      /\ \A k \in 1 .. n : s.slots[k] # "param" => k = n
    BY PlanTyped
<1>2. /\ s.slots \in Seq({"param", "table", "text"}) /\ n \in Nat
      /\ s.kind \in {"stimulus", "sensor"}
    BY <1>1 DEF PlannedSteps
<1>3. /\ v.cells \in Seq(Answers) /\ Len(v.cells) \in Nat
      /\ Undefined.cells = << >> /\ s.slots = << >> <=> n = 0
    BY <1>2 DEF Values, Undefined, NotAnObject
<1>4. CASE s.kind = "stimulus"
    BY <1>4 DEF Accepts, Answered, StepAt
<1>5. CASE s.kind = "sensor" /\ plan[e].rows
    BY <1>5 DEF Accepts, Answered, StepAt
<1>6. CASE s.kind = "sensor" /\ ~plan[e].rows /\ n = 0
    BY <1>3, <1>6 DEF Accepts, Answered, StepAt
<1>7. CASE s.kind = "sensor" /\ ~plan[e].rows /\ n # 0
  <2> DEFINE undefined == n > 1 /\ s.slots[n] # "param" /\ v.cells[n] = "undefined"
  <2>1. DOMAIN s.slots = 1 .. n /\ \A k \in 1 .. n : s.slots[k] \in {"param", "table", "text"}
    BY <1>2
  <2>2. Accepts(e, v) <=> AnswersSlots(s, v)
    BY <1>3, <1>7 DEF Accepts, StepAt
  <2>3. Answered(e, step[e], v) <=>
           /\ Len(v.cells) = n
           /\ \A k \in 1 .. n : v.cells[k] = "same" \/ (k = n /\ undefined)
    BY <1>7 DEF Answered
  <2>4. v.cells = <<"undefined">> <=> Len(v.cells) = 1 /\ v.cells[1] = "undefined"
    <3>1. /\ <<"undefined">> \in Seq(Answers) /\ Len(<<"undefined">>) = 1
          /\ <<"undefined">>[1] = "undefined"
      BY DEF Answers
    <3>2. ASSUME Len(v.cells) = 1, v.cells[1] = "undefined"
          PROVE  v.cells = <<"undefined">>
      <4>1. \A i \in 1 .. Len(v.cells) : v.cells[i] = <<"undefined">>[i]
        BY <3>1, <3>2
      <4> QED
        BY <1>3, <3>1, <3>2, <4>1, SeqEqual
    <3> QED
      BY <3>1, <3>2
  <2>5. ASSUME Len(v.cells) = n, NEW k \in 1 .. n, n = 1 => v.cells # <<"undefined">>
        PROVE  Fits(s.slots[k], v.cells[k]) <=> v.cells[k] = "same" \/ (k = n /\ undefined)
    <3>1. k # n => s.slots[k] = "param"
      BY <1>1
    <3>2. n = 1 => k = 1 /\ v.cells[k] # "undefined"
      BY <2>4, <2>5
    <3>3. Fits(s.slots[k], v.cells[k]) <=>
             v.cells[k] = "same" \/ (s.slots[k] # "param" /\ v.cells[k] = "undefined")
      BY <2>1 DEF Fits
    <3>4. CASE k # n
      BY <3>1, <3>3, <3>4
    <3>5. CASE k = n /\ n = 1
      BY <3>2, <3>3, <3>5
    <3>6. CASE k = n /\ n > 1
      BY <3>3, <3>6
    <3> HIDE DEF undefined, n, s
    <3>7. n = 1 \/ n > 1
      BY <1>2, <1>7
    <3> QED
      BY <3>4, <3>5, <3>6, <3>7
  <2>6. n = 1 /\ Answered(e, step[e], v) => v.cells # <<"undefined">>
    BY <2>3, <2>4
  <2>7. AnswersSlots(s, v) <=>
           /\ n = 1 => v.cells # <<"undefined">>
           /\ Len(v.cells) = n /\ \A k \in 1 .. n : Fits(s.slots[k], v.cells[k])
    BY <2>1 DEF AnswersSlots
  <2> HIDE DEF undefined, n, s
  <2> QED
    BY <2>2, <2>3, <2>5, <2>6, <2>7
<1> QED
    BY <1>1, <1>2, <1>4, <1>5, <1>6, <1>7

--------------------------------------------------------------------------------
\* Every value a state can be replaced with is somebody's.
LEMMA StatesTyped ==
    ASSUME TypeOK, NEW e \in Examples, NEW f \in Files, NEW n \in Nat
    PROVE  [states EXCEPT ![e][f] = [example |-> e, by |-> n]] \in [Examples -> [Files -> Makers]]
<1>1. [example |-> e, by |-> n] \in Makers
    BY DEF Makers
<1> QED
    BY <1>1 DEF TypeOK

\* At a handler, what it returns is a value.
LEMMA ReturnTyped ==
    ASSUME TypeOK, NEW e \in Examples, Underway(e), at[e] = "handler",
           NEW v \in Returns(e, StepAt(e))
    PROVE  /\ v \in Values /\ StepAt(e) \in PlannedSteps
           /\ step[e] \in 1 .. Len(Steps(e))
           /\ StatesAfter(e, v) \in [Examples -> [Files -> Makers]]
<1>1. step[e] \in 1 .. Len(Steps(e)) /\ StepAt(e) \in PlannedSteps
    BY PlanTyped DEF Underway, StepAt
<1>2. StatesAfter(e, v) \in [Examples -> [Files -> Makers]]
    BY <1>1, StatesTyped DEF StatesAfter, PlannedSteps, TypeOK
<1> QED
    BY <1>1, <1>2, ReturnsAreValues

\* The next step is entered with typed states.
LEMMA EnterTyped ==
    ASSUME TypeOK, NEW e \in Examples, NEW n \in 1 .. Len(Steps(e)),
           NEW known \in [Examples -> [Files -> Makers]], EnterStep(e, n, known)
    PROVE  /\ step' \in [Examples -> Nat] /\ states' \in [Examples -> [Files -> Makers]]
           /\ at' \in [Examples -> {"queued", "context", "handler", "over"}]
<1>1. n \in Nat
    BY PlanTyped
<1> QED
    BY <1>1 DEF EnterStep, TypeOK

LEMMA ConcludeTyped ==
    ASSUME TypeOK, NEW e \in Examples, NEW error \in Errors \cup {"nothing"}, Conclude(e, error)
    PROVE  /\ at' \in [Examples -> {"queued", "context", "handler", "over"}]
           /\ thrown' \in [Examples -> Errors \cup {"nothing"}]
           /\ verdict' \in [Examples -> {"none", "passed", "failed"}]
           /\ plan' \in [Examples -> Plans] /\ step' \in [Examples -> Nat]
BY DEF Conclude, TypeOK

LEMMA ObserveTyped ==
    ASSUME TypeOK, NEW e \in Examples, NEW outcomes \in Seq(Outcomes), Observe(e, outcomes)
    PROVE  observed' \in [Examples -> Seq(Outcomes)]
<1>1. observed[e] \o outcomes \in Seq(Outcomes)
    BY DEF TypeOK
<1> QED
    BY <1>1 DEF Observe, TypeOK

LEMMA OutcomesTyped ==
    ASSUME NEW m \in Nat, NEW n \in Nat
    PROVE  /\ <<<<m, "pass">>>> \in Seq(Outcomes) /\ <<<<m, "fail">>>> \in Seq(Outcomes)
           /\ <<<<m, "pass">>, <<m, "fail">>>> \in Seq(Outcomes)
           /\ <<<<m, "fail">>, <<n, "fail">>>> \in Seq(Outcomes)
<1>1. /\ <<m, "pass">> \in Outcomes /\ <<m, "fail">> \in Outcomes
      /\ <<n, "fail">> \in Outcomes
    BY DEF Outcomes
<1> QED
    BY <1>1

\* Every step of an example keeps the types.
LEMMA EntersTyped ==
    ASSUME TypeOK, NEW e \in Examples, Sound(e), Run(e) \/ ContextReady(e) \/ ContextRejects(e)
    PROVE  TypeOK'
<1>1. CASE Run(e)
  <2>1. 1 \in 1 .. Len(Steps(e)) /\ states \in [Examples -> [Files -> Makers]]
    BY PlanTyped DEF TypeOK
  <2> QED
    BY <1>1, <2>1, EnterTyped DEF Run, TypeOK
<1>2. CASE ContextReady(e)
  <2>1. step[e] \in 1 .. Len(Steps(e)) /\ StepAt(e) \in PlannedSteps
    BY <1>2, PlanTyped DEF ContextReady, Sound, Underway, StepAt
  <2>2. states' \in [Examples -> [Files -> Makers]]
    BY <1>2, <2>1, StatesTyped DEF ContextReady, PlannedSteps
  <2> QED
    BY <1>2, <2>2 DEF ContextReady, TypeOK
<1>3. CASE ContextRejects(e)
    BY <1>3 DEF ContextRejects, TypeOK
<1> QED
    BY <1>1, <1>2, <1>3

LEMMA PassTyped ==
    ASSUME TypeOK, NEW e \in Examples, Sound(e), NEW v \in Returns(e, StepAt(e)),
           StepPasses(e, v)
    PROVE  TypeOK'
<1>1. /\ v \in Values /\ step[e] \in 1 .. Len(Steps(e)) /\ step[e] \in Nat
      /\ StatesAfter(e, v) \in [Examples -> [Files -> Makers]]
    BY ReturnTyped DEF StepPasses, Sound, TypeOK
<1>2. returned' \in [Examples -> Seq(Values)]
    BY <1>1 DEF StepPasses, TypeOK
<1>3. CASE step[e] < Len(Steps(e))
  <2>1. step[e] + 1 \in 1 .. Len(Steps(e))
    BY <1>1, <1>3, PlanTyped
  <2>2. /\ EnterStep(e, step[e] + 1, StatesAfter(e, v))
        /\ Observe(e, <<<<step[e], "pass">>>>) /\ UNCHANGED <<plan, thrown, verdict>>
    BY <1>3 DEF StepPasses
  <2>3. observed' \in [Examples -> Seq(Outcomes)]
    BY <1>1, <2>2, ObserveTyped, OutcomesTyped
  <2> QED
    BY <1>1, <1>2, <2>1, <2>2, <2>3, EnterTyped DEF TypeOK
<1>4. CASE ~(step[e] < Len(Steps(e)))
  <2>1. PICK error \in RowThrows(e, v) :
           /\ Conclude(e, error)
           /\ Observe(e, IF error = "nothing" THEN <<<<step[e], "pass">>>>
                         ELSE <<<<step[e], "pass">>, <<step[e], "fail">>>>)
           /\ states' = StatesAfter(e, v)
    BY <1>4 DEF StepPasses
  <2>2. error \in Errors \cup {"nothing"}
    BY DEF RowThrows
  <2>3. observed' \in [Examples -> Seq(Outcomes)]
    BY <1>1, <2>1, ObserveTyped, OutcomesTyped
  <2> QED
    BY <1>1, <1>2, <2>1, <2>2, <2>3, ConcludeTyped DEF TypeOK
<1> QED
    BY <1>3, <1>4

LEMMA FailTyped ==
    ASSUME TypeOK, NEW e \in Examples, NEW error \in Errors, Fail(e, error),
           returned' \in [Examples -> Seq(Values)]
    PROVE  TypeOK'
<1>1. observed' \in [Examples -> Seq(Outcomes)]
    BY ObserveTyped, OutcomesTyped DEF Fail, TypeOK
<1> QED
    BY <1>1, ConcludeTyped DEF Fail, TypeOK

LEMMA EndsTyped ==
    ASSUME TypeOK, NEW e \in Examples, Sound(e), NEW error \in Errors,
           \/ \E v \in Returns(e, StepAt(e)) : StepMismatches(e, v, error)
           \/ StepRejects(e, error)
           \/ StepRejectsEmpty(e)
    PROVE  TypeOK'
<1>1. ASSUME NEW v \in Returns(e, StepAt(e)), StepMismatches(e, v, error)
      PROVE  TypeOK'
  <2>1. v \in Values
    BY <1>1, ReturnTyped DEF StepMismatches, Sound
  <2>2. returned' \in [Examples -> Seq(Values)]
    BY <1>1, <2>1 DEF StepMismatches, TypeOK
  <2> QED
    BY <1>1, <2>2, FailTyped DEF StepMismatches
<1>2. CASE StepRejects(e, error)
    BY <1>2, FailTyped DEF StepRejects, TypeOK
<1>3. CASE StepRejectsEmpty(e)
  <2>1. PICK thrownThen \in RowThrows(e, LastReturn(e)) :
           /\ Conclude(e, thrownThen)
           /\ Observe(e, IF thrownThen = "nothing" THEN <<<<step[e], "fail">>>>
                         ELSE <<<<step[e], "fail">>, <<Len(Steps(e)), "fail">>>>)
    BY <1>3 DEF StepRejectsEmpty
  <2>2. thrownThen \in Errors \cup {"nothing"}
    BY DEF RowThrows
  <2>3. step[e] \in Nat /\ Len(Steps(e)) \in Nat
    BY PlanTyped DEF TypeOK
  <2>4. observed' \in [Examples -> Seq(Outcomes)]
    BY <2>1, <2>3, ObserveTyped, OutcomesTyped
  <2> QED
    BY <1>3, <2>1, <2>2, <2>4, ConcludeTyped DEF StepRejectsEmpty, TypeOK
<1> QED
    BY <1>1, <1>2, <1>3

--------------------------------------------------------------------------------
\* What Sound(d) is about stays as it is.
Untouched(d) ==
    /\ plan' = plan /\ at'[d] = at[d] /\ step'[d] = step[d] /\ states'[d] = states[d]
    /\ returned'[d] = returned[d] /\ thrown'[d] = thrown[d]
    /\ observed'[d] = observed[d] /\ verdict'[d] = verdict[d]

LEMMA UntouchedSound ==
    ASSUME NEW d \in Examples, Sound(d), Untouched(d)
    PROVE  Sound(d)'
<1>1. Steps(d)' = Steps(d) /\ StepAt(d)' = StepAt(d)
    BY DEF Untouched, Steps, StepAt
<1>2. \A j : \A v : Answered(d, j, v)' <=> Answered(d, j, v)
    BY <1>1 DEF Untouched, Answered
<1>3. Underway(d)'
    BY <1>1, <1>2 DEF Sound, Underway, SawFailure, Untouched
<1>4. \A f, k : Replacements(d, f, k)' = Replacements(d, f, k)
    BY <1>1 DEF Replacements, Untouched
<1>5. Owned(d)'
    BY <1>1, <1>4 DEF Sound, Owned, Maker, Untouched
<1>6. AllHold(d)' <=> AllHold(d)
    BY <1>1, <1>2 DEF AllHold, Untouched
<1>7. Earned(d)'
    BY <1>1, <1>6 DEF Sound, Earned, RejectedEmpty, ContextRejected, SawFailure, Untouched
<1> QED
    BY <1>3, <1>5, <1>7 DEF Sound

\* A step of one example touches no other.
LEMMA Apart ==
    ASSUME TypeOK, NEW e \in Examples, NEW d \in Examples, d # e,
           \/ Run(e) \/ ContextReady(e) \/ ContextRejects(e)
           \/ \E v \in Returns(e, StepAt(e)) :
                 StepPasses(e, v) \/ \E error \in Errors : StepMismatches(e, v, error)
           \/ \E error \in Errors : StepRejects(e, error)
           \/ StepRejectsEmpty(e)
    PROVE  Untouched(d)
<1>1. ASSUME NEW n, NEW known, known[d] = states[d], EnterStep(e, n, known)
      PROVE  at'[d] = at[d] /\ step'[d] = step[d] /\ states'[d] = states[d]
    BY <1>1 DEF EnterStep, TypeOK
<1>2. ASSUME NEW error, Conclude(e, error)
      PROVE  /\ plan' = plan /\ at'[d] = at[d] /\ step'[d] = step[d]
             /\ thrown'[d] = thrown[d] /\ verdict'[d] = verdict[d]
    BY <1>2 DEF Conclude, TypeOK
<1>3. ASSUME NEW outcomes, Observe(e, outcomes)
      PROVE  observed'[d] = observed[d]
    BY <1>3 DEF Observe, TypeOK
<1>4. ASSUME NEW error, Fail(e, error), returned'[d] = returned[d]
      PROVE  Untouched(d)
    BY <1>2, <1>3, <1>4 DEF Fail, Untouched
<1>5. CASE Run(e)
    BY <1>1, <1>5 DEF Run, Untouched
<1>6. CASE ContextReady(e)
    BY <1>6 DEF ContextReady, Untouched, TypeOK
<1>7. CASE ContextRejects(e)
    BY <1>7 DEF ContextRejects, Untouched, TypeOK
<1>8. ASSUME NEW v \in Returns(e, StepAt(e)), StepPasses(e, v)
      PROVE  Untouched(d)
  <2>1. StatesAfter(e, v)[d] = states[d] /\ returned'[d] = returned[d]
    BY <1>8 DEF StatesAfter, StepPasses, TypeOK
  <2>2. CASE step[e] < Len(Steps(e))
    BY <1>1, <1>3, <1>8, <2>1, <2>2 DEF StepPasses, Untouched
  <2>3. CASE ~(step[e] < Len(Steps(e)))
    BY <1>2, <1>3, <1>8, <2>1, <2>3 DEF StepPasses, Untouched
  <2> QED
    BY <2>2, <2>3
<1>9. ASSUME NEW v, NEW error, StepMismatches(e, v, error)
      PROVE  Untouched(d)
    BY <1>4, <1>9 DEF StepMismatches, TypeOK
<1>10. ASSUME NEW error, StepRejects(e, error)
       PROVE  Untouched(d)
    BY <1>4, <1>10 DEF StepRejects
<1>11. CASE StepRejectsEmpty(e)
    BY <1>2, <1>3, <1>11 DEF StepRejectsEmpty, Untouched
<1> QED
    BY <1>5, <1>6, <1>7, <1>8, <1>9, <1>10, <1>11

--------------------------------------------------------------------------------
\* A return is one more, and the steps before it are answered as they were.
LEMMA AnsweredStays ==
    ASSUME NEW e \in Examples, plan' = plan
    PROVE  /\ Steps(e)' = Steps(e)
           /\ \A j : \A v : Answered(e, j, v)' <=> Answered(e, j, v)
BY DEF Steps, Answered

LEMMA ReturnedGrows ==
    ASSUME TypeOK, NEW e \in Examples, NEW v \in Values,
           returned' = [returned EXCEPT ![e] = Append(@, v)]
    PROVE  /\ Len(returned[e]) \in Nat /\ Len(returned'[e]) = Len(returned[e]) + 1
           /\ \A j \in 1 .. Len(returned[e]) : returned'[e][j] = returned[e][j]
           /\ returned'[e][Len(returned[e]) + 1] = v
BY DEF TypeOK

LEMMA ReturnedUpTo ==
    ASSUME TypeOK, NEW e \in Examples, NEW v \in Values,
           returned' = [returned EXCEPT ![e] = Append(@, v)],
           Len(returned[e]) = step[e] - 1
    PROVE  /\ Len(returned'[e]) = step[e] /\ returned'[e][step[e]] = v
           /\ \A j \in 1 .. step[e] - 1 : returned'[e][j] = returned[e][j]
<1> DEFINE n == Len(returned[e])
<1>1. /\ n \in Nat /\ Len(returned'[e]) = n + 1 /\ returned'[e][n + 1] = v
      /\ \A j \in 1 .. n : returned'[e][j] = returned[e][j]
    BY ReturnedGrows
<1>2. step[e] \in Nat /\ n = step[e] - 1
    BY DEF TypeOK
<1> HIDE DEF n
<1>3. n + 1 = step[e]
    BY <1>1, <1>2
<1> QED
    BY <1>1, <1>2, <1>3

\* What is left of an example that is over is its verdict.
LEMMA OverSound ==
    ASSUME NEW e \in Examples, at'[e] = "over", Earned(e)'
    PROVE  Sound(e)'
BY DEF Sound, Underway, Owned

\* Entering a step that follows the last one answered, with the states of their makers.
LEMMA EnterSound ==
    ASSUME TypeOK, NEW e \in Examples, NEW n \in 1 .. Len(Steps(e)),
           NEW known \in [Examples -> [Files -> Makers]], EnterStep(e, n, known),
           UNCHANGED <<plan, verdict, thrown>>, verdict[e] = "none",
           thrown[e] = "nothing", ~SawFailure(e)',
           Len(returned'[e]) = n - 1,
           \A j \in 1 .. Len(returned'[e]) : Answered(e, j, returned'[e][j]),
           \A f \in Files : Maker(e, f)'
    PROVE  Sound(e)'
<1>1. /\ step'[e] = n /\ states' = known
      /\ at'[e] = IF known[e][Steps(e)[n].file] = Nobody THEN "context" ELSE "handler"
    BY DEF EnterStep, TypeOK
<1>2. Steps(e)' = Steps(e) /\ \A j : \A v : Answered(e, j, v)' <=> Answered(e, j, v)
    BY AnsweredStays
<1>3. StepAt(e)' = Steps(e)[n]
    BY <1>1, <1>2 DEF StepAt
<1>4. Underway(e)'
    BY <1>1, <1>2 DEF Underway
<1>5. Owned(e)'
    BY <1>1, <1>3 DEF Owned
<1>6. Earned(e)'
    BY DEF Earned
<1> QED
    BY <1>4, <1>5, <1>6 DEF Sound

LEMMA RunSound ==
    ASSUME TypeOK, NEW e \in Examples, Sound(e), Run(e)
    PROVE  Sound(e)'
<1>1. /\ at[e] = "queued" /\ EnterStep(e, 1, states) /\ returned[e] = << >>
      /\ verdict[e] = "none" /\ UNCHANGED <<plan, verdict, thrown, returned>>
      /\ states' = states /\ thrown[e] = "nothing" /\ ~SawFailure(e)'
    BY DEF Run, Sound, Underway, EnterStep, SawFailure
<1>2. 1 \in 1 .. Len(Steps(e)) /\ Steps(e)' = Steps(e)
    BY <1>1, PlanTyped, AnsweredStays
<1>3. \A f \in Files : Maker(e, f)'
    BY <1>1, <1>2 DEF Sound, Owned, Maker, Replacements
<1>4. states \in [Examples -> [Files -> Makers]]
    BY DEF TypeOK
<1> QED
    BY <1>1, <1>2, <1>3, <1>4, EnterSound

LEMMA ContextSound ==
    ASSUME TypeOK, NEW e \in Examples, Sound(e), ContextReady(e)
    PROVE  Sound(e)'
<1> DEFINE file == StepAt(e).file
<1>1. /\ step[e] \in 1 .. Len(Steps(e)) /\ states[e][file] = Nobody /\ file \in Files
      /\ \A f \in Files : Maker(e, f)
    BY PlanTyped DEF ContextReady, Sound, Underway, Owned, StepAt, PlannedSteps
<1>2. /\ states'[e][file] = [example |-> e, by |-> 0]
      /\ \A f \in Files \ {file} : states'[e][f] = states[e][f]
      /\ at'[e] = "handler" /\ at[e] = "context"
      /\ UNCHANGED <<plan, step, returned, thrown, observed, verdict>>
    BY <1>1 DEF ContextReady, TypeOK
<1>3. /\ Steps(e)' = Steps(e) /\ StepAt(e)' = StepAt(e)
      /\ \A j : \A v : Answered(e, j, v)' <=> Answered(e, j, v)
      /\ \A f, k : Replacements(e, f, k)' = Replacements(e, f, k)
    BY <1>2, AnsweredStays DEF StepAt, Replacements
<1>4. Underway(e)'
    BY <1>1, <1>2, <1>3 DEF Sound, Underway, SawFailure
<1>5. states'[e][file] # Nobody
    BY <1>2 DEF Nobody
<1>6. Maker(e, file)'
    BY <1>1, <1>2, <1>3, <1>5 DEF Maker
<1>7. \A f \in Files \ {file} : Maker(e, f)'
    BY <1>1, <1>2, <1>3 DEF Maker
<1>8. Owned(e)'
    BY <1>2, <1>3, <1>5, <1>6, <1>7 DEF Owned
<1>9. Earned(e)'
    BY <1>2 DEF Sound, Underway, Earned
<1> QED
    BY <1>4, <1>8, <1>9 DEF Sound

\* createContext rejects before the step returns: not all steps were run.
LEMMA RejectedContextSound ==
    ASSUME TypeOK, NEW e \in Examples, Sound(e), ContextRejects(e)
    PROVE  Sound(e)'
<1>1. /\ at'[e] = "over" /\ verdict'[e] = "failed" /\ plan' = plan /\ returned' = returned
    BY DEF ContextRejects, TypeOK
<1>2. Len(returned[e]) = step[e] - 1 /\ step[e] \in 1 .. Len(Steps(e)) /\ Len(Steps(e)) \in Nat
    BY PlanTyped DEF Sound, Underway, ContextRejects
<1>3. ~AllHold(e)'
    BY <1>1, <1>2, AnsweredStays DEF AllHold
<1>4. thrown'[e] = "nothing" /\ ~SawFailure(e)' /\ Len(returned'[e]) < Len(Steps(e)')
    BY <1>1, <1>2, AnsweredStays DEF ContextRejects, Sound, Underway, SawFailure
<1>5. ~RejectedEmpty(e)' /\ ContextRejected(e)'
    BY <1>4 DEF RejectedEmpty, ContextRejected
<1>6. Earned(e)'
    BY <1>1, <1>3, <1>5 DEF Earned
<1> QED
    BY <1>1, <1>6, OverSound

\* A verdict is earned if nothing was thrown only when all holds.
LEMMA ConcludeSound ==
    ASSUME TypeOK, NEW e \in Examples, NEW error \in Errors \cup {"nothing"}, Conclude(e, error),
           error # "nothing" => ~AllHold(e)',
           error = "nothing" => AllHold(e)' \/ RejectedEmpty(e)'
    PROVE  Sound(e)'
<1>1. /\ at'[e] = "over" /\ thrown'[e] = error /\ plan' = plan
      /\ verdict'[e] = IF Passes(e, error) THEN "passed" ELSE "failed"
    BY DEF Conclude, TypeOK
<1>2. plan[e].expects \in {"pass", "fail"}
    BY PlanTyped
<1>3. Earned(e)'
  <2>1. CASE error = "nothing"
    <3>1. verdict'[e] = "passed" <=> plan'[e].expects = "pass"
      BY <1>1, <1>2, <2>1 DEF Passes
    <3> QED
      BY <1>1, <1>2, <2>1, <3>1 DEF Earned
  <2>2. CASE error # "nothing"
    <3>1. ~AllHold(e)' /\ ~RejectedEmpty(e)' /\ ~ContextRejected(e)'
      BY <1>1, <2>2 DEF RejectedEmpty, ContextRejected
    <3>2. verdict'[e] = "passed" <=>
             plan'[e].expects = "fail" /\ (plan'[e].message => thrown'[e] = "named")
      BY <1>1, <1>2, <2>2 DEF Passes
    <3> QED
      BY <1>1, <1>2, <3>1, <3>2 DEF Earned
  <2> QED
    BY <2>1, <2>2
<1> QED
    BY <1>1, <1>3, OverSound

\* The replacements there are after one more return: the step itself, perhaps.
LEMMA MakerStays ==
    ASSUME TypeOK, NEW e \in Examples, Sound(e), at[e] = "handler",
           NEW v \in Returns(e, StepAt(e)), plan' = plan,
           returned' = [returned EXCEPT ![e] = Append(@, v)],
           states' = StatesAfter(e, v), NEW f \in Files
    PROVE  Maker(e, f)'
<1> DEFINE replaces == StepAt(e).kind = "stimulus" /\ v.shape = "object"
           here == replaces /\ StepAt(e).file = f
           before == Replacements(e, f, Len(returned[e]) + 1)
           after == Replacements(e, f, Len(returned[e]) + 1)'
<1>1. /\ v \in Values /\ StepAt(e) \in PlannedSteps /\ step[e] \in 1 .. Len(Steps(e))
      /\ step[e] \in Nat /\ Len(returned[e]) = step[e] - 1 /\ Maker(e, f)
      /\ states[e][StepAt(e).file] # Nobody
    BY ReturnTyped DEF Sound, Underway, Owned, TypeOK
<1>2. /\ Len(returned'[e]) = step[e] /\ returned'[e][step[e]] = v
      /\ \A j \in 1 .. step[e] - 1 : returned'[e][j] = returned[e][j]
      /\ Steps(e)' = Steps(e)
    BY <1>1, ReturnedUpTo, AnsweredStays
<1>3. before = {j \in 1 .. step[e] - 1 : /\ Steps(e)[j].file = f
                                         /\ Steps(e)[j].kind = "stimulus"
                                         /\ returned[e][j].shape = "object"}
    BY <1>1 DEF Replacements
<1>4. after = {j \in 1 .. step[e] : /\ Steps(e)[j].file = f
                                    /\ Steps(e)[j].kind = "stimulus"
                                    /\ returned'[e][j].shape = "object"}
    BY <1>1, <1>2 DEF Replacements
<1>5. after = before \cup (IF here THEN {step[e]} ELSE {})
    BY <1>1, <1>2, <1>3, <1>4 DEF StepAt
<1>6. CASE here
  <2>1. states'[e][f] = [example |-> e, by |-> step[e]]
    BY <1>1, <1>6 DEF StatesAfter, TypeOK
  <2>2. states'[e][f] # Nobody
    BY <1>1, <2>1 DEF Nobody
  <2>3. step[e] \in after /\ \A j \in after : j <= step[e]
    BY <1>1, <1>3, <1>5, <1>6
  <2> HIDE DEF after
  <2> QED
    BY <2>1, <2>2, <2>3 DEF Maker, after
<1>7. CASE ~here
  <2>1. states'[e][f] = states[e][f]
    BY <1>1, <1>7 DEF StatesAfter, TypeOK
  <2>2. after = before
    BY <1>5, <1>7
  <2> QED
    BY <1>1, <2>1, <2>2 DEF Maker
<1> QED
    BY <1>6, <1>7

LEMMA PassSound ==
    ASSUME TypeOK, NEW e \in Examples, Sound(e), NEW v \in Returns(e, StepAt(e)),
           StepPasses(e, v)
    PROVE  Sound(e)'
<1>1. /\ at[e] = "handler" /\ Accepts(e, v) /\ plan' = plan /\ states' = states'
      /\ returned' = [returned EXCEPT ![e] = Append(@, v)]
    BY DEF StepPasses, Conclude
<1>2. /\ v \in Values /\ step[e] \in 1 .. Len(Steps(e)) /\ step[e] \in Nat
      /\ Len(Steps(e)) \in Nat /\ Len(returned[e]) = step[e] - 1 /\ verdict[e] = "none"
      /\ StatesAfter(e, v) \in [Examples -> [Files -> Makers]]
    BY <1>1, ReturnTyped, PlanTyped DEF Sound, Underway, TypeOK
<1>3. /\ Len(returned'[e]) = step[e] /\ returned'[e][step[e]] = v
      /\ \A j \in 1 .. step[e] - 1 : returned'[e][j] = returned[e][j]
    BY <1>1, <1>2, ReturnedUpTo
<1>4. Answered(e, step[e], v)
    BY <1>1, <1>2, AcceptsWhatAnswers
<1>5. \A j \in 1 .. step[e] - 1 : Answered(e, j, returned[e][j])
    BY <1>1, <1>2 DEF Sound, Underway
<1>6. \A j \in 1 .. step[e] : Answered(e, j, returned'[e][j])
  <2>1. \A j \in 1 .. step[e] : j = step[e] \/ j \in 1 .. step[e] - 1
    BY <1>2
  <2> QED
    BY <1>3, <1>4, <1>5, <2>1, Zenon
<1>7. CASE step[e] < Len(Steps(e))
  <2>1. /\ EnterStep(e, step[e] + 1, StatesAfter(e, v)) /\ UNCHANGED <<plan, verdict, thrown>>
        /\ states' = StatesAfter(e, v) /\ Observe(e, <<<<step[e], "pass">>>>)
    BY <1>7 DEF StepPasses, EnterStep
  <2>2. \A f \in Files : Maker(e, f)'
    BY <1>1, <2>1, MakerStays
  <2>3. step[e] + 1 \in 1 .. Len(Steps(e)) /\ Len(returned'[e]) = (step[e] + 1) - 1
    BY <1>2, <1>3, <1>7
  <2>4. thrown[e] = "nothing" /\ ~SawFailure(e)
    BY <1>1 DEF Sound, Underway
  <2>5. ~SawFailure(e)'
    <3>1. /\ observed[e] \in Seq(Outcomes) /\ <<<<step[e], "pass">>>> \in Seq(Outcomes)
          /\ observed'[e] = observed[e] \o <<<<step[e], "pass">>>>
      BY <1>2, <2>1, OutcomesTyped DEF Observe, TypeOK
    <3>2. ASSUME NEW i \in DOMAIN observed'[e]
          PROVE  observed'[e][i][2] # "fail"
      <4>1. i \in DOMAIN observed[e] \/ observed'[e][i] = <<step[e], "pass">>
        BY <3>1
      <4>2. i \in DOMAIN observed[e] => observed'[e][i] = observed[e][i]
        BY <3>1
      <4> QED
        BY <2>4, <4>1, <4>2 DEF SawFailure
    <3> QED
      BY <3>2 DEF SawFailure
  <2> QED
    BY <1>2, <1>3, <1>6, <2>1, <2>2, <2>3, <2>4, <2>5, EnterSound
<1>8. CASE ~(step[e] < Len(Steps(e)))
  <2>1. PICK error \in RowThrows(e, v) : Conclude(e, error)
    BY <1>8 DEF StepPasses
  <2>2. error \in Errors \cup {"nothing"}
    BY DEF RowThrows
  <2>3. step[e] = Len(Steps(e))
    BY <1>2, <1>8
  <2>4. AllHold(e)' <=> (plan[e].rows => RowAnswered(v))
    BY <1>1, <1>3, <1>6, <2>3, AnsweredStays DEF AllHold, RowAnswered
  <2>5. plan[e].rows /\ ~RowAnswered(v) <=> plan[e].rows /\ (v = Undefined \/ RowDiffers(v))
    BY DEF RowAnswered, RowDiffers
  <2>6. error # "nothing" <=> plan[e].rows /\ ~RowAnswered(v)
    BY <2>5 DEF RowThrows, Errors
  <2>7. plan[e].rows \in BOOLEAN
    BY PlanTyped
  <2> QED
    BY <2>1, <2>2, <2>4, <2>6, <2>7, ConcludeSound
<1> QED
    BY <1>7, <1>8

\* A step that fails is not answered, or not run to its end.
LEMMA EndsSound ==
    ASSUME TypeOK, NEW e \in Examples, Sound(e), NEW error \in Errors,
           \/ \E v \in Returns(e, StepAt(e)) : StepMismatches(e, v, error)
           \/ StepRejects(e, error)
           \/ StepRejectsEmpty(e)
    PROVE  Sound(e)'
<1>1. at[e] = "handler"
    BY DEF StepMismatches, StepRejects, StepRejectsEmpty
<1>2. /\ step[e] \in 1 .. Len(Steps(e)) /\ step[e] \in Nat
      /\ Len(Steps(e)) \in Nat /\ Len(returned[e]) = step[e] - 1
    BY <1>1, PlanTyped DEF Sound, Underway, TypeOK
<1>3. error # "nothing"
    BY DEF Errors
<1>4. ASSUME returned' = returned, plan' = plan
      PROVE  ~AllHold(e)'
    BY <1>2, <1>4, AnsweredStays DEF AllHold
<1>5. ASSUME NEW v \in Returns(e, StepAt(e)), StepMismatches(e, v, error)
      PROVE  Sound(e)'
  <2>1. /\ v \in Values /\ ~Answered(e, step[e], v)
    BY <1>1, <1>2, <1>5, ReturnTyped, AcceptsWhatAnswers DEF StepMismatches, Sound
  <2>2. /\ plan' = plan /\ Conclude(e, error)
        /\ returned' = [returned EXCEPT ![e] = Append(@, v)]
    BY <1>5 DEF StepMismatches, Fail, Conclude
  <2>3. returned'[e][step[e]] = v
    BY <1>2, <2>1, <2>2, ReturnedUpTo
  <2>4. ~AllHold(e)'
    BY <1>2, <2>1, <2>2, <2>3, AnsweredStays DEF AllHold
  <2> QED
    BY <1>3, <2>2, <2>4, ConcludeSound
<1>6. CASE StepRejects(e, error)
    BY <1>3, <1>4, <1>6, ConcludeSound DEF StepRejects, Fail, Conclude
<1>7. CASE StepRejectsEmpty(e)
  <2>1. PICK thrownThen \in RowThrows(e, LastReturn(e)) :
           /\ Conclude(e, thrownThen)
           /\ Observe(e, IF thrownThen = "nothing" THEN <<<<step[e], "fail">>>>
                         ELSE <<<<step[e], "fail">>, <<Len(Steps(e)), "fail">>>>)
    BY <1>7 DEF StepRejectsEmpty
  <2>2. /\ returned' = returned /\ plan' = plan /\ thrown'[e] = thrownThen
        /\ thrownThen \in Errors \cup {"nothing"}
    BY <1>7, <2>1 DEF StepRejectsEmpty, Conclude, RowThrows, TypeOK
  <2>3. ASSUME thrownThen = "nothing"
        PROVE  RejectedEmpty(e)'
    <3>1. /\ observed[e] \in Seq(Outcomes) /\ <<<<step[e], "fail">>>> \in Seq(Outcomes)
          /\ observed'[e] = observed[e] \o <<<<step[e], "fail">>>>
      BY <1>2, <2>1, <2>3, OutcomesTyped DEF Observe, TypeOK
    <3>2. /\ Len(observed[e]) + 1 \in DOMAIN observed'[e]
          /\ observed'[e][Len(observed[e]) + 1] = <<step[e], "fail">>
      BY <3>1
    <3> QED
      BY <2>2, <2>3, <3>2 DEF RejectedEmpty, SawFailure
  <2> QED
    BY <1>4, <2>1, <2>2, <2>3, ConcludeSound
<1> QED
    BY <1>5, <1>6, <1>7

--------------------------------------------------------------------------------
LEMMA InitSound == Init => IInv
<1> SUFFICES ASSUME Init PROVE IInv
    OBVIOUS
<1>1. Nobody \in Makers
    BY DEF Makers
<1>2. TypeOK
    BY <1>1 DEF Init, TypeOK
<1>3. ASSUME NEW e \in Examples
      PROVE  Sound(e)
  <2>1. /\ at[e] = "queued" /\ returned[e] = << >> /\ verdict[e] = "none"
        /\ thrown[e] = "nothing" /\ observed[e] = << >>
        /\ \A f \in Files : states[e][f] = Nobody
    BY DEF Init
  <2>2. \A f : Replacements(e, f, Len(returned[e]) + 1) = {}
    BY <2>1 DEF Replacements
  <2> QED
    BY <2>1, <2>2 DEF Sound, Underway, Owned, Maker, Earned, SawFailure
<1> QED
    BY <1>2, <1>3 DEF IInv

\* One example takes a step, and the others stay as they are.
LEMMA NextSound ==
    ASSUME IInv, [Next]_vars
    PROVE  IInv'
<1>1. CASE Next
  <2>1. PICK e \in Examples :
           \/ Run(e)
           \/ ContextReady(e)
           \/ ContextRejects(e)
           \/ at[e] = "handler" /\ \E v \in Returns(e, StepAt(e)) :
                 StepPasses(e, v) \/ \E error \in Errors : StepMismatches(e, v, error)
           \/ \E error \in Errors : StepRejects(e, error)
           \/ StepRejectsEmpty(e)
    BY <1>1 DEF Next
  <2>2. TypeOK /\ Sound(e)
    BY DEF IInv
  <2>3. "named" \in Errors
    BY DEF Errors
  <2>4. TypeOK'
    BY <2>1, <2>2, <2>3, EntersTyped, PassTyped, EndsTyped
  <2>5. Sound(e)'
    BY <2>1, <2>2, <2>3, RunSound, ContextSound, RejectedContextSound, PassSound, EndsSound
  <2>6. ASSUME NEW d \in Examples, d # e
        PROVE  Sound(d)'
    <3>1. Untouched(d)
      BY <2>1, <2>2, <2>6, Apart
    <3> QED
      BY <3>1, UntouchedSound DEF IInv
  <2> QED
    BY <2>4, <2>5, <2>6 DEF IInv
<1>2. CASE UNCHANGED vars
  <2>1. TypeOK'
    BY <1>2 DEF IInv, TypeOK, vars
  <2>2. \A d \in Examples : Untouched(d)
    BY <1>2 DEF Untouched, vars
  <2> QED
    BY <2>1, <2>2, UntouchedSound DEF IInv
<1> QED
    BY <1>1, <1>2

LEMMA AlwaysSound == Spec => []IInv
BY InitSound, NextSound, PTL DEF Spec

\* Every variable holds a value of its kind, for every plan of every size.
THEOREM TypeCorrect == Spec => []TypeOK
<1>1. IInv => TypeOK
    BY DEF IInv
<1> QED
    BY <1>1, AlwaysSound, PTL

\* However the examples interleave, a handler is given the state that the last stimulus
\* of its own example and step file returned, or a fresh one (execute.ts:34, 73-118).
THEOREM HandlersOwnTheirState == Spec => []OwnState
<1>1. ASSUME IInv, NEW e \in Examples, at[e] = "handler"
      PROVE  LET s == states[e][StepAt(e).file]
                 r == Replacements(e, StepAt(e).file, step[e])
             IN /\ s.example = e
                /\ IF r = {} THEN s.by = 0
                   ELSE s.by \in r /\ \A j \in r : j <= s.by
  <2>1. /\ Sound(e) /\ step[e] \in Nat /\ step[e] \in 1 .. Len(Steps(e))
        /\ Len(returned[e]) = step[e] - 1
    BY <1>1 DEF IInv, TypeOK, Sound, Underway
  <2>2. StepAt(e).file \in Files /\ Len(returned[e]) + 1 = step[e]
    BY <1>1, <2>1, PlanTyped DEF IInv, StepAt, PlannedSteps
  <2>3. Maker(e, StepAt(e).file) /\ states[e][StepAt(e).file] # Nobody
    BY <1>1, <2>1, <2>2 DEF Sound, Owned
  <2> QED
    BY <2>2, <2>3 DEF Maker
<1>2. IInv => OwnState
    BY <1>1 DEF OwnState
<1> QED
    BY <1>2, AlwaysSound, PTL

\* Examples pass exactly if all of their steps were run and answered the document, or
\* fail as their error fence says (execute.ts:83-256), for any plans and interleavings.
THEOREM VerdictsAlwaysEarned == Spec => []VerdictsAreEarned
<1>1. IInv => VerdictsAreEarned
    BY DEF IInv, Sound, VerdictsAreEarned
<1> QED
    BY <1>1, AlwaysSound, PTL
--------------------------------------------------------------------------------
\* The playground's worker.

\* What is known of the run of m: its registry is that of its own step files, and it is
\* over, or goes on, as these call for.
OwnInv(m) ==
    /\ registry[m] \subseteq {<<W!Own(m), W!Own(m)>>}
    /\ answer[m] \in {"none", "results", "run error"}
    /\ m \in inbox => answer[m] = "none"
    /\ m \notin inbox => (answer[m] = "run error" <=> W!Faulty(m))

\* An example that is under way is of a message that was taken and whose step files all
\* loaded, and has a context for its first step.
UnderwayInv(m, e) ==
    suspended[m][e] > 0 =>
        /\ m \notin inbox /\ W!Throws(m) = {}
        /\ suspended[m][e] \in DOMAIN W!Steps(m, e)
        /\ Head(W!Steps(m, e)) \in DOMAIN contexts[m][e]

\* Whatever became of the builder since, its first context is of its own run and none is
\* older.
BegunInv(m, e) ==
    /\ UnderwayInv(m, e)
    /\ \A f \in DOMAIN contexts[m][e] :
          /\ W!MadeSince(m, f, contexts[m][e][f])
          /\ f = Head(W!Steps(m, e)) => contexts[m][e][f] = {m}

\* The builder holds what the last of the messages taken left in it.
IsLast(n) ==
    /\ n \in Messages \ inbox
    /\ \A m \in Messages \ inbox : m = n \/ n \in later[m]
    /\ \A f \in StepFiles :
          \/ factories[f] = {n} /\ f \in W!FilesOf(n)
          \/ factories[f] = W!None /\ W!LeavesOut(n, f)
LastInv == inbox = Messages \/ \E n \in Messages : IsLast(n)

\* The variables are functions of the messages, and the examples' steps are of their own
\* oath's step files.
WorkerTyped ==
    /\ oath \in [Messages -> W!Oaths]
    /\ DOMAIN registry = Messages /\ DOMAIN answer = Messages
    /\ DOMAIN suspended = Messages /\ DOMAIN contexts = Messages
    /\ \A m \in Messages :
          /\ suspended[m] \in [OathExamples -> Nat]
          /\ DOMAIN contexts[m] = OathExamples

WorkerInv ==
    /\ WorkerTyped
    /\ LastInv
    /\ \A m \in Messages : OwnInv(m) /\ \A e \in OathExamples : BegunInv(m, e)

\* The steps of an example are of its oath's step files.
LEMMA StepsOfOwnFiles ==
    ASSUME oath \in [Messages -> W!Oaths], NEW m \in Messages, NEW e \in OathExamples,
           W!Steps(m, e) # << >>
    PROVE  /\ W!FilesOf(m) \subseteq StepFiles /\ Len(W!Steps(m, e)) \in Nat
           /\ 1 \in DOMAIN W!Steps(m, e)
           /\ DOMAIN W!Steps(m, e) = 1 .. Len(W!Steps(m, e))
           /\ Head(W!Steps(m, e)) \in W!FilesOf(m)
           /\ \A k \in DOMAIN W!Steps(m, e) : W!Steps(m, e)[k] \in W!FilesOf(m)
<1>1. PICK F \in SUBSET StepFiles :
          oath[m] \in [files : [F -> StepSources],
                       steps : [OathExamples -> W!SeqOf(F, MaxOathSteps)]]
    <2>1. oath[m] \in W!Oaths
        OBVIOUS
    <2> QED
        BY <2>1, Zenon DEF W!Oaths
<1>2. W!FilesOf(m) = F /\ W!Steps(m, e) \in W!SeqOf(F, MaxOathSteps)
    BY <1>1 DEF W!FilesOf, W!Steps
<1>3. PICK n \in 0 .. MaxOathSteps : W!Steps(m, e) \in [1 .. n -> F]
    BY <1>2 DEF W!SeqOf
<1>4. n # 0
    BY <1>3
<1>5. /\ 1 \in 1 .. n /\ Head(W!Steps(m, e)) = W!Steps(m, e)[1]
      /\ Len(W!Steps(m, e)) = n
    BY <1>3, <1>4, OathsAssumption
<1> QED
    BY <1>2, <1>3, <1>5

\* What the step files that were loaded register makes no registry exactly if they are at
\* fault among themselves.
LEMMA FaultsShow ==
    ASSUME NEW m, W!FilesOf(m) \subseteq StepFiles, NEW L \in W!LoadedFiles(m),
           NEW es, es = {<<m, f>> : f \in L}
    PROVE  /\ W!Throws(m) = {} => L = W!FilesOf(m) /\ es = W!Own(m)
           /\ W!Throws(m) # {} \/ ~W!Builds(es, es) <=> W!Faulty(m)
<1>1. \A f \in W!FilesOf(m) : W!Reset.factories[f] = W!None
    BY DEF W!Reset, W!NoFactories
<1>2. W!Throws(m) = {f \in W!FilesOf(m) : oath[m].files[f].throws}
    BY <1>1 DEF W!Throws
<1>3. CASE W!Throws(m) # {}
    BY <1>2, <1>3 DEF W!Faulty
<1>4. CASE W!Throws(m) = {}
    <2>1. L = W!FilesOf(m) /\ es = W!Own(m)
        BY <1>4 DEF W!LoadedFiles, W!Own
    <2>2. /\ \A d : d \in es <=> \E f \in W!FilesOf(m) : d = <<m, f>>
          /\ \A f : W!Source(<<m, f>>) = oath[m].files[f]
        BY <2>1 DEF W!Own, W!Source
    <2>3. \A f, g : <<m, f>> # <<m, g>> <=> f # g
        OBVIOUS
    <2>4. W!Declared(es) <=>
              \A f, g \in W!FilesOf(m) : f # g =>
                  oath[m].files[f].declares \cap oath[m].files[g].declares = {}
        <3>1. ASSUME W!Declared(es),
                     NEW f \in W!FilesOf(m), NEW g \in W!FilesOf(m), f # g
              PROVE  oath[m].files[f].declares \cap oath[m].files[g].declares = {}
            <4>1. <<m, f>> \in es /\ <<m, g>> \in es /\ <<m, f>> # <<m, g>>
                BY <2>1, <2>3, <3>1 DEF W!Own
            <4> QED
                BY <2>2, <3>1, <4>1, Zenon DEF W!Declared
        <3>2. ASSUME \A f, g \in W!FilesOf(m) : f # g =>
                         oath[m].files[f].declares \cap oath[m].files[g].declares = {},
                     NEW d \in es, NEW e \in es, d # e
              PROVE  W!Source(d).declares \cap W!Source(e).declares = {}
            <4>1. PICK f \in W!FilesOf(m), g \in W!FilesOf(m) : d = <<m, f>> /\ e = <<m, g>>
                BY <2>2
            <4> QED
                BY <2>2, <3>2, <4>1
        <3> QED
            BY <3>1, <3>2 DEF W!Declared
    <2>5. (\A d, e \in es : d # e => W!Source(d).defines \cap W!Source(e).defines = {}) <=>
              \A f, g \in W!FilesOf(m) : f # g =>
                  oath[m].files[f].defines \cap oath[m].files[g].defines = {}
        <3>1. ASSUME (\A d, e \in es : d # e => W!Source(d).defines \cap W!Source(e).defines = {}),
                     NEW f \in W!FilesOf(m), NEW g \in W!FilesOf(m), f # g
              PROVE  oath[m].files[f].defines \cap oath[m].files[g].defines = {}
            <4>1. <<m, f>> \in es /\ <<m, g>> \in es /\ <<m, f>> # <<m, g>>
                BY <2>1, <2>3, <3>1 DEF W!Own
            <4> QED
                BY <2>2, <3>1, <4>1, Zenon
        <3>2. ASSUME \A f, g \in W!FilesOf(m) : f # g =>
                         oath[m].files[f].defines \cap oath[m].files[g].defines = {},
                     NEW d \in es, NEW e \in es, d # e
              PROVE  W!Source(d).defines \cap W!Source(e).defines = {}
            <4>1. PICK f \in W!FilesOf(m), g \in W!FilesOf(m) : d = <<m, f>> /\ e = <<m, g>>
                BY <2>2
            <4> QED
                BY <2>2, <3>2, <4>1
        <3> QED
            BY <3>1, <3>2
    <2>6. (\A e \in es : W!Source(e).uses \subseteq UNION {W!Source(t).declares : t \in es})
              <=> \A f \in W!FilesOf(m) : \A t \in oath[m].files[f].uses :
                      \E g \in W!FilesOf(m) : t \in oath[m].files[g].declares
        <3>1. \A t : t \in UNION {W!Source(d).declares : d \in es} <=>
                         \E g \in W!FilesOf(m) : t \in oath[m].files[g].declares
            BY <2>2, Zenon
        <3> DEFINE all == UNION {W!Source(t).declares : t \in es}
        <3>2. (\A e \in es : W!Source(e).uses \subseteq all) <=>
                  \A f \in W!FilesOf(m) : oath[m].files[f].uses \subseteq all
            <4> HIDE DEF all
            <4>1. \A f \in W!FilesOf(m) : <<m, f>> \in es
                BY <2>1 DEF W!Own
            <4>2. ASSUME \A e \in es : W!Source(e).uses \subseteq all,
                         NEW f \in W!FilesOf(m)
                  PROVE  oath[m].files[f].uses \subseteq all
                BY <2>2, <4>1, <4>2, Zenon
            <4>3. ASSUME \A f \in W!FilesOf(m) : oath[m].files[f].uses \subseteq all,
                         NEW e \in es
                  PROVE  W!Source(e).uses \subseteq all
                BY <2>2, <4>3, Zenon
            <4> QED
                BY <4>2, <4>3
        <3>3. \A t : t \in all <=> \E g \in W!FilesOf(m) : t \in oath[m].files[g].declares
            BY <3>1
        <3> HIDE DEF all
        <3>4. (\A e \in es : W!Source(e).uses \subseteq all)
                  <=> \A f \in W!FilesOf(m) : \A t \in oath[m].files[f].uses :
                          \E g \in W!FilesOf(m) : t \in oath[m].files[g].declares
            BY <3>2, <3>3
        <3> QED
            BY <3>4 DEF all
    <2>7. W!Builds(es, es) <=> ~W!Faulty(m)
        BY <1>2, <1>4, <2>4, <2>5, <2>6 DEF W!Builds, W!Added, W!Faulty
    <2> QED
        BY <1>4, <2>1, <2>7
<1> QED
    BY <1>3, <1>4

LEMMA SameFaults ==
    ASSUME NEW m, oath' = oath
    PROVE  (W!Faulty(m)' <=> W!Faulty(m)) /\ W!Own(m)' = W!Own(m)
<1>1. W!Faulty(m)' <=> W!Faulty(m)
    BY DEF W!Faulty, W!FilesOf
<1>2. W!Own(m)' = W!Own(m)
    BY DEF W!Own, W!FilesOf
<1> QED
    BY <1>1, <1>2

\* What another run or another example is left with, it keeps.
LEMMA OwnStays ==
    ASSUME NEW m, OwnInv(m), UNCHANGED <<oath, registry[m], answer[m]>>,
           m \in inbox' <=> m \in inbox
    PROVE  OwnInv(m)'
BY SameFaults DEF OwnInv

LEMMA BegunStays ==
    ASSUME NEW m, NEW e, BegunInv(m, e), UNCHANGED <<oath, contexts[m][e]>>,
           inbox' \subseteq inbox, later[m] \subseteq later'[m],
           suspended'[m][e] = suspended[m][e] \/ ~(suspended'[m][e] > 0)
    PROVE  BegunInv(m, e)'
<1>1. suspended'[m][e] > 0 => suspended'[m][e] = suspended[m][e] /\ suspended[m][e] > 0
    OBVIOUS
<1>2. W!Throws(m)' = W!Throws(m) /\ W!Steps(m, e)' = W!Steps(m, e)
    BY DEF W!Throws, W!FilesOf, W!Reset, W!NoFactories, W!None, W!Steps
<1>3. UnderwayInv(m, e)'
    BY <1>1, <1>2 DEF BegunInv, UnderwayInv
<1>4. ASSUME NEW f \in DOMAIN contexts'[m][e]
      PROVE  /\ W!MadeSince(m, f, contexts[m][e][f])'
             /\ f = Head(W!Steps(m, e))' => contexts'[m][e][f] = {m}
    <2>1. f \in DOMAIN contexts[m][e] /\ contexts'[m][e][f] = contexts[m][e][f]
        BY <1>4
    <2>2. W!MadeSince(m, f, contexts[m][e][f])'
        <3>1. W!MadeSince(m, f, contexts[m][e][f])
            BY <2>1 DEF BegunInv
        <3> QED
            BY <2>1, <3>1 DEF W!MadeSince, W!LeavesOut, W!FilesOf
    <2> QED
        BY <1>2, <2>1, <2>2 DEF BegunInv
<1> QED
    BY <1>3, <1>4 DEF BegunInv

\* As long as no message is taken, the last one stays.
LEMMA LastStays ==
    ASSUME LastInv, UNCHANGED <<oath, inbox, later, factories>>
    PROVE  LastInv'
<1>1. CASE inbox = Messages
    BY <1>1 DEF LastInv
<1>2. ASSUME NEW n \in Messages, IsLast(n)
      PROVE  IsLast(n)'
    BY <1>2 DEF IsLast, W!LeavesOut, W!FilesOf, W!None
<1> QED
    BY <1>1, <1>2 DEF LastInv

\* The factory that an example under way finds is of its own run or of a later one.
LEMMA FactoriesSince ==
    ASSUME LastInv, NEW m \in Messages, m \notin inbox, W!Throws(m) = {},
           NEW f \in W!FilesOf(m), W!FilesOf(m) \subseteq StepFiles
    PROVE  W!MadeSince(m, f, W!FactoryOf(factories, f))
<1>1. PICK n \in Messages : IsLast(n)
    BY DEF LastInv
<1>2. n = m \/ n \in later[m]
    BY <1>1 DEF IsLast
<1>3. ~W!LeavesOut(m, f)
    BY DEF W!LeavesOut, W!Throws
<1>4. \/ factories[f] = {n} /\ f \in W!FilesOf(n)
      \/ factories[f] = W!None /\ W!LeavesOut(n, f)
    BY <1>1 DEF IsLast
<1>5. CASE factories[f] = {n} /\ f \in W!FilesOf(n)
    BY <1>2, <1>5 DEF W!MadeSince, W!FactoryOf, W!None
<1>6. CASE factories[f] = W!None /\ W!LeavesOut(n, f)
    BY <1>2, <1>3, <1>6 DEF W!MadeSince, W!FactoryOf
<1> QED
    BY <1>4, <1>5, <1>6

LEMMA ReceiveInv ==
    ASSUME WorkerInv, NEW m \in Messages, W!Receive(m)
    PROVE  WorkerInv'
<1> USE DEF WorkerInv
<1>1. PICK L \in W!LoadedFiles(m) :
          /\ factories' = W!LoadedFactories(m, L)
          /\ entries' = {<<m, f>> : f \in L} /\ customTypes' = {<<m, f>> : f \in L}
    <2>1. PICK L \in W!LoadedFiles(m) :
              /\ factories' = W!LoadedFactories(m, L)
              /\ entries' = W!Reset.entries \cup {<<m, f>> : f \in L}
              /\ customTypes' = W!Reset.types \cup {<<m, f>> : f \in L}
        BY DEF W!Receive
    <2>2. W!Reset.entries = {} /\ W!Reset.types = {}
        BY DEF W!Reset
    <2> QED
        BY <2>1, <2>2
<1>2. oath' = oath /\ m \in inbox /\ inbox' = inbox \ {m}
    BY DEF W!Receive
<1>3. W!FilesOf(m) \subseteq StepFiles
    BY DEF WorkerTyped, W!Oaths, W!FilesOf
<1>4. /\ W!Throws(m) = {} => L = W!FilesOf(m) /\ entries' = W!Own(m)
      /\ W!Throws(m) # {} \/ ~W!Builds(entries', customTypes') <=> W!Faulty(m)
    BY <1>1, <1>3, FaultsShow
<1>5. /\ \A n \in Messages \ {m} : UNCHANGED <<registry[n], answer[n], suspended[n], contexts[n]>>
      /\ \A n \in Messages : m \notin inbox' /\ later[n] \subseteq later'[n]
      /\ DOMAIN registry' = Messages /\ DOMAIN answer' = Messages
      /\ DOMAIN suspended' = Messages /\ DOMAIN contexts' = Messages
    BY DEF W!Receive, W!runVars, WorkerTyped
<1>6. \A n \in Messages \ {m} : OwnInv(n)' /\ \A e \in OathExamples : BegunInv(n, e)'
    BY <1>2, <1>5, OwnStays, BegunStays
<1>10. LastInv'
    <2>1. L \subseteq W!FilesOf(m) /\ \A f : f \in W!FilesOf(m) \ L => W!Throws(m) # {}
        <3>1. W!Throws(m) \subseteq W!FilesOf(m)
            BY DEF W!Throws
        <3> QED
            BY <1>1, <3>1 DEF W!LoadedFiles
    <2>2. \A f : f \notin L => W!LeavesOut(m, f)
        <3>1. \A f \in W!FilesOf(m) : W!Reset.factories[f] = W!None
            BY <1>3 DEF W!Reset, W!NoFactories
        <3> QED
            BY <2>1, <3>1 DEF W!LeavesOut, W!Throws
    <2>3. \A f \in StepFiles :
              \/ factories'[f] = {m} /\ f \in W!FilesOf(m)
              \/ factories'[f] = W!None /\ W!LeavesOut(m, f)
        <3>1. \A f \in StepFiles : factories'[f] = IF f \in L THEN {m} ELSE W!None
            BY <1>1 DEF W!LoadedFactories, W!Reset, W!NoFactories
        <3> QED
            BY <2>1, <2>2, <3>1
    <2>4. \A n \in Messages \ inbox' : n = m \/ m \in later'[n]
        BY <1>2 DEF W!Receive
    <2>5. IsLast(m)'
        BY <1>2, <2>3, <2>4 DEF IsLast, W!LeavesOut, W!FilesOf, W!None
    <2> QED
        BY <2>5 DEF LastInv
<1>7. /\ answer[m] = "none" /\ OwnInv(m) /\ W!Own(m)' = W!Own(m)
      /\ W!Faulty(m)' <=> W!Faulty(m)
    <2>1. answer[m] = "none" /\ OwnInv(m)
        BY <1>2 DEF OwnInv
    <2> QED
        BY <1>2, <2>1, SameFaults
<1>8. CASE W!Faulty(m)
    <2>1. answer' = [answer EXCEPT ![m] = "run error"] /\ UNCHANGED W!runVars
        BY <1>4, <1>8 DEF W!Receive
    <2>2. answer'[m] = "run error" /\ UNCHANGED <<registry, suspended, contexts>>
        BY <2>1 DEF WorkerTyped, W!runVars
    <2>3. OwnInv(m)'
        BY <1>2, <1>7, <1>8, <2>2 DEF OwnInv
    <2>4. \A e \in OathExamples : BegunInv(m, e)'
        BY <1>2, <1>5, <2>2, BegunStays
    <2>5. WorkerTyped'
        BY <1>2, <1>5, <2>2 DEF WorkerTyped
    <2> QED
        BY <1>6, <1>10, <2>3, <2>4, <2>5
<1>9. CASE ~W!Faulty(m)
    <2>1. /\ registry' = [registry EXCEPT ![m] = {<<entries', customTypes'>>}]
          /\ suspended' = [suspended EXCEPT ![m] =
                 [e \in OathExamples |-> IF W!Steps(m, e) = << >> THEN 0 ELSE 1]]
          /\ contexts' = [contexts EXCEPT ![m] =
                 [e \in OathExamples |-> W!FirstContext(W!Steps(m, e), factories')]]
          /\ UNCHANGED answer
        BY <1>4, <1>9 DEF W!Receive
    <2>2. /\ registry'[m] = {<<W!Own(m), W!Own(m)>>} /\ answer'[m] = "none"
          /\ DOMAIN suspended'[m] = OathExamples /\ DOMAIN contexts'[m] = OathExamples
          /\ \A e \in OathExamples :
                /\ suspended'[m][e] = IF W!Steps(m, e) = << >> THEN 0 ELSE 1
                /\ contexts'[m][e] = W!FirstContext(W!Steps(m, e), factories')
        <3>1. entries' = W!Own(m) /\ customTypes' = W!Own(m)
            BY <1>1, <1>4, <1>9
        <3>2. registry'[m] = {<<W!Own(m), W!Own(m)>>} /\ answer'[m] = "none"
            <4> DEFINE own == {<<entries', customTypes'>>}
            <4>1. registry' = [registry EXCEPT ![m] = own] /\ UNCHANGED answer
                BY <2>1
            <4>2. own = {<<W!Own(m), W!Own(m)>>}
                BY <3>1
            <4> HIDE DEF own
            <4> QED
                BY <1>7, <4>1, <4>2, Zenon DEF WorkerTyped
        <3> QED
            BY <2>1, <3>2 DEF WorkerTyped
    <2>3. OwnInv(m)'
        <3>1. registry'[m] \subseteq {<<W!Own(m)', W!Own(m)'>>}
            BY <1>7, <2>2, Zenon
        <3>2. m \notin inbox' /\ ~W!Faulty(m)' /\ answer'[m] = "none"
            BY <1>2, <1>7, <1>9, <2>2
        <3> QED
            BY <3>1, <3>2, Zenon DEF OwnInv
    <2>4. ASSUME NEW e \in OathExamples
          PROVE  BegunInv(m, e)'
        <3> DEFINE s == W!Steps(m, e)
        <3>1. s' = s /\ W!Throws(m)' = W!Throws(m) /\ W!Throws(m) = {}
            <4>1. W!Throws(m) = {}
                BY <1>4, <1>9
            <4> QED
                BY <1>2, <4>1
                DEF W!Steps, W!Throws, W!FilesOf, W!Reset, W!NoFactories, W!None
        <3>2. CASE s = << >>
            <4>1. DOMAIN contexts'[m][e] = {} /\ ~(suspended'[m][e] > 0)
                BY <2>2, <3>2 DEF W!FirstContext, W!NoContexts
            <4> QED
                BY <4>1 DEF BegunInv, UnderwayInv
        <3>3. CASE s # << >>
            <4>1. Head(s) \in L /\ Head(s) \in StepFiles /\ 1 \in DOMAIN s
                BY <1>3, <1>4, <1>9, <3>3, StepsOfOwnFiles DEF WorkerTyped
            <4>2. W!FactoryOf(factories', Head(s)) = {m}
                BY <1>1, <4>1 DEF W!FactoryOf, W!LoadedFactories, W!None
            <4>3. /\ DOMAIN contexts'[m][e] = {Head(s)}
                  /\ contexts'[m][e][Head(s)] = {m}
                BY <2>2, <3>3, <4>2 DEF W!FirstContext, W!WithContext, W!NoContexts
            <4>4. UnderwayInv(m, e)'
                <5>1. m \notin inbox' /\ suspended'[m][e] = 1
                    BY <1>2, <2>2, <3>3
                <5> QED
                    BY <3>1, <4>1, <4>3, <5>1 DEF UnderwayInv
            <4> QED
                BY <3>1, <4>3, <4>4 DEF BegunInv, W!MadeSince
        <3> QED
            BY <3>2, <3>3
    <2>5. WorkerTyped'
        <3>1. suspended'[m] \in [OathExamples -> Nat]
            BY <2>1 DEF WorkerTyped
        <3> QED
            BY <1>2, <1>5, <2>2, <3>1 DEF WorkerTyped
    <2> QED
        BY <1>6, <1>10, <2>3, <2>4, <2>5
<1> QED
    BY <1>8, <1>9

\* A step returns, or an example ends: no context that there is changes, and one that is
\* made is of the factory that the builder holds now.
LEMMA ExampleInv ==
    ASSUME WorkerInv, NEW m \in Messages, NEW e \in OathExamples,
           W!StepReturns(m, e) \/ W!ExampleEnds(m, e)
    PROVE  WorkerInv'
<1> USE DEF WorkerInv
<1>1. UNCHANGED <<oath, inbox, later, factories, registry, answer>> /\ suspended[m][e] > 0
    BY DEF W!StepReturns, W!ExampleEnds, W!builderVars
<1>2. /\ DOMAIN suspended' = Messages /\ DOMAIN contexts' = Messages
      /\ \A n \in Messages :
            suspended'[n] \in [OathExamples -> Nat] /\ DOMAIN contexts'[n] = OathExamples
    BY DEF W!StepReturns, W!ExampleEnds, WorkerTyped
<1>3. \A n \in Messages : \A d \in OathExamples :
          n # m \/ d # e => UNCHANGED <<suspended[n][d], contexts[n][d]>>
    BY DEF W!StepReturns, W!ExampleEnds, WorkerTyped
<1>4. /\ BegunInv(m, e) /\ m \notin inbox /\ W!Throws(m) = {}
      /\ suspended[m][e] \in DOMAIN W!Steps(m, e)
      /\ Head(W!Steps(m, e)) \in DOMAIN contexts[m][e]
    BY <1>1 DEF BegunInv, UnderwayInv
<1>5. /\ oath \in [Messages -> W!Oaths] /\ W!Steps(m, e) # << >>
      /\ suspended[m][e] \in Nat
    BY <1>4 DEF WorkerTyped
<1>6. BegunInv(m, e)'
    <2>1. CASE W!StepReturns(m, e)
        <3> DEFINE k == suspended[m][e] + 1
                   f == W!Steps(m, e)[k]
        <3>1. /\ suspended'[m][e] = k
              /\ contexts'[m][e] = W!WithContext(contexts[m][e], f, factories)
            BY <2>1 DEF W!StepReturns, WorkerTyped
        <3>2. k \in DOMAIN W!Steps(m, e) /\ f \in W!FilesOf(m)
              /\ W!FilesOf(m) \subseteq StepFiles
            <4>1. k \in DOMAIN W!Steps(m, e)
                BY <1>4, <1>5, <2>1, StepsOfOwnFiles DEF W!StepReturns, W!AtLastStep
            <4> QED
                BY <1>5, <4>1, StepsOfOwnFiles
        <3>3. W!MadeSince(m, f, W!FactoryOf(factories, f))
            BY <1>4, <3>2, FactoriesSince
        <3> HIDE DEF k, f
        <3>4. /\ W!Steps(m, e)' = W!Steps(m, e) /\ W!Throws(m)' = W!Throws(m)
              /\ \A g, c : W!MadeSince(m, g, c) <=>
                     \/ c = {m}
                     \/ \E n \in later'[m] : g \in W!FilesOf(n)' /\ c = {n}
                     \/ c = {"empty"} /\ \E n \in later'[m] : W!LeavesOut(n, g)'
            BY <1>1 DEF W!Steps, W!Throws, W!FilesOf, W!Reset, W!NoFactories, W!None,
                        W!MadeSince, W!LeavesOut
        <3>5. UnderwayInv(m, e)'
            BY <1>1, <1>4, <3>1, <3>2, <3>4 DEF UnderwayInv, W!WithContext
        <3>6. ASSUME NEW g \in DOMAIN contexts'[m][e]
              PROVE  /\ W!MadeSince(m, g, contexts'[m][e][g])
                     /\ g = Head(W!Steps(m, e)) => contexts'[m][e][g] = {m}
            <4>1. CASE g \in DOMAIN contexts[m][e]
                BY <1>4, <3>1, <4>1 DEF BegunInv, W!WithContext
            <4>2. CASE g \notin DOMAIN contexts[m][e]
                BY <1>4, <3>1, <3>3, <3>6, <4>2 DEF W!WithContext
            <4> QED
                BY <4>1, <4>2
        <3>7. \A g \in DOMAIN contexts'[m][e] : W!MadeSince(m, g, contexts[m][e][g])'
            BY <3>4, <3>6 DEF W!MadeSince
        <3> QED
            BY <3>4, <3>5, <3>6, <3>7 DEF BegunInv
    <2>2. CASE W!ExampleEnds(m, e)
        <3>1. contexts' = contexts /\ suspended'[m][e] = 0
            BY <2>2 DEF W!ExampleEnds, WorkerTyped
        <3> QED
            BY <1>1, <1>4, <3>1, BegunStays
    <2> QED
        BY <2>1, <2>2
<1>7. \A n \in Messages : OwnInv(n)'
    BY <1>1, OwnStays
<1>8. \A n \in Messages : \A d \in OathExamples : n # m \/ d # e => BegunInv(n, d)'
    BY <1>1, <1>3, BegunStays
<1>9. WorkerTyped'
    BY <1>1, <1>2 DEF WorkerTyped
<1>10. LastInv'
    BY <1>1, LastStays
<1> QED
    BY <1>6, <1>7, <1>8, <1>9, <1>10

LEMMA RespondInv ==
    ASSUME WorkerInv, NEW m \in Messages, W!Respond(m)
    PROVE  WorkerInv'
<1> USE DEF WorkerInv
<1>1. /\ UNCHANGED <<oath, inbox, later, factories, registry, suspended, contexts>>
      /\ m \notin inbox
      /\ answer[m] = "none" /\ answer' = [answer EXCEPT ![m] = "results"]
    BY DEF W!Respond, W!runVars, W!builderVars
<1>2. OwnInv(m)'
    <2>1. answer'[m] = "results"
        BY <1>1 DEF WorkerTyped
    <2> QED
        BY <1>1, <2>1, SameFaults DEF OwnInv
<1>3. \A n \in Messages \ {m} : OwnInv(n)'
    BY <1>1, OwnStays DEF WorkerTyped
<1>4. \A n \in Messages : \A e \in OathExamples : BegunInv(n, e)'
    BY <1>1, BegunStays
<1>5. WorkerTyped'
    BY <1>1 DEF WorkerTyped
<1>6. LastInv'
    BY <1>1, LastStays
<1> QED
    BY <1>2, <1>3, <1>4, <1>5, <1>6

LEMMA WorkerInitInv == W!Init => WorkerInv
<1> SUFFICES ASSUME W!Init PROVE WorkerInv
    OBVIOUS
<1>1. WorkerTyped
    BY DEF W!Init, WorkerTyped
<1>2. ASSUME NEW m \in Messages
      PROVE  OwnInv(m) /\ \A e \in OathExamples : BegunInv(m, e)
    BY DEF W!Init, OwnInv, BegunInv, UnderwayInv, W!None, W!NoContexts
<1>3. LastInv
    BY DEF W!Init, LastInv
<1> QED
    BY <1>1, <1>2, <1>3 DEF WorkerInv

LEMMA WorkerStepInv ==
    ASSUME WorkerInv, [W!Next]_(W!vars)
    PROVE  WorkerInv'
<1>1. CASE W!Next
    BY <1>1, ReceiveInv, ExampleInv, RespondInv DEF W!Next
<1>2. CASE UNCHANGED W!vars
    <2>1. UNCHANGED <<oath, inbox, later, factories, registry, answer, suspended, contexts>>
        BY <1>2 DEF W!vars, W!runVars, W!builderVars
    <2>2. WorkerTyped'
        BY <2>1 DEF WorkerInv, WorkerTyped
    <2> QED
        BY <2>1, <2>2, OwnStays, BegunStays, LastStays DEF WorkerInv
<1> QED
    BY <1>1, <1>2

LEMMA WorkerAlways == W!Spec => []WorkerInv
BY WorkerInitInv, WorkerStepInv, PTL DEF W!Spec

\* A run is planned with the steps and types of its own step files, and is an error for
\* their faults only, whichever runs were suspended or had failed in the same worker
\* (internal.ts:228-274): for any step files, examples and number of messages.
THEOREM RunsOwnTheirRegistry == W!Spec => []OwnRegistry
<1>1. WorkerInv => OwnRegistry
    <2> SUFFICES ASSUME WorkerInv, NEW m \in Messages
                 PROVE  /\ registry[m] \subseteq {<<W!Own(m), W!Own(m)>>}
                        /\ answer[m] # "none" => (answer[m] = "run error" <=> W!Faulty(m))
        BY DEF OwnRegistry, W!OwnRegistry
    <2> QED
        BY DEF WorkerInv, OwnInv
<1> QED
    BY <1>1, WorkerAlways, PTL

\* Every example starts from the state its own run's step file declares, and comes to no
\* state of an earlier run nor to an empty one that no later run accounts for, though the
\* factories are the module's and each is looked up when it is first needed, after any
\* number of other runs (internal.ts:29, 221-226): for any step files and messages.
THEOREM ContextsAreNeverOlder == W!Spec => []ContextsNeverOlder
<1>1. WorkerInv => ContextsNeverOlder
    BY DEF WorkerInv, BegunInv, ContextsNeverOlder, W!ContextsNeverOlder
<1> QED
    BY <1>1, WorkerAlways, PTL

\* What is proved of the two specifications holds of the behaviours that TLC explores, each
\* of which is one of either.
THEOREM RunsAreOfBoth == MCSpec => Spec /\ W!Spec
<1>1. MCInit => Init /\ W!Init
    BY DEF MCInit
<1>2. [MCNext]_allVars => [Next]_vars
    BY DEF MCNext, allVars
<1>3. [MCNext]_allVars => [W!Next]_(W!vars)
    BY DEF MCNext, allVars, workerVars, W!vars, W!runVars, W!builderVars
<1> QED
    BY <1>1, <1>2, <1>3, PTL DEF MCSpec, Spec, W!Spec
================================================================================
