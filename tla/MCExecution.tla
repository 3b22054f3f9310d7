------------------------------ MODULE MCExecution ------------------------------
(***************************************************************************)
(* How oaths are run: executePlan on two examples of up to three steps from *)
(* two step files (Executor), and the worker of the playground, which loads *)
(* step files and builds a registry for each message (RunWorker).  A        *)
(* behaviour is that of one of them; in the other nothing happens.          *)
(***************************************************************************)
EXTENDS Executor, SequencesExt, TLC

CONSTANTS
    e1, e2, f1, f2,           \* the examples and step files of Executor
    Messages, StepFiles, OathExamples, StepSources, MaxOathSteps,       \* see RunWorker
    OathSize                  \* bound: the steps of all examples of an oath

ASSUME OathsAssumption == MaxOathSteps \in Nat

VARIABLES
    oath, inbox, later, factories, entries, customTypes, registry, suspended, contexts, answer,
    working                           \* it is a behaviour of RunWorker

Case(steps, rows, expects, message) ==
    [steps |-> steps, rows |-> rows, expects |-> expects, message |-> message]
Stimulus(f) == [file |-> f, kind |-> "stimulus", slots |-> << >>]
Sensor(f, slots) == [file |-> f, kind |-> "sensor", slots |-> slots]

\* A stimulus and a sensor of one file around one of another file; rows of a
\* header-bound table, which are one step each; and examples that must fail.
MCExamples == {e1, e2}
MCFiles == {f1, f2}
MixedPlans ==
    {Case(<<Stimulus(f1), Stimulus(f2), Sensor(f1, <<"param">>)>>, FALSE, "pass", FALSE),
     Case(<<Stimulus(f1), Sensor(f1, << >>)>>, FALSE, "fail", TRUE),
     Case(<<Stimulus(f1), Sensor(f2, <<"param", "table">>)>>, FALSE, "fail", FALSE),
     Case(<<Sensor(f1, <<"text">>)>>, FALSE, "pass", FALSE),
     Case(<<Sensor(f2, << >>)>>, TRUE, "pass", FALSE),
     Case(<<Stimulus(f2)>>, TRUE, "pass", FALSE)}

--------------------------------------------------------------------------------
\* Two files may define the same step or declare the same type, one may use what only
\* the other declares, and one throws.
Text(defines, uses, declares, throws) ==
    [defines |-> defines, uses |-> uses, declares |-> declares, throws |-> throws]
MCStepSources ==
    {Text({"a"}, {}, {}, FALSE), Text({"b"}, {"t"}, {}, FALSE),
     Text({"c"}, {}, {"t"}, FALSE), Text({"b"}, {"t"}, {"t"}, TRUE)}

W == INSTANCE RunWorker
    WITH Examples <- OathExamples, Sources <- StepSources, MaxSteps <- MaxOathSteps,
         at <- suspended

workerVars ==
    <<oath, inbox, later, factories, entries, customTypes, registry, suspended, contexts,
      answer>>
allVars == <<vars, workerVars, working>>

Few(m) == FoldSet(LAMBDA e, n : n + Len(oath[m].steps[e]), 0, OathExamples) <= OathSize

Interchangeable ==
    Permutations(Messages) \cup Permutations(StepFiles) \cup Permutations(OathExamples)

--------------------------------------------------------------------------------
MCInit ==
    /\ W!Init /\ \A m \in Messages : Few(m)
    /\ working \in IF \E m \in Messages : W!FilesOf(m) # {} THEN {TRUE} ELSE BOOLEAN
    /\ plan \in IF working THEN {[e \in Examples |-> CHOOSE p \in Plans : TRUE]}
                 ELSE [Examples -> Plans]
    /\ Init

MCNext ==
    \/ working /\ W!Next /\ UNCHANGED <<vars, working>>
    \/ ~working /\ Next /\ UNCHANGED <<workerVars, working>>

MCSpec == MCInit /\ [][MCNext]_allVars

--------------------------------------------------------------------------------
\* See RunWorker: a run plans with its own step files and fails for their faults only.
OwnRegistry == W!OwnRegistry

\* See RunWorker: the states of an example's step files are its own run's, or those of
\* runs that came in while it was suspended, and never of a run before it.
ContextsNeverOlder == W!ContextsNeverOlder
================================================================================
