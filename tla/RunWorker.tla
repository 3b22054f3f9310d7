------------------------------- MODULE RunWorker -------------------------------
(***************************************************************************)
(* The playground's worker (website/src/lib/run-worker.ts, run-oath.ts),    *)
(* the builder its step files register with (varar/src/internal.ts), whose  *)
(* state belongs to the module and so to every run of the worker, and the   *)
(* registry made of it (core/src/registry.ts).                              *)
(*                                                                         *)
(* onmessage runs until its examples are all suspended, and other messages  *)
(* may come in whenever they are.  A step is the step file that defines it. *)
(***************************************************************************)
EXTENDS Integers, Sequences, FiniteSets, SequencesExt

CONSTANTS
    Messages,     \* run requests, each of an editor of the page
    StepFiles,    \* paths of .steps.ts files
    Sources,      \* what is in one: [defines, uses, declares, throws]
    Examples,     \* examples an oath may have
    MaxSteps      \* bound: steps of an example

VARIABLES
    oath,         \* the step files of each message and the steps of its examples
    inbox,        \* messages the worker has not taken
    later,        \* the messages it took after each of those it has taken (history)
    factories,    \* contextFactoriesByFile: whose steps() call is there, if any
    entries,      \* stepEntries: whose step files registered
    customTypes,  \* whose step files declared parameter types
    registry,     \* what buildRegistry returned to each run, if it did
    at,           \* the step at which each example is suspended; 0 for none
    contexts,     \* stateByFile of each example: whose factory made it
    answer        \* the response to each message

runVars == <<registry, at, contexts>>
builderVars == <<factories, entries, customTypes>>
vars == <<oath, inbox, later, builderVars, runVars, answer>>

None == {}
NoContexts == [f \in {} |-> None]

\* A step file declares parameter types and defines steps by their expressions, in which
\* it uses types; it may throw at its end.  An example without steps is one the oath does
\* not have.
Oaths ==
    UNION {[files : [F -> Sources], steps : [Examples -> SeqOf(F, MaxSteps)]] :
              F \in SUBSET StepFiles}

Init ==
    /\ oath \in [Messages -> Oaths]
    /\ inbox = Messages
    /\ later = [m \in Messages |-> {}]
    /\ factories = [f \in StepFiles |-> None]
    /\ entries = {} /\ customTypes = {}
    /\ registry = [m \in Messages |-> None]
    /\ at = [m \in Messages |-> [e \in Examples |-> 0]]
    /\ contexts = [m \in Messages |-> [e \in Examples |-> NoContexts]]
    /\ answer = [m \in Messages |-> "none"]

FilesOf(m) == DOMAIN oath[m].files
Steps(m, e) == oath[m].steps[e]

--------------------------------------------------------------------------------
NoFactories == [f \in StepFiles |-> None]

\* Mutant: a reset leaves the types.
ResetButTypes == [factories |-> NoFactories, entries |-> {}, types |-> customTypes]

\* _resetBuilder.
Reset == [factories |-> NoFactories, entries |-> {}, types |-> {}]

\* steps() throws if the file has a factory already.
Throws(m) == {f \in FilesOf(m) : oath[m].files[f].throws \/ Reset.factories[f] # None}

\* The step files of m that register before one of them throws, if one does.
LoadedFiles(m) ==
    IF Throws(m) = {} THEN {FilesOf(m)}
    ELSE {S \cup {f} : S \in SUBSET (FilesOf(m) \ Throws(m)), f \in Throws(m)}

\* Mutant: steps() keeps the factory of a file that a run before this one left.
KeptFactories(m, L) ==
    [f \in StepFiles |-> IF factories[f] # None THEN factories[f]
                         ELSE IF f \in L THEN {m} ELSE None]

\* contextFactoriesByFile, once m has loaded the files L.
LoadedFactories(m, L) ==
    [f \in StepFiles |-> IF f \in L THEN {m} ELSE Reset.factories[f]]

\* contextFactory: the factory registered for f, or one of an empty state.
FactoryOf(fs, f) == IF fs[f] = None THEN {"empty"} ELSE fs[f]

\* What the step files registered as es and ts define and declare.
Source(e) == oath[e[1]].files[e[2]]

\* defineParameterType throws nothing: a name is declared once.
Declared(ts) == \A d, e \in ts : d # e => Source(d).declares \cap Source(e).declares = {}

\* Nor does addStep: an expression is defined once, and the types it uses are declared.
Added(es, ts) ==
    /\ \A d, e \in es : d # e => Source(d).defines \cap Source(e).defines = {}
    /\ \A e \in es : Source(e).uses \subseteq UNION {Source(t).declares : t \in ts}

\* Nor does buildRegistry: all types are declared before any step is added.
Builds(es, ts) == Declared(ts) /\ Added(es, ts)

\* stateByFile, with a context for f: the one that it has, or a new one.
WithContext(known, f, fs) ==
    [g \in DOMAIN known \cup {f} |->
        IF g \in DOMAIN known THEN known[g] ELSE FactoryOf(fs, g)]

\* An example up to its first await: it makes the context of its first step.
FirstContext(steps, fs) ==
    IF steps = << >> THEN NoContexts ELSE WithContext(NoContexts, Head(steps), fs)

\* onmessage, up to the first await.
Receive(m) ==
    /\ m \in inbox /\ inbox' = inbox \ {m}
    /\ later' = [n \in Messages |-> IF n \in inbox THEN later[n]
                                  ELSE later[n] \cup {m}]
    /\ \E L \in LoadedFiles(m) :
          /\ factories' = LoadedFactories(m, L)
          /\ entries' = Reset.entries \cup {<<m, f>> : f \in L}
          /\ customTypes' = Reset.types \cup {<<m, f>> : f \in L}
    /\ IF Throws(m) # {} \/ ~Builds(entries', customTypes')
       THEN /\ answer' = [answer EXCEPT ![m] = "run error"]
            /\ UNCHANGED runVars
       ELSE /\ registry' = [registry EXCEPT ![m] = {<<entries', customTypes'>>}]
            /\ at' = [at EXCEPT ![m] =
                         [e \in Examples |-> IF Steps(m, e) = << >> THEN 0 ELSE 1]]
            /\ contexts' = [contexts EXCEPT ![m] =
                               [e \in Examples |-> FirstContext(Steps(m, e), factories')]]
            /\ UNCHANGED answer
    /\ UNCHANGED oath

\* The example e is at its last step.
AtLastStep(m, e) == at[m][e] = Len(Steps(m, e))

\* The step at which e is suspended returns, and the next one begins.
StepReturns(m, e) ==
    /\ at[m][e] > 0 /\ ~AtLastStep(m, e)
    /\ at' = [at EXCEPT ![m][e] = @ + 1]
    /\ contexts' = [contexts EXCEPT ![m][e] =
                       WithContext(@, Steps(m, e)[at[m][e] + 1], factories)]
    /\ UNCHANGED <<oath, inbox, later, builderVars, registry, answer>>

\* The last step returns, or the one it is suspended at throws.
ExampleEnds(m, e) ==
    /\ at[m][e] > 0
    /\ at' = [at EXCEPT ![m][e] = 0]
    /\ UNCHANGED <<oath, inbox, later, builderVars, registry, contexts, answer>>

\* Promise.all(pending).
AllDone(m) == \A e \in Examples : at[m][e] = 0

Respond(m) ==
    /\ answer[m] = "none" /\ m \notin inbox /\ AllDone(m)
    /\ answer' = [answer EXCEPT ![m] = "results"]
    /\ UNCHANGED <<oath, inbox, later, builderVars, runVars>>

Next ==
    \E m \in Messages :
       \/ Receive(m) \/ Respond(m)
       \/ \E e \in Examples : StepReturns(m, e) \/ ExampleEnds(m, e)

Spec == Init /\ [][Next]_vars

--------------------------------------------------------------------------------
\* Every variable holds what its declaration says, and a run that was answered has
\* no example under way.
TypeOK ==
    /\ inbox \subseteq Messages
    /\ later \in [Messages -> SUBSET (Messages \ inbox)]
    /\ factories \in [StepFiles -> SUBSET Messages]
    /\ entries \subseteq Messages \X StepFiles /\ customTypes \subseteq entries
    /\ \A m \in Messages :
          /\ m \in inbox => answer[m] = "none"
          /\ answer[m] # "none" => \A e \in Examples : at[m][e] = 0
          /\ \A e \in Examples : at[m][e] \in 0 .. Len(Steps(m, e))

\* The step files of a run do not make a registry: one throws, two define the same, or
\* one uses what none declares.
Faulty(m) ==
    \/ \E f \in FilesOf(m) : oath[m].files[f].throws
    \/ \E f, g \in FilesOf(m) : f # g /\
          LET s == oath[m].files[f] t == oath[m].files[g]
          IN s.defines \cap t.defines # {} \/ s.declares \cap t.declares # {}
    \/ \E f \in FilesOf(m) : \E t \in oath[m].files[f].uses :
          \A g \in FilesOf(m) : t \notin oath[m].files[g].declares

\* The plan of a run is made with the steps and the types of its own step files and no
\* others, and it is a run error exactly if these are at fault, whatever the runs that
\* are suspended or have failed left in the builder under the same names.
Own(m) == {<<m, f>> : f \in FilesOf(m)}
OwnRegistry ==
    \A m \in Messages :
        /\ registry[m] \subseteq {<<Own(m), Own(m)>>}
        /\ answer[m] # "none" => (answer[m] = "run error" <=> Faulty(m))

\* A run n leaves the builder without a factory for f: f is not among its step files, or
\* one of these throws.
LeavesOut(n, f) == f \notin FilesOf(n) \/ \E g \in FilesOf(n) : oath[n].files[g].throws

\* Whose factory may have made the context that an example of m has for f: a run's that
\* came in since m did, or m's own; and it is empty only if such a run left f out.
MadeSince(m, f, maker) ==
    \/ maker = {m}
    \/ \E n \in later[m] : f \in FilesOf(n) /\ maker = {n}
    \/ maker = {"empty"} /\ \E n \in later[m] : LeavesOut(n, f)

\* An example starts from the state its own run's step file declares.  The state of a
\* step file it comes to later may be that of a run that came in while it was suspended,
\* since the factories are looked up when they are needed (internal.ts:223); but it is
\* never that of a run from before its own, nor empty unless the file was left out since.
ContextsNeverOlder ==
    \A m \in Messages : \A e \in Examples : \A f \in DOMAIN contexts[m][e] :
        /\ MadeSince(m, f, contexts[m][e][f])
        /\ f = Head(Steps(m, e)) => contexts[m][e][f] = {m}
================================================================================
