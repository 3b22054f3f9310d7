------------------------------- MODULE DriftGate -------------------------------
(***************************************************************************)
(* The drift gate of a vitest run, from the transform that inlines an       *)
(* oath's baseline (vitest/src/plugin.ts) through its collection in a       *)
(* worker (vitest/src/runtime.ts) to the reporter that records              *)
(* varar.lock.json when the run ends (vitest/src/reporter.ts), together     *)
(* with the editor's "Accept as prose" (acceptDrift of lsp/src/store.ts),   *)
(* which is another process writing the same file, and the author, who      *)
(* edits oaths and step definitions in the meantime.                        *)
(***************************************************************************)
EXTENDS Drift

CONSTANTS
    Oaths,        \* the oaths of the project
    Names,        \* the texts a paragraph may have
    MaxParagraphs,\* bound: paragraphs of an oath
    MaxEdits,     \* bound: edits of the author
    MaxRuns,      \* bound: runs
    MaxFixes,     \* bound: quick-fixes
    Isolate,      \* every file is collected in a fresh worker
    Filter,       \* runs may be given a test name filter
    Reuse         \* the author may reference all sections of an oath elsewhere

ASSUME BoundsAssumption ==
    /\ {MaxParagraphs, MaxEdits, MaxRuns, MaxFixes} \subseteq Nat
    /\ {Isolate, Filter, Reuse} \subseteq BOOLEAN

ASSUME NamesAssumption == Names \subseteq Seq(STRING)

VARIABLES
    present,      \* the oaths on disk
    text,         \* the paragraphs of each oath
    matching,     \* the names the step definitions match
    consumed,     \* oaths whose sections are all referenced elsewhere
    lock,         \* varar.lock.json: the baselines of some oaths
    run,          \* [update, todo]: the flags of the run and the oaths to come
    phase,        \* where the run and its reporter are
    loaded,       \* what the transform of the oath at hand inlined
    pending,      \* pendingBaselines: what a worker has parked
    meta,         \* VARAR_BASELINE_META of the file tasks
    ran,          \* oaths with a result or the consumed mark
    outcome,      \* what the collection of each oath said
    onto,         \* the lock the reporter has read, and what it keeps of it
    fix,          \* the quick-fix under way
    vouched,      \* names the last record of each oath vouches for (history)
    edits, runs, fixes

fileVars == <<present, text, matching, consumed, edits>>
runVars == <<run, phase, loaded, pending, meta, ran, outcome, onto, runs>>
fixVars == <<fix, fixes>>
vars == <<fileVars, lock, runVars, fixVars, vouched>>

Texts == UNION {[1 .. n -> Names] : n \in 0 .. MaxParagraphs}
Examples == [name : Names, line : 1 .. MaxParagraphs]
Empty == << >>

\* The plan of a consumed section has no example in its own oath.
LiveIn(paragraphs, reused) ==
    IF reused THEN {} ELSE Live(paragraphs, matching)

\* The names of the planned examples, in document order.
Planned(paragraphs, reused) ==
    IF reused THEN << >>
    ELSE SelectSeq(paragraphs, LAMBDA n : n \in matching)

\* A map with x set to v, and a map laid over another.
With(f, x, v) == [y \in DOMAIN f \cup {x} |-> IF y = x THEN v ELSE f[y]]
Over(f, g) ==
    [y \in DOMAIN f \cup DOMAIN g |-> IF y \in DOMAIN f THEN f[y] ELSE g[y]]

Entry(o) == IF o \in DOMAIN lock THEN lock[o] ELSE {}
NamesOf(baseline) == {b.name : b \in baseline}

Init ==
    /\ present = Oaths
    /\ text \in [Oaths -> Texts]
    /\ matching \in SUBSET Names
    /\ consumed = {}
    /\ lock = Empty
    /\ run = [update |-> FALSE, todo |-> {}]
    /\ phase = "idle"
    /\ loaded = Empty
    /\ pending = Empty
    /\ meta = Empty
    /\ ran = {}
    /\ outcome = [o \in Oaths |-> "none"]
    /\ onto = Empty
    /\ fix = [at |-> "none"]
    /\ vouched = [o \in Oaths |-> {}]
    /\ edits = 0 /\ runs = 0 /\ fixes = 0

--------------------------------------------------------------------------------
\* The author.

EditOath(o) ==
    \E paragraphs \in Texts :
        /\ text' = [text EXCEPT ![o] = paragraphs]
        /\ present' = present \cup {o}
        /\ UNCHANGED <<matching, consumed>>

DeleteOath(o) ==
    /\ o \in present
    /\ present' = present \ {o}
    /\ UNCHANGED <<text, matching, consumed>>

EditSteps ==
    /\ matching' \in SUBSET Names
    /\ UNCHANGED <<present, text, consumed>>

ReferenceSections(o) ==
    /\ Reuse
    /\ consumed' = IF o \in consumed THEN consumed \ {o} ELSE consumed \cup {o}
    /\ UNCHANGED <<present, text, matching>>

Edit ==
    /\ edits < MaxEdits
    /\ edits' = edits + 1
    /\ \/ \E o \in Oaths : EditOath(o) \/ DeleteOath(o) \/ ReferenceSections(o)
       \/ EditSteps
    /\ UNCHANGED <<lock, runVars, fixVars, vouched>>

--------------------------------------------------------------------------------
\* The run.  A watcher's next run may find what the last one left parked in a
\* worker that is not isolated; a new process, or another VARAR_UPDATE, does not.

StartRun ==
    /\ phase = "idle"
    /\ runs < MaxRuns
    /\ runs' = runs + 1
    /\ \E todo \in SUBSET present \ {{}}, update \in BOOLEAN :
        /\ run' = [update |-> update, todo |-> todo]
        /\ pending' \in IF Isolate \/ update # run.update
                          THEN {Empty} ELSE {Empty, pending}
    /\ phase' = "load"
    /\ meta' = Empty
    /\ ran' = {}
    /\ outcome' = [o \in Oaths |-> "none"]
    /\ UNCHANGED <<fileVars, lock, loaded, onto, fixVars, vouched>>

\* The plugin's load(): the static plan and the baseline the module carries.
Transform(o) ==
    /\ phase = "load"
    /\ o \in run.todo
    /\ o \in present
    /\ run' = [run EXCEPT !.todo = @ \ {o}]
    /\ loaded' = [oath |-> o,
                  paragraphs |-> text[o],
                  reused |-> o \in consumed,
                  static |-> Planned(text[o], o \in consumed),
                  plan |-> << >>,
                  baseline |-> Entry(o)]
    /\ phase' = "collect"
    /\ UNCHANGED <<fileVars, lock, pending, meta, ran, outcome, onto, runs,
                   fixVars, vouched>>

\* An oath deleted before its transform: load() cannot read it.
TransformFails(o) ==
    /\ phase = "load"
    /\ o \in run.todo \ present
    /\ run' = [run EXCEPT !.todo = @ \ {o}]
    /\ phase' = IF run.todo = {o} THEN "merge" ELSE "load"
    /\ UNCHANGED <<fileVars, lock, loaded, pending, meta, ran, outcome, onto,
                   runs, fixVars, vouched>>

CollectedLive == LiveIn(loaded.paragraphs, loaded.reused)
CollectedPlan == Planned(loaded.paragraphs, loaded.reused)
FoundDrifts ==
    IF run.update THEN {}
    ELSE Drifts(loaded.baseline, loaded.paragraphs, CollectedLive)

\* What earlier collections of the same worker have parked.
Parked == IF Isolate THEN Empty ELSE pending
Park(o) == With(Parked, o, LiveExamples(loaded.paragraphs, CollectedLive))

\* Mutant: a baseline is parked whatever the gate says.
ParkAnyway(o) == Park(o)

ParkIfClean(o) == IF FoundDrifts = {} THEN Park(o) ELSE Parked

\* collectVararExamples.
Collect ==
    /\ phase = "collect"
    /\ pending' = ParkIfClean(loaded.oath)
    /\ outcome' = [outcome EXCEPT ![loaded.oath] =
                      IF FoundDrifts # {} THEN "drift"
                      ELSE IF Len(loaded.static) # Len(CollectedPlan)
                        THEN "stale" ELSE "clean"]
    /\ loaded' = [loaded EXCEPT !.plan = CollectedPlan]
    /\ phase' = "test"
    /\ UNCHANGED <<fileVars, lock, run, meta, ran, onto, runs, fixVars, vouched>>

AfterTests == IF run.todo = {} THEN "merge" ELSE "load"

\* One test per example of the static plan, or the bookkeeping test.
HasTests == loaded.static # << >> \/ loaded.reused

\* A body that is the example its name says leaves a result.
HasResult ==
    \/ loaded.static = << >>
    \/ \E i \in DOMAIN loaded.static \cap DOMAIN loaded.plan :
          loaded.static[i] = loaded.plan[i]

\* The test bodies; the first one hands over what is parked for the oath.  A worker
\* that is isolated ends with them.
RunTests ==
    LET o == loaded.oath IN
    /\ phase = "test"
    /\ HasTests
    /\ meta' = IF o \in DOMAIN pending THEN With(meta, o, pending[o]) ELSE meta
    /\ pending' = Restrict(pending, DOMAIN pending \ {o})
    /\ ran' = IF HasResult THEN ran \cup {o} ELSE ran
    /\ phase' = AfterTests
    /\ loaded' = Empty
    /\ UNCHANGED <<fileVars, lock, run, outcome, onto, runs, fixVars, vouched>>

\* No test of the oath runs: it has none, or a name filter selects none.
SkipTests ==
    /\ phase = "test"
    /\ Filter \/ ~HasTests
    /\ phase' = AfterTests
    /\ loaded' = Empty
    /\ pending' = Parked
    /\ UNCHANGED <<fileVars, lock, run, meta, ran, outcome, onto, runs,
                   fixVars, vouched>>

--------------------------------------------------------------------------------
\* The reporter: onTestRunEnd.

NothingRan ==
    /\ phase = "merge"
    /\ ran = {}
    /\ phase' = "idle"
    /\ UNCHANGED <<fileVars, lock, run, loaded, pending, meta, ran, outcome,
                   onto, runs, fixVars, vouched>>

ReadToMerge ==
    /\ phase = "merge"
    /\ ran # {}
    /\ meta # Empty
    /\ onto' = [keep |-> Oaths, lock |-> lock]
    /\ phase' = "write"
    /\ UNCHANGED <<fileVars, lock, run, loaded, pending, meta, ran, outcome,
                   runs, fixVars, vouched>>

\* mergeLockFile: the oaths that did not run keep what was read.
Merged == Over(meta, onto.lock)

WriteMerged ==
    /\ phase = "write"
    /\ lock' = Merged
    /\ vouched' = [o \in Oaths |->
                      IF o \in DOMAIN meta THEN NamesOf(meta[o]) ELSE vouched[o]]
    /\ phase' = "prune"
    /\ onto' = Empty
    /\ UNCHANGED <<fileVars, run, loaded, pending, meta, ran, outcome, runs,
                   fixVars>>

\* pruneBaselines: what the docs globs match now, and the lock.
ReadToPrune ==
    /\ \/ phase = "prune"
       \/ phase = "merge" /\ ran # {} /\ meta = Empty
    /\ onto' = [keep |-> present, lock |-> lock]
    /\ phase' = "pruned"
    /\ UNCHANGED <<fileVars, lock, run, loaded, pending, meta, ran, outcome,
                   runs, fixVars, vouched>>

Stale == DOMAIN onto.lock \ onto.keep

WritePruned ==
    /\ phase = "pruned"
    /\ IF run.update /\ Stale # {}
         THEN /\ lock' = Restrict(onto.lock, DOMAIN onto.lock \ Stale)
              /\ vouched' = [o \in Oaths |->
                                IF o \in Stale THEN {} ELSE vouched[o]]
         ELSE UNCHANGED <<lock, vouched>>
    /\ phase' = "idle"
    /\ onto' = Empty
    /\ UNCHANGED <<fileVars, run, loaded, pending, meta, ran, outcome, runs,
                   fixVars>>

\* The run is cancelled: the reporter's hook is not called, or not resumed.
Cancel ==
    /\ phase # "idle"
    /\ phase' = "idle"
    /\ loaded' = Empty /\ onto' = Empty
    /\ pending' = Parked
    /\ UNCHANGED <<fileVars, lock, run, meta, ran, outcome, runs, fixVars,
                   vouched>>

--------------------------------------------------------------------------------
\* acceptDrift, on a paragraph the editor flags: the lock is read, then the
\* oath, and what was read of the other oaths is written back.

Flagged(o) == Drifts(Entry(o), text[o], LiveIn(text[o], o \in consumed))

FixReads(o) ==
    /\ fix.at = "none"
    /\ fixes < MaxFixes
    /\ fixes' = fixes + 1
    /\ o \in present
    /\ \E b \in Flagged(o) :
        fix' = [at |-> "source", oath |-> o, example |-> b, lock |-> lock,
                baseline |-> {}]
    /\ UNCHANGED <<fileVars, lock, runVars, vouched>>

FixPlans ==
    /\ fix.at = "source"
    /\ fix.oath \in present
    /\ fix' = [fix EXCEPT
                 !.at = "write",
                 !.baseline = LiveExamples(text[fix.oath],
                                 LiveIn(text[fix.oath], fix.oath \in consumed))]
    /\ UNCHANGED <<fileVars, lock, runVars, fixes, vouched>>

\* The oath is gone: reading it rejects the command.
FixFails ==
    /\ fix.at = "source"
    /\ fix.oath \notin present
    /\ fix' = [at |-> "none"]
    /\ UNCHANGED <<fileVars, lock, runVars, fixes, vouched>>

FixWrites ==
    /\ fix.at = "write"
    /\ lock' = With(fix.lock, fix.oath, fix.baseline)
    /\ vouched' = [vouched EXCEPT ![fix.oath] = NamesOf(fix.baseline)]
    /\ fix' = [at |-> "none"]
    /\ UNCHANGED <<fileVars, runVars, fixes>>

--------------------------------------------------------------------------------
Next ==
    \/ Edit
    \/ StartRun
    \/ \E o \in Oaths : Transform(o) \/ TransformFails(o)
    \/ Collect
    \/ RunTests
    \/ SkipTests
    \/ NothingRan
    \/ ReadToMerge
    \/ WriteMerged
    \/ ReadToPrune
    \/ WritePruned
    \/ Cancel
    \/ \E o \in Oaths : FixReads(o)
    \/ FixPlans
    \/ FixFails
    \/ FixWrites

Spec == Init /\ [][Next]_vars

--------------------------------------------------------------------------------
\* Every variable holds what its declaration says.
TypeOK ==
    /\ present \subseteq Oaths /\ consumed \subseteq Oaths /\ ran \subseteq Oaths
    /\ \A o \in Oaths : text[o] \in Texts /\ vouched[o] \subseteq Names
    /\ matching \subseteq Names
    /\ \A f \in {lock, pending, meta} :
          DOMAIN f \subseteq Oaths /\ \A o \in DOMAIN f : f[o] \subseteq Examples
    /\ run.update \in BOOLEAN /\ run.todo \subseteq Oaths
    /\ phase \in {"idle", "load", "collect", "test", "merge", "write", "prune",
                  "pruned"}
    /\ outcome \in [Oaths -> {"none", "clean", "drift", "stale"}]
    /\ fix.at \in {"none", "source", "write"}
    /\ edits \in 0 .. MaxEdits /\ runs \in 0 .. MaxRuns /\ fixes \in 0 .. MaxFixes

Collects == phase = "collect" /\ phase' = "test"

\* The names the last record vouches for, whose paragraphs the collected text
\* still has and no step definition matches.
Decayed == vouched[loaded.oath] \cap (ToSet(loaded.paragraphs) \ matching)

\* "Drift is never resolved silently": a plain run is not clean about an oath
\* that lost an example the last record of it had, until it is accepted or the
\* paragraph is reworded, where no two texts have the same words.  A run whose
\* transform read the lock before the oath was accepted in the editor answers for
\* what it read.
NoSilentDecay ==
    [][Collects /\ ~run.update /\ ~loaded.reused /\ Decayed # {}
       /\ loaded.baseline = Entry(loaded.oath)
          => outcome'[loaded.oath] # "clean"]_vars

\* "An unacknowledged drift parks nothing": the reporter is handed no baseline
\* for an oath this run reported drifted, so its old entry stands.
DriftParksNothing ==
    \A o \in Oaths :
        outcome[o] = "drift" /\ phase # "idle" => o \notin DOMAIN meta

\* An entry of the lock is replaced only in a run that found its oath without
\* drift, or by the quick-fix of its oath, and dropped only for an oath that is
\* gone, by an accepting run: a filtered run does not shrink the lock.
EntriesAreEarned ==
    [][\A o \in DOMAIN lock :
          \/ o \in DOMAIN lock' /\ lock'[o] = lock[o]
          \/ o \in DOMAIN lock' /\ outcome[o] \in {"clean", "stale"}
          \/ o \in DOMAIN lock' /\ fix.at = "write" /\ fix.oath = o
          \/ o \notin DOMAIN lock' /\ run.update /\ o \notin onto.keep]_vars

\* What a plan records finds no drift in that same plan: accepting settles the
\* matter, whatever paragraphs resemble each other.
RecordIsClean ==
    \A o \in Oaths :
        LET live == LiveIn(text[o], o \in consumed)
        IN Drifts(LiveExamples(text[o], live), text[o], live) = {}

\* "An exact name match, else the most word-similar paragraph" (drift.ts:8-9): an
\* example that was recorded is recognised in a paragraph of its own text, if there
\* still is one. With one exception: of two paragraphs with the same words in
\* another order the nearer is taken (drift.ts:137), so that no two of the names
\* are allowed to have the same words.
ExactNameWins ==
    phase = "test" =>
        \A b \in loaded.baseline :
            b.name \in ToSet(loaded.paragraphs) =>
                \A i \in Best(b, loaded.paragraphs) : loaded.paragraphs[i] = b.name
================================================================================
