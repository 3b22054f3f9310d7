-------------------------------- MODULE MCResults --------------------------------
(***************************************************************************)
(* What becomes of the results of runs: the drift gate records which        *)
(* examples there were (DriftGate), on one oath, or two, whose paragraphs   *)
(* resemble each other; and the language server shows the failures          *)
(* (Diagnostics), of an oath that is open and one that is not.  A behaviour *)
(* is that of one of them; in the other nothing happens.                    *)
(***************************************************************************)
EXTENDS DriftGate

CONSTANTS
    o1, o2,                                  \* the oaths of DriftGate
    Docs, Doubtful, OpenDocs, Handlers,      \* see Diagnostics
    MaxTexts, MaxResults                     \* bounds of Diagnostics

ASSUME DocsAssumption == OpenDocs \cup Doubtful \subseteq Docs
ASSUME ResultsAssumption == MaxTexts \in Nat /\ MaxResults \in Nat

VARIABLES
    texts, dirty, problems, running, files, events, results, records, handler, publishing,
    shown,
    showing                                  \* it is a behaviour of Diagnostics

OneOath == {o1}
TwoOaths == {o1, o2}

\* Two names above the threshold of similarity, and one unlike both.
Reworded == {<<"a", "b">>, <<"a", "b", "c">>, <<"d">>}

OneName == {<<"a">>}

D == INSTANCE Diagnostics WITH text <- texts, runs <- results, MaxRuns <- MaxResults

shownVars ==
    <<texts, dirty, problems, running, files, events, results, records, handler, publishing,
      shown>>
allVars == <<vars, shownVars, showing>>

\* The handlers of file events are interchangeable.
HandlerSymmetry == Permutations(Handlers)

--------------------------------------------------------------------------------
MCInit ==
    /\ showing \in BOOLEAN
    /\ Init /\ (showing => matching = {} /\ \A o \in Oaths : text[o] = << >>)
    /\ D!Init /\ (~showing => problems = {})

MCNext ==
    \/ showing /\ D!Next /\ UNCHANGED <<vars, showing>>
    \/ ~showing /\ Next /\ UNCHANGED <<shownVars, showing>>

MCSpec == MCInit /\ [][MCNext]_allVars

--------------------------------------------------------------------------------
\* See Diagnostics: in the end an open document shows the failures that the records have
\* in its text.
RunsShown == D!RunsShown

\* See Diagnostics: an open document that has a problem shows it.
ProblemsShown == D!ProblemsShown
================================================================================
