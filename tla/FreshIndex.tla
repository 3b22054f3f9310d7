------------------------------ MODULE FreshIndex ------------------------------
(***************************************************************************)
(* What the language server promises its editor about the workspace index, *)
(* with no timers, promises or file system in it (the comment above        *)
(* registerHandlers' debounce, lsp/src/server.ts:79): a request is answered *)
(* from an index that holds every edit the editor had sent when it asked,  *)
(* except the edits whose write-through failed.                            *)
(***************************************************************************)
EXTENDS Integers

CONSTANTS
    Files,       \* the files of the workspace
    Requests     \* request handlers that can be pending at the same time

VARIABLES
    sent,        \* newest text of each file the editor has sent
    lost,        \* the <<file, text>> pairs whose write-through failed
    known,       \* the text of each file the index was built from
    pending,     \* the requests not answered yet
    owed         \* the texts the editor had sent when the request came

vars == <<sent, lost, known, pending, owed>>

\* c holds every text of n that was not lost.  Texts of one file are numbered
\* in the order they were typed; 0 stands for a file that does not exist.
Covers(c, n) ==
    \A f \in Files : \A v \in 1..n[f] : <<f, v>> \notin lost => c[f] >= v

Init ==
    /\ sent \in [Files -> {0, 1}]
    /\ lost = {}
    /\ known = sent
    /\ pending = {}
    /\ owed = [r \in Requests |-> [f \in Files |-> 0]]

Type(f) ==
    /\ sent' = [sent EXCEPT ![f] = @ + 1]
    /\ UNCHANGED <<lost, known, pending, owed>>

Lose(f, v) ==
    /\ v <= sent[f]
    /\ lost' = lost \cup {<<f, v>>}
    /\ UNCHANGED <<sent, known, pending, owed>>

Ask(r) ==
    /\ r \notin pending
    /\ pending' = pending \cup {r}
    /\ owed' = [owed EXCEPT ![r] = sent]
    /\ UNCHANGED <<sent, lost, known>>

\* The index moves forward, file by file, and never past what was typed.
Reindex(c) ==
    /\ \A f \in Files : known[f] <= c[f] /\ c[f] <= sent[f]
    /\ known' = c
    /\ UNCHANGED <<sent, lost, pending, owed>>

Answer(r) ==
    /\ r \in pending
    /\ Covers(known, owed[r])
    /\ pending' = pending \ {r}
    /\ owed' = [owed EXCEPT ![r] = [f \in Files |-> 0]]
    /\ UNCHANGED <<sent, lost, known>>

Next ==
    \/ \E f \in Files : Type(f)
    \/ \E f \in Files : \E v \in 1..sent[f] : Lose(f, v)
    \/ \E r \in Requests : Ask(r) \/ Answer(r)
    \/ Reindex(known')

Spec == Init /\ [][Next]_vars
===============================================================================
