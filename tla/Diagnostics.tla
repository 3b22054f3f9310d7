------------------------------ MODULE Diagnostics ------------------------------
(***************************************************************************)
(* What the editor shows: run results (lsp/src/run-results.ts), the handler *)
(* of .varar file events and the publishing of diagnostics in               *)
(* lsp/src/server.ts.                                                       *)
(*                                                                         *)
(* A text is its number.  A run result names the text of its oath and those *)
(* of the documents its steps came from, and the documents of them in which *)
(* a step failed.  A result file and a text are each the empty set or the   *)
(* one thing they hold.                                                     *)
(***************************************************************************)
EXTENDS Integers, Sequences, FiniteSets, Bags

CONSTANTS
    Docs,         \* the oaths of the workspace
    Doubtful,     \* those the index may find problems in
    OpenDocs,     \* those open in the editor: `documents` has their text
    Handlers,     \* notifications of file events that can be handled at once
    MaxTexts,     \* bound: texts of one document
    MaxRuns       \* bound: results written or deleted

VARIABLES
    text,         \* the text of each document, in the buffer or on disk
    dirty,        \* a reindex is to come
    problems,     \* the oaths store.index().diagnostics speaks of
    running,      \* the texts each run under way planned from
    files,        \* .varar/<oath>.json
    events,       \* file events the client has not sent yet
    runs,         \* results written or deleted so far
    records,      \* byUri
    handler,      \* each handler of onDidChangeWatchedFiles
    publishing,   \* the publishFor calls suspended at their read
    shown         \* what the client last got for each document

fileVars == <<running, files, events, runs>>
vars == <<text, dirty, problems, fileVars, records, handler, publishing, shown>>

None == {}
Idle == [at |-> "idle", changes |-> << >>, got |-> None, left |-> {}]

Init ==
    /\ text = [d \in Docs |-> 1]
    /\ dirty = FALSE
    /\ problems \in SUBSET Doubtful
    /\ running = [d \in Docs |-> None]
    /\ files = [d \in Docs |-> None]
    /\ events = << >> /\ runs = 0
    /\ records = [d \in Docs |-> None]
    /\ handler = [h \in Handlers |-> Idle]
    /\ publishing = EmptyBag
    /\ shown = [d \in Docs |-> [parse |-> d \in problems, run |-> {}]]

--------------------------------------------------------------------------------
\* documentUris and resultsFor.
Documents(R) == UNION {DOMAIN r.documents : r \in R}

ResultsFor(u) ==
    {r \in UNION {records[d] : d \in Docs} : r.oath = u \/ u \in DOMAIN r.documents}

\* runResultDiagnostics: the text of u the result is about.
RanText(r, u) == IF u = r.oath THEN r.oathText ELSE r.documents[u]

RunDiagnostics(R, u, t) == {r \in R : u \in r.fails /\ RanText(r, u) = t}

\* publishFor, up to its read: what it sends once it knows the text of u.
Call(u, P, h) ==
    [uri |-> u, parse |-> u \in P, results |-> ResultsFor(u), by |-> h]

Sends(c) ==
    [parse |-> c.parse, run |-> RunDiagnostics(c.results, c.uri, text[c.uri])]

\* It reads a file only for a document that is not open and has results.
Reads(u) == u \notin OpenDocs /\ ResultsFor(u) # {}

--------------------------------------------------------------------------------
\* The user types in d.
Edit(d) ==
    /\ d \in OpenDocs /\ text[d] < MaxTexts
    /\ text' = [text EXCEPT ![d] = @ + 1]
    /\ dirty' = TRUE
    /\ UNCHANGED <<problems, fileVars, records, handler, publishing, shown>>

\* An adapter plans and runs d.
RunStarts(d) ==
    /\ runs < MaxRuns /\ runs' = runs + 1
    /\ running[d] = None
    /\ running' = [running EXCEPT ![d] = {text}]
    /\ UNCHANGED <<text, dirty, problems, files, events, records, handler, publishing, shown>>

\* buildOathResults, of a run of d that planned from the texts t: the reporter
\* reads the oath anew, and has the others as they were.  `ran` is a history of
\* the oath as it was.
Results(d, t) ==
    UNION {{[oath |-> d, oathText |-> text[d], ran |-> t[d],
             documents |-> [s \in S |-> t[s]], fails |-> F] :
                F \in SUBSET (S \cup {d})} :
           S \in SUBSET (Docs \ {d})}

\* onTestRunEnd writes the result of d.
RunEnds(d) ==
    /\ \E t \in running[d] : \E r \in Results(d, t) : files' = [files EXCEPT ![d] = {r}]
    /\ running' = [running EXCEPT ![d] = None]
    /\ events' = Append(events, [oath |-> d, deleted |-> FALSE])
    /\ UNCHANGED <<text, dirty, problems, runs, records, handler, publishing, shown>>

\* The result of d is deleted.
ResultGoes(d) ==
    /\ runs < MaxRuns /\ runs' = runs + 1
    /\ files[d] # None
    /\ files' = [files EXCEPT ![d] = None]
    /\ events' = Append(events, [oath |-> d, deleted |-> TRUE])
    /\ UNCHANGED <<text, dirty, problems, running, records, handler, publishing, shown>>

--------------------------------------------------------------------------------
\* Mutant: a reindex publishes what has results, and no more.
RecordedOaths(P) == {d \in Docs : records[d] # None}

\* publishAll: the documents it publishes, P being those with problems.
PublishedOaths(P) ==
    P \cup {d \in Docs : records[d] # None}
      \cup Documents(UNION {records[d] : d \in Docs})

\* A reindex lands: P have problems now.  publishAll awaits no publishFor.
Reindexed(P) ==
    LET us == PublishedOaths(P)
        reading == {u \in us : Reads(u)} IN
    /\ problems' = P
    /\ shown' = [u \in Docs |-> IF u \in us \ reading THEN Sends(Call(u, P, None))
                                ELSE shown[u]]
    /\ publishing' = publishing (+) SetToBag({Call(u, P, None) : u \in reading})
    /\ UNCHANGED <<text, fileVars, records, handler>>

\* The reindex after an edit.
Reindex ==
    /\ dirty /\ dirty' = FALSE
    /\ \E P \in SUBSET Doubtful : Reindexed(P)

\* varar.acceptDrift: the baseline of d is recorded anew, then a reindex.
AcceptDrift(d) ==
    /\ d \in problems
    /\ UNCHANGED dirty
    /\ Reindexed(problems \ {d})

--------------------------------------------------------------------------------
\* onDidChangeWatchedFiles is called with the first n of the events.
Notify(h) ==
    /\ handler[h] = Idle
    /\ \E n \in 1 .. Len(events) :
          /\ handler' = [handler EXCEPT ![h] =
                            [Idle EXCEPT !.at = "next", !.changes = SubSeq(events, 1, n)]]
          /\ events' = SubSeq(events, n + 1, Len(events))
    /\ UNCHANGED <<text, dirty, problems, running, files, runs, records, publishing, shown>>

AtChange(h, deleted) ==
    /\ handler[h].at = "next" /\ handler[h].changes # << >>
    /\ Head(handler[h].changes).deleted = deleted

\* ingestWatched: the file has been read, the handler not resumed.
ReadResult(h) ==
    /\ AtChange(h, FALSE)
    /\ handler' = [handler EXCEPT ![h].at = "read",
                                  ![h].got = files[Head(handler[h].changes).oath]]
    /\ UNCHANGED <<text, dirty, problems, fileVars, records, publishing, shown>>

\* Mutant: only the documents of the new record are published.
SpokenOfNow(d, old, new) == {d} \cup Documents(new)

\* What ingest and remove return: the documents the old or the new record of d
\* speaks of.
Affected(d, old, new) == {d} \cup Documents(old) \cup Documents(new)

\* The handler publishes us, having put R for d in the records.
Recorded(h, d, R, us) ==
    /\ records' = [records EXCEPT ![d] = R]
    /\ handler' = [handler EXCEPT ![h].at = "publish", ![h].changes = Tail(@),
                                  ![h].got = None, ![h].left = us]

Ingest(h) ==
    /\ handler[h].at = "read"
    /\ LET d == Head(handler[h].changes).oath  got == handler[h].got IN
       IF got = None THEN Recorded(h, d, records[d], {})
       ELSE Recorded(h, d, got, Affected(d, records[d], got))
    /\ UNCHANGED <<text, dirty, problems, fileVars, publishing, shown>>

\* runResults.remove knows the file only if it was ingested.
Remove(h) ==
    /\ AtChange(h, TRUE)
    /\ LET d == Head(handler[h].changes).oath IN
       Recorded(h, d, None, IF records[d] = None THEN {} ELSE Affected(d, records[d], None))
    /\ UNCHANGED <<text, dirty, problems, fileVars, publishing, shown>>

\* The loop over uris calls publishFor(u), and awaits it.
PublishNext(h, u) ==
    /\ handler[h].at = "publish" /\ u \in handler[h].left
    /\ LET c == Call(u, problems, {h}) IN
       IF Reads(u)
       THEN /\ publishing' = publishing (+) SetToBag({c})
            /\ handler' = [handler EXCEPT ![h].left = @ \ {u}, ![h].at = "await"]
            /\ UNCHANGED shown
       ELSE /\ shown' = [shown EXCEPT ![u] = Sends(c)]
            /\ handler' = [handler EXCEPT ![h].left = @ \ {u}]
            /\ UNCHANGED publishing
    /\ UNCHANGED <<text, dirty, problems, fileVars, records>>

\* The read of a publishFor ends: it sends, and returns to its caller.
PublishRead(c) ==
    /\ BagIn(c, publishing)
    /\ publishing' = publishing (-) SetToBag({c})
    /\ shown' = [shown EXCEPT ![c.uri] = Sends(c)]
    /\ handler' = [h \in Handlers |->
                      IF h \in c.by THEN [handler[h] EXCEPT !.at = "publish"] ELSE handler[h]]
    /\ UNCHANGED <<text, dirty, problems, fileVars, records>>

\* Every document of a change is published: the next change, or the end.
ChangeDone(h) ==
    /\ handler[h].at = "publish" /\ handler[h].left = {}
    /\ handler' = [handler EXCEPT ![h] =
                      IF @.changes = << >> THEN Idle ELSE [@ EXCEPT !.at = "next"]]
    /\ UNCHANGED <<text, dirty, problems, fileVars, records, publishing, shown>>

--------------------------------------------------------------------------------
Handle(h) ==
    \/ Notify(h) \/ ReadResult(h) \/ Ingest(h) \/ Remove(h) \/ ChangeDone(h)
    \/ \E u \in Docs : PublishNext(h, u)

Next ==
    \/ \E d \in Docs : Edit(d) \/ RunStarts(d) \/ RunEnds(d) \/ ResultGoes(d) \/ AcceptDrift(d)
    \/ Reindex
    \/ \E h \in Handlers : Handle(h)
    \/ \E c \in BagToSet(publishing) : PublishRead(c)

Spec == Init /\ [][Next]_vars

--------------------------------------------------------------------------------
\* Every variable holds what its declaration says, and a handler awaits exactly
\* the publish it called.
TypeOK ==
    /\ text \in [Docs -> 1 .. MaxTexts] /\ problems \subseteq Doubtful
    /\ \A d \in Docs : \A r \in files[d] \cup records[d] :
          r.oath = d /\ r.fails \subseteq {d} \cup DOMAIN r.documents
    /\ \A h \in Handlers :
          handler[h].at = "await" <=> \E c \in BagToSet(publishing) : c.by = {h}

\* Nothing is under way.
Quiet ==
    /\ ~dirty /\ events = << >> /\ publishing = EmptyBag
    /\ \A h \in Handlers : handler[h] = Idle

Now(u) == RunDiagnostics(ResultsFor(u), u, text[u])

\* "each of those is republished -- including a document the previous record
\* named and this one no longer does" (server.ts:148-150): once all is quiet, the
\* editor shows of every open document exactly the failures that the records have
\* in its text as it is now.
RunsShown == Quiet => \A u \in OpenDocs : shown[u].run = Now(u)

\* An open document that has a problem shows it, whatever results and reindexes
\* came in between.
ProblemsShown == Quiet => \A u \in OpenDocs \cap problems : shown[u].parse
================================================================================
