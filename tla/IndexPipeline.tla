----------------------------- MODULE IndexPipeline -----------------------------
(***************************************************************************)
(* The language server's edit-to-answer pipeline: registerHandlers in      *)
(* lsp/src/server.ts with reindex() and acceptDrift() of lsp/src/store.ts.  *)
(*                                                                         *)
(* Three promise chains and a timer run interleaved: `writes` persists the *)
(* edits one after the other, `inFlight` runs one reindex after the other,  *)
(* the debounce timer starts a reindex some time after the last edit, and   *)
(* every request handler calls settled() and resumes once the promise it    *)
(* got has settled.  The command varar.acceptDrift runs a reindex of its    *)
(* own, outside the chain.                                                  *)
(*                                                                         *)
(* A text is its number: buffer[f] counts the texts the editor has sent for *)
(* f, and 0 is a file that is not there.  A promise of a chain is the       *)
(* number of links that must still settle before it does.                   *)
(***************************************************************************)
EXTENDS Integers, Sequences

CONSTANTS
    StepFiles,    \* paths config.steps finds
    Oaths,        \* paths config.docs finds
    Requests,     \* request handlers that can be suspended at the same time
    Accepts,      \* invocations of varar.acceptDrift that can be under way
    MaxTexts      \* bound: texts the editor sends for one file

Files == StepFiles \cup Oaths

\* The reindex that runs on the inFlight chain, beside those of Accepts.
Chain == "chain"
Runners == {Chain} \cup Accepts

ASSUME PathsAssumption == StepFiles \cap Oaths = {}
ASSUME RunnersAssumption == Chain \notin Accepts
ASSUME MaxTextsAssumption == MaxTexts \in Nat

VARIABLES
    buffer,       \* documents: the newest text of each file
    disk,         \* the FileSystem port: the text on disk, 0 for no file
    lost,         \* <<file, text>> whose write was rejected (history)
    queue,        \* links of `writes` that have not settled
    timer, dirty, \* debounceTimer is armed; `dirty`
    chain,        \* links of `inFlight` that have not settled
    poisoned,     \* the head of `inFlight` was rejected
    phase,        \* where each reindex is suspended
    ahead,        \* the writes the chain's reindex still awaits
    listed,       \* the paths fs.list gave each reindex
    seen,         \* the sources each reindex has read
    index,        \* store.current: the texts it was built from
    waiting,      \* requests suspended at `await settled()`
    behind,       \* the links each of them still awaits
    need          \* buffer when the request arrived (history)

docVars == <<buffer, disk, lost, queue>>
chainVars == <<timer, dirty, chain, poisoned>>
runVars == <<phase, ahead, listed, seen>>
reqVars == <<waiting, behind, need>>
vars == <<docVars, chainVars, runVars, index, reqVars>>

NoTexts == [f \in Files |-> 0]

\* c holds every text of n whose write was not rejected.
Covers(c, n) ==
    \A f \in Files : \A v \in 1..n[f] : <<f, v>> \notin lost => c[f] >= v

--------------------------------------------------------------------------------
\* onInitialize has reindexed; no notification comes before its response.
Init ==
    /\ buffer \in [Files -> {0, 1}]
    /\ disk = buffer
    /\ lost = {}
    /\ queue = << >>
    /\ timer = FALSE /\ dirty = FALSE
    /\ chain = 0 /\ poisoned = FALSE
    /\ phase = [p \in Runners |-> "idle"]
    /\ ahead = 0
    /\ listed = [p \in Runners |-> {}]
    /\ seen = [p \in Runners |-> NoTexts]
    /\ index = buffer
    /\ waiting = {}
    /\ behind = [r \in Requests |-> 0]
    /\ need = [r \in Requests |-> NoTexts]

\* Mutant: the index is marked dirty, and no timer is armed.
EditWithoutTimer(f) ==
    /\ buffer[f] < MaxTexts
    /\ buffer' = [buffer EXCEPT ![f] = @ + 1]
    /\ queue' = Append(queue, [file |-> f, text |-> buffer[f] + 1])
    /\ dirty' = TRUE
    /\ timer' = timer
    /\ UNCHANGED <<disk, lost, chain, poisoned, runVars, index, reqVars>>

\* documents.onDidChangeContent: chain the write-through, then scheduleReindex.
Edit(f) ==
    /\ buffer[f] < MaxTexts
    /\ buffer' = [buffer EXCEPT ![f] = @ + 1]
    /\ queue' = Append(queue, [file |-> f, text |-> buffer[f] + 1])
    /\ dirty' = TRUE
    /\ timer' = TRUE
    /\ UNCHANGED <<disk, lost, chain, poisoned, runVars, index, reqVars>>

\* The oldest write has settled: the next one runs, and what awaits `writes` is
\* one link closer.
HeadSettles ==
    /\ queue' = Tail(queue)
    /\ ahead' = IF ahead > 0 THEN ahead - 1 ELSE 0
    /\ UNCHANGED <<buffer, chainVars, phase, listed, seen, index, reqVars>>

\* Mutant: the writes are not chained, and the newest may finish first.
AnyWriteLands ==
    /\ \E i \in 1..Len(queue) :
          /\ disk' = [disk EXCEPT ![queue[i].file] = queue[i].text]
          /\ queue' = [j \in 1..(Len(queue) - 1) |-> queue[IF j < i THEN j ELSE j + 1]]
    /\ ahead' = IF ahead > 0 THEN ahead - 1 ELSE 0
    /\ UNCHANGED <<buffer, lost, chainVars, phase, listed, seen, index, reqVars>>

WriteLands ==
    /\ queue # << >>
    /\ disk' = [disk EXCEPT ![Head(queue).file] = Head(queue).text]
    /\ HeadSettles
    /\ UNCHANGED lost

\* Its rejection is caught and logged, so the chain goes on.
WriteFails ==
    /\ queue # << >>
    /\ lost' = lost \cup {<<Head(queue).file, Head(queue).text>>}
    /\ HeadSettles
    /\ UNCHANGED disk

\* settled(): chain a reindex if the index is dirty.  The promise it returns is
\* the tail of the chain, SettledTail links away.
SettledTail == IF dirty THEN chain + 1 ELSE chain

Settled ==
    /\ timer' = FALSE
    /\ dirty' = FALSE
    /\ chain' = SettledTail

TimerFires ==
    /\ timer
    /\ Settled
    /\ UNCHANGED <<docVars, poisoned, runVars, index, reqVars>>

\* Mutant: a request always awaits one reindex more, also when none is chained.
RequestAwaitsNext(r) ==
    /\ r \notin waiting
    /\ Settled
    /\ waiting' = waiting \cup {r}
    /\ behind' = [behind EXCEPT ![r] = chain + 1]
    /\ need' = [need EXCEPT ![r] = buffer]
    /\ UNCHANGED <<docVars, poisoned, runVars, index>>

\* A handler of hover, definition, completion, rename... runs up to its await.
RequestArrives(r) ==
    /\ r \notin waiting
    /\ Settled
    /\ waiting' = waiting \cup {r}
    /\ behind' = [behind EXCEPT ![r] = SettledTail]
    /\ need' = [need EXCEPT ![r] = buffer]
    /\ UNCHANGED <<docVars, poisoned, runVars, index>>

\* Mutant: the handler does not await settled().
ResolvedAtOnce(r) == r \in waiting

\* The promise has settled and the handler resumes: it answers from
\* store.index(), or rejects with the rejection of the chain.
Resolved(r) == r \in waiting /\ behind[r] = 0
Rejected(r) == r \in waiting /\ behind[r] > 0 /\ poisoned

RequestResumes(r) ==
    /\ Resolved(r) \/ Rejected(r)
    /\ waiting' = waiting \ {r}
    /\ behind' = [behind EXCEPT ![r] = 0]
    /\ need' = [need EXCEPT ![r] = NoTexts]
    /\ UNCHANGED <<docVars, chainVars, runVars, index>>

--------------------------------------------------------------------------------
\* Mutant: the link does not await `writes`.
LinkSkipsWrites ==
    /\ chain > 0 /\ ~poisoned
    /\ phase[Chain] = "idle"
    /\ phase' = [phase EXCEPT ![Chain] = "writes"]
    /\ ahead' = 0
    /\ UNCHANGED <<docVars, chainVars, listed, seen, index, reqVars>>

\* The callback of the next link of inFlight runs up to `await writes`.  After
\* a rejected link it is skipped.
LinkStarts ==
    /\ chain > 0 /\ ~poisoned
    /\ phase[Chain] = "idle"
    /\ phase' = [phase EXCEPT ![Chain] = "writes"]
    /\ ahead' = Len(queue)
    /\ UNCHANGED <<docVars, chainVars, listed, seen, index, reqVars>>

WritesAwaited ==
    /\ phase[Chain] = "writes"
    /\ ahead = 0
    /\ phase' = [phase EXCEPT ![Chain] = "list"]
    /\ UNCHANGED <<docVars, chainVars, ahead, listed, seen, index, reqVars>>

\* store.reindex(): list the step files and the oaths...
ListFiles(p) ==
    /\ phase[p] = "list"
    /\ phase' = [phase EXCEPT ![p] = "steps"]
    /\ listed' = [listed EXCEPT ![p] = {f \in Files : disk[f] > 0}]
    /\ UNCHANGED <<docVars, chainVars, ahead, seen, index, reqVars>>

\* ...read those of one kind (the reads of a Promise.all are issued together)...
ReadSources(p, kind) ==
    /\ \A f \in listed[p] \cap kind : disk[f] > 0
    /\ seen' = [seen EXCEPT ![p] =
                   [f \in Files |-> IF f \in listed[p] \cap kind THEN disk[f] ELSE @[f]]]

ReadSteps(p) ==
    /\ phase[p] = "steps"
    /\ ReadSources(p, StepFiles)
    /\ phase' = [phase EXCEPT ![p] = "oaths"]
    /\ UNCHANGED <<docVars, chainVars, ahead, listed, index, reqVars>>

\* ...and build the index from what was read.
ReadOathsAndBuild(p) ==
    /\ phase[p] = "oaths"
    /\ ReadSources(p, Oaths)
    /\ phase' = [phase EXCEPT ![p] = "lock"]
    /\ index' = seen'[p]
    /\ UNCHANGED <<docVars, chainVars, ahead, listed, reqVars>>

\* The reindex of p is over: its locals are gone, and a link of the chain that
\* resolves releases what awaits it.
Over(p) ==
    /\ phase' = [phase EXCEPT ![p] = "idle"]
    /\ listed' = [listed EXCEPT ![p] = {}]
    /\ seen' = [seen EXCEPT ![p] = NoTexts]
    /\ UNCHANGED <<docVars, timer, dirty, ahead, waiting, need>>

\* The lock file has been read, and the drift diagnostics of this reindex are
\* added to whatever `current` is now: the texts it was built from stay.
ReadLockFile(p) ==
    /\ phase[p] = "lock"
    /\ Over(p)
    /\ IF p = Chain
         THEN /\ chain' = chain - 1
              /\ behind' = [r \in Requests |-> IF behind[r] > 0 THEN behind[r] - 1 ELSE 0]
         ELSE UNCHANGED <<chain, behind>>
    /\ UNCHANGED <<index, poisoned>>

\* A file that was listed is gone when it is read: reindex() rejects, and on
\* the chain so does every link after it.
ReadFails(p) ==
    /\ \/ phase[p] = "steps" /\ \E f \in listed[p] \cap StepFiles : disk[f] = 0
       \/ phase[p] = "oaths" /\ \E f \in listed[p] \cap Oaths : disk[f] = 0
    /\ poisoned' = (poisoned \/ p = Chain)
    /\ Over(p)
    /\ UNCHANGED <<chain, behind, index>>

--------------------------------------------------------------------------------
\* varar.acceptDrift: store.acceptDrift() rewrites the lock file (its contents
\* are LockFile's business), then the handler calls store.reindex() itself.
ExecuteAccept(a) ==
    /\ phase[a] = "idle"
    /\ phase' = [phase EXCEPT ![a] = "accept"]
    /\ UNCHANGED <<docVars, chainVars, ahead, listed, seen, index, reqVars>>

AcceptRecorded(a) ==
    /\ phase[a] = "accept"
    /\ phase' = [phase EXCEPT ![a] = "list"]
    /\ UNCHANGED <<docVars, chainVars, ahead, listed, seen, index, reqVars>>

\* The oath is not there to be read: the command is rejected, nothing reindexes.
AcceptFails(a) ==
    /\ phase[a] = "accept"
    /\ \E f \in Oaths : disk[f] = 0
    /\ phase' = [phase EXCEPT ![a] = "idle"]
    /\ UNCHANGED <<docVars, chainVars, ahead, listed, seen, index, reqVars>>

\* Another program deletes a file.  No watcher tells the server.
Vanish(f) ==
    /\ disk[f] > 0
    /\ disk' = [disk EXCEPT ![f] = 0]
    /\ UNCHANGED <<buffer, lost, queue, chainVars, runVars, index, reqVars>>

--------------------------------------------------------------------------------
Reindexing(p) ==
    \/ ListFiles(p)
    \/ ReadSteps(p)
    \/ ReadOathsAndBuild(p)
    \/ ReadLockFile(p)

ChainStep == LinkStarts \/ WritesAwaited \/ Reindexing(Chain)

\* The editor, the file system and the request handlers, no command and no
\* other program.
EditNext ==
    \/ \E f \in Files : Edit(f)
    \/ WriteLands
    \/ WriteFails
    \/ TimerFires
    \/ \E r \in Requests : RequestArrives(r) \/ RequestResumes(r)
    \/ ChainStep

Accepting(a) ==
    \/ ExecuteAccept(a)
    \/ AcceptRecorded(a)
    \/ AcceptFails(a)
    \/ Reindexing(a)
    \/ ReadFails(a)

Next ==
    \/ EditNext
    \/ \E a \in Accepts : Accepting(a)
    \/ \E f \in Files : Vanish(f)
    \/ ReadFails(Chain)

\* A timer fires, a promise that can settle settles and its reaction runs; the
\* editor's own steps are never owed.
Fairness ==
    /\ WF_vars(WriteLands \/ WriteFails)
    /\ WF_vars(TimerFires)
    /\ WF_vars(ChainStep \/ ReadFails(Chain))
    /\ \A r \in Requests : WF_vars(RequestResumes(r))

EditSpec == Init /\ [][EditNext]_vars
FairEditSpec == EditSpec /\ Fairness
Spec == Init /\ [][Next]_vars
FairSpec == Spec /\ Fairness

\* With accept commands and no other program, in the order of the event loop:
\* what a settled promise owes to a handler is done before the next read or
\* write of a file ends.
AcceptNext ==
    \/ \E r \in Requests : RequestResumes(r)
    \/ /\ \A r \in Requests : ~Resolved(r) /\ ~Rejected(r)
       /\ EditNext \/ \E a \in Accepts : Accepting(a)

AcceptSpec == Init /\ [][AcceptNext]_vars

--------------------------------------------------------------------------------
Phases == {"idle", "accept", "writes", "list", "steps", "oaths", "lock"}
Texts == [Files -> Nat]
Writes == [file : Files, text : Nat]

DocTypes ==
    /\ buffer \in Texts /\ disk \in Texts
    /\ lost \subseteq Files \X Nat
    /\ queue \in Seq(Writes)

ChainTypes ==
    /\ timer \in BOOLEAN /\ dirty \in BOOLEAN /\ poisoned \in BOOLEAN
    /\ chain \in Nat

RunTypes ==
    /\ phase \in [Runners -> Phases]
    /\ ahead \in Nat
    /\ listed \in [Runners -> SUBSET Files]
    /\ seen \in [Runners -> Texts]

IndexTypes == index \in Texts

RequestTypes ==
    /\ waiting \subseteq Requests
    /\ behind \in [Requests -> Nat]
    /\ need \in [Requests -> Texts]

\* Every variable holds a value of the kind the code keeps in it.
TypeOK == DocTypes /\ ChainTypes /\ RunTypes /\ IndexTypes /\ RequestTypes

\* "no feature can observe an index older than the edit it is answering about"
\* (server.ts:82): a handler that may resume finds every text the editor had
\* sent when its request came in the index, but for those whose write failed.
AnswersFresh ==
    \A r \in Requests : Resolved(r) => Covers(index, need[r])

\* "the earlier one finishing last would leave the older text on disk"
\* (server.ts:91): while no other program deletes files, a file on disk only
\* ever moves to a newer text.
DiskNeverOlder == [][\A f \in Files : disk'[f] >= disk[f]]_vars

\* A reindex never replaces the index by one that was read before it, however
\* the reads, the writes and the chain interleave (server.ts:87).
IndexNeverOlder == [][\A f \in Files : index'[f] >= index[f]]_vars

\* Neither the disk nor the index ever goes back to an older text.
NeverOlder == DiskNeverOlder /\ IndexNeverOlder

\* The derived index is only debounced (server.ts:79): an edit whose write does
\* not fail reaches the index, although no request ever asks for it.
EditsGetIndexed ==
    \A f \in Files : \A v \in 1..MaxTexts :
        buffer[f] >= v ~> (<<f, v>> \in lost \/ index[f] >= v)

\* settled() is "safe to call when nothing is pending" (server.ts:103): the
\* handler of a request is never left suspended.
RequestsGetAnswered == \A r \in Requests : r \in waiting ~> r \notin waiting

\* A rejection "must not poison the chain for later edits" (server.ts:136, said
\* of `writes`): whatever fails, the chain of reindexes gets idle again.
ChainRecovers == []<>(chain = 0)

\* Edits, failed writes, requests, reindexes and answers are those of the
\* abstract index; timers, chains and reads are steps it does not see.
Fresh == INSTANCE FreshIndex
    WITH sent <- buffer, known <- index, pending <- waiting, owed <- need
ImplementsFreshIndex == Fresh!Spec
--------------------------------------------------------------------------------
(***************************************************************************)
(* Why AnswersFresh holds: each text that was sent and not lost is on its  *)
(* way to the index, and every promise still to settle stands for texts    *)
(* that the index will hold when it does.                                  *)
(***************************************************************************)

\* The writes of a file are queued in the order of its texts, all of them newer
\* than the file on disk, and a text that is in no queue was written or lost.
QueueInOrder ==
    /\ \A i \in 1..Len(queue) :
          disk[queue[i].file] < queue[i].text /\ queue[i].text <= buffer[queue[i].file]
    /\ \A i, j \in 1..Len(queue) :
          i < j /\ queue[i].file = queue[j].file => queue[i].text < queue[j].text

\* Every text of n is lost, on disk, or among the first k writes of the queue.
WrittenWithin(k, n) ==
    \A f \in Files : \A v \in 1..n[f] :
        \/ <<f, v>> \in lost
        \/ disk[f] >= v
        \/ \E i \in 1..k : queue[i] = [file |-> f, text |-> v]

\* What the running reindex will have read of f when it builds the index, if f
\* does not change any more.
Promised ==
    [f \in Files |->
        CASE phase[Chain] = "steps" -> (IF f \in listed[Chain] THEN disk[f] ELSE 0)
          [] phase[Chain] = "oaths" -> (IF f \in StepFiles THEN seen[Chain][f]
                                        ELSE IF f \in listed[Chain] THEN disk[f] ELSE 0)
          [] phase[Chain] = "lock" -> index[f]
          [] OTHER -> disk[f]]

MovesForward ==
    \A f \in Files : /\ index[f] <= Promised[f]
                     /\ Promised[f] <= disk[f]
                     /\ disk[f] <= buffer[f]

\* What a promise d links away owes to one who awaits it with the texts n.
Owes(d, n) ==
    /\ d = 0 => Covers(index, n)
    /\ d = 1 /\ phase[Chain] = "writes" => WrittenWithin(ahead, n)
    /\ d = 1 /\ phase[Chain] \in {"list", "steps", "oaths", "lock"} => Covers(Promised, n)

PromisesOwed ==
    /\ \A r \in waiting : Owes(behind[r], need[r])
    /\ ~dirty => Owes(chain, buffer)

ChainInOrder ==
    /\ ~poisoned
    /\ phase[Chain] \in Phases \ {"accept"}
    /\ phase[Chain] # "idle" => chain > 0
    /\ ahead <= Len(queue)
    /\ phase[Chain] \notin {"oaths", "lock"} => seen[Chain] = NoTexts
    /\ \A f \in Oaths : phase[Chain] = "oaths" => seen[Chain][f] = 0
    /\ \A f \in StepFiles : phase[Chain] = "oaths" /\ f \notin listed[Chain] => seen[Chain][f] = 0
    /\ \A r \in Requests : behind[r] <= chain
    /\ \A r \in Requests : \A f \in Files : need[r][f] <= buffer[f]

\* The inductive invariant of EditSpec: every text that was sent is queued,
\* written or lost; the index, the reads, the disk and the buffers are in that
\* order; and every promise of the chain covers the texts of those who await it
\* (server.ts:79-121).
Inv ==
    /\ TypeOK
    /\ QueueInOrder
    /\ WrittenWithin(Len(queue), buffer)
    /\ MovesForward
    /\ ChainInOrder
    /\ PromisesOwed
================================================================================
