-------------------------- MODULE IndexPipeline_proofs --------------------------
(***************************************************************************)
(* Proofs about IndexPipeline, for any files, requests, accept commands    *)
(* and any bound on the texts.                                             *)
(***************************************************************************)
EXTENDS IndexPipeline, SequenceTheorems, TLAPS

USE DEF Files, Runners, Texts, Phases, Writes, NoTexts

--------------------------------------------------------------------------------
(* Types *)

LEMMA InitTyped == Init => TypeOK
<1> SUFFICES ASSUME Init PROVE TypeOK
  OBVIOUS
<1>1. DocTypes
  BY DEF Init, DocTypes
<1>2. ChainTypes
  BY DEF Init, ChainTypes
<1>3. RunTypes
  BY DEF Init, RunTypes
<1>4. IndexTypes
  BY DEF Init, IndexTypes
<1>5. RequestTypes
  BY DEF Init, RequestTypes
<1>6. QED
  BY <1>1, <1>2, <1>3, <1>4, <1>5 DEF TypeOK

\* The parts of the state an action leaves alone keep their types.
LEMMA Unchanged ==
  /\ DocTypes /\ UNCHANGED docVars => DocTypes'
  /\ ChainTypes /\ UNCHANGED chainVars => ChainTypes'
  /\ RunTypes /\ UNCHANGED runVars => RunTypes'
  /\ IndexTypes /\ UNCHANGED index => IndexTypes'
  /\ RequestTypes /\ UNCHANGED reqVars => RequestTypes'
<1>1. DocTypes /\ UNCHANGED docVars => DocTypes'
  BY DEF DocTypes, docVars
<1>2. ChainTypes /\ UNCHANGED chainVars => ChainTypes'
  BY DEF ChainTypes, chainVars
<1>3. RunTypes /\ UNCHANGED runVars => RunTypes'
  BY DEF RunTypes, runVars
<1>4. IndexTypes /\ UNCHANGED index => IndexTypes'
  BY DEF IndexTypes
<1>5. RequestTypes /\ UNCHANGED reqVars => RequestTypes'
  BY DEF RequestTypes, reqVars
<1>6. QED
  BY <1>1, <1>2, <1>3, <1>4, <1>5

LEMMA TypedEdit ==
  ASSUME TypeOK, NEW f \in Files, Edit(f)
  PROVE  TypeOK'
<1>1. DocTypes'
  <2>1. [file |-> f, text |-> buffer[f] + 1] \in Writes
    BY DEF TypeOK, DocTypes
  <2>2. queue' \in Seq(Writes)
    BY <2>1 DEF TypeOK, DocTypes, Edit
  <2>3. QED
    BY <2>2 DEF TypeOK, DocTypes, Edit
<1>2. ChainTypes'
  BY DEF TypeOK, ChainTypes, Edit
<1>3. QED
  BY <1>1, <1>2, Unchanged DEF TypeOK, Edit

\* The oldest write is a write, and the ones behind it are.
LEMMA TypedHead ==
  ASSUME DocTypes, queue # << >>
  PROVE  /\ Head(queue).file \in Files /\ Head(queue).text \in Nat
         /\ Tail(queue) \in Seq(Writes)
<1>1. Head(queue) \in Writes /\ Tail(queue) \in Seq(Writes)
  BY HeadTailProperties DEF DocTypes
<1>2. QED
  BY <1>1

LEMMA TypedWrite ==
  ASSUME TypeOK, WriteLands \/ WriteFails
  PROVE  TypeOK'
<1>1. DocTypes'
  <2>1. CASE WriteLands
    BY <2>1, TypedHead DEF TypeOK, DocTypes, WriteLands, HeadSettles
  <2>2. CASE WriteFails
    BY <2>2, TypedHead DEF TypeOK, DocTypes, WriteFails, HeadSettles
  <2>3. QED
    BY <2>1, <2>2
<1>3. HeadSettles
  BY DEF WriteLands, WriteFails
<1>2. RunTypes'
  <2>1. (IF ahead > 0 THEN ahead - 1 ELSE 0) \in Nat
    BY DEF TypeOK, RunTypes
  <2>2. QED
    BY <1>3, <2>1 DEF TypeOK, RunTypes, HeadSettles
<1>4. ChainTypes' /\ IndexTypes' /\ RequestTypes'
  BY <1>3, Unchanged DEF TypeOK, HeadSettles
<1>5. QED
  BY <1>1, <1>2, <1>4 DEF TypeOK

LEMMA TailTyped == ChainTypes => SettledTail \in Nat
  BY DEF ChainTypes, SettledTail

LEMMA TypedSettled == ChainTypes /\ Settled /\ UNCHANGED poisoned => ChainTypes'
<1> SUFFICES ASSUME ChainTypes, Settled, UNCHANGED poisoned PROVE ChainTypes'
  OBVIOUS
<1>1. chain' \in Nat
  BY TailTyped DEF Settled
<1>2. QED
  BY <1>1 DEF ChainTypes, Settled

LEMMA TypedTimer ==
  ASSUME TypeOK, TimerFires
  PROVE  TypeOK'
  BY TypedSettled, Unchanged DEF TypeOK, TimerFires

LEMMA TypedArrival ==
  ASSUME TypeOK, NEW r \in Requests, RequestArrives(r)
  PROVE  TypeOK'
<1>1. ChainTypes'
  BY TypedSettled DEF TypeOK, RequestArrives
<1>2. RequestTypes'
  BY TailTyped DEF TypeOK, RequestTypes, DocTypes, RequestArrives
<1>3. QED
  BY <1>1, <1>2, Unchanged DEF TypeOK, RequestArrives

LEMMA TypedResumption ==
  ASSUME TypeOK, NEW r \in Requests, RequestResumes(r)
  PROVE  TypeOK'
<1>1. RequestTypes'
  BY DEF TypeOK, RequestTypes, RequestResumes
<1>2. QED
  BY <1>1, Unchanged DEF TypeOK, RequestResumes

LEMMA TypedLink ==
  ASSUME TypeOK, LinkStarts \/ WritesAwaited
  PROVE  TypeOK'
<1>1. RunTypes'
  <2>1. Chain \in Runners
    OBVIOUS
  <2>2. Len(queue) \in Nat
    BY DEF TypeOK, DocTypes
  <2>3. CASE LinkStarts
    BY <2>1, <2>2, <2>3 DEF TypeOK, RunTypes, LinkStarts
  <2>4. CASE WritesAwaited
    BY <2>1, <2>4 DEF TypeOK, RunTypes, WritesAwaited
  <2>5. QED
    BY <2>3, <2>4
<1>2. QED
  BY <1>1, Unchanged DEF TypeOK, LinkStarts, WritesAwaited

\* The runner p may be the chain only while the chain has a link to settle.
LEMMA TypedReindex ==
  ASSUME TypeOK, NEW p \in Runners, Reindexing(p),
         p = Chain /\ phase[p] = "lock" => chain > 0
  PROVE  TypeOK'
<1>1. CASE ListFiles(p)
  <2>1. RunTypes'
    BY <1>1 DEF TypeOK, RunTypes, ListFiles
  <2>2. QED
    BY <1>1, <2>1, Unchanged DEF TypeOK, ListFiles
<1>2. CASE ReadSteps(p)
  <2>1. RunTypes'
    BY <1>2 DEF TypeOK, RunTypes, DocTypes, ReadSteps, ReadSources
  <2>2. QED
    BY <1>2, <2>1, Unchanged DEF TypeOK, ReadSteps
<1>3. CASE ReadOathsAndBuild(p)
  <2>1. RunTypes'
    BY <1>3 DEF TypeOK, RunTypes, DocTypes, ReadOathsAndBuild, ReadSources
  <2>2. IndexTypes'
    <3>1. seen'[p] \in Texts
      BY <2>1 DEF RunTypes
    <3>2. << >> \in Seq(Texts)
      OBVIOUS
    <3>3. QED
      BY <1>3, <3>1, <3>2 DEF IndexTypes, ReadOathsAndBuild
  <2>3. QED
    BY <1>3, <2>1, <2>2, Unchanged DEF TypeOK, ReadOathsAndBuild
<1>4. CASE ReadLockFile(p)
  <2>1. RunTypes'
    BY <1>4 DEF TypeOK, RunTypes, ReadLockFile, Over
  <2>2. chain' \in Nat /\ behind' \in [Requests -> Nat]
    BY <1>4 DEF TypeOK, ChainTypes, RequestTypes, ReadLockFile
  <2>3. ChainTypes' /\ RequestTypes'
    BY <1>4, <2>2 DEF TypeOK, ChainTypes, RequestTypes, ReadLockFile, Over
  <2>4. QED
    BY <1>4, <2>1, <2>3, Unchanged DEF TypeOK, ReadLockFile, Over
<1>5. QED
  BY <1>1, <1>2, <1>3, <1>4 DEF Reindexing

LEMMA TypedFailure ==
  ASSUME TypeOK, NEW p \in Runners, ReadFails(p)
  PROVE  TypeOK'
<1>1. RunTypes'
  BY DEF TypeOK, RunTypes, ReadFails, Over
<1>2. ChainTypes'
  BY DEF TypeOK, ChainTypes, ReadFails, Over
<1>3. QED
  BY <1>1, <1>2, Unchanged DEF TypeOK, ReadFails, Over, reqVars

LEMMA TypedAccept ==
  ASSUME TypeOK, NEW a \in Accepts,
         ExecuteAccept(a) \/ AcceptRecorded(a) \/ AcceptFails(a)
  PROVE  TypeOK'
<1>1. RunTypes'
  BY DEF TypeOK, RunTypes, ExecuteAccept, AcceptRecorded, AcceptFails
<1>2. QED
  BY <1>1, Unchanged DEF TypeOK, ExecuteAccept, AcceptRecorded, AcceptFails

LEMMA TypedVanish ==
  ASSUME TypeOK, NEW f \in Files, Vanish(f)
  PROVE  TypeOK'
<1>1. DocTypes'
  BY DEF TypeOK, DocTypes, Vanish
<1>2. QED
  BY <1>1, Unchanged DEF TypeOK, Vanish

\* While the chain's reindex runs, its link has not settled.
LinkOpen == phase[Chain] # "idle" => chain > 0

LEMMA InitLinkOpen == Init => LinkOpen
  BY DEF Init, LinkOpen

LEMMA NextLinkOpen ==
  ASSUME TypeOK, LinkOpen, [Next]_vars
  PROVE  LinkOpen'
<1> USE DEF LinkOpen
<1>0. Chain \in Runners /\ phase \in [Runners -> Phases] /\ chain \in Nat
  BY DEF TypeOK, RunTypes, ChainTypes
<1>a. SettledTail >= chain
  BY <1>0 DEF SettledTail
<1>1. CASE \E f \in Files : Edit(f)
  BY <1>1 DEF Edit, runVars
<1>2. CASE WriteLands \/ WriteFails
  BY <1>2 DEF WriteLands, WriteFails, HeadSettles, chainVars
<1>3. CASE TimerFires
  BY <1>0, <1>a, <1>3, TailTyped DEF TypeOK, TimerFires, Settled, runVars
<1>4. CASE \E r \in Requests : RequestArrives(r)
  BY <1>0, <1>a, <1>4, TailTyped DEF TypeOK, RequestArrives, Settled, runVars
<1>5. CASE \E r \in Requests : RequestResumes(r)
  BY <1>5 DEF RequestResumes, chainVars, runVars
<1>6. CASE LinkStarts \/ WritesAwaited
  BY <1>0, <1>6 DEF LinkStarts, WritesAwaited, chainVars
<1>7. CASE \E p \in Runners : Reindexing(p)
  <2> PICK p \in Runners : Reindexing(p)
    BY <1>7
  <2>1. CASE ListFiles(p)
    BY <1>0, <2>1 DEF ListFiles, chainVars
  <2>2. CASE ReadSteps(p)
    BY <1>0, <2>2 DEF ReadSteps, chainVars
  <2>3. CASE ReadOathsAndBuild(p)
    BY <1>0, <2>3 DEF ReadOathsAndBuild, chainVars
  <2>4. CASE ReadLockFile(p)
    BY <1>0, <2>4 DEF ReadLockFile, Over
  <2>5. QED
    BY <2>1, <2>2, <2>3, <2>4 DEF Reindexing
<1>8. CASE \E p \in Runners : ReadFails(p)
  BY <1>0, <1>8 DEF ReadFails, Over
<1>9. CASE \E a \in Accepts : ExecuteAccept(a) \/ AcceptRecorded(a) \/ AcceptFails(a)
  BY <1>0, <1>9, RunnersAssumption DEF ExecuteAccept, AcceptRecorded, AcceptFails, chainVars
<1>10. CASE \E f \in Files : Vanish(f)
  BY <1>10 DEF Vanish, chainVars, runVars
<1>11. CASE UNCHANGED vars
  BY <1>11 DEF vars, chainVars, runVars
<1>12. QED
  BY <1>1, <1>2, <1>3, <1>4, <1>5, <1>6, <1>7, <1>8, <1>9, <1>10, <1>11
     DEF Next, EditNext, ChainStep, Accepting

LEMMA NextTyped ==
  ASSUME TypeOK, LinkOpen, [Next]_vars
  PROVE  TypeOK'
<1>1. CASE \E f \in Files : Edit(f)
  BY <1>1, TypedEdit
<1>2. CASE WriteLands \/ WriteFails
  BY <1>2, TypedWrite
<1>3. CASE TimerFires
  BY <1>3, TypedTimer
<1>4. CASE \E r \in Requests : RequestArrives(r)
  BY <1>4, TypedArrival
<1>5. CASE \E r \in Requests : RequestResumes(r)
  BY <1>5, TypedResumption
<1>6. CASE LinkStarts \/ WritesAwaited
  BY <1>6, TypedLink
<1>7. CASE \E p \in Runners : Reindexing(p)
  BY <1>7, TypedReindex DEF LinkOpen
<1>8. CASE \E p \in Runners : ReadFails(p)
  BY <1>8, TypedFailure
<1>9. CASE \E a \in Accepts : ExecuteAccept(a) \/ AcceptRecorded(a) \/ AcceptFails(a)
  BY <1>9, TypedAccept
<1>10. CASE \E f \in Files : Vanish(f)
  BY <1>10, TypedVanish
<1>11. CASE UNCHANGED vars
  BY <1>11, Unchanged DEF vars, TypeOK
<1>12. QED
  BY <1>1, <1>2, <1>3, <1>4, <1>5, <1>6, <1>7, <1>8, <1>9, <1>10, <1>11
     DEF Next, EditNext, ChainStep, Accepting

\* Every reachable state is well typed, whatever the editor, the commands and
\* other programs do.
THEOREM TypeCorrect == Spec => []TypeOK
<1>1. Init => TypeOK /\ LinkOpen
  BY InitTyped, InitLinkOpen
<1>2. TypeOK /\ LinkOpen /\ [Next]_vars => (TypeOK /\ LinkOpen)'
  BY NextTyped, NextLinkOpen
<1>3. QED
  BY <1>1, <1>2, PTL DEF Spec

--------------------------------------------------------------------------------
(* The inductive invariant of EditSpec, one action at a time *)

LEMMA InitInv == Init => Inv
<1> SUFFICES ASSUME Init PROVE Inv
  OBVIOUS
<1>1. TypeOK
  BY InitTyped
<1>2. Len(queue) = 0 /\ Chain \in Runners /\ phase[Chain] = "idle" /\ chain = 0
  BY DEF Init
<1>3. QueueInOrder /\ WrittenWithin(Len(queue), buffer)
  BY <1>2 DEF Init, QueueInOrder, WrittenWithin
<1>4. MovesForward
  BY <1>1, <1>2 DEF Init, MovesForward, Promised, TypeOK, DocTypes
<1>5. ChainInOrder
  BY <1>1, <1>2 DEF Init, ChainInOrder, TypeOK, DocTypes
<1>6. PromisesOwed
  BY <1>2 DEF Init, PromisesOwed, Owes, Covers
<1>7. QED
  BY <1>1, <1>3, <1>4, <1>5, <1>6 DEF Inv

\* What the types say of the state, for the provers.
LEMMA Typed ==
  ASSUME TypeOK
  PROVE  /\ queue \in Seq(Writes) /\ Len(queue) \in Nat
         /\ \A i \in 1..Len(queue) : queue[i].file \in Files /\ queue[i].text \in Nat
         /\ \A f \in Files : buffer[f] \in Nat /\ disk[f] \in Nat /\ index[f] \in Nat
         /\ \A f \in Files : seen[Chain][f] \in Nat
         /\ \A r \in Requests : behind[r] \in Nat
         /\ \A r \in Requests : \A f \in Files : need[r][f] \in Nat
         /\ chain \in Nat /\ ahead \in Nat /\ Chain \in Runners
<1>1. queue \in Seq(Writes)
  BY DEF TypeOK, DocTypes
<1>2. \A i \in 1..Len(queue) : queue[i] \in Writes
  BY <1>1, ElementOfSeq
<1>3. QED
  BY <1>1, <1>2 DEF TypeOK, DocTypes, ChainTypes, RunTypes, IndexTypes, RequestTypes

\* Edit appends a text newer than all others of its file.
LEMMA EditInv ==
  ASSUME Inv, NEW f \in Files, Edit(f)
  PROVE  Inv'
<1>1. TypeOK'
  BY TypedEdit DEF Inv
<1> DEFINE w == [file |-> f, text |-> buffer[f] + 1]
<1>2. /\ Len(queue') = Len(queue) + 1
      /\ \A i \in 1..Len(queue) : queue'[i] = queue[i]
      /\ queue'[Len(queue) + 1] = w
  BY Typed DEF Inv, Edit
<1>3. /\ buffer'[f] = buffer[f] + 1
      /\ \A g \in Files : g # f => buffer'[g] = buffer[g]
      /\ \A g \in Files : buffer[g] <= buffer'[g]
      /\ \A g \in Files : buffer'[g] \in Nat
  BY Typed DEF Inv, Edit, TypeOK, DocTypes
<1>4. disk' = disk /\ lost' = lost /\ index' = index
  BY DEF Edit
<1>5. UNCHANGED <<phase, ahead, listed, seen, chain, poisoned, waiting, behind, need>> /\ dirty' = TRUE
  BY DEF Edit, runVars, reqVars
<1>6. QueueInOrder'
  <2>1. ASSUME NEW i \in 1..Len(queue')
        PROVE  disk'[queue'[i].file] < queue'[i].text /\ queue'[i].text <= buffer'[queue'[i].file]
    <3>1. CASE i \in 1..Len(queue)
      <4>1. disk[queue[i].file] < queue[i].text /\ queue[i].text <= buffer[queue[i].file]
        BY <3>1 DEF Inv, QueueInOrder
      <4>2. queue[i].file \in Files /\ queue[i].text \in Nat
        BY <3>1, Typed DEF Inv
      <4> HIDE DEF w
      <4>3. buffer[queue[i].file] \in Nat
        BY <4>2, Typed DEF Inv
      <4>4. /\ buffer[queue[i].file] <= buffer'[queue[i].file]
            /\ buffer'[queue[i].file] \in Nat
        BY <1>3, <4>2
      <4>5. queue[i].text <= buffer'[queue[i].file]
        BY <4>1, <4>2, <4>3, <4>4
      <4>6. QED
        BY <1>2, <1>4, <3>1, <4>1, <4>5
    <3>2. CASE i = Len(queue) + 1
      <4>1. queue'[i].file = f /\ queue'[i].text = buffer[f] + 1
        BY <1>2, <3>2
      <4>2. disk[f] <= buffer[f]
        BY DEF Inv, MovesForward
      <4>3. QED
        BY <1>3, <1>4, <4>1, <4>2, Typed DEF Inv
    <3>3. QED
      BY <1>2, <3>1, <3>2, Typed DEF Inv
  <2>2. ASSUME NEW i \in 1..Len(queue'), NEW j \in 1..Len(queue'),
               i < j, queue'[i].file = queue'[j].file
        PROVE  queue'[i].text < queue'[j].text
    <3>1. i \in 1..Len(queue) /\ queue'[i] = queue[i]
      BY <1>2, <2>2, Typed DEF Inv
    <3>2. CASE j \in 1..Len(queue)
      BY <1>2, <2>2, <3>1, <3>2 DEF Inv, QueueInOrder
    <3>3. CASE j = Len(queue) + 1
      <4>1. queue'[j].file = f /\ queue'[j].text = buffer[f] + 1
        BY <1>2, <3>3
      <4>2. queue[i].file = f /\ queue[i].text <= buffer[f]
        BY <2>2, <3>1, <4>1 DEF Inv, QueueInOrder
      <4>3. QED
        BY <3>1, <4>1, <4>2, Typed DEF Inv
    <3>4. QED
      BY <1>2, <3>2, <3>3, Typed DEF Inv
  <2>3. QED
    BY <2>1, <2>2 DEF QueueInOrder
<1>7. WrittenWithin(Len(queue), buffer)'
  <2> SUFFICES ASSUME NEW g \in Files, NEW v \in 1..buffer'[g]
               PROVE  \/ <<g, v>> \in lost'
                      \/ disk'[g] >= v
                      \/ \E i \in 1..Len(queue') : queue'[i] = [file |-> g, text |-> v]
    BY DEF WrittenWithin
  <2>1. CASE v \in 1..buffer[g]
    <3>1. \/ <<g, v>> \in lost
          \/ disk[g] >= v
          \/ \E i \in 1..Len(queue) : queue[i] = [file |-> g, text |-> v]
      BY <2>1 DEF Inv, WrittenWithin
    <3>2. QED
      BY <1>2, <1>4, <3>1, Typed DEF Inv
  <2>2. CASE v \notin 1..buffer[g]
    <3>1. g = f /\ v = buffer[f] + 1
      BY <1>3, <2>2, Typed DEF Inv
    <3>2. Len(queue) + 1 \in 1..Len(queue')
      BY <1>2, Typed DEF Inv
    <3>3. QED
      BY <1>2, <3>1, <3>2
  <2>3. QED
    BY <2>1, <2>2
<1>8. Promised' = Promised
  BY <1>4, <1>5 DEF Promised
<1>9. MovesForward'
  <2> SUFFICES ASSUME NEW g \in Files
               PROVE  index'[g] <= Promised'[g] /\ Promised'[g] <= disk'[g] /\ disk'[g] <= buffer'[g]
    BY DEF MovesForward
  <2>1. index[g] <= Promised[g] /\ Promised[g] <= disk[g] /\ disk[g] <= buffer[g]
    BY DEF Inv, MovesForward
  <2>2. disk[g] \in Nat /\ buffer[g] \in Nat /\ buffer[g] <= buffer'[g] /\ buffer'[g] \in Nat
    BY <1>3, Typed DEF Inv
  <2> HIDE DEF w
  <2>3. disk'[g] <= buffer'[g]
    BY <1>4, <2>1, <2>2
  <2>4. QED
    BY <1>4, <1>8, <2>1, <2>3
<1>10. ChainInOrder'
  <2>1. ahead' <= Len(queue')
    BY <1>2, <1>5, Typed DEF Inv, ChainInOrder
  <2>2. \A r \in Requests : \A g \in Files : need'[r][g] <= buffer'[g]
    BY <1>3, <1>5, Typed DEF Inv, ChainInOrder
  <2>3. QED
    BY <1>5, <2>1, <2>2 DEF Inv, ChainInOrder
<1>11. PromisesOwed'
  <2> SUFFICES ASSUME NEW r \in waiting PROVE Owes(behind[r], need[r])'
    BY <1>5 DEF PromisesOwed
  <2>1. Owes(behind[r], need[r])
    BY DEF Inv, PromisesOwed
  <2>2. behind[r] = 0 => Covers(index, need[r])'
    BY <1>4, <1>5, <2>1 DEF Owes, Covers
  <2>3. behind[r] = 1 /\ phase[Chain] = "writes" => WrittenWithin(ahead, need[r])'
    <3> SUFFICES ASSUME behind[r] = 1, phase[Chain] = "writes",
                        NEW g \in Files, NEW v \in 1..need[r][g]
                 PROVE  \/ <<g, v>> \in lost'
                        \/ disk'[g] >= v
                        \/ \E i \in 1..ahead' : queue'[i] = [file |-> g, text |-> v]
      BY <1>5 DEF WrittenWithin
    <3>1. \/ <<g, v>> \in lost
          \/ disk[g] >= v
          \/ \E i \in 1..ahead : queue[i] = [file |-> g, text |-> v]
      BY <2>1 DEF Owes, WrittenWithin
    <3>2. \A i \in 1..ahead : i \in 1..Len(queue)
      BY Typed DEF Inv, ChainInOrder
    <3>3. QED
      BY <1>2, <1>4, <1>5, <3>1, <3>2
  <2>4. behind[r] = 1 /\ phase[Chain] \in {"list", "steps", "oaths", "lock"}
          => Covers(Promised, need[r])'
    BY <1>4, <1>5, <1>8, <2>1 DEF Owes, Covers
  <2>5. QED
    BY <1>5, <2>2, <2>3, <2>4 DEF Owes
<1>12. QED
  BY <1>1, <1>6, <1>7, <1>9, <1>10, <1>11 DEF Inv

\* What the oldest write leaves behind, and what it does if it lands.
LEMMA HeadGone ==
  ASSUME Inv, queue # << >>, HeadSettles
  PROVE  /\ Len(queue) \in Nat \ {0} /\ Len(queue') = Len(queue) - 1
         /\ \A i \in 1..Len(queue') : queue'[i] = queue[i + 1]
         /\ Head(queue) = queue[1]
         /\ queue[1].file \in Files /\ queue[1].text \in Nat
<1>1. queue \in Seq(Writes) /\ Len(queue) \in Nat
  BY Typed DEF Inv
<1>2. Len(queue) # 0
  BY <1>1, EmptySeq
<1>3. /\ Len(queue') = Len(queue) - 1
      /\ \A i \in 1..Len(queue') : queue'[i] = queue[i + 1]
  BY <1>1, HeadTailProperties DEF HeadSettles
<1>4. queue[1].file \in Files /\ queue[1].text \in Nat
  BY <1>1, <1>2, Typed DEF Inv
<1>5. Head(queue) = queue[1]
  BY <1>1
<1>6. QED
  BY <1>1, <1>2, <1>3, <1>4, <1>5

LEMMA LandedForward ==
  ASSUME Inv, WriteLands
  PROVE  /\ lost' = lost
         /\ disk' = [disk EXCEPT ![queue[1].file] = queue[1].text]
         /\ \A f \in Files : disk'[f] \in Nat /\ disk[f] <= disk'[f] /\ disk'[f] <= buffer[f]
<1>1. HeadSettles /\ queue # << >>
  BY DEF WriteLands
<1>2. disk' = [disk EXCEPT ![queue[1].file] = queue[1].text] /\ lost' = lost
  BY <1>1, HeadGone DEF WriteLands
<1>3. disk[queue[1].file] < queue[1].text /\ queue[1].text <= buffer[queue[1].file]
  <2>1. 1 \in 1..Len(queue)
    BY <1>1, HeadGone
  <2>2. QED
    BY <2>1 DEF Inv, QueueInOrder
<1>4. \A f \in Files : disk[f] <= buffer[f]
  BY DEF Inv, MovesForward
<1>5. ASSUME NEW f \in Files
      PROVE  disk'[f] \in Nat /\ disk[f] <= disk'[f] /\ disk'[f] <= buffer[f]
  <2>1. disk'[f] = IF f = queue[1].file THEN queue[1].text ELSE disk[f]
    BY <1>2 DEF Inv, TypeOK, DocTypes
  <2>2. queue[1].text \in Nat
    BY <1>1, HeadGone
  <2>3. QED
    BY <1>3, <1>4, <2>1, <2>2, Typed DEF Inv
<1>6. QED
  BY <1>2, <1>5

\* A text among the first k writes is among the first k - 1 once the oldest has
\* settled, unless it was the oldest, which is now on disk or lost.
LEMMA WrittenSooner ==
  ASSUME Inv, WriteLands \/ WriteFails,
         NEW k \in 0..Len(queue), NEW n, WrittenWithin(k, n),
         NEW f \in Files, NEW v \in 1..n[f], n[f] \in Nat
  PROVE  \/ <<f, v>> \in lost'
         \/ disk'[f] >= v
         \/ \E i \in 1..(IF k > 0 THEN k - 1 ELSE 0) : queue'[i] = [file |-> f, text |-> v]
<1>1. HeadSettles /\ queue # << >>
  BY DEF WriteLands, WriteFails
<1>2. lost \subseteq lost' /\ disk[f] <= disk'[f] /\ disk'[f] \in Nat
  <2>1. CASE WriteLands
    BY <2>1, LandedForward
  <2>2. CASE WriteFails
    BY <2>2, Typed DEF Inv, WriteFails
  <2>3. QED
    BY <2>1, <2>2
<1>3. \/ <<f, v>> \in lost
      \/ disk[f] >= v
      \/ \E i \in 1..k : queue[i] = [file |-> f, text |-> v]
  BY DEF WrittenWithin
<1>4. CASE <<f, v>> \in lost
  BY <1>2, <1>4
<1>5. CASE disk[f] >= v
  BY <1>2, <1>5, Typed DEF Inv
<1>6. CASE \E i \in 1..k : queue[i] = [file |-> f, text |-> v]
  <2> PICK i \in 1..k : queue[i] = [file |-> f, text |-> v]
    BY <1>6
  <2>1. CASE i = 1
    <3>1. queue[1].file = f /\ queue[1].text = v
      BY <2>1
    <3>2. CASE WriteLands
      BY <3>1, <3>2, LandedForward DEF Inv, TypeOK, DocTypes
    <3>3. CASE WriteFails
      BY <1>1, <3>1, <3>3, HeadGone DEF WriteFails
    <3>4. QED
      BY <3>2, <3>3
  <2>2. CASE i # 1
    <3>1. i - 1 \in 1..(k - 1) /\ k > 0
      BY <2>2
    <3>2. i - 1 \in 1..Len(queue')
      BY <1>1, <3>1, HeadGone
    <3>3. queue'[i - 1] = queue[(i - 1) + 1]
      BY <1>1, <3>2, HeadGone
    <3>4. queue'[i - 1] = [file |-> f, text |-> v]
      BY <3>3
    <3>5. QED
      BY <3>1, <3>4
  <2>3. QED
    BY <2>1, <2>2
<1>7. QED
  BY <1>3, <1>4, <1>5, <1>6

\* Owes(d, n) of the next state, d and n as they stand.
OwedAfter(d, n) ==
  /\ d = 0 => \A f \in Files : \A v \in 1..n[f] : <<f, v>> \notin lost' => index'[f] >= v
  /\ d = 1 /\ phase'[Chain] = "writes" =>
       \A f \in Files : \A v \in 1..n[f] :
          \/ <<f, v>> \in lost'
          \/ disk'[f] >= v
          \/ \E i \in 1..ahead' : queue'[i] = [file |-> f, text |-> v]
  /\ d = 1 /\ phase'[Chain] \in {"list", "steps", "oaths", "lock"} =>
       \A f \in Files : \A v \in 1..n[f] : <<f, v>> \notin lost' => Promised'[f] >= v

LEMMA OwedNext ==
  ASSUME \A r \in waiting' : OwedAfter(behind'[r], need'[r]),
         ~dirty' => OwedAfter(chain', buffer')
  PROVE  PromisesOwed'
BY DEF PromisesOwed, Owes, OwedAfter, Covers, WrittenWithin

LEMMA WriteInv ==
  ASSUME Inv, WriteLands \/ WriteFails
  PROVE  Inv'
<1>1. TypeOK'
  BY TypedWrite DEF Inv
<1>2. HeadSettles /\ queue # << >>
  BY DEF WriteLands, WriteFails
<1>3. /\ UNCHANGED <<buffer, index, phase, listed, seen, chain, poisoned, dirty>>
      /\ UNCHANGED <<waiting, behind, need>>
      /\ ahead' = IF ahead > 0 THEN ahead - 1 ELSE 0
  BY <1>2 DEF HeadSettles, chainVars, reqVars
<1>4. /\ lost \subseteq lost'
      /\ \A f \in Files : disk'[f] \in Nat /\ disk[f] <= disk'[f] /\ disk'[f] <= buffer[f]
  <2>1. CASE WriteLands
    BY <2>1, LandedForward
  <2>2. CASE WriteFails
    BY <2>2, Typed DEF Inv, WriteFails, MovesForward
  <2>3. QED
    BY <2>1, <2>2
<1>5. \A i \in 1..Len(queue') : /\ i + 1 \in 1..Len(queue)
                                /\ queue'[i] = queue[i + 1]
                                /\ queue'[i].file \in Files /\ queue'[i].text \in Nat
  BY <1>2, HeadGone, Typed DEF Inv
<1>6. QueueInOrder'
  <2>1. ASSUME NEW i \in 1..Len(queue')
        PROVE  disk'[queue'[i].file] < queue'[i].text /\ queue'[i].text <= buffer'[queue'[i].file]
    <3>1. /\ disk[queue'[i].file] < queue'[i].text
          /\ queue'[i].text <= buffer[queue'[i].file]
      BY <1>5 DEF Inv, QueueInOrder
    <3>2. CASE disk'[queue'[i].file] = disk[queue'[i].file]
      BY <1>3, <3>1, <3>2
    <3>3. CASE disk'[queue'[i].file] # disk[queue'[i].file]
      <4>1. WriteLands
        BY <3>3 DEF WriteFails
      <4>2. queue'[i].file = queue[1].file /\ disk'[queue'[i].file] = queue[1].text
        BY <1>5, <3>3, <4>1, LandedForward DEF Inv, TypeOK, DocTypes
      <4>3. 1 \in 1..Len(queue) /\ i + 1 \in 1..Len(queue) /\ 1 < i + 1
        BY <1>2, <1>5, HeadGone
      <4>4. queue[1].text < queue[i + 1].text
        BY <1>5, <4>2, <4>3 DEF Inv, QueueInOrder
      <4>5. QED
        BY <1>3, <1>5, <3>1, <4>2, <4>4
    <3>4. QED
      BY <3>2, <3>3
  <2>2. ASSUME NEW i \in 1..Len(queue'), NEW j \in 1..Len(queue'),
               i < j, queue'[i].file = queue'[j].file
        PROVE  queue'[i].text < queue'[j].text
    <3>1. i + 1 \in 1..Len(queue) /\ j + 1 \in 1..Len(queue) /\ i + 1 < j + 1
      BY <1>5, <2>2
    <3>2. queue[i + 1].file = queue[j + 1].file
      BY <1>5, <2>2
    <3>3. queue[i + 1].text < queue[j + 1].text
      BY <3>1, <3>2 DEF Inv, QueueInOrder
    <3>4. QED
      BY <1>5, <3>3
  <2>3. QED
    BY <2>1, <2>2 DEF QueueInOrder
<1>7. WrittenWithin(Len(queue), buffer)'
  <2> SUFFICES ASSUME NEW f \in Files, NEW v \in 1..buffer[f]
               PROVE  \/ <<f, v>> \in lost'
                      \/ disk'[f] >= v
                      \/ \E i \in 1..Len(queue') : queue'[i] = [file |-> f, text |-> v]
    BY <1>3 DEF WrittenWithin
  <2>1. Len(queue) \in 0..Len(queue) /\ buffer[f] \in Nat
    BY Typed DEF Inv
  <2>2. WrittenWithin(Len(queue), buffer)
    BY DEF Inv
  <2>3. Len(queue') = IF Len(queue) > 0 THEN Len(queue) - 1 ELSE 0
    BY <1>2, HeadGone
  <2>4. QED
    BY <2>1, <2>2, <2>3, WrittenSooner
<1>8. \A f \in Files : /\ Promised'[f] \in Nat /\ Promised[f] \in Nat
                       /\ Promised[f] <= Promised'[f] /\ Promised'[f] <= disk'[f]
  <2>1. \A f \in Files : Promised[f] <= disk[f]
    BY DEF Inv, MovesForward
  <2> TAKE f \in Files
  <2>2. /\ disk[f] \in Nat /\ disk'[f] \in Nat /\ disk[f] <= disk'[f]
        /\ index[f] \in Nat /\ seen[Chain][f] \in Nat
        /\ phase' = phase /\ listed' = listed /\ seen' = seen /\ index' = index
    BY <1>3, <1>4, Typed DEF Inv
  <2>3. Promised[f] <= disk[f]
    BY <2>1
  <2>4. CASE phase[Chain] = "steps"
    BY <2>2, <2>3, <2>4 DEF Promised
  <2>5. CASE phase[Chain] = "oaths"
    BY <2>2, <2>3, <2>5 DEF Promised
  <2>6. CASE phase[Chain] = "lock"
    BY <2>2, <2>3, <2>6 DEF Promised
  <2>7. CASE phase[Chain] \notin {"steps", "oaths", "lock"}
    BY <2>2, <2>3, <2>7 DEF Promised
  <2>8. QED
    BY <2>4, <2>5, <2>6, <2>7
<1>9. MovesForward'
  BY <1>3, <1>4, <1>8, Typed DEF Inv, MovesForward
<1>10. ChainInOrder'
  <2>1. ahead' <= Len(queue')
    BY <1>2, <1>3, HeadGone, Typed DEF Inv, ChainInOrder
  <2>2. QED
    BY <1>3, <2>1 DEF Inv, ChainInOrder
<1>11. ASSUME NEW d, NEW n \in Texts, Owes(d, n) PROVE OwedAfter(d, n)
  <2>1. d = 0 => \A f \in Files : \A v \in 1..n[f] : <<f, v>> \notin lost' => index'[f] >= v
    BY <1>3, <1>4, <1>11 DEF Owes, Covers
  <2>2. ASSUME d = 1, phase[Chain] = "writes", NEW f \in Files, NEW v \in 1..n[f]
        PROVE  \/ <<f, v>> \in lost'
               \/ disk'[f] >= v
               \/ \E i \in 1..ahead' : queue'[i] = [file |-> f, text |-> v]
    <3>1. WrittenWithin(ahead, n)
      BY <1>11, <2>2 DEF Owes
    <3>2. ahead \in 0..Len(queue) /\ n[f] \in Nat
      BY Typed DEF Inv, ChainInOrder
    <3>3. QED
      BY <1>3, <3>1, <3>2, WrittenSooner
  <2>3. ASSUME d = 1, phase[Chain] \in {"list", "steps", "oaths", "lock"},
               NEW f \in Files, NEW v \in 1..n[f], <<f, v>> \notin lost'
        PROVE  Promised'[f] >= v
    <3>1. Promised[f] >= v
      BY <1>4, <1>11, <2>3 DEF Owes, Covers
    <3>2. QED
      BY <1>8, <3>1
  <2>4. QED
    BY <1>3, <2>1, <2>2, <2>3 DEF OwedAfter
<1>12. PromisesOwed'
  <2>1. ASSUME NEW r \in waiting' PROVE OwedAfter(behind'[r], need'[r])
    <3>1. Owes(behind[r], need[r]) /\ need[r] \in Texts
      BY <1>3 DEF Inv, PromisesOwed, TypeOK, RequestTypes
    <3>2. OwedAfter(behind[r], need[r])
      BY <1>11, <3>1
    <3>3. QED
      BY <1>3, <3>2
  <2>2. ASSUME ~dirty' PROVE OwedAfter(chain', buffer')
    <3>1. Owes(chain, buffer) /\ buffer \in Texts
      BY <1>3, <2>2 DEF Inv, PromisesOwed, TypeOK, DocTypes
    <3>2. OwedAfter(chain, buffer)
      BY <1>11, <3>1
    <3>3. QED
      BY <1>3, <3>2
  <2>3. QED
    BY <2>1, <2>2, OwedNext
<1>13. QED
  BY <1>1, <1>6, <1>7, <1>9, <1>10, <1>12 DEF Inv


\* A promise as far away as before, for the same texts, still owes them.
LEMMA StaysOwed ==
  ASSUME Inv, UNCHANGED <<buffer, dirty, chain, waiting, behind, need>>,
         ASSUME NEW d, NEW n \in Texts, Owes(d, n), \A f \in Files : n[f] <= buffer[f]
         PROVE  OwedAfter(d, n)
  PROVE  PromisesOwed'
<1>1. ASSUME NEW r \in waiting' PROVE OwedAfter(behind'[r], need'[r])
  <2>1. Owes(behind[r], need[r]) /\ need[r] \in Texts
    BY DEF Inv, PromisesOwed, TypeOK, RequestTypes
  <2>2. \A f \in Files : need[r][f] <= buffer[f]
    BY DEF Inv, ChainInOrder, TypeOK, RequestTypes
  <2>3. OwedAfter(behind[r], need[r])
    BY <2>1, <2>2
  <2>4. QED
    BY <2>3
<1>2. ASSUME ~dirty' PROVE OwedAfter(chain', buffer')
  <2>1. Owes(chain, buffer) /\ buffer \in Texts
    BY <1>2 DEF Inv, PromisesOwed, TypeOK, DocTypes
  <2>2. \A f \in Files : buffer[f] <= buffer[f]
    BY <2>1
  <2>3. OwedAfter(chain, buffer)
    BY <2>1, <2>2
  <2>4. QED
    BY <2>3
<1>3. QED
  BY <1>1, <1>2, OwedNext

\* What is owed does not depend on the requests and the links of the chain.
LEMMA OwedMeanwhile ==
  ASSUME UNCHANGED <<docVars, runVars, index>>, NEW d, NEW n, Owes(d, n)
  PROVE  OwedAfter(d, n)
<1>1. UNCHANGED <<disk, lost, queue, phase, ahead, listed, seen, index>>
  BY DEF docVars, runVars
<1>2. Promised' = Promised
  BY <1>1 DEF Promised
<1>3. QED
  BY <1>1, <1>2 DEF Owes, OwedAfter, Covers, WrittenWithin

\* The promise settled() returns owes every text the editor has sent.
LEMMA SettledOwes ==
  ASSUME Inv
  PROVE  Owes(SettledTail, buffer) /\ SettledTail \in Nat /\ SettledTail >= chain
<1>1. CASE ~dirty
  BY <1>1, Typed DEF Inv, PromisesOwed, SettledTail
<1>2. CASE dirty
  <2>1. SettledTail = chain + 1 /\ chain \in Nat
    BY <1>2, Typed DEF Inv, SettledTail
  <2>2. SettledTail = 1 => phase[Chain] = "idle"
    BY <2>1 DEF Inv, ChainInOrder
  <2>3. QED
    BY <2>1, <2>2 DEF Owes
<1>3. QED
  BY <1>1, <1>2

\* The parts of Inv that speak of texts, where a step leaves all of them alone.
LEMMA TextsMeanwhile ==
  ASSUME Inv, UNCHANGED <<docVars, runVars, index>>
  PROVE  /\ QueueInOrder' /\ WrittenWithin(Len(queue), buffer)'
         /\ MovesForward'
<1>1. UNCHANGED <<buffer, disk, lost, queue, phase, ahead, listed, seen, index>>
  BY DEF docVars, runVars
<1>2. Promised' = Promised
  BY <1>1 DEF Promised
<1>3. QueueInOrder' /\ WrittenWithin(Len(queue), buffer)'
  BY <1>1 DEF Inv, QueueInOrder, WrittenWithin
<1>4. MovesForward'
  BY <1>1, <1>2 DEF Inv, MovesForward
<1>5. QED
  BY <1>3, <1>4

LEMMA TimerInv ==
  ASSUME Inv, TimerFires
  PROVE  Inv'
<1>1. TypeOK'
  BY TypedTimer DEF Inv
<1>2. UNCHANGED <<docVars, poisoned, runVars, index, reqVars>> /\ chain' = SettledTail
  BY DEF TimerFires, Settled
<1>3. ChainInOrder'
  <2>1. UNCHANGED <<poisoned, phase, ahead, queue, seen, listed, behind, need, buffer>>
    BY <1>2 DEF docVars, runVars, reqVars
  <2>2. chain' >= chain /\ chain \in Nat /\ chain' \in Nat
    BY <1>2, SettledOwes, Typed DEF Inv
  <2>3. \A r \in Requests : behind[r] <= chain /\ behind[r] \in Nat
    BY Typed DEF Inv, ChainInOrder
  <2>4. (phase[Chain] # "idle" => chain' > 0) /\ \A r \in Requests : behind[r] <= chain'
    BY <2>2, <2>3 DEF Inv, ChainInOrder
  <2>5. QED
    BY <2>1, <2>4 DEF Inv, ChainInOrder
<1>4. PromisesOwed'
  <2>1. UNCHANGED <<waiting, behind, need, buffer>>
    BY <1>2 DEF docVars, reqVars
  <2>2. ASSUME NEW r \in waiting' PROVE OwedAfter(behind'[r], need'[r])
    <3>1. Owes(behind[r], need[r])
      BY <2>1 DEF Inv, PromisesOwed
    <3>2. OwedAfter(behind[r], need[r])
      BY <1>2, <3>1, OwedMeanwhile
    <3>3. QED
      BY <2>1, <3>2
  <2>3. OwedAfter(SettledTail, buffer)
    BY <1>2, SettledOwes, OwedMeanwhile
  <2>4. QED
    BY <1>2, <2>1, <2>2, <2>3, OwedNext
<1>5. QED
  BY <1>1, <1>2, <1>3, <1>4, TextsMeanwhile DEF Inv

LEMMA ArrivalInv ==
  ASSUME Inv, NEW q \in Requests, RequestArrives(q)
  PROVE  Inv'
<1>1. TypeOK'
  BY TypedArrival DEF Inv
<1>2. /\ UNCHANGED <<docVars, poisoned, runVars, index>> /\ chain' = SettledTail
      /\ waiting' = waiting \cup {q}
      /\ behind'[q] = SettledTail /\ \A r \in Requests : r # q => behind'[r] = behind[r]
      /\ need'[q] = buffer /\ \A r \in Requests : r # q => need'[r] = need[r]
  BY DEF RequestArrives, Settled, Inv, TypeOK, RequestTypes
<1>3. UNCHANGED <<poisoned, phase, ahead, queue, seen, listed, buffer>>
  BY <1>2 DEF docVars, runVars
<1>4. ChainInOrder'
  <2>1. chain' >= chain /\ chain \in Nat /\ chain' \in Nat
    BY <1>2, SettledOwes, Typed DEF Inv
  <2>2. \A r \in Requests : behind[r] <= chain /\ behind[r] \in Nat
    BY Typed DEF Inv, ChainInOrder
  <2>3. (phase[Chain] # "idle" => chain' > 0) /\ \A r \in Requests : behind'[r] <= chain'
    BY <1>2, <2>1, <2>2 DEF Inv, ChainInOrder
  <2>4. ASSUME NEW r \in Requests, NEW f \in Files PROVE need'[r][f] <= buffer'[f]
    <3>1. buffer[f] \in Nat /\ need[r][f] <= buffer[f]
      BY Typed DEF Inv, ChainInOrder
    <3>2. QED
      BY <1>2, <1>3, <3>1
  <2>5. QED
    BY <1>3, <2>3, <2>4 DEF Inv, ChainInOrder
<1>5. PromisesOwed'
  <2>1. OwedAfter(SettledTail, buffer)
    BY <1>2, SettledOwes, OwedMeanwhile
  <2>2. ASSUME NEW r \in waiting' PROVE OwedAfter(behind'[r], need'[r])
    <3>1. CASE r = q
      BY <1>2, <2>1, <3>1
    <3>2. CASE r # q
      <4>1. Owes(behind[r], need[r]) /\ r \in Requests
        BY <1>2, <3>2 DEF Inv, PromisesOwed, TypeOK, RequestTypes
      <4>2. OwedAfter(behind[r], need[r])
        BY <1>2, <4>1, OwedMeanwhile
      <4>3. QED
        BY <1>2, <3>2, <4>1, <4>2
    <3>3. QED
      BY <3>1, <3>2
  <2>3. QED
    BY <1>2, <1>3, <2>1, <2>2, OwedNext
<1>6. QED
  BY <1>1, <1>2, <1>4, <1>5, TextsMeanwhile DEF Inv

LEMMA ResumptionInv ==
  ASSUME Inv, NEW q \in Requests, RequestResumes(q)
  PROVE  Inv'
<1>1. TypeOK'
  BY TypedResumption DEF Inv
<1>2. /\ UNCHANGED <<docVars, chainVars, runVars, index>>
      /\ waiting' = waiting \ {q}
      /\ behind'[q] = 0 /\ \A r \in Requests : r # q => behind'[r] = behind[r]
      /\ need'[q] = NoTexts /\ \A r \in Requests : r # q => need'[r] = need[r]
  BY DEF RequestResumes, Inv, TypeOK, RequestTypes
<1>3. UNCHANGED <<poisoned, phase, ahead, queue, seen, listed, buffer, chain, dirty>>
  BY <1>2 DEF docVars, runVars, chainVars
<1>4. ChainInOrder'
  <2>1. \A r \in Requests : behind'[r] <= chain
    BY <1>2, Typed DEF Inv, ChainInOrder
  <2>2. ASSUME NEW r \in Requests, NEW f \in Files PROVE need'[r][f] <= buffer[f]
    <3>1. buffer[f] \in Nat /\ need[r][f] <= buffer[f]
      BY Typed DEF Inv, ChainInOrder
    <3>2. QED
      BY <1>2, <3>1
  <2>3. QED
    BY <1>3, <2>1, <2>2 DEF Inv, ChainInOrder
<1>5. PromisesOwed'
  <2>1. ASSUME NEW r \in waiting' PROVE OwedAfter(behind'[r], need'[r])
    <3>1. Owes(behind[r], need[r]) /\ r \in Requests /\ r # q
      BY <1>2 DEF Inv, PromisesOwed, TypeOK, RequestTypes
    <3>2. OwedAfter(behind[r], need[r])
      BY <1>2, <3>1, OwedMeanwhile
    <3>3. QED
      BY <1>2, <3>1, <3>2
  <2>2. ASSUME ~dirty' PROVE OwedAfter(chain', buffer')
    <3>1. Owes(chain, buffer)
      BY <1>3, <2>2 DEF Inv, PromisesOwed
    <3>2. QED
      BY <1>2, <1>3, <3>1, OwedMeanwhile
  <2>3. QED
    BY <2>1, <2>2, OwedNext
<1>6. QED
  BY <1>1, <1>2, <1>4, <1>5, TextsMeanwhile DEF Inv

\* A link that starts awaits every write chained so far, and with them every
\* text the editor has sent.
LEMMA LinkInv ==
  ASSUME Inv, LinkStarts
  PROVE  Inv'
<1>1. TypeOK'
  BY TypedLink DEF Inv
<1>2. /\ UNCHANGED <<buffer, disk, lost, queue, chain, poisoned, dirty, listed, seen>>
      /\ UNCHANGED <<index, waiting, behind, need>>
      /\ ahead' = Len(queue) /\ chain > 0
      /\ phase[Chain] = "idle" /\ phase'[Chain] = "writes"
  BY DEF LinkStarts, docVars, chainVars, reqVars, Inv, TypeOK, RunTypes
<1>3. Promised' = Promised
  BY <1>2 DEF Promised
<1>4. QueueInOrder' /\ WrittenWithin(Len(queue), buffer)'
  BY <1>2 DEF Inv, QueueInOrder, WrittenWithin
<1>5. MovesForward'
  BY <1>2, <1>3 DEF Inv, MovesForward
<1>6. ChainInOrder'
  BY <1>2, Typed DEF Inv, ChainInOrder
<1>7. PromisesOwed'
  <2>1. ASSUME NEW d, NEW n \in Texts, Owes(d, n), \A f \in Files : n[f] <= buffer[f]
        PROVE  OwedAfter(d, n)
    <3>1. d = 0 => \A f \in Files : \A v \in 1..n[f] : <<f, v>> \notin lost' => index'[f] >= v
      BY <1>2, <2>1 DEF Owes, Covers
    <3>2. ASSUME NEW f \in Files, NEW v \in 1..n[f]
          PROVE  \/ <<f, v>> \in lost'
                 \/ disk'[f] >= v
                 \/ \E i \in 1..ahead' : queue'[i] = [file |-> f, text |-> v]
      <4>1. v \in 1..buffer[f]
        BY <2>1, Typed DEF Inv
      <4>2. QED
        BY <1>2, <4>1 DEF Inv, WrittenWithin
    <3>3. QED
      BY <1>2, <3>1, <3>2 DEF OwedAfter
  <2>2. QED
    BY <1>2, <2>1, StaysOwed
<1>8. QED
  BY <1>1, <1>4, <1>5, <1>6, <1>7 DEF Inv

\* Once no write is left ahead, what was promised is on disk.
LEMMA AwaitedInv ==
  ASSUME Inv, WritesAwaited
  PROVE  Inv'
<1>1. TypeOK'
  BY TypedLink DEF Inv
<1>2. /\ UNCHANGED <<buffer, disk, lost, queue, chain, poisoned, dirty, ahead, listed, seen>>
      /\ UNCHANGED <<index, waiting, behind, need>>
      /\ ahead = 0
      /\ phase[Chain] = "writes" /\ phase'[Chain] = "list"
  BY DEF WritesAwaited, docVars, chainVars, reqVars, Inv, TypeOK, RunTypes
<1>3. Promised' = Promised /\ \A f \in Files : Promised[f] = disk[f]
  BY <1>2 DEF Promised
<1>4. QueueInOrder' /\ WrittenWithin(Len(queue), buffer)'
  BY <1>2 DEF Inv, QueueInOrder, WrittenWithin
<1>5. MovesForward'
  BY <1>2, <1>3 DEF Inv, MovesForward
<1>6. ChainInOrder'
  BY <1>2 DEF Inv, ChainInOrder
<1>7. PromisesOwed'
  <2>1. ASSUME NEW d, NEW n \in Texts, Owes(d, n), \A f \in Files : n[f] <= buffer[f]
        PROVE  OwedAfter(d, n)
    <3>1. d = 0 => \A f \in Files : \A v \in 1..n[f] : <<f, v>> \notin lost' => index'[f] >= v
      BY <1>2, <2>1 DEF Owes, Covers
    <3>2. ASSUME d = 1, NEW f \in Files, NEW v \in 1..n[f], <<f, v>> \notin lost'
          PROVE  Promised'[f] >= v
      BY <1>2, <1>3, <2>1, <3>2 DEF Owes, WrittenWithin
    <3>3. QED
      BY <1>2, <3>1, <3>2 DEF OwedAfter
  <2>2. QED
    BY <1>2, <2>1, StaysOwed
<1>8. QED
  BY <1>1, <1>4, <1>5, <1>6, <1>7 DEF Inv

\* A step of the reading that changes what was listed or read, and not what is
\* promised.
LEMMA ReadingKeeps ==
  ASSUME Inv, UNCHANGED <<docVars, chainVars, ahead, index, reqVars>>,
         Promised' = Promised,
         phase[Chain] \in {"list", "steps"}, phase'[Chain] \in {"steps", "oaths"}
  PROVE  /\ QueueInOrder' /\ WrittenWithin(Len(queue), buffer)'
         /\ MovesForward' /\ PromisesOwed'
<1>1. /\ UNCHANGED <<buffer, disk, lost, queue, chain, poisoned, dirty, ahead>>
      /\ UNCHANGED <<index, waiting, behind, need>>
  BY DEF docVars, chainVars, reqVars
<1>2. QueueInOrder' /\ WrittenWithin(Len(queue), buffer)'
  BY <1>1 DEF Inv, QueueInOrder, WrittenWithin
<1>3. MovesForward'
  BY <1>1 DEF Inv, MovesForward
<1>4. PromisesOwed'
  <2>1. ASSUME NEW d, NEW n \in Texts, Owes(d, n), \A f \in Files : n[f] <= buffer[f]
        PROVE  OwedAfter(d, n)
    BY <1>1, <2>1 DEF Owes, OwedAfter, Covers
  <2>2. QED
    BY <1>1, <2>1, StaysOwed
<1>5. QED
  BY <1>2, <1>3, <1>4

LEMMA ListInv ==
  ASSUME Inv, ListFiles(Chain)
  PROVE  Inv'
<1>1. TypeOK'
  BY TypedReindex, Typed DEF Inv, Reindexing, ListFiles
<1>2. /\ UNCHANGED <<docVars, chainVars, ahead, seen, index, reqVars>>
      /\ phase[Chain] = "list" /\ phase'[Chain] = "steps"
      /\ listed'[Chain] = {f \in Files : disk[f] > 0}
  BY Typed DEF ListFiles, Inv, TypeOK, RunTypes
<1>3. UNCHANGED <<buffer, disk, queue, chain, poisoned, ahead, seen, index, behind, need>>
  BY <1>2 DEF docVars, chainVars, reqVars
<1>4. ASSUME NEW f \in Files PROVE Promised'[f] = Promised[f]
  <2>1. Promised[f] = disk[f] /\ disk[f] \in Nat
    BY <1>2, Typed DEF Promised, Inv
  <2>2. Promised'[f] = IF f \in listed'[Chain] THEN disk[f] ELSE 0
    BY <1>2, <1>3 DEF Promised
  <2>3. QED
    BY <1>2, <2>1, <2>2
<1>5. Promised' = Promised
  BY <1>4 DEF Promised
<1>6. ChainInOrder'
  BY <1>2, <1>3 DEF Inv, ChainInOrder
<1>7. QED
  BY <1>1, <1>2, <1>5, <1>6, ReadingKeeps DEF Inv

LEMMA ReadStepsInv ==
  ASSUME Inv, ReadSteps(Chain)
  PROVE  Inv'
<1>1. TypeOK'
  BY TypedReindex, Typed DEF Inv, Reindexing, ReadSteps
<1>2. /\ UNCHANGED <<docVars, chainVars, ahead, listed, index, reqVars>>
      /\ phase[Chain] = "steps" /\ phase'[Chain] = "oaths"
      /\ \A f \in Files : seen'[Chain][f] =
            IF f \in listed[Chain] \cap StepFiles THEN disk[f] ELSE seen[Chain][f]
  BY Typed DEF ReadSteps, ReadSources, Inv, TypeOK, RunTypes
<1>3. UNCHANGED <<buffer, disk, queue, chain, poisoned, ahead, listed, index, behind, need>>
  BY <1>2 DEF docVars, chainVars, reqVars
<1>4. \A f \in Files : seen[Chain][f] = 0
  BY <1>2 DEF Inv, ChainInOrder
<1>5. ASSUME NEW f \in Files PROVE Promised'[f] = Promised[f]
  <2>1. Promised[f] = IF f \in listed[Chain] THEN disk[f] ELSE 0
    BY <1>2 DEF Promised
  <2>2. Promised'[f] = IF f \in StepFiles THEN seen'[Chain][f]
                       ELSE IF f \in listed[Chain] THEN disk[f] ELSE 0
    BY <1>2, <1>3 DEF Promised
  <2>3. seen'[Chain][f] = IF f \in listed[Chain] \cap StepFiles THEN disk[f] ELSE 0
    BY <1>2, <1>4
  <2>4. QED
    BY <2>1, <2>2, <2>3
<1>6. Promised' = Promised
  BY <1>5 DEF Promised
<1>7. ChainInOrder'
  <2>1. \A f \in Oaths : seen'[Chain][f] = 0
    BY <1>2, <1>4, PathsAssumption
  <2>2. \A f \in StepFiles : f \notin listed[Chain] => seen'[Chain][f] = 0
    BY <1>2, <1>4
  <2>3. QED
    BY <1>2, <1>3, <2>1, <2>2 DEF Inv, ChainInOrder
<1>8. QED
  BY <1>1, <1>2, <1>6, <1>7, ReadingKeeps DEF Inv

\* What ReadOathsAndBuild makes of the index.
LEMMA BuiltForward ==
  ASSUME Inv, ReadOathsAndBuild(Chain)
  PROVE  /\ phase[Chain] = "oaths" /\ index' = seen'[Chain]
         /\ phase'[Chain] = "lock"
         /\ \A f \in Files : index'[f] = Promised[f]
         /\ \A f \in Files : index'[f] \in Nat /\ index[f] <= index'[f] /\ index'[f] <= disk[f]
<1>1. /\ phase[Chain] = "oaths" /\ index' = seen'[Chain]
      /\ phase'[Chain] = "lock"
      /\ \A f \in Files : seen'[Chain][f] =
            IF f \in listed[Chain] \cap Oaths THEN disk[f] ELSE seen[Chain][f]
  BY Typed DEF ReadOathsAndBuild, ReadSources, Inv, TypeOK, RunTypes
<1>2. ASSUME NEW f \in Files PROVE index'[f] = Promised[f]
  <2>1. Promised[f] = IF f \in StepFiles THEN seen[Chain][f]
                      ELSE IF f \in listed[Chain] THEN disk[f] ELSE 0
    BY <1>1 DEF Promised
  <2>2. CASE f \in StepFiles
    BY <1>1, <2>1, <2>2, PathsAssumption
  <2>3. CASE f \in Oaths
    <3>1. seen[Chain][f] = 0 /\ f \notin StepFiles
      BY <1>1, <2>3, PathsAssumption DEF Inv, ChainInOrder
    <3>2. QED
      BY <1>1, <2>1, <2>3, <3>1
  <2>4. QED
    BY <2>2, <2>3
<1>3. ASSUME NEW f \in Files
      PROVE  index'[f] \in Nat /\ index[f] <= index'[f] /\ index'[f] <= disk[f]
  <2>1. index[f] <= Promised[f] /\ Promised[f] <= disk[f]
    BY DEF Inv, MovesForward
  <2>2. index'[f] \in Nat
    BY <1>1, Typed DEF Inv
  <2>3. QED
    BY <1>2, <2>1, <2>2
<1>4. QED
  BY <1>1, <1>2, <1>3

LEMMA BuildInv ==
  ASSUME Inv, ReadOathsAndBuild(Chain)
  PROVE  Inv'
<1>1. TypeOK'
  BY TypedReindex, Typed, BuiltForward DEF Inv, Reindexing
<1>2. UNCHANGED <<docVars, chainVars, ahead, listed, reqVars>>
  BY DEF ReadOathsAndBuild
<1>3. /\ UNCHANGED <<buffer, disk, lost, queue, chain, poisoned, dirty, ahead, listed>>
      /\ UNCHANGED <<waiting, behind, need>>
  BY <1>2 DEF docVars, chainVars, reqVars
<1>4. \A f \in Files : Promised'[f] = index'[f]
  BY BuiltForward DEF Promised
<1>5. QueueInOrder' /\ WrittenWithin(Len(queue), buffer)'
  BY <1>3 DEF Inv, QueueInOrder, WrittenWithin
<1>6. MovesForward'
  <2> SUFFICES ASSUME NEW f \in Files
               PROVE  index'[f] <= Promised'[f] /\ Promised'[f] <= disk'[f] /\ disk'[f] <= buffer'[f]
    BY DEF MovesForward
  <2>1. disk[f] <= buffer[f]
    BY DEF Inv, MovesForward
  <2>2. QED
    BY <1>3, <1>4, <2>1, BuiltForward
<1>7. ChainInOrder'
  BY <1>3, BuiltForward DEF Inv, ChainInOrder
<1>8. PromisesOwed'
  <2>1. ASSUME NEW d, NEW n \in Texts, Owes(d, n), \A f \in Files : n[f] <= buffer[f]
        PROVE  OwedAfter(d, n)
    <3>1. ASSUME d = 0, NEW f \in Files, NEW v \in 1..n[f], <<f, v>> \notin lost'
          PROVE  index'[f] >= v
      <4>1. index[f] >= v
        BY <1>3, <2>1, <3>1 DEF Owes, Covers
      <4>2. QED
        BY <4>1, BuiltForward, Typed DEF Inv
    <3>2. ASSUME d = 1, NEW f \in Files, NEW v \in 1..n[f], <<f, v>> \notin lost'
          PROVE  Promised'[f] >= v
      <4>1. Promised[f] >= v
        BY <1>3, <2>1, <3>2, BuiltForward DEF Owes, Covers
      <4>2. QED
        BY <1>4, <4>1, BuiltForward
    <3>3. QED
      BY <3>1, <3>2, BuiltForward DEF OwedAfter
  <2>2. QED
    BY <1>3, <2>1, StaysOwed
<1>9. QED
  BY <1>1, <1>5, <1>6, <1>7, <1>8 DEF Inv

\* The last step of a link: every promise is one link closer.
LEMMA AppendInv ==
  ASSUME Inv, ReadLockFile(Chain)
  PROVE  Inv'
<1>1. phase[Chain] = "lock" /\ chain > 0
  BY DEF ReadLockFile, Inv, ChainInOrder
<1>2. TypeOK'
  BY <1>1, TypedReindex, Typed DEF Inv, Reindexing
<1>3. /\ UNCHANGED <<docVars, timer, dirty, ahead, waiting, need, index, poisoned>>
      /\ phase'[Chain] = "idle" /\ seen'[Chain] = NoTexts
      /\ chain' = chain - 1
      /\ behind' = [r \in Requests |-> IF behind[r] > 0 THEN behind[r] - 1 ELSE 0]
  BY Typed DEF ReadLockFile, Over, Inv, TypeOK, RunTypes
<1>4. UNCHANGED <<buffer, disk, lost, queue>>
  BY <1>3 DEF docVars
<1>5. \A f \in Files : Promised[f] = index[f] /\ Promised'[f] = disk[f]
  BY <1>1, <1>3, <1>4 DEF Promised
<1>6. QueueInOrder' /\ WrittenWithin(Len(queue), buffer)'
  BY <1>4 DEF Inv, QueueInOrder, WrittenWithin
<1>7. MovesForward'
  <2> SUFFICES ASSUME NEW f \in Files
               PROVE  index'[f] <= Promised'[f] /\ Promised'[f] <= disk'[f] /\ disk'[f] <= buffer'[f]
    BY DEF MovesForward
  <2>1. index[f] <= Promised[f] /\ Promised[f] <= disk[f] /\ disk[f] <= buffer[f]
    BY DEF Inv, MovesForward
  <2>2. QED
    BY <1>3, <1>4, <1>5, <2>1, Typed DEF Inv
<1>8. ChainInOrder'
  <2>1. \A r \in Requests : behind'[r] <= chain'
    BY <1>1, <1>3, Typed DEF Inv, ChainInOrder
  <2>2. \A r \in Requests : \A f \in Files : need'[r][f] <= buffer'[f]
    BY <1>3, <1>4 DEF Inv, ChainInOrder
  <2>3. QED
    BY <1>3, <1>4, <2>1, <2>2 DEF Inv, ChainInOrder
<1>9. ASSUME NEW d \in Nat, NEW e \in Nat, NEW n, Owes(d, n),
              e = IF d > 0 THEN d - 1 ELSE 0
       PROVE  OwedAfter(e, n)
  <2>1. ASSUME e = 0, NEW f \in Files, NEW v \in 1..n[f], <<f, v>> \notin lost'
        PROVE  index'[f] >= v
    <3>1. d = 0 \/ d = 1
      BY <1>9, <2>1
    <3>2. CASE d = 0
      BY <1>3, <1>4, <1>9, <2>1, <3>2 DEF Owes, Covers
    <3>3. CASE d = 1
      <4>1. Promised[f] >= v
        BY <1>1, <1>4, <1>9, <2>1, <3>3 DEF Owes, Covers
      <4>2. QED
        BY <1>3, <1>5, <4>1
    <3>4. QED
      BY <3>1, <3>2, <3>3
  <2>2. QED
    BY <1>3, <2>1 DEF OwedAfter
<1>10. PromisesOwed'
  <2>1. ASSUME NEW r \in waiting' PROVE OwedAfter(behind'[r], need'[r])
    <3>1. Owes(behind[r], need[r]) /\ r \in Requests
      BY <1>3 DEF Inv, PromisesOwed, TypeOK, RequestTypes
    <3>2. /\ behind[r] \in Nat /\ behind'[r] \in Nat
          /\ behind'[r] = IF behind[r] > 0 THEN behind[r] - 1 ELSE 0
      BY <1>3, <3>1, Typed DEF Inv
    <3>3. QED
      BY <1>3, <1>9, <3>1, <3>2
  <2>2. ASSUME ~dirty' PROVE OwedAfter(chain', buffer')
    <3>1. Owes(chain, buffer)
      BY <1>3, <2>2 DEF Inv, PromisesOwed
    <3>2. chain \in Nat /\ chain' \in Nat /\ chain' = IF chain > 0 THEN chain - 1 ELSE 0
      BY <1>1, <1>3, Typed DEF Inv
    <3>3. QED
      BY <1>4, <1>9, <3>1, <3>2
  <2>3. QED
    BY <2>1, <2>2, OwedNext
<1>11. QED
  BY <1>2, <1>6, <1>7, <1>8, <1>10 DEF Inv

LEMMA StutterInv ==
  ASSUME Inv, UNCHANGED vars
  PROVE  Inv'
<1>1. UNCHANGED <<docVars, chainVars, runVars, index, reqVars>>
  BY DEF vars
<1>2. TypeOK'
  BY <1>1, Unchanged DEF Inv, TypeOK
<1>3. /\ UNCHANGED <<chain, poisoned, dirty, phase, ahead, queue, seen, listed>>
      /\ UNCHANGED <<buffer, waiting, behind, need>>
  BY <1>1 DEF docVars, chainVars, runVars, reqVars
<1>4. ChainInOrder'
  BY <1>3 DEF Inv, ChainInOrder
<1>5. PromisesOwed'
  <2>1. ASSUME NEW d, NEW n \in Texts, Owes(d, n), \A f \in Files : n[f] <= buffer[f]
        PROVE  OwedAfter(d, n)
    BY <1>1, <2>1, OwedMeanwhile
  <2>2. QED
    BY <1>3, <2>1, StaysOwed
<1>6. QED
  BY <1>1, <1>2, <1>4, <1>5, TextsMeanwhile DEF Inv

LEMMA NextInv ==
  ASSUME Inv, [EditNext]_vars
  PROVE  Inv'
<1>1. CASE \E f \in Files : Edit(f)
  BY <1>1, EditInv
<1>2. CASE WriteLands \/ WriteFails
  BY <1>2, WriteInv
<1>3. CASE TimerFires
  BY <1>3, TimerInv
<1>4. CASE \E r \in Requests : RequestArrives(r) \/ RequestResumes(r)
  BY <1>4, ArrivalInv, ResumptionInv
<1>5. CASE LinkStarts
  BY <1>5, LinkInv
<1>6. CASE WritesAwaited
  BY <1>6, AwaitedInv
<1>7. CASE Reindexing(Chain)
  BY <1>7, ListInv, ReadStepsInv, BuildInv, AppendInv DEF Reindexing
<1>8. CASE UNCHANGED vars
  BY <1>8, StutterInv
<1>9. QED
  BY <1>1, <1>2, <1>3, <1>4, <1>5, <1>6, <1>7, <1>8 DEF EditNext, ChainStep

\* Inv is inductive: while no file vanishes and no command runs, every text the
\* editor has sent is queued, written, lost or owed by the promises that are to
\* settle (registerHandlers, server.ts:79-140).
THEOREM PipelineInOrder == EditSpec => []Inv
<1>1. Inv /\ [EditNext]_vars => Inv'
  BY NextInv
<1>2. QED
  BY InitInv, <1>1, PTL DEF EditSpec

\* A handler that resumes finds the texts the editor had sent when its request
\* came in the index it answers from (server.ts:82).
THEOREM FreshAnswers == EditSpec => []AnswersFresh
<1>1. Inv => AnswersFresh
  BY DEF Inv, PromisesOwed, Owes, AnswersFresh, Resolved
<1>2. QED
  BY <1>1, PipelineInOrder, PTL

\* Each step as the step of FreshIndex it is, or none.
LEMMA StepsOfFreshIndex ==
  ASSUME Inv, [EditNext]_vars
  PROVE  [Fresh!Next]_(Fresh!vars)
<1> USE DEF Fresh!vars
<1>1. ASSUME NEW f \in Files, Edit(f) PROVE Fresh!Next
  BY <1>1 DEF Edit, Fresh!Next, Fresh!Type, reqVars
<1>2. CASE WriteLands
  BY <1>2 DEF WriteLands, HeadSettles, reqVars
<1>3. CASE WriteFails
  <2>1. HeadSettles /\ queue # << >>
    BY <1>3 DEF WriteFails
  <2>2. 1 \in 1..Len(queue) /\ Head(queue) = queue[1]
    BY <2>1, HeadGone
  <2>3. queue[1].file \in Files /\ queue[1].text \in Nat
    BY <2>1, HeadGone
  <2>4. disk[queue[1].file] < queue[1].text /\ queue[1].text <= buffer[queue[1].file]
    BY <2>2 DEF Inv, QueueInOrder
  <2>5. queue[1].text \in 1..buffer[queue[1].file]
    BY <2>3, <2>4, Typed DEF Inv
  <2>6. Fresh!Lose(queue[1].file, queue[1].text)
    BY <1>3, <2>1, <2>2, <2>4 DEF WriteFails, HeadSettles, Fresh!Lose, reqVars
  <2>7. QED
    BY <2>3, <2>5, <2>6 DEF Fresh!Next
<1>4. CASE TimerFires
  BY <1>4 DEF TimerFires, docVars, reqVars
<1>5. ASSUME NEW r \in Requests, RequestArrives(r) PROVE Fresh!Next
  BY <1>5 DEF RequestArrives, Fresh!Next, Fresh!Ask, docVars
<1>6. ASSUME NEW r \in Requests, RequestResumes(r) PROVE Fresh!Next
  <2>1. Resolved(r)
    BY <1>6 DEF RequestResumes, Rejected, Inv, ChainInOrder
  <2>2. Covers(index, need[r])
    BY <2>1 DEF Resolved, Inv, PromisesOwed, Owes
  <2>3. Fresh!Covers(index, need[r])
    BY <2>2 DEF Covers, Fresh!Covers
  <2>4. Fresh!Answer(r)
    BY <1>6, <2>1, <2>3 DEF RequestResumes, Resolved, Fresh!Answer, docVars
  <2>5. QED
    BY <2>4 DEF Fresh!Next
<1>7. CASE LinkStarts
  BY <1>7 DEF LinkStarts, docVars, reqVars
<1>8. CASE WritesAwaited
  BY <1>8 DEF WritesAwaited, docVars, reqVars
<1>9. CASE ListFiles(Chain)
  BY <1>9 DEF ListFiles, docVars, reqVars
<1>10. CASE ReadSteps(Chain)
  BY <1>10 DEF ReadSteps, docVars, reqVars
<1>11. CASE ReadOathsAndBuild(Chain)
  <2>1. UNCHANGED <<buffer, lost, waiting, need>>
    BY <1>11 DEF ReadOathsAndBuild, docVars, reqVars
  <2>2. \A f \in Files : index[f] <= index'[f] /\ index'[f] <= buffer[f]
    <3> SUFFICES ASSUME NEW f \in Files
                 PROVE  index[f] <= index'[f] /\ index'[f] <= buffer[f]
      OBVIOUS
    <3>1. disk[f] <= buffer[f]
      BY DEF Inv, MovesForward
    <3>2. disk[f] \in Nat /\ buffer[f] \in Nat
      BY Typed DEF Inv
    <3>3. index'[f] \in Nat /\ index[f] <= index'[f] /\ index'[f] <= disk[f]
      BY <1>11, BuiltForward
    <3>4. QED
      BY <3>1, <3>2, <3>3
  <2>3. QED
    BY <2>1, <2>2 DEF Fresh!Next, Fresh!Reindex
<1>12. ASSUME ReadLockFile(Chain)
       PROVE  UNCHANGED Fresh!vars
  BY <1>12 DEF ReadLockFile, Over, docVars
<1>13. CASE UNCHANGED vars
  BY <1>13 DEF vars, docVars, reqVars
<1>14. QED
  BY <1>1, <1>2, <1>3, <1>4, <1>5, <1>6, <1>7, <1>8, <1>9, <1>10, <1>11, <1>12, <1>13
     DEF EditNext, ChainStep, Reindexing

\* The pipeline does what FreshIndex promises, for any files and requests.
THEOREM Implements == EditSpec => ImplementsFreshIndex
<1>1. Init => Fresh!Init
  BY DEF Init, Fresh!Init
<1>2. QED
  BY <1>1, StepsOfFreshIndex, PipelineInOrder, PTL DEF EditSpec, ImplementsFreshIndex, Fresh!Spec

\* Only ReadOathsAndBuild replaces the index, by texts none of which is older.
THEOREM IndexForward == EditSpec => IndexNeverOlder
<1>1. ASSUME Inv, [EditNext]_vars
      PROVE  \A f \in Files : index'[f] >= index[f]
  <2>1. CASE index' = index
    BY <1>1, <2>1, Typed DEF Inv
  <2>2. CASE Fresh!Reindex(index')
    BY <1>1, <2>2, Typed DEF Inv, Fresh!Reindex
  <2>3. CASE UNCHANGED Fresh!vars
    BY <2>1, <2>3 DEF Fresh!vars
  <2>4. Fresh!Next => index' = index \/ Fresh!Reindex(index')
    BY DEF Fresh!Next, Fresh!Type, Fresh!Lose, Fresh!Ask, Fresh!Answer
  <2>5. QED
    BY <1>1, <2>1, <2>2, <2>3, <2>4, StepsOfFreshIndex
<1>2. QED
  BY <1>1, PipelineInOrder, PTL DEF EditSpec, IndexNeverOlder

\* Only WriteLands changes the disk, and the text it writes is newer.
THEOREM DiskForward == EditSpec => DiskNeverOlder
<1>1. ASSUME Inv, [EditNext]_vars
      PROVE  \A f \in Files : disk'[f] >= disk[f]
  <2>1. CASE WriteLands
    BY <1>1, <2>1, LandedForward, Typed DEF Inv
  <2>2. CASE disk' = disk
    BY <1>1, <2>2, Typed DEF Inv
  <2>3. CASE ~WriteLands
    <3>1. disk' = disk
      BY <1>1, <2>3 DEF EditNext, Edit, WriteFails, TimerFires, RequestArrives, RequestResumes,
         ChainStep, LinkStarts, WritesAwaited, Reindexing, ListFiles, ReadSteps,
         ReadOathsAndBuild, ReadLockFile, Over, docVars, vars
    <3>2. QED
      BY <2>2, <3>1
  <2>4. QED
    BY <2>1, <2>3
<1>2. QED
  BY <1>1, PipelineInOrder, PTL DEF EditSpec, DiskNeverOlder

\* However writes, reads and reindexes interleave, no older text comes back (server.ts:87-91).
THEOREM NothingGoesBack == EditSpec => NeverOlder
BY IndexForward, DiskForward DEF NeverOlder
================================================================================
