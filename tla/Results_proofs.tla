----------------------------- MODULE Results_proofs -----------------------------
(***************************************************************************)
(* What the drift gate promises for every project: a record of a plan finds *)
(* no drift in that plan; in isolated workers an unacknowledged drift hands *)
(* the reporter nothing; and no example decays in silence, which rests on   *)
(* whom the algorithm recognises.  And what the editor shows for every set  *)
(* of documents, however handlers, publishes and reindexes overlap: once    *)
(* all is quiet, what the records and the index say of an open document.    *)
(***************************************************************************)
EXTENDS MCResults, FiniteSetTheorems, TLAPS

\* The words of a name are finitely many.
LEMMA FiniteTokens ==
    ASSUME NEW n \in Seq(STRING)
    PROVE  IsFiniteSet(ToSet(n))
<1>1. Len(n) \in Nat
  OBVIOUS
<1>2. n \in [1 .. Len(n) -> ToSet(n)]
  BY DEF ToSet
<1>3. \A t \in ToSet(n) : \E i \in 1 .. Len(n) : n[i] = t
  BY DEF ToSet
<1>4. n \in Surjection(1 .. Len(n), ToSet(n))
  BY <1>2, <1>3 DEF Surjection
<1>5. ExistsSurjection(1 .. Len(n), ToSet(n))
  BY <1>4 DEF ExistsSurjection
<1> QED  BY <1>1, <1>5, FS_NatSurjection

\* A similarity is a fraction of at most one, and one of a set with itself.
LEMMA SimilarityBounds ==
    ASSUME NEW a, NEW b, IsFiniteSet(a), IsFiniteSet(b)
    PROVE  /\ Similarity(a, b)[1] \in Nat /\ Similarity(a, b)[2] \in Nat
           /\ Similarity(a, b)[1] <= Similarity(a, b)[2]
           /\ Similarity(a, a)[1] = Similarity(a, a)[2]
           /\ Similarity(a, a)[1] \in Nat
<1>1. IsFiniteSet(a \cup b) /\ IsFiniteSet(a \cap b)
  BY FS_Union, FS_Intersection
<1>2. Cardinality(a \cap b) <= Cardinality(a \cup b)
  BY <1>1, FS_Subset, a \cap b \subseteq a \cup b
<1>3. Cardinality(a \cap b) \in Nat /\ Cardinality(a \cup b) \in Nat
  BY <1>1, FS_CardinalityType
<1>4. Cardinality(a) \in Nat
  BY FS_CardinalityType
<1>5. a \cap a = a /\ a \cup a = a
  OBVIOUS
<1> QED  BY <1>2, <1>3, <1>4, <1>5 DEF Similarity

LEMMA ProductMonotone ==
    ASSUME NEW x \in Nat, NEW y \in Nat, NEW k \in Nat, x <= y
    PROVE  ~(x * k > k * y)
<1>1. PICK d \in Nat : y = x + d
  BY y - x \in Nat, y = x + (y - x)
<1>2. k * y = x * k + k * d
  BY <1>1, Z3
<1>3. k * d >= 0 /\ x * k \in Nat /\ k * d \in Nat
  BY <1>1, Z3
<1> QED  BY <1>2, <1>3

\* A live paragraph is its own best match: no score exceeds its score, and no
\* other paragraph is on its line.
LEMMA RecordFindsNoDrift ==
    ASSUME NEW paragraphs \in Seq(Names), NEW live \in SUBSET DOMAIN paragraphs
    PROVE  Drifts(LiveExamples(paragraphs, live), paragraphs, live) = {}
<1> SUFFICES ASSUME NEW i \in live,
                    NEW j \in Best([name |-> paragraphs[i], line |-> i], paragraphs),
                    j \notin live
             PROVE  FALSE
  BY DEF Drifts, LiveExamples
<1> DEFINE b == [name |-> paragraphs[i], line |-> i]
           si == Score(b, paragraphs[i])
           sj == Score(b, paragraphs[j])
<1>1. i \in DOMAIN paragraphs /\ j \in DOMAIN paragraphs /\ i # j
  BY DEF Best, Recognisable
<1>2. i \in Nat /\ j \in Nat
  BY <1>1
<1>3. paragraphs[i] \in Seq(STRING) /\ paragraphs[j] \in Seq(STRING)
  BY <1>1, NamesAssumption
<1>4. /\ sj[1] \in Nat /\ sj[2] \in Nat /\ sj[1] <= sj[2]
      /\ si[1] = si[2] /\ si[1] \in Nat
  BY <1>3, FiniteTokens, SimilarityBounds DEF Score
<1>5. ~Exceeds(sj, si)
  BY <1>4, ProductMonotone DEF Exceeds
<1>6. i \in Recognisable(b, paragraphs)
  <2>1. ~Exceeds(Threshold, si)
    BY <1>4 DEF Exceeds, Threshold
  <2> QED  BY <2>1, <1>1 DEF Recognisable
<1>7. Gap(b, i) = 0 /\ Gap(b, j) \in Nat \ {0}
  BY <1>1, <1>2 DEF Gap
<1>8. ~Beats(b, paragraphs, j, i)
  BY <1>5, <1>7 DEF Beats
<1>9. Beats(b, paragraphs, i, j)
  BY <1>5, <1>7 DEF Beats
<1> QED  BY <1>1, <1>6, <1>8, <1>9 DEF Best

--------------------------------------------------------------------------------
\* What an oath may hold, whatever the author does to it.
TextsInv == text \in [Oaths -> Texts]

LEMMA TextsInvariant == Spec => []TextsInv
<1>1. Init => TextsInv
  BY DEF Init, TextsInv
<1>2. TextsInv /\ [Next]_vars => TextsInv'
  <2> SUFFICES ASSUME TextsInv, [Next]_vars PROVE TextsInv'
    OBVIOUS
  <2>1. CASE Edit
    BY <2>1 DEF Edit, EditOath, DeleteOath, EditSteps, ReferenceSections, TextsInv
  <2>2. CASE UNCHANGED fileVars
    BY <2>2 DEF fileVars, TextsInv
  <2> QED
    BY <2>1, <2>2 DEF Next, StartRun, Transform, TransformFails, Collect,
       RunTests, SkipTests, NothingRan, ReadToMerge, WriteMerged, ReadToPrune,
       WritePruned, Cancel, FixReads, FixPlans, FixFails, FixWrites, vars
<1> QED  BY <1>1, <1>2, PTL DEF Spec

\* What is recorded of a plan, by a clean run, an accepting run or the editor,
\* finds no drift in that same plan (deriveOathBaseline and detectDrift).
THEOREM RecordsAreClean == Spec => []RecordIsClean
<1>1. TextsInv => RecordIsClean
  <2> SUFFICES ASSUME TextsInv, NEW o \in Oaths,
                      NEW live, live = LiveIn(text[o], o \in consumed)
               PROVE  Drifts(LiveExamples(text[o], live), text[o], live) = {}
    BY DEF RecordIsClean
  <2>1. text[o] \in Seq(Names)
    BY BoundsAssumption DEF TextsInv, Texts
  <2>2. live \in SUBSET DOMAIN text[o]
    BY DEF LiveIn, Live
  <2> QED  BY <2>1, <2>2, RecordFindsNoDrift
<1> QED  BY <1>1, TextsInvariant, PTL

--------------------------------------------------------------------------------
\* Each oath is collected once a run and hands over what that collection parked.
GateInv ==
    /\ present \subseteq Oaths
    /\ run.todo \subseteq Oaths
    /\ outcome \in [Oaths -> {"none", "clean", "drift", "stale"}]
    /\ phase # "idle" =>
          /\ \A o \in run.todo : outcome[o] = "none"
          /\ \A o \in DOMAIN meta : o \in Oaths /\ outcome[o] # "none"
          /\ \A o \in Oaths : outcome[o] = "drift" => o \notin DOMAIN meta
    /\ phase \in {"collect", "test"} =>
          "oath" \in DOMAIN loaded /\ loaded.oath \in Oaths \ run.todo
    /\ phase = "collect" => outcome[loaded.oath] = "none"
    /\ phase = "test" =>
          /\ outcome[loaded.oath] # "none"
          /\ outcome[loaded.oath] = "drift" => loaded.oath \notin DOMAIN pending

LEMMA GateStarts == Init => GateInv
BY DEF Init, GateInv, Empty

LEMMA GateKeeps ==
    ASSUME Isolate = TRUE
    PROVE  GateInv /\ [Next]_vars => GateInv'
<1> SUFFICES ASSUME GateInv, [Next]_vars PROVE GateInv'
  OBVIOUS
<1> USE DEF GateInv
<1>1. CASE Edit
  BY <1>1 DEF Edit, EditOath, DeleteOath, EditSteps, ReferenceSections, runVars
<1>2. CASE StartRun
  BY <1>2 DEF StartRun, Empty, fileVars
<1>3. ASSUME NEW o \in Oaths, Transform(o) PROVE GateInv'
  BY <1>3 DEF Transform, fileVars
<1>4. ASSUME NEW o \in Oaths, TransformFails(o) PROVE GateInv'
  BY <1>4 DEF TransformFails, fileVars
<1>5. CASE Collect
  <2>1. loaded'.oath = loaded.oath /\ "oath" \in DOMAIN loaded'
    BY <1>5 DEF Collect
  <2>2. FoundDrifts # {} => loaded.oath \notin DOMAIN pending'
    BY <1>5 DEF Collect, ParkIfClean, Parked, Empty
  <2> QED  BY <1>5, <2>1, <2>2 DEF Collect, fileVars
<1>6. CASE RunTests
  <2>1. DOMAIN meta' = IF loaded.oath \in DOMAIN pending
                         THEN {loaded.oath} \cup DOMAIN meta ELSE DOMAIN meta
    BY <1>6 DEF RunTests, With
  <2>2. phase' \in {"merge", "load"}
    BY <1>6 DEF RunTests, AfterTests
  <2> QED  BY <1>6, <2>1, <2>2 DEF RunTests, fileVars
<1>7. CASE SkipTests
  BY <1>7 DEF SkipTests, AfterTests, fileVars
<1>8. CASE NothingRan \/ ReadToMerge \/ WriteMerged \/ ReadToPrune \/ WritePruned \/ Cancel
  BY <1>8 DEF NothingRan, ReadToMerge, WriteMerged, ReadToPrune, WritePruned,
     Cancel, fileVars
<1>9. CASE UNCHANGED <<fileVars, runVars>>
  BY <1>9 DEF fileVars, runVars
<1> QED
  BY <1>1, <1>2, <1>3, <1>4, <1>5, <1>6, <1>7, <1>8, <1>9
     DEF Next, FixReads, FixPlans, FixFails, FixWrites, vars

LEMMA GateInvariant ==
    ASSUME Isolate = TRUE
    PROVE  Spec => []GateInv
<1>1. Init => GateInv
  BY GateStarts
<1>2. GateInv /\ [Next]_vars => GateInv'
  BY GateKeeps
<1> QED  BY <1>1, <1>2, PTL DEF Spec

\* In isolated workers a baseline is never handed over for an oath this run
\* found drifted, so what the lock had of it stands (collectVararExamples,
\* attachBaseline).
THEOREM DriftedParkNothing ==
    ASSUME Isolate = TRUE
    PROVE  Spec => []DriftParksNothing
<1>1. GateInv => DriftParksNothing
  BY DEF GateInv, DriftParksNothing
<1> QED  BY <1>1, GateInvariant, PTL

--------------------------------------------------------------------------------
\* No other writer comes between the reporter's read and its write.
Alone == MaxFixes = 0 \/ \E o \in Oaths : Oaths = {o}

\* What the reporter has read is what is there, unless the editor may write; with one
\* oath the reporter has nothing to write but what the run earned.
WriterInv ==
    /\ fixes \in Nat
    /\ MaxFixes = 0 => fix.at = "none"
    /\ MaxFixes = 0 /\ phase \in {"write", "pruned"} => onto.lock = lock
    /\ meta = Empty \/ DOMAIN meta # {}
    /\ DOMAIN lock \subseteq Oaths
    /\ phase \in {"write", "pruned"} => DOMAIN onto.lock \subseteq Oaths
    /\ phase = "write" => DOMAIN meta # {}
    /\ fix.at \in {"source", "write"} =>
          fix.oath \in Oaths /\ DOMAIN fix.lock \subseteq Oaths

LEMMA WriterKeeps ==
    ASSUME phase # "idle" => DOMAIN meta \subseteq Oaths, WriterInv, [Next]_vars
    PROVE  WriterInv'
<1> USE DEF WriterInv
<1>1. CASE Edit
  BY <1>1 DEF Edit, runVars, fixVars
<1>2. CASE StartRun
  BY <1>2 DEF StartRun, fixVars
<1>3. ASSUME NEW o \in Oaths, Transform(o) \/ TransformFails(o) PROVE WriterInv'
  BY <1>3 DEF Transform, TransformFails, fixVars
<1>4. CASE Collect
  BY <1>4 DEF Collect, fixVars
<1>5. CASE RunTests
  <2>1. meta' = meta \/ DOMAIN meta' # {}
    BY <1>5 DEF RunTests, With
  <2> QED  BY <1>5, <2>1 DEF RunTests, AfterTests, fixVars
<1>6. CASE SkipTests \/ NothingRan \/ Cancel
  BY <1>6 DEF SkipTests, AfterTests, NothingRan, Cancel, fixVars
<1>7. CASE ReadToMerge \/ ReadToPrune
  BY <1>7 DEF ReadToMerge, ReadToPrune, fixVars
<1>8. CASE WriteMerged
  <2>1. DOMAIN lock' = DOMAIN meta \cup DOMAIN onto.lock
    BY <1>8 DEF WriteMerged, Merged, Over
  <2> QED  BY <1>8, <2>1 DEF WriteMerged, fixVars
<1>9. CASE WritePruned
  <2>1. DOMAIN lock' \subseteq Oaths
    BY <1>9 DEF WritePruned, Restrict, Stale
  <2> QED  BY <1>9, <2>1 DEF WritePruned, fixVars
<1>10. ASSUME NEW o \in Oaths, FixReads(o) PROVE WriterInv'
  BY <1>10 DEF FixReads, runVars
<1>11. CASE FixPlans
  BY <1>11 DEF FixPlans, runVars
<1>12. CASE FixFails
  BY <1>12 DEF FixFails, runVars
<1>13. CASE FixWrites
  <2>1. DOMAIN lock' = DOMAIN fix.lock \cup {fix.oath}
    BY <1>13 DEF FixWrites, With
  <2> QED  BY <1>13, <2>1 DEF FixWrites, runVars
<1>14. CASE UNCHANGED vars
  BY <1>14 DEF vars, runVars, fixVars
<1> QED
  BY <1>1, <1>2, <1>3, <1>4, <1>5, <1>6, <1>7, <1>8, <1>9, <1>10, <1>11, <1>12, <1>13,
     <1>14 DEF Next

\* In isolated workers, whatever is edited, filtered, cancelled or accepted, an entry
\* of the lock changes only in a run that found its oath without drift, or by the
\* quick-fix of its oath, and is dropped only with its oath: where no second writer comes
\* between the reporter's read and its write, or has another oath to undo.
THEOREM EntriesAlwaysEarned ==
    ASSUME Isolate = TRUE, Alone
    PROVE  Spec => EntriesAreEarned
<1> DEFINE Kept(o) ==
    \/ o \in DOMAIN lock' /\ lock'[o] = lock[o]
    \/ o \in DOMAIN lock' /\ outcome[o] \in {"clean", "stale"}
    \/ o \in DOMAIN lock' /\ fix.at = "write" /\ fix.oath = o
    \/ o \notin DOMAIN lock' /\ run.update /\ o \notin onto.keep
<1>1. Init => WriterInv
  BY DEF Init, WriterInv, Empty
<1>2. GateInv /\ WriterInv /\ [Next]_vars => WriterInv'
  BY WriterKeeps DEF GateInv
<1>3. GateInv /\ WriterInv /\ [Next]_vars => [\A o \in DOMAIN lock : Kept(o)]_vars
  <2> SUFFICES ASSUME GateInv, WriterInv, Next, NEW o \in DOMAIN lock PROVE Kept(o)
    OBVIOUS
  <2>1. MaxFixes = 0 \/ Oaths = {o}
    BY DEF Alone, WriterInv
  <2>2. CASE WriteMerged
    <3>1. /\ DOMAIN lock' = DOMAIN meta \cup DOMAIN onto.lock
          /\ \A x \in DOMAIN lock' :
                lock'[x] = IF x \in DOMAIN meta THEN meta[x] ELSE onto.lock[x]
      BY <2>2 DEF WriteMerged, Merged, Over
    <3>2. CASE o \in DOMAIN meta
      <4>1. outcome[o] \in {"clean", "stale"}
        BY <2>2, <3>2 DEF WriteMerged, GateInv
      <4> QED  BY <3>1, <3>2, <4>1
    <3>3. CASE o \notin DOMAIN meta
      <4>1. DOMAIN meta \subseteq Oaths /\ DOMAIN meta # {}
        BY <2>2 DEF WriteMerged, GateInv, WriterInv
      <4>2. onto.lock = lock
        BY <2>1, <2>2, <3>3, <4>1 DEF WriteMerged, WriterInv
      <4> QED  BY <3>1, <3>3, <4>2
    <3> QED  BY <3>2, <3>3
  <2>3. CASE WritePruned /\ run.update /\ Stale # {}
    <3>1. /\ DOMAIN lock' = DOMAIN onto.lock \ Stale
          /\ \A x \in DOMAIN lock' : lock'[x] = onto.lock[x]
      BY <2>3 DEF WritePruned, Restrict
    <3>2. Stale \subseteq DOMAIN onto.lock /\ Stale \cap onto.keep = {}
      BY DEF Stale
    <3>3. CASE MaxFixes = 0
      <4>1. onto.lock = lock
        BY <2>3, <3>3 DEF WritePruned, WriterInv
      <4> QED  BY <2>3, <3>1, <3>2, <4>1
    <3>4. CASE Oaths = {o}
      <4>1. DOMAIN onto.lock \subseteq {o}
        BY <2>3, <3>4 DEF WritePruned, WriterInv
      <4> QED  BY <2>3, <3>1, <3>2, <4>1
    <3> QED  BY <2>1, <3>3, <3>4
  <2>4. CASE FixWrites
    <3>1. fix.at = "write" /\ fix.oath \in Oaths /\ fix.oath \in DOMAIN lock'
      BY <2>4 DEF FixWrites, With, WriterInv
    <3> QED  BY <2>1, <3>1 DEF WriterInv
  <2>5. CASE lock' = lock
    BY <2>5
  <2> QED
    BY <2>2, <2>3, <2>4, <2>5 DEF Next, Edit, StartRun, Transform, TransformFails,
       Collect, RunTests, SkipTests, NothingRan, ReadToMerge, ReadToPrune, WritePruned,
       Cancel, FixReads, FixPlans, FixFails
<1> QED
  BY <1>1, <1>2, <1>3, GateInvariant, PTL DEF Spec, EntriesAreEarned

--------------------------------------------------------------------------------
\* Which paragraph is taken for a recorded example.

\* Numbers have a least one.
LEMMA Least ==
    ASSUME NEW T \in SUBSET Nat, T # {}
    PROVE  \E m \in T : \A n \in T : m <= n
<1> DEFINE U == {0 .. n : n \in T}
<1>1. U \subseteq FiniteSubsetsOf(Nat)
  <2>1. \A n \in Nat : 0 .. n \in SUBSET Nat /\ IsFiniteSet(0 .. n)
    BY FS_Interval
  <2> QED  BY <2>1 DEF FiniteSubsetsOf
<1>2. \E x \in U : \A y \in U : ~(<<y, x>> \in StrictSubsetOrdering(Nat))
  <2>1. U # {}
    OBVIOUS
  <2> HIDE DEF U
  <2> QED  BY <1>1, <2>1, WFMin, FS_StrictSubsetOrderingWellFounded
<1>3. PICK m \in T : \A n \in T : ~(<<0 .. n, 0 .. m>> \in StrictSubsetOrdering(Nat))
  BY <1>2
<1>4. ASSUME NEW n \in T, n < m PROVE FALSE
  <2>1. /\ 0 .. n \subseteq 0 .. m /\ m \notin 0 .. n /\ m \in 0 .. m
        /\ 0 .. n \subseteq Nat /\ 0 .. m \subseteq Nat
    BY <1>4, SMT
  <2>2. <<0 .. n, 0 .. m>> \in StrictSubsetOrdering(Nat)
    BY <2>1 DEF StrictSubsetOrdering
  <2> QED  BY <1>3, <2>2
<1> QED  BY <1>4

LEMMA ProductStrict ==
    ASSUME NEW x \in Nat, NEW y \in Nat, NEW k \in Nat, x < y, k > 0
    PROVE  k * y > x * k
<1>1. PICK d \in Nat : y = x + d /\ d > 0
  BY y - x \in Nat, y = x + (y - x)
<1>2. k * y = x * k + k * d
  BY <1>1, Z3
<1>3. k * d > 0 /\ x * k \in Nat /\ k * d \in Nat
  BY <1>1, Z3
<1> QED  BY <1>2, <1>3

\* Sets that differ are less similar than a set is to itself.
LEMMA OwnScoreExceeds ==
    ASSUME NEW a, NEW b, IsFiniteSet(a), IsFiniteSet(b), a # b
    PROVE  /\ Exceeds(Similarity(a, a), Similarity(a, b))
           /\ ~Exceeds(Similarity(a, b), Similarity(a, a))
<1> DEFINE s == Similarity(a, b)  t == Similarity(a, a)
<1>1. IsFiniteSet(a \cup b) /\ IsFiniteSet(a \cap b)
  BY FS_Union, FS_Intersection
<1>2. Cardinality(a \cap b) \in Nat /\ Cardinality(a \cup b) \in Nat
  BY <1>1, FS_CardinalityType
<1>3. Cardinality(a \cap b) < Cardinality(a \cup b)
  <2>1. a \cap b \subseteq a \cup b /\ a \cap b # a \cup b
    OBVIOUS
  <2> QED  BY <1>1, <1>2, <2>1, FS_Subset
<1>4. s[1] \in Nat /\ s[2] \in Nat /\ s[1] < s[2]
  <2>1. a \cup b # {}
    OBVIOUS
  <2> QED  BY <1>2, <1>3, <2>1 DEF Similarity
<1>5. t[1] \in Nat /\ t[2] = t[1] /\ t[1] > 0
  <2>1. CASE a = {}
    BY <2>1 DEF Similarity
  <2>2. CASE a # {}
    <3>1. Cardinality(a) \in Nat /\ Cardinality(a) # 0
      BY <2>2, FS_CardinalityType, FS_EmptySet
    <3>2. a \cup a = a /\ a \cap a = a
      OBVIOUS
    <3> QED  BY <2>2, <3>1, <3>2 DEF Similarity
  <2> QED  BY <2>1, <2>2
<1> HIDE DEF s, t
<1>6. t[1] * s[2] > s[1] * t[1]
  BY <1>4, <1>5, ProductStrict
<1>7. t[1] * s[2] \in Nat /\ s[1] * t[1] \in Nat
  BY <1>4, <1>5
<1>8. ~(s[1] * t[1] > t[1] * s[2])
  BY <1>6, <1>7
<1> QED  BY <1>5, <1>6, <1>8 DEF Exceeds, s, t

\* A paragraph that has the words of the example is taken, the nearest of those, where a
\* name is known by its words.
KnownByWords == \A m, n \in Names : ToSet(m) = ToSet(n) => m = n

LEMMA ExactIsBest ==
    ASSUME KnownByWords, NEW paragraphs \in Texts, NEW b \in Examples,
           b.name \in ToSet(paragraphs)
    PROVE  /\ Best(b, paragraphs) # {}
           /\ \A i \in Best(b, paragraphs) : paragraphs[i] = b.name
<1> DEFINE Exact == {i \in DOMAIN paragraphs : paragraphs[i] = b.name}
           Seen == Recognisable(b, paragraphs)
           S(i) == Score(b, paragraphs[i])
<1>1. /\ DOMAIN paragraphs \subseteq Nat
      /\ \A i \in DOMAIN paragraphs : paragraphs[i] \in Names
  BY BoundsAssumption DEF Texts
<1>2. b.name \in Names /\ b.line \in Nat
  BY BoundsAssumption DEF Examples
<1>3. \A n \in Names : IsFiniteSet(ToSet(n))
  BY NamesAssumption, FiniteTokens
<1>4. Exact # {}
  BY DEF ToSet
<1>5. ASSUME NEW i \in Exact PROVE i \in Seen
  <2>1. S(i)[1] = S(i)[2] /\ S(i)[1] \in Nat
    BY <1>2, <1>3, SimilarityBounds DEF Score
  <2>2. ~Exceeds(Threshold, S(i))
    BY <2>1 DEF Exceeds, Threshold
  <2> QED  BY <2>2 DEF Recognisable
<1>6. ASSUME NEW i \in Exact, NEW j \in Exact PROVE ~Exceeds(S(i), S(j))
  <2>1. S(i) = S(j) /\ S(i)[1] = S(i)[2] /\ S(i)[1] \in Nat
    BY <1>2, <1>3, SimilarityBounds DEF Score
  <2>2. S(i)[1] * S(i)[1] \in Nat
    BY <2>1
  <2> QED  BY <2>1, <2>2 DEF Exceeds
<1>7. ASSUME NEW i \in Exact, NEW j \in DOMAIN paragraphs \ Exact
      PROVE  Exceeds(S(i), S(j)) /\ ~Exceeds(S(j), S(i))
  <2>1. paragraphs[j] \in Names /\ ToSet(b.name) # ToSet(paragraphs[j])
    BY <1>1, <1>2 DEF KnownByWords
  <2>2. IsFiniteSet(ToSet(b.name)) /\ IsFiniteSet(ToSet(paragraphs[j]))
    BY <1>2, <1>3, <2>1
  <2>3. /\ S(i) = Similarity(ToSet(b.name), ToSet(b.name))
        /\ S(j) = Similarity(ToSet(b.name), ToSet(paragraphs[j]))
    BY DEF Score
  <2> HIDE DEF S
  <2> QED  BY <2>1, <2>2, <2>3, OwnScoreExceeds
<1>8. \A i \in DOMAIN paragraphs : Gap(b, i) \in Nat
  BY <1>1, <1>2 DEF Gap
<1>9. PICK i0 \in Exact : \A j \in Exact : Gap(b, i0) <= Gap(b, j)
  <2> DEFINE T == {Gap(b, i) : i \in Exact}
  <2>1. T \in SUBSET Nat /\ T # {}
    BY <1>4, <1>8
  <2> HIDE DEF T
  <2>2. \E m \in T : \A n \in T : m <= n
    BY <2>1, Least
  <2> QED  BY <2>2 DEF T
<1>10. PICK i \in Exact : /\ Gap(b, i) = Gap(b, i0)
                          /\ \A j \in Exact : Gap(b, j) = Gap(b, i0) => i <= j
  <2> DEFINE T == {j \in Exact : Gap(b, j) = Gap(b, i0)}
  <2>1. T \in SUBSET Nat /\ T # {}
    BY <1>1
  <2> HIDE DEF T
  <2>2. \E m \in T : \A n \in T : m <= n
    BY <2>1, Least
  <2> QED  BY <2>2 DEF T
<1>11. i \in Best(b, paragraphs)
  <2>1. ASSUME NEW j \in Seen \ {i}
        PROVE  Beats(b, paragraphs, i, j) \/ (~Beats(b, paragraphs, j, i) /\ i < j)
    <3>1. j \in DOMAIN paragraphs
      BY DEF Recognisable
    <3>2. CASE j \notin Exact
      <4>1. Exceeds(S(i), S(j))
        BY <1>7, <3>1, <3>2
      <4>2. Beats(b, paragraphs, i, j)
        BY <4>1, Zenon DEF Beats
      <4> QED  BY <4>2
    <3>3. CASE j \in Exact
      <4>1. ~Exceeds(S(i), S(j)) /\ ~Exceeds(S(j), S(i))
        BY <1>6, <3>3
      <4>2. Gap(b, i) \in Nat /\ Gap(b, j) \in Nat /\ i \in Nat /\ j \in Nat
        BY <1>1, <1>8, <3>1
      <4>3. Gap(b, i) < Gap(b, j) \/ (Gap(b, i) = Gap(b, j) /\ i < j)
        <5> DEFINE g == Gap(b, i)  gj == Gap(b, j)
        <5>1. g <= gj /\ (gj = g => i <= j) /\ i # j
          BY <1>9, <1>10, <3>3
        <5>2. g \in Nat /\ gj \in Nat
          BY <4>2
        <5> HIDE DEF g, gj
        <5>3. g < gj \/ (g = gj /\ i < j)
          BY <4>2, <5>1, <5>2
        <5> QED  BY <5>3 DEF g, gj
      <4>4. CASE Gap(b, i) < Gap(b, j)
        <5>1. Beats(b, paragraphs, i, j)
          BY <4>1, <4>4, Zenon DEF Beats
        <5> QED  BY <5>1
      <4>5. CASE Gap(b, i) = Gap(b, j) /\ i < j
        <5>1. ~(Gap(b, j) < Gap(b, i))
          BY <4>2, <4>5
        <5>2. ~Beats(b, paragraphs, j, i)
          BY <4>1, <5>1, Zenon DEF Beats
        <5> QED  BY <4>5, <5>2
      <4> QED  BY <4>3, <4>4, <4>5
    <3> QED  BY <3>2, <3>3
  <2> QED  BY <1>5, <2>1 DEF Best
<1>12. ASSUME NEW j \in Best(b, paragraphs), j \notin Exact PROVE FALSE
  <2>1. j \in DOMAIN paragraphs /\ i \in Seen \ {j}
    BY <1>5, <1>12 DEF Best, Recognisable
  <2>2. Exceeds(S(i), S(j)) /\ ~Exceeds(S(j), S(i))
    BY <1>7, <1>12, <2>1
  <2>3. Beats(b, paragraphs, i, j) /\ ~Beats(b, paragraphs, j, i)
    BY <2>2 DEF Beats
  <2> QED  BY <2>1, <2>3 DEF Best
<1> QED  BY <1>11, <1>12

--------------------------------------------------------------------------------
\* What every variable holds, the parts of a run and of a quick-fix among them.
Baselines(f) == DOMAIN f \subseteq Oaths /\ \A o \in DOMAIN f : f[o] \subseteq Examples

Typed ==
    /\ TypeOK
    /\ text \in [Oaths -> Texts]
    /\ vouched \in [Oaths -> SUBSET Names]
    /\ Baselines(lock) /\ Baselines(pending) /\ Baselines(meta)
    /\ phase \in {"collect", "test"} =>
          /\ loaded.oath \in Oaths /\ loaded.paragraphs \in Texts
          /\ loaded.baseline \subseteq Examples
    /\ phase \in {"write", "pruned"} => Baselines(onto.lock)
    /\ fix.at \in {"source", "write"} => fix.oath \in Oaths /\ Baselines(fix.lock)
    /\ fix.at = "write" => fix.baseline \subseteq Examples

LEMMA RecordedTyped ==
    ASSUME NEW t \in Texts, NEW reused
    PROVE  LiveExamples(t, LiveIn(t, reused)) \subseteq Examples
<1>1. PICK n \in 0 .. MaxParagraphs : t \in [1 .. n -> Names]
  BY DEF Texts
<1>2. LiveIn(t, reused) \subseteq 1 .. n
  BY <1>1 DEF LiveIn, Live
<1>3. 1 .. n \subseteq 1 .. MaxParagraphs
  BY BoundsAssumption
<1> QED  BY <1>1, <1>2, <1>3 DEF LiveExamples, Examples

LEMMA EntryTyped ==
    ASSUME Baselines(lock), NEW o \in Oaths PROVE Entry(o) \subseteq Examples
BY DEF Baselines, Entry

LEMMA WithTyped ==
    ASSUME NEW f, Baselines(f), NEW o \in Oaths, NEW v \in SUBSET Examples
    PROVE  Baselines(With(f, o, v))
BY DEF Baselines, With

LEMMA NamesTyped ==
    ASSUME NEW v \in SUBSET Examples PROVE NamesOf(v) \subseteq Names
BY DEF NamesOf, Examples

LEMMA ParkedTyped == Baselines(pending) => Baselines(Parked)
BY DEF Baselines, Parked, Empty

LEMMA TypedStarts == Init => Typed
<1> SUFFICES ASSUME Init PROVE Typed
  OBVIOUS
<1>1. Baselines(Empty)
  BY DEF Baselines, Empty
<1>2. TypeOK
  BY <1>1, BoundsAssumption DEF TypeOK, Init, Baselines, Empty
<1> QED  BY <1>1, <1>2 DEF Typed, Init

LEMMA TypedKeeps == Typed /\ [Next]_vars => Typed'
<1> SUFFICES ASSUME Typed, [Next]_vars PROVE Typed'
  OBVIOUS
<1> USE DEF Typed, TypeOK
<1>1. CASE Edit
  BY <1>1, BoundsAssumption
     DEF Edit, EditOath, DeleteOath, EditSteps, ReferenceSections, runVars, fixVars, Baselines
<1>2. CASE StartRun
  <2>1. Baselines(Empty)
    BY DEF Baselines, Empty
  <2>2. Baselines(pending') /\ Baselines(meta')
    BY <1>2, <2>1 DEF StartRun
  <2> QED
    BY <1>2, <2>2, BoundsAssumption DEF StartRun, fileVars, fixVars, Baselines, Empty
<1>3. ASSUME NEW o \in Oaths, Transform(o) PROVE Typed'
  <2>1. Entry(o) \subseteq Examples /\ text[o] \in Texts
    BY EntryTyped
  <2> QED  BY <1>3, <2>1 DEF Transform, fileVars, fixVars, Baselines
<1>4. ASSUME NEW o \in Oaths, TransformFails(o) PROVE Typed'
  BY <1>4 DEF TransformFails, fileVars, fixVars, Baselines
<1>5. CASE Collect
  <2>1. LiveExamples(loaded.paragraphs, CollectedLive) \subseteq Examples
    BY <1>5, RecordedTyped DEF Collect, CollectedLive
  <2>2. Baselines(Parked) /\ Baselines(Park(loaded.oath))
    BY <1>5, <2>1, ParkedTyped, WithTyped DEF Collect, Park
  <2>3. Baselines(pending')
    BY <1>5, <2>2 DEF Collect, ParkIfClean
  <2>4. /\ loaded'.oath = loaded.oath /\ loaded'.paragraphs = loaded.paragraphs
        /\ loaded'.baseline = loaded.baseline
    BY <1>5 DEF Collect
  <2>5. outcome' \in [Oaths -> {"none", "clean", "drift", "stale"}]
    BY <1>5 DEF Collect
  <2> QED  BY <1>5, <2>3, <2>4, <2>5 DEF Collect, fileVars, fixVars, Baselines
<1>6. CASE RunTests
  <2>1. Baselines(meta')
    <3>1. loaded.oath \in DOMAIN pending => pending[loaded.oath] \in SUBSET Examples
      BY DEF Baselines
    <3> QED  BY <1>6, <3>1, WithTyped DEF RunTests
  <2>2. Baselines(pending')
    BY <1>6 DEF RunTests, Restrict, Baselines
  <2>3. ran' \subseteq Oaths /\ phase' \in {"load", "merge"}
    BY <1>6 DEF RunTests, AfterTests
  <2> QED  BY <1>6, <2>1, <2>2, <2>3 DEF RunTests, fileVars, fixVars, Baselines
<1>7. CASE SkipTests
  <2>1. Baselines(pending') /\ phase' \in {"load", "merge"}
    BY <1>7, ParkedTyped DEF SkipTests, AfterTests
  <2> QED  BY <1>7, <2>1 DEF SkipTests, fileVars, fixVars, Baselines
<1>8. CASE NothingRan \/ ReadToMerge \/ ReadToPrune
  BY <1>8 DEF NothingRan, ReadToMerge, ReadToPrune, fileVars, fixVars, Baselines
<1>9. CASE WriteMerged
  <2>1. Baselines(lock')
    BY <1>9 DEF WriteMerged, Merged, Over, Baselines
  <2>2. vouched' \in [Oaths -> SUBSET Names]
    <3>1. \A o \in DOMAIN meta : NamesOf(meta[o]) \subseteq Names
      BY NamesTyped DEF Baselines
    <3> QED  BY <1>9, <3>1 DEF WriteMerged
  <2> QED  BY <1>9, <2>1, <2>2 DEF WriteMerged, fileVars, fixVars, Baselines
<1>10. CASE WritePruned
  <2>1. Baselines(lock')
    BY <1>10 DEF WritePruned, Restrict, Baselines
  <2>2. vouched' \in [Oaths -> SUBSET Names]
    BY <1>10 DEF WritePruned
  <2> QED  BY <1>10, <2>1, <2>2 DEF WritePruned, fileVars, fixVars, Baselines
<1>11. CASE Cancel
  <2>1. Baselines(pending')
    BY <1>11, ParkedTyped DEF Cancel
  <2> QED  BY <1>11, <2>1 DEF Cancel, fileVars, fixVars, Baselines
<1>12. ASSUME NEW o \in Oaths, FixReads(o) PROVE Typed'
  BY <1>12, BoundsAssumption DEF FixReads, fileVars, runVars, Baselines
<1>13. CASE FixPlans
  <2>1. LiveExamples(text[fix.oath], LiveIn(text[fix.oath], fix.oath \in consumed))
            \subseteq Examples
    <3>1. fix.oath \in Oaths /\ text[fix.oath] \in Texts
      BY <1>13 DEF FixPlans
    <3> QED  BY <3>1, RecordedTyped
  <2>2. /\ fix'.at = "write" /\ fix'.oath = fix.oath /\ fix'.lock = fix.lock
        /\ fix'.baseline \subseteq Examples
    BY <1>13, <2>1 DEF FixPlans
  <2> QED  BY <1>13, <2>2 DEF FixPlans, fileVars, runVars, Baselines
<1>14. CASE FixFails
  BY <1>14 DEF FixFails, fileVars, runVars, Baselines
<1>15. CASE FixWrites
  <2>1. Baselines(lock')
    BY <1>15, WithTyped DEF FixWrites
  <2>2. vouched' \in [Oaths -> SUBSET Names]
    BY <1>15, NamesTyped DEF FixWrites
  <2> QED  BY <1>15, <2>1, <2>2 DEF FixWrites, fileVars, runVars, Baselines
<1>16. CASE UNCHANGED vars
  BY <1>16 DEF vars, fileVars, runVars, fixVars, Baselines
<1> QED
  BY <1>1, <1>2, <1>3, <1>4, <1>5, <1>6, <1>7, <1>8, <1>9, <1>10, <1>11, <1>12, <1>13,
     <1>14, <1>15, <1>16 DEF Next

\* The lock, what workers park and what tests hand over are baselines of the project's
\* oaths, each example with a name and a line of its oath.
THEOREM GateTypes == Spec => []TypeOK
<1>1. Typed => TypeOK
  BY DEF Typed
<1> QED  BY <1>1, TypedStarts, TypedKeeps, PTL DEF Spec

--------------------------------------------------------------------------------
\* Without a second writer, the lock vouches for what its last writer recorded.
Vouching == \A o \in Oaths : vouched[o] = NamesOf(Entry(o))

LEMMA EntryAfter ==
    ASSUME NEW o \in Oaths
    PROVE  /\ (IF o \in DOMAIN lock' THEN lock'[o] ELSE {}) = Entry(o)'
           /\ NamesOf({}) = {}
BY DEF Entry, NamesOf

LEMMA VouchingKeeps ==
    ASSUME Alone, Typed, WriterInv, Vouching, [Next]_vars
    PROVE  Vouching'
<1> USE DEF Vouching, Typed
<1>1. CASE UNCHANGED <<lock, vouched>>
  <2>1. \A o \in Oaths : Entry(o)' = Entry(o) /\ NamesOf(Entry(o))' = NamesOf(Entry(o))
    BY <1>1 DEF Entry, NamesOf
  <2> QED  BY <1>1, <2>1
<1>2. CASE WriteMerged
  <2> SUFFICES ASSUME NEW o \in Oaths PROVE vouched'[o] = NamesOf(Entry(o)')
    BY DEF NamesOf
  <2>1. lock' = Merged /\ phase = "write"
    BY <1>2 DEF WriteMerged
  <2>2. vouched'[o] = IF o \in DOMAIN meta THEN NamesOf(meta[o]) ELSE vouched[o]
    BY <1>2 DEF WriteMerged
  <2>3. CASE o \in DOMAIN meta
    <3>1. o \in DOMAIN lock' /\ lock'[o] = meta[o]
      BY <2>1, <2>3 DEF Merged, Over
    <3> QED  BY <2>2, <2>3, <3>1 DEF Entry
  <2>4. CASE o \notin DOMAIN meta
    <3>1. onto.lock = lock
      BY <2>1, <2>4 DEF Alone, WriterInv, Baselines
    <3>2. Entry(o)' = Entry(o)
      BY <2>1, <2>4, <3>1 DEF Merged, Over, Entry
    <3> QED  BY <2>2, <2>4, <3>2
  <2> QED  BY <2>3, <2>4
<1>3. CASE WritePruned /\ run.update /\ Stale # {}
  <2> SUFFICES ASSUME NEW o \in Oaths PROVE vouched'[o] = NamesOf(Entry(o)')
    BY DEF NamesOf
  <2>1. lock' = Restrict(onto.lock, DOMAIN onto.lock \ Stale) /\ phase = "pruned"
    BY <1>3 DEF WritePruned
  <2>2. vouched'[o] = IF o \in Stale THEN {} ELSE vouched[o]
    BY <1>3 DEF WritePruned
  <2>3. DOMAIN lock' = DOMAIN onto.lock \ Stale
        /\ \A x \in DOMAIN lock' : lock'[x] = onto.lock[x]
    BY <2>1 DEF Restrict
  <2>4. CASE o \in Stale
    <3>1. Entry(o)' = {}
      BY <2>3, <2>4 DEF Entry
    <3> QED  BY <2>2, <2>4, <3>1 DEF NamesOf
  <2>5. CASE o \notin Stale
    <3>1. MaxFixes = 0
      <4>1. Stale \subseteq DOMAIN onto.lock /\ DOMAIN onto.lock \subseteq Oaths
        BY <2>1 DEF Stale, Baselines
      <4> QED  BY <1>3, <2>5, <4>1 DEF Alone
    <3>2. onto.lock = lock
      BY <2>1, <3>1 DEF WriterInv
    <3>3. Entry(o)' = Entry(o)
      BY <2>3, <2>5, <3>2 DEF Entry
    <3> QED  BY <2>2, <2>5, <3>3
  <2> QED  BY <2>4, <2>5
<1>4. CASE FixWrites
  <2> SUFFICES ASSUME NEW o \in Oaths PROVE vouched'[o] = NamesOf(Entry(o)')
    BY DEF NamesOf
  <2>1. fix.at = "write" /\ fix.oath = o
    BY <1>4 DEF FixWrites, WriterInv, Alone
  <2>2. lock' = With(fix.lock, o, fix.baseline) /\ vouched'[o] = NamesOf(fix.baseline)
    BY <1>4, <2>1 DEF FixWrites
  <2>3. o \in DOMAIN lock' /\ lock'[o] = fix.baseline
    BY <2>2 DEF With
  <2> QED  BY <2>2, <2>3 DEF Entry
<1> QED
  BY <1>1, <1>2, <1>3, <1>4 DEF Next, Edit, StartRun, Transform, TransformFails, Collect,
     RunTests, SkipTests, NothingRan, ReadToMerge, ReadToPrune, WritePruned, Cancel,
     FixReads, FixPlans, FixFails, vars

\* The recorded examples, the collected text and the lock in step.
LEMMA LockInvariant ==
    ASSUME Alone
    PROVE  Spec => [](Typed /\ WriterInv /\ Vouching)
<1>1. Init => Typed /\ WriterInv /\ Vouching
  <2>1. Init => WriterInv /\ Vouching
    BY DEF Init, WriterInv, Vouching, Empty, Entry, NamesOf
  <2> QED  BY <2>1, TypedStarts
<1>2. Typed /\ WriterInv /\ Vouching /\ [Next]_vars => (Typed /\ WriterInv /\ Vouching)'
  <2>1. Typed => DOMAIN meta \subseteq Oaths
    BY DEF Typed, Baselines
  <2> QED  BY <2>1, TypedKeeps, WriterKeeps, VouchingKeeps
<1> QED  BY <1>1, <1>2, PTL DEF Spec

\* An example that was recorded and whose paragraph still reads as it did is recognised in
\* such a paragraph (findBestMatch), where a name is known by its words: the comment of the
\* algorithm holds there, and only there.
THEOREM ExactNamesWin ==
    ASSUME KnownByWords
    PROVE  Spec => []ExactNameWins
<1>1. Typed => ExactNameWins
  <2> SUFFICES ASSUME Typed, phase = "test", NEW b \in loaded.baseline,
                      b.name \in ToSet(loaded.paragraphs),
                      NEW i \in Best(b, loaded.paragraphs)
               PROVE  loaded.paragraphs[i] = b.name
    BY DEF ExactNameWins
  <2>1. b \in Examples /\ loaded.paragraphs \in Texts
    BY DEF Typed
  <2> QED  BY <2>1, ExactIsBest
<1> QED  BY <1>1, TypedStarts, TypedKeeps, PTL DEF Spec

\* "Drift is never resolved silently" (collectVararExamples): whatever is edited, filtered,
\* cancelled or accepted, a plain run is not clean about an oath that lost an example the
\* last record of it had and whose paragraph is still there, where no second writer comes
\* between the reporter's read and its write, or has another oath to undo, and where a name
\* is known by its words.
THEOREM DecayIsNeverSilent ==
    ASSUME Alone, KnownByWords
    PROVE  Spec => NoSilentDecay
<1>1. Typed /\ WriterInv /\ Vouching /\ [Next]_vars
        => [Collects /\ ~run.update /\ ~loaded.reused /\ Decayed # {}
              /\ loaded.baseline = Entry(loaded.oath)
                 => outcome'[loaded.oath] # "clean"]_vars
  <2> SUFFICES ASSUME Typed, Vouching, Next, Collects, ~run.update, ~loaded.reused,
                      Decayed # {}, loaded.baseline = Entry(loaded.oath)
               PROVE  outcome'[loaded.oath] # "clean"
    OBVIOUS
  <2>1. Collect
    BY DEF Collects, Next, Edit, StartRun, Transform, TransformFails, RunTests, SkipTests,
       NothingRan, ReadToMerge, WriteMerged, ReadToPrune, WritePruned, Cancel, FixReads,
       FixPlans, FixFails, FixWrites, runVars, AfterTests
  <2>2. PICK n \in Decayed : TRUE
    OBVIOUS
  <2>3. /\ loaded.oath \in Oaths /\ loaded.paragraphs \in Texts
        /\ loaded.baseline \subseteq Examples
    BY DEF Typed, Collects
  <2>4. PICK b \in loaded.baseline : b.name = n
    BY <2>2, <2>3 DEF Decayed, Vouching, NamesOf
  <2>5. n \in ToSet(loaded.paragraphs) /\ n \notin matching
    BY <2>2 DEF Decayed
  <2>6. PICK i \in Best(b, loaded.paragraphs) : loaded.paragraphs[i] = n
    BY <2>3, <2>4, <2>5, ExactIsBest
  <2>7. i \notin CollectedLive
    BY <2>5, <2>6 DEF CollectedLive, LiveIn, Live
  <2>8. FoundDrifts # {}
    <3>1. b \in Drifts(loaded.baseline, loaded.paragraphs, CollectedLive)
      BY <2>4, <2>6, <2>7 DEF Drifts
    <3> QED  BY <3>1 DEF FoundDrifts
  <2>9. outcome'[loaded.oath] = "drift"
    BY <2>1, <2>3, <2>8 DEF Collect, Typed, TypeOK
  <2> QED  BY <2>9
<1> QED
  BY <1>1, LockInvariant, PTL DEF Spec, NoSilentDecay

--------------------------------------------------------------------------------
\* The diagnostics: what handlers carry, and whom the publishes under way are for.
Event == [oath : Docs, deleted : BOOLEAN]

Carries(e) ==
    /\ DOMAIN e = {"at", "changes", "got", "left"}
    /\ e.changes \in Seq(Event)
    /\ e.at \notin {"publish", "await"} => e.left = {}
    /\ e.at = "read" =>
          e.changes # << >> /\ \A r \in e.got : r.oath = Head(e.changes).oath

ShownTyped ==
    /\ DOMAIN texts = Docs /\ DOMAIN shown = Docs /\ DOMAIN records = Docs
    /\ DOMAIN files = Docs /\ DOMAIN handler = Handlers /\ DOMAIN running = Docs
    /\ events \in Seq(Event)
    /\ \A d \in Docs : \A r \in files[d] \cup records[d] : r.oath = d
    /\ \A h \in Handlers : Carries(handler[h])
    /\ \A c \in DOMAIN publishing : c.uri \notin OpenDocs

LEMMA ShownTypedStarts == D!Init => ShownTyped
<1> SUFFICES ASSUME D!Init PROVE ShownTyped
  OBVIOUS
<1>1. DOMAIN publishing = {}
  BY DEF D!Init, D!EmptyBag, D!SetToBag
<1>2. events \in Seq(Event)
  BY DEF D!Init
<1>3. \A h \in Handlers : /\ DOMAIN handler[h] = {"at", "changes", "got", "left"}
                          /\ handler[h].changes \in Seq(Event)
                          /\ handler[h].left = {} /\ handler[h].at = "idle"
  <2>1. /\ DOMAIN D!Idle = {"at", "changes", "got", "left"}
        /\ D!Idle.changes \in Seq(Event) /\ D!Idle.left = {} /\ D!Idle.at = "idle"
    BY DEF D!Idle, D!None
  <2>2. \A h \in Handlers : handler[h] = D!Idle
    BY DEF D!Init
  <2> QED  BY <2>1, <2>2
<1>4. \A h \in Handlers : Carries(handler[h])
  BY <1>3 DEF Carries
<1> QED  BY <1>1, <1>2, <1>4 DEF D!Init, D!None, ShownTyped

\* The heads and tails of what was sent are events.
LEMMA EventsCut ==
    ASSUME NEW s \in Seq(Event), s # << >>
    PROVE  Head(s) \in Event /\ Tail(s) \in Seq(Event)
OBVIOUS

LEMMA ResultsAreOf ==
    ASSUME NEW d, NEW t, NEW r \in D!Results(d, t) PROVE r.oath = d
BY DEF D!Results

LEMMA PublishingGrows ==
    ASSUME \A c \in DOMAIN publishing : c.uri \notin OpenDocs,
           NEW C, \A c \in C : c.uri \notin OpenDocs
    PROVE  \A c \in DOMAIN (D!(+)(publishing, D!SetToBag(C))) : c.uri \notin OpenDocs
BY DEF D!(+), D!SetToBag

LEMMA PublishingShrinks ==
    ASSUME \A c \in DOMAIN publishing : c.uri \notin OpenDocs, NEW C
    PROVE  \A c \in DOMAIN (D!(-)(publishing, D!SetToBag(C))) : c.uri \notin OpenDocs
BY DEF D!(-), D!SetToBag

\* A handler that goes from one place to another, and what it carries.
LEMMA HandlerTyped ==
    ASSUME ShownTyped, NEW h \in Handlers, NEW e,
           handler' = [handler EXCEPT ![h] = e],
           Carries(e),
           UNCHANGED <<texts, shown, records, files, running, events, publishing>>
    PROVE  ShownTyped'
<1>1. DOMAIN handler' = Handlers
      /\ \A k \in Handlers : handler'[k] = IF k = h THEN e ELSE handler[k]
  BY DEF ShownTyped
<1> QED  BY <1>1, Zenon DEF ShownTyped

LEMMA RecordedTypes ==
    ASSUME ShownTyped, NEW h \in Handlers, NEW d \in Docs, NEW R, NEW us,
           handler[h].changes # << >>, \A r \in R : r.oath = d,
           D!Recorded(h, d, R, us),
           UNCHANGED <<texts, shown, files, running, events, publishing>>
    PROVE  ShownTyped'
<1> DEFINE e == [handler[h] EXCEPT !.at = "publish", !.changes = Tail(@),
                                   !.got = D!None, !.left = us]
<1>1. handler' = [handler EXCEPT ![h] = e]
  BY DEF D!Recorded, ShownTyped
<1>2. /\ DOMAIN e = {"at", "changes", "got", "left"}
      /\ e.at = "publish" /\ e.changes = Tail(handler[h].changes)
  BY DEF ShownTyped, Carries
<1>3. e.changes \in Seq(Event)
  BY <1>2, EventsCut DEF ShownTyped, Carries
<1> HIDE DEF e
<1>8. Carries(e)
  BY <1>2, <1>3 DEF Carries
<1>4. DOMAIN handler' = Handlers
      /\ \A k \in Handlers : handler'[k] = IF k = h THEN e ELSE handler[k]
  BY <1>1 DEF ShownTyped
<1>5. DOMAIN records' = Docs
      /\ \A x \in Docs : records'[x] = IF x = d THEN R ELSE records[x]
  BY DEF D!Recorded, ShownTyped
<1>6. \A x \in Docs : \A r \in files'[x] \cup records'[x] : r.oath = x
  BY <1>5 DEF ShownTyped
<1>7. \A k \in Handlers : Carries(handler'[k])
  BY <1>4, <1>8 DEF ShownTyped
<1> QED  BY <1>4, <1>5, <1>6, <1>7 DEF ShownTyped

LEMMA ReindexTypes ==
    ASSUME ShownTyped, NEW P, D!Reindexed(P)
    PROVE  ShownTyped'
<1>1. DOMAIN shown' = Docs
  BY DEF D!Reindexed
<1>2. \A c \in DOMAIN publishing' : c.uri \notin OpenDocs
  <2> DEFINE C == {D!Call(u, P, D!None) :
                      u \in {v \in D!PublishedOaths(P) : D!Reads(v)}}
  <2>1. \A c \in C : c.uri \notin OpenDocs
    BY DEF D!Call, D!Reads
  <2>2. publishing' = D!(+)(publishing, D!SetToBag(C))
    BY DEF D!Reindexed
  <2> HIDE DEF C
  <2> QED  BY <2>1, <2>2, PublishingGrows DEF ShownTyped
<1> QED  BY <1>1, <1>2 DEF D!Reindexed, D!fileVars, ShownTyped

LEMMA NotifyTypes ==
    ASSUME ShownTyped, NEW h \in Handlers, D!Notify(h) PROVE ShownTyped'
<1>1. PICK n \in 1 .. Len(events) :
          /\ handler' = [handler EXCEPT ![h] =
                            [D!Idle EXCEPT !.at = "next", !.changes = SubSeq(events, 1, n)]]
          /\ events' = SubSeq(events, n + 1, Len(events))
  BY DEF D!Notify
<1> DEFINE e == [D!Idle EXCEPT !.at = "next", !.changes = SubSeq(events, 1, n)]
<1>2. SubSeq(events, 1, n) \in Seq(Event) /\ events' \in Seq(Event)
  BY <1>1 DEF ShownTyped
<1>3. /\ DOMAIN e = {"at", "changes", "got", "left"} /\ e.left = {}
      /\ e.at = "next" /\ e.changes = SubSeq(events, 1, n)
  BY DEF D!Idle, D!None
<1> HIDE DEF e
<1>6. Carries(e)
  BY <1>2, <1>3 DEF Carries
<1>4. DOMAIN handler' = Handlers
      /\ \A k \in Handlers : handler'[k] = IF k = h THEN e ELSE handler[k]
  BY <1>1 DEF ShownTyped, e
<1>5. \A k \in Handlers : Carries(handler'[k])
  BY <1>4, <1>6 DEF ShownTyped
<1> QED  BY <1>2, <1>4, <1>5 DEF D!Notify, ShownTyped

LEMMA ReadTypes ==
    ASSUME ShownTyped, NEW h \in Handlers, D!ReadResult(h) PROVE ShownTyped'
<1> DEFINE e == [handler[h] EXCEPT !.at = "read",
                                   !.got = files[Head(handler[h].changes).oath]]
<1>1. handler' = [handler EXCEPT ![h] = e]
  BY DEF D!ReadResult, ShownTyped
<1>2. /\ DOMAIN e = {"at", "changes", "got", "left"} /\ e.at = "read"
      /\ e.changes = handler[h].changes /\ e.left = handler[h].left
      /\ e.got = files[Head(handler[h].changes).oath]
  BY DEF ShownTyped, Carries
<1>3. handler[h].at = "next" /\ handler[h].changes # << >>
  BY DEF D!ReadResult, D!AtChange
<1>4. Head(handler[h].changes).oath \in Docs
  BY <1>3, EventsCut DEF ShownTyped, Carries, Event
<1>5. /\ handler[h].changes \in Seq(Event) /\ handler[h].left = {}
      /\ \A r \in files[Head(handler[h].changes).oath] :
            r.oath = Head(handler[h].changes).oath
  BY <1>3, <1>4 DEF ShownTyped, Carries
<1> HIDE DEF e
<1>6. Carries(e)
  BY <1>2, <1>3, <1>5 DEF Carries
<1> QED
  BY <1>1, <1>6, HandlerTyped DEF D!ReadResult, D!fileVars

LEMMA PublishTypes ==
    ASSUME ShownTyped, NEW h \in Handlers, NEW u \in Docs, D!PublishNext(h, u)
    PROVE  ShownTyped'
<1> DEFINE c == D!Call(u, problems, {h})
<1>1. /\ DOMAIN handler' = Handlers /\ DOMAIN shown' = Docs
      /\ \A k \in Handlers \ {h} : handler'[k] = handler[k]
      /\ DOMAIN handler'[h] = {"at", "changes", "got", "left"}
      /\ handler'[h].at \in {"publish", "await"}
      /\ handler'[h].changes = handler[h].changes
  BY DEF D!PublishNext, ShownTyped, Carries
<1>2. \A x \in DOMAIN publishing' : x.uri \notin OpenDocs
  <2>1. CASE D!Reads(u)
    <3>1. \A x \in {c} : x.uri \notin OpenDocs
      BY <2>1 DEF D!Reads, D!Call
    <3>2. publishing' = D!(+)(publishing, D!SetToBag({c}))
      BY <2>1 DEF D!PublishNext
    <3> HIDE DEF c
    <3> QED  BY <3>1, <3>2, PublishingGrows DEF ShownTyped
  <2>2. CASE ~D!Reads(u)
    BY <2>2 DEF D!PublishNext, ShownTyped
  <2> QED  BY <2>1, <2>2
<1>3. UNCHANGED <<texts, records, files, running, events>>
  BY DEF D!PublishNext, D!fileVars
<1>4. \A k \in Handlers : Carries(handler'[k])
  BY <1>1 DEF ShownTyped, Carries
<1> QED  BY <1>1, <1>2, <1>3, <1>4 DEF ShownTyped

LEMMA PublishReadTypes ==
    ASSUME ShownTyped, NEW c, D!PublishRead(c) PROVE ShownTyped'
<1>1. \A x \in DOMAIN publishing' : x.uri \notin OpenDocs
  BY PublishingShrinks DEF D!PublishRead, ShownTyped
<1>2. DOMAIN handler' = Handlers
      /\ \A k \in Handlers :
            handler'[k] = handler[k] \/ handler'[k] = [handler[k] EXCEPT !.at = "publish"]
  BY DEF D!PublishRead
<1>3. ASSUME NEW k \in Handlers PROVE Carries(handler'[k])
  <2> DEFINE e == [handler[k] EXCEPT !.at = "publish"]
  <2>1. Carries(handler[k])
    BY DEF ShownTyped
  <2>2. /\ DOMAIN e = {"at", "changes", "got", "left"} /\ e.at = "publish"
        /\ e.changes = handler[k].changes
    BY <2>1 DEF Carries
  <2> HIDE DEF e
  <2>3. Carries(e)
    BY <2>1, <2>2 DEF Carries
  <2> QED  BY <1>2, <2>1, <2>3 DEF e
<1>4. DOMAIN shown' = Docs /\ UNCHANGED <<texts, records, files, running, events>>
  BY DEF D!PublishRead, D!fileVars, ShownTyped
<1> QED  BY <1>1, <1>2, <1>3, <1>4 DEF ShownTyped

LEMMA ShownTypedKeeps == ShownTyped /\ [D!Next]_D!vars => ShownTyped'
<1> SUFFICES ASSUME ShownTyped, [D!Next]_D!vars PROVE ShownTyped'
  OBVIOUS
<1>1. ASSUME NEW d \in Docs, D!Edit(d) PROVE ShownTyped'
  BY <1>1 DEF D!Edit, D!fileVars, ShownTyped
<1>2. ASSUME NEW d \in Docs, D!RunStarts(d) PROVE ShownTyped'
  BY <1>2 DEF D!RunStarts, D!fileVars, ShownTyped
<1>3. ASSUME NEW d \in Docs, D!RunEnds(d) PROVE ShownTyped'
  <2>1. PICK t \in running[d] : \E r \in D!Results(d, t) : files' = [files EXCEPT ![d] = {r}]
    BY <1>3 DEF D!RunEnds
  <2>2. PICK r \in D!Results(d, t) : files' = [files EXCEPT ![d] = {r}]
    BY <2>1
  <2>3. DOMAIN files' = Docs /\ \A x \in Docs : \A q \in files'[x] : q.oath = x
    BY <2>2, ResultsAreOf DEF ShownTyped
  <2>4. events' \in Seq(Event)
    BY <1>3 DEF D!RunEnds, ShownTyped, Event
  <2>5. DOMAIN running' = Docs
        /\ UNCHANGED <<texts, records, handler, publishing, shown>>
    BY <1>3 DEF D!RunEnds, ShownTyped
  <2> QED  BY <2>3, <2>4, <2>5 DEF ShownTyped
<1>4. ASSUME NEW d \in Docs, D!ResultGoes(d) PROVE ShownTyped'
  <2>1. DOMAIN files' = Docs /\ \A x \in Docs : \A q \in files'[x] : q.oath = x
    BY <1>4 DEF D!ResultGoes, D!None, ShownTyped
  <2>2. events' \in Seq(Event)
    BY <1>4 DEF D!ResultGoes, ShownTyped, Event
  <2>3. UNCHANGED <<texts, running, records, handler, publishing, shown>>
    BY <1>4 DEF D!ResultGoes
  <2> QED  BY <2>1, <2>2, <2>3 DEF ShownTyped
<1>5. ASSUME NEW P, D!Reindexed(P) PROVE ShownTyped'
  BY <1>5, ReindexTypes
<1>6. ASSUME NEW h \in Handlers, D!Handle(h) PROVE ShownTyped'
  <2>1. CASE D!Notify(h)
    BY <2>1, NotifyTypes
  <2>2. CASE D!ReadResult(h)
    BY <2>2, ReadTypes
  <2>3. CASE D!Ingest(h)
    <3> DEFINE d == Head(handler[h].changes).oath  got == handler[h].got
    <3>1. /\ handler[h].changes # << >> /\ \A r \in got : r.oath = d
          /\ d \in Docs
      <4>1. handler[h].at = "read" /\ Carries(handler[h])
        BY <2>3 DEF D!Ingest, ShownTyped
      <4> QED  BY <4>1, EventsCut DEF Carries, Event
    <3>2. UNCHANGED <<texts, shown, files, running, events, publishing>>
      BY <2>3 DEF D!Ingest, D!fileVars
    <3>3. \/ D!Recorded(h, d, records[d], {})
          \/ D!Recorded(h, d, got, D!Affected(d, records[d], got))
      BY <2>3 DEF D!Ingest
    <3>4. \A r \in records[d] : r.oath = d
      BY <3>1 DEF ShownTyped
    <3> HIDE DEF d, got
    <3>5. CASE D!Recorded(h, d, records[d], {})
      BY <3>1, <3>2, <3>4, <3>5, RecordedTypes
    <3>6. CASE D!Recorded(h, d, got, D!Affected(d, records[d], got))
      BY <3>1, <3>2, <3>6, RecordedTypes
    <3> QED  BY <3>3, <3>5, <3>6
  <2>4. CASE D!Remove(h)
    <3> DEFINE d == Head(handler[h].changes).oath
    <3>1. handler[h].changes # << >> /\ d \in Docs
      <4>1. handler[h].changes # << >> /\ Carries(handler[h])
        BY <2>4 DEF D!Remove, D!AtChange, ShownTyped
      <4> QED  BY <4>1, EventsCut DEF Carries, Event
    <3>2. UNCHANGED <<texts, shown, files, running, events, publishing>>
      BY <2>4 DEF D!Remove, D!fileVars
    <3>3. PICK us : D!Recorded(h, d, {}, us)
      BY <2>4 DEF D!Remove, D!None
    <3> HIDE DEF d
    <3> QED  BY <3>1, <3>2, <3>3, RecordedTypes
  <2>5. CASE D!ChangeDone(h)
    <3>1. \A k \in Handlers \ {h} : handler'[k] = handler[k]
      BY <2>5 DEF D!ChangeDone, ShownTyped
    <3>2. /\ handler[h].left = {} /\ DOMAIN handler' = Handlers
          /\ handler'[h] = IF handler[h].changes = << >> THEN D!Idle
                           ELSE [handler[h] EXCEPT !.at = "next"]
      BY <2>5 DEF D!ChangeDone, ShownTyped
    <3>3. Carries(handler[h])
      BY DEF ShownTyped
    <3>4. Carries(D!Idle)
      BY DEF Carries, D!Idle, D!None
    <3>5. Carries([handler[h] EXCEPT !.at = "next"])
      <4> DEFINE e == [handler[h] EXCEPT !.at = "next"]
      <4>1. /\ DOMAIN e = {"at", "changes", "got", "left"} /\ e.at = "next"
            /\ e.changes = handler[h].changes /\ e.left = handler[h].left
        BY <3>3 DEF Carries
      <4> HIDE DEF e
      <4>2. Carries(e)
        BY <3>2, <3>3, <4>1 DEF Carries
      <4> QED  BY <4>2 DEF e
    <3>6. \A k \in Handlers : Carries(handler'[k])
      BY <3>1, <3>2, <3>4, <3>5 DEF ShownTyped
    <3> QED  BY <2>5, <3>2, <3>6 DEF D!ChangeDone, D!fileVars, ShownTyped
  <2>6. ASSUME NEW u \in Docs, D!PublishNext(h, u) PROVE ShownTyped'
    BY <2>6, PublishTypes
  <2> QED  BY <1>6, <2>1, <2>2, <2>3, <2>4, <2>5, <2>6 DEF D!Handle
<1>7. ASSUME NEW c, D!PublishRead(c) PROVE ShownTyped'
  BY <1>7, PublishReadTypes
<1>8. CASE UNCHANGED D!vars
  BY <1>8 DEF D!vars, D!fileVars, ShownTyped
<1> QED
  BY <1>1, <1>2, <1>3, <1>4, <1>5, <1>6, <1>7, <1>8 DEF D!Next, D!Reindex, D!AcceptDrift

--------------------------------------------------------------------------------
\* An open document shows what the records have in its text, or somebody is to publish it:
\* the handler of a change that speaks of it, or the reindex after an edit.
ShownInv ==
    \A u \in OpenDocs :
        \/ \E h \in Handlers : u \in handler[h].left
        \/ shown[u].run = D!Now(u)
        \/ dirty /\ D!ResultsFor(u) # {}

\* What a document shows of records and a text that stay.
LEMMA NowStays ==
    ASSUME NEW u, D!ResultsFor(u)' = D!ResultsFor(u), texts'[u] = texts[u]
    PROVE  D!Now(u)' = D!Now(u)
BY DEF D!Now, D!RunDiagnostics, D!RanText

\* What affects the results for a document is a change that speaks of it.
LEMMA OthersStay ==
    ASSUME ShownTyped, NEW d \in Docs, NEW R, \A r \in R : r.oath = d,
           records' = [records EXCEPT ![d] = R],
           NEW u, u \notin D!Affected(d, records[d], R)
    PROVE  D!ResultsFor(u)' = D!ResultsFor(u)
<1>1. /\ u # d
      /\ \A r \in R \cup records[d] : u \notin DOMAIN r.documents /\ r.oath # u
  BY DEF D!Affected, D!Documents, ShownTyped
<1>2. \A x \in Docs : records'[x] = IF x = d THEN R ELSE records[x]
  BY DEF ShownTyped
<1>3. D!ResultsFor(u)' =
          {r \in UNION {records'[x] : x \in Docs} : r.oath = u \/ u \in DOMAIN r.documents}
  BY DEF D!ResultsFor
<1>4. ASSUME NEW r PROVE r \in D!ResultsFor(u)' <=> r \in D!ResultsFor(u)
  BY <1>1, <1>2, <1>3 DEF D!ResultsFor
<1>5. D!ResultsFor(u)' \subseteq D!ResultsFor(u) /\ D!ResultsFor(u) \subseteq D!ResultsFor(u)'
  BY <1>4
<1> QED  BY <1>5

LEMMA RecordedShows ==
    ASSUME ShownTyped, ShownInv, NEW h \in Handlers, NEW d \in Docs, NEW R, NEW us,
           handler[h].left = {}, \A r \in R : r.oath = d,
           D!Recorded(h, d, R, us), UNCHANGED <<texts, dirty, shown>>,
           us = D!Affected(d, records[d], R) \/ R = records[d]
    PROVE  ShownInv'
<1> SUFFICES ASSUME NEW u \in OpenDocs,
                    \A k \in Handlers : u \notin handler'[k].left
             PROVE  shown'[u].run = D!Now(u)' \/ (dirty' /\ D!ResultsFor(u)' # {})
  BY DEF ShownInv
<1>1. handler'[h].left = us /\ \A k \in Handlers \ {h} : handler'[k] = handler[k]
  BY DEF D!Recorded, ShownTyped, Carries
<1>2. \A k \in Handlers : u \notin handler[k].left
  BY <1>1
<1>3. D!ResultsFor(u)' = D!ResultsFor(u)
  <2>1. CASE us = D!Affected(d, records[d], R)
    <3>1. u \notin D!Affected(d, records[d], R)
      BY <1>1, <2>1
    <3>2. records' = [records EXCEPT ![d] = R]
      BY DEF D!Recorded
    <3> QED  BY <3>1, <3>2, OthersStay
  <2>2. CASE R = records[d]
    <3>1. \A x \in Docs : records'[x] = records[x]
      BY <2>2 DEF D!Recorded, ShownTyped
    <3> QED  BY <3>1 DEF D!ResultsFor
  <2> QED  BY <2>1, <2>2
<1>4. D!Now(u)' = D!Now(u)
  BY <1>3, NowStays
<1> QED  BY <1>2, <1>3, <1>4 DEF ShownInv

LEMMA ReindexShows ==
    ASSUME ShownTyped, ShownInv, NEW P, D!Reindexed(P)
    PROVE  ShownInv'
<1> SUFFICES ASSUME NEW u \in OpenDocs,
                    \A k \in Handlers : u \notin handler'[k].left
             PROVE  shown'[u].run = D!Now(u)'
  BY DEF ShownInv
<1>1. u \in Docs /\ ~D!Reads(u)
  BY DocsAssumption DEF D!Reads
<1>2. UNCHANGED <<texts, records, handler>>
  BY DEF D!Reindexed
<1>3. D!Now(u)' = D!Now(u)
  BY <1>2, NowStays DEF D!ResultsFor
<1>4. CASE u \in D!PublishedOaths(P)
  <2>1. shown'[u] = D!Sends(D!Call(u, P, D!None))
    BY <1>1, <1>4 DEF D!Reindexed
  <2> QED  BY <1>3, <2>1 DEF D!Sends, D!Call, D!Now
<1>5. CASE u \notin D!PublishedOaths(P)
  <2>1. shown'[u] = shown[u]
    BY <1>1, <1>5 DEF D!Reindexed
  <2>2. \A d \in Docs : \A r \in records[d] : r.oath # u /\ u \notin DOMAIN r.documents
    BY <1>1, <1>5 DEF D!PublishedOaths, D!Documents, D!None, ShownTyped
  <2>3. D!ResultsFor(u) = {}
    BY <2>2 DEF D!ResultsFor
  <2> QED  BY <1>2, <1>3, <2>1, <2>3 DEF ShownInv
<1> QED  BY <1>4, <1>5

LEMMA ShownStarts == D!Init => ShownInv
<1> SUFFICES ASSUME D!Init, NEW u \in OpenDocs PROVE shown[u].run = D!Now(u)
  BY DEF ShownInv
<1>1. u \in Docs
  BY DocsAssumption
<1>2. shown[u].run = {} /\ \A d \in Docs : records[d] = {}
  BY <1>1 DEF D!Init, D!None
<1>3. D!ResultsFor(u) = {}
  BY <1>2 DEF D!ResultsFor
<1> QED  BY <1>2, <1>3 DEF D!Now, D!RunDiagnostics

LEMMA ShownKeeps == ShownTyped /\ ShownInv /\ [D!Next]_D!vars => ShownInv'
<1> SUFFICES ASSUME ShownTyped, ShownInv, [D!Next]_D!vars PROVE ShownInv'
  OBVIOUS
<1>1. ASSUME UNCHANGED <<texts, records, shown, dirty>>,
             \A u \in OpenDocs :
                 (\E h \in Handlers : u \in handler[h].left)
                     => \E h \in Handlers : u \in handler'[h].left
      PROVE  ShownInv'
  <2>1. \A u \in OpenDocs : D!ResultsFor(u)' = D!ResultsFor(u)
    BY <1>1 DEF D!ResultsFor
  <2>2. \A u \in OpenDocs : D!Now(u)' = D!Now(u)
    BY <1>1, <2>1, NowStays
  <2> QED  BY <1>1, <2>1, <2>2 DEF ShownInv
<1>2. ASSUME NEW d \in Docs, D!Edit(d) PROVE ShownInv'
  <2>1. UNCHANGED <<records, shown, handler>> /\ dirty'
    BY <1>2 DEF D!Edit
  <2> SUFFICES ASSUME NEW u \in OpenDocs, \A h \in Handlers : u \notin handler[h].left,
                      D!ResultsFor(u) = {}
               PROVE  shown'[u].run = D!Now(u)'
    <3>1. \A u \in OpenDocs : D!ResultsFor(u)' = D!ResultsFor(u)
      BY <2>1 DEF D!ResultsFor
    <3> QED  BY <2>1, <3>1 DEF ShownInv
  <2>2. D!ResultsFor(u)' = {}
    BY <2>1 DEF D!ResultsFor
  <2>3. D!Now(u) = {} /\ D!Now(u)' = {}
    BY <2>2 DEF D!Now, D!RunDiagnostics
  <2> QED  BY <2>1, <2>3 DEF ShownInv
<1>3. ASSUME NEW d \in Docs, D!RunStarts(d) \/ D!RunEnds(d) \/ D!ResultGoes(d)
      PROVE  ShownInv'
  BY <1>1, <1>3 DEF D!RunStarts, D!RunEnds, D!ResultGoes
<1>4. ASSUME NEW P, D!Reindexed(P) PROVE ShownInv'
  BY <1>4, ReindexShows
<1>5. ASSUME NEW h \in Handlers, D!Handle(h) PROVE ShownInv'
  <2>1. CASE D!Notify(h)
    <3>1. handler[h].left = {} /\ \A k \in Handlers \ {h} : handler'[k] = handler[k]
      BY <2>1 DEF D!Notify, D!Idle, D!None, ShownTyped
    <3> QED  BY <1>1, <2>1, <3>1 DEF D!Notify
  <2>2. CASE D!ReadResult(h)
    <3>1. \A k \in Handlers : handler'[k].left = handler[k].left
      BY <2>2 DEF D!ReadResult, ShownTyped, Carries
    <3> QED  BY <1>1, <2>2, <3>1 DEF D!ReadResult
  <2>3. CASE D!Ingest(h)
    <3> DEFINE d == Head(handler[h].changes).oath  got == handler[h].got
    <3>1. /\ handler[h].left = {} /\ \A r \in got : r.oath = d
          /\ d \in Docs
      <4>1. handler[h].at = "read" /\ Carries(handler[h])
        BY <2>3 DEF D!Ingest, ShownTyped
      <4> QED  BY <4>1, EventsCut DEF Carries, Event
    <3>2. UNCHANGED <<texts, dirty, shown>>
      BY <2>3 DEF D!Ingest
    <3>3. \/ D!Recorded(h, d, records[d], {})
          \/ D!Recorded(h, d, got, D!Affected(d, records[d], got))
      BY <2>3 DEF D!Ingest
    <3>4. \A r \in records[d] : r.oath = d
      BY <3>1 DEF ShownTyped
    <3> HIDE DEF d, got
    <3>5. CASE D!Recorded(h, d, records[d], {})
      BY <3>1, <3>2, <3>4, <3>5, RecordedShows
    <3>6. CASE D!Recorded(h, d, got, D!Affected(d, records[d], got))
      BY <3>1, <3>2, <3>6, RecordedShows
    <3> QED  BY <3>3, <3>5, <3>6
  <2>4. CASE D!Remove(h)
    <3> DEFINE d == Head(handler[h].changes).oath
    <3>1. handler[h].left = {} /\ d \in Docs
      <4>1. /\ handler[h].at = "next" /\ handler[h].changes # << >>
            /\ Carries(handler[h])
        BY <2>4 DEF D!Remove, D!AtChange, ShownTyped
      <4> QED  BY <4>1, EventsCut DEF Carries, Event
    <3>2. UNCHANGED <<texts, dirty, shown>>
      BY <2>4 DEF D!Remove
    <3>3. \/ records[d] = {} /\ D!Recorded(h, d, {}, {})
          \/ D!Recorded(h, d, {}, D!Affected(d, records[d], {}))
      BY <2>4 DEF D!Remove, D!None
    <3> HIDE DEF d
    <3>4. CASE records[d] = {} /\ D!Recorded(h, d, {}, {})
      BY <3>1, <3>2, <3>4, RecordedShows
    <3>5. CASE D!Recorded(h, d, {}, D!Affected(d, records[d], {}))
      BY <3>1, <3>2, <3>5, RecordedShows
    <3> QED  BY <3>3, <3>4, <3>5
  <2>5. CASE D!ChangeDone(h)
    <3>1. handler[h].left = {} /\ \A k \in Handlers \ {h} : handler'[k] = handler[k]
      BY <2>5 DEF D!ChangeDone, ShownTyped
    <3> QED  BY <1>1, <2>5, <3>1 DEF D!ChangeDone
  <2>6. ASSUME NEW v \in Docs, D!PublishNext(h, v) PROVE ShownInv'
    <3>1. /\ UNCHANGED <<texts, records, dirty>>
          /\ \A k \in Handlers \ {h} : handler'[k] = handler[k]
          /\ handler'[h].left = handler[h].left \ {v}
      BY <2>6 DEF D!PublishNext, D!fileVars, ShownTyped, Carries
    <3>2. \A u \in OpenDocs : D!ResultsFor(u)' = D!ResultsFor(u)
      BY <3>1 DEF D!ResultsFor
    <3>3. \A u \in OpenDocs : D!Now(u)' = D!Now(u)
      BY <3>1, <3>2, NowStays
    <3>4. \A u \in OpenDocs \ {v} : shown'[u] = shown[u]
      BY <2>6, DocsAssumption DEF D!PublishNext, ShownTyped
    <3>5. v \in OpenDocs => shown'[v].run = D!Now(v)
      <4>1. v \in OpenDocs => ~D!Reads(v)
        BY DEF D!Reads
      <4>2. v \in OpenDocs => shown'[v] = D!Sends(D!Call(v, problems, {h}))
        BY <2>6, <4>1 DEF D!PublishNext, ShownTyped
      <4> QED  BY <4>2 DEF D!Sends, D!Call, D!Now
    <3> QED  BY <3>1, <3>2, <3>3, <3>4, <3>5 DEF ShownInv
  <2> QED  BY <1>5, <2>1, <2>2, <2>3, <2>4, <2>5, <2>6 DEF D!Handle
<1>6. ASSUME NEW c \in D!BagToSet(publishing), D!PublishRead(c) PROVE ShownInv'
  <2>1. c.uri \notin OpenDocs
    BY DEF ShownTyped, D!BagToSet
  <2>2. /\ UNCHANGED <<texts, records, dirty>>
        /\ \A k \in Handlers : handler'[k].left = handler[k].left
    BY <1>6 DEF D!PublishRead, D!fileVars, ShownTyped, Carries
  <2>3. \A u \in OpenDocs : shown'[u] = shown[u]
    BY <1>6, <2>1, DocsAssumption DEF D!PublishRead, ShownTyped
  <2>4. \A u \in OpenDocs : D!ResultsFor(u)' = D!ResultsFor(u)
    BY <2>2 DEF D!ResultsFor
  <2>5. \A u \in OpenDocs : D!Now(u)' = D!Now(u)
    BY <2>2, <2>4, NowStays
  <2> QED  BY <2>2, <2>3, <2>4, <2>5 DEF ShownInv
<1>7. CASE UNCHANGED D!vars
  BY <1>1, <1>7 DEF D!vars, D!fileVars
<1> QED
  BY <1>2, <1>3, <1>4, <1>5, <1>6, <1>7 DEF D!Next, D!Reindex, D!AcceptDrift

\* Once all is quiet, the editor shows of every open document exactly the failures that the
\* records have in its text as it is now (server.ts:148-150): whatever results come, go, and
\* are handled at once, and whatever is typed in between.
THEOREM RunsAreShown == D!Spec => []RunsShown
<1>1. ShownTyped /\ ShownInv => RunsShown
  BY DEF RunsShown, D!RunsShown, D!Quiet, D!Idle, D!None, ShownInv
<1>2. D!Init => ShownTyped /\ ShownInv
  BY ShownTypedStarts, ShownStarts
<1>3. ShownTyped /\ ShownInv /\ [D!Next]_D!vars => (ShownTyped /\ ShownInv)'
  BY ShownTypedKeeps, ShownKeeps
<1> QED  BY <1>1, <1>2, <1>3, PTL DEF D!Spec

--------------------------------------------------------------------------------
\* A document that is open is published without a read, so at once.
ProblemsInv == \A u \in OpenDocs \cap problems : shown[u].parse

LEMMA ReindexShowsProblems ==
    ASSUME NEW P, D!Reindexed(P) PROVE ProblemsInv'
<1> SUFFICES ASSUME NEW u \in OpenDocs \cap P PROVE shown'[u].parse
  BY DEF ProblemsInv, D!Reindexed
<1>1. u \in Docs /\ u \in D!PublishedOaths(P) /\ ~D!Reads(u)
  BY DocsAssumption DEF D!PublishedOaths, D!Reads
<1>2. shown'[u] = D!Sends(D!Call(u, P, D!None))
  BY <1>1 DEF D!Reindexed
<1>3. shown'[u].parse = (u \in P)
  BY <1>2 DEF D!Sends, D!Call
<1> QED  BY <1>3

LEMMA ProblemsKeep == ShownTyped /\ ProblemsInv /\ [D!Next]_D!vars => ProblemsInv'
<1> SUFFICES ASSUME ShownTyped, ProblemsInv, [D!Next]_D!vars PROVE ProblemsInv'
  OBVIOUS
<1>1. CASE UNCHANGED <<problems, shown>>
  BY <1>1 DEF ProblemsInv
<1>2. ASSUME NEW P, D!Reindexed(P) PROVE ProblemsInv'
  BY <1>2, ReindexShowsProblems
<1>3. ASSUME NEW h \in Handlers, NEW v \in Docs, D!PublishNext(h, v) PROVE ProblemsInv'
  <2>1. \A u \in OpenDocs \ {v} : shown'[u] = shown[u]
    BY <1>3, DocsAssumption DEF D!PublishNext, ShownTyped
  <2>2. v \in OpenDocs => shown'[v].parse = (v \in problems)
    <3>1. v \in OpenDocs => ~D!Reads(v)
      BY DEF D!Reads
    <3>2. v \in OpenDocs => shown'[v] = D!Sends(D!Call(v, problems, {h}))
      BY <1>3, <3>1 DEF D!PublishNext, ShownTyped
    <3> QED  BY <3>2 DEF D!Sends, D!Call
  <2>3. problems' = problems
    BY <1>3 DEF D!PublishNext
  <2> QED  BY <2>1, <2>2, <2>3 DEF ProblemsInv
<1>4. ASSUME NEW c \in D!BagToSet(publishing), D!PublishRead(c) PROVE ProblemsInv'
  <2>1. c.uri \notin OpenDocs
    BY DEF ShownTyped, D!BagToSet
  <2>2. problems' = problems /\ \A u \in OpenDocs : shown'[u] = shown[u]
    BY <1>4, <2>1, DocsAssumption DEF D!PublishRead, ShownTyped
  <2> QED  BY <2>2 DEF ProblemsInv
<1> QED
  BY <1>1, <1>2, <1>3, <1>4 DEF D!Next, D!Edit, D!RunStarts, D!RunEnds, D!ResultGoes,
     D!AcceptDrift, D!Reindex, D!Handle, D!Notify, D!ReadResult, D!Ingest, D!Remove,
     D!ChangeDone, D!vars

\* An open document that has a problem shows it, whatever results are handled and whatever
\* reindexes land in between (publishAll, publishFor).
THEOREM ProblemsAreShown == D!Spec => []ProblemsShown
<1>1. D!Init => ProblemsInv
  <2> SUFFICES ASSUME D!Init, NEW u \in OpenDocs \cap problems PROVE shown[u].parse
    BY DEF ProblemsInv
  <2>1. u \in Docs
    BY DocsAssumption
  <2>2. shown[u].parse = (u \in problems)
    BY <2>1 DEF D!Init
  <2> QED  BY <2>2
<1>2. ProblemsInv => ProblemsShown
  BY DEF ProblemsInv, ProblemsShown, D!ProblemsShown
<1> QED
  BY <1>1, <1>2, ShownTypedStarts, ShownTypedKeeps, ProblemsKeep, PTL DEF D!Spec

--------------------------------------------------------------------------------
\* What is checked of both machines at once is checked of each.
THEOREM ResultsAreOfBoth == MCSpec => Spec /\ D!Spec
<1>1. MCInit => Init /\ D!Init
  BY DEF MCInit
<1>2. [MCNext]_allVars => [Next]_vars /\ [D!Next]_D!vars
  <2>1. UNCHANGED shownVars => UNCHANGED D!vars
    BY DEF shownVars, D!vars, D!fileVars
  <2>2. UNCHANGED allVars => UNCHANGED vars /\ UNCHANGED shownVars
    BY DEF allVars
  <2>3. UNCHANGED <<vars, showing>> => UNCHANGED vars
    OBVIOUS
  <2>4. UNCHANGED <<shownVars, showing>> => UNCHANGED shownVars
    OBVIOUS
  <2> QED  BY <2>1, <2>2, <2>3, <2>4, Zenon DEF MCNext
<1> QED  BY <1>1, <1>2, PTL DEF MCSpec, Spec, D!Spec
================================================================================
