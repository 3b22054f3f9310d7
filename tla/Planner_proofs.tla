----------------------------- MODULE Planner_proofs -----------------------------
(***************************************************************************)
(* For every project, whatever its oaths are and however they refer to each *)
(* other: references are resolved through distinct sections, so resolution  *)
(* nests no deeper than the project has referenced sections; no paragraph is *)
(* lost to a plan, wherever it is spliced in; examples begin and end at the *)
(* delimiters of their own oath; and the steps of a plan, and those that a  *)
(* hover shows, are the flattening of the references, depth first.          *)
(*                                                                         *)
(* The first follows from the frames (IInv).  The next add to them which    *)
(* oath is planned and what is under construction (StateInv), which places  *)
(* the examples already run (ProgressInv, PlansInv), and where they are in  *)
(* the oath (RunInv, PlansRunOn).  For the last, the frames owe what is     *)
(* still to be spliced in (FlatInv), and the examples told so far and the   *)
(* units left come to what the whole oath comes to (TellInv).               *)
(***************************************************************************)
EXTENDS Flattening, FiniteSetTheorems, SequenceTheorems, WellFoundedInduction, TLAPS

\* A unit is what one candidate contributes: one step.
IsSteps(ss) == \E S : ss \in Seq(S)

IsUnit(u) ==
    /\ {"name", "scope", "from", "to", "steps", "fails"} \subseteq DOMAIN u
    /\ IsSteps(u.steps) /\ Len(u.steps) = 1
    /\ {"doc", "at", "docPath"} \subseteq DOMAIN u.steps[1]

UnitSeq(us) == IsSteps(us) /\ \A j \in 1 .. Len(us) : IsUnit(us[j])

\* The places steps were written at, and those of the steps of examples or units.
StepPlaces(ss) == {<<ss[j].doc, ss[j].at>> : j \in DOMAIN ss}
Ran(es) == UNION {StepPlaces(es[i].steps) : i \in DOMAIN es}

\* What a call of resolveReference must carry for the chain, and for what it splices
\* in, to be right.
FrameFields == {"key", "path", "left", "out", "from", "at"}

IsFrame(f) ==
    /\ FrameFields \subseteq DOMAIN f
    /\ f.path \in Paths
    /\ f.key \in Referenced
    /\ f.path = f.key[1]
    /\ f.left \subseteq SectionCandidates(docs[f.path], f.key[2])
    /\ UnitSeq(f.out)

\* A sequence of frames whose keys are distinct.
FramesOf(fs) ==
    /\ \E S : fs \in Seq(S)
    /\ \A i \in 1 .. Len(fs) : IsFrame(fs[i])
    /\ \A i, j \in 1 .. Len(fs) : fs[i].key = fs[j].key => i = j

FramesOK == FramesOf(frames)

\* The units are candidates of the host.
UnitsOK == \A p \in host : p \in Paths /\ units \subseteq DOMAIN docs[p]

IInv == FramesOK /\ UnitsOK

LEMMA NoUnits == UnitSeq(<< >>) /\ Ran(<< >>) = {}
<1>1. << >> \in Seq({}) /\ Len(<< >>) = 0 /\ DOMAIN << >> = {}
    OBVIOUS
<1> QED
    BY <1>1 DEF UnitSeq, IsSteps, Ran

\* The unit of a candidate, tagged or not, has a step written there.
LEMMA UnitOfCandidate ==
    ASSUME NEW p, NEW i
    PROVE  IsUnit(Unit(p, i)) /\ StepPlaces(Unit(p, i).steps) = {<<p, i>>}
<1> DEFINE s == [doc |-> p, at |-> i, docPath |-> None]
<1>1. <<s>> \in Seq({s}) /\ Len(<<s>>) = 1 /\ DOMAIN <<s>> = {1} /\ <<s>>[1] = s
    OBVIOUS
<1>2. Unit(p, i).steps = <<s>>
    BY DEF Unit
<1>3. {"name", "scope", "from", "to", "steps", "fails"} \subseteq DOMAIN Unit(p, i)
    BY DEF Unit
<1>4. {"doc", "at", "docPath"} \subseteq DOMAIN s /\ s.doc = p /\ s.at = i
    OBVIOUS
<1> HIDE DEF s
<1> QED
    BY <1>1, <1>2, <1>3, <1>4 DEF IsUnit, IsSteps, StepPlaces

LEMMA TaggedUnit ==
    ASSUME NEW path, NEW from, NEW u, IsUnit(u)
    PROVE  /\ IsUnit(Tagged(path, from, u))
           /\ StepPlaces(Tagged(path, from, u).steps) = StepPlaces(u.steps)
<1>1. CASE path = from
    BY <1>1 DEF Tagged
<1>2. CASE path # from
    <2> DEFINE s == [u.steps[1] EXCEPT !.docPath = {path}]
               ss == [u.steps EXCEPT ![1] = s]
               v == [u EXCEPT !.steps = ss]
    <2>1. Tagged(path, from, u) = v
        BY <1>2 DEF Tagged
    <2>2. v.steps = ss /\ DOMAIN v = DOMAIN u
        BY DEF IsUnit
    <2>3. PICK S : u.steps \in Seq(S)
        BY DEF IsUnit, IsSteps
    <2>4. Len(u.steps) = 1 /\ DOMAIN u.steps = {1}
        BY <2>3 DEF IsUnit
    <2>5. DOMAIN s = DOMAIN u.steps[1] /\ s.doc = u.steps[1].doc /\ s.at = u.steps[1].at
        BY DEF IsUnit
    <2> HIDE DEF s
    <2>6. ss \in Seq(S \cup {s}) /\ Len(ss) = 1 /\ DOMAIN ss = {1} /\ ss[1] = s
        BY <2>3, <2>4
    <2> HIDE DEF ss, v
    <2>7. IsUnit(v)
        BY <2>2, <2>5, <2>6 DEF IsUnit, IsSteps
    <2>8. StepPlaces(ss) = StepPlaces(u.steps)
        BY <2>4, <2>5, <2>6 DEF StepPlaces
    <2> QED
        BY <2>1, <2>2, <2>7, <2>8
<1> QED
    BY <1>1, <1>2

\* Sequences of examples or units, one put behind another.
LEMMA RanAppended ==
    ASSUME NEW es, IsSteps(es), NEW e
    PROVE  /\ IsSteps(Append(es, e))
           /\ Ran(Append(es, e)) = Ran(es) \cup StepPlaces(e.steps)
           /\ Len(Append(es, e)) = Len(es) + 1 /\ Len(es) \in Nat
           /\ Append(es, e)[Len(es) + 1] = e
           /\ \A i \in 1 .. Len(es) : Append(es, e)[i] = es[i]
<1>1. PICK S : es \in Seq(S)
    BY DEF IsSteps
<1> DEFINE fs == Append(es, e)
<1>2. /\ fs \in Seq(S \cup {e}) /\ Len(fs) = Len(es) + 1 /\ Len(es) \in Nat
      /\ fs[Len(es) + 1] = e
      /\ \A i \in 1 .. Len(es) : fs[i] = es[i]
    BY <1>1
<1>3. DOMAIN es = 1 .. Len(es) /\ DOMAIN fs = 1 .. Len(fs)
    BY <1>1, <1>2
<1> HIDE DEF fs
<1>4. \A i \in DOMAIN fs : i = Len(es) + 1 \/ i \in DOMAIN es
    BY <1>2, <1>3
<1>5. Len(es) + 1 \in DOMAIN fs /\ \A i \in DOMAIN es : i \in DOMAIN fs
    BY <1>2, <1>3
<1>6. \A i \in DOMAIN es : fs[i] = es[i]
    BY <1>2, <1>3
<1>7. Ran(fs) = Ran(es) \cup StepPlaces(e.steps)
    <2>1. ASSUME NEW x \in Ran(fs) PROVE x \in Ran(es) \cup StepPlaces(e.steps)
        <3>1. PICK i \in DOMAIN fs : x \in StepPlaces(fs[i].steps)
            BY <2>1 DEF Ran
        <3> QED
            BY <3>1, <1>2, <1>4, <1>6 DEF Ran
    <2>2. ASSUME NEW x \in Ran(es) PROVE x \in Ran(fs)
        BY <2>2, <1>5, <1>6 DEF Ran
    <2>3. StepPlaces(e.steps) \subseteq Ran(fs)
        BY <1>2, <1>5 DEF Ran
    <2> QED
        BY <2>1, <2>2, <2>3
<1> QED
    BY <1>2, <1>7 DEF fs, IsSteps

LEMMA RanJoined ==
    ASSUME NEW us, NEW vs, UnitSeq(us), UnitSeq(vs)
    PROVE  UnitSeq(us \o vs) /\ Ran(us \o vs) = Ran(us) \cup Ran(vs)
<1>1. PICK S : us \in Seq(S)
    BY DEF UnitSeq, IsSteps
<1>2. PICK T : vs \in Seq(T)
    BY DEF UnitSeq, IsSteps
<1> DEFINE ws == us \o vs  m == Len(us)  n == Len(vs)
<1>3. us \in Seq(S \cup T) /\ vs \in Seq(S \cup T)
    BY <1>1, <1>2
<1>4. /\ ws \in Seq(S \cup T) /\ Len(ws) = m + n /\ m \in Nat /\ n \in Nat
      /\ \A i \in 1 .. m : ws[i] = us[i]
      /\ \A i \in m + 1 .. m + n : ws[i] = vs[i - m]
    BY <1>3
<1>5. DOMAIN us = 1 .. m /\ DOMAIN vs = 1 .. n /\ DOMAIN ws = 1 .. m + n
    BY <1>1, <1>2, <1>4
<1> HIDE DEF ws, m, n
<1>6. \A i \in 1 .. m + n :
          (i \in 1 .. m /\ ws[i] = us[i]) \/ (i - m \in 1 .. n /\ ws[i] = vs[i - m])
    BY <1>4
<1>7. /\ \A i \in 1 .. m : i \in 1 .. m + n
      /\ \A i \in 1 .. n : i + m \in 1 .. m + n /\ ws[i + m] = vs[i]
    BY <1>4
<1>8. \A i \in 1 .. Len(ws) : IsUnit(ws[i])
    BY <1>4, <1>6 DEF UnitSeq, m, n
<1>9. Ran(ws) = Ran(us) \cup Ran(vs)
    <2>1. ASSUME NEW x \in Ran(ws) PROVE x \in Ran(us) \cup Ran(vs)
        <3>1. PICK i \in 1 .. m + n : x \in StepPlaces(ws[i].steps)
            BY <1>5, <2>1 DEF Ran
        <3> QED
            BY <3>1, <1>5, <1>6 DEF Ran
    <2>2. ASSUME NEW x \in Ran(us) PROVE x \in Ran(ws)
        BY <2>2, <1>4, <1>5, <1>7 DEF Ran
    <2>3. ASSUME NEW x \in Ran(vs) PROVE x \in Ran(ws)
        <3>1. PICK i \in 1 .. n : x \in StepPlaces(vs[i].steps)
            BY <1>5, <2>3 DEF Ran
        <3> QED
            BY <3>1, <1>5, <1>7 DEF Ran
    <2> QED
        BY <2>1, <2>2, <2>3
<1> QED
    BY <1>4, <1>8, <1>9 DEF ws, UnitSeq, IsSteps

LEMMA UnitAdded ==
    ASSUME NEW us, UnitSeq(us), NEW u, IsUnit(u)
    PROVE  UnitSeq(Append(us, u))
<1>1. /\ IsSteps(Append(us, u))
      /\ Len(Append(us, u)) = Len(us) + 1 /\ Len(us) \in Nat
      /\ Append(us, u)[Len(us) + 1] = u
      /\ \A i \in 1 .. Len(us) : Append(us, u)[i] = us[i]
    BY RanAppended DEF UnitSeq
<1>2. \A i \in 1 .. Len(us) + 1 : i = Len(us) + 1 \/ i \in 1 .. Len(us)
    BY <1>1
<1> QED
    BY <1>1, <1>2 DEF UnitSeq

--------------------------------------------------------------------------------
\* A reference met in a document is one of the project's.
LEMMA LinkIsReferenced ==
    ASSUME NEW p \in Paths, NEW i \in DOMAIN docs[p], IsLink(docs[p][i])
    PROVE  KeyOf(docs[p][i]) \in Referenced
BY DEF Referenced, References, IsLink

\* The call for a reference that is not refused is a frame of a new key.
LEMMA NewFrame ==
    ASSUME NEW p \in Paths, NEW i \in DOMAIN docs[p], IsLink(docs[p][i]),
           Refused(docs[p][i]) = "nothing"
    PROVE  /\ IsFrame(Frame(p, i))
           /\ Frame(p, i).key \notin Chain
<1>1. KeyOf(docs[p][i]) \notin Chain /\ docs[p][i].path \in Paths
    BY DEF Refused
<1>2. UnitSeq(<< >>)
    BY NoUnits
<1>3. KeyOf(docs[p][i]) = <<docs[p][i].path, docs[p][i].slug>>
    BY DEF KeyOf, Key
<1> QED
    BY <1>1, <1>2, <1>3, LinkIsReferenced DEF Frame, IsFrame, FrameFields

\* A sequence of frames takes a frame of another key.
LEMMA FrameOnTop ==
    ASSUME NEW fs, FramesOf(fs), NEW f, IsFrame(f),
           \A i \in 1 .. Len(fs) : fs[i].key # f.key
    PROVE  FramesOf(Append(fs, f))
<1>1. PICK S : fs \in Seq(S)
    BY DEF FramesOf
<1>2. /\ Append(fs, f) \in Seq(S \cup {f})
      /\ Len(fs) \in Nat
      /\ Len(Append(fs, f)) = Len(fs) + 1
    BY <1>1
<1>3. /\ Append(fs, f)[Len(fs) + 1] = f
      /\ \A i \in 1 .. Len(fs) : Append(fs, f)[i] = fs[i]
    BY <1>1
<1>4. \A i \in 1 .. Len(fs) + 1 : i = Len(fs) + 1 \/ i \in 1 .. Len(fs)
    BY <1>2
<1>5. \A i \in 1 .. Len(Append(fs, f)) : IsFrame(Append(fs, f)[i])
    BY <1>2, <1>3, <1>4 DEF FramesOf
<1>6. ASSUME NEW i \in 1 .. Len(fs) + 1, NEW j \in 1 .. Len(fs) + 1,
             Append(fs, f)[i].key = Append(fs, f)[j].key
      PROVE  i = j
    BY <1>3, <1>4, <1>6 DEF FramesOf
<1> QED
    BY <1>2, <1>5, <1>6 DEF FramesOf

\* The frames stay right when the deepest one changes but for its key and path.
LEMMA DeepestChanges ==
    ASSUME FramesOK, frames # << >>, NEW g,
           FrameFields \subseteq DOMAIN g, UnitSeq(g.out),
           g.key = Deepest.key, g.path = Deepest.path, g.left \subseteq Deepest.left
    PROVE  /\ FramesOf(WithDeepest(g))
           /\ Len(WithDeepest(g)) = Len(frames)
           /\ \A i \in 1 .. Len(frames) : WithDeepest(g)[i].key = frames[i].key
<1> DEFINE fs == WithDeepest(g)
<1>1. PICK S : frames \in Seq(S)
    BY DEF FramesOK, FramesOf
<1>2. Len(frames) \in Nat /\ Len(frames) > 0
    BY <1>1
<1>3. fs \in Seq(S \cup {g})
    BY <1>1, <1>2 DEF WithDeepest
<1>4. Len(fs) = Len(frames)
    BY <1>1, <1>2 DEF WithDeepest
<1>5. ASSUME NEW i \in 1 .. Len(frames)
      PROVE  IsFrame(fs[i]) /\ fs[i].key = frames[i].key
    <2>1. IsFrame(frames[i])
        BY DEF FramesOK, FramesOf
    <2>2. CASE i = Len(frames)
        <3>1. fs[i] = g
            BY <1>1, <1>2, <2>2 DEF WithDeepest
        <3> QED
            BY <2>1, <2>2, <3>1 DEF IsFrame, Deepest
    <2>3. CASE i # Len(frames)
        <3>1. fs[i] = frames[i]
            BY <1>1, <1>2, <2>3 DEF WithDeepest
        <3> QED
            BY <2>1, <3>1
    <2> QED
        BY <2>2, <2>3
<1>6. \A i, j \in 1 .. Len(frames) : fs[i].key = fs[j].key => i = j
    BY <1>5 DEF FramesOK, FramesOf
<1> HIDE DEF fs
<1>7. FramesOf(fs)
    BY <1>3, <1>4, <1>5, <1>6 DEF FramesOf
<1> QED
    BY <1>4, <1>5, <1>7 DEF fs

\* A refused reference leaves the frames as they are, another adds one to them.
LEMMA Resolved ==
    ASSUME NEW p \in Paths, NEW i \in DOMAIN docs[p], IsLink(docs[p][i]),
           NEW fs, FramesOf(fs), Len(fs) = Len(frames),
           \A j \in 1 .. Len(frames) : fs[j].key = frames[j].key,
           FramesOK, Resolve(p, i, fs)
    PROVE  FramesOf(frames')
<1>1. CASE frames' = fs
    BY <1>1
<1>2. CASE Refused(docs[p][i]) = "nothing" /\ frames' = Append(fs, Frame(p, i))
    <2>1. IsFrame(Frame(p, i)) /\ Frame(p, i).key \notin Chain
        BY <1>2, NewFrame
    <2>2. DOMAIN frames = 1 .. Len(frames)
        BY DEF FramesOK, FramesOf
    <2>3. \A j \in 1 .. Len(fs) : fs[j].key # Frame(p, i).key
        BY <2>1, <2>2 DEF Chain
    <2> QED
        BY <1>2, <2>1, <2>3, FrameOnTop
<1> QED
    BY <1>1, <1>2 DEF Resolve

\* The frames stay right when the deepest call returns and its caller takes what
\* it spliced in.
LEMMA CallerTakes ==
    ASSUME FramesOK, Len(frames) > 1, NEW f, f = frames[Len(frames) - 1],
           NEW g, FrameFields \subseteq DOMAIN g, UnitSeq(g.out),
           g.key = f.key, g.path = f.path, g.left = f.left,
           NEW fs, fs = [SubSeq(frames, 1, Len(frames) - 1)
                            EXCEPT ![Len(frames) - 1] = g]
    PROVE  FramesOf(fs)
<1>1. PICK S : frames \in Seq(S)
    BY DEF FramesOK, FramesOf
<1> DEFINE n == Len(frames) - 1
           part == SubSeq(frames, 1, n)
<1>2. Len(frames) \in Nat /\ n \in Nat /\ n > 0 /\ n \in 1 .. Len(frames)
    BY <1>1
<1>3. /\ part \in Seq(S) /\ Len(part) = n
      /\ \A i \in 1 .. n : part[i] = frames[i]
    BY <1>1, <1>2
<1>4. \A i \in 1 .. n : i \in 1 .. Len(frames)
    BY <1>2
<1> HIDE DEF part
<1>5. fs = [part EXCEPT ![n] = g]
    BY DEF part
<1>6. fs \in Seq(S \cup {g}) /\ Len(fs) = n
    BY <1>2, <1>3, <1>5
<1>7. /\ \A i \in 1 .. n : i # n => fs[i] = frames[i]
      /\ fs[n] = g
    BY <1>2, <1>3, <1>5
<1>8. IsFrame(g) /\ g.key = frames[n].key
    BY <1>2 DEF FramesOK, FramesOf, IsFrame
<1>9. \A i \in 1 .. n : IsFrame(fs[i]) /\ fs[i].key = frames[i].key
    BY <1>4, <1>7, <1>8 DEF FramesOK, FramesOf
<1>10. \A i, j \in 1 .. n : fs[i].key = fs[j].key => i = j
    BY <1>4, <1>9 DEF FramesOK, FramesOf
<1> QED
    BY <1>6, <1>9, <1>10 DEF FramesOf

\* What a frame must be does not change: the documents do not.
LEMMA FramesStay ==
    ASSUME UNCHANGED docs, FramesOf(frames')
    PROVE  FramesOK'
BY DEF FramesOK, FramesOf, IsFrame, Referenced

LEMMA UnitsStay ==
    ASSUME UnitsOK, UNCHANGED docs, host' \subseteq host, units' \subseteq units
    PROVE  UnitsOK'
BY DEF UnitsOK

LEMMA InitInv == Init => IInv
<1> SUFFICES ASSUME Init PROVE IInv
    OBVIOUS
<1>1. frames \in Seq({}) /\ Len(frames) = 0
    BY DEF Init
<1>2. FramesOK
    BY <1>1 DEF FramesOK, FramesOf
<1> QED
    BY <1>2 DEF Init, IInv, UnitsOK, None

LEMMA EmptyFrames == FramesOf(<< >>)
<1>1. << >> \in Seq({}) /\ Len(<< >>) = 0
    OBVIOUS
<1> QED
    BY <1>1 DEF FramesOf

\* Every step of the planner keeps the inductive invariant.
LEMMA StepInv == IInv /\ [Next]_vars => IInv'
<1> SUFFICES ASSUME IInv, [Next]_vars PROVE IInv'
    OBVIOUS
<1> USE DEF IInv
<1>1. ASSUME NEW p \in Paths, StartPlan(p) PROVE IInv'
    <2>1. UnitsOK'
        BY <1>1 DEF StartPlan, UnitsOK, Candidates
    <2>2. FramesOf(frames')
        BY <1>1 DEF StartPlan, FramesOK
    <2> QED
        BY <1>1, <2>1, <2>2, FramesStay DEF StartPlan
<1>2. ASSUME NEW p \in Paths, ReturnOuter(p) PROVE IInv'
    <2>1. UnitsOK'
        BY <1>2, UnitsStay DEF ReturnOuter, NextUnit, Rest, hostVars
    <2>2. FramesOf(frames')
        BY <1>2, EmptyFrames DEF ReturnOuter
    <2> QED
        BY <1>2, <2>1, <2>2, FramesStay DEF ReturnOuter
<1>3. ASSUME NEW p \in Paths, FinishPlan(p) PROVE IInv'
    <2>1. UnitsOK'
        BY <1>3, UnitsStay DEF FinishPlan, None
    <2>2. FramesOf(frames')
        BY <1>3 DEF FinishPlan, FramesOK
    <2> QED
        BY <1>3, <2>1, <2>2, FramesStay DEF FinishPlan
<1>4. ASSUME NEW p \in Paths, NEW i \in units,
             GroupSteps(p, i) \/ GroupRows(p, i) \/ GroupProse(p, i)
      PROVE  IInv'
    <2>1. UNCHANGED <<docs, hostVars, frames>> /\ NextUnit
        BY <1>4 DEF GroupSteps, GroupRows, GroupProse
    <2>2. UnitsOK'
        BY <2>1, UnitsStay DEF NextUnit, Rest, hostVars
    <2>3. FramesOf(frames')
        BY <2>1 DEF FramesOK
    <2> QED
        BY <2>1, <2>2, <2>3, FramesStay
<1>5. ASSUME NEW p \in Paths, NEW i \in units, GroupReference(p, i) PROVE IInv'
    <2>1. i \in DOMAIN docs[p]
        BY <1>5 DEF GroupReference, AtUnit, UnitsOK
    <2>2. frames = << >>
        BY <1>5 DEF GroupReference, AtUnit
    <2>3. FramesOf(frames')
        BY <1>5, <2>1, <2>2, Resolved DEF GroupReference, FramesOK
    <2>4. UnitsOK'
        BY <1>5, UnitsStay
           DEF GroupReference, LeaveIfRefused, NextUnit, Rest, hostVars
    <2> QED
        BY <1>5, <2>3, <2>4, FramesStay DEF GroupReference
<1>6. ASSUME NEW p \in Paths, NEW i \in Left,
             SpliceCandidate(p, i) \/ SpliceReference(p, i)
      PROVE  IInv'
    <2>1. frames # << >> /\ p = Deepest.path /\ i \in Deepest.left
        BY <1>6 DEF SpliceCandidate, SpliceReference, InSection, Left
    <2>2. IsFrame(Deepest)
        <3>1. PICK S : frames \in Seq(S)
            BY DEF FramesOK, FramesOf
        <3>2. Len(frames) \in 1 .. Len(frames)
            BY <2>1, <3>1
        <3> QED
            BY <3>2 DEF FramesOK, FramesOf, Deepest
    <2>3. i \in DOMAIN docs[p]
        BY <2>1, <2>2 DEF IsFrame, SectionCandidates, Candidates
    <2>4. /\ FrameFields \subseteq DOMAIN Past(Deepest)
          /\ Past(Deepest).key = Deepest.key /\ Past(Deepest).path = Deepest.path
          /\ Past(Deepest).left \subseteq Deepest.left
          /\ Past(Deepest).out = Deepest.out /\ UnitSeq(Past(Deepest).out)
        BY <2>2 DEF IsFrame, FrameFields, Past, Rest
    <2>5. UnitsOK'
        BY <1>6, UnitsStay DEF SpliceCandidate, SpliceReference, hostVars
    <2>6. CASE SpliceReference(p, i)
        <3>1. /\ FramesOf(WithDeepest(Past(Deepest)))
              /\ Len(WithDeepest(Past(Deepest))) = Len(frames)
              /\ \A j \in 1 .. Len(frames) :
                    WithDeepest(Past(Deepest))[j].key = frames[j].key
            BY <2>1, <2>4, DeepestChanges
        <3>2. FramesOf(frames')
            BY <2>3, <2>6, <3>1, Resolved DEF SpliceReference
        <3> QED
            BY <2>5, <2>6, <3>2, FramesStay DEF SpliceReference
    <2>7. CASE SpliceCandidate(p, i)
        <3> DEFINE u == Tagged(p, Deepest.from, Unit(p, i))
                   g == IF Matched(docs[p][i])
                        THEN [Past(Deepest) EXCEPT !.out = Append(@, u)]
                        ELSE Past(Deepest)
        <3>1. frames' = WithDeepest(g)
            BY <2>7 DEF SpliceCandidate
        <3>2. IsUnit(u)
            BY UnitOfCandidate, TaggedUnit
        <3>4. UnitSeq(Append(Past(Deepest).out, u))
            BY <2>4, <3>2, UnitAdded
        <3>5. /\ FrameFields \subseteq DOMAIN g /\ UnitSeq(g.out)
              /\ g.key = Deepest.key /\ g.path = Deepest.path
              /\ g.left \subseteq Deepest.left
            <4> HIDE DEF u
            <4> QED
                BY <2>4, <3>4 DEF FrameFields
        <3>3. FramesOf(frames')
            <4> HIDE DEF g
            <4> QED
                BY <2>1, <3>1, <3>5, DeepestChanges
        <3> QED
            BY <2>5, <2>7, <3>3, FramesStay DEF SpliceCandidate
    <2> QED
        BY <1>6, <2>6, <2>7
<1>7. ASSUME ReturnInner PROVE IInv'
    <2> DEFINE n == Len(frames)
               f == frames[n - 1]
               g == [f EXCEPT !.out = @ \o frames[n].out]
    <2>1. PICK S : frames \in Seq(S)
        BY DEF FramesOK, FramesOf
    <2>2. n \in Nat /\ n > 1 /\ n - 1 \in 1 .. n - 1 /\ n - 1 \in 1 .. n
        BY <1>7, <2>1 DEF ReturnInner
    <2>3. SubSeq(frames, 1, n - 1)[n - 1] = f
        BY <2>1, <2>2
    <2>4. frames' = [SubSeq(frames, 1, n - 1) EXCEPT ![n - 1] = g]
        BY <1>7, <2>3 DEF ReturnInner
    <2>8. IsFrame(f) /\ IsFrame(frames[n])
        BY <2>2 DEF FramesOK, FramesOf
    <2>9. UnitSeq(f.out \o frames[n].out)
        BY <2>8, RanJoined DEF IsFrame
    <2>5. /\ FrameFields \subseteq DOMAIN g /\ UnitSeq(g.out)
          /\ g.key = f.key /\ g.path = f.path /\ g.left = f.left
        BY <2>8, <2>9 DEF IsFrame, FrameFields
    <2>6. FramesOf(frames')
        BY <2>2, <2>4, <2>5, CallerTakes
    <2>7. UnitsOK'
        BY <1>7, UnitsStay DEF ReturnInner, hostVars
    <2> QED
        BY <1>7, <2>6, <2>7, FramesStay DEF ReturnInner
<1>8. CASE UNCHANGED vars
    <2>1. UNCHANGED <<docs, host, units, frames>>
        BY <1>8 DEF vars, hostVars
    <2>2. UnitsOK'
        BY <2>1, UnitsStay
    <2>3. FramesOf(frames')
        BY <2>1 DEF FramesOK
    <2> QED
        BY <2>1, <2>2, <2>3, FramesStay
<1>9. ASSUME NEW p \in Paths, NEW i \in DOMAIN docs[p], HoverReference(p, i)
      PROVE  IInv'
    <2>1. docs[p][i].path \in Paths
        BY <1>9 DEF HoverReference, Refused
    <2>2. UnitsOK'
        BY <1>9, <2>1 DEF HoverReference, Hovered, UnitsOK, Candidates
    <2>3. FramesOf(frames')
        BY <1>9 DEF HoverReference, FramesOK
    <2> QED
        BY <1>9, <2>2, <2>3, FramesStay DEF HoverReference
<1>10. ASSUME NEW k \in hover, FinishHover(k) PROVE IInv'
    <2>1. UnitsOK'
        BY <1>10, UnitsStay DEF FinishHover, None
    <2>2. FramesOf(frames')
        BY <1>10 DEF FinishHover, FramesOK
    <2> QED
        BY <1>10, <2>1, <2>2, FramesStay DEF FinishHover
<1> QED
    BY <1>1, <1>2, <1>3, <1>4, <1>5, <1>6, <1>7, <1>8, <1>9, <1>10 DEF Next

\* As many sections are being resolved as there are calls under way.
LEMMA ChainCounted == IInv => ChainsEnd
<1> SUFFICES ASSUME IInv PROVE ChainsEnd
    OBVIOUS
<1>1. PICK S : frames \in Seq(S)
    BY DEF IInv, FramesOK, FramesOf
<1>2. DOMAIN frames = 1 .. Len(frames) /\ Len(frames) \in Nat
    BY <1>1
<1>3. Chain \subseteq Referenced
    BY <1>2 DEF Chain, IInv, FramesOK, FramesOf, IsFrame
<1> DEFINE f == [i \in 1 .. Len(frames) |-> frames[i].key]
<1>4. f \in Bijection(1 .. Len(frames), Chain)
    <2>1. f \in [1 .. Len(frames) -> Chain]
        BY <1>2 DEF Chain
    <2>2. f \in Injection(1 .. Len(frames), Chain)
        BY <2>1 DEF Injection, IsInjective, IInv, FramesOK, FramesOf
    <2>3. \A k \in Chain : \E i \in 1 .. Len(frames) : f[i] = k
        BY <1>2 DEF Chain
    <2>4. f \in Surjection(1 .. Len(frames), Chain)
        BY <2>1, <2>3 DEF Surjection
    <2> QED
        BY <2>2, <2>4 DEF Bijection
<1>5. IsFiniteSet(1 .. Len(frames)) /\ Cardinality(1 .. Len(frames)) = Len(frames)
    <2>1. 1 \in Int /\ Len(frames) \in Int
        BY <1>2
    <2>2. IsFiniteSet(1 .. Len(frames))
        BY <2>1, FS_Interval
    <2>3. Cardinality(1 .. Len(frames))
              = IF 1 > Len(frames) THEN 0 ELSE Len(frames) - 1 + 1
        BY <2>1, FS_Interval
    <2> QED
        BY <1>2, <2>2, <2>3
<1>6. ExistsBijection(1 .. Len(frames), Chain)
    BY <1>4 DEF ExistsBijection
<1>7. Cardinality(Chain) = Len(frames)
    BY <1>5, <1>6, FS_Bijection
<1> QED
    BY <1>3, <1>7 DEF ChainsEnd

\* References that lead back to their own section are met while the section is
\* being resolved: resolveReference never resolves one section within itself, in
\* any project, so it nests at most as deep as there are referenced sections.
THEOREM ChainsAlwaysEnd == Spec => []ChainsEnd
<1>1. Spec => []IInv
    BY InitInv, StepInv, PTL DEF Spec
<1> QED
    BY <1>1, ChainCounted, PTL
--------------------------------------------------------------------------------
\* Numbers and finite sets.
LEMMA Least ==
    ASSUME NEW T \in SUBSET Nat, T # {}
    PROVE  \E m \in T : \A n \in T : m <= n
<1> DEFINE U == {0 .. n : n \in T}
<1>1. U \subseteq FiniteSubsetsOf(Nat)
    <2>1. \A n \in Nat : 0 .. n \in SUBSET Nat /\ IsFiniteSet(0 .. n)
        BY FS_Interval
    <2> QED
        BY <2>1 DEF FiniteSubsetsOf
<1>2. \E x \in U : \A y \in U : ~(<<y, x>> \in StrictSubsetOrdering(Nat))
    <2>1. U # {}
        OBVIOUS
    <2> HIDE DEF U
    <2> QED
        BY <1>1, <2>1, WFMin, FS_StrictSubsetOrderingWellFounded
<1>3. PICK m \in T : \A n \in T : ~(<<0 .. n, 0 .. m>> \in StrictSubsetOrdering(Nat))
    BY <1>2
<1>4. ASSUME NEW n \in T, n < m PROVE FALSE
    <2>1. /\ 0 .. n \subseteq 0 .. m /\ m \notin 0 .. n /\ m \in 0 .. m
          /\ 0 .. n \subseteq Nat /\ 0 .. m \subseteq Nat
        BY <1>4, SMT
    <2>2. <<0 .. n, 0 .. m>> \in StrictSubsetOrdering(Nat)
        BY <2>1 DEF StrictSubsetOrdering
    <2> QED
        BY <1>3, <2>2
<1> QED
    BY <1>4

LEMMA FiniteImage ==
    ASSUME NEW S, IsFiniteSet(S), NEW f
    PROVE  IsFiniteSet({f[x] : x \in S})
<1> DEFINE T == {f[x] : x \in S}  g == [x \in S |-> f[x]]
<1>1. g \in Surjection(S, T)
    BY DEF Surjection
<1> HIDE DEF g, T
<1>2. IsFiniteSet(T)
    BY <1>1, FS_Surjection
<1> QED
    BY <1>2 DEF T

\* A set of which each member has a predecessor in it has, if it is finite, a part of which
\* each has a successor: a smallest part that has predecessors has no last member.
LEMMA NoFirstNoLast ==
    ASSUME NEW U, IsFiniteSet(U), U # {}, NEW R,
           \A k \in U : \E j \in U : <<j, k>> \in R
    PROVE  \E K \in SUBSET U : K # {} /\ \A k \in K : \E j \in K : <<k, j>> \in R
<1> DEFINE P == {V \in SUBSET U : V # {} /\ \A k \in V : \E j \in V : <<j, k>> \in R}
<1>1. P \subseteq FiniteSubsetsOf(U) /\ U \in P
    BY FS_FiniteSubsetsOfFinite
<1>2. \E V \in P : \A W2 \in P : ~(<<W2, V>> \in StrictSubsetOrdering(U))
    <2>1. P # {}
        BY <1>1
    <2> HIDE DEF P
    <2> QED
        BY <1>1, <2>1, WFMin, FS_StrictSubsetOrderingWellFounded
<1>3. PICK V \in P : \A W2 \in P : ~(<<W2, V>> \in StrictSubsetOrdering(U))
    BY <1>2
<1>4. V \subseteq U /\ V # {} /\ \A k \in V : \E j \in V : <<j, k>> \in R
    OBVIOUS
<1>5. ASSUME NEW k \in V, \A j \in V : <<k, j>> \notin R
      PROVE  FALSE
    <2> DEFINE V2 == V \ {k}
    <2>1. \A i \in V2 : \E j \in V2 : <<j, i>> \in R
        BY <1>4, <1>5
    <2>2. V2 # {}
        <3>1. PICK j \in V : <<j, k>> \in R
            BY <1>4
        <3>2. j # k
            BY <1>5, <3>1
        <3> QED
            BY <3>1, <3>2
    <2>3. V2 \in P /\ V2 \subseteq V /\ V2 # V
        BY <1>4, <2>1, <2>2
    <2>4. <<V2, V>> \in StrictSubsetOrdering(U)
        BY <1>4, <2>3 DEF StrictSubsetOrdering
    <2> QED
        BY <1>3, <2>3, <2>4
<1> QED
    BY <1>4, <1>5

\* The places of an oath are numbers, finitely many, and any of them have a first.
Docs == \A p \in Paths : Len(docs[p]) \in Nat /\ DOMAIN docs[p] = 1 .. Len(docs[p])

LEMMA FirstOf ==
    ASSUME NEW n \in Nat, NEW S \in SUBSET (1 .. n), S # {}
    PROVE  /\ First(S) \in S /\ \A j \in S : First(S) <= j
           /\ \A j \in Rest(S) : First(S) < j
<1>1. S \in SUBSET Nat
    OBVIOUS
<1>2. \E m \in S : \A j \in S : m <= j
    BY <1>1, Least
<1>3. First(S) \in S /\ \A j \in S : First(S) <= j
    BY <1>2 DEF First
<1>4. ASSUME NEW j \in Rest(S) PROVE First(S) < j
    <2>1. j \in S /\ j # First(S)
        BY DEF Rest
    <2>2. First(S) <= j /\ j \in Nat /\ First(S) \in Nat
        BY <1>1, <1>3, <2>1
    <2> QED
        BY <2>1, <2>2
<1> QED
    BY <1>3, <1>4

--------------------------------------------------------------------------------
\* Which oath is planned, and what is under construction.
IsExample(e) ==
    /\ {"name", "scope", "from", "to", "steps", "fails", "borrowed"} \subseteq DOMAIN e
    /\ IsSteps(e.steps)
    /\ e.borrowed \in BOOLEAN

OpenOK == open = None \/ \E e : open = {e} /\ IsExample(e)

\* The candidates of an oath that are planned there.
OwnUnits(p) == {i \in Candidates(docs[p]) : ~Consumed(p, i)}

Idle ==
    /\ host = None /\ frames = << >> /\ open = None /\ units = {} /\ examples = << >>
    /\ hover = None => diagnostics = {}

\* The reference that is resolved is that of the unit the loop is at.
Resolving(p) ==
    frames # << >> =>
        /\ units # {}
        /\ IsLink(docs[p][First(units)])
        /\ frames[1].key = KeyOf(docs[p][First(units)])
        /\ frames[1].from = p /\ frames[1].at = First(units)

HostOK ==
    \/ Idle
    \/ \E p \in Paths :
          /\ host = {p}
          /\ hover = None => p \notin todo /\ units \subseteq OwnUnits(p)
          /\ Resolving(p)

HoverOK == hover # None => todo = Paths

StateInv ==
    /\ Docs /\ IsSteps(examples) /\ OpenOK /\ HostOK /\ HoverOK
    /\ todo \subseteq Paths /\ DOMAIN plans = Paths
--------------------------------------------------------------------------------
\* What a step does to the calls under way.
Replaced(fs, n, g) ==
    /\ IsSteps(fs) /\ Len(fs) = n
    /\ \A m \in 1 .. n - 1 : fs[m] = frames[m]
    /\ fs[n] = g

\* Two states of one call.
SameCall(g, f) == g.key = f.key /\ g.from = f.from /\ g.at = f.at

LEMMA Under ==
    ASSUME IInv
    PROVE  /\ IsSteps(frames) /\ Len(frames) \in Nat /\ DOMAIN frames = 1 .. Len(frames)
           /\ frames = << >> <=> Len(frames) = 0
           /\ \A m \in 1 .. Len(frames) : IsFrame(frames[m])
           /\ frames # << >> => Len(frames) \in 1 .. Len(frames) /\ IsFrame(Deepest)
<1>1. PICK S : frames \in Seq(S)
    BY DEF IInv, FramesOK, FramesOf
<1>2. /\ Len(frames) \in Nat /\ DOMAIN frames = 1 .. Len(frames)
      /\ frames = << >> <=> Len(frames) = 0
    BY <1>1
<1>3. \A m \in 1 .. Len(frames) : IsFrame(frames[m])
    BY DEF IInv, FramesOK, FramesOf
<1>4. frames # << >> => Len(frames) \in 1 .. Len(frames)
    BY <1>2
<1> QED
    BY <1>1, <1>2, <1>3, <1>4 DEF IsSteps, Deepest

LEMMA DeepestReplaced ==
    ASSUME IInv, frames # << >>, NEW g
    PROVE  Replaced(WithDeepest(g), Len(frames), g)
<1>1. PICK S : frames \in Seq(S)
    BY DEF IInv, FramesOK, FramesOf
<1>2. Len(frames) \in Nat /\ Len(frames) > 0
    BY <1>1
<1> DEFINE fs == WithDeepest(g)
<1>3. fs \in Seq(S \cup {g}) /\ Len(fs) = Len(frames)
    BY <1>1, <1>2 DEF WithDeepest
<1>4. /\ \A m \in 1 .. Len(frames) - 1 : fs[m] = frames[m]
      /\ fs[Len(frames)] = g
    BY <1>1, <1>2 DEF WithDeepest
<1> HIDE DEF fs
<1>5. Replaced(fs, Len(frames), g)
    BY <1>3, <1>4 DEF Replaced, IsSteps
<1> QED
    BY <1>5 DEF fs

\* The loop over a section is at one of its candidates.
LEMMA AtCandidate ==
    ASSUME IInv, Docs, NEW p, NEW i, InSection(p, i)
    PROVE  /\ frames # << >> /\ p = Deepest.path /\ p \in Paths
           /\ i \in Deepest.left /\ i \in DOMAIN docs[p] /\ IsCandidate(docs[p][i])
<1>1. frames # << >> /\ p = Deepest.path /\ i = First(Deepest.left) /\ Deepest.left # {}
    BY DEF InSection, Left
<1>2. IsFrame(Deepest)
    BY <1>1, Under
<1>3. p \in Paths /\ Deepest.left \subseteq SectionCandidates(docs[p], Deepest.key[2])
    BY <1>1, <1>2 DEF IsFrame
<1>4. Deepest.left \subseteq DOMAIN docs[p]
    BY <1>3 DEF SectionCandidates, Candidates
<1>5. Len(docs[p]) \in Nat /\ DOMAIN docs[p] = 1 .. Len(docs[p])
    BY <1>3 DEF Docs
<1>6. Deepest.left \in SUBSET (1 .. Len(docs[p]))
    BY <1>4, <1>5
<1>7. First(Deepest.left) \in Deepest.left
    BY <1>1, <1>5, <1>6, FirstOf
<1> QED
    BY <1>1, <1>3, <1>4, <1>7 DEF SectionCandidates, Candidates

\* A candidate of the section joins what the call splices in, if it matches.
LEMMA SpliceCandidateDoes ==
    ASSUME IInv, Docs, NEW p, NEW i, SpliceCandidate(p, i)
    PROVE  \E g : /\ Replaced(frames', Len(frames), g)
                  /\ g.key = Deepest.key /\ g.path = Deepest.path
                  /\ SameCall(g, Deepest)
                  /\ g.left = Deepest.left \ {i}
                  /\ Ran(Deepest.out) \subseteq Ran(g.out)
                  /\ Matched(docs[p][i]) => <<p, i>> \in Ran(g.out)
                  /\ ~Matched(docs[p][i]) => g.out = Deepest.out
                  /\ Matched(docs[p][i]) =>
                        \E u : /\ g.out = Append(Deepest.out, u)
                              /\ IsUnit(u) /\ StepPlaces(u.steps) = {<<p, i>>}
<1>1. InSection(p, i)
    BY DEF SpliceCandidate
<1>2. frames # << >> /\ IsFrame(Deepest) /\ i = First(Deepest.left)
    BY <1>1, AtCandidate, Under DEF InSection, Left
<1> DEFINE u == Tagged(p, Deepest.from, Unit(p, i))
           h == Past(Deepest)
           k == [h EXCEPT !.out = Append(@, u)]
           g == IF Matched(docs[p][i]) THEN k ELSE h
<1>3. IsUnit(u) /\ StepPlaces(u.steps) = {<<p, i>>}
    BY UnitOfCandidate, TaggedUnit
<1>4. frames' = WithDeepest(g)
    BY DEF SpliceCandidate
<1>5. /\ FrameFields \subseteq DOMAIN h /\ h.key = Deepest.key /\ h.path = Deepest.path
      /\ h.left = Deepest.left \ {i} /\ h.out = Deepest.out /\ SameCall(h, Deepest)
    BY <1>2 DEF Past, IsFrame, FrameFields, Rest, SameCall
<1>6. IsSteps(h.out)
    BY <1>2, <1>5 DEF IsFrame, UnitSeq
<1> HIDE DEF u, h
<1>7. /\ k.key = Deepest.key /\ k.path = Deepest.path /\ k.left = Deepest.left \ {i}
      /\ k.out = Append(h.out, u) /\ SameCall(k, Deepest)
    BY <1>5 DEF FrameFields, SameCall
<1>8. Ran(Append(h.out, u)) = Ran(h.out) \cup StepPlaces(u.steps)
    BY <1>6, RanAppended
<1> HIDE DEF k
<1>9. /\ g.key = Deepest.key /\ g.path = Deepest.path /\ g.left = Deepest.left \ {i}
      /\ SameCall(g, Deepest) /\ Ran(Deepest.out) \subseteq Ran(g.out)
      /\ Matched(docs[p][i]) => <<p, i>> \in Ran(g.out)
      /\ ~Matched(docs[p][i]) => g.out = Deepest.out
      /\ Matched(docs[p][i]) => g.out = Append(Deepest.out, u)
    BY <1>3, <1>5, <1>7, <1>8
<1> HIDE DEF g
<1>10. Replaced(frames', Len(frames), g)
    BY <1>2, <1>4, DeepestReplaced
<1> QED
    BY <1>3, <1>9, <1>10

\* A reference of the section is refused, or is resolved in a call of its own.
LEMMA SpliceReferenceDoes ==
    ASSUME IInv, Docs, NEW p, NEW i, SpliceReference(p, i)
    PROVE  \E fs, g :
              /\ Replaced(fs, Len(frames), g)
              /\ g.key = Deepest.key /\ g.path = Deepest.path /\ SameCall(g, Deepest)
              /\ g.left = Deepest.left \ {i} /\ g.out = Deepest.out
              /\ \/ /\ frames' = fs /\ diagnostics' # {}
                    /\ Refused(docs[p][i]) # "nothing"
                 \/ /\ frames' = Append(fs, Frame(p, i)) /\ UNCHANGED diagnostics
                    /\ Refused(docs[p][i]) = "nothing"
<1>1. InSection(p, i) /\ Resolve(p, i, WithDeepest(Past(Deepest)))
    BY DEF SpliceReference
<1>2. frames # << >> /\ IsFrame(Deepest) /\ i = First(Deepest.left)
    BY <1>1, AtCandidate, Under DEF InSection, Left
<1> DEFINE g == Past(Deepest)
<1>3. /\ g.key = Deepest.key /\ g.path = Deepest.path /\ SameCall(g, Deepest)
      /\ g.left = Deepest.left \ {i} /\ g.out = Deepest.out
    BY <1>2 DEF Past, IsFrame, FrameFields, Rest, SameCall
<1>4. Replaced(WithDeepest(g), Len(frames), g)
    BY <1>2, DeepestReplaced
<1>5. \/ /\ frames' = WithDeepest(g) /\ diagnostics' # {}
         /\ Refused(docs[p][i]) # "nothing"
      \/ /\ frames' = Append(WithDeepest(g), Frame(p, i)) /\ UNCHANGED diagnostics
         /\ Refused(docs[p][i]) = "nothing"
    BY <1>1 DEF Resolve
<1> HIDE DEF g
<1> QED
    BY <1>3, <1>4, <1>5

\* The deepest call returns what it spliced in to its caller.
LEMMA ReturnInnerDoes ==
    ASSUME IInv, ReturnInner
    PROVE  LET n == Len(frames) IN
           /\ n \in Nat /\ n > 1 /\ Deepest.left = {}
           /\ \E g : /\ Replaced(frames', n - 1, g)
                     /\ g.key = frames[n - 1].key /\ g.path = frames[n - 1].path
                     /\ SameCall(g, frames[n - 1])
                     /\ g.left = frames[n - 1].left
                     /\ g.out = frames[n - 1].out \o Deepest.out
                     /\ Ran(g.out) = Ran(frames[n - 1].out) \cup Ran(Deepest.out)
<1> DEFINE n == Len(frames)
           f == frames[n - 1]
           g == [f EXCEPT !.out = @ \o frames[n].out]
           part == SubSeq(frames, 1, n - 1)
<1>1. PICK S : frames \in Seq(S)
    BY DEF IInv, FramesOK, FramesOf
<1>2. n \in Nat /\ n > 1 /\ n - 1 \in 1 .. n - 1 /\ n - 1 \in 1 .. n /\ n \in 1 .. n
    BY <1>1 DEF ReturnInner
<1>3. /\ part \in Seq(S) /\ Len(part) = n - 1
      /\ \A m \in 1 .. n - 1 : part[m] = frames[m]
    BY <1>1, <1>2
<1>4. frames' = [part EXCEPT ![n - 1] = g]
    BY <1>2, <1>3 DEF ReturnInner
<1>5. IsFrame(f) /\ IsFrame(frames[n])
    BY <1>2 DEF IInv, FramesOK, FramesOf
<1>6. /\ g.key = f.key /\ g.path = f.path /\ g.left = f.left /\ g.out = f.out \o frames[n].out
      /\ SameCall(g, f)
    BY <1>5 DEF IsFrame, FrameFields, SameCall
<1>7. Ran(f.out \o frames[n].out) = Ran(f.out) \cup Ran(frames[n].out)
    BY <1>5, RanJoined DEF IsFrame
<1>8. frames[n].left = {}
    BY DEF ReturnInner
<1> HIDE DEF g, part, f
<1>9. /\ frames' \in Seq(S \cup {g}) /\ Len(frames') = n - 1
      /\ \A m \in 1 .. n - 1 - 1 : frames'[m] = frames[m]
      /\ frames'[n - 1] = g
    BY <1>2, <1>3, <1>4
<1>10. Replaced(frames', n - 1, g)
    BY <1>9 DEF Replaced, IsSteps
<1>11. Ran(g.out) = Ran(f.out) \cup Ran(frames[n].out)
    BY <1>6, <1>7
<1> QED
    BY <1>2, <1>6, <1>8, <1>10, <1>11 DEF Deepest, f

\* The outermost call stays that of the reference the host is at.
LEMMA OutermostStays ==
    ASSUME NEW n \in Nat, n > 0, NEW g, SameCall(g, frames[n]), NEW fs, Replaced(fs, n, g)
    PROVE  fs # << >> /\ SameCall(fs[1], frames[1])
<1>1. PICK S : fs \in Seq(S)
    BY DEF Replaced, IsSteps
<1>2. Len(fs) = n
    BY DEF Replaced
<1>3. CASE n = 1
    <2>1. fs[1] = g
        BY <1>3 DEF Replaced
    <2>2. fs # << >>
        <3>1. Len(fs) # 0
            BY <1>2, <1>3
        <3> QED
            BY <1>1, <3>1
    <2> QED
        BY <1>3, <2>1, <2>2
<1>4. CASE n # 1
    <2>1. 1 \in 1 .. n - 1
        BY <1>4
    <2> QED
        BY <1>1, <1>2, <2>1 DEF Replaced, SameCall
<1> QED
    BY <1>3, <1>4
--------------------------------------------------------------------------------
\* What a step does to the example under construction.

\* What startMerged and mergeInto are given.
IsPiece(u) ==
    /\ {"name", "scope", "from", "to", "steps", "fails"} \subseteq DOMAIN u
    /\ IsSteps(u.steps)

LEMMA StartedIs ==
    ASSUME NEW u, IsPiece(u)
    PROVE  /\ IsExample(Started(u))
           /\ Started(u).steps = u.steps /\ Started(u).name = u.name
           /\ Started(u).scope = u.scope /\ Started(u).borrowed = FALSE
           /\ Started(u).from = u.from /\ Started(u).to = u.to
BY DEF IsPiece, Started, IsExample

LEMMA StepsJoined ==
    ASSUME NEW ss, NEW ts, IsSteps(ss), IsSteps(ts)
    PROVE  IsSteps(ss \o ts) /\ StepPlaces(ss \o ts) = StepPlaces(ss) \cup StepPlaces(ts)
<1>1. PICK S : ss \in Seq(S)
    BY DEF IsSteps
<1>2. PICK T : ts \in Seq(T)
    BY DEF IsSteps
<1> DEFINE ws == ss \o ts  m == Len(ss)  n == Len(ts)
<1>3. ss \in Seq(S \cup T) /\ ts \in Seq(S \cup T)
    BY <1>1, <1>2
<1>4. /\ ws \in Seq(S \cup T) /\ Len(ws) = m + n /\ m \in Nat /\ n \in Nat
      /\ \A i \in 1 .. m : ws[i] = ss[i]
      /\ \A i \in m + 1 .. m + n : ws[i] = ts[i - m]
    BY <1>3
<1>5. DOMAIN ss = 1 .. m /\ DOMAIN ts = 1 .. n /\ DOMAIN ws = 1 .. m + n
    BY <1>1, <1>2, <1>4
<1> HIDE DEF ws, m, n
<1>6. \A i \in 1 .. m + n :
          (i \in 1 .. m /\ ws[i] = ss[i]) \/ (i - m \in 1 .. n /\ ws[i] = ts[i - m])
    BY <1>4
<1>7. /\ \A i \in 1 .. m : i \in 1 .. m + n
      /\ \A i \in 1 .. n : i + m \in 1 .. m + n /\ ws[i + m] = ts[i]
    BY <1>4
<1>8. StepPlaces(ws) = StepPlaces(ss) \cup StepPlaces(ts)
    <2>1. ASSUME NEW x \in StepPlaces(ws) PROVE x \in StepPlaces(ss) \cup StepPlaces(ts)
        <3>1. PICK i \in 1 .. m + n : x = <<ws[i].doc, ws[i].at>>
            BY <1>5, <2>1 DEF StepPlaces
        <3> QED
            BY <3>1, <1>5, <1>6 DEF StepPlaces
    <2>2. ASSUME NEW x \in StepPlaces(ss) PROVE x \in StepPlaces(ws)
        BY <2>2, <1>4, <1>5, <1>7 DEF StepPlaces
    <2>3. ASSUME NEW x \in StepPlaces(ts) PROVE x \in StepPlaces(ws)
        <3>1. PICK i \in 1 .. n : x = <<ts[i].doc, ts[i].at>>
            BY <1>5, <2>3 DEF StepPlaces
        <3> QED
            BY <3>1, <1>5, <1>7 DEF StepPlaces
    <2> QED
        BY <2>1, <2>2, <2>3
<1> QED
    BY <1>4, <1>8 DEF ws, IsSteps

LEMMA MergedIs ==
    ASSUME NEW e, IsExample(e), NEW u, IsPiece(u), NEW r \in BOOLEAN
    PROVE  /\ IsExample(Merged(e, u, r))
           /\ Merged(e, u, r).steps = e.steps \o u.steps
           /\ Merged(e, u, r).from = e.from /\ Merged(e, u, r).to = u.to
           /\ Merged(e, u, r).borrowed = (e.borrowed /\ r)
           /\ Merged(e, u, r).name = IF e.borrowed /\ ~r THEN u.name ELSE e.name
           /\ Merged(e, u, r).scope = IF e.borrowed /\ ~r THEN u.scope ELSE e.scope
<1> DEFINE nm == IF e.borrowed /\ ~r THEN u.name ELSE e.name
           sc == IF e.borrowed /\ ~r THEN u.scope ELSE e.scope
           bo == e.borrowed /\ r
           st == e.steps \o u.steps
           fa == e.fails \/ u.fails
           m == Merged(e, u, r)
<1>1. m = [e EXCEPT !.name = nm, !.scope = sc, !.borrowed = bo, !.to = u.to,
                    !.steps = st, !.fails = fa]
    BY DEF Merged
<1>2. bo \in BOOLEAN
    BY DEF IsExample
<1>3. IsSteps(st)
    BY StepsJoined DEF IsExample, IsPiece
<1> HIDE DEF nm, sc, bo, st, fa, m
<1> DEFINE a == [e EXCEPT !.name = nm]
           b == [a EXCEPT !.scope = sc]
           c == [b EXCEPT !.borrowed = bo]
           d == [c EXCEPT !.to = u.to]
           f == [d EXCEPT !.steps = st]
<1>4. m = [f EXCEPT !.fails = fa]
    BY <1>1
<1> DEFINE flds == {"name", "scope", "from", "to", "steps", "fails", "borrowed"}
<1>5. flds \subseteq DOMAIN e
    BY DEF IsExample
<1>6. flds \subseteq DOMAIN a /\ a.name = nm /\ a.from = e.from
    BY <1>5
<1>7. flds \subseteq DOMAIN b /\ b.name = nm /\ b.from = e.from /\ b.scope = sc
    <2> HIDE DEF a
    <2> QED BY <1>6
<1>8. /\ flds \subseteq DOMAIN c /\ c.name = nm /\ c.from = e.from /\ c.scope = sc
      /\ c.borrowed = bo
    <2> HIDE DEF b
    <2> QED BY <1>7
<1>9. /\ flds \subseteq DOMAIN d /\ d.name = nm /\ d.from = e.from /\ d.scope = sc
      /\ d.borrowed = bo /\ d.to = u.to
    <2> HIDE DEF c
    <2> QED BY <1>8
<1>10. /\ flds \subseteq DOMAIN f /\ f.name = nm /\ f.from = e.from /\ f.scope = sc
       /\ f.borrowed = bo /\ f.to = u.to /\ f.steps = st
    <2> HIDE DEF d
    <2> QED BY <1>9
<1>11. /\ flds \subseteq DOMAIN m /\ m.name = nm /\ m.from = e.from /\ m.scope = sc
       /\ m.borrowed = bo /\ m.to = u.to /\ m.steps = st
    <2> HIDE DEF f
    <2> QED BY <1>4, <1>10
<1>12. IsExample(m)
    BY <1>2, <1>3, <1>11 DEF IsExample
<1> QED
    BY <1>11, <1>12 DEF m, nm, sc, bo, st

\* All that a reference spliced in, as a piece of an example.
LEMMA SplicedIs ==
    ASSUME NEW f, UnitSeq(f.out), f.out # << >>
    PROVE  /\ IsPiece(Spliced(f)) /\ StepPlaces(Spliced(f).steps) = Ran(f.out)
           /\ Spliced(f).steps = [j \in DOMAIN f.out |-> f.out[j].steps[1]]
<1>1. PICK S : f.out \in Seq(S)
    BY DEF UnitSeq, IsSteps
<1>2. 1 \in 1 .. Len(f.out) /\ DOMAIN f.out = 1 .. Len(f.out) /\ Len(f.out) \in Nat
    BY <1>1
<1>3. \A j \in DOMAIN f.out : IsUnit(f.out[j])
    BY <1>2 DEF UnitSeq
<1> DEFINE u == f.out[1]
           st == [j \in DOMAIN f.out |-> f.out[j].steps[1]]
           a == [u EXCEPT !.steps = st]
           b == [a EXCEPT !.to = f.out[Len(f.out)].to]
           c == [b EXCEPT !.fails = \E j \in DOMAIN f.out : f.out[j].fails]
<1>4. Spliced(f) = c
    BY DEF Spliced
<1> DEFINE flds == {"name", "scope", "from", "to", "steps", "fails"}
<1>5. flds \subseteq DOMAIN u
    BY <1>2, <1>3 DEF IsUnit
<1> HIDE DEF st, u
<1>6. flds \subseteq DOMAIN a /\ a.steps = st
    BY <1>5
<1>7. flds \subseteq DOMAIN b /\ b.steps = st
    <2> HIDE DEF a
    <2> QED BY <1>6
<1>8. flds \subseteq DOMAIN c /\ c.steps = st
    <2> HIDE DEF b
    <2> QED BY <1>7
<1>9. IsSteps(st)
    <2> DEFINE T == {f.out[j].steps[1] : j \in DOMAIN f.out}
    <2>1. st \in [1 .. Len(f.out) -> T]
        BY <1>2 DEF st
    <2> HIDE DEF T
    <2>2. st \in Seq(T)
        BY <1>2, <2>1, SeqDef
    <2> QED
        BY <2>2 DEF IsSteps
<1>10. StepPlaces(st) = Ran(f.out)
    <2>1. ASSUME NEW j \in DOMAIN f.out
          PROVE  StepPlaces(f.out[j].steps) = {<<st[j].doc, st[j].at>>}
        <3>1. IsUnit(f.out[j])
            BY <1>3
        <3>2. PICK T : f.out[j].steps \in Seq(T)
            BY <3>1 DEF IsUnit, IsSteps
        <3>3. DOMAIN f.out[j].steps = {1}
            BY <3>1, <3>2 DEF IsUnit
        <3> QED
            BY <3>3 DEF StepPlaces, st
    <2>2. DOMAIN st = DOMAIN f.out
        BY DEF st
    <2>3. StepPlaces(st) = {<<st[j].doc, st[j].at>> : j \in DOMAIN f.out}
        BY <2>2 DEF StepPlaces
    <2>4. ASSUME NEW x PROVE x \in StepPlaces(st) <=> x \in Ran(f.out)
        <3>1. x \in StepPlaces(st) <=> \E j \in DOMAIN f.out : x = <<st[j].doc, st[j].at>>
            BY <2>3
        <3>2. x \in Ran(f.out) <=> \E j \in DOMAIN f.out : x \in StepPlaces(f.out[j].steps)
            BY DEF Ran
        <3>3. \A j \in DOMAIN f.out :
                  x \in StepPlaces(f.out[j].steps) <=> x = <<st[j].doc, st[j].at>>
            BY <2>1
        <3> QED
            BY <3>1, <3>2, <3>3
    <2> QED
        BY <2>4
<1>11. st = [j \in DOMAIN f.out |-> f.out[j].steps[1]]
    BY DEF st
<1> HIDE DEF c
<1> QED
    BY <1>4, <1>8, <1>9, <1>10, <1>11 DEF IsPiece

LEMMA EndsAtIs ==
    ASSUME NEW e, IsExample(e), NEW i
    PROVE  LET o == EndsAtReference(e, i) IN
           /\ IsExample(o) /\ o.to = i /\ o.from = e.from /\ o.steps = e.steps
           /\ o.name = e.name /\ o.scope = e.scope /\ o.borrowed = e.borrowed
BY DEF EndsAtReference, IsExample

IsBorrowed(o, p, i, u) ==
    /\ IsExample(o) /\ o.borrowed = TRUE /\ o.scope = Scope(docs[p], i)
    /\ o.from = i /\ o.steps = u.steps

LEMMA BorrowingIs ==
    ASSUME NEW p, NEW i, NEW u, IsPiece(u)
    PROVE  IsBorrowed(Borrowing(p, i, u), p, i, u)
<1> DEFINE e == Started(u)
           a == [e EXCEPT !.borrowed = TRUE]
           b == [a EXCEPT !.scope = Scope(docs[p], i)]
           c == [b EXCEPT !.from = i]
           flds == {"name", "scope", "from", "to", "steps", "fails", "borrowed"}
<1>1. Borrowing(p, i, u) = c
    BY DEF Borrowing
<1>2. flds \subseteq DOMAIN e /\ e.steps = u.steps /\ IsSteps(u.steps)
    BY StartedIs DEF IsExample, IsPiece
<1> HIDE DEF e
<1>3. flds \subseteq DOMAIN a /\ a.steps = u.steps /\ a.borrowed = TRUE
    BY <1>2
<1> HIDE DEF a
<1>4. /\ flds \subseteq DOMAIN b /\ b.steps = u.steps /\ b.borrowed = TRUE
      /\ b.scope = Scope(docs[p], i)
    BY <1>3
<1> HIDE DEF b
<1>5. /\ flds \subseteq DOMAIN c /\ c.steps = u.steps /\ c.borrowed = TRUE
      /\ c.scope = Scope(docs[p], i) /\ c.from = i
    BY <1>4
<1> HIDE DEF c
<1> QED
    BY <1>1, <1>2, <1>5 DEF IsExample, IsBorrowed

\* The examples once the open one is closed.
OpenPlaces == UNION {StepPlaces(e.steps) : e \in open}

LEMMA FlushedIs ==
    ASSUME IsSteps(examples), OpenOK
    PROVE  /\ IsSteps(Flushed)
           /\ Ran(Flushed) = Ran(examples) \cup OpenPlaces
           /\ open = None => Flushed = examples
           /\ \A e : open = {e} => Flushed = Append(examples, e)
<1>1. CASE open = None
    BY <1>1 DEF Flushed, OpenPlaces, None
<1>2. ASSUME NEW e, open = {e}
      PROVE  /\ Flushed = Append(examples, e) /\ IsSteps(Flushed)
             /\ Ran(Flushed) = Ran(examples) \cup StepPlaces(e.steps)
             /\ OpenPlaces = StepPlaces(e.steps)
    <2>1. Flushed = Append(examples, e)
        BY <1>2 DEF Flushed, None
    <2>2. OpenPlaces = StepPlaces(e.steps)
        BY <1>2 DEF OpenPlaces
    <2> QED
        BY <2>1, <2>2, RanAppended
<1> QED
    BY <1>1, <1>2 DEF OpenOK, None

\* The open example e goes on as o with the unit at i of p, or o opens with it; `own`
\* tells a paragraph of p from a reference, and ts are the steps that it brings.
GoesOn(o, e, p, i, own) ==
    /\ o.from = e.from
    /\ own /\ e.borrowed =>
          o.borrowed = FALSE /\ o.name = <<p, i>> /\ o.scope = Scope(docs[p], i)
    /\ ~(own /\ e.borrowed) =>
          o.borrowed = e.borrowed /\ o.name = e.name /\ o.scope = e.scope

Opens(o, p, i, own) ==
    /\ o.from = i /\ o.scope = Scope(docs[p], i) /\ o.borrowed = ~own
    /\ own => o.name = <<p, i>>

Takes(p, i, own, ts) ==
    \E o : /\ open' = {o} /\ IsExample(o) /\ o.to = i /\ IsSteps(ts)
           /\ \/ /\ ~Delimited(docs[p], i) /\ UNCHANGED examples
                 /\ \E e : /\ open = {e} /\ IsExample(e) /\ GoesOn(o, e, p, i, own)
                          /\ o.steps = e.steps \o ts
              \/ /\ open = None \/ Delimited(docs[p], i)
                 /\ examples' = Flushed
                 /\ Opens(o, p, i, own) /\ o.steps = ts

LEMMA GroupStepsDoes ==
    ASSUME OpenOK, NEW p, NEW i, GroupSteps(p, i)
    PROVE  Takes(p, i, TRUE, Unit(p, i).steps)
<1> DEFINE u == Unit(p, i)
<1>1. IsPiece(u) /\ IsSteps(u.steps)
    BY UnitOfCandidate DEF IsUnit, IsPiece
<1>2. u.name = <<p, i>> /\ u.scope = Scope(docs[p], i) /\ u.from = i /\ u.to = i
    BY DEF Unit
<1>3. OpenOrJoin(p, i, Started(u), {Merged(e, u, FALSE) : e \in open})
    BY DEF GroupSteps
<1> HIDE DEF u
<1>4. CASE /\ open # None /\ ~Delimited(docs[p], i)
           /\ open' = {Merged(e, u, FALSE) : e \in open} /\ UNCHANGED examples
    <2>1. PICK e : open = {e} /\ IsExample(e)
        BY <1>4 DEF OpenOK
    <2> DEFINE o == Merged(e, u, FALSE)
    <2>2. open' = {o}
        BY <1>4, <2>1
    <2>3. /\ IsExample(o) /\ o.steps = e.steps \o u.steps
          /\ o.from = e.from /\ o.to = u.to
          /\ o.borrowed = (e.borrowed /\ FALSE)
          /\ o.name = IF e.borrowed /\ ~FALSE THEN u.name ELSE e.name
          /\ o.scope = IF e.borrowed /\ ~FALSE THEN u.scope ELSE e.scope
        BY <1>1, <2>1, MergedIs
    <2> HIDE DEF o
    <2>4. e.borrowed \in BOOLEAN
        BY <2>1 DEF IsExample
    <2>5. GoesOn(o, e, p, i, TRUE)
        BY <1>2, <2>3, <2>4 DEF GoesOn
    <2>6. o.to = i
        BY <1>2, <2>3
    <2>7. Takes(p, i, TRUE, u.steps)
        BY <1>1, <1>4, <2>1, <2>2, <2>3, <2>5, <2>6 DEF Takes
    <2> QED
        BY <2>7 DEF u
<1>5. CASE /\ open = None \/ Delimited(docs[p], i)
           /\ examples' = Flushed /\ open' = {Started(u)}
    <2> DEFINE o == Started(u)
    <2>1. /\ IsExample(o) /\ o.steps = u.steps /\ o.name = u.name
          /\ o.scope = u.scope /\ o.borrowed = FALSE /\ o.from = u.from /\ o.to = u.to
        BY <1>1, StartedIs
    <2>2. open' = {o}
        BY <1>5
    <2> HIDE DEF o
    <2>3. Opens(o, p, i, TRUE)
        BY <1>2, <2>1 DEF Opens
    <2>4. o.to = i
        BY <1>2, <2>1
    <2>5. Takes(p, i, TRUE, u.steps)
        BY <1>1, <1>5, <2>1, <2>2, <2>3, <2>4 DEF Takes
    <2> QED
        BY <2>5 DEF u
<1> QED
    BY <1>3, <1>4, <1>5 DEF OpenOrJoin

LEMMA ReturnOuterDoes ==
    ASSUME IInv, OpenOK, NEW p, ReturnOuter(p)
    PROVE  /\ host = {p} /\ Len(frames) = 1 /\ Deepest.left = {} /\ frames' = << >>
           /\ units' = Rest(units)
           /\ \/ /\ Deepest.out = << >> /\ UNCHANGED <<open, examples>> /\ diagnostics' # {}
                 /\ diagnostics' =
                       diagnostics \cup {Diagnosis("empty", Deepest.from, Deepest.at)}
              \/ /\ UNCHANGED diagnostics /\ Deepest.out # << >>
                 /\ Takes(p, First(units), FALSE, Spliced(Deepest).steps)
<1> DEFINE f == frames[1]  i == First(units)  u == Spliced(f)
<1>1. host = {p} /\ Len(frames) = 1 /\ f.left = {} /\ f = Deepest
    BY DEF ReturnOuter, Deepest
<1>2. IsFrame(f)
    BY <1>1, Under
<1>3. CASE f.out = << >>
    <2>1. diagnostics' = diagnostics \cup {Diagnosis("empty", f.from, f.at)}
        BY <1>3 DEF ReturnOuter, Empty
    <2>2. diagnostics' # {}
        BY <2>1
    <2> QED
        BY <1>1, <1>3, <2>1, <2>2 DEF ReturnOuter, NextUnit
<1>4. CASE f.out # << >>
    <2>1. IsPiece(u) /\ IsSteps(u.steps)
        BY <1>2, <1>4, SplicedIs DEF IsFrame, IsPiece
    <2>2. UNCHANGED diagnostics /\ frames' = << >> /\ units' = Rest(units)
        BY <1>4 DEF ReturnOuter, Empty, NextUnit
    <2>3. OpenOrJoin(p, i, EndsAtReference(Borrowing(p, i, u), i),
                     {EndsAtReference(Merged(e, u, TRUE), i) : e \in open})
        BY <1>4 DEF ReturnOuter
    <2> HIDE DEF u, i, f
    <2>4. CASE /\ open # None /\ ~Delimited(docs[p], i)
               /\ open' = {EndsAtReference(Merged(e, u, TRUE), i) : e \in open}
               /\ UNCHANGED examples
        <3>1. PICK e : open = {e} /\ IsExample(e)
            BY <2>4 DEF OpenOK
        <3> DEFINE m == Merged(e, u, TRUE)  o == EndsAtReference(m, i)
        <3>2. open' = {o}
            BY <2>4, <3>1
        <3>3. /\ IsExample(m) /\ m.steps = e.steps \o u.steps /\ m.from = e.from
              /\ m.borrowed = (e.borrowed /\ TRUE)
              /\ m.name = IF e.borrowed /\ ~TRUE THEN u.name ELSE e.name
              /\ m.scope = IF e.borrowed /\ ~TRUE THEN u.scope ELSE e.scope
            BY <2>1, <3>1, MergedIs
        <3>4. /\ IsExample(o) /\ o.to = i /\ o.from = m.from /\ o.steps = m.steps
              /\ o.name = m.name /\ o.scope = m.scope /\ o.borrowed = m.borrowed
            BY <3>3, EndsAtIs
        <3> HIDE DEF o, m
        <3>5. o.steps = e.steps \o u.steps
            BY <3>3, <3>4
        <3>6. e.borrowed \in BOOLEAN
            BY <3>1 DEF IsExample
        <3>7. GoesOn(o, e, p, i, FALSE)
            BY <3>3, <3>4, <3>6 DEF GoesOn
        <3>8. Takes(p, i, FALSE, u.steps)
            BY <2>1, <2>4, <3>1, <3>2, <3>4, <3>5, <3>7 DEF Takes
        <3> QED
            BY <1>1, <1>4, <2>2, <3>8 DEF i, u
    <2>5. CASE /\ open = None \/ Delimited(docs[p], i)
               /\ examples' = Flushed
               /\ open' = {EndsAtReference(Borrowing(p, i, u), i)}
        <3> DEFINE m == Borrowing(p, i, u)  o == EndsAtReference(m, i)
        <3>7. IsBorrowed(m, p, i, u)
            BY <2>1, BorrowingIs
        <3> HIDE DEF m
        <3>1. /\ IsExample(m) /\ m.borrowed = TRUE /\ m.scope = Scope(docs[p], i)
              /\ m.from = i /\ m.steps = u.steps
            BY <3>7 DEF IsBorrowed
        <3>2. /\ IsExample(o) /\ o.to = i /\ o.from = m.from /\ o.steps = m.steps
              /\ o.name = m.name /\ o.scope = m.scope /\ o.borrowed = m.borrowed
            BY <3>1, EndsAtIs
        <3>3. open' = {o}
            BY <2>5 DEF m
        <3> HIDE DEF o
        <3>4. Opens(o, p, i, FALSE)
            BY <3>1, <3>2 DEF Opens
        <3>5. o.steps = u.steps
            BY <3>1, <3>2
        <3>6. Takes(p, i, FALSE, u.steps)
            BY <2>1, <2>5, <3>2, <3>3, <3>4, <3>5 DEF Takes
        <3> QED
            BY <1>1, <1>4, <2>2, <3>6 DEF i, u
    <2> QED
        BY <2>3, <2>4, <2>5 DEF OpenOrJoin
<1> QED
    BY <1>3, <1>4

LEMMA TakesKeepsOpen ==
    ASSUME IsSteps(examples), OpenOK, NEW p, NEW i, NEW own, NEW ts,
           Takes(p, i, own, ts)
    PROVE  OpenOK' /\ IsSteps(examples')
<1>1. \E o : open' = {o} /\ IsExample(o)
    BY DEF Takes
<1>2. IsSteps(Flushed)
    BY FlushedIs
<1>3. IsSteps(examples')
    BY <1>2 DEF Takes
<1> QED
    BY <1>1, <1>3 DEF OpenOK

--------------------------------------------------------------------------------
LEMMA StateInit == Init => StateInv
<1> SUFFICES ASSUME Init PROVE StateInv
    OBVIOUS
<1>1. \A p \in Paths : docs[p] \in Outlines[p]
    BY DEF Init
<1>2. Docs
    BY <1>1, OathsAssumption DEF Docs
<1>3. << >> \in Seq({})
    OBVIOUS
<1>4. IsSteps(examples)
    BY <1>3 DEF Init, IsSteps
<1>5. Idle
    BY DEF Init, Idle
<1> QED
    BY <1>2, <1>4, <1>5 DEF Init, StateInv, OpenOK, HostOK, HoverOK, None

\* The first unit of a host is a candidate of its.
LEMMA AtFirst ==
    ASSUME StateInv, IInv, NEW p, host = {p}, units # {}
    PROVE  /\ p \in Paths /\ First(units) \in units /\ First(units) \in DOMAIN docs[p]
           /\ \A j \in units : First(units) <= j
           /\ \A j \in Rest(units) : First(units) < j
           /\ Rest(units) \subseteq units
<1>1. p \in Paths /\ units \subseteq DOMAIN docs[p]
    BY DEF IInv, UnitsOK
<1>2. Len(docs[p]) \in Nat /\ DOMAIN docs[p] = 1 .. Len(docs[p])
    BY <1>1 DEF StateInv, Docs
<1>3. units \in SUBSET (1 .. Len(docs[p]))
    BY <1>1, <1>2
<1>4. /\ First(units) \in units /\ \A j \in units : First(units) <= j
      /\ \A j \in Rest(units) : First(units) < j
    BY <1>2, <1>3, FirstOf
<1> QED
    BY <1>1, <1>4 DEF Rest

LEMMA HostOf ==
    ASSUME StateInv, NEW p, host = {p}
    PROVE  /\ p \in Paths /\ Resolving(p)
           /\ hover = None => p \notin todo /\ units \subseteq OwnUnits(p)
<1>1. ~Idle
    BY DEF Idle, None
<1>2. PICK q \in Paths :
          /\ host = {q}
          /\ hover = None => q \notin todo /\ units \subseteq OwnUnits(q)
          /\ Resolving(q)
    BY <1>1 DEF StateInv, HostOK
<1>3. p = q
    BY <1>2
<1> QED
    BY <1>2, <1>3

LEMMA OwnUnitsStay ==
    ASSUME UNCHANGED docs, NEW p
    PROVE  OwnUnits(p)' = OwnUnits(p)
BY DEF OwnUnits, Candidates, Consumed, Referenced

\* The host, and what is to plan, do not change, and units only leave.
LEMMA StateStays ==
    ASSUME StateInv, NEW p, host = {p}, UNCHANGED <<docs, hostVars>>, units' \subseteq units,
           OpenOK', IsSteps(examples'), Resolving(p)'
    PROVE  StateInv'
<1>1. /\ p \in Paths
      /\ hover = None => p \notin todo /\ units \subseteq OwnUnits(p)
    BY HostOf
<1>2. OwnUnits(p)' = OwnUnits(p)
    BY OwnUnitsStay
<1>3. /\ docs' = docs /\ host' = host /\ todo' = todo /\ plans' = plans /\ hover' = hover
    BY DEF hostVars, hoverVars
<1>4. hover' = None => p \notin todo' /\ units' \subseteq OwnUnits(p)'
    BY <1>1, <1>2, <1>3
<1>5. HostOK'
    BY <1>1, <1>3, <1>4 DEF HostOK
<1>6. Docs'
    BY <1>3 DEF StateInv, Docs
<1>7. HoverOK'
    BY <1>3 DEF StateInv, HoverOK
<1>8. todo' \subseteq Paths /\ DOMAIN plans' = Paths
    BY <1>3 DEF StateInv
<1> QED
    BY <1>5, <1>6, <1>7, <1>8 DEF StateInv

\* With no call under way there is nothing to say of its reference.
LEMMA NothingToResolve ==
    ASSUME NEW p, frames' = << >>
    PROVE  Resolving(p)'
BY DEF Resolving

LEMMA ReplacedResolves ==
    ASSUME IInv, NEW p, Resolving(p), UNCHANGED <<docs, units>>,
           NEW n \in 1 .. Len(frames), NEW g, SameCall(g, frames[n]), Replaced(frames', n, g)
    PROVE  Resolving(p)'
<1>1. frames # << >> /\ n \in Nat /\ n > 0
    BY Under
<1>2. SameCall(frames'[1], frames[1])
    BY <1>1, OutermostStays
<1> QED
    BY <1>1, <1>2 DEF Resolving, SameCall

LEMMA AppendedResolves ==
    ASSUME IInv, NEW p, Resolving(p), UNCHANGED <<docs, units>>,
           NEW n \in 1 .. Len(frames), NEW g, SameCall(g, frames[n]), NEW fs,
           Replaced(fs, n, g), NEW f, frames' = Append(fs, f)
    PROVE  Resolving(p)'
<1>1. frames # << >> /\ n \in Nat /\ n > 0
    BY Under
<1>2. fs # << >> /\ SameCall(fs[1], frames[1])
    BY <1>1, OutermostStays
<1>3. PICK S : fs \in Seq(S)
    BY DEF Replaced, IsSteps
<1>4. frames'[1] = fs[1]
    BY <1>2, <1>3
<1> QED
    BY <1>1, <1>2, <1>4 DEF Resolving, SameCall

LEMMA StateStep == StateInv /\ IInv /\ [Next]_vars => StateInv'
<1> SUFFICES ASSUME StateInv, IInv, [Next]_vars PROVE StateInv'
    OBVIOUS
<1>a. Docs /\ IsSteps(examples) /\ OpenOK /\ HoverOK
    BY DEF StateInv
<1>1. ASSUME NEW p \in Paths, StartPlan(p) PROVE StateInv'
    <2>1. Idle
        BY <1>1 DEF StateInv, HostOK, StartPlan, None
    <2>2. /\ host' = {p} /\ hover' = None /\ p \notin todo' /\ frames' = << >>
          /\ open' = open /\ examples' = examples /\ docs' = docs /\ plans' = plans
          /\ todo' \subseteq todo
        BY <1>1, <2>1 DEF StartPlan, Idle, hoverVars
    <2>3. units' = OwnUnits(p)
        BY <1>1 DEF StartPlan, OwnUnits
    <2>4. units' \subseteq OwnUnits(p)'
        BY <2>2, <2>3, OwnUnitsStay
    <2>5. Resolving(p)'
        BY <2>2, NothingToResolve
    <2>6. HostOK'
        BY <2>2, <2>4, <2>5 DEF HostOK
    <2> QED
        BY <1>a, <2>2, <2>6 DEF StateInv, Docs, OpenOK, HoverOK
<1>2. ASSUME NEW p \in Paths, ReturnOuter(p) PROVE StateInv'
    <2>1. /\ host = {p} /\ frames' = << >> /\ units' = Rest(units)
          /\ \/ UNCHANGED <<open, examples>>
             \/ Takes(p, First(units), FALSE, Spliced(Deepest).steps)
        BY <1>a, <1>2, ReturnOuterDoes
    <2>2. OpenOK' /\ IsSteps(examples')
        <3>1. CASE UNCHANGED <<open, examples>>
            BY <1>a, <3>1 DEF OpenOK
        <3> QED
            BY <1>a, <2>1, <3>1, TakesKeepsOpen
    <2>3. UNCHANGED <<docs, hostVars>> /\ units' \subseteq units
        BY <1>2, <2>1 DEF ReturnOuter, Rest
    <2> QED
        BY <2>1, <2>2, <2>3, NothingToResolve, StateStays
<1>3. ASSUME NEW p \in Paths, FinishPlan(p) PROVE StateInv'
    <2>1. Idle'
        BY <1>3 DEF FinishPlan, Idle, None
    <2>2. << >> \in Seq({})
        OBVIOUS
    <2> QED
        BY <1>3, <1>a, <2>1, <2>2
           DEF FinishPlan, StateInv, HostOK, Docs, OpenOK, IsSteps, HoverOK, hoverVars
<1>4. ASSUME NEW p \in Paths, NEW i \in units,
             GroupSteps(p, i) \/ GroupRows(p, i) \/ GroupProse(p, i)
      PROVE  StateInv'
    <2>1. /\ UNCHANGED <<docs, hostVars, frames>> /\ units' = Rest(units)
          /\ host = {p} /\ frames = << >>
        BY <1>4 DEF GroupSteps, GroupRows, GroupProse, NextUnit, AtUnit
    <2>2. OpenOK' /\ IsSteps(examples')
        <3>1. CASE GroupSteps(p, i)
            BY <1>a, <3>1, GroupStepsDoes, TakesKeepsOpen
        <3>2. CASE GroupRows(p, i)
            <4>1. IsSteps(Flushed)
                BY <1>a, FlushedIs
            <4>2. IsSteps(examples') /\ open' = None
                BY <3>2, <4>1, RanAppended DEF GroupRows
            <4> QED
                BY <4>2 DEF OpenOK
        <3>3. CASE GroupProse(p, i)
            <4>1. IsSteps(Flushed)
                BY <1>a, FlushedIs
            <4>2. IsSteps(examples') /\ open' = None
                BY <3>3, <4>1 DEF GroupProse
            <4> QED
                BY <4>2 DEF OpenOK
        <3> QED
            BY <1>4, <3>1, <3>2, <3>3
    <2>3. units' \subseteq units /\ Resolving(p)'
        BY <2>1, NothingToResolve DEF Rest
    <2> QED
        BY <2>1, <2>2, <2>3, StateStays
<1>5. ASSUME NEW p \in Paths, NEW i \in units, GroupReference(p, i) PROVE StateInv'
    <2>1. /\ host = {p} /\ i = First(units) /\ UNCHANGED <<docs, hostVars, open, examples>>
          /\ frames = << >> /\ IsLink(docs[p][i])
        BY <1>5 DEF GroupReference, AtUnit
    <2>2. CASE Refused(docs[p][i]) # "nothing"
        <3>1. units' = Rest(units) /\ frames' = << >>
            BY <1>5, <2>2 DEF GroupReference, LeaveIfRefused, NextUnit, Resolve
        <3>2. units' \subseteq units
            BY <3>1 DEF Rest
        <3> QED
            BY <1>a, <2>1, <3>1, <3>2, NothingToResolve, StateStays DEF OpenOK
    <2>3. CASE Refused(docs[p][i]) = "nothing"
        <3>1. units' = units /\ frames' = Append(<< >>, Frame(p, i))
            BY <1>5, <2>3 DEF GroupReference, LeaveIfRefused, Resolve
        <3>2. frames'[1] = Frame(p, i)
            BY <3>1
        <3>3. frames'[1].key = KeyOf(docs[p][i]) /\ frames'[1].from = p /\ frames'[1].at = i
            BY <3>2 DEF Frame
        <3>4. Resolving(p)'
            BY <1>5, <2>1, <3>1, <3>3 DEF Resolving
        <3> QED
            BY <1>a, <2>1, <3>1, <3>4, StateStays DEF OpenOK
    <2> QED
        BY <2>2, <2>3
<1>6. ASSUME NEW p \in Paths, NEW i \in Left,
             SpliceCandidate(p, i) \/ SpliceReference(p, i)
      PROVE  StateInv'
    <2>1. UNCHANGED <<docs, hostVars, units, open, examples>> /\ InSection(p, i)
        BY <1>6 DEF SpliceCandidate, SpliceReference
    <2>2. frames # << >> /\ Len(frames) \in 1 .. Len(frames) /\ IsFrame(Deepest)
        BY <1>a, <2>1, AtCandidate, Under
    <2>3. PICK q : host = {q}
        BY <2>2 DEF StateInv, HostOK, Idle
    <2>4. Resolving(q)
        BY <2>3, HostOf
    <2>5. Resolving(q)'
        <3>1. CASE SpliceCandidate(p, i)
            <4>1. PICK g : Replaced(frames', Len(frames), g) /\ SameCall(g, Deepest)
                BY <1>a, <3>1, SpliceCandidateDoes
            <4> QED
                BY <2>1, <2>2, <2>4, <4>1, ReplacedResolves DEF Deepest
        <3>2. CASE SpliceReference(p, i)
            <4>1. PICK fs, g :
                     /\ Replaced(fs, Len(frames), g) /\ SameCall(g, Deepest)
                     /\ frames' = fs \/ frames' = Append(fs, Frame(p, i))
                BY <1>a, <3>2, SpliceReferenceDoes
            <4>2. CASE frames' = fs
                BY <2>1, <2>2, <2>4, <4>1, <4>2, ReplacedResolves DEF Deepest
            <4>3. CASE frames' = Append(fs, Frame(p, i))
                BY <2>1, <2>2, <2>4, <4>1, <4>3, AppendedResolves DEF Deepest
            <4> QED
                BY <4>1, <4>2, <4>3
        <3> QED
            BY <1>6, <3>1, <3>2
    <2> QED
        BY <1>a, <2>1, <2>3, <2>5, StateStays DEF OpenOK
<1>7. ASSUME ReturnInner PROVE StateInv'
    <2>1. UNCHANGED <<docs, hostVars, units, open, examples>>
        BY <1>7 DEF ReturnInner
    <2>2. Len(frames) \in Nat /\ Len(frames) > 1
        BY <1>7, ReturnInnerDoes
    <2>3. PICK g : /\ Replaced(frames', Len(frames) - 1, g)
                   /\ SameCall(g, frames[Len(frames) - 1])
        BY <1>7, ReturnInnerDoes
    <2>4. Len(frames) - 1 \in 1 .. Len(frames) /\ frames # << >>
        BY <2>2, Under
    <2>5. PICK q : host = {q}
        BY <2>4 DEF StateInv, HostOK, Idle
    <2>6. Resolving(q)
        BY <2>5, HostOf
    <2>7. Resolving(q)'
        BY <2>1, <2>3, <2>4, <2>6, ReplacedResolves
    <2> QED
        BY <1>a, <2>1, <2>5, <2>7, StateStays DEF OpenOK
<1>8. CASE UNCHANGED vars
    <2>1. UNCHANGED <<docs, hostVars, units, open, examples, frames, diagnostics>>
        BY <1>8 DEF vars
    <2>2. CASE Idle
        <3>1. Idle'
            BY <2>1, <2>2 DEF Idle, hostVars, hoverVars
        <3> QED
            BY <1>a, <2>1, <3>1
               DEF StateInv, HostOK, Docs, OpenOK, HoverOK, hostVars, hoverVars
    <2>3. CASE ~Idle
        <3>1. PICK q : host = {q}
            BY <2>3 DEF StateInv, HostOK
        <3>2. Resolving(q)'
            BY <2>1, <3>1, HostOf DEF Resolving
        <3> QED
            BY <1>a, <2>1, <3>1, <3>2, StateStays DEF OpenOK
    <2> QED
        BY <2>2, <2>3
<1>9. ASSUME NEW p \in Paths, NEW i \in DOMAIN docs[p], HoverReference(p, i)
      PROVE  StateInv'
    <2> DEFINE q == docs[p][i].path
    <2>1. Idle
        BY <1>9 DEF StateInv, HostOK, HoverReference, None
    <2>2. /\ q \in Paths /\ host' = {q} /\ hover' # None /\ frames' = << >> /\ todo' = Paths
          /\ docs' = docs /\ open' = open /\ examples' = examples /\ plans' = plans
        BY <1>9, <2>1 DEF HoverReference, Refused, Idle, None
    <2>3. Resolving(q)'
        BY <2>2, NothingToResolve
    <2>4. HostOK'
        BY <2>2, <2>3 DEF HostOK
    <2> QED
        BY <1>a, <2>2, <2>4 DEF StateInv, Docs, OpenOK, HoverOK
<1>10. ASSUME NEW k \in hover, FinishHover(k) PROVE StateInv'
    <2>1. hover # None
        BY <1>10 DEF None
    <2>2. Idle'
        BY <1>10, <2>1 DEF FinishHover, Idle, None
    <2>3. << >> \in Seq({})
        OBVIOUS
    <2> QED
        BY <1>10, <1>a, <2>2, <2>3
           DEF FinishHover, StateInv, HostOK, Docs, OpenOK, IsSteps, HoverOK
<1> QED
    BY <1>1, <1>2, <1>3, <1>4, <1>5, <1>6, <1>7, <1>8, <1>9, <1>10 DEF Next
--------------------------------------------------------------------------------
\* What has run, or will once the example under construction is closed.
PlacesIn(fs) == UNION {Ran(fs[m].out) : m \in 1 .. Len(fs)}
Held == Ran(examples) \cup OpenPlaces \cup PlacesIn(frames)

\* A candidate of document p is seen to: its step is in X, or the section it refers to
\* is in S.
Seen(d, p, i, S, X) ==
    /\ Matched(d[p][i]) => <<p, i>> \in X
    /\ IsLink(d[p][i]) => KeyOf(d[p][i]) \in S

\* The sections of S are resolved, and all that they refer to.
Closed(d, S, X) ==
    \A k \in S :
        /\ k[1] \in Paths
        /\ \A i \in SectionCandidates(d[k[1]], k[2]) : Seen(d, k[1], i, S, X)

AboveIn(fs, m) == {fs[l].key : l \in m + 1 .. Len(fs)}

\* Each call has seen to what it is past.
CallsSee(d, fs, S, X) ==
    \A m \in 1 .. Len(fs) :
        \A i \in SectionCandidates(d[fs[m].path], fs[m].key[2]) \ fs[m].left :
            Seen(d, fs[m].path, i, S \cup AboveIn(fs, m), X)

Progress(p, S) ==
    /\ Closed(docs, S, Held)
    /\ CallsSee(docs, frames, S, Held)
    /\ \A i \in OwnUnits(p) \ units : Seen(docs, p, i, S, Held)

ProgressInv ==
    hover = None /\ diagnostics = {} =>
        \A p \in host : \E S : Progress(p, S)

\* All that an oath plans, and all that it refers to, is in its plan.
PlanComplete(p) ==
    plans[p].diagnostics = {} =>
        \E S : /\ Closed(docs, S, Ran(ExamplesOf(p)))
               /\ \A i \in OwnUnits(p) : Seen(docs, p, i, S, Ran(ExamplesOf(p)))

PlansInv == \A p \in Planned : PlanComplete(p)

LEMMA SeenMore ==
    ASSUME NEW d, NEW p, NEW i, NEW S, NEW X, Seen(d, p, i, S, X),
           NEW T, NEW Y, S \subseteq T, X \subseteq Y
    PROVE  Seen(d, p, i, T, Y)
BY DEF Seen

LEMMA ClosedMore ==
    ASSUME NEW d, NEW S, NEW X, Closed(d, S, X), NEW Y, X \subseteq Y
    PROVE  Closed(d, S, Y)
<1> SUFFICES ASSUME NEW k \in S
             PROVE  /\ k[1] \in Paths
                    /\ \A i \in SectionCandidates(d[k[1]], k[2]) : Seen(d, k[1], i, S, Y)
    BY DEF Closed
<1>1. /\ k[1] \in Paths
      /\ \A i \in SectionCandidates(d[k[1]], k[2]) : Seen(d, k[1], i, S, X)
    BY DEF Closed
<1> QED
    BY <1>1, SeenMore

\* One more section is resolved once all of it is seen to.
LEMMA ClosedWith ==
    ASSUME NEW d, NEW S, NEW X, Closed(d, S, X), NEW Y, X \subseteq Y,
           NEW k, k[1] \in Paths,
           \A i \in SectionCandidates(d[k[1]], k[2]) : Seen(d, k[1], i, S, X)
    PROVE  Closed(d, S \cup {k}, Y)
<1> SUFFICES ASSUME NEW j \in S \cup {k}
             PROVE  /\ j[1] \in Paths
                    /\ \A i \in SectionCandidates(d[j[1]], j[2]) :
                          Seen(d, j[1], i, S \cup {k}, Y)
    BY DEF Closed
<1>1. /\ j[1] \in Paths
      /\ \A i \in SectionCandidates(d[j[1]], j[2]) : Seen(d, j[1], i, S, X)
    BY DEF Closed
<1>2. S \subseteq S \cup {k}
    OBVIOUS
<1> QED
    BY <1>1, <1>2, SeenMore

\* What calls have spliced in is not lost when the last of them is replaced.
LEMMA PlacesKept ==
    ASSUME IInv, NEW n \in 1 .. Len(frames), NEW g, NEW fs, Replaced(fs, n, g),
           \A m \in n .. Len(frames) : Ran(frames[m].out) \subseteq Ran(g.out)
    PROVE  PlacesIn(frames) \subseteq PlacesIn(fs)
<1> SUFFICES ASSUME NEW m \in 1 .. Len(frames), NEW x \in Ran(frames[m].out)
             PROVE  x \in PlacesIn(fs)
    BY DEF PlacesIn
<1>1. Len(frames) \in Nat /\ n \in Nat /\ Len(fs) = n
    BY Under DEF Replaced
<1>2. CASE m \in 1 .. n - 1
    <2>1. m \in 1 .. Len(fs)
        BY <1>1, <1>2
    <2>2. fs[m] = frames[m]
        BY <1>2 DEF Replaced
    <2> QED
        BY <2>1, <2>2 DEF PlacesIn
<1>3. CASE m \in n .. Len(frames)
    <2>1. n \in 1 .. Len(fs) /\ fs[n] = g
        BY <1>1 DEF Replaced
    <2>2. x \in Ran(g.out)
        BY <1>3
    <2> QED
        BY <2>1, <2>2 DEF PlacesIn
<1> QED
    BY <1>1, <1>2, <1>3

LEMMA AppendedTo ==
    ASSUME NEW fs, IsSteps(fs), NEW f
    PROVE  /\ Len(fs) \in Nat /\ Len(Append(fs, f)) = Len(fs) + 1
           /\ Append(fs, f)[Len(fs) + 1] = f
           /\ \A m \in 1 .. Len(fs) : Append(fs, f)[m] = fs[m]
<1>1. PICK S : fs \in Seq(S)
    BY DEF IsSteps
<1> QED
    BY <1>1

LEMMA PlacesAppended ==
    ASSUME NEW fs, IsSteps(fs), NEW f
    PROVE  PlacesIn(fs) \subseteq PlacesIn(Append(fs, f))
<1>1. /\ Len(fs) \in Nat /\ Len(Append(fs, f)) = Len(fs) + 1
      /\ \A m \in 1 .. Len(fs) : Append(fs, f)[m] = fs[m]
    BY AppendedTo
<1>2. \A m \in 1 .. Len(fs) : m \in 1 .. Len(Append(fs, f))
    BY <1>1
<1> QED
    BY <1>1, <1>2 DEF PlacesIn

\* Calls see to a section when the last of them is replaced by one of its key that is
\* past less, and what the calls above it resolved is in T.
LEMMA CallsSeeReplaced ==
    ASSUME IInv, NEW d, NEW S, NEW X, CallsSee(d, frames, S, X),
           NEW n \in 1 .. Len(frames), NEW g, NEW fs, Replaced(fs, n, g),
           g.key = frames[n].key, g.path = frames[n].path,
           NEW T, NEW Y, S \subseteq T, X \subseteq Y,
           \A l \in n + 1 .. Len(frames) : frames[l].key \in T,
           \A i \in frames[n].left \ g.left : Seen(d, g.path, i, T, Y)
    PROVE  CallsSee(d, fs, T, Y)
<1>1. Len(frames) \in Nat /\ n \in Nat /\ Len(fs) = n
    BY Under DEF Replaced
<1>2. ASSUME NEW m \in 1 .. n
      PROVE  fs[m].key = frames[m].key /\ fs[m].path = frames[m].path
    <2>1. CASE m \in 1 .. n - 1
        BY <2>1 DEF Replaced
    <2>2. CASE m = n
        BY <2>2 DEF Replaced
    <2> QED
        BY <1>1, <2>1, <2>2
<1>3. ASSUME NEW m \in 1 .. n
      PROVE  S \cup AboveIn(frames, m) \subseteq T \cup AboveIn(fs, m)
    <2>1. ASSUME NEW l \in m + 1 .. Len(frames)
          PROVE  frames[l].key \in T \cup AboveIn(fs, m)
        <3>1. CASE l <= n
            <4>1. l \in m + 1 .. Len(fs) /\ l \in 1 .. n
                BY <1>1, <3>1
            <4> QED
                BY <1>2, <4>1 DEF AboveIn
        <3>2. CASE l > n
            <4>1. l \in n + 1 .. Len(frames)
                BY <1>1, <3>2
            <4> QED
                BY <4>1
        <3> QED
            BY <1>1, <3>1, <3>2
    <2> QED
        BY <2>1 DEF AboveIn
<1> SUFFICES ASSUME NEW m \in 1 .. n,
                    NEW i \in SectionCandidates(d[fs[m].path], fs[m].key[2]) \ fs[m].left
             PROVE  Seen(d, fs[m].path, i, T \cup AboveIn(fs, m), Y)
    BY <1>1 DEF CallsSee
<1>4. m \in 1 .. Len(frames) /\ (m \in 1 .. n - 1 \/ m = n)
    BY <1>1
<1>5. i \in SectionCandidates(d[frames[m].path], frames[m].key[2])
    BY <1>2
<1>6. CASE i \notin frames[m].left
    <2>1. Seen(d, frames[m].path, i, S \cup AboveIn(frames, m), X)
        BY <1>4, <1>5, <1>6 DEF CallsSee
    <2>2. S \cup AboveIn(frames, m) \subseteq T \cup AboveIn(fs, m)
        BY <1>3
    <2>3. Seen(d, frames[m].path, i, T \cup AboveIn(fs, m), Y)
        BY <2>1, <2>2, SeenMore
    <2> QED
        BY <1>2, <2>3
<1>7. CASE i \in frames[m].left
    <2>1. m = n
        <3>1. m \in 1 .. n - 1 => fs[m] = frames[m]
            BY DEF Replaced
        <3> QED
            BY <1>4, <1>7, <3>1
    <2>2. i \in frames[n].left \ g.left /\ fs[m].path = g.path
        BY <1>7, <2>1 DEF Replaced
    <2>3. Seen(d, fs[m].path, i, T, Y)
        BY <2>2
    <2>4. T \subseteq T \cup AboveIn(fs, m)
        OBVIOUS
    <2> QED
        BY <2>3, <2>4, SeenMore
<1> QED
    BY <1>6, <1>7

\* A call on top, which is past nothing, resolves its key.
LEMMA CallsSeeAppended ==
    ASSUME NEW fs, IsSteps(fs), NEW f, NEW d, NEW S, NEW X,
           CallsSee(d, fs, S \cup {f.key}, X),
           SectionCandidates(d[f.path], f.key[2]) \subseteq f.left
    PROVE  CallsSee(d, Append(fs, f), S, X)
<1> DEFINE gs == Append(fs, f)  n == Len(fs)
<1>1. /\ n \in Nat /\ Len(gs) = n + 1 /\ gs[n + 1] = f
      /\ \A m \in 1 .. n : gs[m] = fs[m]
    BY AppendedTo
<1> HIDE DEF gs
<1> SUFFICES ASSUME NEW m \in 1 .. n + 1,
                    NEW i \in SectionCandidates(d[gs[m].path], gs[m].key[2]) \ gs[m].left
             PROVE  Seen(d, gs[m].path, i, S \cup AboveIn(gs, m), X)
    BY <1>1 DEF CallsSee, gs
<1>2. m # n + 1
    BY <1>1
<1>3. m \in 1 .. n /\ gs[m] = fs[m]
    BY <1>1, <1>2
<1>4. Seen(d, gs[m].path, i, S \cup {f.key} \cup AboveIn(fs, m), X)
    BY <1>3 DEF CallsSee
<1>5. S \cup {f.key} \cup AboveIn(fs, m) \subseteq S \cup AboveIn(gs, m)
    <2>1. n + 1 \in m + 1 .. Len(gs) /\ gs[n + 1].key = f.key
        BY <1>1, <1>3
    <2>2. \A l \in m + 1 .. n : l \in m + 1 .. Len(gs) /\ gs[l] = fs[l]
        BY <1>1, <1>3
    <2> QED
        BY <2>1, <2>2 DEF AboveIn
<1> QED
    BY <1>4, <1>5, SeenMore

\* Nothing that has run, or will, is lost when the example under construction takes more.
LEMMA TakesHolds ==
    ASSUME IsSteps(examples), OpenOK, NEW p, NEW i, NEW own, NEW ts,
           Takes(p, i, own, ts)
    PROVE  Ran(examples) \cup OpenPlaces \cup StepPlaces(ts)
               \subseteq Ran(examples') \cup OpenPlaces'
<1>1. PICK o :
         /\ open' = {o} /\ IsSteps(ts)
         /\ \/ /\ UNCHANGED examples
               /\ \E e : open = {e} /\ IsExample(e) /\ o.steps = e.steps \o ts
            \/ examples' = Flushed /\ o.steps = ts
    BY DEF Takes
<1>2. OpenPlaces' = StepPlaces(o.steps)
    BY <1>1 DEF OpenPlaces
<1>3. CASE examples' = Flushed /\ o.steps = ts
    BY <1>1, <1>2, <1>3, FlushedIs
<1>4. CASE UNCHANGED examples /\ \E e : open = {e} /\ IsExample(e) /\ o.steps = e.steps \o ts
    <2>1. PICK e : open = {e} /\ IsExample(e) /\ o.steps = e.steps \o ts
        BY <1>4
    <2>2. OpenPlaces = StepPlaces(e.steps)
        BY <2>1 DEF OpenPlaces
    <2>3. IsSteps(e.steps)
        BY <2>1 DEF IsExample
    <2>4. StepPlaces(o.steps) = StepPlaces(e.steps) \cup StepPlaces(ts)
        BY <1>1, <2>1, <2>3, StepsJoined
    <2> QED
        BY <1>2, <1>4, <2>2, <2>4
<1> QED
    BY <1>1, <1>3, <1>4

\* The unit at hand is seen to.
LEMMA UnitSeen ==
    ASSUME NEW p, NEW S, Progress(p, S), UNCHANGED docs, frames' = << >>,
           units' = Rest(units), Held \subseteq Held',
           NEW T, S \subseteq T, Closed(docs, T, Held'),
           Seen(docs, p, First(units), T, Held')
    PROVE  Progress(p, T)'
<1>1. \A f : CallsSee(docs, << >>, T, f)
    BY DEF CallsSee
<1>2. OwnUnits(p)' = OwnUnits(p)
    BY OwnUnitsStay
<1>3. ASSUME NEW i \in OwnUnits(p) \ units'
      PROVE  Seen(docs, p, i, T, Held')
    <2>1. i = First(units) \/ i \in OwnUnits(p) \ units
        BY <1>3 DEF Rest
    <2>2. CASE i \in OwnUnits(p) \ units
        <3>1. Seen(docs, p, i, S, Held)
            BY <2>2 DEF Progress
        <3> QED
            BY <3>1, SeenMore
    <2> QED
        BY <2>1, <2>2
<1> QED
    BY <1>1, <1>2, <1>3 DEF Progress

LEMMA NoPlaces == PlacesIn(<< >>) = {}
BY DEF PlacesIn

\* Units and the places they hold are as they were, or more.
LEMMA CallProgress ==
    ASSUME NEW p, NEW S, Progress(p, S), UNCHANGED <<docs, units>>, Held \subseteq Held',
           NEW T, S \subseteq T, Closed(docs, T, Held'), CallsSee(docs, frames', T, Held')
    PROVE  Progress(p, T)'
<1>1. OwnUnits(p)' = OwnUnits(p)
    BY OwnUnitsStay
<1>2. ASSUME NEW i \in OwnUnits(p) \ units
      PROVE  Seen(docs, p, i, T, Held')
    <2>1. Seen(docs, p, i, S, Held)
        BY DEF Progress
    <2> QED
        BY <2>1, SeenMore
<1> QED
    BY <1>1, <1>2 DEF Progress

\* The loop over the section of a call.
LEMMA SpliceCandidateProgress ==
    ASSUME StateInv, IInv, NEW p, NEW i, SpliceCandidate(p, i), NEW q, NEW S, Progress(q, S)
    PROVE  Progress(q, S)'
<1>1. UNCHANGED <<docs, units, open, examples>> /\ InSection(p, i) /\ ~IsLink(docs[p][i])
    BY DEF SpliceCandidate
<1>2. Docs
    BY DEF StateInv
<1>3. frames # << >> /\ p = Deepest.path
    BY <1>1, <1>2, AtCandidate
<1>4. Len(frames) \in 1 .. Len(frames) /\ Len(frames) \in Nat
    BY <1>3, Under
<1>5. PICK g : /\ Replaced(frames', Len(frames), g)
               /\ g.key = Deepest.key /\ g.path = Deepest.path
               /\ g.left = Deepest.left \ {i}
               /\ Ran(Deepest.out) \subseteq Ran(g.out)
               /\ Matched(docs[p][i]) => <<p, i>> \in Ran(g.out)
    BY <1>2, SpliceCandidateDoes
<1>6. \A m \in Len(frames) .. Len(frames) : Ran(frames[m].out) \subseteq Ran(g.out)
    BY <1>4, <1>5 DEF Deepest
<1>7. PlacesIn(frames) \subseteq PlacesIn(frames')
    BY <1>4, <1>5, <1>6, PlacesKept
<1>8. Ran(g.out) \subseteq PlacesIn(frames')
    BY <1>4, <1>5 DEF Replaced, PlacesIn
<1>9. Held \subseteq Held' /\ Ran(g.out) \subseteq Held'
    BY <1>1, <1>7, <1>8 DEF Held, OpenPlaces
<1>10. Seen(docs, p, i, S, Held')
    BY <1>1, <1>5, <1>9 DEF Seen
<1>11. \A j \in Deepest.left \ g.left : Seen(docs, g.path, j, S, Held')
    BY <1>3, <1>5, <1>10
<1>12. \A l \in Len(frames) + 1 .. Len(frames) : frames[l].key \in S
    BY <1>4
<1>13. CallsSee(docs, frames, S, Held) /\ Closed(docs, S, Held)
    BY DEF Progress
<1>14. frames[Len(frames)] = Deepest
    BY DEF Deepest
<1>15. CallsSee(docs, frames', S, Held')
    BY <1>4, <1>5, <1>9, <1>11, <1>12, <1>13, <1>14, CallsSeeReplaced
<1>16. Closed(docs, S, Held')
    BY <1>9, <1>13, ClosedMore
<1> QED
    BY <1>1, <1>9, <1>15, <1>16, CallProgress

LEMMA SpliceReferenceProgress ==
    ASSUME StateInv, IInv, NEW p, NEW i, SpliceReference(p, i), NEW q, NEW S, Progress(q, S),
           diagnostics' = {}
    PROVE  Progress(q, S)'
<1>1. UNCHANGED <<docs, units, open, examples>> /\ InSection(p, i) /\ IsLink(docs[p][i])
    BY DEF SpliceReference
<1>2. Docs
    BY DEF StateInv
<1>3. frames # << >> /\ p = Deepest.path
    BY <1>1, <1>2, AtCandidate
<1>4. Len(frames) \in 1 .. Len(frames) /\ Len(frames) \in Nat
    BY <1>3, Under
<1> DEFINE F == Frame(p, i)
<1>5. PICK fs, g :
         /\ Replaced(fs, Len(frames), g)
         /\ g.key = Deepest.key /\ g.path = Deepest.path
         /\ g.left = Deepest.left \ {i} /\ g.out = Deepest.out
         /\ \/ frames' = fs /\ diagnostics' # {}
            \/ /\ frames' = Append(fs, Frame(p, i)) /\ UNCHANGED diagnostics
               /\ Refused(docs[p][i]) = "nothing"
    BY <1>2, SpliceReferenceDoes
<1>6. frames' = Append(fs, F)
    BY <1>5
<1>7. /\ F.key = KeyOf(docs[p][i])
      /\ SectionCandidates(docs[F.path], F.key[2]) \subseteq F.left
    BY DEF Frame, KeyOf, Key
<1> HIDE DEF F
<1>8. \A m \in Len(frames) .. Len(frames) : Ran(frames[m].out) \subseteq Ran(g.out)
    BY <1>4, <1>5 DEF Deepest
<1>9. PlacesIn(frames) \subseteq PlacesIn(fs)
    BY <1>4, <1>5, <1>8, PlacesKept
<1>10. IsSteps(fs)
    BY <1>5 DEF Replaced
<1>11. PlacesIn(fs) \subseteq PlacesIn(frames')
    BY <1>6, <1>10, PlacesAppended
<1>12. Held \subseteq Held'
    BY <1>1, <1>9, <1>11 DEF Held, OpenPlaces
<1> DEFINE T == S \cup {F.key}
<1>13. Seen(docs, p, i, T, Held')
    BY <1>1, <1>7 DEF Seen, IsLink, Matched
<1>14. \A j \in Deepest.left \ g.left : Seen(docs, g.path, j, T, Held')
    BY <1>3, <1>5, <1>13
<1>15. \A l \in Len(frames) + 1 .. Len(frames) : frames[l].key \in T
    BY <1>4
<1>16. CallsSee(docs, frames, S, Held) /\ Closed(docs, S, Held)
    BY DEF Progress
<1>17. frames[Len(frames)] = Deepest /\ S \subseteq T
    BY DEF Deepest
<1>18. CallsSee(docs, fs, T, Held')
    <2> HIDE DEF T
    <2> QED
        BY <1>4, <1>5, <1>12, <1>14, <1>15, <1>16, <1>17, CallsSeeReplaced
<1>19. CallsSee(docs, frames', S, Held')
    BY <1>6, <1>7, <1>10, <1>18, CallsSeeAppended
<1>20. Closed(docs, S, Held')
    BY <1>12, <1>16, ClosedMore
<1> QED
    BY <1>1, <1>12, <1>19, <1>20, CallProgress

\* A call that returns has seen to all of its section.
LEMMA DeepestSeen ==
    ASSUME IInv, frames # << >>, Deepest.left = {}, NEW q, NEW S, Progress(q, S)
    PROVE  /\ Deepest.key[1] \in Paths
           /\ \A i \in SectionCandidates(docs[Deepest.key[1]], Deepest.key[2]) :
                 Seen(docs, Deepest.key[1], i, S, Held)
<1>1. IsFrame(Deepest) /\ Len(frames) \in 1 .. Len(frames) /\ Len(frames) \in Nat
    BY Under
<1>2. Deepest.key[1] \in Paths /\ Deepest.path = Deepest.key[1]
    BY <1>1 DEF IsFrame
<1>3. AboveIn(frames, Len(frames)) = {}
    BY <1>1 DEF AboveIn
<1>4. frames[Len(frames)] = Deepest
    BY DEF Deepest
<1>5. ASSUME NEW i \in SectionCandidates(docs[Deepest.path], Deepest.key[2])
      PROVE  Seen(docs, Deepest.path, i, S, Held)
    <2>1. Seen(docs, Deepest.path, i, S \cup AboveIn(frames, Len(frames)), Held)
        BY <1>1, <1>4 DEF Progress, CallsSee
    <2>2. S \cup AboveIn(frames, Len(frames)) = S
        BY <1>3
    <2> QED
        BY <2>1, <2>2
<1> QED
    BY <1>2, <1>5

LEMMA ReturnInnerProgress ==
    ASSUME StateInv, IInv, ReturnInner, NEW q, NEW S, Progress(q, S)
    PROVE  \E T : Progress(q, T)'
<1> DEFINE n == Len(frames)
<1>0. PICK T : T = S \cup {Deepest.key}
    OBVIOUS
<1>1. UNCHANGED <<docs, units, open, examples>>
    BY DEF ReturnInner
<1>2. /\ n \in Nat /\ n > 1 /\ Deepest.left = {}
      /\ \E g : /\ Replaced(frames', n - 1, g)
                /\ g.key = frames[n - 1].key /\ g.path = frames[n - 1].path
                /\ g.left = frames[n - 1].left
                /\ Ran(g.out) = Ran(frames[n - 1].out) \cup Ran(Deepest.out)
    BY ReturnInnerDoes
<1>3. PICK g : /\ Replaced(frames', n - 1, g)
               /\ g.key = frames[n - 1].key /\ g.path = frames[n - 1].path
               /\ g.left = frames[n - 1].left
               /\ Ran(g.out) = Ran(frames[n - 1].out) \cup Ran(Deepest.out)
    BY <1>2
<1>4. n - 1 \in 1 .. n /\ frames # << >> /\ \A m \in n - 1 .. n : m = n - 1 \/ m = n
    <2>1. frames # << >>
        BY <1>2, Under
    <2> QED
        BY <1>2, <2>1
<1>5. frames[n] = Deepest
    BY DEF Deepest
<1>6. \A m \in n - 1 .. n : Ran(frames[m].out) \subseteq Ran(g.out)
    BY <1>3, <1>4, <1>5
<1>7. PlacesIn(frames) \subseteq PlacesIn(frames')
    <2> HIDE DEF n
    <2>1. n = Len(frames)
        BY DEF n
    <2> QED
        BY <1>3, <1>4, <1>6, <2>1, PlacesKept
<1>8. Held \subseteq Held'
    BY <1>1, <1>7 DEF Held, OpenPlaces
<1>9. CallsSee(docs, frames, S, Held) /\ Closed(docs, S, Held)
    BY DEF Progress
<1>10. Closed(docs, T, Held')
    <2>1. Closed(docs, S \cup {Deepest.key}, Held')
        BY <1>2, <1>4, <1>8, <1>9, DeepestSeen, ClosedWith
    <2> QED
        BY <1>0, <2>1
<1>11. S \subseteq T /\ \A l \in n .. n : frames[l].key \in T
    BY <1>0, <1>2, <1>5
<1>12. CallsSee(docs, frames', T, Held')
    <2> HIDE DEF n
    <2>1. n = Len(frames) /\ n - 1 + 1 = n
        BY <1>2 DEF n
    <2>2. \A l \in n - 1 + 1 .. n : frames[l].key \in T
        BY <1>11, <2>1
    <2>3. \A i \in frames[n - 1].left \ g.left : Seen(docs, g.path, i, T, Held')
        BY <1>3
    <2> QED
        BY <1>3, <1>4, <1>8, <1>9, <1>11, <2>1, <2>2, <2>3, CallsSeeReplaced
<1>13. Progress(q, T)'
    BY <1>1, <1>8, <1>10, <1>11, <1>12, CallProgress
<1> QED
    BY <1>13

LEMMA ReturnOuterProgress ==
    ASSUME StateInv, IInv, NEW p, ReturnOuter(p), NEW S, Progress(p, S), diagnostics' = {}
    PROVE  \E T : Progress(p, T)'
<1>1. IsSteps(examples) /\ OpenOK
    BY DEF StateInv
<1>2. /\ host = {p} /\ Len(frames) = 1 /\ Deepest.left = {} /\ frames' = << >>
      /\ units' = Rest(units)
      /\ Takes(p, First(units), FALSE, Spliced(Deepest).steps) /\ Deepest.out # << >>
    BY <1>1, ReturnOuterDoes
<1>3. frames # << >> /\ Deepest = frames[1] /\ IsFrame(Deepest)
    BY <1>2, Under DEF Deepest
<1>4. PlacesIn(frames) = Ran(Deepest.out)
    <2>1. 1 .. Len(frames) = {1}
        BY <1>2
    <2> QED
        BY <1>3, <2>1 DEF PlacesIn
<1>5. Held \subseteq Held'
    <2>1. Ran(examples) \cup OpenPlaces \cup Ran(Deepest.out)
              \subseteq Ran(examples') \cup OpenPlaces'
        <3>1. StepPlaces(Spliced(Deepest).steps) = Ran(Deepest.out)
            BY <1>2, <1>3, SplicedIs DEF IsFrame
        <3> QED
            BY <1>1, <1>2, <3>1, TakesHolds
    <2> QED
        BY <1>4, <2>1 DEF Held
<1>6. PICK T : T = S \cup {Deepest.key}
    OBVIOUS
<1>7. Closed(docs, S, Held)
    BY DEF Progress
<1>8. Closed(docs, T, Held')
    <2>1. Closed(docs, S \cup {Deepest.key}, Held')
        BY <1>2, <1>3, <1>5, <1>7, DeepestSeen, ClosedWith
    <2> QED
        BY <1>6, <2>1
<1>9. IsLink(docs[p][First(units)]) /\ Deepest.key = KeyOf(docs[p][First(units)])
    <2>1. Resolving(p)
        BY <1>2, HostOf
    <2> QED
        BY <1>3, <2>1 DEF Resolving
<1>10. Seen(docs, p, First(units), T, Held')
    BY <1>6, <1>9 DEF Seen, IsLink, Matched
<1>11. UNCHANGED docs
    BY DEF ReturnOuter
<1>12. S \subseteq T
    BY <1>6
<1>13. Progress(p, T)'
    BY <1>2, <1>5, <1>8, <1>10, <1>11, <1>12, UnitSeen
<1> QED
    BY <1>13

\* A unit of steps, rows or prose.
LEMMA GroupProgress ==
    ASSUME StateInv, NEW p, NEW i, GroupSteps(p, i) \/ GroupRows(p, i) \/ GroupProse(p, i),
           NEW S, Progress(p, S)
    PROVE  Progress(p, S)'
<1>1. IsSteps(examples) /\ OpenOK
    BY DEF StateInv
<1>2. /\ UNCHANGED <<docs, frames>> /\ units' = Rest(units) /\ i = First(units)
      /\ frames = << >> /\ frames' = << >>
    BY DEF GroupSteps, GroupRows, GroupProse, NextUnit, AtUnit
<1>3. PlacesIn(frames) = {}
    BY <1>2, NoPlaces
<1>4. /\ Ran(examples) \cup OpenPlaces \subseteq Ran(examples') \cup OpenPlaces'
      /\ Matched(docs[p][i]) => <<p, i>> \in Ran(examples') \cup OpenPlaces'
      /\ ~IsLink(docs[p][i])
    <2>1. CASE GroupSteps(p, i)
        <3>1. Takes(p, i, TRUE, Unit(p, i).steps) /\ StepPlaces(Unit(p, i).steps) = {<<p, i>>}
            BY <1>1, <2>1, GroupStepsDoes, UnitOfCandidate
        <3>2. Ran(examples) \cup OpenPlaces \cup {<<p, i>>}
                  \subseteq Ran(examples') \cup OpenPlaces'
            BY <1>1, <3>1, TakesHolds
        <3> QED
            BY <2>1, <3>2 DEF GroupSteps, Matched, IsLink
    <2>2. CASE GroupRows(p, i)
        <3>1. IsSteps(Flushed) /\ Ran(Flushed) = Ran(examples) \cup OpenPlaces
            BY <1>1, FlushedIs
        <3>2. Ran(Flushed) \subseteq Ran(examples')
            BY <2>2, <3>1, RanAppended DEF GroupRows
        <3> QED
            BY <2>2, <3>1, <3>2 DEF GroupRows, Matched, IsLink
    <2>3. CASE GroupProse(p, i)
        <3>1. Ran(Flushed) = Ran(examples) \cup OpenPlaces
            BY <1>1, FlushedIs
        <3> QED
            BY <2>3, <3>1 DEF GroupProse, Matched, IsLink
    <2> QED
        BY <2>1, <2>2, <2>3
<1>5. Held \subseteq Held' /\ (Matched(docs[p][i]) => <<p, i>> \in Held')
    BY <1>3, <1>4 DEF Held
<1>6. Seen(docs, p, First(units), S, Held')
    BY <1>2, <1>4, <1>5 DEF Seen
<1>7. Closed(docs, S, Held)
    BY DEF Progress
<1>8. Closed(docs, S, Held')
    BY <1>5, <1>7, ClosedMore
<1> QED
    BY <1>2, <1>5, <1>6, <1>8, UnitSeen

LEMMA GroupReferenceProgress ==
    ASSUME NEW p, NEW i, GroupReference(p, i), NEW S, Progress(p, S), diagnostics' = {}
    PROVE  Progress(p, S)'
<1>1. UNCHANGED <<docs, open, examples>> /\ frames = << >>
    BY DEF GroupReference, AtUnit
<1>2. Refused(docs[p][i]) = "nothing" /\ frames' = Append(<< >>, Frame(p, i))
    BY DEF GroupReference, Resolve
<1>3. UNCHANGED units
    BY <1>2 DEF GroupReference, LeaveIfRefused
<1> DEFINE F == Frame(p, i)
<1>4. frames' = <<F>>
    BY <1>2
<1>5. SectionCandidates(docs[F.path], F.key[2]) \subseteq F.left /\ F.out = << >>
    BY DEF Frame, KeyOf, Key
<1> HIDE DEF F
<1>6. Held \subseteq Held'
    <2>1. PlacesIn(frames) = {}
        BY <1>1, NoPlaces
    <2> QED
        BY <1>1, <2>1 DEF Held, OpenPlaces
<1>7. Closed(docs, S, Held)
    BY DEF Progress
<1>8. Closed(docs, S, Held')
    BY <1>6, <1>7, ClosedMore
<1>9. Len(<<F>>) = 1 /\ <<F>>[1] = F /\ 1 .. 1 = {1}
    OBVIOUS
<1>10. CallsSee(docs, frames', S, Held')
    BY <1>4, <1>5, <1>9 DEF CallsSee
<1> QED
    BY <1>1, <1>3, <1>6, <1>8, <1>10, CallProgress

LEMMA StartProgress ==
    ASSUME StateInv, NEW p, StartPlan(p)
    PROVE  Progress(p, {})'
<1>1. Idle
    BY DEF StateInv, HostOK, StartPlan, None
<1>2. frames' = << >> /\ docs' = docs /\ units' = OwnUnits(p)
    BY <1>1 DEF StartPlan, Idle, OwnUnits
<1>3. OwnUnits(p)' = OwnUnits(p)
    BY <1>2, OwnUnitsStay
<1>4. \A d, f : CallsSee(d, << >>, {}, f) /\ Closed(d, {}, f)
    BY DEF CallsSee, Closed
<1> QED
    BY <1>2, <1>3, <1>4 DEF Progress

LEMMA ProgressStep == ProgressInv /\ StateInv /\ IInv /\ [Next]_vars => ProgressInv'
<1> SUFFICES ASSUME ProgressInv, StateInv, IInv, [Next]_vars, hover' = None,
                    diagnostics' = {}, NEW q \in host'
             PROVE  \E S : Progress(q, S)'
    BY DEF ProgressInv
\* An oath is being planned, and goes on to be.
<1>0. ASSUME UNCHANGED hostVars, diagnostics = {}
      PROVE  /\ host = {q} /\ \E S : Progress(q, S)
             /\ \A p : p \in host => p = q
    <2>1. q \in host /\ hover = None
        BY <1>0 DEF hostVars, hoverVars
    <2>2. host = {q}
        BY <2>1 DEF StateInv, HostOK, Idle, None
    <2> QED
        BY <1>0, <2>1, <2>2 DEF ProgressInv
<1>1. ASSUME NEW p \in Paths, StartPlan(p) PROVE \E S : Progress(q, S)'
    <2>1. p = q
        BY <1>1 DEF StartPlan
    <2> QED
        BY <1>1, <2>1, StartProgress
<1>2. ASSUME NEW p \in Paths, ReturnOuter(p) PROVE \E S : Progress(q, S)'
    <2>1. UNCHANGED hostVars /\ diagnostics = {} /\ p \in host
        BY <1>2 DEF ReturnOuter
    <2>2. PICK S : Progress(q, S)
        BY <1>0, <2>1
    <2>3. p = q
        BY <1>0, <2>1
    <2> QED
        BY <1>2, <2>2, <2>3, ReturnOuterProgress
<1>3. ASSUME NEW p \in Paths, FinishPlan(p) PROVE FALSE
    BY <1>3 DEF FinishPlan, None
<1>4. ASSUME NEW p \in Paths, NEW i \in units,
             GroupSteps(p, i) \/ GroupRows(p, i) \/ GroupProse(p, i)
      PROVE  \E S : Progress(q, S)'
    <2>1. UNCHANGED hostVars /\ diagnostics = {} /\ p \in host
        BY <1>4 DEF GroupSteps, GroupRows, GroupProse, AtUnit
    <2>2. PICK S : Progress(q, S)
        BY <1>0, <2>1
    <2>3. p = q
        BY <1>0, <2>1
    <2> QED
        BY <1>4, <2>2, <2>3, GroupProgress
<1>5. ASSUME NEW p \in Paths, NEW i \in units, GroupReference(p, i)
      PROVE  \E S : Progress(q, S)'
    <2>1. UNCHANGED hostVars /\ diagnostics = {} /\ p \in host
        BY <1>5 DEF GroupReference, AtUnit, Resolve
    <2>2. PICK S : Progress(q, S)
        BY <1>0, <2>1
    <2>3. p = q
        BY <1>0, <2>1
    <2> QED
        BY <1>5, <2>2, <2>3, GroupReferenceProgress
<1>6. ASSUME NEW p \in Paths, NEW i \in Left,
             SpliceCandidate(p, i) \/ SpliceReference(p, i)
      PROVE  \E S : Progress(q, S)'
    <2>1. UNCHANGED hostVars /\ diagnostics = {}
        BY <1>6 DEF SpliceCandidate, SpliceReference, Resolve
    <2>2. PICK S : Progress(q, S)
        BY <1>0, <2>1
    <2> QED
        BY <1>6, <2>2, SpliceCandidateProgress, SpliceReferenceProgress
<1>7. ASSUME ReturnInner PROVE \E S : Progress(q, S)'
    <2>1. UNCHANGED hostVars /\ diagnostics = {}
        BY <1>7 DEF ReturnInner
    <2>2. PICK S : Progress(q, S)
        BY <1>0, <2>1
    <2> QED
        BY <1>7, <2>2, ReturnInnerProgress
<1>8. CASE UNCHANGED vars
    <2>1. UNCHANGED hostVars /\ diagnostics = {}
        BY <1>8 DEF vars
    <2>2. PICK S : Progress(q, S)
        BY <1>0, <2>1
    <2>3. Progress(q, S)'
        BY <1>8, <2>2 DEF vars, Progress, OwnUnits, Candidates, Consumed, Referenced, Held,
                          OpenPlaces
    <2> QED
        BY <2>3
<1>9. ASSUME NEW p \in Paths, NEW i \in DOMAIN docs[p], HoverReference(p, i)
      PROVE  FALSE
    BY <1>9 DEF HoverReference, None
<1>10. ASSUME NEW k \in hover, FinishHover(k) PROVE FALSE
    BY <1>10 DEF FinishHover, None
<1> QED
    BY <1>1, <1>2, <1>3, <1>4, <1>5, <1>6, <1>7, <1>8, <1>9, <1>10 DEF Next

--------------------------------------------------------------------------------
\* The finished plans.
LEMMA PlansStay ==
    ASSUME PlansInv, UNCHANGED <<docs, plans>>, Planned' \subseteq Planned
    PROVE  PlansInv'
<1> SUFFICES ASSUME NEW p \in Planned' PROVE PlanComplete(p)'
    BY DEF PlansInv
<1>1. PlanComplete(p)
    BY DEF PlansInv
<1>2. OwnUnits(p)' = OwnUnits(p)
    BY OwnUnitsStay
<1> QED
    BY <1>1, <1>2 DEF PlanComplete, ExamplesOf

LEMMA FinishedComplete ==
    ASSUME ProgressInv, StateInv, NEW p \in Paths, FinishPlan(p)
    PROVE  PlanComplete(p)'
<1>1. /\ host = {p} /\ frames = << >> /\ units = {} /\ hover = None /\ docs' = docs
      /\ plans' = [plans EXCEPT ![p] = [examples |-> Flushed, diagnostics |-> diagnostics]]
    BY DEF FinishPlan
<1>2. plans'[p].examples = Flushed /\ plans'[p].diagnostics = diagnostics
    BY <1>1 DEF StateInv
<1> SUFFICES ASSUME diagnostics = {}
             PROVE  \E S : /\ Closed(docs, S, Ran(Flushed))
                           /\ \A i \in OwnUnits(p) : Seen(docs, p, i, S, Ran(Flushed))
    <2>1. OwnUnits(p)' = OwnUnits(p)
        BY <1>1, OwnUnitsStay
    <2>2. ExamplesOf(p)' = Flushed
        BY <1>2 DEF ExamplesOf
    <2> QED
        BY <1>1, <1>2, <2>1, <2>2 DEF PlanComplete
<1>3. PICK S : Progress(p, S)
    BY <1>1 DEF ProgressInv
<1>4. Held = Ran(Flushed)
    BY <1>1, NoPlaces, FlushedIs DEF Held, StateInv
<1>5. OwnUnits(p) \ units = OwnUnits(p)
    BY <1>1
<1> QED
    BY <1>3, <1>4, <1>5 DEF Progress

LEMMA PlansStep ==
    ProgressInv /\ PlansInv /\ StateInv /\ StateInv' /\ IInv /\ [Next]_vars => PlansInv'
<1> SUFFICES ASSUME ProgressInv, PlansInv, StateInv, StateInv', IInv, [Next]_vars
             PROVE  PlansInv'
    OBVIOUS
<1>1. ASSUME NEW p \in Paths, StartPlan(p) PROVE PlansInv'
    <2>1. host' = {p} /\ todo' = todo \ {p} /\ host = {} /\ UNCHANGED <<docs, plans>>
        BY <1>1 DEF StartPlan, None
    <2>2. Planned' \subseteq Planned
        BY <2>1 DEF Planned
    <2> QED
        BY <2>1, <2>2, PlansStay
<1>2. ASSUME UNCHANGED <<docs, hostVars>> PROVE PlansInv'
    <2>1. Planned' \subseteq Planned
        BY <1>2 DEF Planned, hostVars
    <2> QED
        BY <1>2, <2>1, PlansStay DEF hostVars
<1>3. ASSUME NEW p \in Paths, FinishPlan(p) PROVE PlansInv'
    <2>1. PlanComplete(p)'
        BY <1>3, FinishedComplete
    <2>2. ASSUME NEW q \in Planned', q # p PROVE PlanComplete(q)'
        <3>1. /\ q \in Planned /\ docs' = docs
              /\ plans' = [plans EXCEPT ![p] = [examples |-> Flushed,
                                                diagnostics |-> diagnostics]]
            BY <1>3, <2>2 DEF FinishPlan, Planned
        <3>2. plans'[q] = plans[q]
            BY <2>2, <3>1 DEF StateInv, Planned
        <3>3. PlanComplete(q)
            BY <3>1 DEF PlansInv
        <3>4. OwnUnits(q)' = OwnUnits(q)
            BY <3>1, OwnUnitsStay
        <3> QED
            BY <3>1, <3>2, <3>3, <3>4 DEF PlanComplete, ExamplesOf
    <2> QED
        BY <2>1, <2>2 DEF PlansInv
<1>4. ASSUME todo' = Paths PROVE PlansInv'
    BY <1>4 DEF PlansInv, Planned
<1>5. ASSUME NEW p \in Paths, NEW i \in DOMAIN docs[p], HoverReference(p, i)
      PROVE  PlansInv'
    <2>1. todo' = Paths
        BY <1>5 DEF HoverReference
    <2> QED
        BY <1>4, <2>1
<1>6. ASSUME NEW k \in hover, FinishHover(k) PROVE PlansInv'
    <2>1. hover # None
        BY <1>6 DEF None
    <2>2. todo' = Paths
        BY <1>6, <2>1 DEF FinishHover, StateInv, HoverOK
    <2> QED
        BY <1>4, <2>2
<1>7. ASSUME NEW p \in Paths,
             \/ ReturnOuter(p)
             \/ \E i \in units : \/ GroupSteps(p, i) \/ GroupRows(p, i)
                                 \/ GroupProse(p, i) \/ GroupReference(p, i)
             \/ \E i \in Left : SpliceCandidate(p, i) \/ SpliceReference(p, i)
      PROVE  PlansInv'
    <2>1. UNCHANGED <<docs, hostVars>>
        BY <1>7 DEF ReturnOuter, GroupSteps, GroupRows, GroupProse, GroupReference,
                    SpliceCandidate, SpliceReference
    <2> QED
        BY <1>2, <2>1
<1>8. ASSUME ReturnInner PROVE PlansInv'
    <2>1. UNCHANGED <<docs, hostVars>>
        BY <1>8 DEF ReturnInner
    <2> QED
        BY <1>2, <2>1
<1>9. CASE UNCHANGED vars
    BY <1>2, <1>9 DEF vars
<1> QED
    BY <1>1, <1>3, <1>5, <1>6, <1>7, <1>8, <1>9 DEF Next

LEMMA FinitelyReferenced ==
    ASSUME Docs
    PROVE  IsFiniteSet(Referenced)
<1>1. ASSUME NEW p \in Paths
      PROVE  IsFiniteSet(References(docs[p]))
    <2> DEFINE links == {i \in DOMAIN docs[p] : docs[p][i].kind = "link"}
               f == [i \in DOMAIN docs[p] |-> KeyOf(docs[p][i])]
    <2>1. IsFiniteSet(DOMAIN docs[p])
        <3>1. Len(docs[p]) \in Nat /\ DOMAIN docs[p] = 1 .. Len(docs[p])
            BY DEF Docs
        <3> QED
            BY <3>1, FS_Interval
    <2>2. IsFiniteSet(links)
        BY <2>1, FS_Subset
    <2>3. References(docs[p]) = {f[i] : i \in links}
        BY DEF References
    <2> HIDE DEF links, f
    <2> QED
        BY <2>2, <2>3, FiniteImage
<1>2. IsFiniteSet({References(docs[p]) : p \in Paths})
    <2> DEFINE f == [p \in Paths |-> References(docs[p])]
    <2>1. {References(docs[p]) : p \in Paths} = {f[p] : p \in Paths}
        OBVIOUS
    <2> HIDE DEF f
    <2> QED
        BY OathsAssumption, <2>1, FiniteImage
<1> QED
    BY <1>1, <1>2, FS_UNION DEF Referenced

\* A consumed candidate is in a referenced section of its own oath.
LEMMA ConsumedBy ==
    ASSUME NEW p \in Paths, NEW i \in Candidates(docs[p]), Consumed(p, i)
    PROVE  \E k \in Resolvable : /\ k[1] = p
                                 /\ i \in SectionCandidates(docs[k[1]], k[2])
<1>1. PICK s \in Scope(docs[p], i) \cup {WholeFile} : Key(p, s) \in Referenced
    BY DEF Consumed
<1> DEFINE k == <<p, s>>
<1>2. k \in Referenced /\ k[1] = p /\ k[2] = s
    BY <1>1 DEF Key
<1>3. i \in SectionCandidates(docs[p], s)
    BY <1>1 DEF SectionCandidates
<1> QED
    BY <1>2, <1>3 DEF Resolvable

LEMMA NothingIsLost ==
    ASSUME StateInv, PlansInv, Done, \A p \in Paths : plans[p].diagnostics = {}, Acyclic
    PROVE  \A p \in Paths : \A k \in DOMAIN docs[p] :
               docs[p][k].kind \in {"steps", "failing"} => RunsSomewhere(p, k)
<1> DEFINE Complete(p, S) ==
               /\ Closed(docs, S, Ran(ExamplesOf(p)))
               /\ \A i \in OwnUnits(p) : Seen(docs, p, i, S, Ran(ExamplesOf(p)))
           SectionsOf(p) == CHOOSE S : Complete(p, S)
           All == UNION {SectionsOf(p) : p \in Paths}
           X == UNION {Ran(ExamplesOf(p)) : p \in Paths}
<1>1. \A p \in Paths : Complete(p, SectionsOf(p))
    <2> SUFFICES ASSUME NEW p \in Paths PROVE \E S : Complete(p, S)
        OBVIOUS
    <2> QED
        BY DEF Done, PlansInv, PlanComplete
<1>2. \A p \in Paths : SectionsOf(p) \subseteq All /\ Ran(ExamplesOf(p)) \subseteq X
    OBVIOUS
<1> HIDE DEF SectionsOf
<1>3. ASSUME NEW k \in All, NEW i \in SectionCandidates(docs[k[1]], k[2])
      PROVE  Seen(docs, k[1], i, All, X)
    <2>1. PICK p \in Paths : k \in SectionsOf(p)
        OBVIOUS
    <2>2. Seen(docs, k[1], i, SectionsOf(p), Ran(ExamplesOf(p)))
        BY <1>1, <2>1 DEF Closed
    <2> HIDE DEF All, X
    <2> QED
        BY <1>2, <2>2, SeenMore
<1>4. ASSUME NEW p \in Paths, NEW i \in OwnUnits(p)
      PROVE  Seen(docs, p, i, All, X)
    <2>1. Seen(docs, p, i, SectionsOf(p), Ran(ExamplesOf(p)))
        BY <1>1
    <2> HIDE DEF All, X
    <2> QED
        BY <1>2, <2>1, SeenMore
<1> HIDE DEF All
<1>5. Resolvable \subseteq All
    <2> DEFINE U == Resolvable \ All
               R == {pair \in U \X U : pair[2] \in Within(pair[1])}
    <2>1. ASSUME NEW k \in U PROVE \E j \in U : <<j, k>> \in R
        <3>0. PICK q \in Paths : k \in References(docs[q])
            BY DEF Resolvable, Referenced
        <3>1. PICK i \in DOMAIN docs[q] :
                  docs[q][i].kind = "link" /\ KeyOf(docs[q][i]) = k
            BY <3>0 DEF References
        <3>2. i \in Candidates(docs[q]) /\ IsLink(docs[q][i])
            BY <3>1 DEF Candidates, IsCandidate, IsLink
        <3>3. ~Seen(docs, q, i, All, X)
            BY <3>1, <3>2 DEF Seen
        <3>4. Consumed(q, i)
            BY <1>4, <3>2, <3>3 DEF OwnUnits
        <3>5. PICK j \in Resolvable :
                  j[1] = q /\ i \in SectionCandidates(docs[j[1]], j[2])
            BY <3>2, <3>4, ConsumedBy
        <3>6. j \notin All
            BY <1>3, <3>3, <3>5
        <3>7. k \in Within(j)
            BY <3>1, <3>2, <3>5 DEF Within
        <3> QED
            BY <3>5, <3>6, <3>7
    <2>2. IsFiniteSet(U)
        <3>1. U \subseteq Referenced
            BY DEF Resolvable
        <3> QED
            BY <3>1, FinitelyReferenced, FS_Subset DEF StateInv
    <2>3. \A k, j : <<k, j>> \in R => j \in Within(k)
        OBVIOUS
    <2> SUFFICES ASSUME U # {} PROVE FALSE
        OBVIOUS
    <2>4. U \subseteq Resolvable
        OBVIOUS
    <2> HIDE DEF U, R
    <2>5. PICK K \in SUBSET U : K # {} /\ \A k \in K : \E j \in K : <<k, j>> \in R
        BY <2>1, <2>2, NoFirstNoLast
    <2>6. K \in SUBSET Resolvable /\ \A k \in K : \E j \in K : j \in Within(k)
        BY <2>3, <2>4, <2>5
    <2> QED
        BY <2>5, <2>6 DEF Acyclic
<1>6. ASSUME NEW p \in Paths, NEW k \in DOMAIN docs[p],
             docs[p][k].kind \in {"steps", "failing"}
      PROVE  <<p, k>> \in X
    <2>1. k \in Candidates(docs[p]) /\ Matched(docs[p][k])
        BY <1>6 DEF Candidates, IsCandidate, Matched
    <2>2. Seen(docs, p, k, All, X)
        <3>1. CASE Consumed(p, k)
            <4>1. PICK j \in Resolvable :
                      j[1] = p /\ k \in SectionCandidates(docs[j[1]], j[2])
                BY <2>1, <3>1, ConsumedBy
            <4> QED
                BY <1>3, <1>5, <4>1
        <3>2. CASE ~Consumed(p, k)
            BY <1>4, <2>1, <3>2 DEF OwnUnits
        <3> QED
            BY <3>1, <3>2
    <2> QED
        BY <2>1, <2>2 DEF Seen
<1>7. ASSUME NEW p, NEW k, <<p, k>> \in X PROVE RunsSomewhere(p, k)
    <2>1. PICK q \in Paths : <<p, k>> \in Ran(ExamplesOf(q))
        BY <1>7
    <2>2. PICK i \in DOMAIN ExamplesOf(q) : <<p, k>> \in StepPlaces(ExamplesOf(q)[i].steps)
        BY <2>1 DEF Ran
    <2>3. PICK j \in DOMAIN ExamplesOf(q)[i].steps :
              <<p, k>> = <<ExamplesOf(q)[i].steps[j].doc, ExamplesOf(q)[i].steps[j].at>>
        BY <2>2 DEF StepPlaces
    <2> QED
        BY <2>1, <2>2, <2>3 DEF RunsSomewhere
<1> QED
    BY <1>6, <1>7

PlannedInv == IInv /\ StateInv /\ ProgressInv /\ PlansInv

LEMMA PlannedAlways == Spec => []PlannedInv
<1>1. Init => PlannedInv
    <2> SUFFICES ASSUME Init PROVE PlannedInv
        OBVIOUS
    <2>1. ProgressInv /\ PlansInv
        BY DEF Init, ProgressInv, PlansInv, Planned, None
    <2> QED
        BY <2>1, InitInv, StateInit DEF PlannedInv
<1>2. PlannedInv /\ [Next]_vars => PlannedInv'
    BY StepInv, StateStep, ProgressStep, PlansStep DEF PlannedInv
<1> QED
    BY <1>1, <1>2, PTL DEF Spec

\* A section that stops being an example of its own runs where it is referenced: in any
\* project whose references form no cycle and of whose oaths nothing is reported, every
\* matching paragraph is a step of some example, however deeply it is spliced in.
THEOREM NoParagraphIsLost == Spec => []NothingLost
<1>1. PlannedInv => NothingLost
    BY NothingIsLost DEF PlannedInv, NothingLost
<1> QED
    BY <1>1, PlannedAlways, PTL
--------------------------------------------------------------------------------
\* Where examples begin and end: d are the blocks of an oath, `own` those of its
\* candidates that are planned there.
PlannedThere(d, own) ==
    /\ Len(d) \in Nat /\ DOMAIN d = 1 .. Len(d)
    /\ own \subseteq Candidates(d)
    /\ \A i, k \in 1 .. Len(d) :
          i <= k /\ (\A n \in i .. k : IsCandidate(d[n])) => (i \in own <=> k \in own)

Placed(own, e) == e.from \in own /\ e.to \in own /\ e.from <= e.to

FirstOwn(d, own, p, e, k) ==
    /\ k \in e.from .. e.to /\ k \in own /\ Matched(d[k])
    /\ e.name = <<p, k>> /\ e.scope = Scope(d, k)
    /\ \A j \in e.from .. e.to : j \in own /\ Matched(d[j]) => k <= j

\* An example is named by its first own paragraph, or has none.
NamedWell(d, own, p, e) ==
    /\ e.borrowed => /\ \A k \in e.from .. e.to : ~(k \in own /\ Matched(d[k]))
                     /\ e.scope = Scope(d, e.from)
    /\ ~e.borrowed => \E k : FirstOwn(d, own, p, e, k)

AllShare(d, j, k) == \A n \in j .. k : Sharing(d[n])

\* Within an example a delimiter stands only before a reported reference, one of rep, and
\* only such are left out in front of it...
BeginsWell(d, from, to, rep) ==
    /\ \A k \in from .. to : Sharing(d[k]) \/ \E j \in k + 1 .. to : j \in rep
    /\ \A k \in 1 .. from - 1 : AllShare(d, k, from) => k \in rep

\* ...and behind it.
Longest(d, from, to, rep) ==
    /\ BeginsWell(d, from, to, rep)
    /\ \A k \in to + 1 .. Len(d) : AllShare(d, to, k) => k \in rep

IsRun(d, own, p, e, rep) ==
    e.steps # << >> =>
        /\ Placed(own, e) /\ NamedWell(d, own, p, e)
        /\ Longest(d, e.from, e.to, rep)

\* The example under construction, U being still to group.
RunsSoFar(d, own, U, p, e, rep) ==
    /\ Placed(own, e) /\ NamedWell(d, own, p, e)
    /\ \A m \in U : e.to < m
    /\ \A m \in own \ U : m > e.to => IsLink(d[m]) /\ m \in rep
    /\ BeginsWell(d, e.from, e.to, rep)

InOrder(own, U) == \A m \in own \ U, i \in U : m < i

\* With no example open, what is next goes on from nothing but reported references.
Broken(d, own, U, rep) == \A m \in own \ U, i \in U : AllShare(d, m, i) => m \in rep

LEMMA OpenStays ==
    ASSUME NEW d, NEW i \in Nat, NEW k \in Nat, i <= k,
           \A n \in i .. k - 1 : ~IsHeading(d[n])
    PROVE  Open(d, k) = Open(d, i)
<1>1. ASSUME NEW h \in 1 .. k - 1, IsHeading(d[h])
      PROVE  h \in 1 .. i - 1
    <2>1. CASE h >= i
        BY <1>1, <2>1
    <2> QED
        BY <2>1
<1>2. ASSUME NEW h \in 1 .. i - 1
      PROVE  (\A n \in h + 1 .. k - 1 : IsHeading(d[n]) => d[n].level > d[h].level)
                <=> (\A n \in h + 1 .. i - 1 : IsHeading(d[n]) => d[n].level > d[h].level)
    <2>1. /\ \A n \in h + 1 .. i - 1 : n \in h + 1 .. k - 1
          /\ \A n \in h + 1 .. k - 1 : n \in h + 1 .. i - 1 \/ n \in i .. k - 1
        BY <1>2
    <2> QED
        BY <2>1
<1>3. \A h \in 1 .. i - 1 : h \in 1 .. k - 1
    OBVIOUS
<1> QED
    BY <1>1, <1>2, <1>3 DEF Open

LEMMA PlannedThereOf ==
    ASSUME Docs, NEW p \in Paths
    PROVE  PlannedThere(docs[p], OwnUnits(p))
<1>1. Len(docs[p]) \in Nat /\ DOMAIN docs[p] = 1 .. Len(docs[p])
    BY DEF Docs
<1>2. ASSUME NEW i \in 1 .. Len(docs[p]), NEW k \in 1 .. Len(docs[p]), i <= k,
             \A n \in i .. k : IsCandidate(docs[p][n])
      PROVE  i \in OwnUnits(p) <=> k \in OwnUnits(p)
    <2>1. /\ i \in Nat /\ i \in DOMAIN docs[p] /\ i \in i .. k
          /\ k \in Nat /\ k \in DOMAIN docs[p] /\ k \in i .. k
        BY <1>1, <1>2
    <2>2. \A n \in i .. k - 1 : ~IsHeading(docs[p][n])
        <3>1. \A n \in i .. k - 1 : n \in i .. k
            BY <2>1
        <3> QED
            BY <1>2, <3>1 DEF IsCandidate, IsHeading
    <2>3. Open(docs[p], k) = Open(docs[p], i)
        BY <1>2, <2>1, <2>2, OpenStays
    <2>4. Consumed(p, i) <=> Consumed(p, k)
        BY <2>3 DEF Consumed, Scope
    <2> QED
        BY <1>2, <2>1, <2>4 DEF OwnUnits, Candidates
<1> QED
    BY <1>1, <1>2 DEF PlannedThere, OwnUnits

\* An example ends where the next unit is apart from it, or there is none.
LEMMA Ended ==
    ASSUME NEW d, NEW own, PlannedThere(d, own), NEW U \in SUBSET own, NEW p, NEW e,
           NEW rep, RunsSoFar(d, own, U, p, e, rep),
           \/ U = {}
           \/ \E i \in U : /\ \A j \in U : i <= j
                           /\ Delimited(d, i) \/ ~Sharing(d[i])
    PROVE  IsRun(d, own, p, e, rep)
<1>1. own \subseteq 1 .. Len(d) /\ Len(d) \in Nat /\ \A i \in own : IsCandidate(d[i])
    BY DEF PlannedThere, Candidates
<1>2. e.to \in own /\ \A m \in U : e.to < m
    BY DEF RunsSoFar, Placed
<1> SUFFICES ASSUME NEW k \in e.to + 1 .. Len(d), AllShare(d, e.to, k) PROVE k \in rep
    BY DEF IsRun, RunsSoFar, Longest
<1>3. /\ e.to \in 1 .. Len(d) /\ e.to \in Nat /\ k \in 1 .. Len(d) /\ k \in Nat
      /\ e.to < k /\ e.to <= k
    <2>1. e.to \in 1 .. Len(d) /\ Len(d) \in Nat
        BY <1>1, <1>2
    <2> QED
        BY <2>1
<1>4. \A n \in e.to .. k : IsCandidate(d[n]) /\ Sharing(d[n])
    BY DEF AllShare, Sharing
<1>5. k \in own
    BY <1>2, <1>3, <1>4 DEF PlannedThere
<1>6. CASE k \notin U
    BY <1>3, <1>5, <1>6 DEF RunsSoFar
<1>7. CASE k \in U
    <2>1. PICK i \in U : /\ \A j \in U : i <= j
                         /\ Delimited(d, i) \/ ~Sharing(d[i])
        BY <1>7
    <2>2. i <= k /\ e.to < i /\ i \in Nat
        BY <1>1, <1>2, <1>7, <2>1
    <2>3. i \in e.to .. k /\ i - 1 \in e.to .. k /\ i > 1
        BY <1>3, <2>2
    <2> QED
        BY <1>4, <2>1, <2>3 DEF Delimited
<1> QED
    BY <1>6, <1>7

\* The first of the units U is grouped.
Gone(own, U, i) ==
    /\ InOrder(own, U \ {i})
    /\ \A m \in own \ (U \ {i}) : m = i \/ (m \in own \ U /\ m < i)
    /\ \A m \in U \ {i} : i < m

LEMMA UnitGone ==
    ASSUME NEW own, NEW U \in SUBSET own, own \subseteq Nat, InOrder(own, U),
           NEW i \in U, \A j \in U : i <= j
    PROVE  Gone(own, U, i)
<1>1. \A m \in own \ (U \ {i}) : m = i \/ (m \in own \ U /\ m < i)
    BY DEF InOrder
<1>2. ASSUME NEW m \in U \ {i} PROVE i < m
    <2>1. i <= m /\ i # m /\ i \in Nat /\ m \in Nat
        OBVIOUS
    <2> QED
        BY <2>1
<1>3. ASSUME NEW m \in own \ (U \ {i}), NEW j \in U \ {i} PROVE m < j
    <2>1. i < j /\ (m = i \/ m < i) /\ m \in Nat /\ i \in Nat /\ j \in Nat
        BY <1>1, <1>2
    <2> QED
        BY <2>1
<1> QED
    BY <1>1, <1>2, <1>3 DEF InOrder, Gone

\* A unit that shares nothing leaves no example open.
LEMMA LeftBroken ==
    ASSUME NEW d, NEW own, NEW U \in SUBSET own, own \subseteq Nat, InOrder(own, U),
           NEW i \in U, \A j \in U : i <= j, ~Sharing(d[i]), NEW rep
    PROVE  Broken(d, own, U \ {i}, rep)
<1> SUFFICES ASSUME NEW m \in own \ (U \ {i}), NEW j \in U \ {i}, AllShare(d, m, j)
             PROVE  FALSE
    BY DEF Broken
<1>0. Gone(own, U, i)
    BY UnitGone
<1>1. m = i \/ m < i
    BY <1>0 DEF Gone
<1>2. i < j /\ m \in Nat /\ i \in Nat /\ j \in Nat
    BY <1>0 DEF Gone
<1>3. i \in m .. j
    BY <1>1, <1>2
<1> QED
    BY <1>3 DEF AllShare

LEMMA OpenedWell ==
    ASSUME NEW d, NEW own, PlannedThere(d, own), NEW U \in SUBSET own, InOrder(own, U),
           NEW i \in U, \A j \in U : i <= j, NEW p, NEW e, NEW paragraph \in BOOLEAN,
           e.from = i, e.to = i, e.scope = Scope(d, i), e.borrowed = ~paragraph,
           paragraph => e.name = <<p, i>> /\ Matched(d[i]),
           ~paragraph => IsLink(d[i]),
           NEW rep, Delimited(d, i) \/ Broken(d, own, U, rep)
    PROVE  RunsSoFar(d, own, U \ {i}, p, e, rep)
<1>1. own \subseteq 1 .. Len(d) /\ Len(d) \in Nat /\ \A j \in own : IsCandidate(d[j])
    BY DEF PlannedThere, Candidates
<1>2. own \subseteq Nat /\ i \in Nat /\ i \in own /\ i .. i = {i} /\ i >= 1
    BY <1>1
<1>3. /\ \A m \in own \ (U \ {i}) : m = i \/ (m \in own \ U /\ m < i)
      /\ \A m \in U \ {i} : i < m
    <2>1. own \subseteq Nat
        BY <1>2
    <2>2. Gone(own, U, i)
        BY <2>1, UnitGone
    <2> QED
        BY <2>2 DEF Gone
<1>4. \A m \in own \ (U \ {i}) : m <= i /\ ~(m > i)
    <2> SUFFICES ASSUME NEW m \in own \ (U \ {i}) PROVE m <= i /\ ~(m > i)
        OBVIOUS
    <2>1. (m = i \/ m < i) /\ m \in Nat
        BY <1>2, <1>3
    <2> QED
        BY <1>2, <2>1
<1>5. Placed(own, e)
    BY <1>2 DEF Placed
<1>6. NamedWell(d, own, p, e)
    <2>1. CASE paragraph
        <3>1. FirstOwn(d, own, p, e, i)
            BY <1>2, <2>1 DEF FirstOwn
        <3> QED
            BY <2>1, <3>1 DEF NamedWell
    <2>2. CASE ~paragraph
        BY <1>2, <2>2 DEF NamedWell, IsLink, Matched
    <2> QED
        BY <2>1, <2>2
<1>7. Sharing(d[i])
    BY <1>1, <1>2 DEF Sharing
<1>8. ASSUME NEW k \in 1 .. i - 1, AllShare(d, k, i) PROVE k \in rep
    <2>1. /\ k \in 1 .. Len(d) /\ k \in Nat /\ i \in 1 .. Len(d) /\ k < i /\ k <= i
          /\ i > 1 /\ i - 1 \in k .. i
        BY <1>1, <1>2, <1>8
    <2>2. \A n \in k .. i : IsCandidate(d[n])
        BY <1>8 DEF AllShare, Sharing
    <2>3. ~Delimited(d, i)
        BY <2>1, <2>2 DEF Delimited
    <2>4. k \in own
        BY <1>2, <2>1, <2>2 DEF PlannedThere
    <2>5. k \notin U
        <3>1. ~(i <= k)
            BY <1>2, <2>1
        <3> QED
            BY <3>1
    <2> QED
        BY <1>8, <2>3, <2>4, <2>5 DEF Broken
<1>9. BeginsWell(d, e.from, e.to, rep)
    BY <1>2, <1>7, <1>8 DEF BeginsWell
<1> QED
    BY <1>2, <1>3, <1>4, <1>5, <1>6, <1>9 DEF RunsSoFar

LEMMA JoinedWell ==
    ASSUME NEW d, NEW own, PlannedThere(d, own), NEW U \in SUBSET own, InOrder(own, U),
           NEW i \in U, \A j \in U : i <= j, ~Delimited(d, i),
           NEW p, NEW e, NEW rep, RunsSoFar(d, own, U, p, e, rep),
           e.borrowed \in BOOLEAN,
           NEW o, NEW paragraph \in BOOLEAN,
           o.from = e.from, o.to = i,
           paragraph /\ e.borrowed =>
               o.borrowed = FALSE /\ o.name = <<p, i>> /\ o.scope = Scope(d, i),
           ~(paragraph /\ e.borrowed) =>
               o.borrowed = e.borrowed /\ o.name = e.name /\ o.scope = e.scope,
           paragraph => Matched(d[i]), ~paragraph => IsLink(d[i])
    PROVE  RunsSoFar(d, own, U \ {i}, p, o, rep)
<1>1. own \subseteq 1 .. Len(d) /\ Len(d) \in Nat /\ \A j \in own : IsCandidate(d[j])
    BY DEF PlannedThere, Candidates
<1>2. own \subseteq Nat /\ i \in Nat /\ i \in own /\ i >= 1
    BY <1>1
<1>3. /\ \A m \in own \ (U \ {i}) : m = i \/ (m \in own \ U /\ m < i)
      /\ \A m \in U \ {i} : i < m
    <2>1. own \subseteq Nat
        BY <1>2
    <2>2. Gone(own, U, i)
        BY <2>1, UnitGone
    <2> QED
        BY <2>2 DEF Gone
<1>4. \A m \in own \ (U \ {i}) : m <= i /\ ~(m > i)
    <2> SUFFICES ASSUME NEW m \in own \ (U \ {i}) PROVE m <= i /\ ~(m > i)
        OBVIOUS
    <2>1. (m = i \/ m < i) /\ m \in Nat
        BY <1>2, <1>3
    <2> QED
        BY <1>2, <2>1
<1>5. /\ e.from \in own /\ e.to \in own /\ e.from <= e.to /\ e.to < i
      /\ e.from \in Nat /\ e.to \in Nat
    BY <1>2 DEF RunsSoFar, Placed
<1>6. Placed(own, o)
    BY <1>2, <1>5 DEF Placed
\* Between the example and the unit there are no paragraphs of its own.
<1>7. ASSUME NEW k \in o.from .. o.to, k \in own, Matched(d[k])
      PROVE  k \in e.from .. e.to \/ (k = i /\ paragraph)
    <2>1. k \in Nat /\ e.from <= k /\ k <= i
        BY <1>2, <1>7
    <2>2. CASE k <= e.to
        BY <1>5, <2>1, <2>2
    <2>3. CASE k > e.to /\ k < i
        <3>1. k \notin U
            <4>1. ~(i <= k)
                BY <1>2, <2>1, <2>3
            <4> QED
                BY <4>1
        <3>2. IsLink(d[k])
            BY <1>7, <2>3, <3>1 DEF RunsSoFar
        <3> QED
            BY <1>7, <3>2 DEF IsLink, Matched
    <2>4. CASE k = i
        BY <1>7, <2>4 DEF IsLink, Matched
    <2> QED
        BY <1>2, <1>5, <2>1, <2>2, <2>3, <2>4
<1>8. NamedWell(d, own, p, o)
    <2>1. NamedWell(d, own, p, e)
        BY DEF RunsSoFar
    <2>2. i \in o.from .. o.to /\ \A k \in e.from .. e.to : k \in o.from .. o.to
        BY <1>2, <1>5
    <2>3. CASE paragraph /\ e.borrowed
        <3>1. \A k \in o.from .. o.to : k \in own /\ Matched(d[k]) => k = i
            BY <1>7, <2>1, <2>3 DEF NamedWell
        <3>2. FirstOwn(d, own, p, o, i)
            BY <1>2, <2>2, <2>3, <3>1 DEF FirstOwn
        <3> QED
            BY <2>3, <3>2 DEF NamedWell
    <2>4. CASE e.borrowed /\ ~paragraph
        BY <1>7, <2>1, <2>4 DEF NamedWell
    <2>5. CASE ~e.borrowed
        <3>1. PICK k : FirstOwn(d, own, p, e, k)
            BY <2>1, <2>5 DEF NamedWell
        <3>2. k <= e.to /\ k \in Nat /\ k \in own
            BY <1>2, <3>1 DEF FirstOwn
        <3>3. k <= i
            BY <1>2, <1>5, <3>2
        <3>4. \A j \in o.from .. o.to : j \in own /\ Matched(d[j]) => k <= j
            BY <1>7, <3>1, <3>3 DEF FirstOwn
        <3>5. FirstOwn(d, own, p, o, k)
            BY <2>2, <2>5, <3>1, <3>4 DEF FirstOwn
        <3> QED
            BY <2>5, <3>5 DEF NamedWell
    <2> QED
        BY <2>3, <2>4, <2>5
\* Right before the unit is the end of the example, or a reported reference.
<1>9. BeginsWell(d, o.from, o.to, rep)
    <2>1. i > 1 /\ IsCandidate(d[i - 1]) /\ IsCandidate(d[i])
        BY <1>1, <1>2 DEF Delimited
    <2>2. /\ i - 1 \in 1 .. Len(d) /\ i - 1 \in Nat /\ i \in 1 .. Len(d) /\ i - 1 <= i
          /\ \A n \in i - 1 .. i : n = i - 1 \/ n = i
        BY <1>1, <1>2, <2>1
    <2>3. i - 1 \in own
        <3>1. \A n \in i - 1 .. i : IsCandidate(d[n])
            BY <2>1, <2>2
        <3> QED
            BY <1>2, <2>2, <3>1 DEF PlannedThere
    <2>4. i - 1 \notin U
        <3>1. ~(i <= i - 1)
            BY <1>2
        <3> QED
            BY <3>1
    <2>5. e.to = i - 1 \/ (i - 1 > e.to /\ IsLink(d[i - 1]) /\ i - 1 \in rep)
        <3>1. i - 1 > e.to => IsLink(d[i - 1]) /\ i - 1 \in rep
            BY <2>3, <2>4 DEF RunsSoFar
        <3> QED
            BY <1>2, <1>5, <3>1
    <2>6. Sharing(d[i])
        BY <2>1 DEF Sharing
    <2>7. BeginsWell(d, e.from, e.to, rep)
        BY DEF RunsSoFar
    <2>8. ASSUME NEW k \in o.from .. o.to, ~Sharing(d[k])
          PROVE  \E j \in k + 1 .. o.to : j \in rep
        <3>1. k \in Nat /\ e.from <= k /\ k <= i /\ k # i
            BY <1>2, <1>5, <2>6, <2>8
        <3>2. CASE k <= e.to
            <4>1. k \in e.from .. e.to
                BY <1>5, <3>1, <3>2
            <4>2. PICK j \in k + 1 .. e.to : j \in rep
                BY <2>7, <2>8, <4>1 DEF BeginsWell
            <4>3. j \in k + 1 .. o.to
                BY <1>2, <1>5, <3>1
            <4> QED
                BY <4>2, <4>3
        <3>3. CASE k > e.to
            <4>1. i - 1 > e.to /\ IsLink(d[i - 1]) /\ i - 1 \in rep
                BY <1>2, <1>5, <2>5, <3>1, <3>3
            <4>2. Sharing(d[i - 1])
                BY <2>1, <4>1 DEF Sharing
            <4>3. k # i - 1
                BY <2>8, <4>2
            <4>4. i - 1 \in k + 1 .. o.to
                BY <1>2, <3>1, <4>3
            <4> QED
                BY <4>1, <4>4
        <3> QED
            BY <1>5, <3>1, <3>2, <3>3
    <2> QED
        BY <2>7, <2>8 DEF BeginsWell
<1> QED
    BY <1>2, <1>3, <1>4, <1>6, <1>8, <1>9 DEF RunsSoFar

\* The examples es, and the open one, of an oath of which U is still to group.
RunsIn(d, own, U, p, es, op, rep) ==
    /\ \A j \in DOMAIN es : IsRun(d, own, p, es[j], rep)
    /\ InOrder(own, U)
    /\ \A e \in op : RunsSoFar(d, own, U, p, e, rep)
    /\ op = None => Broken(d, own, U, rep)

RunsOf(p) ==
    RunsIn(docs[p], OwnUnits(p), units, p, examples, open, Dangling(diagnostics, p))

RunInv == hover = None => \A p \in host : RunsOf(p)

PlansRunOn ==
    \A p \in Planned : \A j \in DOMAIN ExamplesOf(p) :
        IsRun(docs[p], OwnUnits(p), p, ExamplesOf(p)[j], Dangling(plans[p].diagnostics, p))

\* More is reported.
LEMMA BeginsStill ==
    ASSUME NEW d, NEW from, NEW to, NEW c1, BeginsWell(d, from, to, c1),
           NEW c2, c1 \subseteq c2
    PROVE  BeginsWell(d, from, to, c2)
<1>1. ASSUME NEW k \in from .. to, ~Sharing(d[k])
      PROVE  \E j \in k + 1 .. to : j \in c2
    BY <1>1 DEF BeginsWell
<1>2. \A k \in 1 .. from - 1 : AllShare(d, k, from) => k \in c2
    BY DEF BeginsWell
<1> QED
    BY <1>1, <1>2 DEF BeginsWell

LEMMA IsRunStill ==
    ASSUME NEW d, NEW own, NEW p, NEW e, NEW c1, IsRun(d, own, p, e, c1),
           NEW c2, c1 \subseteq c2
    PROVE  IsRun(d, own, p, e, c2)
BY BeginsStill DEF IsRun, Longest

LEMMA RunsStill ==
    ASSUME NEW d, NEW own, NEW U, NEW p, NEW es, NEW op, NEW c1,
           RunsIn(d, own, U, p, es, op, c1), NEW c2, c1 \subseteq c2
    PROVE  RunsIn(d, own, U, p, es, op, c2)
<1>1. \A j \in DOMAIN es : IsRun(d, own, p, es[j], c2)
    BY IsRunStill DEF RunsIn
<1>2. \A e \in op : RunsSoFar(d, own, U, p, e, c2)
    BY BeginsStill DEF RunsIn, RunsSoFar
<1>3. op = None => Broken(d, own, U, c2)
    BY DEF RunsIn, Broken
<1> QED
    BY <1>1, <1>2, <1>3 DEF RunsIn

\* The reported references grow with the diagnostics, and with nothing else.
LEMMA DanglingStays ==
    ASSUME UNCHANGED docs, NEW p, diagnostics \subseteq diagnostics'
    PROVE  /\ Dangling(diagnostics, p) \subseteq Dangling(diagnostics, p)'
           /\ UNCHANGED diagnostics => Dangling(diagnostics, p)' = Dangling(diagnostics, p)
BY DEF Dangling

LEMMA RunsAppended ==
    ASSUME NEW d, NEW own, NEW p, NEW c, NEW es, IsSteps(es),
           \A j \in DOMAIN es : IsRun(d, own, p, es[j], c), NEW e, IsRun(d, own, p, e, c)
    PROVE  \A j \in DOMAIN Append(es, e) : IsRun(d, own, p, Append(es, e)[j], c)
<1>1. PICK S : es \in Seq(S)
    BY DEF IsSteps
<1> DEFINE fs == Append(es, e)
<1>2. /\ fs \in Seq(S \cup {e}) /\ Len(fs) = Len(es) + 1 /\ Len(es) \in Nat
      /\ fs[Len(es) + 1] = e
      /\ \A i \in 1 .. Len(es) : fs[i] = es[i]
    BY <1>1
<1>3. DOMAIN es = 1 .. Len(es) /\ DOMAIN fs = 1 .. Len(fs)
    BY <1>1, <1>2
<1> HIDE DEF fs
<1>4. \A i \in DOMAIN fs : i = Len(es) + 1 \/ i \in DOMAIN es
    BY <1>2, <1>3
<1>5. \A i \in DOMAIN fs : IsRun(d, own, p, fs[i], c)
    BY <1>2, <1>3, <1>4
<1> QED
    BY <1>5 DEF fs

\* The host of the loop.
LEMMA InLoop ==
    ASSUME StateInv, NEW p, host = {p}, hover = None
    PROVE  /\ PlannedThere(docs[p], OwnUnits(p)) /\ units \in SUBSET OwnUnits(p)
           /\ OwnUnits(p) \subseteq Nat
           /\ units # {} => First(units) \in units /\ \A j \in units : First(units) <= j
           /\ Rest(units) = units \ {First(units)}
<1>1. p \in Paths /\ units \subseteq OwnUnits(p)
    BY HostOf
<1>2. PlannedThere(docs[p], OwnUnits(p))
    BY <1>1, PlannedThereOf DEF StateInv
<1>3. Len(docs[p]) \in Nat /\ OwnUnits(p) \subseteq 1 .. Len(docs[p])
    BY <1>2 DEF PlannedThere, Candidates
<1>4. units \in SUBSET (1 .. Len(docs[p])) /\ OwnUnits(p) \subseteq Nat
    BY <1>1, <1>3
<1> QED
    BY <1>1, <1>2, <1>3, <1>4, FirstOf DEF Rest

LEMMA FlushedRuns ==
    ASSUME StateInv, NEW p, host = {p}, hover = None, RunsOf(p),
           \/ open = None
           \/ units = {}
           \/ Delimited(docs[p], First(units)) \/ ~Sharing(docs[p][First(units)])
    PROVE  \A j \in DOMAIN Flushed :
               IsRun(docs[p], OwnUnits(p), p, Flushed[j], Dangling(diagnostics, p))
<1>1. IsSteps(examples) /\ OpenOK
    BY DEF StateInv
<1>2. \A j \in DOMAIN examples :
          IsRun(docs[p], OwnUnits(p), p, examples[j], Dangling(diagnostics, p))
    BY DEF RunsOf, RunsIn
<1>3. CASE open = None
    BY <1>1, <1>2, <1>3, FlushedIs
<1>4. CASE open # None
    <2>1. PICK e : open = {e}
        BY <1>1, <1>4 DEF OpenOK
    <2>2. Flushed = Append(examples, e)
        BY <1>1, <2>1, FlushedIs
    <2>3. RunsSoFar(docs[p], OwnUnits(p), units, p, e, Dangling(diagnostics, p))
        BY <2>1 DEF RunsOf, RunsIn
    <2>4. PlannedThere(docs[p], OwnUnits(p)) /\ units \in SUBSET OwnUnits(p)
        BY InLoop
    <2>5. \/ units = {}
          \/ \E i \in units : /\ \A j \in units : i <= j
                              /\ Delimited(docs[p], i) \/ ~Sharing(docs[p][i])
        BY <1>4, InLoop
    <2>6. IsRun(docs[p], OwnUnits(p), p, e, Dangling(diagnostics, p))
        BY <2>3, <2>4, <2>5, Ended
    <2> QED
        BY <1>1, <1>2, <2>2, <2>6, RunsAppended
<1> QED
    BY <1>3, <1>4

\* A unit that closes the open example, and opens none.
LEMMA ClosedRuns ==
    ASSUME StateInv, NEW p, host = {p}, hover = None, RunsOf(p), units # {},
           ~Sharing(docs[p][First(units)]),
           UNCHANGED <<docs, diagnostics>>, units' = Rest(units), open' = None,
           \/ examples' = Flushed
           \/ \E e : e.steps = << >> /\ examples' = Append(Flushed, e)
    PROVE  RunsOf(p)'
<1> DEFINE d == docs[p]  own == OwnUnits(p)  i == First(units)  c == Dangling(diagnostics, p)
<1>1. \A j \in DOMAIN Flushed : IsRun(d, own, p, Flushed[j], c)
    BY FlushedRuns
<1>2. IsSteps(Flushed)
    BY FlushedIs DEF StateInv
<1>3. \A j \in DOMAIN examples' : IsRun(d, own, p, examples'[j], c)
    <2>1. ASSUME NEW e, e.steps = << >> PROVE IsRun(d, own, p, e, c)
        BY <2>1 DEF IsRun
    <2> HIDE DEF d, own, c
    <2> QED
        BY <1>1, <1>2, <2>1, RunsAppended
<1>4. /\ units \in SUBSET own /\ own \subseteq Nat /\ i \in units
      /\ \A j \in units : i <= j
      /\ units' = units \ {i} /\ InOrder(own, units)
    BY InLoop DEF RunsOf, RunsIn
<1>5. InOrder(own, units') /\ Broken(d, own, units', c)
    <2> HIDE DEF d, own, i
    <2>1. ~Sharing(d[i])
        BY DEF d, i
    <2>2. Gone(own, units, i)
        BY <1>4, UnitGone
    <2>3. InOrder(own, units \ {i})
        BY <2>2 DEF Gone
    <2>4. \A U \in SUBSET own :
              /\ InOrder(own, U)
              /\ i \in U
              /\ \A j \in U : i <= j
              => Broken(d, own, U \ {i}, c)
        <3> SUFFICES ASSUME NEW U \in SUBSET own, InOrder(own, U), i \in U,
                            \A j \in U : i <= j
                     PROVE  Broken(d, own, U \ {i}, c)
            OBVIOUS
        <3> HIDE DEF c
        <3>1. own \subseteq Nat
            BY <1>4
        <3> QED
            BY <2>1, <3>1, LeftBroken
    <2>5. Broken(d, own, units \ {i}, c)
        BY <1>4, <2>4
    <2> QED
        BY <1>4, <2>3, <2>5
<1>6. RunsIn(d, own, units', p, examples', open', c)
    BY <1>3, <1>5 DEF RunsIn, None
<1>7. OwnUnits(p)' = own /\ Dangling(diagnostics, p)' = c
    BY OwnUnitsStay, DanglingStays
<1> QED
    BY <1>6, <1>7 DEF RunsOf

\* A unit that the open example goes on with, or that opens one.
LEMMA TakenRuns ==
    ASSUME StateInv, NEW p, host = {p}, hover = None, RunsOf(p), units # {},
           UNCHANGED <<docs, diagnostics>>, units' = Rest(units),
           NEW paragraph \in BOOLEAN, NEW ts,
           Takes(p, First(units), paragraph, ts),
           paragraph => Matched(docs[p][First(units)]),
           ~paragraph => IsLink(docs[p][First(units)])
    PROVE  RunsOf(p)'
<1> DEFINE d == docs[p]  own == OwnUnits(p)  i == First(units)  c == Dangling(diagnostics, p)
<1>1. /\ PlannedThere(d, own) /\ units \in SUBSET own /\ own \subseteq Nat /\ i \in units
      /\ \A j \in units : i <= j
      /\ units' = units \ {i} /\ InOrder(own, units)
    BY InLoop DEF RunsOf, RunsIn
<1>2. PICK o :
         /\ open' = {o} /\ IsExample(o) /\ o.to = i
         /\ \/ /\ ~Delimited(d, i) /\ UNCHANGED examples
               /\ \E e : open = {e} /\ IsExample(e) /\ GoesOn(o, e, p, i, paragraph)
            \/ /\ open = None \/ Delimited(d, i)
               /\ examples' = Flushed
               /\ Opens(o, p, i, paragraph)
    BY DEF Takes
<1>3. InOrder(own, units \ {i})
    <2> HIDE DEF d, own, i
    <2>1. Gone(own, units, i)
        BY <1>1, UnitGone
    <2> QED
        BY <2>1 DEF Gone
<1>4. paragraph => Matched(d[i])
    OBVIOUS
<1>5. ~paragraph => IsLink(d[i])
    OBVIOUS
<1>6. /\ \A j \in DOMAIN examples' : IsRun(d, own, p, examples'[j], c)
      /\ RunsSoFar(d, own, units \ {i}, p, o, c)
    <2>1. CASE /\ ~Delimited(d, i) /\ UNCHANGED examples
               /\ \E e : open = {e} /\ IsExample(e) /\ GoesOn(o, e, p, i, paragraph)
        <3>1. PICK e : open = {e} /\ IsExample(e) /\ GoesOn(o, e, p, i, paragraph)
            BY <2>1
        <3>2. RunsSoFar(d, own, units, p, e, c)
            BY <3>1 DEF RunsOf, RunsIn
        <3>3. e.borrowed \in BOOLEAN
            BY <3>1 DEF IsExample
        <3>4. o.from = e.from
            BY <3>1 DEF GoesOn
        <3>5. paragraph /\ e.borrowed =>
                  o.borrowed = FALSE /\ o.name = <<p, i>> /\ o.scope = Scope(d, i)
            BY <3>1 DEF GoesOn
        <3>6. ~(paragraph /\ e.borrowed) =>
                  o.borrowed = e.borrowed /\ o.name = e.name /\ o.scope = e.scope
            BY <3>1 DEF GoesOn
        <3>7. \A j \in DOMAIN examples' : IsRun(d, own, p, examples'[j], c)
            BY <2>1 DEF RunsOf, RunsIn
        <3> HIDE DEF d, own, i, c
        <3>8. RunsSoFar(d, own, units \ {i}, p, o, c)
            BY <1>1, <1>2, <1>4, <1>5, <2>1, <3>2, <3>3, <3>4, <3>5, <3>6, JoinedWell
        <3> QED
            BY <3>7, <3>8
    <2>2. CASE /\ open = None \/ Delimited(d, i)
               /\ examples' = Flushed
               /\ Opens(o, p, i, paragraph)
        <3>1. \A j \in DOMAIN examples' : IsRun(d, own, p, examples'[j], c)
            BY <2>2, FlushedRuns
        <3>2. Delimited(d, i) \/ Broken(d, own, units, c)
            BY <2>2 DEF RunsOf, RunsIn
        <3>3. /\ o.from = i /\ o.scope = Scope(d, i) /\ o.borrowed = ~paragraph
              /\ paragraph => o.name = <<p, i>>
            BY <2>2 DEF Opens
        <3>4. paragraph => o.name = <<p, i>> /\ Matched(d[i])
            BY <1>4, <3>3
        <3> HIDE DEF d, own, i, c
        <3>5. RunsSoFar(d, own, units \ {i}, p, o, c)
            BY <1>1, <1>2, <1>5, <3>2, <3>3, <3>4, OpenedWell
        <3> QED
            BY <3>1, <3>5
    <2> QED
        BY <1>2, <2>1, <2>2
<1>7. RunsIn(d, own, units', p, examples', open', c)
    BY <1>1, <1>2, <1>3, <1>6 DEF RunsIn, None
<1>8. OwnUnits(p)' = own /\ Dangling(diagnostics, p)' = c
    BY OwnUnitsStay, DanglingStays
<1> QED
    BY <1>7, <1>8 DEF RunsOf

\* A reference that is refused, or splices nothing in, is reported and passed over.
LEMMA SkippedRuns ==
    ASSUME StateInv, NEW p, host = {p}, hover = None, RunsOf(p), units # {},
           UNCHANGED <<docs, open, examples>>, units' = Rest(units),
           diagnostics \subseteq diagnostics', First(units) \in Dangling(diagnostics, p)',
           IsLink(docs[p][First(units)])
    PROVE  RunsOf(p)'
<1> DEFINE d == docs[p]  own == OwnUnits(p)  i == First(units)
           c == Dangling(diagnostics, p)'
<1>1. /\ units \in SUBSET own /\ own \subseteq Nat /\ i \in units
      /\ \A j \in units : i <= j
      /\ units' = units \ {i} /\ InOrder(own, units)
    BY InLoop DEF RunsOf, RunsIn
<1>2. Gone(own, units, i)
    <2> HIDE DEF own, i
    <2> QED
        BY <1>1, UnitGone
<1>3. RunsIn(d, own, units, p, examples, open, c)
    <2>1. RunsIn(d, own, units, p, examples, open, Dangling(diagnostics, p))
        BY DEF RunsOf
    <2>2. Dangling(diagnostics, p) \subseteq c
        BY DanglingStays
    <2> HIDE DEF d, own, c
    <2> QED
        BY <2>1, <2>2, RunsStill
<1>4. ASSUME NEW e \in open PROVE RunsSoFar(d, own, units', p, e, c)
    <2>1. RunsSoFar(d, own, units, p, e, c)
        BY <1>3 DEF RunsIn
    <2>2. IsLink(d[i]) /\ i \in c
        OBVIOUS
    <2> HIDE DEF d, own, i, c
    <2>3. \A m \in units' : m \in units
        BY <1>1
    <2>4. \A m \in own \ units' : m = i \/ m \in own \ units
        BY <1>1
    <2> QED
        BY <2>1, <2>2, <2>3, <2>4 DEF RunsSoFar
<1>5. open = None => Broken(d, own, units', c)
    <2> SUFFICES ASSUME open = None, NEW m \in own \ units', NEW j \in units',
                        AllShare(d, m, j)
                 PROVE  m \in c
        BY DEF Broken
    <2>1. Broken(d, own, units, c)
        BY <1>3 DEF RunsIn
    <2>2. i \in c /\ j \in units /\ (m = i \/ m \in own \ units)
        BY <1>1
    <2> HIDE DEF d, own, i, c
    <2> QED
        BY <2>1, <2>2 DEF Broken
<1>6. RunsIn(d, own, units', p, examples', open', c)
    BY <1>1, <1>2, <1>3, <1>4, <1>5 DEF RunsIn, Gone
<1>7. OwnUnits(p)' = own /\ docs' = docs
    BY OwnUnitsStay
<1> QED
    BY <1>6, <1>7 DEF RunsOf

\* Nothing is grouped yet.
LEMMA StartRuns ==
    ASSUME StateInv, NEW p, StartPlan(p)
    PROVE  RunsOf(p)'
<1>1. Idle
    BY DEF StateInv, HostOK, StartPlan, None
<1>2. UNCHANGED <<docs, open, examples>> /\ open = None /\ examples = << >>
    BY <1>1 DEF StartPlan, Idle
<1>3. units' = OwnUnits(p) /\ OwnUnits(p)' = OwnUnits(p)
    BY <1>2, OwnUnitsStay DEF StartPlan, OwnUnits
<1> DEFINE own == OwnUnits(p)
<1>4. own \ own = {}
    OBVIOUS
<1>5. InOrder(own, own) /\ \A c : Broken(docs[p], own, own, c)
    BY <1>4 DEF InOrder, Broken
<1>6. \A c : RunsIn(docs[p], own, own, p, << >>, None, c)
    BY <1>5 DEF RunsIn, None
<1> QED
    BY <1>2, <1>3, <1>6 DEF RunsOf

\* A step of the loop, or of resolveReference, leaves them as they are.
LEMMA RunsStay ==
    ASSUME NEW p, RunsOf(p), UNCHANGED <<docs, units, open, examples>>,
           diagnostics \subseteq diagnostics'
    PROVE  RunsOf(p)'
<1>1. OwnUnits(p)' = OwnUnits(p)
    BY OwnUnitsStay
<1>2. RunsIn(docs[p], OwnUnits(p), units, p, examples, open, Dangling(diagnostics, p))
    BY DEF RunsOf
<1>3. Dangling(diagnostics, p) \subseteq Dangling(diagnostics, p)'
    BY DanglingStays
<1>4. RunsIn(docs[p], OwnUnits(p), units, p, examples, open, Dangling(diagnostics, p)')
    BY <1>2, <1>3, RunsStill
<1> QED
    BY <1>1, <1>4 DEF RunsOf

LEMMA GroupRuns ==
    ASSUME StateInv, NEW p, NEW i, hover = None, RunsOf(p),
           GroupSteps(p, i) \/ GroupRows(p, i) \/ GroupProse(p, i)
    PROVE  RunsOf(p)'
<1>1. OpenOK
    BY DEF StateInv
<1>2. /\ UNCHANGED <<docs, diagnostics>> /\ units' = Rest(units) /\ i = First(units)
      /\ host = {p} /\ units # {}
    BY DEF GroupSteps, GroupRows, GroupProse, NextUnit, AtUnit
<1>3. CASE GroupSteps(p, i)
    <2>1. Takes(p, First(units), TRUE, Unit(p, i).steps) /\ Matched(docs[p][First(units)])
        BY <1>1, <1>2, <1>3, GroupStepsDoes DEF GroupSteps
    <2> QED
        BY <1>2, <2>1, TakenRuns
<1>4. CASE GroupRows(p, i)
    <2>1. ~Sharing(docs[p][First(units)])
        BY <1>2, <1>4 DEF GroupRows, Sharing, IsLink, Matched
    <2>2. RowsOf(p, i).steps = << >>
        BY DEF RowsOf, Started
    <2>3. open' = None /\ \E e : e.steps = << >> /\ examples' = Append(Flushed, e)
        BY <1>4, <2>2 DEF GroupRows
    <2> QED
        BY <1>2, <2>1, <2>3, ClosedRuns
<1>5. CASE GroupProse(p, i)
    <2>1. ~Sharing(docs[p][First(units)])
        BY <1>2, <1>5 DEF GroupProse, Sharing, IsLink, Matched
    <2>2. open' = None /\ examples' = Flushed
        BY <1>5 DEF GroupProse
    <2> QED
        BY <1>2, <2>1, <2>2, ClosedRuns
<1> QED
    BY <1>3, <1>4, <1>5

LEMMA Reported ==
    ASSUME UNCHANGED docs, NEW p, NEW i, IsLink(docs[p][i]), NEW code,
           diagnostics' = diagnostics \cup {Diagnosis(code, p, i)}
    PROVE  i \in Dangling(diagnostics, p)'
<1>1. Diagnosis(code, p, i) \in diagnostics'
    OBVIOUS
<1>2. Diagnosis(code, p, i).doc = p /\ Diagnosis(code, p, i).at = i
    BY DEF Diagnosis
<1> QED
    BY <1>1, <1>2 DEF Dangling

LEMMA GroupReferenceRuns ==
    ASSUME StateInv, NEW p, NEW i, hover = None, RunsOf(p), GroupReference(p, i)
    PROVE  RunsOf(p)'
<1>1. /\ UNCHANGED <<docs, open, examples>> /\ i = First(units)
      /\ host = {p} /\ units # {} /\ IsLink(docs[p][First(units)])
    BY DEF GroupReference, AtUnit
<1>2. CASE Refused(docs[p][i]) = "nothing"
    <2>1. UNCHANGED <<units, diagnostics>>
        BY <1>2 DEF GroupReference, LeaveIfRefused, Resolve
    <2> QED
        BY <1>1, <2>1, RunsStay
<1>3. CASE Refused(docs[p][i]) # "nothing"
    <2>1. /\ units' = Rest(units)
          /\ diagnostics' = diagnostics \cup {Diagnosis(Refused(docs[p][i]), p, i)}
        BY <1>3 DEF GroupReference, LeaveIfRefused, Resolve, NextUnit
    <2>2. First(units) \in Dangling(diagnostics, p)'
        BY <1>1, <2>1, Reported
    <2> QED
        BY <1>1, <2>1, <2>2, SkippedRuns
<1> QED
    BY <1>2, <1>3

LEMMA ReturnOuterRuns ==
    ASSUME StateInv, IInv, NEW p, hover = None, RunsOf(p), ReturnOuter(p)
    PROVE  RunsOf(p)'
<1>1. /\ host = {p} /\ Len(frames) = 1 /\ units' = Rest(units)
      /\ \/ /\ UNCHANGED <<open, examples>>
            /\ diagnostics' =
                   diagnostics \cup {Diagnosis("empty", Deepest.from, Deepest.at)}
         \/ /\ UNCHANGED diagnostics
            /\ Takes(p, First(units), FALSE, Spliced(Deepest).steps)
    BY ReturnOuterDoes DEF StateInv
<1>2. Resolving(p) /\ frames # << >>
    BY <1>1, HostOf
<1>3. /\ units # {} /\ IsLink(docs[p][First(units)])
      /\ Deepest.from = p /\ Deepest.at = First(units)
    BY <1>1, <1>2 DEF Resolving, Deepest
<1>4. UNCHANGED docs
    BY DEF ReturnOuter
<1>5. CASE /\ UNCHANGED <<open, examples>>
           /\ diagnostics' =
                  diagnostics \cup {Diagnosis("empty", Deepest.from, Deepest.at)}
    <2>1. First(units) \in Dangling(diagnostics, p)'
        BY <1>3, <1>4, <1>5, Reported
    <2>2. diagnostics \subseteq diagnostics'
        BY <1>5
    <2> QED
        BY <1>1, <1>3, <1>4, <1>5, <2>1, <2>2, SkippedRuns
<1>6. CASE UNCHANGED diagnostics /\ Takes(p, First(units), FALSE, Spliced(Deepest).steps)
    BY <1>1, <1>3, <1>4, <1>6, TakenRuns
<1> QED
    BY <1>1, <1>5, <1>6

LEMMA RunStep == RunInv /\ StateInv /\ IInv /\ [Next]_vars => RunInv'
<1> SUFFICES ASSUME RunInv, StateInv, IInv, [Next]_vars, hover' = None, NEW q \in host'
             PROVE  RunsOf(q)'
    BY DEF RunInv
<1>1. ASSUME NEW p \in Paths, StartPlan(p) PROVE RunsOf(q)'
    <2>1. host' = {p}
        BY <1>1 DEF StartPlan
    <2> QED
        BY <1>1, <2>1, StartRuns
<1>2. ASSUME UNCHANGED hostVars PROVE hover = None /\ q \in host /\ RunsOf(q)
    BY <1>2 DEF hostVars, hoverVars, RunInv
<1>3. ASSUME NEW p \in Paths, ReturnOuter(p) PROVE RunsOf(q)'
    <2>1. UNCHANGED hostVars /\ host = {p}
        BY <1>3 DEF ReturnOuter
    <2> QED
        BY <1>2, <1>3, <2>1, ReturnOuterRuns
<1>4. ASSUME NEW p \in Paths, FinishPlan(p) PROVE RunsOf(q)'
    BY <1>4 DEF FinishPlan, None
<1>5. ASSUME NEW p \in Paths, NEW i,
             GroupSteps(p, i) \/ GroupRows(p, i) \/ GroupProse(p, i)
      PROVE  RunsOf(q)'
    <2>1. UNCHANGED hostVars /\ host = {p}
        BY <1>5 DEF GroupSteps, GroupRows, GroupProse, AtUnit
    <2> QED
        BY <1>2, <1>5, <2>1, GroupRuns
<1>6. ASSUME NEW p \in Paths, NEW i, GroupReference(p, i) PROVE RunsOf(q)'
    <2>1. UNCHANGED hostVars /\ host = {p}
        BY <1>6 DEF GroupReference, AtUnit
    <2> QED
        BY <1>2, <1>6, <2>1, GroupReferenceRuns
<1>7. ASSUME NEW p \in Paths, NEW i, SpliceCandidate(p, i) \/ SpliceReference(p, i)
      PROVE  RunsOf(q)'
    <2>1. UNCHANGED <<docs, units, open, examples, hostVars>>
        BY <1>7 DEF SpliceCandidate, SpliceReference
    <2>2. diagnostics \subseteq diagnostics'
        BY <1>7 DEF SpliceCandidate, SpliceReference, Resolve
    <2> QED
        BY <1>2, <2>1, <2>2, RunsStay
<1>8. ASSUME ReturnInner PROVE RunsOf(q)'
    <2>1. UNCHANGED <<docs, units, open, examples, hostVars>>
        BY <1>8 DEF ReturnInner
    <2>2. diagnostics \subseteq diagnostics'
        BY <1>8 DEF ReturnInner
    <2> QED
        BY <1>2, <2>1, <2>2, RunsStay
<1>9. ASSUME NEW p \in Paths, NEW i, HoverReference(p, i) PROVE RunsOf(q)'
    BY <1>9 DEF HoverReference, None
<1>10. ASSUME NEW k \in hover, FinishHover(k) PROVE RunsOf(q)'
    BY <1>10 DEF FinishHover, None
<1>11. CASE UNCHANGED vars
    <2>1. UNCHANGED <<docs, units, open, examples, hostVars, diagnostics>>
        BY <1>11 DEF vars
    <2> QED
        BY <1>2, <2>1, RunsStay
<1> QED
    BY <1>1, <1>3, <1>4, <1>5, <1>6, <1>7, <1>8, <1>9, <1>10, <1>11 DEF Next

LEMMA PlansRunStay ==
    ASSUME PlansRunOn, UNCHANGED <<docs, plans>>, Planned' \subseteq Planned
    PROVE  PlansRunOn'
<1> SUFFICES ASSUME NEW p \in Planned', NEW j \in DOMAIN ExamplesOf(p)'
             PROVE  IsRun(docs[p], OwnUnits(p), p, ExamplesOf(p)[j],
                          Dangling(plans[p].diagnostics, p))'
    BY DEF PlansRunOn
<1>1. ExamplesOf(p)' = ExamplesOf(p)
    BY DEF ExamplesOf
<1>2. IsRun(docs[p], OwnUnits(p), p, ExamplesOf(p)[j], Dangling(plans[p].diagnostics, p))
    BY <1>1 DEF PlansRunOn
<1>3. OwnUnits(p)' = OwnUnits(p)
    BY OwnUnitsStay
<1>4. Dangling(plans[p].diagnostics, p)' = Dangling(plans[p].diagnostics, p)
    BY DEF Dangling
<1> QED
    BY <1>1, <1>2, <1>3, <1>4

LEMMA FinishedRunsOn ==
    ASSUME PlansRunOn, RunInv, StateInv, NEW p \in Paths, FinishPlan(p)
    PROVE  PlansRunOn'
<1>1. /\ host = {p} /\ units = {} /\ hover = None /\ docs' = docs
      /\ plans' = [plans EXCEPT ![p] = [examples |-> Flushed, diagnostics |-> diagnostics]]
    BY DEF FinishPlan
<1>2. RunsOf(p)
    BY <1>1 DEF RunInv
<1>3. \A j \in DOMAIN Flushed :
          IsRun(docs[p], OwnUnits(p), p, Flushed[j], Dangling(diagnostics, p))
    BY <1>1, <1>2, FlushedRuns
<1> SUFFICES ASSUME NEW q \in Planned', NEW j \in DOMAIN ExamplesOf(q)'
             PROVE  IsRun(docs[q], OwnUnits(q), q, ExamplesOf(q)[j],
                          Dangling(plans[q].diagnostics, q))'
    BY DEF PlansRunOn
<1>4. OwnUnits(q)' = OwnUnits(q)
    BY <1>1, OwnUnitsStay
<1>5. CASE q = p
    <2>1. ExamplesOf(p)' = Flushed /\ plans'[p].diagnostics = diagnostics
        BY <1>1 DEF StateInv, ExamplesOf
    <2>2. Dangling(plans[p].diagnostics, p)' = Dangling(diagnostics, p)
        BY <1>1, <2>1 DEF Dangling
    <2> QED
        BY <1>1, <1>3, <1>4, <1>5, <2>1, <2>2
<1>6. CASE q # p
    <2>1. q \in Planned
        BY <1>6 DEF FinishPlan, Planned
    <2>2. plans'[q] = plans[q]
        BY <1>1, <1>6, <2>1 DEF StateInv, Planned
    <2>3. ExamplesOf(q)' = ExamplesOf(q)
        BY <2>2 DEF ExamplesOf
    <2>4. IsRun(docs[q], OwnUnits(q), q, ExamplesOf(q)[j],
                Dangling(plans[q].diagnostics, q))
        BY <2>1, <2>3 DEF PlansRunOn
    <2>5. Dangling(plans[q].diagnostics, q)' = Dangling(plans[q].diagnostics, q)
        BY <1>1, <2>2 DEF Dangling
    <2> QED
        BY <1>1, <1>4, <2>3, <2>4, <2>5
<1> QED
    BY <1>5, <1>6

LEMMA PlansRunStep == PlansRunOn /\ RunInv /\ StateInv /\ [Next]_vars => PlansRunOn'
<1> SUFFICES ASSUME PlansRunOn, RunInv, StateInv, [Next]_vars PROVE PlansRunOn'
    OBVIOUS
<1>1. ASSUME NEW p \in Paths, StartPlan(p) PROVE PlansRunOn'
    <2>1. host' = {p} /\ todo' = todo \ {p} /\ host = {} /\ UNCHANGED <<docs, plans>>
        BY <1>1 DEF StartPlan, None
    <2>2. Planned' \subseteq Planned
        BY <2>1 DEF Planned
    <2> QED
        BY <2>1, <2>2, PlansRunStay
<1>2. ASSUME UNCHANGED <<docs, hostVars>> PROVE PlansRunOn'
    <2>1. Planned' \subseteq Planned
        BY <1>2 DEF Planned, hostVars
    <2> QED
        BY <1>2, <2>1, PlansRunStay DEF hostVars
<1>3. ASSUME NEW p \in Paths, FinishPlan(p) PROVE PlansRunOn'
    BY <1>3, FinishedRunsOn
<1>4. ASSUME todo' = Paths PROVE PlansRunOn'
    BY <1>4 DEF PlansRunOn, Planned
<1>5. ASSUME NEW p \in Paths, NEW i \in DOMAIN docs[p], HoverReference(p, i)
      PROVE  PlansRunOn'
    <2>1. todo' = Paths
        BY <1>5 DEF HoverReference
    <2> QED
        BY <1>4, <2>1
<1>6. ASSUME NEW k \in hover, FinishHover(k) PROVE PlansRunOn'
    <2>1. hover # None
        BY <1>6 DEF None
    <2>2. todo' = Paths
        BY <1>6, <2>1 DEF FinishHover, StateInv, HoverOK
    <2> QED
        BY <1>4, <2>2
<1>7. ASSUME NEW p \in Paths,
             \/ ReturnOuter(p)
             \/ \E i \in units : \/ GroupSteps(p, i) \/ GroupRows(p, i)
                                 \/ GroupProse(p, i) \/ GroupReference(p, i)
             \/ \E i \in Left : SpliceCandidate(p, i) \/ SpliceReference(p, i)
      PROVE  PlansRunOn'
    <2>1. UNCHANGED <<docs, hostVars>>
        BY <1>7 DEF ReturnOuter, GroupSteps, GroupRows, GroupProse, GroupReference,
                    SpliceCandidate, SpliceReference
    <2> QED
        BY <1>2, <2>1
<1>8. ASSUME ReturnInner PROVE PlansRunOn'
    <2>1. UNCHANGED <<docs, hostVars>>
        BY <1>8 DEF ReturnInner
    <2> QED
        BY <1>2, <2>1
<1>9. CASE UNCHANGED vars
    BY <1>2, <1>9 DEF vars
<1> QED
    BY <1>1, <1>3, <1>5, <1>6, <1>7, <1>8, <1>9 DEF Next

\* What the grouping loop keeps is what is promised of a plan.
LEMMA RunsAreNamed ==
    ASSUME StateInv, NEW p \in Paths, NEW e, NEW rep,
           IsRun(docs[p], OwnUnits(p), p, e, rep), e.steps # << >>
    PROVE  /\ LongestRun(p, e.from, e.to, rep)
           /\ NamedByItsOwn(p, e)
           /\ \E k \in e.from .. e.to : e.scope = Scope(docs[p], k)
<1> DEFINE own == OwnUnits(p)
<1>1. Placed(own, e) /\ NamedWell(docs[p], own, p, e) /\ Longest(docs[p], e.from, e.to, rep)
    BY DEF IsRun
<1>2. PlannedThere(docs[p], own)
    BY PlannedThereOf DEF StateInv
<1>3. own \subseteq 1 .. Len(docs[p]) /\ Len(docs[p]) \in Nat
    BY <1>2 DEF PlannedThere, Candidates
<1>4. e.from \in own /\ e.to \in own /\ e.from <= e.to
    BY <1>1 DEF Placed
<1>5. e.from \in 1 .. Len(docs[p]) /\ e.to \in 1 .. Len(docs[p])
    BY <1>3, <1>4
<1>6. \A k \in e.from .. e.to : k \in 1 .. Len(docs[p]) /\ k \in Nat
    BY <1>3, <1>5
<1>7. LongestRun(p, e.from, e.to, rep)
    BY <1>1, <1>4 DEF Longest, BeginsWell, AllShare, Together, LongestRun
<1>8. \A k \in e.from .. e.to :
          Matched(docs[p][k]) => (k \in own <=> ~Consumed(p, k))
    <2>1. DOMAIN docs[p] = 1 .. Len(docs[p])
        BY <1>2 DEF PlannedThere
    <2>2. \A k : Matched(docs[p][k]) => IsCandidate(docs[p][k])
        BY DEF Matched, IsCandidate
    <2> QED
        BY <1>6, <2>1, <2>2 DEF OwnUnits, Candidates
<1>9. e.borrowed => /\ \A k \in e.from .. e.to : ~(k \in own /\ Matched(docs[p][k]))
                    /\ e.scope = Scope(docs[p], e.from)
    BY <1>1 DEF NamedWell
<1>10. ASSUME ~e.borrowed
       PROVE  \E k \in e.from .. e.to :
                 /\ k \in own /\ Matched(docs[p][k]) /\ e.name = <<p, k>>
                 /\ e.scope = Scope(docs[p], k)
                 /\ \A j \in e.from .. e.to : j \in own /\ Matched(docs[p][j]) => k <= j
    BY <1>1, <1>10 DEF NamedWell, FirstOwn
<1>11. e.from \in e.from .. e.to
    BY <1>4, <1>5
<1>12. NamedByItsOwn(p, e)
    <2>1. CASE e.borrowed
        BY <1>8, <1>9, <2>1 DEF NamedByItsOwn
    <2>2. CASE ~e.borrowed
        BY <1>8, <1>10, <2>2 DEF NamedByItsOwn
    <2> QED
        BY <2>1, <2>2
<1>13. \E k \in e.from .. e.to : e.scope = Scope(docs[p], k)
    <2>1. CASE e.borrowed
        BY <1>9, <1>11, <2>1
    <2>2. CASE ~e.borrowed
        BY <1>10, <2>2
    <2> QED
        BY <2>1, <2>2
<1> QED
    BY <1>7, <1>12, <1>13

\* An example runs from one delimiter to the next: in every project, the paragraphs and
\* references of an oath fall into examples at its delimiters and nowhere else, but for
\* references that something is reported of, and each example has the name and the
\* headings of its own first paragraph, also where it opens with a section spliced in.
THEOREM ExamplesAlwaysRunOn == Spec => []ExamplesRunOn
<1> DEFINE Inv == PlannedInv /\ RunInv /\ PlansRunOn
<1>1. Init => Inv
    <2> SUFFICES ASSUME Init PROVE Inv
        OBVIOUS
    <2>1. RunInv /\ PlansRunOn
        BY DEF Init, RunInv, PlansRunOn, Planned, None
    <2>2. ProgressInv /\ PlansInv
        BY DEF Init, ProgressInv, PlansInv, Planned, None
    <2> QED
        BY <2>1, <2>2, InitInv, StateInit DEF PlannedInv
<1>2. Inv /\ [Next]_vars => Inv'
    BY StepInv, StateStep, ProgressStep, PlansStep, RunStep, PlansRunStep DEF PlannedInv
<1>3. Inv => ExamplesRunOn
    <2> SUFFICES ASSUME StateInv, PlansRunOn, NEW p \in Planned,
                        NEW i \in DOMAIN ExamplesOf(p), ExamplesOf(p)[i].steps # << >>
                 PROVE  LET e == ExamplesOf(p)[i] IN
                        /\ LongestRun(p, e.from, e.to, Dangling(plans[p].diagnostics, p))
                        /\ NamedByItsOwn(p, e)
                        /\ \E k \in e.from .. e.to : e.scope = Scope(docs[p], k)
        BY DEF ExamplesRunOn, PlannedInv
    <2>1. p \in Paths
        BY DEF Planned
    <2>2. IsRun(docs[p], OwnUnits(p), p, ExamplesOf(p)[i],
                Dangling(plans[p].diagnostics, p))
        BY DEF PlansRunOn
    <2> QED
        BY <2>1, <2>2, RunsAreNamed
<1> QED
    BY <1>1, <1>2, <1>3, PTL DEF Spec

--------------------------------------------------------------------------------
\* What is put behind each other, whatever it is a sequence of.
LEMMA Catenate ==
    ASSUME NEW x, NEW y, IsSteps(x), IsSteps(y)
    PROVE  /\ IsSteps(x \o y) /\ Len(x) \in Nat /\ Len(y) \in Nat
           /\ Len(x \o y) = Len(x) + Len(y) /\ DOMAIN (x \o y) = 1 .. Len(x) + Len(y)
           /\ \A i \in 1 .. Len(x) + Len(y) :
                 (x \o y)[i] = IF i <= Len(x) THEN x[i] ELSE y[i - Len(x)]
<1>1. PICK S : x \in Seq(S)
    BY DEF IsSteps
<1>2. PICK T : y \in Seq(T)
    BY DEF IsSteps
<1>3. x \in Seq(S \cup T) /\ y \in Seq(S \cup T)
    BY <1>1, <1>2, SeqMonotonic
<1>4. x \o y \in Seq(S \cup T)
    BY <1>3, ConcatProperties
<1> QED
    BY <1>3, <1>4, ConcatProperties, LenProperties DEF IsSteps

LEMMA Associate ==
    ASSUME NEW x, NEW y, NEW z, IsSteps(x), IsSteps(y), IsSteps(z)
    PROVE  x \o y \o z = x \o (y \o z)
<1>1. PICK S : x \in Seq(S)
    BY DEF IsSteps
<1>2. PICK T : y \in Seq(T)
    BY DEF IsSteps
<1>3. PICK U : z \in Seq(U)
    BY DEF IsSteps
<1> DEFINE V == S \cup T \cup U
<1>4. x \in Seq(V) /\ y \in Seq(V) /\ z \in Seq(V)
    BY <1>1, <1>2, <1>3, SeqMonotonic
<1> HIDE DEF V
<1> QED
    BY <1>4, ConcatAssociative

LEMMA NothingBeside ==
    ASSUME NEW x, IsSteps(x)
    PROVE  x \o << >> = x /\ << >> \o x = x /\ IsSteps(<< >>)
<1>1. PICK S : x \in Seq(S)
    BY DEF IsSteps
<1> QED
    BY <1>1, ConcatEmptySeq, EmptySeq DEF IsSteps

\* A function from the numbers up to n is a sequence, and is known by its elements.
LEMMA Enumerated ==
    ASSUME NEW x, NEW n \in Nat, DOMAIN x = 1 .. n, x = [i \in DOMAIN x |-> x[i]]
    PROVE  IsSteps(x) /\ Len(x) = n
<1>1. x \in [1 .. n -> {x[i] : i \in 1 .. n}]
    OBVIOUS
<1>2. x \in Seq({x[i] : i \in 1 .. n})
    BY <1>1
<1> QED
    BY <1>2, LenProperties DEF IsSteps

LEMMA Alike ==
    ASSUME NEW x, NEW y, IsSteps(x), IsSteps(y), Len(x) = Len(y),
           \A i \in 1 .. Len(x) : x[i] = y[i]
    PROVE  x = y
<1>1. PICK S : x \in Seq(S)
    BY DEF IsSteps
<1>2. PICK T : y \in Seq(T)
    BY DEF IsSteps
<1>3. x \in Seq(S \cup T) /\ y \in Seq(S \cup T)
    BY <1>1, <1>2, SeqMonotonic
<1> QED
    BY <1>3, SeqEqual

LEMMA One ==
    ASSUME NEW e
    PROVE  IsSteps(<<e>>) /\ Len(<<e>>) = 1 /\ <<e>>[1] = e /\ DOMAIN <<e>> = 1 .. 1
<1>1. <<e>> \in Seq({e}) /\ Len(<<e>>) = 1 /\ <<e>>[1] = e
    OBVIOUS
<1> QED
    BY <1>1, LenProperties DEF IsSteps

LEMMA Appended ==
    ASSUME NEW x, IsSteps(x), NEW e
    PROVE  Append(x, e) = x \o <<e>>
<1>1. PICK S : x \in Seq(S)
    BY DEF IsSteps
<1>2. x \in Seq(S \cup {e})
    BY <1>1, SeqMonotonic
<1> QED
    BY <1>2, AppendIsConcat

--------------------------------------------------------------------------------
\* What holds of a number if it holds of all before it holds of all.
LEMMA Descent ==
    ASSUME NEW Good \in SUBSET Nat,
           \A n \in Nat : (\A m \in Nat : m < n => m \in Good) => n \in Good
    PROVE  Good = Nat
<1> DEFINE Bad == Nat \ Good
<1>1. ASSUME Bad # {} PROVE FALSE
    <2>1. PICK n \in Bad : \A m \in Bad : n <= m
        BY <1>1, Least
    <2>2. \A m \in Nat : m < n => m \in Good
        BY <2>1
    <2> QED
        BY <2>1, <2>2
<1> QED
    BY <1>1

\* The recursion of FlattenSeq, for the first n of the sequences.
IsFlat(s, n, f) == f = [i \in 1 .. n |-> IF i = 1 THEN s[i] ELSE f[i - 1] \o s[i]]

\* It goes on by one more.
LEMMA FlatGoesOn ==
    ASSUME NEW s, NEW t, NEW n \in Nat, \A i \in 1 .. n : t[i] = s[i], NEW f, IsFlat(s, n, f)
    PROVE  \E g : /\ IsFlat(t, n + 1, g)
                  /\ n # 0 => g[n + 1] = f[n] \o t[n + 1]
<1> DEFINE last == IF n = 0 THEN t[1] ELSE f[n] \o t[n + 1]
           g == [i \in 1 .. n + 1 |-> IF i = n + 1 THEN last ELSE f[i]]
<1>0. (n = 0 => last = t[1]) /\ (n # 0 => last = f[n] \o t[n + 1])
    OBVIOUS
<1> HIDE DEF last
<1>1. g = [i \in 1 .. n + 1 |-> g[i]] /\ g[n + 1] = last /\ \A i \in 1 .. n : g[i] = f[i]
    OBVIOUS
<1> HIDE DEF g
<1>2. ASSUME NEW i \in 1 .. n + 1 PROVE g[i] = IF i = 1 THEN t[i] ELSE g[i - 1] \o t[i]
    <2>1. CASE i = n + 1 /\ i = 1
        BY <1>0, <1>1, <2>1
    <2>2. CASE i = n + 1 /\ i # 1
        <3>1. n \in 1 .. n /\ n # 0 /\ i - 1 = n
            BY <2>2
        <3>2. g[i - 1] = f[n] /\ g[i] = f[n] \o t[i]
            BY <1>0, <1>1, <2>2, <3>1
        <3> QED
            BY <2>2, <3>2
    <2>3. CASE i # n + 1
        <3>1. i \in 1 .. n /\ (i # 1 => i - 1 \in 1 .. n)
            BY <2>3
        <3>2. f[i] = IF i = 1 THEN s[i] ELSE f[i - 1] \o s[i]
            BY <3>1 DEF IsFlat
        <3>3. s[i] = t[i] /\ g[i] = f[i] /\ (i # 1 => g[i - 1] = f[i - 1])
            BY <1>1, <3>1
        <3> QED
            BY <3>2, <3>3
    <2> QED
        BY <2>1, <2>2, <2>3
<1>3. IsFlat(t, n + 1, g)
    BY <1>1, <1>2, Zenon DEF IsFlat
<1> QED
    BY <1>1, <1>3 DEF last

LEMMA FlatExists ==
    ASSUME NEW s, NEW n \in Nat
    PROVE  \E f : IsFlat(s, n, f)
<1> DEFINE Good == {m \in Nat : \E f : IsFlat(s, m, f)}
<1>1. ASSUME NEW m \in Nat, \A l \in Nat : l < m => l \in Good PROVE m \in Good
    <2>1. CASE m = 0
        <3>1. IsFlat(s, 0, [i \in 1 .. 0 |-> s[i]])
            BY DEF IsFlat
        <3> QED
            BY <2>1, <3>1
    <2>2. CASE m # 0
        <3>1. m - 1 \in Nat /\ m - 1 < m /\ (m - 1) + 1 = m
            BY <2>2
        <3>2. PICK f : IsFlat(s, m - 1, f)
            BY <1>1, <3>1
        <3>3. \E g : IsFlat(s, (m - 1) + 1, g)
            BY <3>1, <3>2, FlatGoesOn
        <3> QED
            BY <3>1, <3>3
    <2> QED
        BY <2>1, <2>2
<1>2. Good \in SUBSET Nat /\ \A m \in Nat : m \in Good <=> \E f : IsFlat(s, m, f)
    OBVIOUS
<1> HIDE DEF Good
<1>3. Good = Nat
    BY <1>1, <1>2, Descent
<1> QED
    BY <1>2, <1>3

\* There is but one such function.
LEMMA FlatIsOne ==
    ASSUME NEW s, NEW n \in Nat, NEW f, IsFlat(s, n, f), NEW g, IsFlat(s, n, g)
    PROVE  f = g
<1> DEFINE Good == {m \in Nat : m \in 1 .. n => f[m] = g[m]}
<1>1. ASSUME NEW m \in Nat, \A l \in Nat : l < m => l \in Good PROVE m \in Good
    <2> SUFFICES ASSUME m \in 1 .. n PROVE f[m] = g[m]
        OBVIOUS
    <2>1. m # 1 => m - 1 \in Nat /\ m - 1 < m /\ m - 1 \in 1 .. n
        OBVIOUS
    <2>2. m # 1 => f[m - 1] = g[m - 1]
        BY <1>1, <2>1
    <2>3. /\ f[m] = IF m = 1 THEN s[m] ELSE f[m - 1] \o s[m]
          /\ g[m] = IF m = 1 THEN s[m] ELSE g[m - 1] \o s[m]
        BY DEF IsFlat
    <2> QED
        BY <2>2, <2>3
<1>2. Good \in SUBSET Nat /\ \A m \in Good : m \in 1 .. n => f[m] = g[m]
    OBVIOUS
<1> HIDE DEF Good
<1>3. Good = Nat
    BY <1>1, <1>2, Descent
<1>4. \A m \in 1 .. n : f[m] = g[m]
    BY <1>2, <1>3
<1>5. f = [i \in 1 .. n |-> f[i]] /\ g = [i \in 1 .. n |-> g[i]]
    BY DEF IsFlat
<1> QED
    BY <1>4, <1>5

LEMMA FlattenIs ==
    ASSUME NEW s, Len(s) \in Nat \ {0}
    PROVE  \E f : IsFlat(s, Len(s), f) /\ FlattenSeq(s) = f[Len(s)]
<1> DEFINE flat == CHOOSE f : IsFlat(s, Len(s), f)
<1>1. \E f : IsFlat(s, Len(s), f)
    BY FlatExists
<1>2. IsFlat(s, Len(s), flat)
    BY <1>1
<1>3. FlattenSeq(s) = flat[Len(s)]
    BY Zenon DEF FlattenSeq, IsFlat
<1> QED
    BY <1>2, <1>3

LEMMA FlattenAppended ==
    ASSUME NEW s, IsSteps(s), NEW t, IsSteps(t), Len(t) = Len(s) + 1, IsSteps(t[Len(t)]),
           \A i \in 1 .. Len(s) : t[i] = s[i]
    PROVE  FlattenSeq(t) = FlattenSeq(s) \o t[Len(t)]
<1>1. Len(s) \in Nat /\ Len(t) \in Nat \ {0} /\ (Len(s) = 0 => s = << >>)
    BY LenProperties, EmptySeq DEF IsSteps
<1>2. PICK g : IsFlat(t, Len(t), g) /\ FlattenSeq(t) = g[Len(t)]
    BY <1>1, FlattenIs
<1>3. CASE Len(s) = 0
    <2>1. FlattenSeq(s) = << >>
        BY <1>1, <1>3, Zenon DEF FlattenSeq
    <2>2. Len(t) = 1 /\ g[1] = t[1]
        BY <1>2, <1>3 DEF IsFlat
    <2> QED
        BY <1>2, <2>1, <2>2, NothingBeside
<1>4. CASE Len(s) # 0
    <2>1. PICK f : IsFlat(s, Len(s), f) /\ FlattenSeq(s) = f[Len(s)]
        BY <1>1, <1>4, FlattenIs
    <2>2. PICK h : /\ IsFlat(t, Len(s) + 1, h)
                   /\ Len(s) # 0 => h[Len(s) + 1] = f[Len(s)] \o t[Len(s) + 1]
        <3>1. PICK n : n = Len(s)
            OBVIOUS
        <3>2. n \in Nat /\ \A i \in 1 .. n : t[i] = s[i]
            BY <1>1, <3>1
        <3>3. IsFlat(s, n, f)
            BY <2>1, <3>1
        <3>4. \E h : /\ IsFlat(t, n + 1, h)
                     /\ n # 0 => h[n + 1] = f[n] \o t[n + 1]
            BY <3>2, <3>3, FlatGoesOn
        <3> QED
            BY <3>1, <3>4
    <2>3. h = g
        BY <1>1, <1>2, <2>2, FlatIsOne
    <2> QED
        BY <1>2, <1>4, <2>1, <2>2, <2>3
<1> QED
    BY <1>3, <1>4

\* The places of steps, and those of the steps of examples, one after the other.
LEMMA PlacesAre ==
    ASSUME NEW ss, IsSteps(ss)
    PROVE  /\ IsSteps(PlacesOf(ss)) /\ Len(PlacesOf(ss)) = Len(ss) /\ Len(ss) \in Nat
           /\ \A j \in 1 .. Len(ss) : PlacesOf(ss)[j] = <<ss[j].doc, ss[j].at>>
<1>1. Len(ss) \in Nat /\ DOMAIN ss = 1 .. Len(ss)
    BY LenProperties DEF IsSteps
<1> DEFINE x == PlacesOf(ss)
<1>2. /\ DOMAIN x = 1 .. Len(ss) /\ x = [j \in DOMAIN x |-> x[j]]
      /\ \A j \in 1 .. Len(ss) : x[j] = <<ss[j].doc, ss[j].at>>
    BY <1>1 DEF PlacesOf
<1> HIDE DEF x
<1>3. IsSteps(x) /\ Len(x) = Len(ss)
    BY <1>1, <1>2, Enumerated
<1> QED
    BY <1>1, <1>2, <1>3 DEF x

LEMMA PlacesJoined ==
    ASSUME NEW ss, NEW ts, IsSteps(ss), IsSteps(ts)
    PROVE  PlacesOf(ss \o ts) = PlacesOf(ss) \o PlacesOf(ts)
<1> DEFINE x == PlacesOf(ss)  y == PlacesOf(ts)  z == PlacesOf(ss \o ts)
<1>1. /\ IsSteps(ss \o ts) /\ Len(ss) \in Nat /\ Len(ts) \in Nat
      /\ Len(ss \o ts) = Len(ss) + Len(ts)
      /\ \A i \in 1 .. Len(ss) + Len(ts) :
            (ss \o ts)[i] = IF i <= Len(ss) THEN ss[i] ELSE ts[i - Len(ss)]
    BY Catenate
<1>2. /\ IsSteps(x) /\ Len(x) = Len(ss)
      /\ \A j \in 1 .. Len(ss) : x[j] = <<ss[j].doc, ss[j].at>>
    BY PlacesAre
<1>3. /\ IsSteps(y) /\ Len(y) = Len(ts)
      /\ \A j \in 1 .. Len(ts) : y[j] = <<ts[j].doc, ts[j].at>>
    BY PlacesAre
<1>4. /\ IsSteps(z) /\ Len(z) = Len(ss) + Len(ts)
      /\ \A j \in 1 .. Len(ss) + Len(ts) : z[j] = <<(ss \o ts)[j].doc, (ss \o ts)[j].at>>
    BY <1>1, PlacesAre
<1> HIDE DEF x, y, z
<1>5. /\ IsSteps(x \o y) /\ Len(x \o y) = Len(x) + Len(y)
      /\ \A i \in 1 .. Len(x) + Len(y) : (x \o y)[i] = IF i <= Len(x) THEN x[i] ELSE y[i - Len(x)]
    BY <1>2, <1>3, Catenate
<1>6. ASSUME NEW i \in 1 .. Len(ss) + Len(ts) PROVE z[i] = (x \o y)[i]
    <2>1. CASE i <= Len(ss)
        <3>1. i \in 1 .. Len(ss)
            BY <1>1, <2>1
        <3> QED
            BY <1>1, <1>2, <1>3, <1>4, <1>5, <2>1, <3>1
    <2>2. CASE ~(i <= Len(ss))
        <3>1. i - Len(ss) \in 1 .. Len(ts)
            BY <1>1, <2>2
        <3> QED
            BY <1>1, <1>2, <1>3, <1>4, <1>5, <2>2, <3>1
    <2> QED
        BY <2>1, <2>2
<1>7. z = x \o y
    BY <1>2, <1>3, <1>4, <1>5, <1>6, Alike
<1> QED
    BY <1>7 DEF x, y, z

\* Sequences one after the other are a sequence.
LEMMA FlattenSteps ==
    ASSUME NEW x, IsSteps(x), \A n \in 1 .. Len(x) : IsSteps(x[n])
    PROVE  IsSteps(FlattenSeq(x))
<1>1. Len(x) \in Nat
    BY LenProperties DEF IsSteps
<1>3. CASE Len(x) = 0
    <2>1. x = << >>
        BY <1>1, <1>3, EmptySeq DEF IsSteps
    <2>2. FlattenSeq(x) = << >>
        BY <2>1, <1>3, Zenon DEF FlattenSeq
    <2> QED
        BY <2>1, <2>2
<1>4. CASE Len(x) # 0
    <2>1. PICK f : IsFlat(x, Len(x), f) /\ FlattenSeq(x) = f[Len(x)]
        BY <1>1, <1>4, FlattenIs
    <2> DEFINE Good == {m \in Nat : m \in 1 .. Len(x) => IsSteps(f[m])}
    <2>2. ASSUME NEW m \in Nat, \A l \in Nat : l < m => l \in Good PROVE m \in Good
        <3> SUFFICES ASSUME m \in 1 .. Len(x) PROVE IsSteps(f[m])
            OBVIOUS
        <3>1. f[m] = IF m = 1 THEN x[m] ELSE f[m - 1] \o x[m]
            BY <2>1 DEF IsFlat
        <3>2. IsSteps(x[m])
            BY <1>1
        <3>3. CASE m = 1
            BY <3>1, <3>2, <3>3
        <3>4. CASE m # 1
            <4>1. m - 1 \in Nat /\ m - 1 < m /\ m - 1 \in 1 .. Len(x)
                BY <1>1, <3>4
            <4>2. IsSteps(f[m - 1])
                BY <2>2, <4>1
            <4>3. IsSteps(f[m - 1] \o x[m])
                BY <3>2, <4>2, Catenate
            <4> QED
                BY <3>1, <3>4, <4>3
        <3> QED
            BY <3>3, <3>4
    <2>3. Good \in SUBSET Nat /\ \A m \in Good : m \in 1 .. Len(x) => IsSteps(f[m])
        OBVIOUS
    <2> HIDE DEF Good
    <2>4. Good = Nat
        BY <2>2, <2>3, Descent
    <2>5. IsSteps(f[Len(x)])
        BY <1>1, <1>4, <2>3, <2>4
    <2> QED
        BY <2>1, <2>5
<1> QED
    BY <1>3, <1>4

\* What is told of examples: the places of the steps of those under a slug.
Stepped(es) == IsSteps(es) /\ \A n \in 1 .. Len(es) : IsSteps(es[n].steps)
IsUnder(scope, slug) == slug = WholeFile \/ slug \in scope
Parts(es, slug) ==
    [n \in DOMAIN es |->
        IF slug = WholeFile \/ slug \in es[n].scope THEN es[n].steps ELSE << >>]
Told(es, slug) == PlacesOf(StepsUnder(es, slug))

LEMMA PartsAre ==
    ASSUME NEW es, Stepped(es), NEW slug
    PROVE  /\ IsSteps(Parts(es, slug)) /\ Len(Parts(es, slug)) = Len(es) /\ Len(es) \in Nat
           /\ \A n \in 1 .. Len(es) :
                 /\ IsSteps(Parts(es, slug)[n])
                 /\ IsUnder(es[n].scope, slug) => Parts(es, slug)[n] = es[n].steps
                 /\ ~IsUnder(es[n].scope, slug) => Parts(es, slug)[n] = << >>
<1>1. Len(es) \in Nat /\ DOMAIN es = 1 .. Len(es)
    BY LenProperties DEF Stepped, IsSteps
<1> DEFINE x == Parts(es, slug)
<1>2. /\ DOMAIN x = 1 .. Len(es) /\ x = [n \in DOMAIN x |-> x[n]]
      /\ \A n \in 1 .. Len(es) :
            x[n] = IF slug = WholeFile \/ slug \in es[n].scope THEN es[n].steps ELSE << >>
    BY <1>1 DEF Parts
<1> HIDE DEF x
<1>3. IsSteps(x) /\ Len(x) = Len(es)
    BY <1>1, <1>2, Enumerated
<1>4. IsSteps(<< >>)
    BY One, NothingBeside
<1>5. \A n \in 1 .. Len(es) : IsSteps(x[n])
    BY <1>2, <1>4 DEF Stepped
<1> QED
    BY <1>1, <1>2, <1>3, <1>5 DEF x, IsUnder

LEMMA ToldNone ==
    ASSUME NEW slug
    PROVE  Stepped(<< >>) /\ Told(<< >>, slug) = << >>
<1>1. << >> \in Seq({}) /\ Len(<< >>) = 0 /\ DOMAIN << >> = {}
    OBVIOUS
<1>2. Parts(<< >>, slug) = << >>
    BY <1>1 DEF Parts
<1>3. StepsUnder(<< >>, slug) = FlattenSeq(Parts(<< >>, slug))
    BY DEF StepsUnder, Parts
<1>4. FlattenSeq(<< >>) = << >>
    BY <1>1, Zenon DEF FlattenSeq
<1>5. PlacesOf(<< >>) = << >>
    BY <1>1 DEF PlacesOf
<1> QED
    BY <1>1, <1>2, <1>3, <1>4, <1>5 DEF Stepped, IsSteps, Told

LEMMA ToldAre ==
    ASSUME NEW es, Stepped(es), NEW slug
    PROVE  IsSteps(StepsUnder(es, slug)) /\ IsSteps(Told(es, slug))
<1>1. /\ IsSteps(Parts(es, slug))
      /\ \A n \in 1 .. Len(Parts(es, slug)) : IsSteps(Parts(es, slug)[n])
    BY PartsAre
<1>2. StepsUnder(es, slug) = FlattenSeq(Parts(es, slug))
    BY DEF StepsUnder, Parts
<1>3. IsSteps(StepsUnder(es, slug))
    BY <1>1, <1>2, FlattenSteps
<1> QED
    BY <1>3, PlacesAre DEF Told

LEMMA ToldAppended ==
    ASSUME NEW es, Stepped(es), NEW e, IsSteps(e.steps), NEW slug
    PROVE  /\ Stepped(Append(es, e))
           /\ IsUnder(e.scope, slug) =>
                 Told(Append(es, e), slug) = Told(es, slug) \o PlacesOf(e.steps)
           /\ ~IsUnder(e.scope, slug) => Told(Append(es, e), slug) = Told(es, slug)
<1> DEFINE fs == Append(es, e)
<1>1. /\ IsSteps(fs) /\ Len(fs) = Len(es) + 1 /\ Len(es) \in Nat /\ fs[Len(es) + 1] = e
      /\ \A i \in 1 .. Len(es) : fs[i] = es[i]
    BY RanAppended DEF Stepped
<1> HIDE DEF fs
<1>2. Stepped(fs)
    BY <1>1 DEF Stepped
<1> DEFINE x == Parts(es, slug)  y == Parts(fs, slug)
<1>3. /\ IsSteps(x) /\ Len(x) = Len(es)
      /\ \A n \in 1 .. Len(es) : /\ IsUnder(es[n].scope, slug) => x[n] = es[n].steps
                                 /\ ~IsUnder(es[n].scope, slug) => x[n] = << >>
    BY PartsAre
<1>4. /\ IsSteps(y) /\ Len(y) = Len(fs)
      /\ \A n \in 1 .. Len(fs) : /\ IsSteps(y[n])
                                 /\ IsUnder(fs[n].scope, slug) => y[n] = fs[n].steps
                                 /\ ~IsUnder(fs[n].scope, slug) => y[n] = << >>
    BY <1>2, PartsAre
<1> HIDE DEF x, y
<1>5. /\ Len(y) = Len(x) + 1 /\ IsSteps(y[Len(y)])
      /\ IsUnder(e.scope, slug) => y[Len(y)] = e.steps
      /\ ~IsUnder(e.scope, slug) => y[Len(y)] = << >>
      /\ \A i \in 1 .. Len(x) : y[i] = x[i]
    BY <1>1, <1>3, <1>4
<1>6. FlattenSeq(y) = FlattenSeq(x) \o y[Len(y)]
    BY <1>3, <1>4, <1>5, FlattenAppended
<1>7. StepsUnder(fs, slug) = FlattenSeq(y) /\ StepsUnder(es, slug) = FlattenSeq(x)
    BY DEF StepsUnder, Parts, x, y
<1>8. IsSteps(StepsUnder(es, slug))
    BY ToldAre
<1>9. IsUnder(e.scope, slug) => StepsUnder(fs, slug) = StepsUnder(es, slug) \o e.steps
    BY <1>5, <1>6, <1>7
<1>10. ~IsUnder(e.scope, slug) => StepsUnder(fs, slug) = StepsUnder(es, slug)
    <2>1. StepsUnder(es, slug) \o << >> = StepsUnder(es, slug)
        BY <1>8, NothingBeside
    <2> QED
        BY <1>5, <1>6, <1>7, <2>1
<1>11. IsUnder(e.scope, slug) => Told(fs, slug) = Told(es, slug) \o PlacesOf(e.steps)
    BY <1>8, <1>9, PlacesJoined DEF Told
<1> QED
    BY <1>2, <1>10, <1>11 DEF fs, Told

\* What a call splices in: each of its units has one step.
Spots(us) == [j \in DOMAIN us |-> <<us[j].steps[1].doc, us[j].steps[1].at>>]

LEMMA SpotsAre ==
    ASSUME NEW us, IsSteps(us)
    PROVE  /\ IsSteps(Spots(us)) /\ Len(Spots(us)) = Len(us) /\ Len(us) \in Nat
           /\ \A j \in 1 .. Len(us) : Spots(us)[j] = <<us[j].steps[1].doc, us[j].steps[1].at>>
<1>1. Len(us) \in Nat /\ DOMAIN us = 1 .. Len(us)
    BY LenProperties DEF IsSteps
<1> DEFINE x == Spots(us)
<1>2. /\ DOMAIN x = 1 .. Len(us) /\ x = [j \in DOMAIN x |-> x[j]]
      /\ \A j \in 1 .. Len(us) : x[j] = <<us[j].steps[1].doc, us[j].steps[1].at>>
    BY <1>1 DEF Spots
<1> HIDE DEF x
<1>3. IsSteps(x) /\ Len(x) = Len(us)
    BY <1>1, <1>2, Enumerated
<1> QED
    BY <1>1, <1>2, <1>3 DEF x

LEMMA SpotsNone == Spots(<< >>) = << >>
<1>1. DOMAIN << >> = {}
    OBVIOUS
<1> QED
    BY <1>1 DEF Spots

LEMMA SpotsJoined ==
    ASSUME NEW us, NEW vs, IsSteps(us), IsSteps(vs)
    PROVE  Spots(us \o vs) = Spots(us) \o Spots(vs)
<1> DEFINE x == Spots(us)  y == Spots(vs)  z == Spots(us \o vs)
<1>1. /\ IsSteps(us \o vs) /\ Len(us) \in Nat /\ Len(vs) \in Nat
      /\ Len(us \o vs) = Len(us) + Len(vs)
      /\ \A i \in 1 .. Len(us) + Len(vs) :
            (us \o vs)[i] = IF i <= Len(us) THEN us[i] ELSE vs[i - Len(us)]
    BY Catenate
<1>2. /\ IsSteps(x) /\ Len(x) = Len(us)
      /\ \A j \in 1 .. Len(us) : x[j] = <<us[j].steps[1].doc, us[j].steps[1].at>>
    BY SpotsAre
<1>3. /\ IsSteps(y) /\ Len(y) = Len(vs)
      /\ \A j \in 1 .. Len(vs) : y[j] = <<vs[j].steps[1].doc, vs[j].steps[1].at>>
    BY SpotsAre
<1>4. /\ IsSteps(z) /\ Len(z) = Len(us) + Len(vs)
      /\ \A j \in 1 .. Len(us) + Len(vs) :
            z[j] = <<(us \o vs)[j].steps[1].doc, (us \o vs)[j].steps[1].at>>
    BY <1>1, SpotsAre
<1> HIDE DEF x, y, z
<1>5. /\ IsSteps(x \o y) /\ Len(x \o y) = Len(x) + Len(y)
      /\ \A i \in 1 .. Len(x) + Len(y) : (x \o y)[i] = IF i <= Len(x) THEN x[i] ELSE y[i - Len(x)]
    BY <1>2, <1>3, Catenate
<1>6. ASSUME NEW i \in 1 .. Len(us) + Len(vs) PROVE z[i] = (x \o y)[i]
    <2>1. CASE i <= Len(us)
        <3>1. i \in 1 .. Len(us)
            BY <1>1, <2>1
        <3> QED
            BY <1>1, <1>2, <1>3, <1>4, <1>5, <2>1, <3>1
    <2>2. CASE ~(i <= Len(us))
        <3>1. i - Len(us) \in 1 .. Len(vs)
            BY <1>1, <2>2
        <3> QED
            BY <1>1, <1>2, <1>3, <1>4, <1>5, <2>2, <3>1
    <2> QED
        BY <2>1, <2>2
<1>7. z = x \o y
    BY <1>2, <1>3, <1>4, <1>5, <1>6, Alike
<1> QED
    BY <1>7 DEF x, y, z

--------------------------------------------------------------------------------
\* The recursion of Flatten: it goes from some places of a document to fewer of them, or to
\* those of a section with one more section being resolved.
Blocks == UNION {DOMAIN docs[p] : p \in Paths}
Base == Cardinality(Blocks) + 1
Size(w) == Cardinality(Referenced \ w[3]) * Base + Cardinality(w[2])

FirstBlock(w) == docs[w[1]][First(w[2])]
Others(w) == <<w[1], Rest(w[2]), w[3]>>
Section(w) == SectionOf(docs, FirstBlock(w), w[3])

Goes(f, w) ==
    IF w[2] = {} THEN << >>
    ELSE (IF Matched(FirstBlock(w)) THEN <<<<w[1], First(w[2])>>>>
          ELSE IF Resolves(docs, FirstBlock(w), w[3]) THEN f[Section(w)]
          ELSE << >>)
         \o f[Others(w)]

IsFlattening(f) == f = [w \in Work(docs) |-> Goes(f, w)]

LEMMA WorkIs ==
    ASSUME NEW w
    PROVE  w \in Work(docs) <=> \E p \in Paths : \E I \in SUBSET DOMAIN docs[p] :
                                   \E K \in SUBSET Referenced : w = <<p, I, K>>
<1>1. Sections(docs) = Referenced
    BY DEF Sections, Referenced
<1> QED
    BY <1>1 DEF Work

LEMMA WorkHas ==
    ASSUME NEW w \in Work(docs)
    PROVE  /\ w[1] \in Paths /\ w[2] \in SUBSET DOMAIN docs[w[1]]
           /\ w[3] \in SUBSET Referenced
           /\ w = <<w[1], w[2], w[3]>>
<1>1. PICK p \in Paths : \E I \in SUBSET DOMAIN docs[p] : \E K \in SUBSET Referenced :
                            w = <<p, I, K>>
    BY WorkIs
<1>2. PICK I \in SUBSET DOMAIN docs[p], K \in SUBSET Referenced : w = <<p, I, K>>
    BY <1>1
<1> QED
    BY <1>2

LEMMA BlocksFinite ==
    ASSUME Docs
    PROVE  /\ IsFiniteSet(Blocks) /\ Cardinality(Blocks) \in Nat
           /\ \A p \in Paths : \A I \in SUBSET DOMAIN docs[p] :
                 /\ IsFiniteSet(I) /\ Cardinality(I) \in Nat
                 /\ Cardinality(I) <= Cardinality(Blocks)
<1>1. ASSUME NEW p \in Paths PROVE IsFiniteSet(DOMAIN docs[p])
    <2>1. PICK n \in Nat : DOMAIN docs[p] = 1 .. n
        BY DEF Docs
    <2>2. 1 \in Int /\ n \in Int
        BY <2>1
    <2>3. IsFiniteSet(1 .. n)
        BY <2>2, FS_Interval
    <2> QED
        BY <2>1, <2>3
<1>2. IsFiniteSet({DOMAIN docs[p] : p \in Paths})
    <2> DEFINE f == [p \in Paths |-> DOMAIN docs[p]]
    <2>1. {DOMAIN docs[p] : p \in Paths} = {f[p] : p \in Paths}
        OBVIOUS
    <2> HIDE DEF f
    <2>2. IsFiniteSet(Paths)
        BY OathsAssumption
    <2>3. IsFiniteSet({f[p] : p \in Paths})
        BY <2>2, FiniteImage
    <2> QED
        BY <2>1, <2>3
<1>3. IsFiniteSet(Blocks)
    BY <1>1, <1>2, FS_UNION DEF Blocks
<1>4. ASSUME NEW p \in Paths, NEW I \in SUBSET DOMAIN docs[p]
      PROVE  IsFiniteSet(I) /\ Cardinality(I) \in Nat /\ Cardinality(I) <= Cardinality(Blocks)
    <2>1. I \in SUBSET Blocks
        BY DEF Blocks
    <2> QED
        BY <1>3, <2>1, FS_Subset, FS_CardinalityType
<1> QED
    BY <1>3, <1>4, FS_CardinalityType

LEMMA Fewer ==
    ASSUME NEW c \in Nat, NEW e \in Nat, e + 1 = c, NEW b \in Nat, NEW m \in Nat, m <= b,
           NEW n \in Nat
    PROVE  e * (b + 1) + m < c * (b + 1) + n
<1>1. c * (b + 1) = e * (b + 1) + (b + 1)
    BY SMT
<1>2. e * (b + 1) \in Nat
    BY SMT
<1> QED
    BY <1>1, <1>2

LEMMA SizeIs ==
    ASSUME Docs, NEW w \in Work(docs)
    PROVE  /\ Cardinality(Referenced \ w[3]) \in Nat /\ Cardinality(w[2]) \in Nat
           /\ Cardinality(w[2]) <= Cardinality(Blocks)
           /\ Cardinality(Referenced \ w[3]) <= Cardinality(Referenced)
           /\ IsFiniteSet(Referenced \ w[3]) /\ IsFiniteSet(w[2])
           /\ Base \in Nat /\ Size(w) \in Nat
<1>1. /\ IsFiniteSet(w[2]) /\ Cardinality(w[2]) \in Nat /\ Cardinality(w[2]) <= Cardinality(Blocks)
      /\ Base \in Nat
    <2>1. PICK p \in Paths : p = w[1]
        BY WorkHas
    <2>2. PICK I \in SUBSET DOMAIN docs[p] : I = w[2]
        BY <2>1, WorkHas
    <2>3. IsFiniteSet(I) /\ Cardinality(I) \in Nat /\ Cardinality(I) <= Cardinality(Blocks)
        BY BlocksFinite
    <2> QED
        BY <2>2, <2>3, BlocksFinite DEF Base
<1>2. Referenced \ w[3] \in SUBSET Referenced /\ IsFiniteSet(Referenced)
    BY FinitelyReferenced
<1>3. /\ IsFiniteSet(Referenced \ w[3]) /\ Cardinality(Referenced \ w[3]) \in Nat
      /\ Cardinality(Referenced \ w[3]) <= Cardinality(Referenced)
    BY <1>2, FS_Subset, FS_CardinalityType
<1>4. \A a, b, c \in Nat : a * b + c \in Nat
    BY SMT
<1>5. Size(w) \in Nat
    BY <1>1, <1>3, <1>4 DEF Size
<1> QED
    BY <1>1, <1>3, <1>5

LEMMA FirstIs ==
    ASSUME Docs, NEW p \in Paths, NEW I \in SUBSET DOMAIN docs[p], I # {}
    PROVE  /\ First(I) \in I /\ First(I) \in DOMAIN docs[p] /\ \A j \in I : First(I) <= j
           /\ Rest(I) = I \ {First(I)} /\ Rest(I) \in SUBSET DOMAIN docs[p]
<1>1. Len(docs[p]) \in Nat /\ DOMAIN docs[p] = 1 .. Len(docs[p])
    BY DEF Docs
<1>2. First(I) \in I /\ \A j \in I : First(I) <= j
    BY <1>1, FirstOf
<1> QED
    BY <1>2 DEF Rest

LEMMA OthersSmaller ==
    ASSUME Docs, NEW w \in Work(docs), w[2] # {}
    PROVE  Others(w) \in Work(docs) /\ Size(Others(w)) < Size(w)
<1>1. /\ First(w[2]) \in w[2] /\ Rest(w[2]) = w[2] \ {First(w[2])}
      /\ Rest(w[2]) \in SUBSET DOMAIN docs[w[1]]
    <2>1. PICK p \in Paths : p = w[1]
        BY WorkHas
    <2>2. PICK I \in SUBSET DOMAIN docs[p] : I = w[2]
        BY <2>1, WorkHas
    <2>3. I # {}
        BY <2>2
    <2> QED
        BY <2>1, <2>2, <2>3, FirstIs
<1>2. Others(w) \in Work(docs)
    BY <1>1, WorkHas, WorkIs DEF Others
<1>3. Cardinality(Rest(w[2])) = Cardinality(w[2]) - 1
    <2>1. IsFiniteSet(w[2])
        BY SizeIs
    <2>2. PICK I, i : I = w[2] /\ i = First(w[2])
        OBVIOUS
    <2>3. IsFiniteSet(I) /\ i \in I
        BY <1>1, <2>1, <2>2
    <2>4. Cardinality(I \ {i}) = Cardinality(I) - 1
        BY <2>3, FS_RemoveElement
    <2> QED
        BY <1>1, <2>2, <2>4
<1>4. Others(w)[2] = Rest(w[2]) /\ Others(w)[3] = w[3]
    BY DEF Others
<1>5. Cardinality(Referenced \ w[3]) * Base \in Nat
    <2>1. \A a, b \in Nat : a * b \in Nat
        BY SMT
    <2> QED
        BY <2>1, SizeIs
<1> QED
    BY <1>2, <1>3, <1>4, <1>5, SizeIs DEF Size

LEMMA SectionSmaller ==
    ASSUME Docs, NEW w \in Work(docs), w[2] # {}, Resolves(docs, FirstBlock(w), w[3])
    PROVE  Section(w) \in Work(docs) /\ Size(Section(w)) < Size(w)
<1> DEFINE b == FirstBlock(w)  k == KeyOf(b)
<1>1. w[1] \in Paths /\ w[2] \in SUBSET DOMAIN docs[w[1]] /\ w[3] \in SUBSET Referenced
    BY WorkHas
<1>2. First(w[2]) \in DOMAIN docs[w[1]]
    BY <1>1, FirstIs
<1>3. b.path \in Paths /\ k \notin w[3] /\ k \in Referenced
    BY <1>1, <1>2, LinkIsReferenced DEF Resolves, FirstBlock
<1>4. SectionCandidates(docs[b.path], b.slug) \in SUBSET DOMAIN docs[b.path]
    BY DEF SectionCandidates, Candidates
<1>5. /\ Section(w)[1] = b.path /\ Section(w)[2] = SectionCandidates(docs[b.path], b.slug)
      /\ Section(w)[3] = w[3] \cup {k}
      /\ Section(w) = <<b.path, SectionCandidates(docs[b.path], b.slug), w[3] \cup {k}>>
    BY DEF Section, SectionOf
<1>6. Section(w) \in Work(docs)
    BY <1>1, <1>3, <1>4, <1>5, WorkIs
<1> HIDE DEF b, k
<1>7. Cardinality(Referenced \ Section(w)[3]) + 1 = Cardinality(Referenced \ w[3])
    <2>1. Referenced \ Section(w)[3] = (Referenced \ w[3]) \ {k} /\ k \in Referenced \ w[3]
        BY <1>3, <1>5
    <2>2. IsFiniteSet(Referenced \ w[3]) /\ Cardinality(Referenced \ w[3]) \in Nat
        BY SizeIs
    <2>3. Cardinality((Referenced \ w[3]) \ {k}) = Cardinality(Referenced \ w[3]) - 1
        BY <2>1, <2>2, FS_RemoveElement
    <2>4. Cardinality(Referenced \ Section(w)[3]) = Cardinality(Referenced \ w[3]) - 1
        BY <2>1, <2>3
    <2> QED
        BY <2>2, <2>4
<1>8. /\ Cardinality(Referenced \ Section(w)[3]) \in Nat /\ Cardinality(Section(w)[2]) \in Nat
      /\ Cardinality(Section(w)[2]) <= Cardinality(Blocks)
      /\ Cardinality(Referenced \ w[3]) \in Nat /\ Cardinality(w[2]) \in Nat
      /\ Cardinality(Blocks) \in Nat
    BY <1>6, SizeIs, BlocksFinite
<1>9. Size(Section(w)) < Size(w)
    BY <1>7, <1>8, Fewer DEF Size, Base
<1> QED
    BY <1>6, <1>9

\* Only the smaller work matters.
LEMMA GoesBySmaller ==
    ASSUME Docs, NEW w \in Work(docs), NEW f, NEW g,
           \A v \in Work(docs) : Size(v) < Size(w) => f[v] = g[v]
    PROVE  Goes(f, w) = Goes(g, w)
<1>1. w[2] # {} => f[Others(w)] = g[Others(w)]
    BY OthersSmaller
<1>2. w[2] # {} /\ Resolves(docs, FirstBlock(w), w[3]) => f[Section(w)] = g[Section(w)]
    BY SectionSmaller
<1> QED
    BY <1>1, <1>2, Zenon DEF Goes

LEMMA FlatteningExists ==
    ASSUME Docs
    PROVE  \E f : IsFlattening(f)
<1> DEFINE Upto(f, m) == \A w \in Work(docs) : Size(w) < m => f[w] = Goes(f, w)
           Good == {m \in Nat : \E f : Upto(f, m)}
<1>1. ASSUME NEW m \in Nat, \A l \in Nat : l < m => l \in Good PROVE m \in Good
    <2>0. \A w \in Work(docs) : Size(w) \in Nat
        BY SizeIs
    <2>1. CASE m = 0
        <3>1. Upto(<< >>, 0)
            BY <2>0
        <3> QED
            BY <2>1, <3>1
    <2>2. CASE m # 0
        <3>1. m - 1 \in Nat /\ m - 1 < m
            BY <2>2
        <3>2. PICK f : Upto(f, m - 1)
            BY <1>1, <3>1
        <3> DEFINE g == [w \in Work(docs) |-> IF Size(w) < m - 1 THEN f[w] ELSE Goes(f, w)]
        <3>3. \A w \in Work(docs) : g[w] = IF Size(w) < m - 1 THEN f[w] ELSE Goes(f, w)
            OBVIOUS
        <3> HIDE DEF g
        <3>4. ASSUME NEW w \in Work(docs), Size(w) < m PROVE g[w] = Goes(g, w)
            <4>1. \A v \in Work(docs) : Size(v) < Size(w) => f[v] = g[v]
                <5> SUFFICES ASSUME NEW v \in Work(docs), Size(v) < Size(w) PROVE f[v] = g[v]
                    OBVIOUS
                <5>1. Size(v) < m - 1
                    BY <2>0, <3>4
                <5> QED
                    BY <3>3, <5>1
            <4>2. Goes(f, w) = Goes(g, w)
                BY <4>1, GoesBySmaller
            <4>3. g[w] = Goes(f, w)
                BY <3>2, <3>3
            <4> QED
                BY <4>2, <4>3
        <3>5. Upto(g, m)
            BY <3>4
        <3> QED
            BY <3>5
    <2> QED
        BY <2>1, <2>2
<1>2. Good \in SUBSET Nat /\ \A m \in Nat : m \in Good <=> \E f : Upto(f, m)
    OBVIOUS
<1> HIDE DEF Good
<1>3. Good = Nat
    BY <1>1, <1>2, Descent
<1> DEFINE c == Cardinality(Referenced)  max == (c + 1) * Base
<1>4. c \in Nat /\ Cardinality(Blocks) \in Nat /\ Base = Cardinality(Blocks) + 1
    BY FinitelyReferenced, BlocksFinite, FS_CardinalityType DEF Base
<1>5. ASSUME NEW w \in Work(docs) PROVE Size(w) < max
    <2>1. /\ Cardinality(Referenced \ w[3]) \in Nat /\ Cardinality(w[2]) \in Nat
          /\ Cardinality(w[2]) <= Cardinality(Blocks) /\ Cardinality(Referenced \ w[3]) <= c
        BY SizeIs
    <2>2. \A a, b, d, e, s \in Nat : a <= d /\ s <= b => a * (b + 1) + s < (d + 1) * (b + 1)
        <3> SUFFICES ASSUME NEW a \in Nat, NEW b \in Nat, NEW d \in Nat, NEW s \in Nat,
                            a <= d, s <= b
                     PROVE  a * (b + 1) + s < (d + 1) * (b + 1)
            OBVIOUS
        <3>1. (d + 1) * (b + 1) = d * (b + 1) + (b + 1)
            BY SMT
        <3>2. d * (b + 1) = a * (b + 1) + (d - a) * (b + 1)
            BY SMT
        <3>3. d - a \in Nat /\ b + 1 \in Nat
            OBVIOUS
        <3>4. (d - a) * (b + 1) \in Nat /\ a * (b + 1) \in Nat
            BY <3>3, SMT
        <3> QED
            BY <3>1, <3>2, <3>4
    <2> HIDE DEF c
    <2> QED
        BY <1>4, <2>1, <2>2 DEF Size
<1>6. max \in Nat
    <2>1. \A a, b \in Nat : a * b \in Nat
        BY SMT
    <2> HIDE DEF c
    <2>2. c + 1 \in Nat /\ Base \in Nat
        BY <1>4
    <2> QED
        BY <2>1, <2>2
<1> HIDE DEF max, c
<1>7. PICK f : Upto(f, max)
    BY <1>2, <1>3, <1>6
<1> DEFINE g == [w \in Work(docs) |-> f[w]]
<1>8. \A w \in Work(docs) : g[w] = f[w]
    OBVIOUS
<1>9. \A w \in Work(docs) : g[w] = Goes(g, w)
    <2> HIDE DEF g
    <2> SUFFICES ASSUME NEW w \in Work(docs) PROVE g[w] = Goes(g, w)
        OBVIOUS
    <2>1. f[w] = Goes(f, w)
        BY <1>5, <1>7
    <2>2. Goes(f, w) = Goes(g, w)
        BY <1>8, GoesBySmaller
    <2> QED
        BY <1>8, <2>1, <2>2
<1>10. g = [w \in Work(docs) |-> g[w]]
    OBVIOUS
<1> HIDE DEF g
<1>11. IsFlattening(g)
    BY <1>9, <1>10, Zenon DEF IsFlattening
<1> QED
    BY <1>11

LEMMA FlatteningIs ==
    ASSUME Docs
    PROVE  IsFlattening(Flatten(docs))
<1>1. Flatten(docs) = CHOOSE f : IsFlattening(f)
    BY Zenon DEF Flatten, IsFlattening, Goes, FirstBlock, Others, Section
<1> QED
    BY <1>1, FlatteningExists

\* What the recursion says of the first of the places, whatever comes of it.
LEMMA FlattenAt ==
    ASSUME Docs, NEW w \in Work(docs)
    PROVE  Flatten(docs)[w] = Goes(Flatten(docs), w)
<1> DEFINE f == Flatten(docs)
<1>1. f = [v \in Work(docs) |-> Goes(f, v)]
    BY FlatteningIs DEF IsFlattening
<1> HIDE DEF f
<1>2. f[w] = Goes(f, w)
    BY <1>1
<1> QED
    BY <1>2 DEF f

LEMMA FlattenGivesSteps ==
    ASSUME Docs, NEW v \in Work(docs)
    PROVE  IsSteps(Flatten(docs)[v])
<1> DEFINE f == Flatten(docs)
           Good == {n \in Nat : \A w \in Work(docs) : Size(w) = n => IsSteps(f[w])}
<1>0. \A w \in Work(docs) : f[w] = Goes(f, w)
    BY FlattenAt
<1> HIDE DEF f
<1>1. ASSUME NEW n \in Nat, \A m \in Nat : m < n => m \in Good PROVE n \in Good
    <2> SUFFICES ASSUME NEW w \in Work(docs), Size(w) = n PROVE IsSteps(f[w])
        OBVIOUS
    <2>1. CASE w[2] = {}
        <3>1. f[w] = << >>
            BY <1>0, <2>1 DEF Goes
        <3> QED
            BY <3>1, NothingBeside, One
    <2>2. CASE w[2] # {}
        <3> DEFINE here == IF Matched(FirstBlock(w)) THEN <<<<w[1], First(w[2])>>>>
                           ELSE IF Resolves(docs, FirstBlock(w), w[3]) THEN f[Section(w)]
                           ELSE << >>
        <3>1. f[w] = here \o f[Others(w)]
            BY <1>0, <2>2, Zenon DEF Goes
        <3>2. ASSUME NEW u \in Work(docs), Size(u) < Size(w) PROVE IsSteps(f[u])
            <4>1. Size(u) \in Nat
                BY SizeIs
            <4>2. Size(u) \in Good
                BY <1>1, <3>2, <4>1
            <4> QED
                BY <4>2
        <3>3. IsSteps(f[Others(w)])
            BY <2>2, <3>2, OthersSmaller
        <3>4. Resolves(docs, FirstBlock(w), w[3]) => IsSteps(f[Section(w)])
            BY <2>2, <3>2, SectionSmaller
        <3>5. IsSteps(<< >>) /\ IsSteps(<<<<w[1], First(w[2])>>>>)
            BY NothingBeside, One
        <3>6. IsSteps(here)
            BY <3>4, <3>5
        <3> HIDE DEF here
        <3> QED
            BY <3>1, <3>3, <3>6, Catenate
    <2> QED
        BY <2>1, <2>2
<1>2. Good \in SUBSET Nat /\ \A n \in Good : \A w \in Work(docs) : Size(w) = n => IsSteps(f[w])
    OBVIOUS
<1> HIDE DEF Good
<1>3. Good = Nat
    BY <1>1, <1>2, Descent
<1>4. Size(v) \in Nat
    BY SizeIs
<1> QED
    BY <1>2, <1>3, <1>4 DEF f

\* What a reference b brings when the sections K are being resolved.
SectionFlat(b, K) == Flat(b.path, SectionCandidates(docs[b.path], b.slug), K \cup {KeyOf(b)})

LEMMA FlatIsSteps ==
    ASSUME Docs, NEW p \in Paths, NEW I \in SUBSET DOMAIN docs[p], NEW K \in SUBSET Referenced
    PROVE  IsSteps(Flat(p, I, K))
BY WorkIs, FlattenGivesSteps DEF Flat

LEMMA FlatNone ==
    ASSUME Docs, NEW p \in Paths, NEW K \in SUBSET Referenced
    PROVE  Flat(p, {}, K) = << >>
<1> DEFINE w == <<p, {}, K>>
<1>1. w \in Work(docs) /\ w[2] = {}
    BY WorkIs
<1> HIDE DEF w
<1>2. Flatten(docs)[w] = << >>
    BY <1>1, FlattenAt DEF Goes
<1> QED
    BY <1>2 DEF Flat, w

LEMMA FlatFirst ==
    ASSUME Docs, NEW p \in Paths, NEW I \in SUBSET DOMAIN docs[p], I # {},
           NEW K \in SUBSET Referenced, NEW i, i = First(I), NEW b, b = docs[p][i]
    PROVE  /\ Matched(b) => Flat(p, I, K) = <<<<p, i>>>> \o Flat(p, Rest(I), K)
           /\ ~Matched(b) /\ Resolves(docs, b, K) =>
                 Flat(p, I, K) = SectionFlat(b, K) \o Flat(p, Rest(I), K)
           /\ ~Matched(b) /\ ~Resolves(docs, b, K) => Flat(p, I, K) = Flat(p, Rest(I), K)
<1> DEFINE w == <<p, I, K>>
<1>1. /\ w \in Work(docs) /\ w[1] = p /\ w[2] = I /\ w[3] = K
      /\ FirstBlock(w) = b /\ Others(w) = <<p, Rest(I), K>>
      /\ Section(w) = <<b.path, SectionCandidates(docs[b.path], b.slug), K \cup {KeyOf(b)}>>
    BY WorkIs DEF FirstBlock, Others, Section, SectionOf
<1> HIDE DEF w
<1> DEFINE f == Flatten(docs)
<1>2. f[w] = Goes(f, w)
    BY <1>1, FlattenAt
<1>3. /\ f[w] = Flat(p, I, K) /\ f[Others(w)] = Flat(p, Rest(I), K)
      /\ f[Section(w)] = SectionFlat(b, K)
    BY <1>1 DEF Flat, SectionFlat, w
<1>4. IsSteps(Flat(p, Rest(I), K))
    <2>1. Rest(I) \in SUBSET DOMAIN docs[p]
        BY FirstIs
    <2> QED
        BY <2>1, FlatIsSteps
<1> HIDE DEF f
<1>5. f[w] = (IF Matched(b) THEN <<<<p, i>>>>
              ELSE IF Resolves(docs, b, K) THEN f[Section(w)] ELSE << >>) \o f[Others(w)]
    BY <1>1, <1>2, Zenon DEF Goes
<1> QED
    BY <1>3, <1>4, <1>5, NothingBeside

\* A reference is refused unless the flattening reads its section.
LEMMA RefusedIs ==
    ASSUME Docs, NEW p \in Paths, NEW i \in DOMAIN docs[p], IsLink(docs[p][i])
    PROVE  Refused(docs[p][i]) = "nothing" <=> Resolves(docs, docs[p][i], Chain)
<1> DEFINE b == docs[p][i]
<1>1. b.path \in Paths => Cardinality(Named(docs[b.path], b.slug)) \in Nat
    <2> SUFFICES ASSUME b.path \in Paths PROVE Cardinality(Named(docs[b.path], b.slug)) \in Nat
        OBVIOUS
    <2>1. PICK q \in Paths : q = b.path
        OBVIOUS
    <2>2. PICK I : I = Named(docs[q], b.slug) /\ I \in SUBSET DOMAIN docs[q]
        BY DEF Named
    <2>3. Cardinality(I) \in Nat
        BY <2>2, BlocksFinite
    <2> QED
        BY <2>1, <2>2, <2>3
<1>2. \A n \in Nat : ~(n > 1) <=> n <= 1
    OBVIOUS
<1> HIDE DEF b
<1>3. IsLink(b)
    BY DEF b
<1>4. Refused(b) = "nothing" <=> Resolves(docs, b, Chain)
    <2>1. CASE b.path \in Paths
        <3>1. PICK c \in Nat : c = Cardinality(Named(docs[b.path], b.slug))
            BY <1>1, <2>1
        <3>2. c > 1 <=> ~(c <= 1)
            OBVIOUS
        <3> QED
            BY <1>3, <2>1, <3>1, <3>2 DEF Refused, Resolves
    <2>2. CASE b.path \notin Paths
        BY <2>2 DEF Refused, Resolves
    <2> QED
        BY <2>1, <2>2
<1> QED
    BY <1>4 DEF b

--------------------------------------------------------------------------------
\* A call has spliced in what it owes to the outline, but for what the call on top of it
\* has still to return and for the candidates left.
KeysTo(fs, j) == {fs[l].key : l \in 1 .. j}
Goal(fs, j) ==
    Flat(fs[j].path, SectionCandidates(docs[fs[j].path], fs[j].key[2]), KeysTo(fs, j))
Rem(fs, j) == Flat(fs[j].path, fs[j].left, KeysTo(fs, j))
Owes(fs, j) == IF j < Len(fs) THEN Goal(fs, j + 1) \o Rem(fs, j) ELSE Rem(fs, j)
CallsFlat(fs) == \A j \in 1 .. Len(fs) : Goal(fs, j) = Spots(fs[j].out) \o Owes(fs, j)

LEMMA CallIs ==
    ASSUME IInv, Docs, NEW j \in 1 .. Len(frames)
    PROVE  /\ IsFrame(frames[j]) /\ frames[j].path \in Paths
           /\ frames[j].left \in SUBSET DOMAIN docs[frames[j].path]
           /\ KeysTo(frames, j) \in SUBSET Referenced
           /\ IsSteps(frames[j].out) /\ IsSteps(Spots(frames[j].out))
           /\ IsSteps(Goal(frames, j)) /\ IsSteps(Rem(frames, j))
<1>1. IsFrame(frames[j]) /\ Len(frames) \in Nat
    BY Under
<1>2. /\ frames[j].path \in Paths /\ IsSteps(frames[j].out)
      /\ frames[j].left \in SUBSET DOMAIN docs[frames[j].path]
    BY <1>1 DEF IsFrame, UnitSeq, SectionCandidates, Candidates
<1>3. KeysTo(frames, j) \in SUBSET Referenced
    <2>1. \A l \in 1 .. j : frames[l].key \in Referenced
        <3> SUFFICES ASSUME NEW l \in 1 .. j PROVE frames[l].key \in Referenced
            OBVIOUS
        <3>1. l \in 1 .. Len(frames)
            BY <1>1
        <3> QED
            BY <3>1, Under DEF IsFrame
    <2> QED
        BY <2>1 DEF KeysTo
<1>4. PICK p \in Paths : p = frames[j].path
    BY <1>2
<1>5. PICK I \in SUBSET DOMAIN docs[p] : I = frames[j].left
    BY <1>2, <1>4
<1>6. PICK J \in SUBSET DOMAIN docs[p] :
          J = SectionCandidates(docs[frames[j].path], frames[j].key[2])
    BY <1>4 DEF SectionCandidates, Candidates
<1>7. PICK K \in SUBSET Referenced : K = KeysTo(frames, j)
    BY <1>3
<1>8. IsSteps(Flat(p, I, K)) /\ IsSteps(Flat(p, J, K))
    BY FlatIsSteps
<1> QED
    BY <1>1, <1>2, <1>3, <1>4, <1>5, <1>6, <1>7, <1>8, SpotsAre DEF Goal, Rem

LEMMA ChainIs ==
    ASSUME IInv
    PROVE  Chain = KeysTo(frames, Len(frames))
BY Under DEF Chain, KeysTo

\* Another call in the place of the n-th, and none above it.
LEMMA KeysReplaced ==
    ASSUME IInv, NEW n \in 1 .. Len(frames), NEW g, g.key = frames[n].key,
           g.path = frames[n].path, NEW fs, Replaced(fs, n, g)
    PROVE  \A j \in 1 .. n : KeysTo(fs, j) = KeysTo(frames, j) /\ Goal(fs, j) = Goal(frames, j)
<1>1. n \in Nat /\ Len(frames) \in Nat
    BY Under
<1>2. \A l \in 1 .. n : fs[l].key = frames[l].key /\ fs[l].path = frames[l].path
    <2> SUFFICES ASSUME NEW l \in 1 .. n
                 PROVE  fs[l].key = frames[l].key /\ fs[l].path = frames[l].path
        OBVIOUS
    <2>1. l = n \/ l \in 1 .. n - 1
        BY <1>1
    <2> QED
        BY <2>1 DEF Replaced
<1>3. \A j \in 1 .. n : \A l \in 1 .. j : l \in 1 .. n
    BY <1>1
<1>4. \A j \in 1 .. n : KeysTo(fs, j) = KeysTo(frames, j)
    <2> SUFFICES ASSUME NEW j \in 1 .. n PROVE KeysTo(fs, j) = KeysTo(frames, j)
        OBVIOUS
    <2>1. \A l \in 1 .. j : fs[l].key = frames[l].key
        BY <1>2, <1>3
    <2> QED
        BY <2>1 DEF KeysTo
<1> QED
    BY <1>2, <1>4 DEF Goal

\* The calls below the n-th owe what they owed.
LEMMA BelowOwes ==
    ASSUME IInv, NEW n \in 1 .. Len(frames), NEW g, g.key = frames[n].key,
           g.path = frames[n].path, NEW fs, Len(fs) \in Nat, Len(fs) >= n,
           \A m \in 1 .. n - 1 : fs[m] = frames[m], fs[n] = g,
           CallsFlat(frames),
           \A j \in 1 .. n : KeysTo(fs, j) = KeysTo(frames, j) /\ Goal(fs, j) = Goal(frames, j)
    PROVE  \A j \in 1 .. n - 1 : Goal(fs, j) = Spots(fs[j].out) \o Owes(fs, j)
<1> SUFFICES ASSUME NEW j \in 1 .. n - 1
             PROVE  Goal(fs, j) = Spots(fs[j].out) \o Owes(fs, j)
    OBVIOUS
<1>1. n \in Nat /\ Len(frames) \in Nat
    BY Under
<1>2. /\ j \in 1 .. n /\ j + 1 \in 1 .. n /\ j < Len(fs) /\ j < Len(frames)
      /\ j \in 1 .. Len(frames)
    BY <1>1
<1>3. fs[j] = frames[j]
    OBVIOUS
<1>4. Rem(fs, j) = Rem(frames, j)
    BY <1>2, <1>3 DEF Rem
<1>5. Owes(fs, j) = Owes(frames, j)
    BY <1>2, <1>4 DEF Owes
<1> QED
    BY <1>2, <1>3, <1>5 DEF CallsFlat

LEMMA TopReplaced ==
    ASSUME IInv, CallsFlat(frames), NEW n \in 1 .. Len(frames), NEW g,
           g.key = frames[n].key, g.path = frames[n].path, NEW fs, Replaced(fs, n, g),
           Goal(frames, n) = Spots(g.out) \o Flat(g.path, g.left, KeysTo(frames, n))
    PROVE  CallsFlat(fs)
<1>1. \A j \in 1 .. n : KeysTo(fs, j) = KeysTo(frames, j) /\ Goal(fs, j) = Goal(frames, j)
    BY KeysReplaced
<1>2. n \in Nat /\ n \in 1 .. n /\ Len(frames) \in Nat
    BY Under
<1>3. Len(fs) = n /\ fs[n] = g /\ \A m \in 1 .. n - 1 : fs[m] = frames[m]
    BY DEF Replaced
<1>4. \A j \in 1 .. n - 1 : Goal(fs, j) = Spots(fs[j].out) \o Owes(fs, j)
    <2>1. Len(fs) \in Nat /\ Len(fs) >= n
        BY <1>2, <1>3
    <2> QED
        BY <1>1, <1>3, <2>1, BelowOwes
<1>5. Owes(fs, n) = Flat(g.path, g.left, KeysTo(frames, n))
    BY <1>1, <1>2, <1>3 DEF Owes, Rem
<1>6. Goal(fs, n) = Spots(fs[n].out) \o Owes(fs, n)
    BY <1>1, <1>2, <1>3, <1>5
<1> QED
    <2>1. \A j \in 1 .. n : j = n \/ j \in 1 .. n - 1
        BY <1>2
    <2> QED
        BY <1>3, <1>4, <1>6, <2>1 DEF CallsFlat

LEMMA CallPushed ==
    ASSUME IInv, Docs, CallsFlat(frames), NEW n \in 1 .. Len(frames), NEW g,
           g.key = frames[n].key, g.path = frames[n].path, NEW fs, Replaced(fs, n, g),
           NEW f, f.path \in Paths, f.key \in Referenced, f.out = << >>,
           f.left = SectionCandidates(docs[f.path], f.key[2]),
           Goal(frames, n) = Spots(g.out)
                \o (Flat(f.path, f.left, KeysTo(frames, n) \cup {f.key})
                    \o Flat(g.path, g.left, KeysTo(frames, n)))
    PROVE  CallsFlat(Append(fs, f))
<1> DEFINE hs == Append(fs, f)
<1>1. n \in Nat /\ n \in 1 .. n /\ Len(frames) \in Nat
    BY Under
<1>2. Len(fs) = n /\ fs[n] = g /\ \A m \in 1 .. n - 1 : fs[m] = frames[m]
    BY DEF Replaced
<1>3. Len(hs) = n + 1 /\ hs[n + 1] = f /\ \A m \in 1 .. n : hs[m] = fs[m]
    BY <1>2, AppendedTo DEF Replaced
<1> HIDE DEF hs
<1>4. \A j \in 1 .. n : KeysTo(fs, j) = KeysTo(frames, j) /\ Goal(fs, j) = Goal(frames, j)
    BY KeysReplaced
<1>5. \A j \in 1 .. n : \A l \in 1 .. j : l \in 1 .. n
    BY <1>1
<1>6. \A j \in 1 .. n : KeysTo(hs, j) = KeysTo(frames, j) /\ Goal(hs, j) = Goal(frames, j)
    <2> SUFFICES ASSUME NEW j \in 1 .. n
                 PROVE  KeysTo(hs, j) = KeysTo(frames, j) /\ Goal(hs, j) = Goal(frames, j)
        OBVIOUS
    <2>1. KeysTo(hs, j) = KeysTo(fs, j)
        <3>1. \A l \in 1 .. j : hs[l].key = fs[l].key
            BY <1>3, <1>5
        <3> QED
            BY <3>1 DEF KeysTo
    <2>2. Goal(hs, j) = Goal(fs, j)
        BY <1>3, <2>1 DEF Goal
    <2> QED
        BY <1>4, <2>1, <2>2
<1>7. KeysTo(hs, n + 1) = KeysTo(frames, n) \cup {f.key}
    <2>1. KeysTo(hs, n + 1) = KeysTo(hs, n) \cup {hs[n + 1].key}
        <3>1. \A l : l \in 1 .. n + 1 <=> l \in 1 .. n \/ l = n + 1
            BY <1>1
        <3> QED
            BY <3>1 DEF KeysTo
    <2> QED
        BY <1>1, <1>3, <1>6, <2>1
<1>8. \A j \in 1 .. n - 1 : Goal(hs, j) = Spots(hs[j].out) \o Owes(hs, j)
    <2>1. \A m \in 1 .. n - 1 : m \in 1 .. n
        BY <1>1
    <2>2. Len(hs) \in Nat /\ Len(hs) >= n /\ hs[n] = g /\ \A m \in 1 .. n - 1 : hs[m] = frames[m]
        BY <1>1, <1>2, <1>3, <2>1
    <2> QED
        BY <1>6, <2>2, BelowOwes
<1>9. Goal(hs, n + 1) = Flat(f.path, f.left, KeysTo(frames, n) \cup {f.key})
    BY <1>3, <1>7 DEF Goal
<1>10. Goal(hs, n) = Spots(hs[n].out) \o Owes(hs, n)
    <2>1. Rem(hs, n) = Flat(g.path, g.left, KeysTo(frames, n))
        BY <1>1, <1>2, <1>3, <1>6 DEF Rem
    <2>2. n < Len(hs)
        BY <1>1, <1>3
    <2>3. Owes(hs, n) = Goal(hs, n + 1) \o Rem(hs, n)
        BY <2>2 DEF Owes
    <2>4. hs[n] = g /\ Goal(hs, n) = Goal(frames, n)
        BY <1>1, <1>2, <1>3, <1>6
    <2> QED
        BY <1>9, <2>1, <2>3, <2>4
<1>11. Goal(hs, n + 1) = Spots(hs[n + 1].out) \o Owes(hs, n + 1)
    <2>1. Owes(hs, n + 1) = Rem(hs, n + 1)
        BY <1>1, <1>3 DEF Owes
    <2>2. Rem(hs, n + 1) = Goal(hs, n + 1)
        BY <1>3, <1>7, <1>9 DEF Rem
    <2>3. IsSteps(Goal(hs, n + 1))
        <3>1. PICK K \in SUBSET Referenced : K = KeysTo(frames, n) \cup {f.key}
            BY CallIs
        <3>2. PICK p \in Paths : p = f.path
            OBVIOUS
        <3>3. PICK I \in SUBSET DOMAIN docs[p] : I = f.left
            BY <3>2 DEF SectionCandidates, Candidates
        <3>4. IsSteps(Flat(p, I, K))
            BY FlatIsSteps
        <3> QED
            BY <1>9, <3>1, <3>2, <3>3, <3>4
    <2>4. Spots(hs[n + 1].out) = << >>
        BY <1>3, SpotsNone
    <2> QED
        BY <2>1, <2>2, <2>3, <2>4, NothingBeside
<1>12. CallsFlat(hs)
    <2>1. \A j \in 1 .. n + 1 : j = n + 1 \/ j = n \/ j \in 1 .. n - 1
        BY <1>1
    <2> QED
        BY <1>3, <1>8, <1>10, <1>11, <2>1 DEF CallsFlat
<1> QED
    BY <1>12 DEF hs

\* What each step does with what the calls owe.
LEMMA SpotOf ==
    ASSUME NEW u, IsUnit(u), NEW x, StepPlaces(u.steps) = {x}
    PROVE  <<u.steps[1].doc, u.steps[1].at>> = x
<1>1. PICK S : u.steps \in Seq(S)
    BY DEF IsUnit, IsSteps
<1>2. 1 \in DOMAIN u.steps
    BY <1>1 DEF IsUnit
<1>3. <<u.steps[1].doc, u.steps[1].at>> \in StepPlaces(u.steps)
    BY <1>2 DEF StepPlaces
<1> QED
    BY <1>3

LEMMA SpotsAppended ==
    ASSUME NEW us, IsSteps(us), NEW u, IsUnit(u), NEW x, StepPlaces(u.steps) = {x}
    PROVE  Spots(Append(us, u)) = Spots(us) \o <<x>>
<1>1. Append(us, u) = us \o <<u>> /\ IsSteps(<<u>>)
    BY Appended, One
<1>2. Spots(<<u>>) = <<x>>
    <2> DEFINE y == <<u>>
    <2>1. IsSteps(y) /\ Len(y) = 1 /\ y[1] = u
        BY One
    <2> HIDE DEF y
    <2>2. IsSteps(Spots(y)) /\ Len(Spots(y)) = 1 /\ Spots(y)[1] = <<u.steps[1].doc, u.steps[1].at>>
        BY <2>1, SpotsAre
    <2>3. Spots(y)[1] = x
        BY <2>2, SpotOf
    <2> DEFINE a == Spots(y)  c == <<x>>
    <2>4. IsSteps(c) /\ Len(c) = 1 /\ c[1] = x
        BY One
    <2> HIDE DEF a, c
    <2>5. IsSteps(a) /\ Len(a) = 1 /\ a[1] = x
        BY <2>2, <2>3 DEF a
    <2>6. \A k \in 1 .. Len(a) : a[k] = c[k]
        <3>1. \A k \in 1 .. Len(a) : k = 1
            BY <2>5
        <3> QED
            BY <2>4, <2>5, <3>1
    <2>7. a = c
        BY <2>4, <2>5, <2>6, Alike
    <2> QED
        BY <2>7 DEF a, c, y
<1> QED
    BY <1>1, <1>2, SpotsJoined

\* The innermost call owes the candidates that it has left.
LEMMA DeepestOwes ==
    ASSUME IInv, Docs, CallsFlat(frames), frames # << >>
    PROVE  LET n == Len(frames) IN
           /\ n \in 1 .. n /\ n \in Nat /\ Deepest = frames[n]
           /\ Goal(frames, n) = Spots(Deepest.out) \o Flat(Deepest.path, Deepest.left, Chain)
           /\ IsFrame(Deepest) /\ Deepest.path \in Paths
           /\ Deepest.left \in SUBSET DOMAIN docs[Deepest.path]
           /\ Chain \in SUBSET Referenced
           /\ IsSteps(Deepest.out) /\ IsSteps(Spots(Deepest.out))
<1> DEFINE n == Len(frames)
<1>1. n \in 1 .. n /\ n \in Nat /\ Deepest = frames[n]
    BY Under DEF Deepest
<1>2. Chain = KeysTo(frames, n)
    BY ChainIs
<1>3. Owes(frames, n) = Flat(Deepest.path, Deepest.left, Chain)
    BY <1>1, <1>2 DEF Owes, Rem
<1> QED
    BY <1>1, <1>2, <1>3, CallIs DEF CallsFlat

LEMMA SpliceCandidateOwes ==
    ASSUME IInv, Docs, CallsFlat(frames), NEW p, NEW i, SpliceCandidate(p, i)
    PROVE  CallsFlat(frames') /\ frames' # << >>
<1>1. InSection(p, i) /\ ~IsLink(docs[p][i])
    BY DEF SpliceCandidate
<1>2. /\ frames # << >> /\ p = Deepest.path /\ i = First(Deepest.left)
      /\ Deepest.left # {}
    BY <1>1, AtCandidate DEF InSection, Left
<1> DEFINE n == Len(frames)
<1>3. /\ n \in 1 .. n /\ n \in Nat /\ Deepest = frames[n]
      /\ Goal(frames, n) = Spots(Deepest.out) \o Flat(p, Deepest.left, Chain)
      /\ p \in Paths /\ Deepest.left \in SUBSET DOMAIN docs[p]
      /\ Chain \in SUBSET Referenced
      /\ IsSteps(Deepest.out) /\ IsSteps(Spots(Deepest.out))
    BY <1>2, DeepestOwes
<1>4. PICK g : /\ Replaced(frames', n, g)
               /\ g.key = Deepest.key /\ g.path = Deepest.path
               /\ g.left = Deepest.left \ {i}
               /\ Ran(Deepest.out) \subseteq Ran(g.out)
               /\ Matched(docs[p][i]) => <<p, i>> \in Ran(g.out)
               /\ ~Matched(docs[p][i]) => g.out = Deepest.out
               /\ Matched(docs[p][i]) =>
                     \E u : /\ g.out = Append(Deepest.out, u)
                            /\ IsUnit(u) /\ StepPlaces(u.steps) = {<<p, i>>}
    BY SpliceCandidateDoes
<1>5. Rest(Deepest.left) = g.left
    BY <1>2, <1>4 DEF Rest
<1>6. PICK I \in SUBSET DOMAIN docs[p] : I = Deepest.left
    BY <1>3
<1>7. ~Resolves(docs, docs[p][i], Chain)
    BY <1>1 DEF Resolves
<1>8. /\ Matched(docs[p][i]) => Flat(p, I, Chain) = <<<<p, i>>>> \o Flat(p, Rest(I), Chain)
      /\ ~Matched(docs[p][i]) => Flat(p, I, Chain) = Flat(p, Rest(I), Chain)
    BY <1>2, <1>3, <1>6, <1>7, FlatFirst
<1>9. IsSteps(Flat(p, Rest(I), Chain))
    <2>1. Rest(I) \in SUBSET DOMAIN docs[p]
        BY DEF Rest
    <2> QED
        BY <1>3, <2>1, FlatIsSteps
<1>10. Goal(frames, n) = Spots(g.out) \o Flat(p, Rest(I), Chain)
    <2>1. CASE Matched(docs[p][i])
        <3>1. PICK u : /\ g.out = Append(Deepest.out, u)
                       /\ IsUnit(u) /\ StepPlaces(u.steps) = {<<p, i>>}
            BY <1>4, <2>1
        <3>2. Spots(g.out) = Spots(Deepest.out) \o <<<<p, i>>>>
            BY <1>3, <3>1, SpotsAppended
        <3>3. Goal(frames, n) = Spots(Deepest.out) \o (<<<<p, i>>>> \o Flat(p, Rest(I), Chain))
            BY <1>3, <1>6, <1>8, <2>1
        <3>4. IsSteps(<<<<p, i>>>>)
            BY One
        <3>5. Spots(Deepest.out) \o <<<<p, i>>>> \o Flat(p, Rest(I), Chain)
                  = Spots(Deepest.out) \o (<<<<p, i>>>> \o Flat(p, Rest(I), Chain))
            BY <1>3, <1>9, <3>4, Associate
        <3> QED
            BY <3>2, <3>3, <3>5
    <2>2. CASE ~Matched(docs[p][i])
        BY <1>3, <1>4, <1>6, <1>8, <2>2
    <2> QED
        BY <2>1, <2>2
<1>11. Chain = KeysTo(frames, n)
    BY ChainIs
<1>12. CallsFlat(frames')
    <2>1. /\ g.key = frames[n].key /\ g.path = frames[n].path
          /\ Goal(frames, n) = Spots(g.out) \o Flat(g.path, g.left, KeysTo(frames, n))
        BY <1>2, <1>3, <1>4, <1>5, <1>6, <1>10, <1>11
    <2> QED
        BY <1>3, <1>4, <2>1, TopReplaced
<1>13. frames' # << >>
    BY <1>3, <1>4 DEF Replaced
<1> QED
    BY <1>12, <1>13

LEMMA SpliceReferenceOwes ==
    ASSUME IInv, Docs, CallsFlat(frames), NEW p, NEW i, SpliceReference(p, i)
    PROVE  CallsFlat(frames') /\ frames' # << >>
<1>1. InSection(p, i) /\ IsLink(docs[p][i])
    BY DEF SpliceReference
<1>2. /\ frames # << >> /\ p = Deepest.path /\ i = First(Deepest.left)
      /\ Deepest.left # {} /\ p \in Paths /\ i \in DOMAIN docs[p]
    BY <1>1, AtCandidate DEF InSection, Left
<1> DEFINE n == Len(frames)  b == docs[p][i]
<1>3. /\ n \in 1 .. n /\ n \in Nat /\ Deepest = frames[n]
      /\ Goal(frames, n) = Spots(Deepest.out) \o Flat(p, Deepest.left, Chain)
      /\ Deepest.left \in SUBSET DOMAIN docs[p]
      /\ Chain \in SUBSET Referenced
      /\ IsSteps(Deepest.out) /\ IsSteps(Spots(Deepest.out))
    BY <1>2, DeepestOwes
<1>4. PICK fs, g :
          /\ Replaced(fs, n, g)
          /\ g.key = Deepest.key /\ g.path = Deepest.path
          /\ g.left = Deepest.left \ {i} /\ g.out = Deepest.out
          /\ \/ frames' = fs /\ Refused(b) # "nothing"
             \/ /\ frames' = Append(fs, Frame(p, i)) /\ Refused(b) = "nothing"
    BY SpliceReferenceDoes
<1>5. Rest(Deepest.left) = g.left
    BY <1>2, <1>4 DEF Rest
<1>6. PICK I \in SUBSET DOMAIN docs[p] : I = Deepest.left
    BY <1>3
<1>7. ~Matched(b)
    BY <1>1 DEF IsLink, Matched
<1>8. Refused(b) = "nothing" <=> Resolves(docs, b, Chain)
    BY <1>1, <1>2, RefusedIs
<1>9. /\ Resolves(docs, b, Chain) =>
             Flat(p, I, Chain) = SectionFlat(b, Chain) \o Flat(p, Rest(I), Chain)
      /\ ~Resolves(docs, b, Chain) => Flat(p, I, Chain) = Flat(p, Rest(I), Chain)
    BY <1>2, <1>3, <1>6, <1>7, FlatFirst
<1>10. Chain = KeysTo(frames, n)
    BY ChainIs
<1>11. g.key = frames[n].key /\ g.path = frames[n].path /\ g.path = p /\ g.left = Rest(I)
    BY <1>2, <1>3, <1>4, <1>5, <1>6
<1>12. CASE frames' = fs /\ Refused(b) # "nothing"
    <2>1. Goal(frames, n) = Spots(g.out) \o Flat(g.path, g.left, KeysTo(frames, n))
        BY <1>3, <1>4, <1>6, <1>8, <1>9, <1>10, <1>11, <1>12
    <2>2. CallsFlat(fs)
        BY <1>3, <1>4, <1>11, <2>1, TopReplaced
    <2>3. fs # << >>
        BY <1>3, <1>4 DEF Replaced
    <2> QED
        BY <1>12, <2>2, <2>3
<1>13. CASE frames' = Append(fs, Frame(p, i)) /\ Refused(b) = "nothing"
    <2> DEFINE f == Frame(p, i)
    <2>1. /\ f.key = KeyOf(b) /\ f.path = b.path /\ f.out = << >>
          /\ f.left = SectionCandidates(docs[b.path], b.slug)
        BY DEF Frame
    <2>2. f.key[2] = b.slug
        BY <2>1 DEF KeyOf, Key
    <2>3. f.path \in Paths /\ f.key \in Referenced
        BY <1>1, <1>2, <1>8, <1>13, <2>1, LinkIsReferenced DEF Resolves
    <2> HIDE DEF f
    <2>4. SectionFlat(b, Chain) = Flat(f.path, f.left, KeysTo(frames, n) \cup {f.key})
        BY <1>10, <2>1 DEF SectionFlat
    <2>5. Goal(frames, n) = Spots(g.out)
                \o (Flat(f.path, f.left, KeysTo(frames, n) \cup {f.key})
                    \o Flat(g.path, g.left, KeysTo(frames, n)))
        BY <1>3, <1>4, <1>6, <1>8, <1>9, <1>10, <1>11, <1>13, <2>4
    <2>6. f.left = SectionCandidates(docs[f.path], f.key[2])
        BY <2>1, <2>2
    <2>7. CallsFlat(Append(fs, f))
        BY <1>3, <1>4, <1>11, <2>1, <2>3, <2>5, <2>6, CallPushed
    <2>8. Len(Append(fs, f)) # 0 /\ Len(<< >>) = 0
        BY <1>3, <1>4, AppendedTo DEF Replaced
    <2> QED
        BY <1>13, <2>7, <2>8 DEF f
<1> QED
    BY <1>4, <1>12, <1>13

LEMMA ReturnInnerOwes ==
    ASSUME IInv, Docs, CallsFlat(frames), ReturnInner
    PROVE  CallsFlat(frames') /\ frames' # << >>
<1> DEFINE n == Len(frames)  m == n - 1
<1>1. n \in Nat /\ n > 1 /\ Deepest.left = {}
    BY ReturnInnerDoes
<1>2. PICK g : /\ Replaced(frames', n - 1, g)
               /\ g.key = frames[n - 1].key /\ g.path = frames[n - 1].path
               /\ g.left = frames[n - 1].left
               /\ g.out = frames[n - 1].out \o Deepest.out
    BY ReturnInnerDoes
<1>3. m \in 1 .. n /\ n \in 1 .. n /\ m \in Nat /\ m + 1 = n /\ m < n
    BY <1>1
<1>4. frames # << >>
    BY <1>1, Under
<1>5. /\ Deepest = frames[n] /\ Deepest.path \in Paths /\ Chain \in SUBSET Referenced
      /\ Goal(frames, n) = Spots(Deepest.out) \o Flat(Deepest.path, {}, Chain)
      /\ IsSteps(Deepest.out) /\ IsSteps(Spots(Deepest.out))
    BY <1>1, <1>4, DeepestOwes
<1>6. Flat(Deepest.path, {}, Chain) = << >>
    <2>1. PICK q \in Paths : q = Deepest.path
        BY <1>5
    <2> QED
        BY <1>5, <2>1, FlatNone
<1>7. Goal(frames, n) = Spots(Deepest.out)
    BY <1>5, <1>6, NothingBeside
<1>8. /\ IsSteps(frames[m].out) /\ IsSteps(Spots(frames[m].out)) /\ IsSteps(Rem(frames, m))
    BY <1>3, CallIs
<1>9. Goal(frames, m) = Spots(frames[m].out) \o (Goal(frames, n) \o Rem(frames, m))
    BY <1>3 DEF CallsFlat, Owes
<1>10. Spots(g.out) = Spots(frames[m].out) \o Spots(Deepest.out)
    <2>1. Spots(frames[m].out \o Deepest.out) = Spots(frames[m].out) \o Spots(Deepest.out)
        BY <1>5, <1>8, SpotsJoined
    <2> QED
        BY <1>2, <2>1
<1>11. Goal(frames, m) = Spots(g.out) \o Rem(frames, m)
    <2>1. PICK x, y, z : /\ x = Spots(frames[m].out) /\ y = Spots(Deepest.out)
                         /\ z = Rem(frames, m)
        OBVIOUS
    <2>2. IsSteps(x) /\ IsSteps(y) /\ IsSteps(z)
        BY <1>5, <1>8, <2>1
    <2>3. x \o y \o z = x \o (y \o z)
        BY <2>2, Associate
    <2> QED
        BY <1>7, <1>9, <1>10, <2>1, <2>3
<1>12. Rem(frames, m) = Flat(g.path, g.left, KeysTo(frames, m))
    BY <1>2 DEF Rem
<1>13. CallsFlat(frames')
    <2>1. /\ Goal(frames, m) = Spots(g.out) \o Flat(g.path, g.left, KeysTo(frames, m))
          /\ g.key = frames[m].key /\ g.path = frames[m].path /\ Replaced(frames', m, g)
        BY <1>2, <1>11, <1>12
    <2> HIDE DEF m
    <2> QED
        BY <1>3, <2>1, TopReplaced
<1>14. frames' # << >>
    BY <1>1, <1>2 DEF Replaced
<1> QED
    BY <1>13, <1>14

\* A reference of the host, resolved: its call owes the section.
LEMMA FirstCallOwes ==
    ASSUME Docs, NEW f, f.path \in Paths, f.key \in Referenced, f.out = << >>,
           f.left = SectionCandidates(docs[f.path], f.key[2])
    PROVE  CallsFlat(<<f>>)
<1> DEFINE fs == <<f>>
<1>1. Len(fs) = 1 /\ fs[1] = f
    BY One
<1> HIDE DEF fs
<1>2. Goal(fs, 1) = Rem(fs, 1)
    BY <1>1 DEF Goal, Rem
<1>3. Owes(fs, 1) = Rem(fs, 1)
    BY <1>1 DEF Owes
<1>4. IsSteps(Rem(fs, 1))
    <2>1. PICK p \in Paths : p = f.path
        OBVIOUS
    <2>2. PICK I \in SUBSET DOMAIN docs[p] : I = f.left
        BY <2>1 DEF SectionCandidates, Candidates
    <2>3. PICK K \in SUBSET Referenced : K = KeysTo(fs, 1)
        <3>1. \A l \in 1 .. 1 : l = 1
            OBVIOUS
        <3> QED
            BY <1>1, <3>1 DEF KeysTo
    <2>4. IsSteps(Flat(p, I, K))
        BY FlatIsSteps
    <2> QED
        BY <1>1, <2>1, <2>2, <2>3, <2>4 DEF Rem
<1>5. Goal(fs, 1) = Spots(fs[1].out) \o Owes(fs, 1)
    BY <1>1, <1>2, <1>3, <1>4, SpotsNone, NothingBeside
<1>6. CallsFlat(fs)
    <2>1. \A j \in 1 .. 1 : j = 1
        OBVIOUS
    <2> QED
        BY <1>1, <1>5, <2>1 DEF CallsFlat
<1> QED
    BY <1>6 DEF fs

LEMMA NoCallsFlat == CallsFlat(<< >>)
<1>1. Len(<< >>) = 0 /\ 1 .. 0 = {}
    OBVIOUS
<1> QED
    BY <1>1 DEF CallsFlat

\* What the calls owe is kept by every step, and the outermost call is that of a reference
\* that the flattening reads.
FlatInv ==
    /\ CallsFlat(frames)
    /\ frames # << >> => \A p \in host : Resolves(docs, docs[p][First(units)], {})

LEMMA CallsFlatStay ==
    ASSUME UNCHANGED docs, CallsFlat(frames')
    PROVE  CallsFlat(frames)'
BY DEF CallsFlat, Goal, Rem, Owes, KeysTo, Flat, Spots

LEMMA FlatStays ==
    ASSUME FlatInv, UNCHANGED <<docs, host, units>>, frames # << >>, CallsFlat(frames')
    PROVE  FlatInv'
<1>1. CallsFlat(frames)'
    BY CallsFlatStay
<1> QED
    BY <1>1 DEF FlatInv

LEMMA FlatWithoutCalls ==
    ASSUME UNCHANGED docs, frames' = << >>
    PROVE  FlatInv'
<1>1. CallsFlat(frames')
    BY NoCallsFlat
<1>2. CallsFlat(frames)'
    BY <1>1, CallsFlatStay
<1> QED
    BY <1>2 DEF FlatInv

LEMMA FlatStart == Init => FlatInv
BY NoCallsFlat DEF Init, FlatInv

LEMMA GroupReferenceOwes ==
    ASSUME StateInv, IInv, NEW p, NEW i, GroupReference(p, i)
    PROVE  FlatInv'
<1>1. /\ host = {p} /\ units # {} /\ i = First(units) /\ frames = << >> /\ IsLink(docs[p][i])
      /\ docs' = docs /\ host' = host
    BY DEF GroupReference, AtUnit, hostVars
<1>2. Docs
    BY DEF StateInv
<1> DEFINE b == docs[p][i]
<1>3. \/ frames' = << >>
      \/ frames' = Append(<< >>, Frame(p, i)) /\ Refused(b) = "nothing" /\ units' = units
    BY DEF GroupReference, Resolve, LeaveIfRefused
<1>4. CASE frames' = << >>
    BY <1>1, <1>4, FlatWithoutCalls
<1>5. CASE frames' = Append(<< >>, Frame(p, i)) /\ Refused(b) = "nothing" /\ units' = units
    <2>1. p \in Paths /\ i \in DOMAIN docs[p]
        BY <1>1, AtFirst
    <2>2. Chain = {}
        BY <1>1 DEF Chain
    <2>3. Resolves(docs, b, {})
        BY <1>1, <1>2, <1>5, <2>1, <2>2, RefusedIs
    <2> DEFINE f == Frame(p, i)
    <2>4. /\ f.key = KeyOf(b) /\ f.path = b.path /\ f.out = << >>
          /\ f.left = SectionCandidates(docs[b.path], b.slug)
        BY DEF Frame
    <2>5. f.key[2] = b.slug
        BY <2>4 DEF KeyOf, Key
    <2>6. f.path \in Paths /\ f.key \in Referenced
        BY <1>1, <2>1, <2>3, <2>4, LinkIsReferenced DEF Resolves
    <2> HIDE DEF f
    <2>7. f.left = SectionCandidates(docs[f.path], f.key[2])
        BY <2>4, <2>5
    <2>8. CallsFlat(<<f>>)
        BY <1>2, <2>4, <2>6, <2>7, FirstCallOwes
    <2>9. frames' = <<f>>
        BY <1>5 DEF f
    <2>10. CallsFlat(frames)'
        BY <1>1, <2>8, <2>9, CallsFlatStay
    <2>11. \A q \in host' : Resolves(docs', docs'[q][First(units')], {})
        BY <1>1, <1>5, <2>3
    <2> QED
        BY <2>10, <2>11 DEF FlatInv
<1> QED
    BY <1>3, <1>4, <1>5

LEMMA FlatStep == FlatInv /\ StateInv /\ IInv /\ [Next]_vars => FlatInv'
<1> SUFFICES ASSUME FlatInv, StateInv, IInv, [Next]_vars PROVE FlatInv'
    OBVIOUS
<1>0. Docs /\ CallsFlat(frames)
    BY DEF StateInv, FlatInv
<1>1. ASSUME NEW p \in Paths, StartPlan(p) PROVE FlatInv'
    <2>1. Idle
        BY <1>1 DEF StateInv, HostOK, StartPlan, None
    <2> QED
        BY <1>1, <2>1, FlatWithoutCalls DEF StartPlan, Idle
<1>2. ASSUME NEW p \in Paths, ReturnOuter(p) PROVE FlatInv'
    BY <1>2, FlatWithoutCalls DEF ReturnOuter
<1>3. ASSUME NEW p \in Paths, FinishPlan(p) PROVE FlatInv'
    BY <1>3, FlatWithoutCalls DEF FinishPlan
<1>4. ASSUME NEW p \in Paths, NEW i \in units,
             GroupSteps(p, i) \/ GroupRows(p, i) \/ GroupProse(p, i)
      PROVE  FlatInv'
    BY <1>4, FlatWithoutCalls DEF GroupSteps, GroupRows, GroupProse, AtUnit
<1>5. ASSUME NEW p \in Paths, NEW i \in units, GroupReference(p, i) PROVE FlatInv'
    BY <1>5, GroupReferenceOwes
<1>6. ASSUME NEW p \in Paths, NEW i \in Left, SpliceCandidate(p, i) PROVE FlatInv'
    <2>1. CallsFlat(frames')
        BY <1>0, <1>6, SpliceCandidateOwes
    <2>2. UNCHANGED <<docs, host, units>> /\ frames # << >>
        BY <1>6 DEF SpliceCandidate, hostVars, InSection, Left
    <2> QED
        BY <2>1, <2>2, FlatStays
<1>7. ASSUME NEW p \in Paths, NEW i \in Left, SpliceReference(p, i) PROVE FlatInv'
    <2>1. CallsFlat(frames')
        BY <1>0, <1>7, SpliceReferenceOwes
    <2>2. UNCHANGED <<docs, host, units>> /\ frames # << >>
        BY <1>7 DEF SpliceReference, hostVars, InSection, Left
    <2> QED
        BY <2>1, <2>2, FlatStays
<1>8. ASSUME NEW p \in Paths, NEW i \in DOMAIN docs[p], HoverReference(p, i) PROVE FlatInv'
    <2>1. Idle
        BY <1>8 DEF StateInv, HostOK, HoverReference, None
    <2> QED
        BY <1>8, <2>1, FlatWithoutCalls DEF HoverReference, Idle
<1>9. ASSUME ReturnInner PROVE FlatInv'
    <2>1. CallsFlat(frames')
        BY <1>0, <1>9, ReturnInnerOwes
    <2>2. UNCHANGED <<docs, host, units>> /\ frames # << >>
        BY <1>9 DEF ReturnInner, hostVars
    <2> QED
        BY <2>1, <2>2, FlatStays
<1>10. ASSUME NEW k \in hover, FinishHover(k) PROVE FlatInv'
    BY <1>10, FlatWithoutCalls DEF FinishHover
<1>11. CASE UNCHANGED vars
    <2>1. UNCHANGED <<docs, host, units, frames>>
        BY <1>11 DEF vars, hostVars
    <2>2. CallsFlat(frames')
        BY <1>0, <2>1
    <2> QED
        BY <2>1, <2>2, FlatStays, FlatWithoutCalls
<1> QED
    BY <1>1, <1>2, <1>3, <1>4, <1>5, <1>6, <1>7, <1>8, <1>9, <1>10, <1>11 DEF Next

\* The call that returns to the host has spliced in what its reference brings.
LEMMA OutermostBrings ==
    ASSUME StateInv, IInv, FlatInv, NEW p, ReturnOuter(p)
    PROVE  LET b == docs[p][First(units)] IN
           /\ host = {p} /\ units # {} /\ IsLink(b) /\ Resolves(docs, b, {})
           /\ SectionFlat(b, {}) = Spots(Deepest.out)
           /\ Deepest.out # << >> => PlacesOf(Spliced(Deepest).steps) = Spots(Deepest.out)
<1> DEFINE b == docs[p][First(units)]
<1>1. host = {p} /\ Len(frames) = 1 /\ Deepest.left = {} /\ Docs /\ OpenOK
    BY ReturnOuterDoes DEF StateInv
<1>2. frames # << >> /\ Deepest = frames[1] /\ 1 \in 1 .. Len(frames)
    BY <1>1, Under DEF Deepest
<1>3. /\ units # {} /\ IsLink(b) /\ frames[1].key = KeyOf(b)
    BY <1>1, <1>2, HostOf DEF Resolving
<1>4. Resolves(docs, b, {})
    BY <1>1, <1>2 DEF FlatInv
<1>5. /\ IsFrame(Deepest) /\ Deepest.path \in Paths /\ Chain \in SUBSET Referenced
      /\ Goal(frames, 1) = Spots(Deepest.out) \o Flat(Deepest.path, {}, Chain)
      /\ IsSteps(Deepest.out) /\ IsSteps(Spots(Deepest.out))
    BY <1>1, <1>2, DeepestOwes DEF FlatInv
<1>6. Flat(Deepest.path, {}, Chain) = << >>
    <2>1. PICK q \in Paths : q = Deepest.path
        BY <1>5
    <2> QED
        BY <1>1, <1>5, <2>1, FlatNone
<1>7. Goal(frames, 1) = Spots(Deepest.out)
    BY <1>5, <1>6, NothingBeside
<1>8. KeysTo(frames, 1) = {} \cup {KeyOf(b)}
    <2>1. \A l \in 1 .. 1 : l = 1
        OBVIOUS
    <2> QED
        BY <1>3, <2>1 DEF KeysTo
<1>9. Deepest.path = b.path /\ Deepest.key[2] = b.slug
    BY <1>2, <1>3, <1>5 DEF IsFrame, KeyOf, Key
<1> HIDE DEF b
<1>10. Goal(frames, 1) = SectionFlat(b, {})
    BY <1>2, <1>8, <1>9 DEF Goal, SectionFlat
<1>11. Deepest.out # << >> => PlacesOf(Spliced(Deepest).steps) = Spots(Deepest.out)
    <2> SUFFICES ASSUME Deepest.out # << >>
                 PROVE  PlacesOf(Spliced(Deepest).steps) = Spots(Deepest.out)
        OBVIOUS
    <2>1. Spliced(Deepest).steps = [j \in DOMAIN Deepest.out |-> Deepest.out[j].steps[1]]
        BY <1>5, SplicedIs DEF IsFrame
    <2>2. PICK us : us = Deepest.out
        OBVIOUS
    <2>3. PICK ss : ss = [j \in DOMAIN us |-> us[j].steps[1]]
        OBVIOUS
    <2>4. DOMAIN ss = DOMAIN us /\ \A j \in DOMAIN us : ss[j] = us[j].steps[1]
        BY <2>3
    <2>5. PlacesOf(ss) = Spots(us)
        BY <2>4 DEF PlacesOf, Spots
    <2> QED
        BY <2>1, <2>2, <2>3, <2>5
<1> QED
    BY <1>1, <1>3, <1>4, <1>7, <1>10, <1>11 DEF b

--------------------------------------------------------------------------------
\* What those of the places U of document p that are in A will bring, and a reference b.
Due(p, U, A) == Flat(p, U \cap A, {})
Brings(b) == SectionFlat(b, {})

\* The places of document p asked for, A, those under the slug s: what the examples
\* tell of them, and what the units left will, is what the outlines owe.
Tells(p, s, A) ==
    /\ A \in SUBSET DOMAIN docs[p]
    /\ \A i \in units : i \in A <=> IsUnder(Scope(docs[p], i), s)
    /\ Stepped(examples)
    /\ Flat(p, A, {}) = Told(Flushed, s) \o Due(p, units, A)

\* The open example is under s as the unit that may join it is.
Level(p, s) ==
    \A e \in open :
        units # {} /\ ~Delimited(docs[p], First(units)) =>
            (IsUnder(e.scope, s) <=> IsUnder(Scope(docs[p], First(units)), s))

LEMMA NextOwes ==
    ASSUME Docs, NEW p \in Paths, NEW U \in SUBSET DOMAIN docs[p], U # {},
           NEW A \in SUBSET DOMAIN docs[p], NEW i, i = First(U), NEW b, b = docs[p][i]
    PROVE  /\ IsSteps(Due(p, U, A)) /\ IsSteps(Due(p, Rest(U), A))
           /\ i \in A /\ Matched(b) => Due(p, U, A) = <<<<p, i>>>> \o Due(p, Rest(U), A)
           /\ i \in A /\ ~Matched(b) /\ Resolves(docs, b, {}) =>
                 Due(p, U, A) = Brings(b) \o Due(p, Rest(U), A)
           /\ i \in A /\ ~Matched(b) /\ ~Resolves(docs, b, {}) =>
                 Due(p, U, A) = Due(p, Rest(U), A)
           /\ i \notin A => Due(p, U, A) = Due(p, Rest(U), A)
<1>1. /\ i \in U /\ i \in DOMAIN docs[p] /\ \A j \in U : i <= j
      /\ Rest(U) = U \ {i} /\ Rest(U) \in SUBSET DOMAIN docs[p]
    BY FirstIs
<1>2. PICK I \in SUBSET DOMAIN docs[p] : I = U \cap A
    OBVIOUS
<1>3. PICK J \in SUBSET DOMAIN docs[p] : J = Rest(U) \cap A
    BY <1>1
<1>4. PICK K \in SUBSET Referenced : K = {}
    OBVIOUS
<1>5. IsSteps(Flat(p, I, K)) /\ IsSteps(Flat(p, J, K))
    BY FlatIsSteps
<1>6. i \notin A => I = J
    BY <1>1, <1>2, <1>3
<1>7. i \in A => I # {} /\ First(I) = i /\ Rest(I) = J
    <2> SUFFICES ASSUME i \in A PROVE I # {} /\ First(I) = i /\ Rest(I) = J
        OBVIOUS
    <2>1. i \in I
        BY <1>1, <1>2
    <2>2. First(I) \in I /\ First(I) \in DOMAIN docs[p] /\ \A j \in I : First(I) <= j
          /\ Rest(I) = I \ {First(I)}
        BY <2>1, FirstIs
    <2>3. DOMAIN docs[p] \subseteq Nat
        BY DEF Docs
    <2>4. First(I) = i
        <3>1. PICK f : f = First(I)
            OBVIOUS
        <3>2. f \in Nat /\ i \in Nat /\ f <= i /\ i <= f
            BY <1>1, <1>2, <2>1, <2>2, <2>3, <3>1
        <3> QED
            BY <3>1, <3>2
    <2>5. Rest(I) = J
        BY <1>1, <1>2, <1>3, <2>2, <2>4
    <2> QED
        BY <2>1, <2>4, <2>5
<1>8. ASSUME i \in A
      PROVE  /\ Matched(b) => Flat(p, I, K) = <<<<p, i>>>> \o Flat(p, J, K)
             /\ ~Matched(b) /\ Resolves(docs, b, K) =>
                   Flat(p, I, K) = SectionFlat(b, K) \o Flat(p, J, K)
             /\ ~Matched(b) /\ ~Resolves(docs, b, K) => Flat(p, I, K) = Flat(p, J, K)
    <2>1. I # {} /\ i = First(I) /\ Rest(I) = J
        BY <1>7, <1>8
    <2>2. /\ Matched(b) => Flat(p, I, K) = <<<<p, i>>>> \o Flat(p, Rest(I), K)
          /\ ~Matched(b) /\ Resolves(docs, b, K) =>
                Flat(p, I, K) = SectionFlat(b, K) \o Flat(p, Rest(I), K)
          /\ ~Matched(b) /\ ~Resolves(docs, b, K) => Flat(p, I, K) = Flat(p, Rest(I), K)
        BY <2>1, FlatFirst
    <2> QED
        BY <2>1, <2>2
<1>9. /\ Due(p, U, A) = Flat(p, I, K) /\ Due(p, Rest(U), A) = Flat(p, J, K)
      /\ Brings(b) = SectionFlat(b, K)
    BY <1>2, <1>3, <1>4 DEF Due, Brings
<1> QED
    BY <1>4, <1>5, <1>6, <1>8, <1>9

\* Closing the open example adds what it tells.
LEMMA FlushedTells ==
    ASSUME Stepped(examples), OpenOK, NEW s
    PROVE  Stepped(Flushed) /\ IsSteps(Told(Flushed, s))
<1>1. IsSteps(examples)
    BY DEF Stepped
<1>2. CASE open = None
    BY <1>1, <1>2, FlushedIs, ToldAre
<1>3. ASSUME NEW e, open = {e}, IsExample(e) PROVE Stepped(Flushed)
    <2>1. Flushed = Append(examples, e)
        BY <1>1, <1>3, FlushedIs
    <2> QED
        BY <1>3, <2>1, ToldAppended DEF IsExample
<1>4. Stepped(Flushed)
    BY <1>1, <1>2, <1>3, FlushedIs DEF OpenOK
<1> QED
    BY <1>4, ToldAre

LEMMA TakesTells ==
    ASSUME Stepped(examples), OpenOK, NEW p, NEW i, NEW own, NEW ts,
           Takes(p, i, own, ts), NEW s,
           \A e \in open : ~Delimited(docs[p], i) =>
               (IsUnder(e.scope, s) <=> IsUnder(Scope(docs[p], i), s))
    PROVE  /\ Stepped(examples') /\ IsSteps(ts)
           /\ IsUnder(Scope(docs[p], i), s) =>
                 Told(Flushed', s) = Told(Flushed, s) \o PlacesOf(ts)
           /\ ~IsUnder(Scope(docs[p], i), s) => Told(Flushed', s) = Told(Flushed, s)
<1>1. PICK o : /\ open' = {o} /\ IsExample(o) /\ IsSteps(ts)
               /\ \/ /\ ~Delimited(docs[p], i) /\ UNCHANGED examples
                     /\ \E e : /\ open = {e} /\ IsExample(e) /\ GoesOn(o, e, p, i, own)
                               /\ o.steps = e.steps \o ts
                  \/ /\ open = None \/ Delimited(docs[p], i)
                     /\ examples' = Flushed
                     /\ Opens(o, p, i, own) /\ o.steps = ts
    BY DEF Takes
<1>2. IsSteps(o.steps)
    BY <1>1 DEF IsExample
<1>3. Flushed' = Append(examples', o)
    BY <1>1 DEF Flushed, None
<1> DEFINE under == IsUnder(Scope(docs[p], i), s)
<1>4. CASE /\ ~Delimited(docs[p], i) /\ UNCHANGED examples
           /\ \E e : /\ open = {e} /\ IsExample(e) /\ GoesOn(o, e, p, i, own)
                     /\ o.steps = e.steps \o ts
    <2>1. PICK e : /\ open = {e} /\ IsExample(e) /\ GoesOn(o, e, p, i, own)
                   /\ o.steps = e.steps \o ts
        BY <1>4
    <2>2. IsSteps(e.steps) /\ Flushed = Append(examples, e)
        BY <2>1, FlushedIs DEF IsExample, Stepped
    <2>3. IsUnder(e.scope, s) <=> under
        BY <1>4, <2>1
    <2>4. IsUnder(o.scope, s) <=> under
        <3>1. o.scope = Scope(docs[p], i) \/ o.scope = e.scope
            BY <2>1 DEF GoesOn
        <3> QED
            BY <2>3, <3>1
    <2>5. PlacesOf(o.steps) = PlacesOf(e.steps) \o PlacesOf(ts)
        BY <1>1, <2>1, <2>2, PlacesJoined
    <2> HIDE DEF under
    <2>6. /\ under => Told(Append(examples, e), s) = Told(examples, s) \o PlacesOf(e.steps)
          /\ ~under => Told(Append(examples, e), s) = Told(examples, s)
        BY <2>2, <2>3, ToldAppended
    <2>7. /\ under => Told(Append(examples, o), s) = Told(examples, s) \o PlacesOf(o.steps)
          /\ ~under => Told(Append(examples, o), s) = Told(examples, s)
        BY <1>2, <2>4, ToldAppended
    <2>8. Told(examples, s) \o PlacesOf(e.steps) \o PlacesOf(ts)
              = Told(examples, s) \o (PlacesOf(e.steps) \o PlacesOf(ts))
        <3>1. IsSteps(Told(examples, s)) /\ IsSteps(PlacesOf(e.steps)) /\ IsSteps(PlacesOf(ts))
            BY <1>1, <2>2, ToldAre, PlacesAre
        <3> QED
            BY <3>1, Associate
    <2>9. under => Told(Append(examples, o), s) = Told(Append(examples, e), s) \o PlacesOf(ts)
        BY <2>5, <2>6, <2>7, <2>8
    <2> QED
        BY <1>1, <1>3, <1>4, <2>2, <2>6, <2>7, <2>9 DEF under
<1>5. CASE examples' = Flushed /\ Opens(o, p, i, own) /\ o.steps = ts
    <2>1. o.scope = Scope(docs[p], i)
        BY <1>5 DEF Opens
    <2>2. Stepped(Flushed)
        BY FlushedTells
    <2>3. /\ under => Told(Append(Flushed, o), s) = Told(Flushed, s) \o PlacesOf(o.steps)
          /\ ~under => Told(Append(Flushed, o), s) = Told(Flushed, s)
        BY <1>2, <2>1, <2>2, ToldAppended
    <2> QED
        BY <1>1, <1>3, <1>5, <2>2, <2>3
<1> QED
    BY <1>1, <1>4, <1>5

\* What each step tells.
LEMMA TellsBecome ==
    ASSUME NEW p, NEW s, NEW A, Tells(p, s, A), UNCHANGED docs, units' \subseteq units,
           Stepped(examples'),
           Flat(p, A, {}) = Told(Flushed', s) \o Due(p, units', A)
    PROVE  Tells(p, s, A)'
<1>1. A \in SUBSET DOMAIN docs'[p]
    BY DEF Tells
<1>2. \A i \in units' : i \in A <=> IsUnder(Scope(docs'[p], i), s)
    BY DEF Tells
<1>3. Flat(p, A, {})' = Flat(p, A, {})
    BY DEF Flat
<1>4. Due(p, units, A)' = Due(p, units', A)
    BY DEF Flat, Due
<1>5. Told(Flushed, s)' = Told(Flushed', s)
    BY DEF Told, PlacesOf, StepsUnder
<1>6. Stepped(examples)'
    BY DEF Stepped
<1> QED
    BY <1>1, <1>2, <1>3, <1>4, <1>5, <1>6 DEF Tells

LEMMA UnitsThere ==
    ASSUME StateInv, IInv, NEW p, host = {p}, units # {}
    PROVE  /\ Docs /\ p \in Paths /\ units \in SUBSET DOMAIN docs[p]
           /\ First(units) \in units /\ Rest(units) \subseteq units
           /\ First(units) \in DOMAIN docs[p]
BY AtFirst DEF IInv, UnitsOK, StateInv

LEMMA TellsTaken ==
    ASSUME StateInv, IInv, NEW p, host = {p}, units # {}, NEW s, NEW A, Tells(p, s, A),
           Level(p, s), UNCHANGED docs, units' = Rest(units), NEW own, NEW ts,
           Takes(p, First(units), own, ts),
           First(units) \in A =>
               Due(p, units, A) = PlacesOf(ts) \o Due(p, Rest(units), A)
    PROVE  Tells(p, s, A)'
<1>1. /\ Docs /\ p \in Paths /\ units \in SUBSET DOMAIN docs[p]
      /\ First(units) \in units /\ Rest(units) \subseteq units
    BY UnitsThere
<1>2. Stepped(examples) /\ OpenOK /\ A \in SUBSET DOMAIN docs[p]
    BY DEF Tells, StateInv
<1>3. PICK i : i = First(units)
    OBVIOUS
<1>4. PICK U \in SUBSET DOMAIN docs[p] : U = units
    BY <1>1
<1> DEFINE now == Due(p, U, A)  later == Due(p, Rest(U), A)
<1>5. IsSteps(later) /\ (i \notin A => now = later)
    <2>1. PICK b : b = docs[p][i]
        OBVIOUS
    <2>2. i = First(U) /\ U # {}
        BY <1>3, <1>4
    <2> QED
        BY <1>1, <1>2, <2>1, <2>2, NextOwes
<1>6. i \in A <=> IsUnder(Scope(docs[p], i), s)
    BY <1>1, <1>3 DEF Tells
<1>7. \A e \in open : ~Delimited(docs[p], i) =>
               (IsUnder(e.scope, s) <=> IsUnder(Scope(docs[p], i), s))
    BY <1>3 DEF Level
<1>8. /\ Stepped(examples') /\ IsSteps(ts)
      /\ i \in A => Told(Flushed', s) = Told(Flushed, s) \o PlacesOf(ts)
      /\ i \notin A => Told(Flushed', s) = Told(Flushed, s)
    <2>1. Takes(p, i, own, ts)
        BY <1>3
    <2>2. /\ Stepped(examples') /\ IsSteps(ts)
          /\ IsUnder(Scope(docs[p], i), s) =>
                 Told(Flushed', s) = Told(Flushed, s) \o PlacesOf(ts)
          /\ ~IsUnder(Scope(docs[p], i), s) => Told(Flushed', s) = Told(Flushed, s)
        BY <1>2, <1>7, <2>1, TakesTells
    <2> QED
        BY <1>6, <2>2
<1>9. IsSteps(Told(Flushed, s)) /\ IsSteps(PlacesOf(ts))
    BY <1>2, <1>8, FlushedTells, PlacesAre
<1>10. Told(Flushed, s) \o PlacesOf(ts) \o later = Told(Flushed, s) \o (PlacesOf(ts) \o later)
    BY <1>5, <1>9, Associate
<1>11. i \in A => now = PlacesOf(ts) \o later
    BY <1>3, <1>4
<1>12. Flat(p, A, {}) = Told(Flushed, s) \o now
    BY <1>4 DEF Tells
<1>13. units' = Rest(U)
    BY <1>4
<1> HIDE DEF now, later
<1>14. Flat(p, A, {}) = Told(Flushed', s) \o later
    BY <1>5, <1>8, <1>10, <1>11, <1>12
<1>15. Flat(p, A, {}) = Told(Flushed', s) \o Due(p, units', A)
    BY <1>13, <1>14 DEF later
<1> QED
    BY <1>1, <1>8, <1>15, TellsBecome

\* The unit brings nothing: what the examples tell stays as it is.
LEMMA TellsSkipped ==
    ASSUME StateInv, IInv, NEW p, host = {p}, units # {}, NEW s, NEW A, Tells(p, s, A),
           UNCHANGED docs, units' = Rest(units),
           Stepped(examples'), Told(Flushed', s) = Told(Flushed, s),
           First(units) \in A =>
               Due(p, units, A) = Due(p, Rest(units), A)
    PROVE  Tells(p, s, A)'
<1>1. /\ Docs /\ p \in Paths /\ units \in SUBSET DOMAIN docs[p]
      /\ First(units) \in units /\ Rest(units) \subseteq units
    BY UnitsThere
<1>2. A \in SUBSET DOMAIN docs[p]
    BY DEF Tells
<1>3. PICK i : i = First(units)
    OBVIOUS
<1>4. PICK U \in SUBSET DOMAIN docs[p] : U = units
    BY <1>1
<1>5. i \notin A => Due(p, U, A) = Due(p, Rest(U), A)
    <2>1. PICK b : b = docs[p][i]
        OBVIOUS
    <2>2. i = First(U) /\ U # {}
        BY <1>3, <1>4
    <2> QED
        BY <1>1, <1>2, <2>1, <2>2, NextOwes
<1>6. Due(p, units, A) = Due(p, units', A)
    BY <1>3, <1>4, <1>5
<1>7. Flat(p, A, {}) = Told(Flushed', s) \o Due(p, units', A)
    BY <1>6 DEF Tells
<1> QED
    BY <1>1, <1>7, TellsBecome

LEMMA TellsStay ==
    ASSUME NEW p, NEW s, NEW A, Tells(p, s, A), UNCHANGED <<docs, units, open, examples>>
    PROVE  Tells(p, s, A)'
<1>1. Flushed' = Flushed
    BY DEF Flushed
<1> QED
    BY <1>1, TellsBecome DEF Tells

LEMMA GroupStepsTells ==
    ASSUME StateInv, IInv, NEW p, NEW i, GroupSteps(p, i), NEW s, NEW A, Tells(p, s, A),
           Level(p, s)
    PROVE  Tells(p, s, A)'
<1>1. /\ host = {p} /\ units # {} /\ i = First(units) /\ Matched(docs[p][i])
      /\ docs' = docs /\ units' = Rest(units)
    BY DEF GroupSteps, AtUnit, NextUnit
<1>2. /\ Docs /\ p \in Paths /\ units \in SUBSET DOMAIN docs[p]
    BY <1>1, UnitsThere
<1>3. OpenOK /\ A \in SUBSET DOMAIN docs[p]
    BY DEF StateInv, Tells
<1> DEFINE ts == Unit(p, i).steps
<1>4. Takes(p, First(units), TRUE, ts)
    BY <1>1, <1>3, GroupStepsDoes
<1>5. PlacesOf(ts) = <<<<p, i>>>>
    <2>1. PICK t : t = <<[doc |-> p, at |-> i, docPath |-> None]>>
        OBVIOUS
    <2>2. DOMAIN t = 1 .. 1 /\ t[1].doc = p /\ t[1].at = i
        BY <2>1, One
    <2>3. PlacesOf(t) = <<<<p, i>>>>
        <3>1. IsSteps(t) /\ Len(t) = 1
            BY <2>1, One
        <3> DEFINE x == PlacesOf(t)  y == <<<<p, i>>>>
        <3>2. IsSteps(x) /\ Len(x) = 1 /\ \A k \in 1 .. 1 : x[k] = <<t[k].doc, t[k].at>>
            BY <3>1, PlacesAre
        <3>3. IsSteps(y) /\ Len(y) = 1 /\ y[1] = <<p, i>>
            BY One
        <3> HIDE DEF x, y
        <3>4. \A k \in 1 .. Len(x) : x[k] = y[k]
            <4>1. \A k \in 1 .. 1 : k = 1
                OBVIOUS
            <4> QED
                BY <2>2, <3>2, <3>3, <4>1
        <3>5. x = y
            BY <3>2, <3>3, <3>4, Alike
        <3> QED
            BY <3>5 DEF x, y
    <2>4. ts = t
        BY <2>1 DEF Unit
    <2> QED
        BY <2>3, <2>4
<1>6. i \in A => Due(p, units, A) = <<<<p, i>>>> \o Due(p, Rest(units), A)
    <2>1. PICK U \in SUBSET DOMAIN docs[p] : U = units
        BY <1>2
    <2>2. PICK b : b = docs[p][i]
        OBVIOUS
    <2>3. U # {} /\ i = First(U) /\ Matched(b)
        BY <1>1, <2>1, <2>2
    <2>4. i \in A /\ Matched(b) =>
              Due(p, U, A) = <<<<p, i>>>> \o Due(p, Rest(U), A)
        BY <1>2, <1>3, <2>2, <2>3, NextOwes
    <2> QED
        BY <2>1, <2>3, <2>4
<1> HIDE DEF ts
<1> QED
    BY <1>1, <1>4, <1>5, <1>6, TellsTaken

\* Rows have no step of the plan, and prose ends an example.
LEMMA GroupEndTells ==
    ASSUME StateInv, IInv, NEW p, NEW i, GroupRows(p, i) \/ GroupProse(p, i),
           NEW s, NEW A, Tells(p, s, A)
    PROVE  Tells(p, s, A)'
<1>1. /\ host = {p} /\ units # {} /\ i = First(units)
      /\ docs[p][i].kind \in {"rows", "prose", "ambiguous"}
      /\ docs' = docs /\ units' = Rest(units) /\ open' = None
    BY DEF GroupRows, GroupProse, AtUnit, NextUnit
<1>2. /\ Docs /\ p \in Paths /\ units \in SUBSET DOMAIN docs[p]
    BY <1>1, UnitsThere
<1>3. OpenOK /\ A \in SUBSET DOMAIN docs[p] /\ Stepped(examples)
    BY DEF StateInv, Tells
<1>4. Stepped(Flushed) /\ IsSteps(Told(Flushed, s))
    BY <1>3, FlushedTells
<1>5. Flushed' = examples'
    BY <1>1 DEF Flushed
<1>6. Stepped(examples') /\ Told(Flushed', s) = Told(Flushed, s)
    <2>1. CASE examples' = Flushed
        BY <1>4, <1>5, <2>1
    <2>2. ASSUME NEW e, e = RowsOf(p, i), examples' = Append(Flushed, e)
          PROVE  Stepped(examples') /\ Told(Flushed', s) = Told(Flushed, s)
        <3>1. e.steps = << >>
            BY <2>2 DEF RowsOf, Started
        <3>2. IsSteps(e.steps) /\ PlacesOf(e.steps) = << >>
            <4>1. IsSteps(<< >>)
                BY One, NothingBeside
            <4>2. DOMAIN << >> = {}
                OBVIOUS
            <4>3. PlacesOf(<< >>) = << >>
                BY <4>2 DEF PlacesOf
            <4> QED
                BY <3>1, <4>1, <4>3
        <3>3. /\ Stepped(Append(Flushed, e))
              /\ IsUnder(e.scope, s) =>
                    Told(Append(Flushed, e), s) = Told(Flushed, s) \o PlacesOf(e.steps)
              /\ ~IsUnder(e.scope, s) => Told(Append(Flushed, e), s) = Told(Flushed, s)
            BY <1>4, <3>2, ToldAppended
        <3>4. Told(Flushed, s) \o << >> = Told(Flushed, s)
            BY <1>4, NothingBeside
        <3> QED
            BY <1>5, <2>2, <3>2, <3>3, <3>4
    <2> QED
        BY <2>1, <2>2 DEF GroupRows, GroupProse
<1>7. i \in A => Due(p, units, A) = Due(p, Rest(units), A)
    <2>1. PICK U \in SUBSET DOMAIN docs[p] : U = units
        BY <1>2
    <2>2. PICK b : b = docs[p][i]
        OBVIOUS
    <2>3. U # {} /\ i = First(U) /\ ~Matched(b) /\ ~Resolves(docs, b, {})
        BY <1>1, <2>1, <2>2 DEF Matched, Resolves, IsLink
    <2>4. i \in A => Due(p, U, A) = Due(p, Rest(U), A)
        BY <1>2, <1>3, <2>2, <2>3, NextOwes
    <2> QED
        BY <2>1, <2>4
<1> QED
    BY <1>1, <1>6, <1>7, TellsSkipped

LEMMA GroupReferenceTells ==
    ASSUME StateInv, IInv, NEW p, NEW i, GroupReference(p, i), NEW s, NEW A, Tells(p, s, A)
    PROVE  Tells(p, s, A)'
<1>1. /\ host = {p} /\ units # {} /\ i = First(units) /\ IsLink(docs[p][i])
      /\ frames = << >> /\ docs' = docs /\ UNCHANGED <<open, examples>>
    BY DEF GroupReference, AtUnit
<1>2. /\ Docs /\ p \in Paths /\ units \in SUBSET DOMAIN docs[p] /\ i \in DOMAIN docs[p]
    BY <1>1, UnitsThere
<1>3. A \in SUBSET DOMAIN docs[p] /\ Stepped(examples)
    BY DEF Tells
<1>4. CASE Refused(docs[p][i]) = "nothing"
    <2>1. UNCHANGED units
        BY <1>4 DEF GroupReference, LeaveIfRefused
    <2> QED
        BY <1>1, <2>1, TellsStay
<1>5. CASE Refused(docs[p][i]) # "nothing"
    <2>1. units' = Rest(units)
        BY <1>5 DEF GroupReference, LeaveIfRefused, NextUnit
    <2>2. Flushed' = Flushed
        BY <1>1 DEF Flushed
    <2>3. Chain = {}
        BY <1>1 DEF Chain
    <2>4. ~Resolves(docs, docs[p][i], {})
        BY <1>1, <1>2, <1>5, <2>3, RefusedIs
    <2>5. PICK U \in SUBSET DOMAIN docs[p] : U = units
        BY <1>2
    <2>6. PICK b : b = docs[p][i]
        OBVIOUS
    <2>7. U # {} /\ i = First(U) /\ ~Matched(b) /\ ~Resolves(docs, b, {})
        BY <1>1, <2>4, <2>5, <2>6 DEF Matched, IsLink
    <2>8. i \in A => Due(p, U, A) = Due(p, Rest(U), A)
        BY <1>2, <1>3, <2>6, <2>7, NextOwes
    <2>9. Stepped(examples')
        BY <1>1, <1>3
    <2> QED
        BY <1>1, <2>1, <2>2, <2>5, <2>8, <2>9, TellsSkipped
<1> QED
    BY <1>4, <1>5

LEMMA ReturnOuterTells ==
    ASSUME StateInv, IInv, FlatInv, NEW p, ReturnOuter(p), NEW s, NEW A, Tells(p, s, A),
           Level(p, s)
    PROVE  Tells(p, s, A)'
<1> DEFINE i == First(units)
<1>1. /\ OpenOK /\ A \in SUBSET DOMAIN docs[p] /\ Stepped(examples)
    BY DEF StateInv, Tells
<1>2. /\ host = {p} /\ units' = Rest(units) /\ docs' = docs
      /\ \/ Deepest.out = << >> /\ UNCHANGED <<open, examples>>
         \/ /\ Deepest.out # << >>
            /\ Takes(p, i, FALSE, Spliced(Deepest).steps)
    BY <1>1, ReturnOuterDoes DEF ReturnOuter
<1>3. PICK b : b = docs[p][i]
    OBVIOUS
<1>4. /\ units # {} /\ IsLink(b) /\ Resolves(docs, b, {})
      /\ Brings(b) = Spots(Deepest.out)
      /\ Deepest.out # << >> => PlacesOf(Spliced(Deepest).steps) = Spots(Deepest.out)
    BY <1>3, OutermostBrings DEF Brings
<1>5. /\ Docs /\ p \in Paths /\ units \in SUBSET DOMAIN docs[p]
    BY <1>2, <1>4, UnitsThere
<1>6. PICK U \in SUBSET DOMAIN docs[p] : U = units
    BY <1>5
<1>7. /\ IsSteps(Due(p, Rest(U), A))
      /\ i \in A => Due(p, U, A) = Brings(b) \o Due(p, Rest(U), A)
    <2>1. PICK j : j = i
        OBVIOUS
    <2>2. U # {} /\ j = First(U) /\ ~Matched(b) /\ b = docs[p][j]
        BY <1>3, <1>4, <1>6, <2>1 DEF Matched, IsLink
    <2>3. IsSteps(Due(p, Rest(U), A))
        BY <1>1, <1>5, <2>2, NextOwes
    <2>4. j \in A /\ ~Matched(b) /\ Resolves(docs, b, {}) =>
              Due(p, U, A) = Brings(b) \o Due(p, Rest(U), A)
        <3>1. Docs /\ p \in Paths /\ A \in SUBSET DOMAIN docs[p]
            BY <1>1, <1>5
        <3>2. U \in SUBSET DOMAIN docs[p] /\ U # {} /\ j = First(U) /\ b = docs[p][j]
            BY <2>2
        <3> QED
            BY <3>1, <3>2, NextOwes
    <2> QED
        BY <1>4, <2>1, <2>2, <2>3, <2>4
<1>8. CASE Deepest.out = << >> /\ UNCHANGED <<open, examples>>
    <2>1. Flushed' = Flushed /\ Stepped(examples')
        BY <1>1, <1>8 DEF Flushed
    <2>2. i \in A => Due(p, U, A) = Due(p, Rest(U), A)
        BY <1>4, <1>7, <1>8, SpotsNone, NothingBeside
    <2> QED
        BY <1>2, <1>4, <1>6, <2>1, <2>2, TellsSkipped
<1>9. CASE Deepest.out # << >> /\ Takes(p, i, FALSE, Spliced(Deepest).steps)
    <2>1. i \in A =>
              Due(p, U, A) =
                  PlacesOf(Spliced(Deepest).steps) \o Due(p, Rest(U), A)
        BY <1>4, <1>7, <1>9
    <2> QED
        BY <1>2, <1>4, <1>6, <1>9, <2>1, TellsTaken
<1> QED
    BY <1>2, <1>8, <1>9

\* The open example is under the headings of the last unit that was grouped.
ScopesKept(p) ==
    LET own == Candidates(docs[p]) IN
    /\ units \subseteq own /\ InOrder(own, units)
    /\ \A e \in open : \A m \in own \ units :
          (\A j \in own \ units : j <= m) => e.scope = Scope(docs[p], m)

LEMMA LevelEverywhere ==
    ASSUME NEW p
    PROVE  Level(p, WholeFile)
BY DEF Level, IsUnder

LEMMA ScopeGoesOn ==
    ASSUME StateInv, IInv, NEW p, host = {p}, units # {}, ScopesKept(p),
           ~Delimited(docs[p], First(units)), NEW e \in open
    PROVE  e.scope = Scope(docs[p], First(units))
<1> DEFINE own == Candidates(docs[p])
<1>1. PICK i : i = First(units)
    OBVIOUS
<1>2. /\ Docs /\ p \in Paths /\ i \in units /\ i \in DOMAIN docs[p]
      /\ \A j \in units : i <= j
    BY <1>1, AtFirst DEF StateInv
<1>3. i > 1 /\ IsCandidate(docs[p][i - 1])
    BY <1>1 DEF Delimited
<1>4. DOMAIN docs[p] = 1 .. Len(docs[p]) /\ Len(docs[p]) \in Nat
    BY <1>2 DEF Docs
<1>5. i - 1 \in Nat /\ i - 1 \in own /\ i - 1 \notin units /\ (i - 1) + 1 = i
    BY <1>2, <1>3, <1>4 DEF Candidates
<1>6. \A j \in own \ units : j <= i - 1
    <2> SUFFICES ASSUME NEW j \in own \ units PROVE j <= i - 1
        OBVIOUS
    <2>1. j < i
        BY <1>2 DEF ScopesKept, InOrder
    <2>2. j \in Nat
        BY <1>4 DEF Candidates
    <2> QED
        BY <1>2, <1>4, <2>1, <2>2
<1>7. e.scope = Scope(docs[p], i - 1)
    BY <1>5, <1>6 DEF ScopesKept
<1>8. ~IsHeading(docs[p][i - 1])
    BY <1>3 DEF IsHeading, IsCandidate
<1>9. Open(docs[p], (i - 1) + 1) = Open(docs[p], i - 1)
    <2>1. PICK d : d = docs[p]
        OBVIOUS
    <2>2. PICK l \in Nat : l = i - 1
        BY <1>5
    <2>3. ~IsHeading(d[l])
        BY <1>8, <2>1, <2>2
    <2>4. Open(d, l + 1) = Open(d, l)
        BY <2>3, OpenStays
    <2> QED
        BY <2>1, <2>2, <2>4
<1>10. Scope(docs[p], i) = Scope(docs[p], i - 1)
    BY <1>5, <1>9 DEF Scope
<1> QED
    BY <1>1, <1>7, <1>10

LEMMA LevelHovered ==
    ASSUME StateInv, IInv, NEW p, host = {p}, ScopesKept(p), NEW s
    PROVE  Level(p, s)
BY ScopeGoesOn DEF Level

LEMMA LastGrouped ==
    ASSUME StateInv, IInv, NEW p, host = {p}, units # {}, ScopesKept(p)
    PROVE  LET own == Candidates(docs[p])  i == First(units) IN
           /\ Rest(units) \subseteq own /\ InOrder(own, Rest(units))
           /\ i \in own \ Rest(units)
           /\ \A m \in own \ Rest(units) : (\A j \in own \ Rest(units) : j <= m) => m = i
<1> DEFINE own == Candidates(docs[p])
<1>1. PICK i : i = First(units)
    OBVIOUS
<1>2. /\ Docs /\ p \in Paths /\ i \in units /\ i \in DOMAIN docs[p]
      /\ \A j \in units : i <= j
    BY <1>1, AtFirst DEF StateInv
<1>3. DOMAIN docs[p] = 1 .. Len(docs[p]) /\ Len(docs[p]) \in Nat
    BY <1>2 DEF Docs
<1>4. own \subseteq Nat /\ units \in SUBSET own /\ InOrder(own, units)
    BY <1>3 DEF Candidates, ScopesKept
<1>5. Rest(units) = units \ {i}
    BY <1>1 DEF Rest
<1> HIDE DEF own
<1>6. Gone(own, units, i)
    <2>1. PICK U \in SUBSET own : U = units
        BY <1>4
    <2>2. Gone(own, U, i)
        BY <1>2, <1>4, <2>1, UnitGone
    <2> QED
        BY <2>1, <2>2
<1>7. /\ InOrder(own, Rest(units))
      /\ \A m \in own \ Rest(units) : m = i \/ m < i
    BY <1>5, <1>6 DEF Gone
<1>8. i \in own \ Rest(units) /\ Rest(units) \subseteq own
    BY <1>2, <1>4, <1>5
<1>9. ASSUME NEW m \in own \ Rest(units), \A j \in own \ Rest(units) : j <= m PROVE m = i
    <2>1. i <= m /\ m \in Nat /\ i \in Nat
        BY <1>4, <1>8, <1>9
    <2> QED
        BY <1>7, <2>1
<1> QED
    BY <1>1, <1>7, <1>8, <1>9 DEF own

LEMMA ScopesTaken ==
    ASSUME StateInv, IInv, NEW p, host = {p}, units # {}, ScopesKept(p), UNCHANGED docs,
           units' = Rest(units), NEW own, NEW ts, Takes(p, First(units), own, ts)
    PROVE  ScopesKept(p)'
<1> DEFINE all == Candidates(docs[p])
<1>1. PICK i : i = First(units)
    OBVIOUS
<1>2. /\ Rest(units) \subseteq all /\ InOrder(all, Rest(units))
      /\ \A m \in all \ Rest(units) : (\A j \in all \ Rest(units) : j <= m) => m = i
    BY <1>1, LastGrouped
<1>3. PICK o : /\ open' = {o}
               /\ \/ /\ ~Delimited(docs[p], i)
                     /\ \E e : open = {e} /\ GoesOn(o, e, p, i, own)
                  \/ Opens(o, p, i, own)
    BY <1>1 DEF Takes
<1>4. o.scope = Scope(docs[p], i)
    <2>1. CASE Opens(o, p, i, own)
        BY <2>1 DEF Opens
    <2>2. CASE ~Delimited(docs[p], i) /\ \E e : open = {e} /\ GoesOn(o, e, p, i, own)
        <3>1. PICK e : open = {e} /\ GoesOn(o, e, p, i, own)
            BY <2>2
        <3>2. e.scope = Scope(docs[p], i)
            <4>1. e \in open
                BY <3>1
            <4> QED
                BY <1>1, <2>2, <4>1, ScopeGoesOn
        <3>3. o.scope = Scope(docs[p], i) \/ o.scope = e.scope
            BY <3>1 DEF GoesOn
        <3> QED
            BY <3>2, <3>3
    <2> QED
        BY <1>3, <2>1, <2>2
<1>5. Candidates(docs[p])' = all
    OBVIOUS
<1>6. \A e \in open' : \A m \in all \ units' :
          (\A j \in all \ units' : j <= m) => e.scope = Scope(docs'[p], m)
    BY <1>2, <1>3, <1>4
<1> HIDE DEF all
<1> QED
    BY <1>2, <1>5, <1>6 DEF ScopesKept, InOrder

LEMMA ScopesClosed ==
    ASSUME StateInv, IInv, NEW p, host = {p}, units # {}, ScopesKept(p), UNCHANGED docs,
           units' = Rest(units), open' = None
    PROVE  ScopesKept(p)'
<1> DEFINE all == Candidates(docs[p])
<1>1. Rest(units) \subseteq all /\ InOrder(all, Rest(units))
    BY LastGrouped
<1>2. Candidates(docs[p])' = all
    OBVIOUS
<1> HIDE DEF all
<1> QED
    BY <1>1, <1>2 DEF ScopesKept, InOrder, None

LEMMA ScopesStay ==
    ASSUME NEW p, ScopesKept(p), UNCHANGED <<docs, units, open>>
    PROVE  ScopesKept(p)'
BY DEF ScopesKept, InOrder

--------------------------------------------------------------------------------
\* The steps that the planning of a host goes through.
HostStep ==
    \/ \E q \in Paths :
          \/ ReturnOuter(q)
          \/ \E i \in units : \/ GroupSteps(q, i) \/ GroupRows(q, i)
                              \/ GroupProse(q, i) \/ GroupReference(q, i)
          \/ \E i \in Left : SpliceCandidate(q, i) \/ SpliceReference(q, i)
    \/ ReturnInner

LEMMA HostStepKeeps ==
    ASSUME HostStep
    PROVE  UNCHANGED <<docs, hostVars>> /\ diagnostics \subseteq diagnostics'
BY DEF HostStep, ReturnOuter, GroupSteps, GroupRows, GroupProse, GroupReference,
       SpliceCandidate, SpliceReference, ReturnInner, Resolve

LEMMA HostStepTells ==
    ASSUME StateInv, IInv, FlatInv, HostStep, NEW p, host = {p}, NEW s, NEW A,
           Tells(p, s, A), Level(p, s)
    PROVE  Tells(p, s, A)'
<1>1. ASSUME NEW q, ReturnOuter(q) PROVE Tells(p, s, A)'
    <2>1. q = p
        BY <1>1 DEF ReturnOuter
    <2> QED
        BY <1>1, <2>1, ReturnOuterTells
<1>2. ASSUME NEW q, NEW i, GroupSteps(q, i) PROVE Tells(p, s, A)'
    <2>1. q = p
        BY <1>2 DEF GroupSteps, AtUnit
    <2> QED
        BY <1>2, <2>1, GroupStepsTells
<1>3. ASSUME NEW q, NEW i, GroupRows(q, i) \/ GroupProse(q, i) PROVE Tells(p, s, A)'
    <2>1. q = p
        BY <1>3 DEF GroupRows, GroupProse, AtUnit
    <2> QED
        BY <1>3, <2>1, GroupEndTells
<1>4. ASSUME NEW q, NEW i, GroupReference(q, i) PROVE Tells(p, s, A)'
    <2>1. q = p
        BY <1>4 DEF GroupReference, AtUnit
    <2> QED
        BY <1>4, <2>1, GroupReferenceTells
<1>5. ASSUME NEW q, NEW i, SpliceCandidate(q, i) \/ SpliceReference(q, i)
      PROVE  Tells(p, s, A)'
    BY <1>5, TellsStay DEF SpliceCandidate, SpliceReference
<1>6. ASSUME ReturnInner PROVE Tells(p, s, A)'
    BY <1>6, TellsStay DEF ReturnInner
<1> QED
    BY <1>1, <1>2, <1>3, <1>4, <1>5, <1>6 DEF HostStep

LEMMA HostStepScopes ==
    ASSUME StateInv, IInv, HostStep, NEW p, host = {p}, ScopesKept(p), diagnostics' = {}
    PROVE  ScopesKept(p)'
<1>0. OpenOK
    BY DEF StateInv
<1>1. ASSUME NEW q, ReturnOuter(q) PROVE ScopesKept(p)'
    <2>1. q = p
        BY <1>1 DEF ReturnOuter
    <2>2. /\ units' = Rest(units) /\ Len(frames) = 1
          /\ Takes(p, First(units), FALSE, Spliced(Deepest).steps)
        BY <1>0, <1>1, <2>1, ReturnOuterDoes
    <2>3. docs' = docs
        BY <1>1 DEF ReturnOuter
    <2>4. frames # << >>
        BY <2>2, Under
    <2>5. units # {}
        BY <2>4, HostOf DEF Resolving
    <2> QED
        BY <2>2, <2>3, <2>5, ScopesTaken
<1>2. ASSUME NEW q, NEW i, GroupSteps(q, i) PROVE ScopesKept(p)'
    <2>1. q = p /\ units # {} /\ i = First(units) /\ units' = Rest(units) /\ docs' = docs
        BY <1>2 DEF GroupSteps, AtUnit, NextUnit
    <2>2. Takes(p, First(units), TRUE, Unit(p, i).steps)
        BY <1>0, <1>2, <2>1, GroupStepsDoes
    <2> QED
        BY <2>1, <2>2, ScopesTaken
<1>3. ASSUME NEW q, NEW i, GroupRows(q, i) \/ GroupProse(q, i) PROVE ScopesKept(p)'
    <2>1. units # {} /\ units' = Rest(units) /\ docs' = docs /\ open' = None
        BY <1>3 DEF GroupRows, GroupProse, AtUnit, NextUnit
    <2> QED
        BY <2>1, ScopesClosed
<1>4. ASSUME NEW q, NEW i, GroupReference(q, i) PROVE ScopesKept(p)'
    <2>1. UNCHANGED <<docs, units, open>>
        BY <1>4 DEF GroupReference, Resolve, LeaveIfRefused
    <2> QED
        BY <2>1, ScopesStay
<1>5. ASSUME NEW q, NEW i, SpliceCandidate(q, i) \/ SpliceReference(q, i)
      PROVE  ScopesKept(p)'
    BY <1>5, ScopesStay DEF SpliceCandidate, SpliceReference
<1>6. ASSUME ReturnInner PROVE ScopesKept(p)'
    BY <1>6, ScopesStay DEF ReturnInner
<1> QED
    BY <1>1, <1>2, <1>3, <1>4, <1>5, <1>6 DEF HostStep

\* What the examples under construction tell, of a plan and of a hover.
TellInv ==
    /\ hover = None => \A p \in host : Tells(p, WholeFile, OwnUnits(p))
    /\ \A k \in hover : \A p \in host :
          /\ p = k[1]
          /\ diagnostics = {} =>
                ScopesKept(p) /\ Tells(p, k[2], SectionCandidates(docs[p], k[2]))

\* What the finished ones tell is what the outlines owe.
PlansFlat ==
    \A p \in Planned :
        PlacesOf(StepsUnder(ExamplesOf(p), WholeFile)) = Flat(p, OwnUnits(p), {})

ShownFlat ==
    /\ hover = None => shown = None
    /\ \A k, l \in hover : k = l
    /\ diagnostics = {} =>
          \A k \in hover : \A ss \in shown :
              PlacesOf(ss) = Flat(k[1], SectionCandidates(docs[k[1]], k[2]), {})

LEMMA HostStepToldOn ==
    ASSUME TellInv, FlatInv, StateInv, IInv, HostStep
    PROVE  TellInv'
<1>1. docs' = docs /\ host' = host /\ hover' = hover /\ diagnostics \subseteq diagnostics'
    BY HostStepKeeps DEF hostVars, hoverVars
<1>2. ASSUME hover = None, NEW p \in host PROVE Tells(p, WholeFile, OwnUnits(p))'
    <2>1. host = {p}
        BY <1>2 DEF StateInv, HostOK, Idle, None
    <2>2. PICK A : A = OwnUnits(p)
        OBVIOUS
    <2>3. Tells(p, WholeFile, A)
        BY <1>2, <2>2 DEF TellInv
    <2>4. Tells(p, WholeFile, A)'
        BY <2>1, <2>3, HostStepTells, LevelEverywhere
    <2>5. OwnUnits(p)' = A
        BY <1>1, <2>2, OwnUnitsStay
    <2> QED
        BY <2>4, <2>5
<1>3. ASSUME NEW k \in hover, NEW p \in host
      PROVE  /\ p = k[1]
             /\ diagnostics' = {} =>
                   ScopesKept(p)' /\ Tells(p, k[2], SectionCandidates(docs[p], k[2]))'
    <2>1. host = {p}
        BY <1>3 DEF StateInv, HostOK, Idle, None
    <2>2. p = k[1]
        BY <1>3 DEF TellInv
    <2> SUFFICES ASSUME diagnostics' = {}
                 PROVE  ScopesKept(p)' /\ Tells(p, k[2], SectionCandidates(docs[p], k[2]))'
        BY <2>2
    <2>3. diagnostics = {}
        BY <1>1
    <2>4. PICK s : s = k[2]
        OBVIOUS
    <2>5. PICK A : A = SectionCandidates(docs[p], s)
        OBVIOUS
    <2>6. ScopesKept(p) /\ Tells(p, s, A)
        BY <1>3, <2>3, <2>4, <2>5 DEF TellInv
    <2>7. ScopesKept(p)'
        BY <2>1, <2>6, HostStepScopes
    <2>8. Tells(p, s, A)'
        BY <2>1, <2>6, HostStepTells, LevelHovered
    <2>9. SectionCandidates(docs[p], s)' = A
        BY <1>1, <2>5
    <2> QED
        BY <2>4, <2>7, <2>8, <2>9
<1> QED
    BY <1>1, <1>2, <1>3 DEF TellInv

LEMMA StartTells ==
    ASSUME Docs, NEW p \in Paths, NEW s, NEW A, A \in SUBSET DOMAIN docs[p], UNCHANGED docs,
           open' = None, examples' = << >>, A \subseteq units',
           \A i \in units' : i \in A <=> IsUnder(Scope(docs[p], i), s)
    PROVE  Tells(p, s, A)'
<1>1. Flushed' = << >>
    BY DEF Flushed
<1>2. Stepped(examples') /\ Told(Flushed', s) = << >>
    BY <1>1, ToldNone
<1>3. units' \cap A = A
    OBVIOUS
<1>4. IsSteps(Flat(p, A, {}))
    <2>1. PICK K \in SUBSET Referenced : K = {}
        OBVIOUS
    <2> QED
        BY <2>1, FlatIsSteps
<1>5. Flat(p, A, {}) = Told(Flushed', s) \o Due(p, units', A)
    BY <1>2, <1>3, <1>4, NothingBeside DEF Due
<1>6. Flat(p, A, {})' = Flat(p, A, {})
    BY DEF Flat
<1>7. Due(p, units, A)' = Due(p, units', A)
    BY DEF Flat, Due
<1>8. Told(Flushed, s)' = Told(Flushed', s)
    BY DEF Told, PlacesOf, StepsUnder
<1>9. Stepped(examples)'
    BY <1>2 DEF Stepped
<1> QED
    BY <1>5, <1>6, <1>7, <1>8, <1>9 DEF Tells

LEMMA StartPlanTells ==
    ASSUME StateInv, NEW p \in Paths, StartPlan(p)
    PROVE  TellInv'
<1>1. Idle
    BY DEF StateInv, HostOK, StartPlan, None
<1>2. /\ host' = {p} /\ hover = None /\ hover' = hover /\ docs' = docs
      /\ open' = None /\ examples' = << >> /\ units' = OwnUnits(p) /\ Docs
    BY <1>1 DEF StartPlan, Idle, hoverVars, OwnUnits, StateInv
<1>3. PICK A : A = OwnUnits(p)
    OBVIOUS
<1>4. A \in SUBSET DOMAIN docs[p]
    BY <1>3 DEF OwnUnits, Candidates
<1>5. \A i \in units' : i \in A <=> IsUnder(Scope(docs[p], i), WholeFile)
    BY <1>2, <1>3 DEF IsUnder
<1>6. Tells(p, WholeFile, A)'
    BY <1>2, <1>3, <1>4, <1>5, StartTells
<1>7. OwnUnits(p)' = A
    BY <1>2, <1>3, OwnUnitsStay
<1> QED
    BY <1>2, <1>6, <1>7 DEF TellInv, None

LEMMA HoverTells ==
    ASSUME StateInv, NEW p \in Paths, NEW i \in DOMAIN docs[p], HoverReference(p, i)
    PROVE  TellInv'
<1>1. Idle
    BY DEF StateInv, HostOK, HoverReference, None
<1>2. PICK b : b = docs[p][i]
    OBVIOUS
<1>3. /\ host' = {b.path} /\ hover' = {KeyOf(b)} /\ docs' = docs
      /\ open' = None /\ examples' = << >> /\ units' = Candidates(docs[b.path])
      /\ Refused(b) = "nothing" /\ Docs
    BY <1>1, <1>2 DEF HoverReference, Idle, Hovered, StateInv
<1>4. PICK q \in Paths : q = b.path
    BY <1>3 DEF Refused
<1>5. PICK s : s = b.slug
    OBVIOUS
<1>6. KeyOf(b)[1] = q /\ KeyOf(b)[2] = s
    BY <1>4, <1>5 DEF KeyOf, Key
<1>7. PICK A : A = SectionCandidates(docs[q], s)
    OBVIOUS
<1>8. A \in SUBSET DOMAIN docs[q] /\ A \subseteq units'
    BY <1>3, <1>4, <1>7 DEF SectionCandidates, Candidates
<1>9. \A j \in units' : j \in A <=> IsUnder(Scope(docs[q], j), s)
    BY <1>3, <1>4, <1>7 DEF IsUnder, SectionCandidates
<1>10. Tells(q, s, A)'
    BY <1>3, <1>8, <1>9, StartTells
<1>11. SectionCandidates(docs[q], s)' = A
    BY <1>3, <1>7
<1>12. ScopesKept(q)'
    BY <1>3, <1>4 DEF ScopesKept, InOrder, None
<1>13. hover' # None /\ \A k \in hover' : k[1] = q /\ k[2] = s
    BY <1>3, <1>6 DEF None
<1>14. \A r \in host' : r = q
    BY <1>3, <1>4
<1> QED
    BY <1>10, <1>11, <1>12, <1>13, <1>14 DEF TellInv

LEMMA TellStep == TellInv /\ FlatInv /\ StateInv /\ IInv /\ [Next]_vars => TellInv'
<1> SUFFICES ASSUME TellInv, FlatInv, StateInv, IInv, [Next]_vars PROVE TellInv'
    OBVIOUS
<1>1. ASSUME NEW p \in Paths, StartPlan(p) PROVE TellInv'
    BY <1>1, StartPlanTells
<1>2. ASSUME HostStep PROVE TellInv'
    BY <1>2, HostStepToldOn
<1>3. ASSUME host' = None PROVE TellInv'
    BY <1>3 DEF TellInv, None
<1>4. ASSUME NEW p \in Paths, NEW i \in DOMAIN docs[p], HoverReference(p, i) PROVE TellInv'
    BY <1>4, HoverTells
<1>5. CASE UNCHANGED vars
    <2>1. /\ docs' = docs /\ host' = host /\ hover' = hover /\ diagnostics' = diagnostics
          /\ units' = units /\ open' = open /\ examples' = examples
        BY <1>5 DEF vars, hostVars, hoverVars
    <2>2. ASSUME hover = None, NEW p \in host PROVE Tells(p, WholeFile, OwnUnits(p))'
        <3>1. PICK A : A = OwnUnits(p)
            OBVIOUS
        <3>2. Tells(p, WholeFile, A)
            BY <2>2, <3>1 DEF TellInv
        <3>3. Tells(p, WholeFile, A)'
            BY <2>1, <3>2, TellsStay
        <3>4. OwnUnits(p)' = A
            BY <2>1, <3>1, OwnUnitsStay
        <3> QED
            BY <3>3, <3>4
    <2>3. ASSUME NEW k \in hover, NEW p \in host
          PROVE  /\ p = k[1]
                 /\ diagnostics = {} =>
                       ScopesKept(p)' /\ Tells(p, k[2], SectionCandidates(docs[p], k[2]))'
        <3>1. p = k[1]
            BY <2>3 DEF TellInv
        <3> SUFFICES ASSUME diagnostics = {}
                     PROVE  ScopesKept(p)' /\ Tells(p, k[2], SectionCandidates(docs[p], k[2]))'
            BY <3>1
        <3>2. PICK s : s = k[2]
            OBVIOUS
        <3>3. PICK A : A = SectionCandidates(docs[p], s)
            OBVIOUS
        <3>4. ScopesKept(p) /\ Tells(p, s, A)
            BY <2>3, <3>2, <3>3 DEF TellInv
        <3>5. ScopesKept(p)' /\ Tells(p, s, A)'
            BY <2>1, <3>4, ScopesStay, TellsStay
        <3>6. SectionCandidates(docs[p], s)' = A
            BY <2>1, <3>3
        <3> QED
            BY <3>2, <3>5, <3>6
    <2> QED
        BY <2>1, <2>2, <2>3 DEF TellInv
<1>6. ASSUME NEW p \in Paths, FinishPlan(p) PROVE TellInv'
    BY <1>3, <1>6 DEF FinishPlan
<1>7. ASSUME NEW k \in hover, FinishHover(k) PROVE TellInv'
    BY <1>3, <1>7 DEF FinishHover
<1> QED
    BY <1>1, <1>2, <1>4, <1>5, <1>6, <1>7 DEF Next, HostStep

\* With no unit left, all has been told.
LEMMA AllTold ==
    ASSUME Docs, NEW p \in Paths, NEW s, NEW A, Tells(p, s, A), OpenOK, units = {}
    PROVE  Told(Flushed, s) = Flat(p, A, {})
<1>1. Due(p, units, A) = << >>
    <2>1. PICK K \in SUBSET Referenced : K = {}
        OBVIOUS
    <2>2. Flat(p, {}, K) = << >>
        BY FlatNone
    <2> QED
        BY <2>1, <2>2 DEF Due
<1>2. IsSteps(Told(Flushed, s))
    BY FlushedTells DEF Tells
<1> QED
    BY <1>1, <1>2, NothingBeside DEF Tells

LEMMA PlansFlatStay ==
    ASSUME PlansFlat, UNCHANGED <<docs, plans>>, Planned' \subseteq Planned
    PROVE  PlansFlat'
<1> SUFFICES ASSUME NEW p \in Planned'
             PROVE  (PlacesOf(StepsUnder(ExamplesOf(p), WholeFile)) = Flat(p, OwnUnits(p), {}))'
    BY DEF PlansFlat
<1>1. ExamplesOf(p)' = ExamplesOf(p)
    BY DEF ExamplesOf
<1>2. PICK es : es = ExamplesOf(p)
    OBVIOUS
<1>3. PICK A : A = OwnUnits(p)
    OBVIOUS
<1>4. PlacesOf(StepsUnder(es, WholeFile)) = Flat(p, A, {})
    BY <1>2, <1>3 DEF PlansFlat
<1>5. ExamplesOf(p)' = es /\ OwnUnits(p)' = A
    BY <1>1, <1>2, <1>3, OwnUnitsStay
<1>6. Flat(p, A, {})' = Flat(p, A, {})
    BY DEF Flat
<1> QED
    BY <1>4, <1>5, <1>6

LEMMA FinishedFlat ==
    ASSUME PlansFlat, TellInv, StateInv, NEW p \in Paths, FinishPlan(p)
    PROVE  PlansFlat'
<1>1. /\ host = {p} /\ units = {} /\ hover = None /\ docs' = docs
      /\ plans' = [plans EXCEPT ![p] = [examples |-> Flushed, diagnostics |-> diagnostics]]
    BY DEF FinishPlan
<1>2. PICK A : A = OwnUnits(p)
    OBVIOUS
<1>3. Tells(p, WholeFile, A)
    BY <1>1, <1>2 DEF TellInv
<1>4. Told(Flushed, WholeFile) = Flat(p, A, {})
    BY <1>1, <1>3, AllTold DEF StateInv
<1> SUFFICES ASSUME NEW q \in Planned'
             PROVE  (PlacesOf(StepsUnder(ExamplesOf(q), WholeFile)) = Flat(q, OwnUnits(q), {}))'
    BY DEF PlansFlat
<1>5. CASE q = p
    <2>1. PICK es : es = Flushed
        OBVIOUS
    <2>2. ExamplesOf(q)' = es /\ OwnUnits(q)' = A
        BY <1>1, <1>2, <1>5, <2>1, OwnUnitsStay DEF StateInv, ExamplesOf
    <2>3. PlacesOf(StepsUnder(es, WholeFile)) = Flat(q, A, {})
        BY <1>4, <1>5, <2>1 DEF Told
    <2>4. Flat(q, A, {})' = Flat(q, A, {})
        BY <1>1 DEF Flat
    <2> QED
        BY <2>2, <2>3, <2>4
<1>6. CASE q # p
    <2>1. q \in Planned
        BY <1>6 DEF FinishPlan, Planned
    <2>2. plans'[q] = plans[q]
        BY <1>1, <1>6, <2>1 DEF StateInv, Planned
    <2>3. PICK es : es = ExamplesOf(q)
        OBVIOUS
    <2>4. PICK B : B = OwnUnits(q)
        OBVIOUS
    <2>5. PlacesOf(StepsUnder(es, WholeFile)) = Flat(q, B, {})
        BY <2>1, <2>3, <2>4 DEF PlansFlat
    <2>6. ExamplesOf(q)' = es /\ OwnUnits(q)' = B
        BY <1>1, <2>2, <2>3, <2>4, OwnUnitsStay DEF ExamplesOf
    <2>7. Flat(q, B, {})' = Flat(q, B, {})
        BY <1>1 DEF Flat
    <2> QED
        BY <2>5, <2>6, <2>7
<1> QED
    BY <1>5, <1>6

LEMMA PlansFlatStep == PlansFlat /\ TellInv /\ StateInv /\ [Next]_vars => PlansFlat'
<1> SUFFICES ASSUME PlansFlat, TellInv, StateInv, [Next]_vars PROVE PlansFlat'
    OBVIOUS
<1>1. ASSUME NEW p \in Paths, StartPlan(p) PROVE PlansFlat'
    <2>1. host' = {p} /\ todo' = todo \ {p} /\ host = {} /\ UNCHANGED <<docs, plans>>
        BY <1>1 DEF StartPlan, None
    <2>2. Planned' \subseteq Planned
        BY <2>1 DEF Planned
    <2> QED
        BY <2>1, <2>2, PlansFlatStay
<1>2. ASSUME UNCHANGED <<docs, hostVars>> PROVE PlansFlat'
    <2>1. Planned' \subseteq Planned
        BY <1>2 DEF Planned, hostVars
    <2> QED
        BY <1>2, <2>1, PlansFlatStay DEF hostVars
<1>3. ASSUME NEW p \in Paths, FinishPlan(p) PROVE PlansFlat'
    BY <1>3, FinishedFlat
<1>4. ASSUME todo' = Paths PROVE PlansFlat'
    BY <1>4 DEF PlansFlat, Planned
<1>5. ASSUME NEW p \in Paths, NEW i \in DOMAIN docs[p], HoverReference(p, i)
      PROVE  PlansFlat'
    <2>1. todo' = Paths
        BY <1>5 DEF HoverReference
    <2> QED
        BY <1>4, <2>1
<1>6. ASSUME NEW k \in hover, FinishHover(k) PROVE PlansFlat'
    <2>1. hover # None
        BY <1>6 DEF None
    <2>2. todo' = Paths
        BY <1>6, <2>1 DEF FinishHover, StateInv, HoverOK
    <2> QED
        BY <1>4, <2>2
<1>7. ASSUME HostStep PROVE PlansFlat'
    BY <1>2, <1>7, HostStepKeeps
<1>8. CASE UNCHANGED vars
    BY <1>2, <1>8 DEF vars
<1> QED
    BY <1>1, <1>3, <1>5, <1>6, <1>7, <1>8 DEF Next, HostStep

LEMMA ShownStep == ShownFlat /\ TellInv /\ StateInv /\ IInv /\ [Next]_vars => ShownFlat'
<1> SUFFICES ASSUME ShownFlat, TellInv, StateInv, IInv, [Next]_vars PROVE ShownFlat'
    OBVIOUS
<1>1. ASSUME docs' = docs, hover' = hover, shown' = shown, diagnostics \subseteq diagnostics'
      PROVE  ShownFlat'
    <2> SUFFICES ASSUME diagnostics' = {}, NEW k \in hover, NEW ss \in shown
                 PROVE  (PlacesOf(ss) = Flat(k[1], SectionCandidates(docs[k[1]], k[2]), {}))'
        BY <1>1 DEF ShownFlat
    <2>1. diagnostics = {}
        BY <1>1
    <2>2. PICK q, s : q = k[1] /\ s = k[2]
        OBVIOUS
    <2>3. PlacesOf(ss) = Flat(q, SectionCandidates(docs[q], s), {})
        BY <2>1, <2>2 DEF ShownFlat
    <2>4. Flat(q, SectionCandidates(docs[q], s), {})'
              = Flat(q, SectionCandidates(docs[q], s), {})
        BY <1>1 DEF Flat
    <2> QED
        BY <2>2, <2>3, <2>4
<1>2. ASSUME hover' = None, shown' = None PROVE ShownFlat'
    BY <1>2 DEF ShownFlat, None
<1>3. ASSUME NEW p \in Paths, StartPlan(p) PROVE ShownFlat'
    <2>1. hover' = None /\ shown' = None
        BY <1>3 DEF StartPlan, hoverVars, ShownFlat
    <2> QED
        BY <1>2, <2>1
<1>4. ASSUME NEW p \in Paths, FinishPlan(p) PROVE ShownFlat'
    <2>1. hover' = None /\ shown' = None
        BY <1>4 DEF FinishPlan, hoverVars, ShownFlat
    <2> QED
        BY <1>2, <2>1
<1>5. ASSUME NEW p \in Paths, NEW i \in DOMAIN docs[p], HoverReference(p, i)
      PROVE  ShownFlat'
    <2>1. shown' = None /\ hover' # None /\ \A k, l \in hover' : k = l
        BY <1>5 DEF HoverReference, ShownFlat, None
    <2> QED
        BY <2>1 DEF ShownFlat, None
<1>6. ASSUME HostStep PROVE ShownFlat'
    BY <1>1, <1>6, HostStepKeeps DEF hostVars, hoverVars
<1>7. CASE UNCHANGED vars
    BY <1>1, <1>7 DEF vars, hostVars, hoverVars
<1>8. ASSUME NEW k \in hover, FinishHover(k) PROVE ShownFlat'
    <2>1. PICK q, s : q = k[1] /\ s = k[2]
        OBVIOUS
    <2>2. /\ host = {q} /\ units = {} /\ docs' = docs /\ hover' = hover
          /\ diagnostics' = diagnostics /\ shown' = {StepsUnder(Flushed, s)}
        BY <1>8, <2>1 DEF FinishHover
    <2>3. q \in Paths
        BY <2>2, HostOf
    <2>4. PICK A : A = SectionCandidates(docs[q], s)
        OBVIOUS
    <2>5. hover' # None
        BY <1>8, <2>2 DEF None
    <2>6. ASSUME diagnostics = {}, NEW l \in hover, NEW ss \in shown'
          PROVE  (PlacesOf(ss) = Flat(l[1], SectionCandidates(docs[l[1]], l[2]), {}))'
        <3>1. PICK r, t : r = l[1] /\ t = l[2]
            OBVIOUS
        <3>2. ss = StepsUnder(Flushed, s)
            BY <2>2, <2>6
        <3>3. Tells(q, s, A)
            BY <1>8, <2>1, <2>2, <2>4, <2>6 DEF TellInv
        <3>4. Told(Flushed, s) = Flat(q, A, {})
            BY <2>2, <2>3, <3>3, AllTold DEF StateInv
        <3>5. r = q /\ t = s
            BY <1>8, <2>1, <2>6, <3>1 DEF ShownFlat
        <3>6. PlacesOf(ss) = Flat(q, A, {})
            BY <3>2, <3>4 DEF Told
        <3>7. Flat(q, A, {})' = Flat(q, A, {}) /\ SectionCandidates(docs[q], s)' = A
            BY <2>2, <2>4 DEF Flat
        <3> QED
            BY <3>1, <3>5, <3>6, <3>7
    <2>7. \A l, m \in hover' : l = m
        BY <2>2 DEF ShownFlat
    <2> QED
        BY <2>2, <2>5, <2>6, <2>7 DEF ShownFlat
<1> QED
    BY <1>3, <1>4, <1>5, <1>6, <1>7, <1>8 DEF Next, HostStep

--------------------------------------------------------------------------------
\* Without a cycle, the section that is hovered on is not reached from within itself: it
\* makes no difference that it is being resolved.

\* The places I of document p refer to none of the sections X.
Clear(p, I, X) == \A i \in I : IsLink(docs[p][i]) => KeyOf(docs[p][i]) \notin X

\* Every section that leads to k, by way of T or at once, is in T.
LeadsTo(k, T) == \A j \in Resolvable : (\E l \in Within(j) : l \in T \cup {k}) => j \in T

BeingRead(w, k) == <<w[1], w[2], w[3] \cup {k}>>

LEMMA Unreached ==
    ASSUME Docs, NEW k \in Referenced, NEW T, LeadsTo(k, T),
           NEW v \in Work(docs), Clear(v[1], v[2], T \cup {k})
    PROVE  Flatten(docs)[v] = Flatten(docs)[BeingRead(v, k)]
<1> DEFINE f == Flatten(docs)
           Same(w) == Clear(w[1], w[2], T \cup {k}) => f[w] = f[BeingRead(w, k)]
           Good == {n \in Nat : \A w \in Work(docs) : Size(w) = n => Same(w)}
<1>0. \A w \in Work(docs) : f[w] = Goes(f, w)
    BY FlattenAt
<1> HIDE DEF f
<1>1. ASSUME NEW n \in Nat, \A m \in Nat : m < n => m \in Good PROVE n \in Good
    <2> SUFFICES ASSUME NEW w \in Work(docs), Size(w) = n, Clear(w[1], w[2], T \cup {k})
                 PROVE  f[w] = f[BeingRead(w, k)]
        OBVIOUS
    <2>1. PICK u : u = BeingRead(w, k)
        OBVIOUS
    <2>2. u[1] = w[1] /\ u[2] = w[2] /\ u[3] = w[3] \cup {k}
        BY <2>1 DEF BeingRead
    <2>3. /\ w[1] \in Paths /\ w[2] \in SUBSET DOMAIN docs[w[1]]
          /\ w[3] \in SUBSET Referenced /\ w = <<w[1], w[2], w[3]>>
        BY WorkHas
    <2>4. u \in Work(docs)
        <3>1. w[3] \cup {k} \in SUBSET Referenced
            BY <2>3
        <3> QED
            BY <2>1, <2>3, <3>1, WorkIs DEF BeingRead
    <2>5. f[w] = Goes(f, w) /\ f[u] = Goes(f, u)
        BY <1>0, <2>4
    <2>6. CASE w[2] = {}
        BY <2>1, <2>2, <2>5, <2>6 DEF Goes
    <2>7. CASE w[2] # {}
        <3>1. PICK b, i : i = First(w[2]) /\ b = docs[w[1]][i]
            OBVIOUS
        <3>2. FirstBlock(w) = b /\ FirstBlock(u) = b /\ First(u[2]) = i
            BY <2>2, <3>1 DEF FirstBlock
        <3>3. i \in w[2] /\ i \in DOMAIN docs[w[1]]
              /\ Rest(w[2]) \subseteq w[2]
            <4>1. PICK p \in Paths : p = w[1]
                BY <2>3
            <4>2. PICK I \in SUBSET DOMAIN docs[p] : I = w[2]
                BY <2>3, <4>1
            <4>3. I # {}
                BY <2>7, <4>2
            <4>4. First(I) \in I /\ First(I) \in DOMAIN docs[p] /\ Rest(I) = I \ {First(I)}
                BY <4>1, <4>3, FirstIs
            <4> QED
                BY <3>1, <4>1, <4>2, <4>4
        <3>4. ASSUME NEW x \in Work(docs), Size(x) < Size(w), Clear(x[1], x[2], T \cup {k})
              PROVE  f[x] = f[BeingRead(x, k)]
            <4>1. Size(x) \in Nat
                BY SizeIs
            <4>2. Size(x) \in Good
                BY <1>1, <3>4, <4>1
            <4> QED
                BY <3>4, <4>2
        <3>5. f[Others(w)] = f[Others(u)]
            <4>1. Others(w) \in Work(docs) /\ Size(Others(w)) < Size(w)
                BY <2>7, OthersSmaller
            <4>2. Others(w)[1] = w[1] /\ Others(w)[2] = Rest(w[2]) /\ Others(w)[3] = w[3]
                BY DEF Others
            <4>3. Clear(Others(w)[1], Others(w)[2], T \cup {k})
                BY <3>3, <4>2 DEF Clear
            <4>4. f[Others(w)] = f[BeingRead(Others(w), k)]
                BY <3>4, <4>1, <4>3
            <4>5. BeingRead(Others(w), k) = Others(u)
                BY <2>2, <4>2 DEF BeingRead, Others
            <4> QED
                BY <4>4, <4>5
        <3>6. IsLink(b) => KeyOf(b) \notin T \cup {k}
            BY <3>1, <3>3 DEF Clear
        <3>7. Resolves(docs, b, w[3]) <=> Resolves(docs, b, u[3])
            BY <2>2, <3>6 DEF Resolves
        <3>8. Resolves(docs, b, w[3]) => f[Section(w)] = f[Section(u)]
            <4> SUFFICES ASSUME Resolves(docs, b, w[3]) PROVE f[Section(w)] = f[Section(u)]
                OBVIOUS
            <4>1. Section(w) \in Work(docs) /\ Size(Section(w)) < Size(w)
                BY <2>7, <3>2, SectionSmaller
            <4>2. PICK q, A, c : q = b.path /\ A = SectionCandidates(docs[q], b.slug) /\ c = KeyOf(b)
                OBVIOUS
            <4>3. Section(w) = <<q, A, w[3] \cup {c}>> /\ Section(u) = <<q, A, w[3] \cup {k} \cup {c}>>
                BY <2>2, <3>2, <4>2 DEF Section, SectionOf
            <4>4. IsLink(b) /\ q \in Paths
                BY <4>2 DEF Resolves
            <4>5. c \in Resolvable /\ c \notin T /\ c[1] = q /\ c[2] = b.slug
                <5>1. c \in Referenced
                    BY <2>3, <3>1, <3>3, <4>2, <4>4, LinkIsReferenced
                <5> QED
                    BY <3>6, <4>2, <4>4, <5>1 DEF Resolvable, KeyOf, Key
            <4>6. \A l \in Within(c) : l \notin T \cup {k}
                BY <4>5 DEF LeadsTo
            <4>7. Clear(q, A, T \cup {k})
                BY <4>2, <4>5, <4>6 DEF Clear, Within
            <4>8. f[Section(w)] = f[BeingRead(Section(w), k)]
                BY <3>4, <4>1, <4>3, <4>7
            <4>9. BeingRead(Section(w), k) = <<q, A, w[3] \cup {c} \cup {k}>>
                BY <4>3 DEF BeingRead
            <4>10. w[3] \cup {c} \cup {k} = w[3] \cup {k} \cup {c}
                OBVIOUS
            <4> QED
                BY <4>3, <4>8, <4>9, <4>10
        <3>9. /\ f[w] = (IF Matched(b) THEN <<<<w[1], i>>>>
                         ELSE IF Resolves(docs, b, w[3]) THEN f[Section(w)]
                         ELSE << >>) \o f[Others(w)]
              /\ f[u] = (IF Matched(b) THEN <<<<u[1], i>>>>
                         ELSE IF Resolves(docs, b, u[3]) THEN f[Section(u)]
                         ELSE << >>) \o f[Others(u)]
            <4>1. u[2] # {}
                BY <2>2, <2>7
            <4>2. First(w[2]) = i
                BY <3>1
            <4>3. f[w] = (IF Matched(b) THEN <<<<w[1], i>>>>
                          ELSE IF Resolves(docs, b, w[3]) THEN f[Section(w)]
                          ELSE << >>) \o f[Others(w)]
                <5>1. f[w] = Goes(f, w)
                    BY <2>5
                <5>2. Goes(f, w) = (IF Matched(FirstBlock(w)) THEN <<<<w[1], First(w[2])>>>>
                                    ELSE IF Resolves(docs, FirstBlock(w), w[3]) THEN f[Section(w)]
                                    ELSE << >>) \o f[Others(w)]
                    BY <2>7, Zenon DEF Goes
                <5>3. FirstBlock(w) = b
                    BY <3>2
                <5> QED
                    BY <4>2, <5>1, <5>2, <5>3
            <4>4. f[u] = (IF Matched(b) THEN <<<<u[1], i>>>>
                          ELSE IF Resolves(docs, b, u[3]) THEN f[Section(u)]
                          ELSE << >>) \o f[Others(u)]
                BY <2>5, <3>2, <4>1, Zenon DEF Goes
            <4> QED
                BY <4>3, <4>4
        <3>10. f[w] = f[u]
            BY <2>2, <3>5, <3>7, <3>8, <3>9
        <3> QED
            BY <2>1, <3>10
    <2> QED
        BY <2>6, <2>7
<1>2. Good \in SUBSET Nat /\ \A n \in Good : \A w \in Work(docs) : Size(w) = n => Same(w)
    OBVIOUS
<1> HIDE DEF Good
<1>3. Good = Nat
    BY <1>1, <1>2, Descent
<1>4. Size(v) \in Nat
    BY SizeIs
<1>5. Same(v)
    BY <1>2, <1>3, <1>4
<1> QED
    BY <1>5 DEF f

\* The sections that lead to k.
Leading(k) == {j \in Resolvable : \A C \in SUBSET Resolvable : LeadsTo(k, C) => j \in C}

LEMMA LeadingLeads ==
    ASSUME NEW k
    PROVE  /\ LeadsTo(k, Leading(k))
           /\ \A j \in Leading(k) : \E l \in Within(j) : l \in Leading(k) \cup {k}
<1> DEFINE T == Leading(k)
<1>1. /\ T \in SUBSET Resolvable
      /\ \A C \in SUBSET Resolvable : LeadsTo(k, C) => T \subseteq C
      /\ \A j \in Resolvable :
            (\A C \in SUBSET Resolvable : LeadsTo(k, C) => j \in C) => j \in T
    BY DEF Leading
<1> HIDE DEF T
<1>2. LeadsTo(k, T)
    <2> SUFFICES ASSUME NEW j \in Resolvable, NEW l \in Within(j), l \in T \cup {k}
                 PROVE  j \in T
        BY DEF LeadsTo
    <2>1. ASSUME NEW C \in SUBSET Resolvable, LeadsTo(k, C) PROVE j \in C
        <3>1. l \in C \cup {k}
            BY <1>1, <2>1
        <3> QED
            BY <2>1, <3>1 DEF LeadsTo
    <2> QED
        BY <1>1, <2>1
<1>3. ASSUME NEW j \in T, \A l \in Within(j) : l \notin T \cup {k} PROVE FALSE
    <2> DEFINE C == T \ {j}
    <2>1. LeadsTo(k, C)
        <3> SUFFICES ASSUME NEW m \in Resolvable, NEW l \in Within(m), l \in C \cup {k}
                     PROVE  m \in C
            BY DEF LeadsTo
        <3>1. m \in T
            BY <1>2 DEF LeadsTo
        <3>2. m # j
            BY <1>3
        <3> QED
            BY <3>1, <3>2
    <2>2. C \in SUBSET Resolvable
        BY <1>1
    <2> QED
        BY <1>1, <2>1, <2>2
<1> QED
    BY <1>2, <1>3 DEF T

LEMMA HoveredUnreached ==
    ASSUME Docs, Acyclic, NEW k \in Resolvable
    PROVE  Flat(k[1], SectionCandidates(docs[k[1]], k[2]), {})
               = Flat(k[1], SectionCandidates(docs[k[1]], k[2]), {k})
<1>1. PICK T : T = Leading(k)
    OBVIOUS
<1>2. /\ LeadsTo(k, T) /\ T \in SUBSET Resolvable
      /\ \A j \in T : \E l \in Within(j) : l \in T \cup {k}
    <2>1. T \in SUBSET Resolvable
        BY <1>1 DEF Leading
    <2> QED
        BY <1>1, <2>1, LeadingLeads
<1>3. k \notin T
    <2> SUFFICES ASSUME k \in T PROVE FALSE
        OBVIOUS
    <2>1. \A j \in T : \E l \in T : l \in Within(j)
        BY <1>2
    <2> QED
        BY <1>2, <2>1 DEF Acyclic
<1>4. \A l \in Within(k) : l \notin T \cup {k}
    BY <1>2, <1>3 DEF LeadsTo
<1>5. PICK p \in Paths : p = k[1]
    BY DEF Resolvable
<1>6. PICK A \in SUBSET DOMAIN docs[p] : A = SectionCandidates(docs[k[1]], k[2])
    BY <1>5 DEF SectionCandidates, Candidates
<1>7. Clear(p, A, T \cup {k})
    BY <1>4, <1>5, <1>6 DEF Clear, Within
<1> DEFINE v == <<p, A, {}>>
<1>8. v \in Work(docs) /\ v[1] = p /\ v[2] = A /\ BeingRead(v, k) = <<p, A, {} \cup {k}>>
    BY WorkIs DEF BeingRead
<1> HIDE DEF v
<1>9. k \in Referenced
    BY DEF Resolvable
<1>10. Flatten(docs)[v] = Flatten(docs)[BeingRead(v, k)]
    BY <1>2, <1>7, <1>8, <1>9, Unreached
<1>11. {} \cup {k} = {k}
    OBVIOUS
<1>12. Flat(p, A, {}) = Flat(p, A, {k})
    BY <1>8, <1>10, <1>11 DEF Flat, v
<1> QED
    BY <1>5, <1>6, <1>12

\* A hover is on a section of the project.
HoverThere == hover \subseteq Resolvable

LEMMA HoverThereStep == HoverThere /\ [Next]_vars => HoverThere'
<1> SUFFICES ASSUME HoverThere, [Next]_vars PROVE HoverThere'
    OBVIOUS
<1>1. ASSUME docs' = docs, hover' = hover PROVE HoverThere'
    BY <1>1 DEF HoverThere, Resolvable, Referenced
<1>2. ASSUME NEW p \in Paths, NEW i \in DOMAIN docs[p], HoverReference(p, i)
      PROVE  HoverThere'
    <2>1. PICK b : b = docs[p][i]
        OBVIOUS
    <2>2. IsLink(b) /\ Refused(b) = "nothing" /\ hover' = {KeyOf(b)} /\ docs' = docs
        BY <1>2, <2>1 DEF HoverReference
    <2>3. KeyOf(b) \in Referenced /\ KeyOf(b)[1] \in Paths
        BY <2>1, <2>2, LinkIsReferenced DEF Refused, KeyOf, Key
    <2> QED
        BY <2>2, <2>3 DEF HoverThere, Resolvable, Referenced
<1>3. ASSUME NEW p \in Paths, StartPlan(p) \/ FinishPlan(p) PROVE HoverThere'
    BY <1>1, <1>3 DEF StartPlan, FinishPlan, hoverVars
<1>4. ASSUME HostStep PROVE HoverThere'
    BY <1>1, <1>4, HostStepKeeps DEF hostVars, hoverVars
<1>5. ASSUME NEW k \in hover, FinishHover(k) PROVE HoverThere'
    BY <1>1, <1>5 DEF FinishHover
<1>6. CASE UNCHANGED vars
    BY <1>1, <1>6 DEF vars, hostVars, hoverVars
<1> QED
    BY <1>2, <1>3, <1>4, <1>5, <1>6 DEF Next, HostStep

--------------------------------------------------------------------------------
LEMMA OwnAreStandalone ==
    ASSUME NEW p \in Paths
    PROVE  {i \in Candidates(docs[p]) : Standalone(p, i)} = OwnUnits(p)
<1> SUFFICES ASSUME NEW i \in Candidates(docs[p]) PROVE Standalone(p, i) <=> ~Consumed(p, i)
    BY DEF OwnUnits
<1>1. Consumed(p, i) => ~Standalone(p, i)
    BY ConsumedBy DEF Standalone, Resolvable
<1>2. ASSUME NEW k \in Referenced, k[1] = p, i \in SectionCandidates(docs[p], k[2])
      PROVE  Consumed(p, i)
    <2>1. PICK q \in Paths : k \in References(docs[q])
        BY DEF Referenced
    <2>2. PICK b : k = KeyOf(b)
        BY <2>1 DEF References
    <2>3. k = Key(p, k[2])
        BY <1>2, <2>2 DEF KeyOf, Key
    <2>4. k[2] \in Scope(docs[p], i) \cup {WholeFile}
        BY <1>2 DEF SectionCandidates
    <2> QED
        BY <2>3, <2>4 DEF Consumed
<1> QED
    BY <1>1, <1>2 DEF Standalone

ToldInv == IInv /\ StateInv /\ FlatInv /\ TellInv /\ PlansFlat /\ ShownFlat /\ HoverThere

LEMMA ToldAlways == Spec => []ToldInv
<1>1. Init => ToldInv
    <2> SUFFICES ASSUME Init PROVE ToldInv
        OBVIOUS
    <2>1. TellInv /\ PlansFlat
        BY DEF Init, TellInv, PlansFlat, Planned, None
    <2>2. ShownFlat /\ HoverThere
        BY DEF Init, ShownFlat, HoverThere, None
    <2> QED
        BY <2>1, <2>2, InitInv, StateInit, FlatStart DEF ToldInv
<1>2. ToldInv /\ [Next]_vars => ToldInv'
    BY StepInv, StateStep, FlatStep, TellStep, PlansFlatStep, ShownStep, HoverThereStep
       DEF ToldInv
<1> QED
    BY <1>1, <1>2, PTL DEF Spec

\* The steps of a plan are the flattening of the references of its oath, depth first and
\* in the order of the documents: in every project, with cycles, references to nothing and
\* ambiguous anchors in it, the loop over the candidates and the calls of resolveReference
\* come to the recursive definition, and every candidate that no reference has in its
\* section is planned where it stands.
THEOREM PlansAreDepthFirst == Spec => []DepthFirst
<1>1. ToldInv => DepthFirst
    <2> SUFFICES ASSUME PlansFlat, NEW p \in Planned
                 PROVE  PlacesOf(StepsUnder(ExamplesOf(p), WholeFile)) =
                            Flat(p, {i \in Candidates(docs[p]) : Standalone(p, i)}, {})
        BY DEF DepthFirst, ToldInv
    <2>1. p \in Paths
        BY DEF Planned
    <2> QED
        BY <2>1, OwnAreStandalone DEF PlansFlat
<1> QED
    BY <1>1, ToldAlways, PTL

\* A hover shows what its reference splices in: for every project without a cycle of
\* references, planning the document of the section as if nothing were referenced, and
\* keeping the examples under its heading, gives the same steps, in the same order, as
\* resolving the reference would.
THEOREM HoversShowTheSplice == Spec => []HoverShowsTheSplice
<1>1. ToldInv => HoverShowsTheSplice
    <2> SUFFICES ASSUME ShownFlat, HoverThere, StateInv, diagnostics = {}, Acyclic,
                        NEW k \in hover, NEW ss \in shown
                 PROVE  PlacesOf(ss) = Flat(k[1], SectionCandidates(docs[k[1]], k[2]), {k})
        BY DEF HoverShowsTheSplice, ToldInv
    <2>1. PlacesOf(ss) = Flat(k[1], SectionCandidates(docs[k[1]], k[2]), {})
        BY DEF ShownFlat
    <2>2. k \in Resolvable /\ Docs
        BY DEF HoverThere, StateInv
    <2>3. Flat(k[1], SectionCandidates(docs[k[1]], k[2]), {})
              = Flat(k[1], SectionCandidates(docs[k[1]], k[2]), {k})
        BY <2>2, HoveredUnreached
    <2> QED
        BY <2>1, <2>3
<1> QED
    BY <1>1, ToldAlways, PTL
================================================================================
