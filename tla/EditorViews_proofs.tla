-------------------------- MODULE EditorViews_proofs --------------------------
(***************************************************************************)
(* For any files, versions and languages of an editor.                      *)
(*                                                                         *)
(* The button that defines a step has the characters that are selected.     *)
(*                                                                         *)
(* A view that no replay is at holds what was asked of it or left in it     *)
(* last.  What the invariant adds: the keystrokes that a replay has left     *)
(* lead from the text as it is to the text asked for.  A plan does so for    *)
(* every choice of common characters, row by row between one and the next,   *)
(* and a keystroke leaves it to the others; and the caret stays in the text. *)
(***************************************************************************)
EXTENDS EditorViews, FiniteSetTheorems, SequenceTheorems, WellFoundedInduction, TLAPS

\* Selections are of the views, and what waits for the timer is selected, too.
SelectionsOK ==
    /\ DOMAIN anchor = Files /\ DOMAIN head = Files
    /\ settling # {} => settling = Selected(Oath)

IInv == SelectionsOK /\ ButtonFits

\* What a transaction in any view leaves of the selection, the timer and the button.
LEMMA DispatchFits ==
    ASSUME IInv, NEW f, NEW d, NEW a, NEW h, Dispatch(f, d, a, h)
    PROVE  IInv'
<1>1. DOMAIN anchor' = Files /\ DOMAIN head' = Files
    BY DEF Dispatch, IInv, SelectionsOK
<1>2. CASE f = Oath
    BY <1>1, <1>2 DEF Dispatch, Settling, IInv, SelectionsOK, ButtonFits
<1>3. CASE f # Oath
  <2>1. anchor'[Oath] = anchor[Oath] /\ head'[Oath] = head[Oath]
    BY <1>3, OathAssumption DEF Dispatch, IInv, SelectionsOK
  <2>2. Selected(Oath)' = Selected(Oath)
    BY <2>1 DEF Selected
  <2> QED
    BY <1>1, <1>3, <2>2 DEF Dispatch, IInv, SelectionsOK, ButtonFits
<1> QED
    BY <1>2, <1>3

\* Nothing moves the selection, and the timer and the button keep it or lose it.
LEMMA KeepingFits ==
    ASSUME IInv, UNCHANGED <<anchor, head>>, settling' \in {settling, {}},
           affordance' \in {affordance, settling, {}}
    PROVE  IInv'
<1>1. Selected(Oath)' = Selected(Oath)
    BY DEF Selected
<1> QED
    BY <1>1 DEF IInv, SelectionsOK, ButtonFits

LEMMA NextFits ==
    ASSUME IInv, [Next]_editorVars
    PROVE  IInv'
<1>1. CASE ClickVersion
  <2>1. PICK s :
           IF s.over THEN UNCHANGED <<doc, anchor, head, settling, affordance>>
           ELSE Dispatch(active, s.doc, s.head, s.head)
    BY <1>1 DEF ClickVersion
  <2> QED
    BY <2>1, DispatchFits, KeepingFits
<1>2. CASE Type
  <2>1. \E d, a, h : Dispatch(active, d, a, h)
    BY <1>2 DEF Type
  <2> QED
    BY <2>1, DispatchFits
<1>3. ASSUME NEW f \in Files, Tick(f)
      PROVE  IInv'
  <2>1. PICK s :
           IF s.over THEN UNCHANGED <<doc, anchor, head, settling, affordance>>
           ELSE Dispatch(f, s.doc, s.head, s.head)
    BY <1>3 DEF Tick
  <2> QED
    BY <2>1, DispatchFits, KeepingFits
<1>4. ASSUME NEW f \in Files, ShowFile(f)
      PROVE  IInv'
    BY <1>4, KeepingFits DEF ShowFile, view, define
<1>5. ASSUME NEW a, NEW h, Select(a, h)
      PROVE  IInv'
    BY <1>5, DispatchFits DEF Select
<1>6. CASE SelectionSettles
    BY <1>6, KeepingFits DEF SelectionSettles, view
<1>7. CASE Confirm \/ Escape
    BY <1>7, KeepingFits DEF Confirm, Escape, view
<1>8. CASE Answered
  <2>1. \E d, a, h : Dispatch(Steps, d, a, h)
    BY <1>8 DEF Answered
  <2> QED
    BY <2>1, DispatchFits
<1>9. ASSUME NEW l, SetLang(l)
      PROVE  IInv'
    BY <1>9, KeepingFits DEF SetLang, view, define
<1>10. CASE UNCHANGED editorVars
    BY <1>10, KeepingFits DEF editorVars, view, define
<1> QED
    BY <1>1, <1>2, <1>3, <1>4, <1>5, <1>6, <1>7, <1>8, <1>9, <1>10 DEF Next

\* Whatever is typed, replayed, selected or switched, and whenever the timer fires: the
\* button offers the characters selected (cm-generate-step.ts:205-235).
THEOREM ButtonAlwaysFits == Spec => []ButtonFits
<1>1. Init => IInv
    BY DEF Init, IInv, SelectionsOK, ButtonFits
<1>2. IInv => ButtonFits
    BY DEF IInv
<1> QED
    BY <1>1, <1>2, NextFits, PTL DEF Spec
--------------------------------------------------------------------------------
\* Numbers have a least one.
LEMMA Least ==
    ASSUME NEW T \in SUBSET Nat, T # {}
    PROVE  \E m \in T : \A n \in T : m <= n
<1> DEFINE U == {0 .. n : n \in T}
<1>1. U \subseteq FiniteSubsetsOf(Nat)
    <2>1. \A n \in Nat : 0 .. n \in SUBSET Nat /\ IsFiniteSet(0 .. n)
        BY FS_Interval
    <2> QED
        BY <2>1 DEF FiniteSubsetsOf
<1>2. \E x \in U : \A y \in U : ~(<<y, x>> \in StrictSubsetOrdering(Nat))
    <2>1. U # {}
        OBVIOUS
    <2> HIDE DEF U
    <2> QED
        BY <1>1, <2>1, WFMin, FS_StrictSubsetOrderingWellFounded
<1>3. PICK m \in T : \A n \in T : ~(<<0 .. n, 0 .. m>> \in StrictSubsetOrdering(Nat))
    BY <1>2
<1>4. ASSUME NEW n \in T, n < m PROVE FALSE
    <2>1. /\ 0 .. n \subseteq 0 .. m /\ m \notin 0 .. n /\ m \in 0 .. m
          /\ 0 .. n \subseteq Nat /\ 0 .. m \subseteq Nat
        BY <1>4, SMT
    <2>2. <<0 .. n, 0 .. m>> \in StrictSubsetOrdering(Nat)
        BY <2>1 DEF StrictSubsetOrdering
    <2> QED
        BY <1>3, <2>2
<1> QED
    BY <1>4

LEMMA Greatest ==
    ASSUME NEW l \in Nat, NEW T \in SUBSET (0 .. l), T # {}
    PROVE  \E m \in T : \A n \in T : n <= m
<1> DEFINE U == {l - n : n \in T}
<1>1. U \in SUBSET Nat /\ U # {}
    <2>1. PICK n : n \in T
        OBVIOUS
    <2>2. l - n \in U
        BY <2>1
    <2>3. \A m \in T : l - m \in Nat
        OBVIOUS
    <2> QED
        BY <2>2, <2>3
<1> HIDE DEF U
<1>2. PICK u \in U : \A v \in U : u <= v
    BY <1>1, Least
<1>3. PICK m \in T : u = l - m
    BY <1>2 DEF U
<1>4. ASSUME NEW n \in T PROVE n <= m
    <2>1. l - n \in U
        BY DEF U
    <2> QED
        BY <1>2, <1>3, <2>1
<1> QED
    BY <1>4

--------------------------------------------------------------------------------
\* Texts and the keystrokes that turn one into another.
Characters == STRING \cup {"x", "newline", "step"}
Texts == Seq(Characters)
Keystrokes ==
    [kind : {"delete"}, at : Nat] \cup [kind : {"insert"}, at : Nat, text : Characters]

\* A keystroke is in the text that it changes.
Fits(d, op) == op.at \in 0 .. IF op.kind = "insert" THEN Len(d) ELSE Len(d) - 1

\* T goes through the texts that the keystrokes ops make of d one after the other, e at last.
Through(T, d, ops, e) ==
    /\ T \in [0 .. Len(ops) -> Texts] /\ T[0] = d /\ T[Len(ops)] = e
    /\ \A i \in 1 .. Len(ops) : Fits(T[i - 1], ops[i]) /\ T[i] = Applied(T[i - 1], ops[i])
Makes(d, ops, e) == \E T : Through(T, d, ops, e)

LEMMA NothingMakes ==
    ASSUME NEW d \in Texts, NEW e
    PROVE  Makes(d, << >>, e) <=> d = e
<1>1. Len(<< >>) = 0
    OBVIOUS
<1>2. ASSUME d = e PROVE Makes(d, << >>, e)
    <2>1. Through([i \in 0 .. 0 |-> d], d, << >>, e)
        BY <1>1, <1>2 DEF Through
    <2> QED
        BY <2>1 DEF Makes
<1>3. ASSUME Makes(d, << >>, e) PROVE d = e
    BY <1>1, <1>3 DEF Makes, Through
<1> QED
    BY <1>2, <1>3

\* What the first keystroke leaves to the others.
LEMMA FirstMakes ==
    ASSUME NEW d, NEW e, NEW ops \in Seq(Keystrokes), ops # << >>, Makes(d, ops, e)
    PROVE  /\ Fits(d, ops[1]) /\ Applied(d, ops[1]) \in Texts
           /\ Makes(Applied(d, ops[1]), Tail(ops), e)
<1>1. PICK T : Through(T, d, ops, e)
    BY DEF Makes
<1> DEFINE U == [i \in 0 .. Len(ops) - 1 |-> T[i + 1]]
<1>2. /\ Len(ops) \in Nat /\ Len(ops) >= 1 /\ Tail(ops) \in Seq(Keystrokes)
      /\ Len(Tail(ops)) = Len(ops) - 1 /\ \A i \in 1 .. Len(ops) - 1 : Tail(ops)[i] = ops[i + 1]
    BY EmptySeq, HeadTailProperties
<1>3. Fits(d, ops[1]) /\ T[1] = Applied(d, ops[1]) /\ T[1] \in Texts
    BY <1>1, <1>2 DEF Through
<1>4. U \in [0 .. Len(ops) - 1 -> Texts]
    BY <1>1, <1>2 DEF Through
<1>5. U[0] = T[1] /\ U[Len(ops) - 1] = e
    BY <1>1, <1>2 DEF Through
<1>6. ASSUME NEW i \in 1 .. Len(ops) - 1
      PROVE  Fits(U[i - 1], Tail(ops)[i]) /\ U[i] = Applied(U[i - 1], Tail(ops)[i])
    <2>1. U[i - 1] = T[i] /\ U[i] = T[i + 1] /\ i + 1 \in 1 .. Len(ops) /\ (i + 1) - 1 = i
        BY <1>2
    <2>2. Fits(T[i], ops[i + 1]) /\ T[i + 1] = Applied(T[i], ops[i + 1])
        BY <1>1, <2>1 DEF Through
    <2> QED
        BY <1>2, <2>1, <2>2
<1> HIDE DEF U
<1>7. Through(U, Applied(d, ops[1]), Tail(ops), e)
    BY <1>2, <1>3, <1>4, <1>5, <1>6 DEF Through
<1> QED
    BY <1>3, <1>7 DEF Makes

\* One row of keystrokes after the other.
LEMMA BothMake ==
    ASSUME NEW d, NEW m, NEW e, NEW o \in Seq(Keystrokes), NEW p \in Seq(Keystrokes),
           Makes(d, o, m), Makes(m, p, e)
    PROVE  Makes(d, o \o p, e)
<1>1. PICK T : Through(T, d, o, m)
    BY DEF Makes
<1>2. PICK U : Through(U, m, p, e)
    BY DEF Makes
<1> DEFINE V == [i \in 0 .. Len(o) + Len(p) |-> IF i <= Len(o) THEN T[i] ELSE U[i - Len(o)]]
<1>3. /\ Len(o) \in Nat /\ Len(p) \in Nat /\ Len(o \o p) = Len(o) + Len(p)
      /\ \A i \in 1 .. Len(o) + Len(p) : (o \o p)[i] = IF i <= Len(o) THEN o[i] ELSE p[i - Len(o)]
    BY ConcatProperties, LenProperties
<1>4. /\ \A i \in 0 .. Len(o) : V[i] = T[i]
      /\ \A i \in Len(o) .. Len(o) + Len(p) : V[i] = U[i - Len(o)]
    BY <1>1, <1>2, <1>3 DEF Through
<1>5. V \in [0 .. Len(o) + Len(p) -> Texts]
    BY <1>1, <1>2, <1>3 DEF Through
<1>6. V[0] = d /\ V[Len(o) + Len(p)] = e
    <2>1. /\ 0 \in 0 .. Len(o) /\ Len(o) + Len(p) \in Len(o) .. Len(o) + Len(p)
          /\ (Len(o) + Len(p)) - Len(o) = Len(p)
        BY <1>3
    <2>2. V[0] = T[0] /\ V[Len(o) + Len(p)] = U[Len(p)]
        BY <1>4, <2>1
    <2> QED
        BY <1>1, <1>2, <2>2 DEF Through
<1> HIDE DEF V
<1>7. ASSUME NEW i \in 1 .. Len(o) + Len(p)
      PROVE  Fits(V[i - 1], (o \o p)[i]) /\ V[i] = Applied(V[i - 1], (o \o p)[i])
    <2>1. CASE i <= Len(o)
        <3>1. V[i - 1] = T[i - 1] /\ V[i] = T[i] /\ (o \o p)[i] = o[i] /\ i \in 1 .. Len(o)
            BY <1>3, <1>4, <2>1
        <3> QED
            BY <1>1, <3>1 DEF Through
    <2>2. CASE i > Len(o)
        <3> DEFINE j == i - Len(o)
        <3>1. V[i - 1] = U[j - 1] /\ V[i] = U[j] /\ (o \o p)[i] = p[j] /\ j \in 1 .. Len(p)
            <4>1. /\ (i - 1) - Len(o) = j - 1 /\ j \in 1 .. Len(p) /\ i - Len(o) = j
                  /\ i \in Len(o) .. Len(o) + Len(p) /\ i - 1 \in Len(o) .. Len(o) + Len(p)
                BY <1>3, <2>2
            <4>2. V[i] = U[j] /\ V[i - 1] = U[j - 1]
                BY <1>3, <1>4, <2>2, <4>1
            <4> QED
                BY <1>3, <2>2, <4>1, <4>2
        <3> QED
            BY <1>2, <3>1 DEF Through
    <2> QED
        BY <1>3, <2>1, <2>2
<1>8. Through(V, d, o \o p, e)
    BY <1>3, <1>5, <1>6, <1>7 DEF Through
<1> QED
    BY <1>8 DEF Makes

\* What a text is with a part of it in the middle.
LEMMA Joined ==
    ASSUME NEW x \in Texts, NEW y \in Texts, NEW z \in Texts
    PROVE  /\ x \o y \o z \in Texts /\ Len(x \o y \o z) = Len(x) + Len(y) + Len(z)
           /\ \A k \in 1 .. Len(x) : (x \o y \o z)[k] = x[k]
           /\ \A k \in 1 .. Len(y) : (x \o y \o z)[Len(x) + k] = y[k]
           /\ \A k \in 1 .. Len(z) : (x \o y \o z)[Len(x) + Len(y) + k] = z[k]
<1>1. /\ Len(x) \in Nat /\ Len(y) \in Nat /\ Len(z) \in Nat
      /\ x \o y \in Texts /\ Len(x \o y) = Len(x) + Len(y)
      /\ \A i \in 1 .. Len(x) + Len(y) : (x \o y)[i] = IF i <= Len(x) THEN x[i] ELSE y[i - Len(x)]
    BY ConcatProperties, LenProperties DEF Texts
<1> DEFINE w == x \o y
<1>2. /\ w \o z \in Texts /\ Len(w \o z) = Len(w) + Len(z)
      /\ \A i \in 1 .. Len(w) + Len(z) : (w \o z)[i] = IF i <= Len(w) THEN w[i] ELSE z[i - Len(w)]
    BY <1>1, ConcatProperties DEF Texts
<1>3. ASSUME NEW k \in 1 .. Len(x) PROVE (w \o z)[k] = x[k]
    <2>1. k \in 1 .. Len(w) + Len(z) /\ k <= Len(w) /\ k \in 1 .. Len(x) + Len(y)
        BY <1>1
    <2> QED
        BY <1>1, <1>2, <2>1
<1>4. ASSUME NEW k \in 1 .. Len(y) PROVE (w \o z)[Len(x) + k] = y[k]
    <2>1. /\ Len(x) + k \in 1 .. Len(w) + Len(z) /\ Len(x) + k <= Len(w)
          /\ Len(x) + k \in 1 .. Len(x) + Len(y) /\ ~(Len(x) + k <= Len(x)) /\ (Len(x) + k) - Len(x) = k
        BY <1>1
    <2> QED
        BY <1>1, <1>2, <2>1
<1>5. ASSUME NEW k \in 1 .. Len(z) PROVE (w \o z)[Len(x) + Len(y) + k] = z[k]
    <2>1. /\ Len(x) + Len(y) + k \in 1 .. Len(w) + Len(z) /\ ~(Len(x) + Len(y) + k <= Len(w))
          /\ (Len(x) + Len(y) + k) - Len(w) = k
        BY <1>1
    <2> QED
        BY <1>1, <1>2, <2>1
<1> QED
    BY <1>1, <1>2, <1>3, <1>4, <1>5

\* A part of a text.
LEMMA Parts ==
    ASSUME NEW d \in Texts, NEW m \in Nat \ {0}, NEW n \in 0 .. Len(d)
    PROVE  /\ SubSeq(d, m, n) \in Texts
           /\ Len(SubSeq(d, m, n)) = IF m <= n THEN n - m + 1 ELSE 0
           /\ \A i \in 1 .. n - m + 1 : SubSeq(d, m, n)[i] = d[m + i - 1]
<1>1. \A i \in m .. n : d[i] \in Characters
    BY ElementOfSeq, LenProperties DEF Texts
<1>2. m \in Int /\ n \in Int
    BY LenProperties DEF Texts
<1> QED
    BY <1>1, <1>2, SubSeqProperties DEF Texts

\* The beginning and the end of a text.
LEMMA Beginning ==
    ASSUME NEW d \in Texts, NEW n \in 0 .. Len(d)
    PROVE  /\ SubSeq(d, 1, n) \in Texts /\ Len(SubSeq(d, 1, n)) = n
           /\ \A i \in 1 .. n : SubSeq(d, 1, n)[i] = d[i]
<1> DEFINE p == SubSeq(d, 1, n)
<1>1. Len(d) \in Nat /\ n \in Nat
    BY LenProperties DEF Texts
<1>2. /\ p \in Texts /\ Len(p) = IF 1 <= n THEN n - 1 + 1 ELSE 0
      /\ \A i \in 1 .. n - 1 + 1 : p[i] = d[1 + i - 1]
    BY Parts
<1> HIDE DEF p
<1>3. Len(p) = n
    BY <1>1, <1>2
<1>4. ASSUME NEW i \in 1 .. n PROVE p[i] = d[i]
    <2>1. i \in 1 .. n - 1 + 1 /\ 1 + i - 1 = i
        BY <1>1
    <2> QED
        BY <1>2, <2>1
<1> QED
    BY <1>2, <1>3, <1>4 DEF p

LEMMA Ending ==
    ASSUME NEW d \in Texts, NEW n \in 0 .. Len(d)
    PROVE  /\ SubSeq(d, n + 1, Len(d)) \in Texts /\ Len(SubSeq(d, n + 1, Len(d))) = Len(d) - n
           /\ \A i \in 1 .. Len(d) - n : SubSeq(d, n + 1, Len(d))[i] = d[n + i]
<1> DEFINE q == SubSeq(d, n + 1, Len(d))
<1>1. Len(d) \in Nat /\ n \in Nat /\ n + 1 \in Nat \ {0} /\ Len(d) \in 0 .. Len(d)
    BY LenProperties DEF Texts
<1>2. /\ q \in Texts /\ Len(q) = IF n + 1 <= Len(d) THEN Len(d) - (n + 1) + 1 ELSE 0
      /\ \A i \in 1 .. Len(d) - (n + 1) + 1 : q[i] = d[n + 1 + i - 1]
    BY <1>1, Parts
<1> HIDE DEF q
<1>3. Len(q) = Len(d) - n
    BY <1>1, <1>2
<1>4. ASSUME NEW i \in 1 .. Len(d) - n PROVE q[i] = d[n + i]
    <2>1. i \in 1 .. Len(d) - (n + 1) + 1 /\ n + 1 + i - 1 = n + i
        BY <1>1
    <2> QED
        BY <1>2, <2>1
<1> QED
    BY <1>2, <1>3, <1>4 DEF q

\* What an insertion and a deletion make of a text.
LEMMA InsertionIs ==
    ASSUME NEW x \in Texts, NEW z \in Texts, NEW c \in Characters
    PROVE  InsertAt(x \o z, Len(x) + 1, c) = x \o <<c>> \o z
<1>1. /\ Len(x) \in Nat /\ Len(z) \in Nat /\ x \o z \in Texts /\ Len(x \o z) = Len(x) + Len(z)
      /\ \A i \in 1 .. Len(x) + Len(z) : (x \o z)[i] = IF i <= Len(x) THEN x[i] ELSE z[i - Len(x)]
    BY ConcatProperties, LenProperties DEF Texts
<1> DEFINE w == x \o z
           p == SubSeq(w, 1, Len(x))
           q == SubSeq(w, Len(x) + 1, Len(w))
<1>2. w \in Texts /\ Len(x) \in 0 .. Len(w)
    BY <1>1
<1> HIDE DEF w
<1>3. p \in Texts /\ Len(p) = Len(x) /\ \A i \in 1 .. Len(x) : p[i] = w[i]
    BY <1>2, Beginning
<1>4. q \in Texts /\ Len(q) = Len(w) - Len(x) /\ \A i \in 1 .. Len(w) - Len(x) : q[i] = w[Len(x) + i]
    BY <1>2, Ending
<1> HIDE DEF p, q
<1>5. p = x
    <2>1. \A i \in 1 .. Len(p) : p[i] = x[i]
        BY <1>1, <1>3 DEF w
    <2> QED
        BY <1>3, <2>1, SeqEqual DEF Texts
<1>6. q = z
    <2>1. Len(q) = Len(z)
        BY <1>1, <1>4 DEF w
    <2>2. ASSUME NEW i \in 1 .. Len(q) PROVE q[i] = z[i]
        <3>1. /\ i \in 1 .. Len(w) - Len(x) /\ Len(x) + i \in 1 .. Len(x) + Len(z)
              /\ ~(Len(x) + i <= Len(x)) /\ (Len(x) + i) - Len(x) = i
            BY <1>1, <1>4, <2>1
        <3>2. w[Len(x) + i] = z[i]
            BY <1>1, <3>1 DEF w
        <3> QED
            BY <1>4, <3>1, <3>2
    <2> QED
        BY <1>4, <2>1, <2>2, SeqEqual DEF Texts
<1>7. (Len(x) + 1) - 1 = Len(x)
    BY <1>1
<1> QED
    BY <1>5, <1>6, <1>7 DEF InsertAt, p, q, w

LEMMA DeletionIs ==
    ASSUME NEW x \in Texts, NEW y \in Texts, NEW z \in Texts, y # << >>
    PROVE  RemoveAt(x \o y \o z, Len(x) + Len(y)) = x \o SubSeq(y, 1, Len(y) - 1) \o z
<1> DEFINE w == x \o y \o z
           v == SubSeq(y, 1, Len(y) - 1)
           n == Len(x) + Len(y)
           p == SubSeq(w, 1, n - 1)
           q == SubSeq(w, n + 1, Len(w))
<1>1. Len(x) \in Nat /\ Len(y) \in Nat \ {0} /\ Len(z) \in Nat
    BY EmptySeq, LenProperties DEF Texts
<1>2. /\ w \in Texts /\ Len(w) = Len(x) + Len(y) + Len(z)
      /\ \A k \in 1 .. Len(x) : w[k] = x[k]
      /\ \A k \in 1 .. Len(y) : w[Len(x) + k] = y[k]
      /\ \A k \in 1 .. Len(z) : w[Len(x) + Len(y) + k] = z[k]
    BY Joined
<1>3. v \in Texts /\ Len(v) = Len(y) - 1 /\ \A k \in 1 .. Len(y) - 1 : v[k] = y[k]
    <2>1. Len(y) - 1 \in 0 .. Len(y)
        BY <1>1
    <2> QED
        BY <2>1, Beginning
<1> HIDE DEF v, w
<1>4. p \in Texts /\ Len(p) = n - 1 /\ \A k \in 1 .. n - 1 : p[k] = w[k]
    <2>1. n - 1 \in 0 .. Len(w)
        BY <1>1, <1>2
    <2> HIDE DEF n
    <2> QED
        BY <1>2, <2>1, Beginning
<1>5. q \in Texts /\ Len(q) = Len(z) /\ \A k \in 1 .. Len(z) : q[k] = z[k]
    <2>1. n \in 0 .. Len(w) /\ Len(w) - n = Len(z)
        BY <1>1, <1>2
    <2>2. /\ q \in Texts /\ Len(q) = Len(w) - n
          /\ \A k \in 1 .. Len(w) - n : q[k] = w[n + k]
        <3> HIDE DEF n
        <3> QED
            BY <1>2, <2>1, Ending
    <2> HIDE DEF q
    <2> QED
        BY <1>2, <2>1, <2>2
<1> HIDE DEF p, q
<1>6. /\ p \o q \in Texts /\ Len(p \o q) = n - 1 + Len(z)
      /\ \A k \in 1 .. n - 1 + Len(z) : (p \o q)[k] = IF k <= n - 1 THEN p[k] ELSE q[k - (n - 1)]
    <2> HIDE DEF n
    <2>0. p \in Seq(Characters) /\ q \in Seq(Characters)
        BY <1>4, <1>5 DEF Texts
    <2>1. /\ p \o q \in Seq(Characters) /\ Len(p \o q) = Len(p) + Len(q)
          /\ \A k \in 1 .. Len(p) + Len(q) : (p \o q)[k] = IF k <= Len(p) THEN p[k] ELSE q[k - Len(p)]
        BY <2>0, ConcatProperties
    <2> QED
        BY <1>4, <1>5, <2>1 DEF Texts
<1>7. /\ x \o v \o z \in Texts /\ Len(x \o v \o z) = Len(x) + Len(v) + Len(z)
      /\ \A k \in 1 .. Len(x) : (x \o v \o z)[k] = x[k]
      /\ \A k \in 1 .. Len(v) : (x \o v \o z)[Len(x) + k] = v[k]
      /\ \A k \in 1 .. Len(z) : (x \o v \o z)[Len(x) + Len(v) + k] = z[k]
    BY <1>3, Joined
<1>8. Len(p \o q) = Len(x \o v \o z)
    BY <1>1, <1>3, <1>6, <1>7
<1>9. ASSUME NEW k \in 1 .. Len(p \o q) PROVE (p \o q)[k] = (x \o v \o z)[k]
    <2>1. CASE k <= Len(x)
        <3>1. k \in 1 .. n - 1 /\ k \in 1 .. n - 1 + Len(z) /\ k \in 1 .. Len(x)
            BY <1>1, <1>6, <2>1
        <3> QED
            BY <1>2, <1>4, <1>6, <1>7, <3>1
    <2>2. CASE Len(x) < k /\ k <= n - 1
        <3> DEFINE j == k - Len(x)
        <3>1. /\ k \in 1 .. n - 1 /\ k \in 1 .. n - 1 + Len(z) /\ k = Len(x) + j
              /\ j \in 1 .. Len(v) /\ j \in 1 .. Len(y) - 1 /\ j \in 1 .. Len(y)
            BY <1>1, <1>3, <1>6, <2>2
        <3> HIDE DEF j
        <3>2. (p \o q)[k] = w[Len(x) + j]
            BY <1>4, <1>6, <3>1
        <3> QED
            BY <1>2, <1>3, <1>7, <3>1, <3>2
    <2>3. CASE n - 1 < k
        <3> DEFINE j == k - (n - 1)
        <3>1. /\ ~(k <= n - 1) /\ k \in 1 .. n - 1 + Len(z) /\ k = Len(x) + Len(v) + j
              /\ j \in 1 .. Len(z) /\ k - (n - 1) = j
            BY <1>1, <1>3, <1>6, <2>3
        <3> HIDE DEF j
        <3> QED
            BY <1>5, <1>6, <1>7, <3>1
    <2>4. k <= Len(x) \/ (Len(x) < k /\ k <= n - 1) \/ n - 1 < k
        <3>1. Len(p \o q) \in Nat
            BY <1>1, <1>6
        <3> QED
            BY <1>1, <3>1
    <2> QED
        BY <2>1, <2>2, <2>3, <2>4, Zenon
<1>10. p \o q = x \o v \o z
    BY <1>6, <1>7, <1>8, <1>9, SeqEqual DEF Texts
<1> QED
    BY <1>10 DEF RemoveAt, p, q, w, v

\* Backspace, from the right end of y to its left.
LEMMA DeletesMake ==
    ASSUME NEW x \in Texts, NEW y \in Texts, NEW z \in Texts
    PROVE  /\ Deletes(Len(x), Len(y)) \in Seq(Keystrokes)
           /\ Makes(x \o y \o z, Deletes(Len(x), Len(y)), x \o z)
<1> DEFINE a == Len(x)
           n == Len(y)
           ops == Deletes(a, n)
           T == [r \in 0 .. n |-> x \o SubSeq(y, 1, n - r) \o z]
<1>1. a \in Nat /\ n \in Nat
    BY LenProperties DEF Texts
<1>2. ASSUME NEW r \in 0 .. n
      PROVE  SubSeq(y, 1, n - r) \in Texts /\ Len(SubSeq(y, 1, n - r)) = n - r
    <2>1. n - r \in 0 .. Len(y)
        BY <1>1
    <2> QED
        BY <2>1, Beginning
<1>3. /\ ops \in Seq(Keystrokes) /\ Len(ops) = n
      /\ \A r \in 1 .. n : ops[r] = [kind |-> "delete", at |-> a + n - r]
    <2>1. \A r \in 1 .. n : [kind |-> "delete", at |-> a + n - r] \in Keystrokes
        BY <1>1 DEF Keystrokes
    <2>2. ops = [r \in 1 .. n |-> [kind |-> "delete", at |-> a + n - r]]
        BY DEF Deletes
    <2> HIDE DEF ops, a, n
    <2>3. ops \in [1 .. n -> Keystrokes]
        BY <2>1, <2>2
    <2>4. ops \in Seq(Keystrokes) /\ Len(ops) = n
        BY <1>1, <2>3
    <2> QED
        BY <2>2, <2>4
<1>4. T \in [0 .. n -> Texts]
    <2>1. \A r \in 0 .. n : x \o SubSeq(y, 1, n - r) \o z \in Texts
        BY <1>2, Joined
    <2> QED
        BY <2>1
<1>5. T[0] = x \o y \o z
    <2>1. y \in Seq(Characters) /\ n - 0 = Len(y) /\ 0 \in 0 .. n
        BY <1>1 DEF Texts
    <2>2. SubSeq(y, 1, Len(y)) = y
        BY <2>1, SubSeqFull
    <2> QED
        BY <2>1, <2>2
<1>6. T[n] = x \o z
    <2>1. SubSeq(y, 1, n - n) = << >>
        BY <1>1, SubSeqEmpty
    <2>2. x \o << >> = x
        BY ConcatEmptySeq DEF Texts
    <2> QED
        BY <1>1, <2>1, <2>2
<1>7. ASSUME NEW r \in 1 .. n
      PROVE  Fits(T[r - 1], ops[r]) /\ T[r] = Applied(T[r - 1], ops[r])
    <2> DEFINE m == n - (r - 1)
               b == SubSeq(y, 1, m)
    <2>1. /\ r - 1 \in 0 .. n /\ r \in 0 .. n /\ m \in 1 .. n /\ m - 1 = n - r
          /\ a + n - r = a + m - 1 /\ (a + n - r) + 1 = a + m
        BY <1>1
    <2>2. b \in Texts /\ Len(b) = m /\ \A i \in 1 .. m : b[i] = y[i]
        <3>1. m \in 0 .. Len(y)
            BY <1>1, <2>1
        <3> HIDE DEF m
        <3> QED
            BY <3>1, Beginning
    <2>3. T[r - 1] = x \o b \o z /\ T[r] = x \o SubSeq(y, 1, m - 1) \o z
        BY <2>1
    <2>4. SubSeq(b, 1, m - 1) = SubSeq(y, 1, m - 1)
        <3> HIDE DEF b, m
        <3>1. m - 1 \in 0 .. Len(b) /\ m - 1 \in 0 .. Len(y)
            BY <1>1, <2>1, <2>2
        <3>2. /\ SubSeq(b, 1, m - 1) \in Texts /\ Len(SubSeq(b, 1, m - 1)) = m - 1
              /\ \A i \in 1 .. m - 1 : SubSeq(b, 1, m - 1)[i] = b[i]
            BY <2>2, <3>1, Beginning
        <3>3. /\ SubSeq(y, 1, m - 1) \in Texts /\ Len(SubSeq(y, 1, m - 1)) = m - 1
              /\ \A i \in 1 .. m - 1 : SubSeq(y, 1, m - 1)[i] = y[i]
            BY <3>1, Beginning
        <3>4. \A i \in 1 .. m - 1 : SubSeq(b, 1, m - 1)[i] = SubSeq(y, 1, m - 1)[i]
            BY <2>1, <2>2, <3>2, <3>3
        <3> QED
            BY <3>2, <3>3, <3>4, SeqEqual DEF Texts
    <2> HIDE DEF b, m, T
    <2>5. b # << >>
        BY <2>1, <2>2
    <2>6. RemoveAt(x \o b \o z, a + m) = x \o SubSeq(y, 1, m - 1) \o z
        <3>1. RemoveAt(x \o b \o z, Len(x) + Len(b)) = x \o SubSeq(b, 1, Len(b) - 1) \o z
            BY <2>2, <2>5, DeletionIs
        <3> QED
            BY <2>2, <2>4, <3>1
    <2>7. Len(x \o b \o z) = a + m + Len(z) /\ Len(z) \in Nat
        <3>1. Len(x \o b \o z) = Len(x) + Len(b) + Len(z)
            BY <2>2, Joined
        <3> QED
            BY <2>2, <3>1, LenProperties DEF Texts
    <2>8. ops[r].kind # "insert" /\ ops[r].at = a + n - r
        <3> HIDE DEF ops, a, n
        <3>1. ops[r] = [kind |-> "delete", at |-> a + n - r]
            BY <1>3
        <3> QED
            BY <3>1
    <2>9. T[r] = Applied(T[r - 1], ops[r])
        BY <2>1, <2>3, <2>6, <2>8 DEF Applied
    <2>10. a + n - r \in 0 .. Len(x \o b \o z) - 1
        BY <1>1, <2>1, <2>7
    <2>11. Fits(T[r - 1], ops[r])
        BY <2>3, <2>8, <2>10 DEF Fits
    <2> QED
        BY <2>9, <2>11
<1> HIDE DEF T, ops
<1>8. Through(T, x \o y \o z, ops, x \o z)
    BY <1>3, <1>4, <1>5, <1>6, <1>7 DEF Through
<1>9. Makes(x \o y \o z, ops, x \o z)
    BY <1>8 DEF Makes
<1> QED
    BY <1>3, <1>9 DEF ops

LEMMA Associates ==
    ASSUME NEW x \in Texts, NEW y \in Texts, NEW z \in Texts
    PROVE  x \o y \o z = x \o (y \o z)
BY ConcatAssociative DEF Texts

\* Characters typed one after the other.
LEMMA InsertsMake ==
    ASSUME NEW x \in Texts, NEW y \in Texts, NEW z \in Texts
    PROVE  /\ Inserts(Len(x), y) \in Seq(Keystrokes)
           /\ Makes(x \o z, Inserts(Len(x), y), x \o y \o z)
<1> DEFINE a == Len(x)
           n == Len(y)
           ops == Inserts(a, y)
           T == [r \in 0 .. n |-> x \o SubSeq(y, 1, r) \o z]
<1>1. a \in Nat /\ n \in Nat /\ DOMAIN y = 1 .. n
    BY LenProperties DEF Texts
<1>2. ASSUME NEW r \in 0 .. n
      PROVE  SubSeq(y, 1, r) \in Texts /\ Len(SubSeq(y, 1, r)) = r
    BY Beginning
<1>3. /\ ops \in Seq(Keystrokes) /\ Len(ops) = n
      /\ \A r \in 1 .. n : ops[r] = [kind |-> "insert", at |-> a + r - 1, text |-> y[r]]
    <2>1. \A r \in 1 .. n : y[r] \in Characters
        BY <1>1, ElementOfSeq DEF Texts
    <2>2. \A r \in 1 .. n : [kind |-> "insert", at |-> a + r - 1, text |-> y[r]] \in Keystrokes
        BY <1>1, <2>1 DEF Keystrokes
    <2>3. ops = [r \in 1 .. n |-> [kind |-> "insert", at |-> a + r - 1, text |-> y[r]]]
        BY <1>1 DEF Inserts
    <2> HIDE DEF ops, a, n
    <2>4. ops \in [1 .. n -> Keystrokes]
        BY <2>2, <2>3
    <2>5. ops \in Seq(Keystrokes) /\ Len(ops) = n
        BY <1>1, <2>4
    <2> QED
        BY <2>3, <2>5
<1>4. T \in [0 .. n -> Texts]
    <2>1. \A r \in 0 .. n : x \o SubSeq(y, 1, r) \o z \in Texts
        BY <1>2, Joined
    <2> QED
        BY <2>1
<1>5. T[n] = x \o y \o z
    <2>1. y \in Seq(Characters) /\ n \in 0 .. n
        BY <1>1 DEF Texts
    <2>2. SubSeq(y, 1, Len(y)) = y
        BY <2>1, SubSeqFull
    <2> QED
        BY <2>1, <2>2
<1>6. T[0] = x \o z
    <2>1. SubSeq(y, 1, 0) = << >>
        BY SubSeqEmpty
    <2>2. x \o << >> = x
        BY ConcatEmptySeq DEF Texts
    <2> QED
        BY <1>1, <2>1, <2>2
<1>7. ASSUME NEW r \in 1 .. n
      PROVE  Fits(T[r - 1], ops[r]) /\ T[r] = Applied(T[r - 1], ops[r])
    <2> DEFINE b == SubSeq(y, 1, r - 1)
               w == x \o b
    <2>1. r - 1 \in 0 .. n /\ r \in 0 .. n /\ y[r] \in Characters
        BY <1>1, ElementOfSeq DEF Texts
    <2>2. b \in Texts /\ Len(b) = r - 1
        BY <1>2, <2>1
    <2>3. T[r - 1] = x \o b \o z /\ T[r] = x \o SubSeq(y, 1, r) \o z
        BY <2>1
    <2>4. SubSeq(y, 1, r) = b \o <<y[r]>>
        <3>1. y \in Seq(Characters) /\ 1 \in 1 .. Len(y) /\ r \in 1 .. Len(y)
            BY <1>1 DEF Texts
        <3> QED
            BY <3>1, SubSeqRecursiveSecond
    <2> HIDE DEF b, T
    <2>5. w \in Texts /\ Len(w) = a + r - 1
        <3>1. x \in Seq(Characters) /\ b \in Seq(Characters)
            BY <2>2 DEF Texts
        <3>2. w \in Seq(Characters) /\ Len(w) = Len(x) + Len(b)
            BY <3>1, ConcatProperties
        <3> QED
            BY <1>1, <2>2, <3>2 DEF Texts
    <2>6. w \o <<y[r]>> = x \o (b \o <<y[r]>>)
        <3>1. <<y[r]>> \in Texts
            BY <2>1 DEF Texts
        <3> QED
            BY <2>2, <3>1, Associates, Zenon
    <2>7. InsertAt(w \o z, Len(w) + 1, y[r]) = w \o <<y[r]>> \o z
        <3> HIDE DEF w
        <3> QED
            BY <2>1, <2>5, InsertionIs
    <2>8. /\ ops[r].kind = "insert" /\ ops[r].at = a + r - 1 /\ ops[r].text = y[r]
        <3> HIDE DEF ops, a, n
        <3>1. ops[r] = [kind |-> "insert", at |-> a + r - 1, text |-> y[r]]
            BY <1>3
        <3> QED
            BY <3>1
    <2>9. Len(w) + 1 = ops[r].at + 1
        BY <2>5, <2>8
    <2>10. T[r] = Applied(T[r - 1], ops[r])
        <3>1. T[r] = w \o <<y[r]>> \o z
            BY <2>3, <2>4, <2>6
        <3>2. T[r - 1] = w \o z
            BY <2>3
        <3> HIDE DEF w
        <3> QED
            BY <2>7, <2>8, <2>9, <3>1, <3>2, Zenon DEF Applied
    <2>11. Len(x \o b \o z) = a + (r - 1) + Len(z) /\ Len(z) \in Nat
        <3>1. Len(x \o b \o z) = Len(x) + Len(b) + Len(z)
            BY <2>2, Joined
        <3> QED
            BY <2>2, <3>1, LenProperties DEF Texts
    <2>12. a + r - 1 \in 0 .. Len(x \o b \o z)
        BY <1>1, <2>1, <2>11
    <2>13. Fits(T[r - 1], ops[r])
        BY <2>3, <2>8, <2>12 DEF Fits
    <2> QED
        BY <2>10, <2>13
<1> HIDE DEF T, ops
<1>8. Through(T, x \o z, ops, x \o y \o z)
    BY <1>3, <1>4, <1>5, <1>6, <1>7 DEF Through
<1>9. Makes(x \o z, ops, x \o y \o z)
    BY <1>8 DEF Makes
<1> QED
    BY <1>3, <1>9 DEF ops

\* What is between two common characters of d and e, the characters up to i and j done.
LEMMA BetweenMakes ==
    ASSUME NEW d \in Texts, NEW e \in Texts,
           NEW i \in 0 .. Len(d), NEW k \in i + 1 .. Len(d) + 1,
           NEW j \in 0 .. Len(e), NEW l \in j + 1 .. Len(e) + 1
    PROVE  LET ops == Deletes(j, k - i - 1) \o Inserts(j, SubSeq(e, j + 1, l - 1))
           IN  /\ ops \in Seq(Keystrokes)
               /\ Makes(SubSeq(e, 1, j) \o SubSeq(d, i + 1, Len(d)), ops,
                        SubSeq(e, 1, l - 1) \o SubSeq(d, k, Len(d)))
<1> DEFINE x == SubSeq(e, 1, j)
           y == SubSeq(d, i + 1, k - 1)
           v == SubSeq(e, j + 1, l - 1)
           z == SubSeq(d, k, Len(d))
<1>1. Len(d) \in Nat /\ Len(e) \in Nat /\ d \in Seq(Characters) /\ e \in Seq(Characters)
    BY LenProperties DEF Texts
<1>2. x \in Texts /\ Len(x) = j
    BY Beginning
<1>3. y \in Texts /\ Len(y) = k - i - 1
    <2>1. i + 1 \in Nat \ {0} /\ k - 1 \in 0 .. Len(d)
        BY <1>1
    <2>2. y \in Texts /\ Len(y) = IF i + 1 <= k - 1 THEN k - 1 - (i + 1) + 1 ELSE 0
        BY <2>1, Parts
    <2> HIDE DEF y
    <2> QED
        BY <1>1, <2>2
<1>4. v \in Texts
    <2>1. j + 1 \in Nat \ {0} /\ l - 1 \in 0 .. Len(e)
        BY <1>1
    <2> QED
        BY <2>1, Parts
<1>5. z \in Texts
    <2>1. k \in Nat \ {0} /\ Len(d) \in 0 .. Len(d)
        BY <1>1
    <2> QED
        BY <2>1, Parts
<1>6. SubSeq(d, i + 1, Len(d)) = y \o z
    <2>1. i + 1 \in 1 .. Len(d) + 1 /\ k - 1 \in (i + 1) - 1 .. Len(d) /\ Len(d) \in k - 1 .. Len(d)
        BY <1>1
    <2>2. SubSeq(d, i + 1, k - 1) \o SubSeq(d, (k - 1) + 1, Len(d)) = SubSeq(d, i + 1, Len(d))
        BY <1>1, <2>1, ConcatAdjacentSubSeq
    <2>3. (k - 1) + 1 = k
        BY <1>1
    <2> QED
        BY <2>2, <2>3
<1>7. SubSeq(e, 1, l - 1) = x \o v
    <2>1. 1 \in 1 .. Len(e) + 1 /\ j \in 1 - 1 .. Len(e) /\ l - 1 \in j .. Len(e)
        BY <1>1
    <2> QED
        BY <1>1, <2>1, ConcatAdjacentSubSeq
<1> HIDE DEF x, y, v, z
<1>8. Deletes(j, k - i - 1) \in Seq(Keystrokes) /\ Makes(x \o y \o z, Deletes(j, k - i - 1), x \o z)
    BY <1>2, <1>3, <1>5, DeletesMake
<1>9. Inserts(j, v) \in Seq(Keystrokes) /\ Makes(x \o z, Inserts(j, v), x \o v \o z)
    BY <1>2, <1>4, <1>5, InsertsMake
<1>10. x \o y \o z = x \o (y \o z)
    BY <1>2, <1>3, <1>5, Associates, Zenon
<1>11. Deletes(j, k - i - 1) \o Inserts(j, v) \in Seq(Keystrokes)
    BY <1>8, <1>9, ConcatProperties
<1>12. Makes(x \o (y \o z), Deletes(j, k - i - 1) \o Inserts(j, v), x \o v \o z)
    BY <1>8, <1>9, <1>10, BothMake
<1> QED
    BY <1>6, <1>7, <1>11, <1>12, Zenon DEF x, v, z

--------------------------------------------------------------------------------
\* What holds of a number if it holds of all before it holds of all.
LEMMA Descent ==
    ASSUME NEW Good \in SUBSET Nat,
           \A n \in Nat : (\A m \in Nat : m < n => m \in Good) => n \in Good
    PROVE  Good = Nat
<1> DEFINE Bad == Nat \ Good
<1>1. ASSUME Bad # {} PROVE FALSE
    <2>1. PICK n \in Bad : \A m \in Bad : n <= m
        BY <1>1, Least
    <2>2. \A m \in Nat : m < n => m \in Good
        BY <2>1
    <2> QED
        BY <2>1, <2>2
<1> QED
    BY <1>1

\* The recursion of FlattenSeq.
IsFlat(s, n, f) == f = [i \in 1 .. n |-> IF i = 1 THEN s[i] ELSE f[i - 1] \o s[i]]

LEMMA FlatExists ==
    ASSUME NEW s, NEW n \in Nat
    PROVE  \E f : IsFlat(s, n, f)
<1> DEFINE Good == {m \in Nat : \E f : IsFlat(s, m, f)}
<1>1. ASSUME NEW m \in Nat, \A l \in Nat : l < m => l \in Good PROVE m \in Good
    <2>1. CASE m = 0
        <3>1. IsFlat(s, 0, [i \in 1 .. 0 |-> s[i]])
            BY DEF IsFlat
        <3> QED
            BY <2>1, <3>1
    <2>2. CASE m # 0
        <3>1. m - 1 \in Nat /\ m - 1 < m
            BY <2>2
        <3>2. PICK f : IsFlat(s, m - 1, f)
            BY <1>1, <3>1
        <3> DEFINE g == [i \in 1 .. m |-> IF i = m THEN IF m = 1 THEN s[m] ELSE f[m - 1] \o s[m]
                                          ELSE f[i]]
        <3>3. g = [i \in 1 .. m |-> g[i]] /\ g[m] = (IF m = 1 THEN s[m] ELSE f[m - 1] \o s[m])
            BY <2>2
        <3>4. \A i \in 1 .. m - 1 : g[i] = f[i]
            BY <3>1
        <3> HIDE DEF g
        <3>5. ASSUME NEW i \in 1 .. m PROVE g[i] = IF i = 1 THEN s[i] ELSE g[i - 1] \o s[i]
            <4>1. CASE i = m /\ i = 1
                BY <3>3, <4>1
            <4>2. CASE i = m /\ i # 1
                <5>1. g[m - 1] = f[m - 1]
                    BY <3>4, <4>2
                <5> QED
                    BY <3>3, <4>2, <5>1
            <4>3. CASE i # m /\ i = 1
                <5>1. i \in 1 .. m - 1
                    BY <4>3
                <5>2. f[i] = s[i]
                    BY <3>2, <4>3, <5>1 DEF IsFlat
                <5> QED
                    BY <3>4, <4>3, <5>1, <5>2
            <4>4. CASE i # m /\ i # 1
                <5>1. i \in 1 .. m - 1 /\ i - 1 \in 1 .. m - 1
                    BY <4>4
                <5>2. f[i] = f[i - 1] \o s[i]
                    BY <3>2, <4>4, <5>1 DEF IsFlat
                <5> QED
                    BY <3>4, <4>4, <5>1, <5>2
            <4> QED
                BY <4>1, <4>2, <4>3, <4>4
        <3>6. IsFlat(s, m, g)
            BY <3>3, <3>5, Zenon DEF IsFlat
        <3> QED
            BY <3>6
    <2> QED
        BY <2>1, <2>2
<1>2. Good \in SUBSET Nat /\ \A m \in Nat : m \in Good <=> \E f : IsFlat(s, m, f)
    OBVIOUS
<1> HIDE DEF Good
<1>3. Good = Nat
    BY <1>1, <1>2, Descent
<1> QED
    BY <1>2, <1>3

LEMMA FlattenIs ==
    ASSUME NEW s, Len(s) \in Nat \ {0}
    PROVE  \E f : IsFlat(s, Len(s), f) /\ FlattenSeq(s) = f[Len(s)]
<1> DEFINE flat == CHOOSE f : IsFlat(s, Len(s), f)
<1>1. \E f : IsFlat(s, Len(s), f)
    BY FlatExists
<1>2. IsFlat(s, Len(s), flat)
    BY <1>1
<1>3. FlattenSeq(s) = flat[Len(s)]
    BY Zenon DEF FlattenSeq, IsFlat
<1> QED
    BY <1>2, <1>3

\* Rows of keystrokes that lead on from each other lead from the first to the last.
LEMMA RowsMake ==
    ASSUME NEW n \in Nat \ {0}, NEW rows \in [1 .. n -> Seq(Keystrokes)], NEW T,
           \A k \in 1 .. n : Makes(T[k - 1], rows[k], T[k])
    PROVE  FlattenSeq(rows) \in Seq(Keystrokes) /\ Makes(T[0], FlattenSeq(rows), T[n])
<1>1. Len(rows) = n
    OBVIOUS
<1>2. PICK f : IsFlat(rows, n, f) /\ FlattenSeq(rows) = f[n]
    BY <1>1, FlattenIs
<1> DEFINE Good == {k \in Nat : k \in 1 .. n =>
                        f[k] \in Seq(Keystrokes) /\ Makes(T[0], f[k], T[k])}
<1>3. ASSUME NEW k \in Nat, \A l \in Nat : l < k => l \in Good PROVE k \in Good
    <2> SUFFICES ASSUME k \in 1 .. n
                 PROVE  f[k] \in Seq(Keystrokes) /\ Makes(T[0], f[k], T[k])
        OBVIOUS
    <2>1. rows[k] \in Seq(Keystrokes) /\ Makes(T[k - 1], rows[k], T[k])
        OBVIOUS
    <2>2. CASE k = 1
        <3>1. f[k] = rows[k]
            BY <1>2, <2>2 DEF IsFlat
        <3> QED
            BY <2>1, <2>2, <3>1
    <2>3. CASE k # 1
        <3>1. k - 1 \in Nat /\ k - 1 < k /\ k - 1 \in 1 .. n
            BY <2>3
        <3>2. f[k - 1] \in Seq(Keystrokes) /\ Makes(T[0], f[k - 1], T[k - 1])
            BY <1>3, <3>1
        <3>3. f[k] = f[k - 1] \o rows[k]
            BY <1>2, <2>3 DEF IsFlat
        <3> HIDE DEF Good
        <3>4. f[k - 1] \o rows[k] \in Seq(Keystrokes)
            BY <2>1, <3>2, ConcatProperties
        <3>5. Makes(T[0], f[k - 1] \o rows[k], T[k])
            BY <2>1, <3>2, BothMake
        <3> QED
            BY <3>3, <3>4, <3>5
    <2> QED
        BY <2>2, <2>3
<1>4. /\ Good \in SUBSET Nat
      /\ n \in Good => f[n] \in Seq(Keystrokes) /\ Makes(T[0], f[n], T[n])
    OBVIOUS
<1> HIDE DEF Good
<1>5. Good = Nat
    BY <1>3, <1>4, Descent
<1> QED
    BY <1>2, <1>4, <1>5

--------------------------------------------------------------------------------
\* The k-th of finitely many numbers.
LEMMA NthIs ==
    ASSUME NEW l \in Nat, NEW I \in SUBSET (1 .. l)
    PROVE  /\ IsFiniteSet(I) /\ Cardinality(I) \in Nat
           /\ \A k \in 1 .. Cardinality(I) :
                 Nth(I, k) \in I /\ Cardinality({j \in I : j <= Nth(I, k)}) = k
<1> DEFINE Up(i) == {j \in I : j <= i}
           Good == {k \in Nat : k \in 1 .. Cardinality(I) => \E i \in I : Cardinality(Up(i)) = k}
<1>0. I \in SUBSET Nat /\ \A i \in I : i \in Nat
    OBVIOUS
<1>1. IsFiniteSet(I) /\ Cardinality(I) \in Nat
    <2>1. IsFiniteSet(1 .. l)
        BY FS_Interval
    <2> QED
        BY <2>1, FS_Subset, FS_CardinalityType
<1>2. \A i : IsFiniteSet(Up(i))
    BY <1>1, FS_Subset
<1>3. ASSUME NEW k \in Nat, \A m \in Nat : m < k => m \in Good PROVE k \in Good
    <2> SUFFICES ASSUME k \in 1 .. Cardinality(I)
                 PROVE  \E i \in I : Cardinality(Up(i)) = k
        OBVIOUS
    <2>1. CASE k = 1
        <3>1. I # {}
            BY <1>1, FS_EmptySet
        <3>2. PICK i \in I : \A j \in I : i <= j
            BY <1>0, <3>1, Least
        <3>3. Up(i) = {i}
            <4>1. ASSUME NEW j \in I PROVE j <= i <=> j = i
                <5>1. i \in Nat /\ j \in Nat /\ i <= j
                    BY <1>0, <3>2
                <5> QED
                    BY <5>1
            <4> QED
                BY <4>1
        <3>4. Cardinality({i}) = 1
            BY FS_Singleton
        <3> QED
            BY <2>1, <3>2, <3>3, <3>4
    <2>2. CASE k # 1
        <3>1. k - 1 \in Nat /\ k - 1 < k /\ k - 1 \in 1 .. Cardinality(I)
            BY <1>1, <2>2
        <3>2. PICK i \in I : Cardinality(Up(i)) = k - 1
            BY <1>3, <3>1
        <3> DEFINE Later == {j \in I : i < j}
        <3>3. Later # {}
            <4>1. ASSUME Later = {} PROVE FALSE
                <5>0. ASSUME NEW j \in I PROVE j <= i
                    <6>1. i \in Nat /\ j \in Nat /\ ~(i < j)
                        BY <1>0, <4>1
                    <6> QED
                        BY <6>1
                <5>1. Up(i) = I
                    BY <5>0
                <5> QED
                    BY <1>1, <3>1, <3>2, <5>1
            <4> QED
                BY <4>1
        <3>4. Later \in SUBSET Nat
            BY <1>0
        <3> HIDE DEF Later
        <3>5. PICK m \in Later : \A j \in Later : m <= j
            BY <3>3, <3>4, Least
        <3>6. m \in I /\ i < m /\ \A j \in I : i < j => m <= j
            BY <3>5 DEF Later
        <3>7. Up(m) = Up(i) \cup {m} /\ m \notin Up(i)
            <4>1. ASSUME NEW j \in I PROVE j <= m <=> j <= i \/ j = m
                <5>1. i \in Nat /\ j \in Nat /\ m \in Nat /\ i < m /\ (i < j => m <= j)
                    BY <1>0, <3>6
                <5> QED
                    BY <5>1
            <4>2. ~(m <= i)
                <5>1. i \in Nat /\ m \in Nat /\ i < m
                    BY <1>0, <3>6
                <5> QED
                    BY <5>1
            <4> QED
                BY <3>6, <4>1, <4>2
        <3>8. Cardinality(Up(i) \cup {m}) = Cardinality(Up(i)) + 1
            <4>1. IsFiniteSet(Up(i)) /\ m \notin Up(i)
                BY <1>2, <3>7
            <4> HIDE DEF Up
            <4> QED
                BY <4>1, FS_AddElement
        <3>9. Cardinality(Up(m)) = k
            BY <3>1, <3>2, <3>7, <3>8
        <3> QED
            BY <3>6, <3>9
    <2> QED
        BY <2>1, <2>2
<1>4. /\ Good \in SUBSET Nat
      /\ \A k \in 1 .. Cardinality(I) : k \in Good => \E i \in I : Cardinality(Up(i)) = k
    BY <1>1
<1> HIDE DEF Good
<1>5. Good = Nat
    BY <1>3, <1>4, Descent
<1>6. ASSUME NEW k \in 1 .. Cardinality(I)
      PROVE  Nth(I, k) \in I /\ Cardinality({j \in I : j <= Nth(I, k)}) = k
    <2>1. \E i \in I : Cardinality({j \in I : j <= i}) = k
        BY <1>1, <1>4, <1>5
    <2> QED
        BY <2>1, Zenon DEF Nth
<1> QED
    BY <1>1, <1>6

LEMMA NthRises ==
    ASSUME NEW l \in Nat, NEW I \in SUBSET (1 .. l), NEW k \in 1 .. Cardinality(I) - 1
    PROVE  Nth(I, k) < Nth(I, k + 1)
<1> DEFINE Up(i) == {j \in I : j <= i}
<1>1. IsFiniteSet(I) /\ Cardinality(I) \in Nat
    BY NthIs
<1>0. \A i \in I : i \in Nat
    OBVIOUS
<1>2. k \in 1 .. Cardinality(I) /\ k + 1 \in 1 .. Cardinality(I)
    BY <1>1
<1>3. /\ Nth(I, k) \in I /\ Cardinality(Up(Nth(I, k))) = k
      /\ Nth(I, k + 1) \in I /\ Cardinality(Up(Nth(I, k + 1))) = k + 1
    BY <1>2, NthIs
<1>4. ASSUME Nth(I, k + 1) <= Nth(I, k) PROVE FALSE
    <2>1. Up(Nth(I, k + 1)) \in SUBSET Up(Nth(I, k))
        <3>0. ASSUME NEW a \in I, NEW b \in I, NEW j \in I, a <= b, j <= a PROVE j <= b
            <4>1. a \in Nat /\ b \in Nat /\ j \in Nat
                BY <1>0
            <4> QED
                BY <3>0, <4>1
        <3> QED
            BY <1>3, <1>4, <3>0
    <2>2. IsFiniteSet(Up(Nth(I, k)))
        BY <1>1, FS_Subset
    <2> HIDE DEF Up
    <2>3. Cardinality(Up(Nth(I, k + 1))) <= Cardinality(Up(Nth(I, k)))
        BY <2>1, <2>2, FS_Subset
    <2> QED
        BY <1>2, <1>3, <2>3
<1>5. Nth(I, k) \in Nat /\ Nth(I, k + 1) \in Nat
    BY <1>0, <1>3
<1> QED
    BY <1>4, <1>5

\* A common character may be counted to what is done or to what is not.
LEMMA CommonMoves ==
    ASSUME NEW d \in Texts, NEW e \in Texts, NEW i \in 1 .. Len(d), NEW j \in 1 .. Len(e),
           d[i] = e[j]
    PROVE  SubSeq(e, 1, j - 1) \o SubSeq(d, i, Len(d)) = SubSeq(e, 1, j) \o SubSeq(d, i + 1, Len(d))
<1> DEFINE x == SubSeq(e, 1, j - 1)
           z == SubSeq(d, i + 1, Len(d))
<1>1. Len(d) \in Nat /\ Len(e) \in Nat /\ d \in Seq(Characters) /\ e \in Seq(Characters)
    BY LenProperties DEF Texts
<1>2. x \in Texts
    <2>1. j - 1 \in 0 .. Len(e)
        BY <1>1
    <2> QED
        BY <2>1, Beginning
<1>3. z \in Texts
    BY Ending
<1>4. <<d[i]>> \in Texts
    BY <1>1, ElementOfSeq DEF Texts
<1>5. SubSeq(e, 1, j) = x \o <<d[i]>>
    <2>1. 1 \in 1 .. Len(e)
        BY <1>1
    <2> QED
        BY <1>1, <2>1, SubSeqRecursiveSecond
<1>6. SubSeq(d, i, Len(d)) = <<d[i]>> \o z
    <2>1. Len(d) \in i .. Len(d)
        BY <1>1
    <2> QED
        BY <1>1, <2>1, SubSeqRecursiveFirst
<1> HIDE DEF x, z
<1>7. x \o <<d[i]>> \o z = x \o (<<d[i]>> \o z)
    BY <1>2, <1>3, <1>4, Associates, Zenon
<1> QED
    BY <1>5, <1>6, <1>7, Zenon DEF x, z

\* Where the k-th common character is in a text of that length; the first and the last are
\* followed by the ends of it.
Place(I, n, k, end) == IF k = 0 THEN 0 ELSE IF k > n THEN end ELSE Nth(I, k)

LEMMA PlacesRise ==
    ASSUME NEW l \in Nat, NEW I \in SUBSET (1 .. l), NEW k \in 0 .. Cardinality(I)
    PROVE  /\ Place(I, Cardinality(I), k, l + 1) \in 0 .. l
           /\ Place(I, Cardinality(I), k + 1, l + 1)
                 \in Place(I, Cardinality(I), k, l + 1) + 1 .. l + 1
<1> DEFINE n == Cardinality(I)
<1>1. n \in Nat /\ \A m \in 1 .. n : Nth(I, m) \in 1 .. l
    <2>1. n \in Nat /\ \A m \in 1 .. n : Nth(I, m) \in I
        BY NthIs
    <2> HIDE DEF n
    <2> QED
        BY <2>1
<1>2. k < n /\ k # 0 => Nth(I, k) < Nth(I, k + 1)
    <2> SUFFICES ASSUME k < n, k # 0 PROVE Nth(I, k) < Nth(I, k + 1)
        OBVIOUS
    <2>1. k \in 1 .. n - 1
        BY <1>1
    <2> QED
        BY <2>1, NthRises
<1> HIDE DEF n
<1>3. CASE k = 0 /\ k = n
    BY <1>1, <1>3 DEF Place, n
<1>4. CASE k = 0 /\ k < n
    <2>1. k + 1 \in 1 .. n /\ k + 1 # 0 /\ ~(k + 1 > n)
        BY <1>1, <1>4
    <2>2. Nth(I, k + 1) \in 1 .. l
        BY <1>1, <2>1
    <2>3. Place(I, n, k, l + 1) = 0 /\ Place(I, n, k + 1, l + 1) = Nth(I, k + 1)
        BY <1>4, <2>1 DEF Place
    <2> QED
        BY <2>2, <2>3 DEF n
<1>5. CASE k # 0 /\ k = n
    <2>1. k \in 1 .. n /\ ~(k > n) /\ k + 1 # 0 /\ k + 1 > n
        BY <1>1, <1>5
    <2>2. Nth(I, k) \in 1 .. l
        BY <1>1, <2>1
    <2>3. Place(I, n, k, l + 1) = Nth(I, k) /\ Place(I, n, k + 1, l + 1) = l + 1
        BY <1>5, <2>1 DEF Place
    <2> QED
        BY <2>2, <2>3 DEF n
<1>6. CASE k # 0 /\ k < n
    <2>1. k \in 1 .. n /\ ~(k > n) /\ k + 1 # 0 /\ ~(k + 1 > n) /\ k + 1 \in 1 .. n
        BY <1>1, <1>6 DEF n
    <2>2. Nth(I, k) \in 1 .. l /\ Nth(I, k + 1) \in 1 .. l /\ Nth(I, k) < Nth(I, k + 1)
        BY <1>1, <1>2, <1>6, <2>1
    <2>3. Place(I, n, k, l + 1) = Nth(I, k) /\ Place(I, n, k + 1, l + 1) = Nth(I, k + 1)
        BY <1>6, <2>1 DEF Place
    <2> QED
        BY <2>2, <2>3 DEF n
<1>7. k \in Nat /\ k <= n
    BY <1>1 DEF n
<1> QED
    BY <1>1, <1>3, <1>4, <1>5, <1>6, <1>7

\* Whatever common characters a diff keeps, the plan turns the one text into the other
\* (replay-plan.ts:20-38).
LEMMA PlanMakes ==
    ASSUME NEW d \in Texts, NEW e \in Texts, NEW c \in Common(d, e)
    PROVE  /\ PlanReplay(d, e, c) \in Seq(Keystrokes)
           /\ Makes(d, PlanReplay(d, e, c), e)
<1> DEFINE n == Cardinality(c[1])
           D(k) == Place(c[1], n, k, Len(d) + 1)
           E(k) == Place(c[2], n, k, Len(e) + 1)
           Row(k) == Deletes(E(k), D(k + 1) - D(k) - 1)
                         \o Inserts(E(k), SubSeq(e, E(k) + 1, E(k + 1) - 1))
           rows == [k \in 1 .. n + 1 |-> Row(k - 1)]
           Done(k) == SubSeq(e, 1, E(k)) \o SubSeq(d, D(k) + 1, Len(d))
           T == [k \in 0 .. n + 1 |-> IF k = n + 1 THEN e ELSE Done(k)]
<1>1. /\ Len(d) \in Nat /\ Len(e) \in Nat /\ d \in Seq(Characters) /\ e \in Seq(Characters)
      /\ DOMAIN d = 1 .. Len(d) /\ DOMAIN e = 1 .. Len(e)
    BY LenProperties DEF Texts
<1>2. /\ c[1] \in SUBSET (1 .. Len(d)) /\ c[2] \in SUBSET (1 .. Len(e)) /\ Cardinality(c[2]) = n
      /\ \A k \in 1 .. n : d[Nth(c[1], k)] = e[Nth(c[2], k)]
    BY <1>1 DEF Common
<1>3. n \in Nat
    BY <1>1, <1>2, NthIs
<1>4. ASSUME NEW k \in 0 .. n
      PROVE  /\ D(k) \in 0 .. Len(d) /\ D(k + 1) \in D(k) + 1 .. Len(d) + 1
             /\ E(k) \in 0 .. Len(e) /\ E(k + 1) \in E(k) + 1 .. Len(e) + 1
    <2>1. D(k) \in 0 .. Len(d) /\ D(k + 1) \in D(k) + 1 .. Len(d) + 1
        BY <1>1, <1>2, PlacesRise
    <2>2. k \in 0 .. Cardinality(c[2])
        BY <1>2
    <2>3. /\ Place(c[2], Cardinality(c[2]), k, Len(e) + 1) \in 0 .. Len(e)
          /\ Place(c[2], Cardinality(c[2]), k + 1, Len(e) + 1)
                \in Place(c[2], Cardinality(c[2]), k, Len(e) + 1) + 1 .. Len(e) + 1
        BY <1>1, <1>2, <2>2, PlacesRise
    <2>4. E(k) \in 0 .. Len(e) /\ E(k + 1) \in E(k) + 1 .. Len(e) + 1
        BY <1>2, <2>3
    <2> QED
        BY <2>1, <2>4
<1>5. \A k \in 1 .. n : d[D(k)] = e[E(k)] /\ D(k) \in 1 .. Len(d) /\ E(k) \in 1 .. Len(e)
    <2> SUFFICES ASSUME NEW k \in 1 .. n
                 PROVE  d[D(k)] = e[E(k)] /\ D(k) \in 1 .. Len(d) /\ E(k) \in 1 .. Len(e)
        OBVIOUS
    <2>1. k # 0 /\ ~(k > n)
        BY <1>3
    <2>2. D(k) = Nth(c[1], k) /\ E(k) = Nth(c[2], k)
        BY <2>1 DEF Place
    <2>3. D(k) \in 1 .. Len(d)
        BY <1>1, <1>2, <2>2, NthIs
    <2>4. k \in 1 .. Cardinality(c[2])
        BY <1>2
    <2>5. E(k) \in 1 .. Len(e)
        BY <1>1, <1>2, <2>2, <2>4, NthIs
    <2> QED
        BY <1>2, <2>2, <2>3, <2>5
<1>6. D(n + 1) = Len(d) + 1 /\ E(n + 1) = Len(e) + 1 /\ D(0) = 0 /\ E(0) = 0
    <2>1. n + 1 > n /\ n + 1 # 0
        BY <1>3
    <2> QED
        BY <2>1 DEF Place
<1>7. PlanReplay(d, e, c) = FlattenSeq(rows)
    BY Zenon DEF PlanReplay, Place
<1> HIDE DEF D, E, n
<1>8. ASSUME NEW k \in 0 .. n
      PROVE  /\ Row(k) \in Seq(Keystrokes)
             /\ Makes(Done(k), Row(k), SubSeq(e, 1, E(k + 1) - 1) \o SubSeq(d, D(k + 1), Len(d)))
    BY <1>4, BetweenMakes
<1>9. \A k \in 1 .. n : SubSeq(e, 1, E(k) - 1) \o SubSeq(d, D(k), Len(d)) = Done(k)
    BY <1>5, CommonMoves
<1>10. SubSeq(e, 1, E(n + 1) - 1) \o SubSeq(d, D(n + 1), Len(d)) = e
    <2>1. E(n + 1) - 1 = Len(e) /\ Len(d) < D(n + 1)
        BY <1>1, <1>6
    <2>2. SubSeq(d, Len(d) + 1, Len(d)) = << >>
        BY <1>1, SubSeqEmpty
    <2>3. SubSeq(e, 1, Len(e)) = e /\ e \o << >> = e
        BY <1>1, SubSeqFull, ConcatEmptySeq
    <2> QED
        BY <1>6, <2>1, <2>2, <2>3
<1>11. Done(0) = d
    <2>1. SubSeq(e, 1, 0) = << >>
        BY SubSeqEmpty
    <2>2. SubSeq(d, 0 + 1, Len(d)) = d /\ << >> \o d = d
        BY <1>1, SubSeqFull, ConcatEmptySeq
    <2> QED
        BY <1>6, <2>1, <2>2
<1>12. rows \in [1 .. n + 1 -> Seq(Keystrokes)]
    <2>1. ASSUME NEW k \in 1 .. n + 1 PROVE Row(k - 1) \in Seq(Keystrokes)
        <3>1. k - 1 \in 0 .. n
            BY <1>3
        <3> QED
            BY <1>8, <3>1
    <2> HIDE DEF Row
    <2> QED
        BY <2>1
<1>13. ASSUME NEW k \in 1 .. n + 1 PROVE Makes(T[k - 1], rows[k], T[k])
    <2>1. k - 1 \in 0 .. n /\ (k - 1) + 1 = k /\ k - 1 # n + 1 /\ k - 1 \in 0 .. n + 1 /\ k \in 0 .. n + 1
        BY <1>3
    <2>2. Makes(Done(k - 1), Row(k - 1), SubSeq(e, 1, E(k) - 1) \o SubSeq(d, D(k), Len(d)))
        <3>1. Makes(Done(k - 1), Row(k - 1),
                    SubSeq(e, 1, E((k - 1) + 1) - 1) \o SubSeq(d, D((k - 1) + 1), Len(d)))
            BY <1>8, <2>1
        <3> HIDE DEF Row, Done
        <3> QED
            BY <2>1, <3>1
    <2>3. T[k - 1] = Done(k - 1) /\ rows[k] = Row(k - 1)
        <3> HIDE DEF Row, Done
        <3> QED
            BY <2>1
    <2>4. T[k] = SubSeq(e, 1, E(k) - 1) \o SubSeq(d, D(k), Len(d))
        <3>1. CASE k = n + 1
            BY <1>10, <2>1, <3>1
        <3>2. CASE k # n + 1
            <4>1. k \in 1 .. n
                BY <1>3, <3>2
            <4>2. T[k] = Done(k)
                <5> HIDE DEF Done
                <5> QED
                    BY <2>1, <3>2
            <4> QED
                BY <1>9, <4>1, <4>2
        <3> QED
            BY <3>1, <3>2
    <2> HIDE DEF Row, Done, T, rows
    <2> QED
        BY <2>2, <2>3, <2>4
<1>14. T[0] = d /\ T[n + 1] = e
    <2> HIDE DEF Done
    <2> QED
        BY <1>3, <1>11
<1> HIDE DEF T, rows
<1>15. n + 1 \in Nat \ {0}
    BY <1>3
<1>16. FlattenSeq(rows) \in Seq(Keystrokes) /\ Makes(T[0], FlattenSeq(rows), T[n + 1])
    BY <1>12, <1>13, <1>15, RowsMake
<1> QED
    BY <1>7, <1>14, <1>16

--------------------------------------------------------------------------------
\* Lines and the caret.
Newlines(d, p) == {q \in 1 .. p : d[q] = "newline"}

LEMMA LineOfIs ==
    ASSUME NEW d, NEW p \in Nat
    PROVE  /\ LineOf(d, p) = Cardinality(Newlines(d, p)) /\ LineOf(d, p) \in Nat
           /\ Newlines(d, p) = {} => LineOf(d, p) = 0
           /\ \A r \in Nat : Newlines(d, r) \subseteq Newlines(d, p) => LineOf(d, r) <= LineOf(d, p)
<1>1. \A r \in Nat : IsFiniteSet(Newlines(d, r))
    <2> SUFFICES ASSUME NEW r \in Nat PROVE IsFiniteSet(Newlines(d, r))
        OBVIOUS
    <2>1. IsFiniteSet(1 .. r) /\ Newlines(d, r) \in SUBSET (1 .. r)
        BY FS_Interval DEF Newlines
    <2> QED
        BY <2>1, FS_Subset
<1>2. \A r \in Nat : LineOf(d, r) = Cardinality(Newlines(d, r))
    BY DEF LineOf, Newlines
<1>3. LineOf(d, p) \in Nat
    BY <1>1, <1>2, FS_CardinalityType
<1>4. Newlines(d, p) = {} => LineOf(d, p) = 0
    BY <1>2, FS_EmptySet
<1>5. ASSUME NEW r \in Nat, Newlines(d, r) \subseteq Newlines(d, p) PROVE LineOf(d, r) <= LineOf(d, p)
    BY <1>1, <1>2, <1>5, FS_Subset
<1> QED
    BY <1>2, <1>3, <1>4, <1>5

LEMMA LineFromIs ==
    ASSUME NEW d \in Texts, NEW p \in 0 .. Len(d)
    PROVE  /\ LineFrom(d, p) \in 0 .. p
           /\ LineFrom(d, p) = 0 => Newlines(d, p) = {}
<1> DEFINE Ends == {q \in 0 .. p : q = 0 \/ d[q] = "newline"}
<1>1. p \in Nat
    BY LenProperties DEF Texts
<1>2. Ends \in SUBSET (0 .. p) /\ 0 \in Ends
    BY <1>1
<1>3. PICK q \in Ends : \A r \in Ends : r <= q
    <2> HIDE DEF Ends
    <2> QED
        BY <1>1, <1>2, Greatest
<1>4. ASSUME NEW r \in q + 1 .. p PROVE d[r] # "newline"
    <2>1. r \in 0 .. p /\ ~(r <= q)
        BY <1>1, <1>2, <1>3
    <2> QED
        BY <1>3, <2>1
<1>5. \E o \in 0 .. p : /\ o = 0 \/ d[o] = "newline"
                        /\ \A r \in o + 1 .. p : d[r] # "newline"
    BY <1>3, <1>4
<1>6. /\ LineFrom(d, p) \in 0 .. p
      /\ \A r \in LineFrom(d, p) + 1 .. p : d[r] # "newline"
    BY <1>5 DEF LineFrom
<1>7. ASSUME LineFrom(d, p) = 0 PROVE Newlines(d, p) = {}
    <2>1. \A r \in 1 .. p : d[r] # "newline"
        BY <1>6, <1>7
    <2> QED
        BY <2>1 DEF Newlines
<1> QED
    BY <1>6, <1>7

LEMMA LineToIs ==
    ASSUME NEW d \in Texts, NEW p \in 0 .. Len(d)
    PROVE  /\ LineTo(d, p) \in p .. Len(d)
           /\ LineTo(d, p) = Len(d) => \A r \in Nat : r <= Len(d) => Newlines(d, r) \subseteq Newlines(d, p)
<1> DEFINE Ends == {q \in p .. Len(d) : q = Len(d) \/ d[q + 1] = "newline"}
<1>1. p \in Nat /\ Len(d) \in Nat /\ p <= Len(d)
    BY LenProperties DEF Texts
<1>2. Ends \in SUBSET Nat /\ Ends # {}
    <2>1. Len(d) \in Ends
        BY <1>1
    <2> QED
        BY <1>1, <2>1
<1>3. PICK q \in Ends : \A r \in Ends : q <= r
    <2> HIDE DEF Ends
    <2> QED
        BY <1>2, Least
<1>4. ASSUME NEW r \in p + 1 .. q PROVE d[r] # "newline"
    <2>1. r - 1 \in p .. Len(d) /\ ~(q <= r - 1) /\ (r - 1) + 1 = r
        BY <1>1, <1>3
    <2> QED
        BY <1>3, <2>1
<1>5. \E o \in p .. Len(d) : /\ o = Len(d) \/ d[o + 1] = "newline"
                             /\ \A r \in p + 1 .. o : d[r] # "newline"
    BY <1>3, <1>4
<1>6. /\ LineTo(d, p) \in p .. Len(d)
      /\ \A r \in p + 1 .. LineTo(d, p) : d[r] # "newline"
    BY <1>5 DEF LineTo
<1>7. ASSUME LineTo(d, p) = Len(d), NEW r \in Nat, r <= Len(d)
      PROVE  Newlines(d, r) \subseteq Newlines(d, p)
    <2> SUFFICES ASSUME NEW o \in Newlines(d, r) PROVE o \in Newlines(d, p)
        OBVIOUS
    <2>1. o \in 1 .. r /\ d[o] = "newline"
        BY DEF Newlines
    <2>2. ~(o \in p + 1 .. Len(d))
        BY <1>6, <1>7, <2>1
    <2>3. o \in 1 .. p
        BY <1>1, <1>7, <2>1, <2>2
    <2> QED
        BY <2>1, <2>3 DEF Newlines
<1> QED
    BY <1>6, <1>7

\* The caret stays in the text on its way.
LEMMA CaretsStay ==
    ASSUME NEW d \in Texts, NEW cur \in 0 .. Len(d), NEW target \in 0 .. Len(d),
           NEW p \in NextCaretSteps(d, cur, target)
    PROVE  p \in 0 .. Len(d)
<1> DEFINE column == cur - LineFrom(d, cur)
           next == IF LineOf(d, target) > LineOf(d, cur) THEN LineTo(d, cur) + 1
                   ELSE LineFrom(d, LineFrom(d, cur) - 1)
<1>1. Len(d) \in Nat /\ cur \in Nat /\ target \in Nat /\ target <= Len(d)
    BY LenProperties DEF Texts
<1>2. LineOf(d, cur) \in Nat /\ LineOf(d, target) \in Nat
    BY <1>1, LineOfIs
<1>3. LineFrom(d, cur) \in 0 .. cur /\ column \in Nat
    BY <1>1, LineFromIs
<1>4. CASE LineOf(d, cur) # LineOf(d, target)
    <2>1. next \in 0 .. Len(d)
        <3>1. CASE LineOf(d, target) > LineOf(d, cur)
            <4>1. LineTo(d, cur) \in cur .. Len(d)
                BY LineToIs
            <4>2. LineTo(d, cur) # Len(d)
                <5>1. ASSUME LineTo(d, cur) = Len(d) PROVE FALSE
                    <6>1. Newlines(d, target) \subseteq Newlines(d, cur)
                        BY <1>1, <5>1, LineToIs
                    <6>2. LineOf(d, target) <= LineOf(d, cur)
                        BY <1>1, <6>1, LineOfIs
                    <6> QED
                        BY <1>2, <3>1, <6>2
                <5> QED
                    BY <5>1
            <4> QED
                BY <1>1, <3>1, <4>1, <4>2
        <3>2. CASE ~(LineOf(d, target) > LineOf(d, cur))
            <4>1. LineFrom(d, cur) # 0
                <5>1. ASSUME LineFrom(d, cur) = 0 PROVE FALSE
                    <6>1. LineOf(d, cur) = 0
                        BY <1>1, <5>1, LineFromIs, LineOfIs
                    <6> QED
                        BY <1>2, <1>4, <3>2, <6>1
                <5> QED
                    BY <5>1
            <4>2. LineFrom(d, cur) - 1 \in 0 .. Len(d)
                BY <1>1, <1>3, <4>1
            <4>3. LineFrom(d, LineFrom(d, cur) - 1) \in 0 .. LineFrom(d, cur) - 1
                BY <4>2, LineFromIs
            <4> QED
                BY <1>1, <3>2, <4>2, <4>3
        <3> QED
            BY <3>1, <3>2
    <2>2. p = IF next + column < LineTo(d, next) THEN next + column ELSE LineTo(d, next)
        BY <1>4 DEF NextCaretSteps
    <2> HIDE DEF next, column
    <2>3. LineTo(d, next) \in next .. Len(d)
        BY <2>1, LineToIs
    <2> QED
        BY <1>1, <1>3, <2>1, <2>2, <2>3
<1>5. CASE LineOf(d, cur) = LineOf(d, target)
    <2>1. p \in (cur + 1) .. target \cup target .. (cur - 1)
        BY <1>5 DEF NextCaretSteps
    <2> QED
        BY <1>1, <2>1
<1> QED
    BY <1>4, <1>5

\* A keystroke and the text that it leaves.
LEMMA AppliedFits ==
    ASSUME NEW d \in Texts, NEW op \in Keystrokes, Fits(d, op)
    PROVE  /\ EditCaret(op) \in 0 .. Len(d)
           /\ CaretAfter(op) \in 0 .. Len(Applied(d, op))
<1>1. Len(d) \in Nat /\ op.at \in Nat
    BY LenProperties DEF Texts, Keystrokes
<1>2. CASE op.kind = "insert"
    <2>1. op.at \in 0 .. Len(d) /\ op.text \in Characters
        BY <1>2 DEF Fits, Keystrokes
    <2> DEFINE x == SubSeq(d, 1, op.at)
               z == SubSeq(d, op.at + 1, Len(d))
    <2>2. x \in Texts /\ Len(x) = op.at
        BY <2>1, Beginning
    <2>3. z \in Texts /\ Len(z) = Len(d) - op.at
        BY <2>1, Ending
    <2>4. <<op.text>> \in Texts /\ Len(<<op.text>>) = 1
        BY <2>1 DEF Texts
    <2>5. Applied(d, op) = x \o <<op.text>> \o z
        <3>1. (op.at + 1) - 1 = op.at
            BY <1>1
        <3> QED
            BY <1>2, <3>1 DEF Applied, InsertAt
    <2> HIDE DEF x, z
    <2>6. Len(Applied(d, op)) = op.at + 1 + (Len(d) - op.at)
        <3>1. Len(x \o <<op.text>> \o z) = Len(x) + Len(<<op.text>>) + Len(z)
            BY <2>2, <2>3, <2>4, Joined
        <3> QED
            BY <2>2, <2>3, <2>4, <2>5, <3>1
    <2> QED
        BY <1>1, <1>2, <2>1, <2>6 DEF EditCaret, CaretAfter
<1>3. CASE op.kind # "insert"
    <2>1. op.at \in 0 .. Len(d) - 1 /\ op.at \in 0 .. Len(d) /\ op.at + 1 \in 0 .. Len(d)
        BY <1>1, <1>3 DEF Fits
    <2> DEFINE x == SubSeq(d, 1, op.at)
               z == SubSeq(d, op.at + 1 + 1, Len(d))
    <2>2. x \in Texts /\ Len(x) = op.at
        BY <2>1, Beginning
    <2>3. z \in Texts /\ Len(z) = Len(d) - (op.at + 1)
        BY <2>1, Ending
    <2>5. Applied(d, op) = x \o z
        <3>1. (op.at + 1) - 1 = op.at
            BY <1>1
        <3> QED
            BY <1>3, <3>1 DEF Applied, RemoveAt
    <2> HIDE DEF x, z
    <2>6. Len(x \o z) = Len(x) + Len(z)
        BY <2>2, <2>3, ConcatProperties DEF Texts
    <2> QED
        BY <1>1, <1>3, <2>1, <2>2, <2>3, <2>5, <2>6 DEF EditCaret, CaretAfter
<1> QED
    BY <1>2, <1>3

\* A step of a replay keeps what is left of it leading to the same text, and the caret in
\* the text; and it is over when the text is there.
LEMMA StrokeKeeps ==
    ASSUME NEW d \in Texts, NEW h \in 0 .. Len(d), NEW ops \in Seq(Keystrokes), NEW e,
           Makes(d, ops, e), NEW s \in Stroke(d, h, ops)
    PROVE  /\ s.doc \in Texts /\ s.head \in 0 .. Len(s.doc)
           /\ s.strokes \in Seq(Keystrokes) /\ Makes(s.doc, s.strokes, e)
           /\ s.over \in BOOLEAN
           /\ s.over => d = e
<1>1. CASE ops = << >>
    <2>1. s.doc = d /\ s.head = h /\ s.strokes = ops /\ s.over = TRUE
        BY <1>1 DEF Stroke
    <2>2. d = e
        BY <1>1, NothingMakes
    <2> QED
        BY <2>1, <2>2
<1>2. CASE ops # << >> /\ h # EditCaret(ops[1])
    <2>1. PICK p \in NextCaretSteps(d, h, EditCaret(ops[1])) :
             s = [doc |-> d, head |-> p, strokes |-> ops, over |-> FALSE]
        BY <1>2 DEF Stroke
    <2>2. ops[1] \in Keystrokes /\ Fits(d, ops[1])
        BY <1>2, FirstMakes, EmptySeq, ElementOfSeq
    <2>3. EditCaret(ops[1]) \in 0 .. Len(d)
        BY <2>2, AppliedFits
    <2>4. p \in 0 .. Len(d)
        BY <2>1, <2>3, CaretsStay
    <2>5. s.doc = d /\ s.head = p /\ s.strokes = ops /\ s.over = FALSE
        BY <2>1
    <2> QED
        BY <2>4, <2>5
<1>3. CASE ops # << >> /\ h = EditCaret(ops[1])
    <2>1. /\ s.doc = Applied(d, ops[1]) /\ s.head = CaretAfter(ops[1])
          /\ s.strokes = Tail(ops) /\ s.over = FALSE
        BY <1>3 DEF Stroke
    <2>2. ops[1] \in Keystrokes
        BY <1>3, EmptySeq, ElementOfSeq
    <2>3. /\ Fits(d, ops[1]) /\ Applied(d, ops[1]) \in Texts
          /\ Makes(Applied(d, ops[1]), Tail(ops), e) /\ Tail(ops) \in Seq(Keystrokes)
        BY <1>3, FirstMakes, HeadTailProperties
    <2>4. CaretAfter(ops[1]) \in 0 .. Len(Applied(d, ops[1]))
        BY <2>2, <2>3, AppliedFits
    <2> QED
        BY <2>1, <2>3, <2>4
<1> QED
    BY <1>1, <1>2, <1>3

--------------------------------------------------------------------------------
\* A view: its selection is in its text, and its replay leads to what was asked of it.
RightView(d, a, h, l, r, o, v) ==
    /\ d \in Texts /\ l \in Texts /\ a \in 0 .. Len(d) /\ h \in 0 .. Len(d)
    /\ o \in Seq(Keystrokes) /\ v \in Nat
    /\ IF r THEN Makes(d, o, l) ELSE d = l

OfFiles ==
    /\ DOMAIN doc = Files /\ DOMAIN anchor = Files /\ DOMAIN head = Files /\ DOMAIN left = Files
    /\ DOMAIN replaying = Files /\ DOMAIN strokes = Files /\ DOMAIN version = Files

ViewsInv ==
    /\ OfFiles
    /\ \A f \in Files :
          RightView(doc[f], anchor[f], head[f], left[f], replaying[f], strokes[f], version[f])

\* Only the view of f changes.
ElsewhereKept(f) ==
    \A g \in Files \ {f} :
        /\ doc'[g] = doc[g] /\ anchor'[g] = anchor[g] /\ head'[g] = head[g] /\ left'[g] = left[g]
        /\ replaying'[g] = replaying[g] /\ strokes'[g] = strokes[g] /\ version'[g] = version[g]

LEMMA OneView ==
    ASSUME ViewsInv, OfFiles', NEW f, ElsewhereKept(f),
           f \in Files => RightView(doc'[f], anchor'[f], head'[f], left'[f], replaying'[f],
                                    strokes'[f], version'[f])
    PROVE  ViewsInv'
BY DEF ViewsInv, ElsewhereKept

LEMMA ViewsKept ==
    ASSUME ViewsInv, UNCHANGED <<doc, anchor, head, left, replaying, strokes, version>>
    PROVE  ViewsInv'
BY DEF ViewsInv, OfFiles

\* What a transaction changes.
LEMMA DispatchIs ==
    ASSUME ViewsInv, NEW f, NEW d, NEW a, NEW h, Dispatch(f, d, a, h)
    PROVE  /\ DOMAIN doc' = Files /\ DOMAIN anchor' = Files /\ DOMAIN head' = Files
           /\ \A g \in Files \ {f} : doc'[g] = doc[g] /\ anchor'[g] = anchor[g] /\ head'[g] = head[g]
           /\ f \in Files => doc'[f] = d /\ anchor'[f] = a /\ head'[f] = h
BY DEF ViewsInv, OfFiles, Dispatch

LEMMA ViewsStart == Init => ViewsInv
<1> SUFFICES ASSUME Init PROVE ViewsInv
    OBVIOUS
<1>1. OfFiles
    BY DEF Init, OfFiles
<1>2. ASSUME NEW f \in Files
      PROVE  RightView(doc[f], anchor[f], head[f], left[f], replaying[f], strokes[f], version[f])
    <2>1. Versions[f] \in Seq(Seq(STRING)) /\ 1 \in 1 .. Len(Versions[f])
        BY VersionsAssumption, EmptySeq
    <2>2. Versions[f][1] \in Texts
        BY <2>1, ElementOfSeq, SeqMonotonic DEF Texts, Characters
    <2>3. /\ doc[f] = Versions[f][1] /\ left[f] = doc[f] /\ anchor[f] = 0 /\ head[f] = 0
          /\ ~replaying[f] /\ strokes[f] = << >> /\ version[f] = 1
        BY DEF Init
    <2>4. << >> \in Seq(Keystrokes) /\ Len(doc[f]) \in Nat
        BY <2>2, <2>3, EmptySeq, LenProperties DEF Texts
    <2> QED
        BY <2>2, <2>3, <2>4 DEF RightView
<1> QED
    BY <1>1, <1>2 DEF ViewsInv

LEMMA ClickKeeps ==
    ASSUME ViewsInv, ClickVersion
    PROVE  ViewsInv'
<1>0. PICK f : f = active
    OBVIOUS
<1>01. PICK next : next = (version[f] % Len(Versions[f])) + 1
    OBVIOUS
<1>02. PICK target : target = Versions[f][next]
    OBVIOUS
<1>03. PICK c \in Diffs(doc[f], target) :
      \E s \in Stroke(doc[f], head[f], PlanReplay(doc[f], target, c)) :
        /\ IF s.over THEN UNCHANGED <<doc, anchor, head, settling, affordance>>
           ELSE Dispatch(f, s.doc, s.head, s.head)
        /\ strokes' = [strokes EXCEPT ![f] = s.strokes]
        /\ replaying' = [replaying EXCEPT ![f] = ~s.over]
        /\ busy' = IF s.over \/ replaying[f] THEN None ELSE f
    <2> DEFINE n == (version[active] % Len(Versions[active])) + 1
               e == Versions[active][n]
    <2>1. \E c \in Diffs(doc[active], e) :
          \E s \in Stroke(doc[active], head[active], PlanReplay(doc[active], e, c)) :
            /\ IF s.over THEN UNCHANGED <<doc, anchor, head, settling, affordance>>
               ELSE Dispatch(active, s.doc, s.head, s.head)
            /\ strokes' = [strokes EXCEPT ![active] = s.strokes]
            /\ replaying' = [replaying EXCEPT ![active] = ~s.over]
            /\ busy' = IF s.over \/ replaying[active] THEN None ELSE active
        BY Zenon DEF ClickVersion
    <2>2. target = e
        BY <1>0, <1>01, <1>02
    <2> HIDE DEF e
    <2> QED
        BY <1>0, <2>1, <2>2, Zenon
<1>1. PICK s \in Stroke(doc[f], head[f], PlanReplay(doc[f], target, c)) :
        /\ IF s.over THEN UNCHANGED <<doc, anchor, head, settling, affordance>>
           ELSE Dispatch(f, s.doc, s.head, s.head)
        /\ strokes' = [strokes EXCEPT ![f] = s.strokes]
        /\ replaying' = [replaying EXCEPT ![f] = ~s.over]
        /\ busy' = IF s.over \/ replaying[f] THEN None ELSE f
    BY <1>03
<1>2. /\ version' = [version EXCEPT ![f] = next]
      /\ left' = [left EXCEPT ![f] = target]
    BY <1>0, <1>01, <1>02 DEF ClickVersion
<1>3. OfFiles' /\ ElsewhereKept(f)
    <2>1. CASE s.over
        BY <1>1, <1>2, <2>1 DEF ViewsInv, OfFiles, ElsewhereKept
    <2>2. CASE ~s.over
        <3>1. /\ DOMAIN doc' = Files /\ DOMAIN anchor' = Files /\ DOMAIN head' = Files
              /\ \A g \in Files \ {f} : doc'[g] = doc[g] /\ anchor'[g] = anchor[g] /\ head'[g] = head[g]
            BY <1>1, <2>2, DispatchIs
        <3> QED
            BY <1>1, <1>2, <3>1 DEF ViewsInv, OfFiles, ElsewhereKept
    <2> QED
        BY <2>1, <2>2
<1>4. ASSUME f \in Files
      PROVE  RightView(doc'[f], anchor'[f], head'[f], left'[f], replaying'[f], strokes'[f], version'[f])
    <2>1. RightView(doc[f], anchor[f], head[f], left[f], replaying[f], strokes[f], version[f])
        BY <1>4 DEF ViewsInv
    <2>2. /\ doc[f] \in Texts /\ head[f] \in 0 .. Len(doc[f]) /\ anchor[f] \in 0 .. Len(doc[f])
          /\ version[f] \in Nat
        BY <2>1 DEF RightView
    <2>3. Versions[f] \in Seq(Seq(STRING)) /\ Len(Versions[f]) \in Nat \ {0}
        BY <1>4, VersionsAssumption, EmptySeq
    <2>4. next \in 1 .. Len(Versions[f]) /\ next \in Nat
        BY <1>01, <2>2, <2>3
    <2>5. target \in Texts
        <3>1. target \in Seq(STRING)
            BY <1>02, <2>3, <2>4, ElementOfSeq
        <3> QED
            BY <3>1, SeqMonotonic DEF Texts, Characters
    <2>6. c \in Common(doc[f], target)
        BY <1>03 DEF Diffs
    <2>7. /\ PlanReplay(doc[f], target, c) \in Seq(Keystrokes)
          /\ Makes(doc[f], PlanReplay(doc[f], target, c), target)
        BY <2>2, <2>5, <2>6, PlanMakes
    <2>8. /\ s.doc \in Texts /\ s.head \in 0 .. Len(s.doc)
          /\ s.strokes \in Seq(Keystrokes) /\ Makes(s.doc, s.strokes, target)
          /\ s.over \in BOOLEAN
          /\ s.over => doc[f] = target
        BY <1>1, <2>2, <2>7, StrokeKeeps
    <2>9. /\ left'[f] = target /\ version'[f] = next /\ strokes'[f] = s.strokes
          /\ replaying'[f] = ~s.over
        BY <1>1, <1>2, <1>4 DEF ViewsInv, OfFiles
    <2>10. CASE s.over
        <3>1. doc' = doc /\ anchor' = anchor /\ head' = head
            BY <1>1, <2>10
        <3>2. ~replaying'[f] /\ doc'[f] = left'[f]
            BY <2>8, <2>9, <2>10, <3>1
        <3> QED
            BY <2>2, <2>4, <2>5, <2>8, <2>9, <3>1, <3>2 DEF RightView
    <2>11. CASE ~s.over
        <3>1. doc'[f] = s.doc /\ anchor'[f] = s.head /\ head'[f] = s.head
            BY <1>1, <1>4, <2>11, DispatchIs
        <3>2. replaying'[f] /\ Makes(doc'[f], strokes'[f], left'[f])
            BY <2>8, <2>9, <2>11, <3>1
        <3> QED
            BY <2>4, <2>5, <2>8, <2>9, <3>1, <3>2 DEF RightView
    <2> QED
        BY <2>10, <2>11
<1> QED
    BY <1>3, <1>4, OneView

LEMMA TickKeeps ==
    ASSUME ViewsInv, NEW f \in Files, Tick(f)
    PROVE  ViewsInv'
<1>1. PICK s \in Stroke(doc[f], head[f], strokes[f]) :
          IF s.over
          THEN /\ Cancel(f)
               /\ UNCHANGED <<doc, anchor, head, settling, affordance>>
          ELSE /\ Dispatch(f, s.doc, s.head, s.head)
               /\ strokes' = [strokes EXCEPT ![f] = s.strokes]
               /\ UNCHANGED <<replaying, busy>>
    BY DEF Tick
<1>2. replaying[f] /\ UNCHANGED <<left, version>>
    BY DEF Tick
<1>3. RightView(doc[f], anchor[f], head[f], left[f], replaying[f], strokes[f], version[f])
    BY DEF ViewsInv
<1>4. /\ s.doc \in Texts /\ s.head \in 0 .. Len(s.doc)
      /\ s.strokes \in Seq(Keystrokes) /\ Makes(s.doc, s.strokes, left[f])
      /\ s.over \in BOOLEAN
      /\ s.over => doc[f] = left[f]
    BY <1>1, <1>2, <1>3, StrokeKeeps DEF RightView
<1>5. CASE s.over
    <2>1. /\ replaying' = [replaying EXCEPT ![f] = FALSE] /\ strokes' = [strokes EXCEPT ![f] = << >>]
          /\ UNCHANGED <<doc, anchor, head>>
        BY <1>1, <1>5 DEF Cancel
    <2>2. OfFiles' /\ ElsewhereKept(f) /\ replaying'[f] = FALSE /\ strokes'[f] = << >>
        BY <1>2, <2>1 DEF ViewsInv, OfFiles, ElsewhereKept
    <2>3. << >> \in Seq(Keystrokes)
        BY EmptySeq
    <2>4. RightView(doc'[f], anchor'[f], head'[f], left'[f], replaying'[f], strokes'[f], version'[f])
        BY <1>2, <1>3, <1>4, <1>5, <2>1, <2>2, <2>3 DEF RightView
    <2> QED
        BY <2>2, <2>4, OneView
<1>6. CASE ~s.over
    <2>1. /\ DOMAIN doc' = Files /\ DOMAIN anchor' = Files /\ DOMAIN head' = Files
          /\ \A g \in Files \ {f} : doc'[g] = doc[g] /\ anchor'[g] = anchor[g] /\ head'[g] = head[g]
          /\ doc'[f] = s.doc /\ anchor'[f] = s.head /\ head'[f] = s.head
        BY <1>1, <1>6, DispatchIs
    <2>2. strokes' = [strokes EXCEPT ![f] = s.strokes] /\ UNCHANGED replaying
        BY <1>1, <1>6
    <2>3. OfFiles' /\ ElsewhereKept(f) /\ strokes'[f] = s.strokes
        BY <1>2, <2>1, <2>2 DEF ViewsInv, OfFiles, ElsewhereKept
    <2>4. RightView(doc'[f], anchor'[f], head'[f], left'[f], replaying'[f], strokes'[f], version'[f])
        BY <1>2, <1>3, <1>4, <2>1, <2>2, <2>3 DEF RightView
    <2> QED
        BY <2>3, <2>4, OneView
<1> QED
    BY <1>4, <1>5, <1>6

\* A change that no replay made: it is what is left, and the replay ends.
LEMMA ChangeKeeps ==
    ASSUME ViewsInv, NEW f, NEW d, NEW a, NEW h,
           Dispatch(f, d, a, h), left' = [left EXCEPT ![f] = d], Cancel(f), UNCHANGED version,
           f \in Files => d \in Texts /\ a \in 0 .. Len(d) /\ h \in 0 .. Len(d)
    PROVE  ViewsInv'
<1>1. /\ DOMAIN doc' = Files /\ DOMAIN anchor' = Files /\ DOMAIN head' = Files
      /\ \A g \in Files \ {f} : doc'[g] = doc[g] /\ anchor'[g] = anchor[g] /\ head'[g] = head[g]
      /\ f \in Files => doc'[f] = d /\ anchor'[f] = a /\ head'[f] = h
    BY DispatchIs
<1>2. /\ replaying' = [replaying EXCEPT ![f] = FALSE]
      /\ strokes' = [strokes EXCEPT ![f] = << >>]
    BY DEF Cancel
<1>3. OfFiles' /\ ElsewhereKept(f)
    BY <1>1, <1>2 DEF ViewsInv, OfFiles, ElsewhereKept
<1>4. ASSUME f \in Files
      PROVE  RightView(doc'[f], anchor'[f], head'[f], left'[f], replaying'[f], strokes'[f], version'[f])
    <2>1. left'[f] = d /\ replaying'[f] = FALSE /\ strokes'[f] = << >> /\ version'[f] = version[f]
        BY <1>2, <1>4 DEF ViewsInv, OfFiles
    <2>2. version[f] \in Nat
        BY <1>4 DEF ViewsInv, RightView
    <2>3. << >> \in Seq(Keystrokes)
        BY EmptySeq
    <2> QED
        BY <1>1, <1>4, <2>1, <2>2, <2>3 DEF RightView
<1> QED
    BY <1>3, <1>4, OneView

LEMMA TypeKeeps ==
    ASSUME ViewsInv, Type
    PROVE  ViewsInv'
<1>0. PICK f : f = active
    OBVIOUS
<1>1. PICK d : d = SubSeq(doc[f], 1, IF anchor[f] < head[f] THEN anchor[f] ELSE head[f]) \o <<"x">>
                     \o SubSeq(doc[f], (IF anchor[f] < head[f] THEN anchor[f] ELSE head[f])
                                          + Cardinality(Selected(f)) + 1, Len(doc[f]))
    OBVIOUS
<1>2. PICK a : a = (IF anchor[f] < head[f] THEN anchor[f] ELSE head[f]) + 1
    OBVIOUS
<1>3. /\ Dispatch(f, d, a, a) /\ left' = [left EXCEPT ![f] = d] /\ Cancel(f) /\ UNCHANGED version
    BY <1>0, <1>1, <1>2 DEF Type
<1>4. ASSUME f \in Files PROVE d \in Texts /\ a \in 0 .. Len(d)
    <2>1. /\ doc[f] \in Texts /\ anchor[f] \in 0 .. Len(doc[f]) /\ head[f] \in 0 .. Len(doc[f])
          /\ Len(doc[f]) \in Nat
        BY <1>4, LenProperties DEF ViewsInv, RightView, Texts
    <2>2. PICK i, j \in 0 .. Len(doc[f]) :
              /\ i = (IF anchor[f] < head[f] THEN anchor[f] ELSE head[f])
              /\ j = (IF anchor[f] < head[f] THEN head[f] ELSE anchor[f])
              /\ i <= j /\ Selected(f) = i + 1 .. j
        <3>1. CASE anchor[f] < head[f]
            <4>1. head[f] + 1 .. anchor[f] = {}
                BY <2>1, <3>1
            <4> QED
                BY <2>1, <3>1, <4>1 DEF Selected
        <3>2. CASE ~(anchor[f] < head[f])
            <4>1. anchor[f] + 1 .. head[f] = {}
                BY <2>1, <3>2
            <4> QED
                BY <2>1, <3>2, <4>1 DEF Selected
        <3> QED
            BY <3>1, <3>2
    <2>3. i + Cardinality(Selected(f)) = j
        <3>1. i + 1 \in Int /\ j \in Int
            BY <2>1
        <3>2. Cardinality(i + 1 .. j) = IF i + 1 > j THEN 0 ELSE j - (i + 1) + 1
            BY <3>1, FS_Interval
        <3> QED
            BY <2>1, <2>2, <3>2
    <2> DEFINE p == SubSeq(doc[f], 1, i)
               q == SubSeq(doc[f], j + 1, Len(doc[f]))
    <2>4. p \in Texts /\ Len(p) = i
        BY <2>1, <2>2, Beginning
    <2>5. q \in Texts /\ Len(q) \in Nat
        BY <2>1, <2>2, Ending, LenProperties DEF Texts
    <2>6. <<"x">> \in Texts /\ Len(<<"x">>) = 1
        BY DEF Texts, Characters
    <2>7. d = p \o <<"x">> \o q /\ a = i + 1
        BY <1>1, <1>2, <2>2, <2>3
    <2> HIDE DEF p, q
    <2>8. d \in Texts /\ Len(d) = Len(p) + Len(<<"x">>) + Len(q)
        BY <2>4, <2>5, <2>6, <2>7, Joined
    <2> QED
        BY <2>1, <2>4, <2>5, <2>6, <2>7, <2>8
<1> QED
    BY <1>3, <1>4, ChangeKeeps

LEMMA AppendedIs ==
    ASSUME NEW d \in Texts
    PROVE  Appended(d) \in Texts /\ Len(Appended(d)) - 2 \in Nat
<1>1. Body(d) \in Texts /\ Len(Body(d)) \in Nat
    <2> DEFINE K == {k \in DOMAIN d : \E p \in {m \in DOMAIN d : d[m] # "newline"} : k <= p}
    <2>1. DOMAIN d = 1 .. Len(d) /\ Len(d) \in Nat
        BY LenProperties DEF Texts
    <2>2. IsFiniteSet(1 .. Len(d)) /\ Cardinality(1 .. Len(d)) = Len(d)
        <3> HIDE DEF K
        <3>1. 1 \in Int /\ Len(d) \in Int
            BY <2>1
        <3>2. Cardinality(1 .. Len(d)) = IF 1 > Len(d) THEN 0 ELSE Len(d) - 1 + 1
            BY <3>1, FS_Interval
        <3>3. IsFiniteSet(1 .. Len(d))
            BY <3>1, FS_Interval
        <3> QED
            BY <2>1, <3>2, <3>3
    <2>3. K \in SUBSET (1 .. Len(d))
        BY <2>1
    <2> HIDE DEF K
    <2>4. Cardinality(K) \in 0 .. Len(d)
        <3>1. IsFiniteSet(K) /\ Cardinality(K) <= Cardinality(1 .. Len(d))
            BY <2>2, <2>3, FS_Subset
        <3>2. Cardinality(K) \in Nat
            BY <3>1, FS_CardinalityType
        <3> QED
            BY <2>1, <2>2, <3>1, <3>2
    <2>5. Body(d) = SubSeq(d, 1, Cardinality(K))
        BY Zenon DEF Body, K
    <2> QED
        BY <2>4, <2>5, Beginning, LenProperties DEF Texts
<1>2. /\ <<"step", "newline">> \in Texts /\ Len(<<"step", "newline">>) = 2
      /\ <<"newline", "newline", "step", "newline">> \in Texts
      /\ Len(<<"newline", "newline", "step", "newline">>) = 4
    BY DEF Texts, Characters
<1>3. /\ Body(d) \o <<"newline", "newline", "step", "newline">> \in Texts
      /\ Len(Body(d) \o <<"newline", "newline", "step", "newline">>) = Len(Body(d)) + 4
    BY <1>1, <1>2, ConcatProperties DEF Texts
<1> QED
    BY <1>1, <1>2, <1>3 DEF Appended

LEMMA AnsweredKeeps ==
    ASSUME ViewsInv, Answered
    PROVE  ViewsInv'
<1>1. PICK d : d = Appended(doc[Steps])
    OBVIOUS
<1>2. /\ Dispatch(Steps, d, Len(d) - 2, Len(d) - 1) /\ left' = [left EXCEPT ![Steps] = d]
      /\ Cancel(Steps) /\ UNCHANGED version
    BY <1>1 DEF Answered
<1>3. ASSUME Steps \in Files
      PROVE  d \in Texts /\ Len(d) - 2 \in 0 .. Len(d) /\ Len(d) - 1 \in 0 .. Len(d)
    <2>1. doc[Steps] \in Texts
        BY <1>3 DEF ViewsInv, RightView
    <2>2. d \in Texts /\ Len(d) - 2 \in Nat
        BY <1>1, <2>1, AppendedIs
    <2>3. Len(d) \in Nat
        BY <2>2, LenProperties DEF Texts
    <2> QED
        BY <2>2, <2>3
<1> QED
    BY <1>2, <1>3, ChangeKeeps

LEMMA SelectKeeps ==
    ASSUME ViewsInv, NEW a \in 0 .. Len(doc[Oath]), NEW h \in 0 .. Len(doc[Oath]), Select(a, h)
    PROVE  ViewsInv'
<1>1. Dispatch(Oath, doc[Oath], a, h) /\ UNCHANGED <<left, replaying, strokes, version>>
    BY DEF Select, replay
<1>2. PICK d : d = doc[Oath]
    OBVIOUS
<1>3. /\ DOMAIN doc' = Files /\ DOMAIN anchor' = Files /\ DOMAIN head' = Files
      /\ \A g \in Files \ {Oath} : doc'[g] = doc[g] /\ anchor'[g] = anchor[g] /\ head'[g] = head[g]
      /\ doc'[Oath] = d /\ anchor'[Oath] = a /\ head'[Oath] = h
    BY <1>1, <1>2, DispatchIs, OathAssumption
<1>4. OfFiles' /\ ElsewhereKept(Oath)
    BY <1>1, <1>3 DEF ViewsInv, OfFiles, ElsewhereKept
<1>5. RightView(doc[Oath], anchor[Oath], head[Oath], left[Oath], replaying[Oath], strokes[Oath],
                version[Oath])
    BY OathAssumption DEF ViewsInv
<1>6. RightView(doc'[Oath], anchor'[Oath], head'[Oath], left'[Oath], replaying'[Oath],
                strokes'[Oath], version'[Oath])
    BY <1>1, <1>2, <1>3, <1>5 DEF RightView
<1> QED
    BY <1>4, <1>6, OneView

LEMMA NextKeepsViews ==
    ASSUME ViewsInv, [Next]_editorVars
    PROVE  ViewsInv'
<1>1. CASE ClickVersion
    BY <1>1, ClickKeeps
<1>2. CASE Type
    BY <1>2, TypeKeeps
<1>3. ASSUME NEW f \in Files, Tick(f)
      PROVE  ViewsInv'
    BY <1>3, TickKeeps
<1>4. ASSUME NEW f \in Files, ShowFile(f)
      PROVE  ViewsInv'
    BY <1>4, ViewsKept DEF ShowFile, view, replay
<1>5. ASSUME NEW a \in 0 .. Len(doc[Oath]), NEW h \in 0 .. Len(doc[Oath]), Select(a, h)
      PROVE  ViewsInv'
    BY <1>5, SelectKeeps
<1>6. CASE SelectionSettles
    BY <1>6, ViewsKept DEF SelectionSettles, view, replay
<1>7. CASE Confirm \/ Escape
    BY <1>7, ViewsKept DEF Confirm, Escape, view, replay
<1>8. CASE Answered
    BY <1>8, AnsweredKeeps
<1>9. ASSUME NEW l, SetLang(l)
      PROVE  ViewsInv'
    BY <1>9, ViewsKept DEF SetLang, view, replay
<1>10. CASE UNCHANGED editorVars
    BY <1>10, ViewsKept DEF editorVars, view, replay
<1> QED
    BY <1>1, <1>2, <1>3, <1>4, <1>5, <1>6, <1>7, <1>8, <1>9, <1>10 DEF Next

\* Whatever the texts, the diffs and the way of the caret, and whatever is clicked, typed,
\* selected or inserted in between: a view that no replay is at holds what was asked of it
\* or left in it last, and not a character else (editor-mount.ts:71-72).
THEOREM TheUserWins == Spec => []UserWins
<1>1. ViewsInv => UserWins
    BY DEF ViewsInv, RightView, UserWins
<1> QED
    BY <1>1, ViewsStart, NextKeepsViews, PTL DEF Spec

\* A replay under way types what is left of it into the very text asked for last, and no
\* selection reaches beyond its text, whatever a keystroke has removed (replay-plan.ts:20-38).
ReplaysLead == \A f \in Files : replaying[f] => Makes(doc[f], strokes[f], left[f])
SelectionsFit == \A f \in Files : anchor[f] \in 0 .. Len(doc[f]) /\ head[f] \in 0 .. Len(doc[f])

THEOREM ReplaysAlwaysLead == Spec => [](ReplaysLead /\ SelectionsFit)
<1>1. ViewsInv => ReplaysLead /\ SelectionsFit
    BY DEF ViewsInv, RightView, ReplaysLead, SelectionsFit
<1> QED
    BY <1>1, ViewsStart, NextKeepsViews, PTL DEF Spec
================================================================================
