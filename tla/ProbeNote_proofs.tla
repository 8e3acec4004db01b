-------------------------- MODULE ProbeNote_proofs --------------------------
(***************************************************************************)
(* Proofs about the note of a manifest, for every set of manifests within  *)
(* the reader's limits: what gen_probe wrote is what layout_parse reads.   *)
(*                                                                         *)
(* What FlattenSeq, Expand and Offsets compute is proved first, by         *)
(* induction over the sequences; from it follows where every cell of the   *)
(* note lies, and what is found there (HeadIsFound, RecordIsFound).  The   *)
(* invariant (NoteInv) says how far the reader is and where its cursor     *)
(* must be: at the place of the next record.                               *)
(***************************************************************************)
EXTENDS ProbeNote, FiniteSetTheorems, WellFoundedInduction, TLAPS

-----------------------------------------------------------------------------
(* Induction over numbers                                                  *)

\* Every set of numbers that is not empty has a least one.
LEMMA LeastNumber ==
  ASSUME NEW T, T \subseteq Nat, T # {}
  PROVE  \E n \in T : \A k \in T : n <= k
<1> DEFINE upto(n) == 1..n
           U == {upto(n) : n \in T}
<1>1. \A n \in Nat : upto(n) \in FiniteSubsetsOf(Nat)
  <2> SUFFICES ASSUME NEW n \in Nat PROVE upto(n) \in FiniteSubsetsOf(Nat)
    OBVIOUS
  <2>1. IsFiniteSet(1..n)
    BY FS_Interval
  <2> QED
    BY <2>1 DEF FiniteSubsetsOf
<1>2. U \subseteq FiniteSubsetsOf(Nat) /\ U # {}
  BY <1>1
<1>3. IsWellFoundedOn(StrictSubsetOrdering(Nat), FiniteSubsetsOf(Nat))
  BY FS_StrictSubsetOrderingWellFounded
<1> HIDE DEF U
<1>4. PICK u \in U : \A v \in U : <<v, u>> \notin StrictSubsetOrdering(Nat)
  BY <1>2, <1>3, WFMin
<1>5. PICK n \in T : u = upto(n)
  BY DEF U
<1>6. ASSUME NEW k \in T, ~(n <= k) PROVE FALSE
  <2>1. upto(k) \subseteq upto(n) /\ upto(k) # upto(n)
    <3>1. n \in upto(n) /\ n \notin upto(k)
      BY <1>6
    <3> QED
      BY <1>6, <3>1
  <2>2. upto(k) \in SUBSET Nat /\ upto(n) \in SUBSET Nat
    OBVIOUS
  <2>3. <<upto(k), upto(n)>> \in StrictSubsetOrdering(Nat)
    BY <2>1, <2>2 DEF StrictSubsetOrdering
  <2> QED
    BY <1>4, <1>5, <2>3 DEF U
<1> QED
  BY <1>6

\* Induction over the numbers of a set.
LEMMA NumberInduction ==
  ASSUME NEW S, 0 \in S, \A n \in Nat : n \in S => n + 1 \in S
  PROVE  Nat \subseteq S
<1> DEFINE T == Nat \ S
<1> SUFFICES ASSUME T # {} PROVE FALSE
  OBVIOUS
<1>1. PICK n \in T : \A k \in T : n <= k
  BY LeastNumber
<1>2. n \in Nat /\ n # 0 /\ n \notin S
  OBVIOUS
<1>3. n - 1 \in Nat /\ ~(n <= n - 1) /\ (n - 1) + 1 = n
  BY <1>2
<1>4. n - 1 \in S
  BY <1>1, <1>3
<1> QED
  BY <1>2, <1>3, <1>4

-----------------------------------------------------------------------------
(* Things that lie one after another                                       *)

OffsetsOf(u, start, widths, n) ==
  u = [k \in 0..n |-> IF k = 0 THEN start ELSE u[k - 1] + widths[k]]

\* The recursion of Offsets defines a function, however many things there are.
LEMMA OffsetsExist ==
  ASSUME NEW start, NEW widths, NEW n \in Nat
  PROVE  \E u : OffsetsOf(u, start, widths, n)
<1> DEFINE S == {k \in Nat : \E u : OffsetsOf(u, start, widths, k)}
<1>1. 0 \in S
  <2>1. OffsetsOf([k \in {0} |-> start], start, widths, 0)
    <3>1. 0..0 = {0}
      OBVIOUS
    <3> QED
      BY <3>1 DEF OffsetsOf
  <2> QED
    BY <2>1
<1>2. ASSUME NEW k \in Nat, k \in S PROVE k + 1 \in S
  <2>1. PICK u : OffsetsOf(u, start, widths, k)
    BY <1>2
  <2> DEFINE v == [j \in 0..(k + 1) |-> IF j = k + 1 THEN u[k] + widths[k + 1] ELSE u[j]]
  <2>2. \A j \in 0..k : u[j] = IF j = 0 THEN start ELSE u[j - 1] + widths[j]
    BY <2>1, Zenon DEF OffsetsOf
  <2>3. ASSUME NEW j \in 0..(k + 1)
        PROVE  v[j] = IF j = 0 THEN start ELSE v[j - 1] + widths[j]
    <3>1. CASE j = k + 1
      <4>1. v[j] = u[k] + widths[j] /\ j # 0 /\ j - 1 = k /\ k \in 0..(k + 1) /\ k # k + 1
        BY <3>1
      <4>2. v[k] = u[k]
        BY <4>1
      <4> QED
        BY <4>1, <4>2
    <3>2. CASE j # k + 1
      <4>1. j \in 0..k
        BY <3>2
      <4>2. v[j] = u[j]
        BY <3>2
      <4>3. j # 0 => j - 1 \in 0..(k + 1) /\ j - 1 # k + 1
        BY <4>1
      <4>4. j # 0 => v[j - 1] = u[j - 1]
        BY <4>3
      <4> HIDE DEF v
      <4> QED
        BY <4>1, <4>2, <4>4, <2>2
    <3> QED
      BY <3>1, <3>2
  <2>4. v = [j \in 0..(k + 1) |-> v[j]]
    OBVIOUS
  <2> HIDE DEF v
  <2>5. OffsetsOf(v, start, widths, k + 1)
    BY <2>3, <2>4 DEF OffsetsOf
  <2> QED
    BY <2>5
<1> HIDE DEF S
<1>3. Nat \subseteq S
  BY <1>1, <1>2, NumberInduction
<1> QED
  BY <1>3 DEF S

\* Each thing begins where the one before it ends.
LEMMA OffsetsAdjoin ==
  ASSUME NEW start \in Nat, NEW widths, Len(widths) \in Nat,
         \A k \in 1..Len(widths) : widths[k] \in Nat
  PROVE  LET at == Offsets(start, widths)
         IN  /\ at[0] = start
             /\ \A k \in 1..Len(widths) : at[k] = at[k - 1] + widths[k]
             /\ \A k \in 0..Len(widths) : at[k] \in Nat
             /\ \A j, k \in 0..Len(widths) : j <= k => at[j] <= at[k]
<1> DEFINE n == Len(widths)
           at == Offsets(start, widths)
<1>1. at = CHOOSE u : OffsetsOf(u, start, widths, n)
  BY DEF Offsets, OffsetsOf
<1>2. OffsetsOf(at, start, widths, n)
  BY <1>1, OffsetsExist
<1> HIDE DEF at
<1>3. at[0] = start /\ \A k \in 1..n : at[k] = at[k - 1] + widths[k]
  <2>1. \A k \in 0..n : at[k] = IF k = 0 THEN start ELSE at[k - 1] + widths[k]
    BY <1>2, Zenon DEF OffsetsOf
  <2> QED
    BY <2>1
<1> DEFINE S == {k \in Nat : k <= n => at[k] \in Nat /\ \A j \in 0..k : at[j] \in Nat /\ at[j] <= at[k]}
<1>4. 0 \in S
  <2>1. \A j \in 0..0 : j = 0
    OBVIOUS
  <2> QED
    BY <1>3, <2>1
<1>5. ASSUME NEW k \in Nat, k \in S PROVE k + 1 \in S
  <2> SUFFICES ASSUME k + 1 <= n
               PROVE  /\ at[k + 1] \in Nat
                      /\ \A j \in 0..(k + 1) : at[j] \in Nat /\ at[j] <= at[k + 1]
    OBVIOUS
  <2>1. at[k] \in Nat /\ \A j \in 0..k : at[j] \in Nat /\ at[j] <= at[k]
    BY <1>5
  <2>2. at[k + 1] = at[k] + widths[k + 1] /\ widths[k + 1] \in Nat
    <3>1. k + 1 \in 1..n /\ (k + 1) - 1 = k
      OBVIOUS
    <3> QED
      BY <1>3, <3>1
  <2>3. at[k + 1] \in Nat /\ at[k] <= at[k + 1]
    BY <2>1, <2>2
  <2>4. ASSUME NEW j \in 0..(k + 1) PROVE at[j] \in Nat /\ at[j] <= at[k + 1]
    <3>1. CASE j = k + 1
      BY <2>3, <3>1
    <3>2. CASE j # k + 1
      <4>1. j \in 0..k
        BY <3>2
      <4>2. at[j] \in Nat /\ at[j] <= at[k]
        BY <2>1, <4>1
      <4> QED
        BY <2>1, <2>3, <4>2
    <3> QED
      BY <3>1, <3>2
  <2> QED
    BY <2>3, <2>4
<1> HIDE DEF S
<1>6. Nat \subseteq S
  BY <1>4, <1>5, NumberInduction
<1>7. \A k \in 0..n : at[k] \in Nat /\ \A j \in 0..k : at[j] <= at[k]
  BY <1>6 DEF S
<1> QED
  BY <1>3, <1>7 DEF at

-----------------------------------------------------------------------------
(* Sequences, of whatever they hold                                        *)

IsSeq(s) == s \in Seq(ToSet(s))

LEMMA SeqParts ==
  ASSUME NEW s, IsSeq(s)
  PROVE  /\ Len(s) \in Nat /\ DOMAIN s = 1..Len(s) /\ s = [i \in 1..Len(s) |-> s[i]]
         /\ \A i \in 1..Len(s) : s[i] \in ToSet(s)
<1> DEFINE S == ToSet(s)
<1>1. s \in Seq(S)
  BY DEF IsSeq
<1> HIDE DEF S
<1>2. /\ Len(s) \in Nat /\ DOMAIN s = 1..Len(s) /\ s = [i \in 1..Len(s) |-> s[i]]
      /\ \A i \in 1..Len(s) : s[i] \in S
  BY <1>1
<1> QED
  BY <1>2 DEF S

LEMMA FunctionIsSeq ==
  ASSUME NEW n \in Nat, NEW s, s = [i \in 1..n |-> s[i]]
  PROVE  IsSeq(s) /\ Len(s) = n /\ DOMAIN s = 1..n
<1> DEFINE S == {s[i] : i \in 1..n}
<1>1. DOMAIN s = 1..n /\ \A i \in 1..n : s[i] \in S
  OBVIOUS
<1>2. S = ToSet(s)
  BY <1>1 DEF ToSet
<1> HIDE DEF S
<1>3. s \in Seq(S) /\ Len(s) = n
  BY <1>1
<1> QED
  BY <1>1, <1>2, <1>3 DEF IsSeq

LEMMA SeqOfAny ==
  ASSUME NEW S, NEW s \in Seq(S)
  PROVE  IsSeq(s) /\ \A i \in 1..Len(s) : s[i] \in S
<1>1. Len(s) \in Nat /\ s = [i \in 1..Len(s) |-> s[i]] /\ \A i \in 1..Len(s) : s[i] \in S
  OBVIOUS
<1> QED
  BY <1>1, FunctionIsSeq

\* What a concatenation holds.
LEMMA ConcatGives ==
  ASSUME NEW s, NEW t, IsSeq(s), IsSeq(t)
  PROVE  /\ IsSeq(s \o t) /\ Len(s \o t) = Len(s) + Len(t)
         /\ \A i \in 1..Len(s) : (s \o t)[i] = s[i]
         /\ \A i \in 1..Len(t) : (s \o t)[Len(s) + i] = t[i]
<1> DEFINE S == ToSet(s) \cup ToSet(t)
           A == ToSet(s)
           B == ToSet(t)
           c == s \o t
<1>1. s \in Seq(S) /\ t \in Seq(S)
  <2>1. s \in Seq(A) /\ A \subseteq S /\ t \in Seq(B) /\ B \subseteq S
    BY DEF IsSeq
  <2> HIDE DEF A, B, S
  <2> QED
    BY <2>1
<1> HIDE DEF S
<1>2. /\ c \in Seq(S) /\ Len(c) = Len(s) + Len(t)
      /\ \A i \in 1..Len(s) : c[i] = s[i]
      /\ \A i \in 1..Len(t) : c[Len(s) + i] = t[i]
  BY <1>1
<1>3. IsSeq(c)
  BY <1>2, SeqOfAny
<1> QED
  BY <1>2, <1>3

\* u is s, and then t.
Joins(u, s, t) ==
  /\ IsSeq(u) /\ Len(u) = Len(s) + Len(t)
  /\ \A i \in 1..Len(s) : u[i] = s[i]
  /\ \A i \in 1..Len(t) : u[Len(s) + i] = t[i]

LEMMA ConcatJoins ==
  ASSUME NEW s, NEW t, IsSeq(s), IsSeq(t)
  PROVE  Joins(s \o t, s, t)
BY ConcatGives DEF Joins

FlattenOf(u, seqs, n) ==
  u = [i \in 1..n |-> IF i = 1 THEN seqs[i] ELSE u[i - 1] \o seqs[i]]

\* The recursion of FlattenSeq defines a function, however many sequences there are.
LEMMA FlattensExist ==
  ASSUME NEW seqs, NEW n \in Nat, n # 0
  PROVE  \E u : FlattenOf(u, seqs, n)
<1> DEFINE S == {k \in Nat : \E u : FlattenOf(u, seqs, k + 1)}
<1>1. 0 \in S
  <2>1. FlattenOf([i \in {1} |-> seqs[1]], seqs, 0 + 1)
    <3>1. 1..(0 + 1) = {1}
      OBVIOUS
    <3> QED
      BY <3>1 DEF FlattenOf
  <2> QED
    BY <2>1
<1>2. ASSUME NEW k \in Nat, k \in S PROVE k + 1 \in S
  <2> DEFINE m == k + 1
  <2>1. PICK u : FlattenOf(u, seqs, m)
    BY <1>2
  <2> DEFINE v == [j \in 1..(m + 1) |-> IF j = m + 1 THEN u[m] \o seqs[m + 1] ELSE u[j]]
  <2>2. \A j \in 1..m : u[j] = IF j = 1 THEN seqs[j] ELSE u[j - 1] \o seqs[j]
    BY <2>1, Zenon DEF FlattenOf
  <2>3. ASSUME NEW j \in 1..(m + 1)
        PROVE  v[j] = IF j = 1 THEN seqs[j] ELSE v[j - 1] \o seqs[j]
    <3>1. CASE j = m + 1
      <4>1. j # 1 /\ j - 1 = m /\ m \in 1..(m + 1) /\ m # m + 1
        BY <3>1
      <4>2. v[j] = u[m] \o seqs[j]
        <5> HIDE DEF m
        <5> QED
          BY <3>1
      <4>3. v[m] = u[m]
        BY <4>1
      <4> QED
        BY <4>1, <4>2, <4>3
    <3>2. CASE j # m + 1
      <4>1. j \in 1..m
        BY <3>2
      <4>2. v[j] = u[j]
        BY <3>2
      <4>3. j # 1 => j - 1 \in 1..(m + 1) /\ j - 1 # m + 1
        BY <4>1
      <4>4. j # 1 => v[j - 1] = u[j - 1]
        BY <4>3
      <4> HIDE DEF v
      <4> QED
        BY <4>1, <4>2, <4>4, <2>2
    <3> QED
      BY <3>1, <3>2
  <2>4. v = [j \in 1..(m + 1) |-> v[j]]
    OBVIOUS
  <2> HIDE DEF v
  <2>5. FlattenOf(v, seqs, m + 1)
    BY <2>3, <2>4 DEF FlattenOf
  <2> QED
    BY <2>5
<1> HIDE DEF S
<1>3. n - 1 \in S
  <2>1. Nat \subseteq S
    BY <1>1, <1>2, NumberInduction
  <2> QED
    BY <2>1
<1>4. (n - 1) + 1 = n
  OBVIOUS
<1> QED
  BY <1>3, <1>4 DEF S

LEMMA FlattenIsStepwise ==
  ASSUME NEW seqs, Len(seqs) \in Nat, Len(seqs) # 0
  PROVE  \E u : FlattenOf(u, seqs, Len(seqs)) /\ FlattenSeq(seqs) = u[Len(seqs)]
<1>1. (CHOOSE u : FlattenOf(u, seqs, Len(seqs)))[Len(seqs)] = FlattenSeq(seqs)
  BY DEF FlattenSeq, FlattenOf
<1>2. FlattenOf(CHOOSE u : FlattenOf(u, seqs, Len(seqs)), seqs, Len(seqs))
  BY FlattensExist
<1> QED
  BY <1>1, <1>2

\* Everything in the first n sequences, and nothing else.
Gathers(c, seqs, n) ==
  /\ IsSeq(c)
  /\ \A k \in 1..Len(c) : \E i \in 1..n : \E j \in 1..Len(seqs[i]) : c[k] = seqs[i][j]
  /\ \A i \in 1..n : \A j \in 1..Len(seqs[i]) : \E k \in 1..Len(c) : c[k] = seqs[i][j]

LEMMA GathersMore ==
  ASSUME NEW seqs, NEW n \in Nat, NEW c, Gathers(c, seqs, n), IsSeq(seqs[n + 1])
  PROVE  Gathers(c \o seqs[n + 1], seqs, n + 1)
<1> DEFINE d == c \o seqs[n + 1]
           last == seqs[n + 1]
<1>1. /\ IsSeq(d) /\ Len(d) = Len(c) + Len(last)
      /\ \A i \in 1..Len(c) : d[i] = c[i]
      /\ \A i \in 1..Len(last) : d[Len(c) + i] = last[i]
  BY ConcatGives DEF Gathers
<1>2. Len(c) \in Nat /\ Len(last) \in Nat
  BY SeqParts DEF Gathers
<1> HIDE DEF d, last
<1>3. ASSUME NEW k \in 1..Len(d)
      PROVE  \E i \in 1..(n + 1) : \E j \in 1..Len(seqs[i]) : d[k] = seqs[i][j]
  <2>1. CASE k \in 1..Len(c)
    <3>1. PICK i \in 1..n : \E j \in 1..Len(seqs[i]) : c[k] = seqs[i][j]
      BY <2>1 DEF Gathers
    <3>2. i \in 1..(n + 1)
      OBVIOUS
    <3> QED
      BY <1>1, <2>1, <3>1, <3>2
  <2>2. CASE k \notin 1..Len(c)
    <3>1. k - Len(c) \in 1..Len(last) /\ Len(c) + (k - Len(c)) = k
      BY <1>1, <1>2, <2>2
    <3>2. d[k] = last[k - Len(c)]
      BY <1>1, <3>1
    <3>3. n + 1 \in 1..(n + 1)
      OBVIOUS
    <3> QED
      BY <3>1, <3>2, <3>3 DEF last
  <2> QED
    BY <2>1, <2>2
<1>4. ASSUME NEW i \in 1..(n + 1), NEW j \in 1..Len(seqs[i])
      PROVE  \E k \in 1..Len(d) : d[k] = seqs[i][j]
  <2>1. CASE i = n + 1
    <3>1. j \in 1..Len(last) /\ seqs[i][j] = last[j]
      BY <2>1 DEF last
    <3>2. Len(c) + j \in 1..Len(d)
      BY <1>1, <1>2, <3>1
    <3> QED
      BY <1>1, <3>1, <3>2
  <2>2. CASE i # n + 1
    <3>1. i \in 1..n
      BY <2>2
    <3>2. PICK k \in 1..Len(c) : c[k] = seqs[i][j]
      BY <3>1 DEF Gathers
    <3>3. k \in 1..Len(d)
      BY <1>1, <1>2
    <3> QED
      BY <1>1, <3>2, <3>3
  <2> QED
    BY <2>1, <2>2
<1>5. IsSeq(d)
  BY <1>1
<1>6. Gathers(d, seqs, n + 1)
  BY <1>3, <1>4, <1>5 DEF Gathers
<1> QED
  BY <1>6 DEF d

\* What FlattenSeq holds.
LEMMA FlattenGathers ==
  ASSUME NEW seqs, IsSeq(seqs), \A i \in 1..Len(seqs) : IsSeq(seqs[i])
  PROVE  Gathers(FlattenSeq(seqs), seqs, Len(seqs))
<1>1. Len(seqs) \in Nat
  BY SeqParts
<1>2. CASE Len(seqs) = 0
  <2>1. FlattenSeq(seqs) = seqs
    BY <1>2 DEF FlattenSeq
  <2> QED
    BY <1>2, <2>1 DEF Gathers
<1>3. CASE Len(seqs) # 0
  <2>1. PICK u : FlattenOf(u, seqs, Len(seqs)) /\ FlattenSeq(seqs) = u[Len(seqs)]
    BY <1>1, <1>3, FlattenIsStepwise
  <2>2. \A i \in 1..Len(seqs) : u[i] = IF i = 1 THEN seqs[i] ELSE u[i - 1] \o seqs[i]
    BY <2>1, Zenon DEF FlattenOf
  <2> DEFINE S == {k \in Nat : k + 1 <= Len(seqs) => Gathers(u[k + 1], seqs, k + 1)}
  <2>3. 0 \in S
    <3> SUFFICES ASSUME 1 <= Len(seqs) PROVE Gathers(u[1], seqs, 1)
      OBVIOUS
    <3>1. 1 \in 1..Len(seqs)
      BY <1>1
    <3>2. u[1] = seqs[1]
      BY <2>2, <3>1
    <3>3. IsSeq(seqs[1])
      BY <3>1
    <3>4. \A i \in 1..1 : i = 1
      OBVIOUS
    <3>5. 1 \in 1..1
      OBVIOUS
    <3> QED
      BY <3>2, <3>3, <3>4, <3>5 DEF Gathers
  <2>4. ASSUME NEW k \in Nat, k \in S PROVE k + 1 \in S
    <3> DEFINE n == k + 1
    <3> SUFFICES ASSUME n + 1 <= Len(seqs) PROVE Gathers(u[n + 1], seqs, n + 1)
      OBVIOUS
    <3>1. n + 1 \in 1..Len(seqs) /\ n + 1 # 1 /\ (n + 1) - 1 = n /\ n \in Nat /\ n <= Len(seqs)
      BY <1>1
    <3>2. Gathers(u[n], seqs, n)
      BY <2>4, <3>1
    <3> HIDE DEF n
    <3>3. u[n + 1] = u[n] \o seqs[n + 1]
      BY <2>2, <3>1
    <3> QED
      BY <3>1, <3>2, <3>3, GathersMore
  <2> HIDE DEF S
  <2>5. Len(seqs) - 1 \in S
    <3>1. Nat \subseteq S
      BY <2>3, <2>4, NumberInduction
    <3> QED
      BY <1>1, <1>3, <3>1
  <2>6. (Len(seqs) - 1) + 1 = Len(seqs)
    BY <1>1
  <2> QED
    BY <2>1, <2>5, <2>6 DEF S
<1> QED
  BY <1>2, <1>3

\* The first n sequences, each of length four, one after another.
FoursOf(c, seqs, n) ==
  /\ IsSeq(c) /\ Len(c) = 4 * n
  /\ \A i \in 1..n : \A j \in 1..4 : c[4 * (i - 1) + j] = seqs[i][j]

LEMMA FoursMore ==
  ASSUME NEW seqs, NEW n \in Nat, NEW c, FoursOf(c, seqs, n),
         IsSeq(seqs[n + 1]), Len(seqs[n + 1]) = 4
  PROVE  FoursOf(c \o seqs[n + 1], seqs, n + 1)
<1> DEFINE d == c \o seqs[n + 1]
           last == seqs[n + 1]
<1>1. /\ IsSeq(d) /\ Len(d) = 4 * n + 4
      /\ \A i \in 1..(4 * n) : d[i] = c[i]
      /\ \A i \in 1..4 : d[4 * n + i] = last[i]
  <2>1. Len(c) = 4 * n /\ IsSeq(c) /\ Len(last) = 4 /\ IsSeq(last)
    BY DEF FoursOf
  <2>2. Joins(d, c, last)
    BY <2>1, ConcatJoins, Zenon
  <2> HIDE DEF d, last
  <2> QED
    BY <2>1, <2>2 DEF Joins
<1> HIDE DEF d, last
<1>2. ASSUME NEW i \in 1..(n + 1), NEW j \in 1..4
      PROVE  d[4 * (i - 1) + j] = seqs[i][j]
  <2>1. CASE i = n + 1
    <3>1. 4 * (i - 1) + j = 4 * n + j
      BY <2>1
    <3> QED
      BY <1>1, <2>1, <3>1 DEF last
  <2>2. CASE i # n + 1
    <3>1. i \in 1..n /\ 4 * (i - 1) + j \in 1..(4 * n)
      BY <2>2
    <3>2. c[4 * (i - 1) + j] = seqs[i][j]
      BY <3>1 DEF FoursOf
    <3> QED
      BY <1>1, <3>1, <3>2
  <2> QED
    BY <2>1, <2>2
<1>3. FoursOf(d, seqs, n + 1)
  BY <1>1, <1>2 DEF FoursOf
<1> QED
  BY <1>3 DEF d

LEMMA FlattenFours ==
  ASSUME NEW seqs, IsSeq(seqs), \A i \in 1..Len(seqs) : IsSeq(seqs[i]) /\ Len(seqs[i]) = 4
  PROVE  FoursOf(FlattenSeq(seqs), seqs, Len(seqs))
<1>1. Len(seqs) \in Nat
  BY SeqParts
<1>2. CASE Len(seqs) = 0
  <2>1. FlattenSeq(seqs) = seqs
    BY <1>2 DEF FlattenSeq
  <2> QED
    BY <1>2, <2>1 DEF FoursOf
<1>3. CASE Len(seqs) # 0
  <2>1. PICK u : FlattenOf(u, seqs, Len(seqs)) /\ FlattenSeq(seqs) = u[Len(seqs)]
    BY <1>1, <1>3, FlattenIsStepwise
  <2>2. \A i \in 1..Len(seqs) : u[i] = IF i = 1 THEN seqs[i] ELSE u[i - 1] \o seqs[i]
    BY <2>1, Zenon DEF FlattenOf
  <2> DEFINE S == {k \in Nat : k + 1 <= Len(seqs) => FoursOf(u[k + 1], seqs, k + 1)}
  <2>3. 0 \in S
    <3> SUFFICES ASSUME 1 <= Len(seqs) PROVE FoursOf(u[1], seqs, 1)
      OBVIOUS
    <3>1. 1 \in 1..Len(seqs)
      BY <1>1
    <3>2. u[1] = seqs[1]
      BY <2>2, <3>1
    <3>3. IsSeq(seqs[1]) /\ Len(seqs[1]) = 4
      BY <3>1
    <3>4. \A i \in 1..1 : \A j \in 1..4 : i = 1 /\ 4 * (i - 1) + j = j
      OBVIOUS
    <3> QED
      BY <3>2, <3>3, <3>4 DEF FoursOf
  <2>4. ASSUME NEW k \in Nat, k \in S PROVE k + 1 \in S
    <3> DEFINE n == k + 1
    <3> SUFFICES ASSUME n + 1 <= Len(seqs) PROVE FoursOf(u[n + 1], seqs, n + 1)
      OBVIOUS
    <3>1. n + 1 \in 1..Len(seqs) /\ n + 1 # 1 /\ (n + 1) - 1 = n /\ n \in Nat /\ n <= Len(seqs)
      BY <1>1
    <3>2. FoursOf(u[n], seqs, n)
      BY <2>4, <3>1
    <3> HIDE DEF n
    <3>3. u[n + 1] = u[n] \o seqs[n + 1]
      BY <2>2, <3>1
    <3> QED
      BY <3>1, <3>2, <3>3, FoursMore
  <2> HIDE DEF S
  <2>5. Len(seqs) - 1 \in S
    <3>1. Nat \subseteq S
      BY <2>3, <2>4, NumberInduction
    <3> QED
      BY <1>1, <1>3, <3>1
  <2>6. (Len(seqs) - 1) + 1 = Len(seqs)
    BY <1>1
  <2> QED
    BY <2>1, <2>5, <2>6 DEF S
<1> QED
  BY <1>2, <1>3

-----------------------------------------------------------------------------
(* What Expand makes of a manifest                                         *)

TypeItem(m, i) == Item("type", m.types[i].c_type, Empty, {}, 0)
FieldItem(m, i, f) ==
  Item("field", m.types[i].c_type, f, {}, <<"offsetof", m.types[i].c_type, f>>)
ShimItem(m, i, bf) == Item("bitfield", m.types[i].c_type, bf, {}, AccessorId(m, i, bf))

FieldItems(m, i) == [k \in DOMAIN m.types[i].fields |-> FieldItem(m, i, m.types[i].fields[k])]
Shims(m, i) == [k \in DOMAIN m.types[i].bitfields |-> ShimItem(m, i, m.types[i].bitfields[k])]
ShimItems(m, i) == IF m.types[i].policy = "accessor_shim" THEN Shims(m, i) ELSE <<>>

TypeSeqs(m) == [i \in DOMAIN m.types |-> TypeItems(m, i)]
ConstSeq(m) == [i \in DOMAIN m.constants |-> ConstItem(m.constants[i])]
EnumSeqs(m) == [i \in DOMAIN m.enums |-> EnumItems(m.enums[i])]

\* What the records of a section of types are.
OfType(m, i, r) ==
  \/ r = TypeItem(m, i)
  \/ \E k \in 1..Len(m.types[i].fields) : r = FieldItem(m, i, m.types[i].fields[k])
  \/ /\ m.types[i].policy = "accessor_shim"
     /\ \E k \in 1..Len(m.types[i].bitfields) : r = ShimItem(m, i, m.types[i].bitfields[k])

OfEnum(e, r) == ~e.extract_all /\ \E k \in 1..Len(e.values) : r = EnumItem(e, e.values[k])

\* What every record comes from.
Comes(m, r) ==
  \/ \E i \in 1..Len(m.types) : OfType(m, i, r)
  \/ \E i \in 1..Len(m.constants) : r = ConstItem(m.constants[i])
  \/ \E i \in 1..Len(m.enums) : OfEnum(m.enums[i], r)

\* What is known of a manifest.
LEMMA ManifestHas ==
  ASSUME NEW m \in Manifests
  PROVE  /\ IsSeq(m.types) /\ IsSeq(m.enums) /\ IsSeq(m.constants)
         /\ m.set \in Given /\ Length[m.set] <= MaxSetNameLen
         /\ \A i \in 1..Len(m.types) :
              /\ m.types[i].c_type \in Given
              /\ IsSeq(m.types[i].fields) /\ IsSeq(m.types[i].bitfields)
              /\ \A k \in 1..Len(m.types[i].fields) : m.types[i].fields[k] \in Given
              /\ \A k \in 1..Len(m.types[i].bitfields) : m.types[i].bitfields[k] \in Given
         /\ \A i \in 1..Len(m.constants) : m.constants[i] \in Given
         /\ \A i \in 1..Len(m.enums) :
              /\ m.enums[i].c_type \in Given /\ IsSeq(m.enums[i].values)
              /\ \A k \in 1..Len(m.enums[i].values) : m.enums[i].values[k] \in Given
         /\ Len(Expand(m)) <= MaxRecordCount /\ DescSize(m) <= MaxDescSize
<1>1. IsSeq(m.types) /\ IsSeq(m.enums)
  BY ManifestsAssumption DEF IsSeq
<1>2. /\ m.set \in Given /\ Length[m.set] <= MaxSetNameLen
      /\ m.constants \in Seq(Given)
      /\ Len(Expand(m)) <= MaxRecordCount /\ DescSize(m) <= MaxDescSize
      /\ \A t \in ToSet(m.types) :
           t.c_type \in Given /\ t.fields \in Seq(Given) /\ t.bitfields \in Seq(Given)
      /\ \A e \in ToSet(m.enums) : e.c_type \in Given /\ e.values \in Seq(Given)
  BY ManifestsAssumption, Zenon
<1>3. IsSeq(m.constants) /\ \A i \in 1..Len(m.constants) : m.constants[i] \in Given
  BY <1>2, SeqOfAny, Zenon
<1>4. ASSUME NEW i \in 1..Len(m.types)
      PROVE  /\ m.types[i].c_type \in Given
             /\ IsSeq(m.types[i].fields) /\ IsSeq(m.types[i].bitfields)
             /\ \A k \in 1..Len(m.types[i].fields) : m.types[i].fields[k] \in Given
             /\ \A k \in 1..Len(m.types[i].bitfields) : m.types[i].bitfields[k] \in Given
  <2>1. m.types[i] \in ToSet(m.types)
    BY <1>1, SeqParts, Zenon
  <2>2. m.types[i].c_type \in Given /\ m.types[i].fields \in Seq(Given) /\ m.types[i].bitfields \in Seq(Given)
    BY <1>2, <2>1, Zenon
  <2> QED
    BY <2>2, SeqOfAny, Zenon
<1>5. ASSUME NEW i \in 1..Len(m.enums)
      PROVE  /\ m.enums[i].c_type \in Given /\ IsSeq(m.enums[i].values)
             /\ \A k \in 1..Len(m.enums[i].values) : m.enums[i].values[k] \in Given
  <2>1. m.enums[i] \in ToSet(m.enums)
    BY <1>1, SeqParts, Zenon
  <2>2. m.enums[i].c_type \in Given /\ m.enums[i].values \in Seq(Given)
    BY <1>2, <2>1, Zenon
  <2> QED
    BY <2>2, SeqOfAny, Zenon
<1> QED
  BY <1>1, <1>2, <1>3, <1>4, <1>5, Zenon

LEMMA TypeItemsAre ==
  ASSUME NEW m, NEW i
  PROVE  TypeItems(m, i) = (<<TypeItem(m, i)>> \o FieldItems(m, i)) \o ShimItems(m, i)
BY Zenon DEF TypeItems, TypeItem, FieldItems, FieldItem, ShimItems, Shims, ShimItem

\* Sequences of length one.
LEMMA OneIsSeq ==
  ASSUME NEW x
  PROVE  IsSeq(<<x>>) /\ Len(<<x>>) = 1 /\ <<x>>[1] = x
<1>1. Len(<<x>>) = 1 /\ <<x>>[1] = x /\ <<x>> \in Seq({x})
  OBVIOUS
<1> QED
  BY <1>1, SeqOfAny

LEMMA NoneIsSeq == IsSeq(<<>>) /\ Len(<<>>) = 0
<1>1. <<>> \in Seq({}) /\ Len(<<>>) = 0
  OBVIOUS
<1> QED
  BY <1>1, SeqOfAny

\* A function over the places of a sequence is a sequence.
LEMMA MapIsSeq ==
  ASSUME NEW s, IsSeq(s), NEW u, u = [k \in DOMAIN s |-> u[k]]
  PROVE  IsSeq(u) /\ Len(u) = Len(s) /\ DOMAIN u = 1..Len(s)
<1>1. DOMAIN s = 1..Len(s) /\ Len(s) \in Nat
  BY SeqParts
<1>2. u = [k \in 1..Len(s) |-> u[k]]
  BY <1>1
<1> QED
  BY <1>1, <1>2, FunctionIsSeq

\* The records of a section of types.
LEMMA TypeItemsHold ==
  ASSUME NEW m \in Manifests, NEW i \in 1..Len(m.types)
  PROVE  /\ IsSeq(TypeItems(m, i))
         /\ \A k \in 1..Len(TypeItems(m, i)) : OfType(m, i, TypeItems(m, i)[k])
         /\ m.types[i].policy = "accessor_shim" =>
              \A k \in 1..Len(m.types[i].bitfields) :
                \E j \in 1..Len(TypeItems(m, i)) :
                  TypeItems(m, i)[j] = ShimItem(m, i, m.types[i].bitfields[k])
<1> DEFINE t == m.types[i]
           a == <<TypeItem(m, i)>>
           b == FieldItems(m, i)
           c == ShimItems(m, i)
<1>1. IsSeq(t.fields) /\ IsSeq(t.bitfields)
  BY ManifestHas
<1>2. IsSeq(a) /\ Len(a) = 1 /\ a[1] = TypeItem(m, i)
  BY OneIsSeq
<1>3. /\ IsSeq(b) /\ Len(b) = Len(t.fields)
      /\ \A k \in 1..Len(b) : b[k] = FieldItem(m, i, t.fields[k])
  <2>1. b = [k \in DOMAIN t.fields |-> b[k]] /\ \A k \in DOMAIN t.fields : b[k] = FieldItem(m, i, t.fields[k])
    BY DEF FieldItems
  <2> HIDE DEF b, t
  <2> QED
    BY <1>1, <2>1, MapIsSeq, SeqParts, Zenon
<1>4. /\ IsSeq(c)
      /\ \A k \in 1..Len(c) : t.policy = "accessor_shim" /\ k \in 1..Len(t.bitfields) /\ c[k] = ShimItem(m, i, t.bitfields[k])
      /\ t.policy = "accessor_shim" => Len(c) = Len(t.bitfields)
  <2>1. CASE t.policy = "accessor_shim"
    <3>1. c = Shims(m, i)
      BY <2>1 DEF ShimItems
    <3>2. c = [k \in DOMAIN t.bitfields |-> c[k]] /\ \A k \in DOMAIN t.bitfields : c[k] = ShimItem(m, i, t.bitfields[k])
      BY <3>1 DEF Shims
    <3> HIDE DEF c, t
    <3> QED
      BY <1>1, <2>1, <3>2, MapIsSeq, SeqParts, Zenon
  <2>2. CASE t.policy # "accessor_shim"
    <3>1. c = <<>>
      BY <2>2 DEF ShimItems
    <3> HIDE DEF c
    <3>2. IsSeq(c) /\ 1..Len(c) = {}
      BY <3>1, NoneIsSeq
    <3> HIDE DEF t
    <3> QED
      BY <2>2, <3>2
  <2> QED
    BY <2>1, <2>2
<1> DEFINE d == a \o b
           e == d \o c
<1>5. Joins(d, a, b)
  BY <1>2, <1>3, ConcatJoins, Zenon
<1>6. Joins(e, d, c)
  <2>1. IsSeq(d)
    BY <1>5 DEF Joins
  <2> QED
    BY <2>1, <1>4, ConcatJoins, Zenon
<1>7. e = TypeItems(m, i)
  BY TypeItemsAre
<1> HIDE DEF a, b, c, d, e
<1>8. Len(a) = 1 /\ Len(b) \in Nat /\ Len(c) \in Nat /\ Len(d) = 1 + Len(b) /\ Len(e) = Len(d) + Len(c)
  <2>1. Len(b) \in Nat /\ Len(c) \in Nat
    BY <1>3, <1>4, SeqParts
  <2> QED
    BY <2>1, <1>2, <1>5, <1>6 DEF Joins
<1>9. ASSUME NEW k \in 1..Len(e) PROVE OfType(m, i, e[k])
  <2>1. CASE k = 1
    <3>1. k \in 1..Len(d) /\ k \in 1..Len(a)
      BY <2>1, <1>8
    <3>2. e[k] = d[k] /\ d[k] = a[k]
      BY <3>1, <1>5, <1>6 DEF Joins
    <3> QED
      BY <2>1, <3>2, <1>2 DEF OfType
  <2>2. CASE k \in 2..(1 + Len(b))
    <3>1. k \in 1..Len(d) /\ k - 1 \in 1..Len(b) /\ Len(a) + (k - 1) = k
      BY <2>2, <1>8
    <3>2. e[k] = d[k] /\ d[k] = b[k - 1]
      BY <3>1, <1>5, <1>6 DEF Joins
    <3> QED
      BY <3>1, <3>2, <1>3 DEF OfType
  <2>3. CASE k \in (2 + Len(b))..Len(e)
    <3>1. k - Len(d) \in 1..Len(c) /\ Len(d) + (k - Len(d)) = k
      BY <2>3, <1>8
    <3>2. e[k] = c[k - Len(d)]
      BY <3>1, <1>6 DEF Joins
    <3> QED
      BY <3>1, <3>2, <1>4 DEF OfType
  <2> QED
    BY <2>1, <2>2, <2>3, <1>8
<1>10. ASSUME t.policy = "accessor_shim", NEW k \in 1..Len(t.bitfields)
       PROVE  \E j \in 1..Len(e) : e[j] = ShimItem(m, i, t.bitfields[k])
  <2>1. k \in 1..Len(c) /\ Len(c) = Len(t.bitfields)
    BY <1>4, <1>10
  <2>2. Len(d) + k \in 1..Len(e)
    BY <1>8, <2>1
  <2>3. e[Len(d) + k] = c[k]
    BY <1>6, <2>1 DEF Joins
  <2> QED
    BY <2>1, <2>2, <2>3, <1>4
<1>11. IsSeq(e)
  BY <1>6 DEF Joins
<1> QED
  BY <1>7, <1>9, <1>10, <1>11

\* The records of an enumeration.
LEMMA EnumItemsHold ==
  ASSUME NEW m \in Manifests, NEW i \in 1..Len(m.enums)
  PROVE  /\ IsSeq(EnumItems(m.enums[i]))
         /\ \A k \in 1..Len(EnumItems(m.enums[i])) : OfEnum(m.enums[i], EnumItems(m.enums[i])[k])
<1> DEFINE e == m.enums[i]
           c == EnumItems(e)
<1>1. IsSeq(e.values)
  BY ManifestHas
<1>2. CASE e.extract_all
  <2>1. c = <<>>
    BY <1>2 DEF EnumItems
  <2> HIDE DEF c
  <2>2. IsSeq(c) /\ 1..Len(c) = {}
    BY <2>1, NoneIsSeq
  <2> QED
    BY <2>2 DEF c
<1>3. CASE ~e.extract_all
  <2>1. c = [k \in DOMAIN e.values |-> c[k]] /\ \A k \in DOMAIN e.values : c[k] = EnumItem(e, e.values[k])
    BY <1>3 DEF EnumItems
  <2>2. c = EnumItems(m.enums[i])
    OBVIOUS
  <2> HIDE DEF c
  <2>3. IsSeq(c) /\ Len(c) = Len(e.values) /\ DOMAIN c = 1..Len(c)
    BY <1>1, <2>1, MapIsSeq
  <2>4. \A k \in 1..Len(c) : OfEnum(e, c[k])
    <3>1. DOMAIN e.values = 1..Len(c)
      BY <1>1, <2>3, SeqParts
    <3> QED
      BY <1>3, <2>1, <2>3, <3>1 DEF OfEnum
  <2> HIDE DEF e
  <2> QED
    BY <2>2, <2>3, <2>4 DEF e
<1> QED
  BY <1>2, <1>3

\* The records of a manifest come from its items, and every accessor that a
\* section asks for has its record.
LEMMA ExpandHolds ==
  ASSUME NEW m \in Manifests
  PROVE  /\ IsSeq(Expand(m))
         /\ \A k \in 1..Len(Expand(m)) : Comes(m, Expand(m)[k])
         /\ \A i \in 1..Len(m.types) : m.types[i].policy = "accessor_shim" =>
              \A k \in 1..Len(m.types[i].bitfields) :
                \E j \in 1..Len(Expand(m)) :
                  Expand(m)[j] = ShimItem(m, i, m.types[i].bitfields[k])
<1> DEFINE tt == TypeSeqs(m)
           cc == ConstSeq(m)
           ee == EnumSeqs(m)
           a == FlattenSeq(tt)
           c == FlattenSeq(ee)
           d == a \o cc
           e == d \o c
<1>1. e = Expand(m)
  BY DEF Expand, TypeSeqs, ConstSeq, EnumSeqs
<1>2. /\ IsSeq(tt) /\ Len(tt) = Len(m.types)
      /\ \A i \in 1..Len(tt) : tt[i] = TypeItems(m, i)
  <2>1. tt = [i \in DOMAIN m.types |-> tt[i]] /\ \A i \in DOMAIN m.types : tt[i] = TypeItems(m, i)
    BY DEF TypeSeqs
  <2>2. IsSeq(m.types)
    BY ManifestHas
  <2> HIDE DEF tt
  <2> QED
    BY <2>1, <2>2, MapIsSeq, SeqParts, Zenon
<1>3. /\ IsSeq(cc) /\ Len(cc) = Len(m.constants)
      /\ \A i \in 1..Len(cc) : cc[i] = ConstItem(m.constants[i])
  <2>1. cc = [i \in DOMAIN m.constants |-> cc[i]] /\ \A i \in DOMAIN m.constants : cc[i] = ConstItem(m.constants[i])
    BY DEF ConstSeq
  <2>2. IsSeq(m.constants)
    BY ManifestHas
  <2> HIDE DEF cc
  <2> QED
    BY <2>1, <2>2, MapIsSeq, SeqParts, Zenon
<1>4. /\ IsSeq(ee) /\ Len(ee) = Len(m.enums)
      /\ \A i \in 1..Len(ee) : ee[i] = EnumItems(m.enums[i])
  <2>1. ee = [i \in DOMAIN m.enums |-> ee[i]] /\ \A i \in DOMAIN m.enums : ee[i] = EnumItems(m.enums[i])
    BY DEF EnumSeqs
  <2>2. IsSeq(m.enums)
    BY ManifestHas
  <2> HIDE DEF ee
  <2> QED
    BY <2>1, <2>2, MapIsSeq, SeqParts, Zenon
<1> HIDE DEF tt, cc, ee
<1>5. Gathers(a, tt, Len(tt))
  <2>1. \A i \in 1..Len(tt) : IsSeq(tt[i])
    BY <1>2, TypeItemsHold
  <2> QED
    BY <1>2, <2>1, FlattenGathers
<1>6. Gathers(c, ee, Len(ee))
  <2>1. \A i \in 1..Len(ee) : IsSeq(ee[i])
    BY <1>4, EnumItemsHold
  <2> QED
    BY <1>4, <2>1, FlattenGathers
<1>7. Joins(d, a, cc)
  <2>1. IsSeq(a)
    BY <1>5 DEF Gathers
  <2> QED
    BY <2>1, <1>3, ConcatJoins, Zenon
<1>8. Joins(e, d, c)
  <2>1. IsSeq(d) /\ IsSeq(c)
    BY <1>6, <1>7 DEF Joins, Gathers
  <2> QED
    BY <2>1, ConcatJoins, Zenon
<1> HIDE DEF a, c, d, e
<1>9. Len(a) \in Nat /\ Len(cc) \in Nat /\ Len(c) \in Nat /\ Len(d) = Len(a) + Len(cc) /\ Len(e) = Len(d) + Len(c)
  <2>1. Len(a) \in Nat /\ Len(cc) \in Nat /\ Len(c) \in Nat
    BY <1>3, <1>5, <1>6, SeqParts DEF Gathers
  <2> QED
    BY <2>1, <1>7, <1>8 DEF Joins
<1>10. ASSUME NEW k \in 1..Len(a)
       PROVE  \E i \in 1..Len(m.types) : OfType(m, i, a[k])
  <2>1. PICK i \in 1..Len(tt) : \E j \in 1..Len(tt[i]) : a[k] = tt[i][j]
    BY <1>5 DEF Gathers
  <2>2. tt[i] = TypeItems(m, i) /\ i \in 1..Len(m.types)
    BY <1>2
  <2> QED
    BY <2>1, <2>2, TypeItemsHold
<1>11. ASSUME NEW k \in 1..Len(c)
       PROVE  \E i \in 1..Len(m.enums) : OfEnum(m.enums[i], c[k])
  <2>1. PICK i \in 1..Len(ee) : \E j \in 1..Len(ee[i]) : c[k] = ee[i][j]
    BY <1>6 DEF Gathers
  <2>2. ee[i] = EnumItems(m.enums[i]) /\ i \in 1..Len(m.enums)
    BY <1>4
  <2> QED
    BY <2>1, <2>2, EnumItemsHold
<1>12. ASSUME NEW k \in 1..Len(e) PROVE Comes(m, e[k])
  <2>1. CASE k \in 1..Len(a)
    <3>1. k \in 1..Len(d)
      BY <1>9, <2>1
    <3>2. e[k] = d[k] /\ d[k] = a[k]
      BY <2>1, <3>1, <1>7, <1>8 DEF Joins
    <3> QED
      BY <2>1, <3>2, <1>10 DEF Comes
  <2>2. CASE k \in (Len(a) + 1)..Len(d)
    <3>1. k \in 1..Len(d) /\ k - Len(a) \in 1..Len(cc) /\ Len(a) + (k - Len(a)) = k
      BY <2>2, <1>9
    <3>2. e[k] = d[k] /\ d[k] = cc[k - Len(a)]
      BY <3>1, <1>7, <1>8 DEF Joins
    <3> QED
      BY <3>1, <3>2, <1>3 DEF Comes
  <2>3. CASE k \in (Len(d) + 1)..Len(e)
    <3>1. k - Len(d) \in 1..Len(c) /\ Len(d) + (k - Len(d)) = k
      BY <2>3, <1>9
    <3>2. e[k] = c[k - Len(d)]
      BY <3>1, <1>8 DEF Joins
    <3> QED
      BY <3>1, <3>2, <1>11 DEF Comes
  <2> QED
    BY <2>1, <2>2, <2>3, <1>9
<1>13. ASSUME NEW i \in 1..Len(m.types), m.types[i].policy = "accessor_shim",
              NEW k \in 1..Len(m.types[i].bitfields)
       PROVE  \E j \in 1..Len(e) : e[j] = ShimItem(m, i, m.types[i].bitfields[k])
  <2>1. PICK j \in 1..Len(TypeItems(m, i)) :
          TypeItems(m, i)[j] = ShimItem(m, i, m.types[i].bitfields[k])
    BY <1>13, TypeItemsHold
  <2>2. tt[i] = TypeItems(m, i) /\ i \in 1..Len(tt)
    BY <1>2
  <2>3. PICK n \in 1..Len(a) : a[n] = ShimItem(m, i, m.types[i].bitfields[k])
    BY <1>5, <2>1, <2>2 DEF Gathers
  <2>4. n \in 1..Len(d) /\ n \in 1..Len(e)
    BY <1>9
  <2>5. e[n] = a[n]
    BY <2>4, <1>7, <1>8 DEF Joins
  <2> QED
    BY <2>3, <2>4, <2>5
<1>14. IsSeq(e)
  BY <1>8 DEF Joins
<1> QED
  BY <1>1, <1>12, <1>13, <1>14

\* What a record of a manifest may say: what the reader asks of each kind.
Sound(r) ==
  /\ r = [kind |-> r.kind, flags |-> r.flags, type_name |-> r.type_name,
          field_name |-> r.field_name, sizeof |-> r.sizeof, alignof |-> r.alignof,
          value |-> r.value]
  /\ r.kind \in {"type", "field", "bitfield", "const", "enum"}
  /\ r.flags \subseteq {"signed"} /\ (r.kind # "enum" => r.flags = {})
  /\ r.type_name \in Given
  /\ IF r.kind \in {"type", "const"} THEN r.field_name = Empty ELSE r.field_name \in Given
  /\ IF r.kind \in {"const", "enum"} THEN r.sizeof = 0 /\ r.alignof = 0
                                     ELSE r.sizeof = 8 /\ r.alignof = 8
  /\ r.kind = "type" => r.value = 0

LEMMA ItemIsSound ==
  ASSUME NEW kind \in {"type", "field", "bitfield", "const", "enum"}, NEW t \in Given, NEW f,
         NEW flags \in SUBSET {"signed"}, kind # "enum" => flags = {},
         IF kind \in {"type", "const"} THEN f = Empty ELSE f \in Given,
         NEW value, kind = "type" => value = 0
  PROVE  Sound(Item(kind, t, f, flags, value))
<1> DEFINE r == Item(kind, t, f, flags, value)
<1>1. /\ r = [kind |-> r.kind, flags |-> r.flags, type_name |-> r.type_name,
              field_name |-> r.field_name, sizeof |-> r.sizeof, alignof |-> r.alignof,
              value |-> r.value]
      /\ r.kind = kind /\ r.flags = flags /\ r.type_name = t /\ r.field_name = f
      /\ r.value = value
      /\ kind \in {"const", "enum"} => r.sizeof = 0 /\ r.alignof = 0
      /\ kind \notin {"const", "enum"} => r.sizeof = 8 /\ r.alignof = 8
  BY DEF Item
<1> HIDE DEF r
<1>2. Sound(r)
  BY <1>1 DEF Sound
<1> QED
  BY <1>2 DEF r

LEMMA ComesSound ==
  ASSUME NEW m \in Manifests, NEW r, Comes(m, r)
  PROVE  Sound(r)
<1>1. ASSUME NEW i \in 1..Len(m.types), OfType(m, i, r) PROVE Sound(r)
  <2>1. m.types[i].c_type \in Given
    BY ManifestHas
  <2>2. CASE r = TypeItem(m, i)
    BY <2>1, <2>2, ItemIsSound DEF TypeItem
  <2>3. ASSUME NEW k \in 1..Len(m.types[i].fields), r = FieldItem(m, i, m.types[i].fields[k])
        PROVE  Sound(r)
    <3>1. m.types[i].fields[k] \in Given
      BY ManifestHas
    <3> QED
      BY <2>1, <2>3, <3>1, ItemIsSound DEF FieldItem
  <2>4. ASSUME NEW k \in 1..Len(m.types[i].bitfields), r = ShimItem(m, i, m.types[i].bitfields[k])
        PROVE  Sound(r)
    <3>1. m.types[i].bitfields[k] \in Given
      BY ManifestHas
    <3> QED
      BY <2>1, <2>4, <3>1, ItemIsSound DEF ShimItem
  <2> QED
    BY <1>1, <2>2, <2>3, <2>4 DEF OfType
<1>2. ASSUME NEW i \in 1..Len(m.constants), r = ConstItem(m.constants[i]) PROVE Sound(r)
  <2>1. m.constants[i] \in Given
    BY ManifestHas
  <2> QED
    BY <1>2, <2>1, ItemIsSound DEF ConstItem
<1>3. ASSUME NEW i \in 1..Len(m.enums), OfEnum(m.enums[i], r) PROVE Sound(r)
  <2>1. PICK k \in 1..Len(m.enums[i].values) : r = EnumItem(m.enums[i], m.enums[i].values[k])
    BY <1>3 DEF OfEnum
  <2>2. m.enums[i].c_type \in Given /\ m.enums[i].values[k] \in Given
    BY ManifestHas
  <2> DEFINE flags == IF m.enums[i].values[k] \in Negative THEN {"signed"} ELSE {}
  <2>3. flags \in SUBSET {"signed"}
    OBVIOUS
  <2>4. r = Item("enum", m.enums[i].c_type, m.enums[i].values[k], flags, <<"enum", m.enums[i].values[k]>>)
    BY <2>1 DEF EnumItem
  <2> HIDE DEF flags
  <2> QED
    BY <2>2, <2>3, <2>4, ItemIsSound
<1> QED
  BY <1>1, <1>2, <1>3 DEF Comes

-----------------------------------------------------------------------------
(* Where the bytes of a note are                                           *)

\* Where the cells begin: the k-th one at Places(cells)[k - 1].
Places(cells) == Offsets(NoteAt, [k \in DOMAIN cells |-> cells[k].w])

LEMMA PlacesAdjoin ==
  ASSUME NEW cells, IsSeq(cells), \A k \in 1..Len(cells) : cells[k].w \in Nat
  PROVE  /\ Places(cells)[0] = NoteAt
         /\ \A k \in 1..Len(cells) : Places(cells)[k] = Places(cells)[k - 1] + cells[k].w
         /\ \A k \in 0..Len(cells) : Places(cells)[k] \in Nat
         /\ \A j, k \in 0..Len(cells) : j <= k => Places(cells)[j] <= Places(cells)[k]
<1> DEFINE w == [k \in DOMAIN cells |-> cells[k].w]
           n == Len(cells)
<1>1. w = [k \in DOMAIN cells |-> w[k]] /\ \A k \in DOMAIN cells : w[k] = cells[k].w
  OBVIOUS
<1>2. Places(cells) = Offsets(NoteAt, w)
  BY DEF Places
<1> HIDE DEF w
<1>3. Len(w) = n /\ n \in Nat /\ \A k \in 1..n : w[k] = cells[k].w
  BY <1>1, MapIsSeq, SeqParts
<1>4. NoteAt \in Nat
  BY DEF NoteAt, StringsAt, TableAt
<1> DEFINE at == Offsets(NoteAt, w)
<1>5. /\ at[0] = NoteAt
      /\ \A k \in 1..Len(w) : at[k] = at[k - 1] + w[k]
      /\ \A k \in 0..Len(w) : at[k] \in Nat
      /\ \A j, k \in 0..Len(w) : j <= k => at[j] <= at[k]
  BY <1>3, <1>4, OffsetsAdjoin
<1> HIDE DEF at
<1>6. Places(cells) = at
  BY <1>2 DEF at
<1> QED
  BY <1>3, <1>5, <1>6

\* A cell that holds something is found where it was placed.
LEMMA PlacedGives ==
  ASSUME NEW cells, IsSeq(cells), \A k \in 1..Len(cells) : cells[k].w \in Nat
  PROVE  /\ Placed(cells).size = Places(cells)[Len(cells)]
         /\ \A k \in 1..Len(cells) : cells[k].w # 0 =>
              /\ Places(cells)[k - 1] \in DOMAIN Placed(cells).at
              /\ Placed(cells).at[Places(cells)[k - 1]] = cells[k]
<1> DEFINE ends == Places(cells)
           filled == {k \in DOMAIN cells : cells[k].w # 0}
           begins == {ends[k - 1] : k \in filled}
           at == [i \in begins |-> cells[CHOOSE k \in filled : ends[k - 1] = i]]
<1>1. Placed(cells).size = ends[Len(cells)] /\ Placed(cells).at = at
  BY DEF Placed, Places
<1>2. DOMAIN cells = 1..Len(cells) /\ Len(cells) \in Nat
  BY SeqParts
<1>3. /\ \A k \in 1..Len(cells) : ends[k] = ends[k - 1] + cells[k].w
      /\ \A k \in 0..Len(cells) : ends[k] \in Nat
      /\ \A j, k \in 0..Len(cells) : j <= k => ends[j] <= ends[k]
  BY PlacesAdjoin
<1> HIDE DEF ends
<1>4. ASSUME NEW j \in filled, NEW k \in filled, j < k PROVE ends[j - 1] # ends[k - 1]
  <2>1. j \in 1..Len(cells) /\ k \in 1..Len(cells) /\ cells[j].w \in Nat /\ cells[j].w # 0
    BY <1>2
  <2>2. j - 1 \in 0..Len(cells) /\ k - 1 \in 0..Len(cells) /\ j \in 0..Len(cells) /\ j <= k - 1
    BY <2>1, <1>2, <1>4
  <2>3. ends[j] = ends[j - 1] + cells[j].w /\ ends[j] <= ends[k - 1] /\ ends[j - 1] \in Nat /\ ends[k - 1] \in Nat
    BY <2>1, <2>2, <1>3
  <2> QED
    BY <2>1, <2>3
<1>5. ASSUME NEW k \in filled
      PROVE  ends[k - 1] \in begins /\ at[ends[k - 1]] = cells[k]
  <2>1. ends[k - 1] \in begins
    OBVIOUS
  <2> DEFINE j == CHOOSE x \in filled : ends[x - 1] = ends[k - 1]
  <2>2. j \in filled /\ ends[j - 1] = ends[k - 1]
    OBVIOUS
  <2>3. at[ends[k - 1]] = cells[j]
    BY <2>1
  <2> HIDE DEF j
  <2>4. j = k
    <3>1. j \in Int /\ k \in Int
      BY <2>2, <1>2
    <3>2. ~(j < k) /\ ~(k < j)
      BY <2>2, <1>4
    <3> QED
      BY <3>1, <3>2
  <2> QED
    BY <2>1, <2>3, <2>4
<1> HIDE DEF at, begins
<1>6. DOMAIN at = begins
  BY DEF at
<1> QED
  BY <1>1, <1>2, <1>5, <1>6 DEF ends

\* Where the first record begins, in the descriptor.
FirstAt(m) == 32 + Length[m.set] + Padding(Length[m.set])

Sizes(m) == [i \in DOMAIN Expand(m) |-> RecordSize(Expand(m)[i])]

\* Where the records begin: the i-th one at Begins(m)[i - 1].
Begins(m) == Offsets(FirstAt(m), Sizes(m))

LEMMA PaddingPads ==
  ASSUME NEW n \in Nat
  PROVE  Padding(n) \in 0..3 /\ (n + Padding(n)) % 4 = 0
BY DEF Padding

LEMMA LengthsAre ==
  /\ Length[Empty] = 0
  /\ \A t \in Given : Length[t] \in 1..MaxStringLen /\ t # Empty
BY NamesAssumption DEF Given

\* The numbers of a record that is sound.
LEMMA SoundNumbers ==
  ASSUME NEW r, Sound(r)
  PROVE  /\ Length[r.type_name] \in 1..MaxStringLen
         /\ Length[r.field_name] \in 0..MaxStringLen
         /\ (Length[r.field_name] = 0) = (r.kind \in {"type", "const"})
         /\ Length[r.field_name] = 0 => r.field_name = Empty
         /\ MaxStringLen \in Nat
         /\ StringLength(r) = Length[r.type_name] + Length[r.field_name]
         /\ StringLength(r) \in Nat
         /\ RecordSize(r) = 40 + StringLength(r) + Padding(40 + StringLength(r))
         /\ Padding(40 + StringLength(r)) \in 0..3
         /\ RecordSize(r) \in Nat /\ RecordSize(r) % 4 = 0 /\ RecordSize(r) >= 40 + StringLength(r)
<1> DEFINE a == Length[r.type_name]
           b == Length[r.field_name]
           n == 40 + StringLength(r)
<1>1. MaxStringLen \in Nat
  BY LimitsAssumption
<1>2. a \in 1..MaxStringLen
  BY LengthsAre DEF Sound
<1>3. /\ b \in 0..MaxStringLen /\ (b = 0) = (r.kind \in {"type", "const"})
      /\ b = 0 => r.field_name = Empty
  <2>1. CASE r.kind \in {"type", "const"}
    <3>1. r.field_name = Empty /\ b = 0
      BY <2>1, LengthsAre DEF Sound
    <3> QED
      BY <1>1, <2>1, <3>1
  <2>2. CASE r.kind \notin {"type", "const"}
    <3>1. b \in 1..MaxStringLen
      BY <2>2, LengthsAre DEF Sound
    <3>2. b # 0 /\ b \in 0..MaxStringLen
      BY <1>1, <3>1
    <3> QED
      BY <2>2, <3>2
  <2> QED
    BY <2>1, <2>2
<1>4. StringLength(r) = a + b /\ a + b \in Nat
  BY <1>1, <1>2, <1>3 DEF StringLength
<1> HIDE DEF a, b
<1>5. n \in Nat /\ Padding(n) \in 0..3 /\ (n + Padding(n)) % 4 = 0
  BY <1>4, PaddingPads
<1>6. RecordSize(r) = n + Padding(n)
  BY DEF RecordSize
<1>7. StringLength(r) \in Nat /\ n = 40 + StringLength(r)
  BY <1>4
<1> HIDE DEF n
<1>8. RecordSize(r) \in Nat /\ RecordSize(r) % 4 = 0 /\ RecordSize(r) >= n
  BY <1>5, <1>6, <1>7
<1> QED
  BY <1>1, <1>2, <1>3, <1>4, <1>5, <1>6, <1>7, <1>8 DEF a, b

\* The records lie one after another in the descriptor, each at a multiple of
\* four, and fill it.
LEMMA DescLayout ==
  ASSUME NEW m \in Manifests
  PROVE  LET records == Expand(m)
             n == Len(records)
             at == Begins(m)
         IN  /\ n \in Nat /\ \A i \in 1..n : Sound(records[i])
             /\ FirstAt(m) \in Nat /\ FirstAt(m) % 4 = 0 /\ FirstAt(m) >= 33
             /\ at[0] = FirstAt(m) /\ at[n] = DescSize(m)
             /\ \A i \in 1..n : at[i] = at[i - 1] + RecordSize(records[i])
             /\ \A i \in 0..n : at[i] \in Nat /\ at[i] % 4 = 0 /\ at[i] <= at[n] /\ FirstAt(m) <= at[i]
<1> DEFINE records == Expand(m)
           n == Len(records)
           at == Begins(m)
           w == Sizes(m)
<1>1. IsSeq(records) /\ n \in Nat /\ DOMAIN records = 1..n
  BY ExpandHolds, SeqParts
<1>2. \A i \in 1..n : Sound(records[i])
  BY ExpandHolds, ComesSound
<1>3. FirstAt(m) \in Nat /\ FirstAt(m) % 4 = 0 /\ FirstAt(m) >= 33
  <2> DEFINE l == Length[m.set]
  <2>1. l \in Nat /\ l >= 1
    <3>1. m.set \in Given /\ MaxStringLen \in Nat
      BY ManifestHas, LimitsAssumption
    <3>2. l \in 1..MaxStringLen
      BY <3>1, LengthsAre
    <3> QED
      BY <3>1, <3>2
  <2>2. FirstAt(m) = 32 + l + Padding(l)
    BY DEF FirstAt
  <2> HIDE DEF l
  <2>3. Padding(l) \in 0..3 /\ (l + Padding(l)) % 4 = 0
    BY <2>1, PaddingPads
  <2>4. PICK p \in Nat : p = l + Padding(l) /\ p >= 1 /\ p % 4 = 0
    BY <2>1, <2>3
  <2>5. FirstAt(m) = 32 + p
    BY <2>1, <2>2, <2>3, <2>4
  <2>6. (32 + p) % 4 = 0 /\ 32 + p \in Nat /\ 32 + p >= 33
    BY <2>4
  <2> QED
    BY <2>5, <2>6
<1>4. Len(w) = n /\ \A i \in 1..n : w[i] = RecordSize(records[i]) /\ w[i] \in Nat
  <2>1. w = [i \in DOMAIN records |-> w[i]] /\ \A i \in DOMAIN records : w[i] = RecordSize(records[i])
    BY DEF Sizes
  <2> HIDE DEF w
  <2>2. Len(w) = n
    BY <1>1, <2>1, MapIsSeq, Zenon
  <2>3. \A i \in 1..n : RecordSize(records[i]) \in Nat
    BY <1>2, SoundNumbers
  <2> HIDE DEF records
  <2> QED
    BY <1>1, <2>1, <2>2, <2>3, Zenon
<1>5. at = Offsets(FirstAt(m), w) /\ at[n] = DescSize(m)
  BY DEF Begins, DescSize, FirstAt, Sizes
<1> HIDE DEF records, at, w
<1>6. /\ at[0] = FirstAt(m)
      /\ \A i \in 1..n : at[i] = at[i - 1] + w[i]
      /\ \A i \in 0..n : at[i] \in Nat
      /\ \A i, j \in 0..n : i <= j => at[i] <= at[j]
  <2> DEFINE u == Offsets(FirstAt(m), w)
  <2>1. /\ u[0] = FirstAt(m)
        /\ \A i \in 1..Len(w) : u[i] = u[i - 1] + w[i]
        /\ \A i \in 0..Len(w) : u[i] \in Nat
        /\ \A i, j \in 0..Len(w) : i <= j => u[i] <= u[j]
    BY <1>1, <1>3, <1>4, OffsetsAdjoin
  <2>2. u = at
    BY <1>5
  <2> HIDE DEF u
  <2> QED
    BY <1>4, <2>1, <2>2
<1>7. \A i \in 0..n : at[i] % 4 = 0
  <2> DEFINE S == {i \in Nat : i <= n => at[i] % 4 = 0}
  <2>1. 0 \in S
    BY <1>3, <1>6
  <2>2. ASSUME NEW i \in Nat, i \in S PROVE i + 1 \in S
    <3> SUFFICES ASSUME i + 1 <= n PROVE at[i + 1] % 4 = 0
      OBVIOUS
    <3>1. i + 1 \in 1..n /\ (i + 1) - 1 = i /\ i \in 0..n /\ at[i] % 4 = 0
      BY <1>1, <2>2
    <3>2. at[i + 1] = at[i] + RecordSize(records[i + 1]) /\ at[i] \in Nat
      BY <3>1, <1>4, <1>6
    <3>3. RecordSize(records[i + 1]) \in Nat /\ RecordSize(records[i + 1]) % 4 = 0
      BY <3>1, <1>2, SoundNumbers
    <3> QED
      BY <3>1, <3>2, <3>3
  <2> HIDE DEF S
  <2>3. Nat \subseteq S
    BY <2>1, <2>2, NumberInduction
  <2> QED
    BY <2>3 DEF S
<1>8. \A i \in 0..n : at[i] <= at[n] /\ FirstAt(m) <= at[i]
  <2>1. \A i \in 0..n : 0 \in 0..n /\ n \in 0..n /\ 0 <= i /\ i <= n
    BY <1>1
  <2> QED
    BY <2>1, <1>6
<1> QED
  BY <1>1, <1>2, <1>3, <1>4, <1>5, <1>6, <1>7, <1>8 DEF records, at

-----------------------------------------------------------------------------
(* What is found in the object of a manifest                               *)

HeadCells(m) ==
  <<Cell(12, NoteHead(m)), Cell(4, "IRO"),
    Cell(32, DescHead(m)), Cell(Length[m.set], m.set), Cell(Padding(Length[m.set]), 0)>>

Fours(m) == [i \in DOMAIN Expand(m) |-> RecordCells(Expand(m)[i])]

LEMMA FourIsSeq ==
  ASSUME NEW a, NEW b, NEW c, NEW d
  PROVE  LET s == <<a, b, c, d>>
         IN  /\ IsSeq(s) /\ Len(s) = 4
             /\ s[1] = a /\ s[2] = b /\ s[3] = c /\ s[4] = d
<1> DEFINE s == <<a, b, c, d>>
<1>1. Len(s) = 4 /\ s[1] = a /\ s[2] = b /\ s[3] = c /\ s[4] = d /\ s \in Seq({a, b, c, d})
  OBVIOUS
<1> HIDE DEF s
<1>2. IsSeq(s)
  BY <1>1, SeqOfAny
<1> QED
  BY <1>1, <1>2 DEF s

LEMMA FiveIsSeq ==
  ASSUME NEW a, NEW b, NEW c, NEW d, NEW e
  PROVE  LET s == <<a, b, c, d, e>>
         IN  /\ IsSeq(s) /\ Len(s) = 5
             /\ s[1] = a /\ s[2] = b /\ s[3] = c /\ s[4] = d /\ s[5] = e
<1> DEFINE s == <<a, b, c, d, e>>
<1>1. /\ Len(s) = 5 /\ s[1] = a /\ s[2] = b /\ s[3] = c /\ s[4] = d /\ s[5] = e
      /\ s \in Seq({a, b, c, d, e})
  OBVIOUS
<1> HIDE DEF s
<1>2. IsSeq(s)
  BY <1>1, SeqOfAny
<1> QED
  BY <1>1, <1>2 DEF s

\* The cells of a note: five of its head, then four for each record.
LEMMA NoteCellsAre ==
  ASSUME NEW m \in Manifests
  PROVE  LET c == NoteCells(m)
             n == Len(Expand(m))
         IN  /\ IsSeq(c) /\ Len(c) = 5 + 4 * n
             /\ c[1] = Cell(12, NoteHead(m)) /\ c[2] = Cell(4, "IRO")
             /\ c[3] = Cell(32, DescHead(m)) /\ c[4] = Cell(Length[m.set], m.set)
             /\ c[5] = Cell(Padding(Length[m.set]), 0)
             /\ \A i \in 1..n : \A j \in 1..4 : c[5 + (4 * (i - 1) + j)] = RecordCells(Expand(m)[i])[j]
<1> DEFINE n == Len(Expand(m))
           h == HeadCells(m)
           ff == Fours(m)
           f == FlattenSeq(ff)
           c == h \o f
<1>1. c = NoteCells(m)
  BY DEF NoteCells, HeadCells, Fours
<1>2. IsSeq(Expand(m)) /\ n \in Nat /\ DOMAIN Expand(m) = 1..n
  BY ExpandHolds, SeqParts
<1>3. /\ IsSeq(h) /\ Len(h) = 5
      /\ h[1] = Cell(12, NoteHead(m)) /\ h[2] = Cell(4, "IRO")
      /\ h[3] = Cell(32, DescHead(m)) /\ h[4] = Cell(Length[m.set], m.set)
      /\ h[5] = Cell(Padding(Length[m.set]), 0)
  <2> DEFINE a == Cell(12, NoteHead(m))
             b == Cell(4, "IRO")
             x == Cell(32, DescHead(m))
             y == Cell(Length[m.set], m.set)
             z == Cell(Padding(Length[m.set]), 0)
  <2>1. h = <<a, b, x, y, z>>
    BY DEF HeadCells
  <2> HIDE DEF a, b, x, y, z, h
  <2>2. /\ IsSeq(h) /\ Len(h) = 5
        /\ h[1] = a /\ h[2] = b /\ h[3] = x /\ h[4] = y /\ h[5] = z
    BY <2>1, FiveIsSeq, Zenon
  <2> QED
    BY <2>2, Zenon DEF a, b, x, y, z
<1>4. IsSeq(ff) /\ Len(ff) = n /\ \A i \in 1..n : ff[i] = RecordCells(Expand(m)[i])
  <2>1. ff = [i \in DOMAIN Expand(m) |-> ff[i]] /\ \A i \in DOMAIN Expand(m) : ff[i] = RecordCells(Expand(m)[i])
    BY DEF Fours
  <2> HIDE DEF ff
  <2> QED
    BY <1>2, <2>1, MapIsSeq
<1>5. \A i \in 1..n : IsSeq(ff[i]) /\ Len(ff[i]) = 4
  <2> SUFFICES ASSUME NEW i \in 1..n PROVE IsSeq(ff[i]) /\ Len(ff[i]) = 4
    OBVIOUS
  <2> DEFINE r == Expand(m)[i]
             a == Cell(40, RecordHead(r))
             b == Cell(Length[r.type_name], r.type_name)
             x == Cell(Length[r.field_name], r.field_name)
             y == Cell(Padding(40 + StringLength(r)), 0)
  <2>1. RecordCells(r) = <<a, b, x, y>>
    BY DEF RecordCells
  <2> HIDE DEF a, b, x, y, r, ff
  <2>2. ff[i] = <<a, b, x, y>>
    BY <1>4, <2>1 DEF r
  <2> QED
    BY <2>2, FourIsSeq
<1>6. FoursOf(f, ff, n)
  <2>1. FoursOf(f, ff, Len(ff))
    <3> HIDE DEF ff
    <3> QED
      BY <1>4, <1>5, FlattenFours
  <2> HIDE DEF f, ff
  <2> QED
    BY <2>1, <1>4
<1> HIDE DEF h, ff
<1>7. Joins(c, h, f)
  <2>1. IsSeq(f)
    BY <1>6 DEF FoursOf
  <2> QED
    BY <2>1, <1>3, ConcatJoins, Zenon
<1> HIDE DEF f, c
<1>8. IsSeq(c) /\ Len(c) = 5 + 4 * n
  BY <1>2, <1>3, <1>6, <1>7 DEF Joins, FoursOf
<1>9. \A k \in 1..5 : c[k] = h[k]
  BY <1>3, <1>7 DEF Joins
<1>10. ASSUME NEW i \in 1..n, NEW j \in 1..4
       PROVE  c[5 + (4 * (i - 1) + j)] = RecordCells(Expand(m)[i])[j]
  <2>1. 4 * (i - 1) + j \in 1..Len(f)
    BY <1>2, <1>6 DEF FoursOf
  <2>2. c[5 + (4 * (i - 1) + j)] = f[4 * (i - 1) + j]
    BY <2>1, <1>3, <1>7 DEF Joins
  <2>3. f[4 * (i - 1) + j] = ff[i][j]
    BY <1>6 DEF FoursOf
  <2> QED
    BY <2>2, <2>3, <1>4
<1>11. /\ c[1] = Cell(12, NoteHead(m)) /\ c[2] = Cell(4, "IRO")
       /\ c[3] = Cell(32, DescHead(m)) /\ c[4] = Cell(Length[m.set], m.set)
       /\ c[5] = Cell(Padding(Length[m.set]), 0)
  <2>1. 1 \in 1..5 /\ 2 \in 1..5 /\ 3 \in 1..5 /\ 4 \in 1..5 /\ 5 \in 1..5
    OBVIOUS
  <2> QED
    BY <2>1, <1>3, <1>9, Zenon
<1> QED
  BY <1>1, <1>8, <1>10, <1>11, Zenon

LEMMA CellHas ==
  ASSUME NEW w, NEW v
  PROVE  Cell(w, v).w = w /\ Cell(w, v).v = v
BY DEF Cell

\* Every cell has a width.
LEMMA NoteWidths ==
  ASSUME NEW m \in Manifests
  PROVE  \A k \in 1..Len(NoteCells(m)) : NoteCells(m)[k].w \in Nat
<1> DEFINE c == NoteCells(m)
           n == Len(Expand(m))
<1>1. n \in Nat /\ \A i \in 1..n : Sound(Expand(m)[i])
  BY DescLayout
<1>2. Length[m.set] \in Nat /\ Padding(Length[m.set]) \in Nat
  <2>1. m.set \in Given /\ MaxStringLen \in Nat
    BY ManifestHas, LimitsAssumption
  <2>2. Length[m.set] \in 1..MaxStringLen
    BY <2>1, LengthsAre
  <2>3. Length[m.set] \in Nat
    BY <2>1, <2>2
  <2> QED
    BY <2>3, PaddingPads
<1>3. /\ Len(c) = 5 + 4 * n
      /\ c[1] = Cell(12, NoteHead(m)) /\ c[2] = Cell(4, "IRO")
      /\ c[3] = Cell(32, DescHead(m)) /\ c[4] = Cell(Length[m.set], m.set)
      /\ c[5] = Cell(Padding(Length[m.set]), 0)
      /\ \A i \in 1..n : \A j \in 1..4 : c[5 + (4 * (i - 1) + j)] = RecordCells(Expand(m)[i])[j]
  BY NoteCellsAre, Zenon
<1> HIDE DEF c
<1>4. c[1].w \in Nat /\ c[2].w \in Nat /\ c[3].w \in Nat /\ c[4].w \in Nat /\ c[5].w \in Nat
  BY <1>2, <1>3, CellHas
<1>5. ASSUME NEW i \in 1..n, NEW j \in 1..4
      PROVE  RecordCells(Expand(m)[i])[j].w \in Nat
  <2> DEFINE r == Expand(m)[i]
             s == RecordCells(r)
             a == Cell(40, RecordHead(r))
             b == Cell(Length[r.type_name], r.type_name)
             x == Cell(Length[r.field_name], r.field_name)
             y == Cell(Padding(40 + StringLength(r)), 0)
  <2>1. /\ Length[r.type_name] \in 1..MaxStringLen /\ Length[r.field_name] \in 0..MaxStringLen
        /\ MaxStringLen \in Nat /\ Padding(40 + StringLength(r)) \in 0..3
    BY <1>1, SoundNumbers
  <2>2. a.w = 40 /\ b.w = Length[r.type_name] /\ x.w = Length[r.field_name] /\ y.w = Padding(40 + StringLength(r))
    <3> HIDE DEF r
    <3> QED
      BY DEF Cell
  <2>3. s = <<a, b, x, y>>
    BY DEF RecordCells
  <2> HIDE DEF a, b, x, y, s
  <2>4. s[1] = a /\ s[2] = b /\ s[3] = x /\ s[4] = y
    BY <2>3
  <2>5. a.w \in Nat /\ b.w \in Nat /\ x.w \in Nat /\ y.w \in Nat
    BY <2>1, <2>2
  <2>6. j = 1 \/ j = 2 \/ j = 3 \/ j = 4
    OBVIOUS
  <2>7. s[j].w \in Nat
    BY <2>4, <2>5, <2>6, Zenon
  <2> QED
    BY <2>7 DEF s
<1>6. ASSUME NEW k \in 1..Len(c) PROVE c[k].w \in Nat
  <2>1. CASE k \in 1..5
    <3>1. k = 1 \/ k = 2 \/ k = 3 \/ k = 4 \/ k = 5
      BY <2>1
    <3> QED
      BY <3>1, <1>4, Zenon
  <2>2. CASE k \notin 1..5
    <3> DEFINE i == (k - 6) \div 4 + 1
               j == ((k - 6) % 4) + 1
    <3>1. k - 6 \in Nat /\ k - 6 < 4 * n /\ n \in Nat
      BY <1>1, <1>3, <2>2
    <3>2. PICK q \in Nat : q = k - 6 /\ q < 4 * n
      BY <3>1
    <3>3. PICK d \in Nat, e \in 0..3 : d = q \div 4 /\ e = q % 4 /\ q = 4 * d + e
      <4>1. q \div 4 \in Nat
        OBVIOUS
      <4>2. q % 4 \in 0..3
        OBVIOUS
      <4>3. q = 4 * (q \div 4) + (q % 4)
        OBVIOUS
      <4> QED
        BY <4>1, <4>2, <4>3
    <3>4. i = d + 1 /\ j = e + 1
      BY <3>2, <3>3
    <3> HIDE DEF i, j
    <3>5. i \in 1..n /\ j \in 1..4 /\ k = 5 + (4 * (i - 1) + j)
      BY <3>1, <3>2, <3>3, <3>4
    <3>6. c[k] = RecordCells(Expand(m)[i])[j]
      BY <3>5, <1>3
    <3> QED
      BY <3>5, <3>6, <1>5
  <2> QED
    BY <2>1, <2>2
<1> QED
  BY <1>6 DEF c

\* Where the head's cells and the records' cells are.
LEMMA NotePlaces ==
  ASSUME NEW m \in Manifests
  PROVE  LET at == Places(NoteCells(m))
             n == Len(Expand(m))
         IN  /\ at[0] = NoteAt /\ at[1] = NoteAt + 12 /\ at[2] = NoteAt + 16 /\ at[3] = NoteAt + 48
             /\ \A i \in 0..n : at[5 + 4 * i] = NoteAt + 16 + Begins(m)[i]
             /\ \A i \in 1..n :
                  LET r == Expand(m)[i]
                      p == NoteAt + 16 + Begins(m)[i - 1]
                  IN  /\ at[5 + (4 * (i - 1) + 0)] = p
                      /\ at[5 + (4 * (i - 1) + 1)] = p + 40
                      /\ at[5 + (4 * (i - 1) + 2)] = p + 40 + Length[r.type_name]
<1> DEFINE c == NoteCells(m)
           n == Len(Expand(m))
           at == Places(c)
           l == Length[m.set]
<1>1. /\ n \in Nat /\ \A i \in 1..n : Sound(Expand(m)[i])
      /\ Begins(m)[0] = FirstAt(m)
      /\ \A i \in 1..n : Begins(m)[i] = Begins(m)[i - 1] + RecordSize(Expand(m)[i])
      /\ \A i \in 0..n : Begins(m)[i] \in Nat
  BY DescLayout
<1>2. /\ IsSeq(c) /\ Len(c) = 5 + 4 * n
      /\ c[1] = Cell(12, NoteHead(m)) /\ c[2] = Cell(4, "IRO")
      /\ c[3] = Cell(32, DescHead(m)) /\ c[4] = Cell(l, m.set) /\ c[5] = Cell(Padding(l), 0)
      /\ \A i \in 1..n : \A j \in 1..4 : c[5 + (4 * (i - 1) + j)] = RecordCells(Expand(m)[i])[j]
  BY NoteCellsAre, Zenon
<1>3. \A k \in 1..Len(c) : c[k].w \in Nat
  BY NoteWidths
<1> HIDE DEF c
<1>4. /\ at[0] = NoteAt
      /\ \A k \in 1..Len(c) : at[k] = at[k - 1] + c[k].w
      /\ \A k \in 0..Len(c) : at[k] \in Nat
  BY <1>2, <1>3, PlacesAdjoin
<1>5. c[1].w = 12 /\ c[2].w = 4 /\ c[3].w = 32 /\ c[4].w = l /\ c[5].w = Padding(l)
  BY <1>2, CellHas
<1>6. FirstAt(m) = 32 + l + Padding(l)
  BY DEF FirstAt
<1> HIDE DEF at, l
<1>7. /\ at[1] = NoteAt + 12 /\ at[2] = NoteAt + 16 /\ at[3] = NoteAt + 48
      /\ at[5] = NoteAt + 16 + Begins(m)[0]
  <2>1. NoteAt \in Nat /\ c[4].w \in Nat /\ c[5].w \in Nat
    <3>1. 4 \in 1..Len(c) /\ 5 \in 1..Len(c)
      BY <1>1, <1>2
    <3> QED
      BY <3>1, <1>3 DEF NoteAt, StringsAt, TableAt
  <2>2. /\ at[1] = at[0] + c[1].w /\ at[2] = at[1] + c[2].w /\ at[3] = at[2] + c[3].w
        /\ at[4] = at[3] + c[4].w /\ at[5] = at[4] + c[5].w
    <3>1. \A k \in 1..5 : k \in 1..Len(c)
      BY <1>1, <1>2
    <3>2. \A k \in 1..5 : at[k] = at[k - 1] + c[k].w
      BY <3>1, <1>4
    <3> QED
      BY <3>2
  <2>3. at[0] = NoteAt /\ Begins(m)[0] = 32 + l + Padding(l) /\ l \in Nat /\ Padding(l) \in Nat
    BY <1>1, <1>4, <1>5, <1>6, <2>1
  <2> QED
    BY <1>5, <2>1, <2>2, <2>3
<1>8. ASSUME NEW i \in 1..n
      PROVE  LET r == Expand(m)[i]
                 k == 5 + (4 * (i - 1) + 0)
             IN  /\ at[5 + (4 * (i - 1) + 1)] = at[k] + 40
                 /\ at[5 + (4 * (i - 1) + 2)] = at[k] + 40 + Length[r.type_name]
                 /\ at[5 + (4 * (i - 1) + 4)] = at[k] + RecordSize(r)
                 /\ at[k] \in Nat
  <2> DEFINE r == Expand(m)[i]
             k == 5 + (4 * (i - 1) + 0)
             s == RecordCells(r)
             b == Length[r.type_name]
             x == Length[r.field_name]
             y == Padding(40 + StringLength(r))
  <2>1. /\ b \in 1..MaxStringLen /\ x \in 0..MaxStringLen /\ MaxStringLen \in Nat
        /\ StringLength(r) = b + x /\ RecordSize(r) = 40 + StringLength(r) + y /\ y \in 0..3
    BY <1>1, SoundNumbers
  <2>2. s[1].w = 40 /\ s[2].w = b /\ s[3].w = x /\ s[4].w = y
    <3> DEFINE a1 == Cell(40, RecordHead(r))
               a2 == Cell(b, r.type_name)
               a3 == Cell(x, r.field_name)
               a4 == Cell(y, 0)
    <3>1. a1.w = 40 /\ a2.w = b /\ a3.w = x /\ a4.w = y
      <4> HIDE DEF r, x, y, b
      <4> QED
        BY DEF Cell
    <3>2. s = <<a1, a2, a3, a4>>
      BY DEF RecordCells
    <3> HIDE DEF a1, a2, a3, a4, s
    <3> QED
      BY <3>1, <3>2
  <2>3. \A j \in 1..4 : c[5 + (4 * (i - 1) + j)] = s[j]
    BY <1>2
  <2> HIDE DEF s, b, x, y, r
  <2>4. \A j \in 1..4 : 5 + (4 * (i - 1) + j) = k + j /\ k + j \in 1..Len(c) /\ (k + j) - 1 = k + (j - 1)
    BY <1>1, <1>2
  <2>5. k \in 0..Len(c)
    BY <1>1, <1>2
  <2>6. \A j \in 1..4 : at[k + j] = at[k + (j - 1)] + s[j].w
    <3> SUFFICES ASSUME NEW j \in 1..4 PROVE at[k + j] = at[k + (j - 1)] + s[j].w
      OBVIOUS
    <3>1. k + j \in 1..Len(c) /\ (k + j) - 1 = k + (j - 1) /\ 5 + (4 * (i - 1) + j) = k + j
      BY <2>4
    <3>2. c[5 + (4 * (i - 1) + j)] = s[j]
      BY <2>3
    <3> HIDE DEF k
    <3>3. at[k + j] = at[(k + j) - 1] + c[k + j].w
      BY <1>4, <3>1
    <3> QED
      BY <3>1, <3>2, <3>3
  <2>7. k \in Nat /\ at[k] \in Nat
    BY <1>2, <1>4, <2>5
  <2>8. /\ 5 + (4 * (i - 1) + 1) = k + 1 /\ 5 + (4 * (i - 1) + 2) = k + 2
        /\ 5 + (4 * (i - 1) + 4) = k + 4
    BY <2>4
  <2> HIDE DEF k
  <2>9. at[k + 1] = at[k] + 40 /\ at[k + 2] = at[k] + 40 + b /\ at[k + 4] = at[k] + RecordSize(r)
    <3>1. /\ at[k + 1] = at[k + 0] + s[1].w /\ at[k + 2] = at[k + 1] + s[2].w
          /\ at[k + 3] = at[k + 2] + s[3].w /\ at[k + 4] = at[k + 3] + s[4].w
      <4>1. /\ at[k + 1] = at[k + (1 - 1)] + s[1].w /\ at[k + 2] = at[k + (2 - 1)] + s[2].w
            /\ at[k + 3] = at[k + (3 - 1)] + s[3].w /\ at[k + 4] = at[k + (4 - 1)] + s[4].w
        BY <2>6
      <4>2. 1 - 1 = 0 /\ 2 - 1 = 1 /\ 3 - 1 = 2 /\ 4 - 1 = 3
        OBVIOUS
      <4> QED
        BY <4>1, <4>2
    <3>2. k + 0 = k
      BY <2>7
    <3> QED
      BY <3>1, <3>2, <2>1, <2>2, <2>7
  <2> QED
    BY <2>7, <2>8, <2>9 DEF k, r, b
<1>9. \A i \in 0..n : at[5 + 4 * i] = NoteAt + 16 + Begins(m)[i]
  <2> DEFINE S == {i \in Nat : i <= n => at[5 + 4 * i] = NoteAt + 16 + Begins(m)[i]}
  <2>1. 0 \in S
    BY <1>7
  <2>2. ASSUME NEW i \in Nat, i \in S PROVE i + 1 \in S
    <3> SUFFICES ASSUME i + 1 <= n PROVE at[5 + 4 * (i + 1)] = NoteAt + 16 + Begins(m)[i + 1]
      OBVIOUS
    <3>1. /\ i + 1 \in 1..n /\ (i + 1) - 1 = i /\ i \in 0..n /\ at[5 + 4 * i] = NoteAt + 16 + Begins(m)[i]
          /\ 5 + (4 * ((i + 1) - 1) + 0) = 5 + 4 * i
          /\ 5 + (4 * ((i + 1) - 1) + 4) = 5 + 4 * (i + 1)
      BY <1>1, <2>2
    <3> DEFINE r == Expand(m)[i + 1]
    <3>2. at[5 + (4 * ((i + 1) - 1) + 4)] = at[5 + (4 * ((i + 1) - 1) + 0)] + RecordSize(r)
      BY <3>1, <1>8
    <3>3. Begins(m)[i + 1] = Begins(m)[i] + RecordSize(r) /\ Begins(m)[i] \in Nat
      <4>1. Begins(m)[i + 1] = Begins(m)[(i + 1) - 1] + RecordSize(r) /\ Begins(m)[i] \in Nat
        BY <3>1, <1>1
      <4> QED
        BY <3>1, <4>1
    <3>4. RecordSize(r) \in Nat /\ NoteAt \in Nat
      BY <3>1, <1>1, SoundNumbers DEF NoteAt, StringsAt, TableAt
    <3> HIDE DEF r
    <3> QED
      BY <3>1, <3>2, <3>3, <3>4
  <2> HIDE DEF S
  <2>3. Nat \subseteq S
    BY <2>1, <2>2, NumberInduction
  <2> QED
    BY <2>3 DEF S
<1>10. ASSUME NEW i \in 1..n
       PROVE  at[5 + (4 * (i - 1) + 0)] = NoteAt + 16 + Begins(m)[i - 1]
  <2>1. i - 1 \in 0..n /\ 5 + (4 * (i - 1) + 0) = 5 + 4 * (i - 1)
    BY <1>1
  <2> QED
    BY <2>1, <1>9
<1> QED
  BY <1>4, <1>7, <1>8, <1>9, <1>10 DEF at, c

LEMMA ObjectHas ==
  ASSUME NEW m
  PROVE  /\ Object(m).size = Placed(NoteCells(m)).size
         /\ Object(m).at = Placed(NoteCells(m)).at
         /\ Object(m).manifest = m
BY DEF Object

FoundAs(m, at, w, v) == \A junk : Found(Object(m), at, w, junk) = {v}

\* What is read at the place of a cell, and with its width, is what it holds.
LEMMA CellIsFound ==
  ASSUME NEW m \in Manifests, NEW c, c = NoteCells(m), NEW k \in 1..Len(c),
         NEW w, NEW v, c[k] = Cell(w, v), w # 0,
         NEW at, at = Places(c)[k - 1]
  PROVE  FoundAs(m, at, w, v)
<1> DEFINE o == Object(m)
<1>1. IsSeq(c) /\ \A j \in 1..Len(c) : c[j].w \in Nat
  BY NoteCellsAre, NoteWidths
<1>2. c[k].w = w /\ c[k].v = v
  BY CellHas
<1>3. at \in DOMAIN Placed(c).at /\ Placed(c).at[at] = c[k]
  BY <1>1, <1>2, PlacedGives
<1>4. o.at = Placed(c).at
  BY ObjectHas
<1> HIDE DEF o
<1>5. ASSUME NEW junk PROVE Found(o, at, w, junk) = {v}
  BY <1>2, <1>3, <1>4 DEF Found
<1> QED
  BY <1>5 DEF o, FoundAs

\* What the reader finds at the start of the note and of its descriptor.
LEMMA HeadIsFound ==
  ASSUME NEW m \in Manifests
  PROVE  /\ Object(m).size = NoteAt + 16 + DescSize(m)
         /\ NoteFound(Object(m), NoteAt) = {NoteHead(m)}
         /\ DescFound(Object(m), NoteAt + 16) = {DescHead(m)}
         /\ NameFound(Object(m), NoteAt + 48, Length[m.set]) = {m.set}
<1> DEFINE c == NoteCells(m)
           n == Len(Expand(m))
<1>1. /\ IsSeq(c) /\ Len(c) = 5 + 4 * n
      /\ c[1] = Cell(12, NoteHead(m)) /\ c[3] = Cell(32, DescHead(m))
      /\ c[4] = Cell(Length[m.set], m.set)
  BY NoteCellsAre, Zenon
<1>2. n \in Nat /\ Begins(m)[n] = DescSize(m)
  BY DescLayout
<1>3. /\ Places(c)[0] = NoteAt /\ Places(c)[2] = NoteAt + 16 /\ Places(c)[3] = NoteAt + 48
      /\ \A i \in 0..n : Places(c)[5 + 4 * i] = NoteAt + 16 + Begins(m)[i]
  BY NotePlaces
<1>4. 1 \in 1..Len(c) /\ 3 \in 1..Len(c) /\ 4 \in 1..Len(c) /\ 1 - 1 = 0 /\ 3 - 1 = 2 /\ 4 - 1 = 3
  BY <1>1, <1>2
<1>5. Object(m).size = NoteAt + 16 + DescSize(m)
  <2>1. Object(m).size = Places(c)[Len(c)]
    BY NoteCellsAre, NoteWidths, PlacedGives, ObjectHas
  <2>2. n \in 0..n
    BY <1>2
  <2> QED
    BY <2>1, <2>2, <1>1, <1>2, <1>3
<1>9. c = NoteCells(m)
  OBVIOUS
<1> HIDE DEF c
<1>6. NoteFound(Object(m), NoteAt) = {NoteHead(m)}
  <2>1. NoteAt = Places(c)[1 - 1] /\ 12 # 0
    BY <1>3
  <2>2. FoundAs(m, NoteAt, 12, NoteHead(m))
    BY <2>1, <1>1, <1>4, <1>9, CellIsFound, Zenon
  <2> QED
    BY <2>2, Zenon DEF NoteFound, FoundAs
<1>7. DescFound(Object(m), NoteAt + 16) = {DescHead(m)}
  <2>1. NoteAt + 16 = Places(c)[3 - 1] /\ 32 # 0
    BY <1>3
  <2>2. FoundAs(m, NoteAt + 16, 32, DescHead(m))
    BY <2>1, <1>1, <1>4, <1>9, CellIsFound, Zenon
  <2> QED
    BY <2>2, Zenon DEF DescFound, FoundAs
<1>8. NameFound(Object(m), NoteAt + 48, Length[m.set]) = {m.set}
  <2>1. Length[m.set] # 0
    <3>1. m.set \in Given /\ MaxStringLen \in Nat
      BY ManifestHas, LimitsAssumption
    <3>2. Length[m.set] \in 1..MaxStringLen
      BY <3>1, LengthsAre
    <3> QED
      BY <3>1, <3>2
  <2>2. NoteAt + 48 = Places(c)[4 - 1]
    BY <1>3
  <2>3. FoundAs(m, NoteAt + 48, Length[m.set], m.set)
    BY <1>1, <1>4, <1>9, <2>1, <2>2, CellIsFound, Zenon
  <2> QED
    BY <2>1, <2>3, Zenon DEF NameFound, FoundAs
<1> QED
  BY <1>5, <1>6, <1>7, <1>8

\* What the reader finds where a record begins.
LEMMA RecordIsFound ==
  ASSUME NEW m \in Manifests, NEW i \in 1..Len(Expand(m))
  PROVE  LET r == Expand(m)[i]
             p == NoteAt + 16 + Begins(m)[i - 1]
         IN  /\ RecordFound(Object(m), p) = {RecordHead(r)}
             /\ NameFound(Object(m), p + 40, Length[r.type_name]) = {r.type_name}
             /\ NameFound(Object(m), p + 40 + Length[r.type_name], Length[r.field_name]) = {r.field_name}
<1> DEFINE c == NoteCells(m)
           n == Len(Expand(m))
           r == Expand(m)[i]
           p == NoteAt + 16 + Begins(m)[i - 1]
           b == Length[r.type_name]
           x == Length[r.field_name]
           k == 5 + (4 * (i - 1) + 0)
<1>1. n \in Nat /\ Sound(r)
  BY DescLayout
<1>2. b # 0 /\ (x = 0 => r.field_name = Empty)
  <2>1. b \in 1..MaxStringLen /\ (x = 0 => r.field_name = Empty) /\ MaxStringLen \in Nat
    BY <1>1, SoundNumbers
  <2> QED
    BY <2>1
<1>3. /\ Len(c) = 5 + 4 * n
      /\ \A j \in 1..4 : c[5 + (4 * (i - 1) + j)] = RecordCells(r)[j]
  BY NoteCellsAre
<1>4. /\ Places(c)[k] = p
      /\ Places(c)[5 + (4 * (i - 1) + 1)] = p + 40
      /\ Places(c)[5 + (4 * (i - 1) + 2)] = p + 40 + b
  BY NotePlaces, Zenon
<1>5. /\ RecordCells(r)[1] = Cell(40, RecordHead(r)) /\ RecordCells(r)[2] = Cell(b, r.type_name)
      /\ RecordCells(r)[3] = Cell(x, r.field_name)
  <2> DEFINE s == RecordCells(r)
             a1 == Cell(40, RecordHead(r))
             a2 == Cell(b, r.type_name)
             a3 == Cell(x, r.field_name)
             a4 == Cell(Padding(40 + StringLength(r)), 0)
  <2>1. s = <<a1, a2, a3, a4>>
    BY DEF RecordCells
  <2> HIDE DEF s, a1, a2, a3, a4
  <2>2. s[1] = a1 /\ s[2] = a2 /\ s[3] = a3
    BY <2>1
  <2> QED
    BY <2>2 DEF s, a1, a2, a3
<1>6. \A j \in 1..3 : /\ 5 + (4 * (i - 1) + j) = k + j /\ k + j \in 1..Len(c)
                      /\ (k + j) - 1 = 5 + (4 * (i - 1) + (j - 1)) /\ j \in 1..4
  BY <1>1, <1>3
<1> HIDE DEF c, k, b, x, r
<1>7. c[k + 1] = Cell(40, RecordHead(r)) /\ c[k + 2] = Cell(b, r.type_name) /\ c[k + 3] = Cell(x, r.field_name)
  <2>1. 1 \in 1..3 /\ 2 \in 1..3 /\ 3 \in 1..3
    OBVIOUS
  <2> QED
    BY <2>1, <1>3, <1>5, <1>6
<1>8. Places(c)[(k + 1) - 1] = p /\ Places(c)[(k + 2) - 1] = p + 40 /\ Places(c)[(k + 3) - 1] = p + 40 + b
  <2>1. /\ (k + 1) - 1 = 5 + (4 * (i - 1) + (1 - 1)) /\ (k + 2) - 1 = 5 + (4 * (i - 1) + (2 - 1))
        /\ (k + 3) - 1 = 5 + (4 * (i - 1) + (3 - 1))
    BY <1>6
  <2>2. 1 - 1 = 0 /\ 2 - 1 = 1 /\ 3 - 1 = 2 /\ k = 5 + (4 * (i - 1) + 0)
    BY DEF k
  <2> QED
    BY <2>1, <2>2, <1>4
<1>9. k + 1 \in 1..Len(c) /\ k + 2 \in 1..Len(c) /\ k + 3 \in 1..Len(c)
  BY <1>6
<1>13. c = NoteCells(m)
  BY DEF c
<1> HIDE DEF p
<1>10. RecordFound(Object(m), p) = {RecordHead(r)}
  <2>1. 40 # 0
    OBVIOUS
  <2>2. FoundAs(m, p, 40, RecordHead(r))
    BY <2>1, <1>7, <1>8, <1>9, <1>13, CellIsFound, Zenon
  <2> QED
    BY <2>2, Zenon DEF RecordFound, FoundAs
<1>11. NameFound(Object(m), p + 40, b) = {r.type_name}
  <2>1. FoundAs(m, p + 40, b, r.type_name)
    BY <1>2, <1>7, <1>8, <1>9, <1>13, CellIsFound
  <2> QED
    BY <2>1, <1>2, Zenon DEF NameFound, FoundAs
<1>12. NameFound(Object(m), p + 40 + b, x) = {r.field_name}
  <2>1. CASE x = 0
    BY <2>1, <1>2 DEF NameFound
  <2>2. CASE x # 0
    <3>1. FoundAs(m, p + 40 + b, x, r.field_name)
      BY <2>2, <1>7, <1>8, <1>9, <1>13, CellIsFound
    <3> QED
      BY <2>2, <3>1, Zenon DEF NameFound, FoundAs
  <2> QED
    BY <2>1, <2>2
<1> QED
  BY <1>10, <1>11, <1>12 DEF r, p, b, x

-----------------------------------------------------------------------------
(* The reader on the object of a manifest                                  *)

\* The first k records have been read, and the cursor is at the next one.
ReadUpTo(m, k) ==
  /\ todo = Len(Expand(m)) - k /\ pos = Begins(m)[k]
  /\ IsSeq(out) /\ Len(out) = k
  /\ \A i \in 1..k : out[i] = Expand(m)[i]

\* How far the reader is, and what it has read.
NoteInv ==
  /\ file.manifest \in Manifests /\ file = Object(file.manifest)
  /\ pc \in {"elf", "sections", "notes", "header"} => out = <<>>
  /\ pc = "sections" =>
       /\ table = [shoff |-> 64, entsize |-> 64, num |-> 3]
       /\ names = [at |-> 256, size |-> 20] /\ nth \in 0..2
  /\ pc = "notes" => sec = [at |-> NoteAt, size |-> 16 + DescSize(file.manifest)] /\ off = 0
  /\ pc \in {"header", "records"} => desc = [at |-> NoteAt + 16, size |-> DescSize(file.manifest)]
  /\ pc = "records" =>
       /\ Expand(file.manifest) # <<>>
       /\ \E k \in 0..Len(Expand(file.manifest)) : ReadUpTo(file.manifest, k)
  /\ pc = "accepted" => out = Expand(file.manifest)
  /\ pc = "rejected" => Expand(file.manifest) = <<>>

\* The numbers of an object.
LEMMA ObjectNumbers ==
  ASSUME NEW m \in Manifests
  PROVE  /\ NoteAt = 276 /\ TableAt = 64 /\ StringsAt = 256
         /\ DescSize(m) \in Nat /\ DescSize(m) >= 33 /\ DescSize(m) % 4 = 0
         /\ DescSize(m) <= MaxDescSize /\ MaxDescSize \in Nat
         /\ MaxWord \in Nat /\ 292 + DescSize(m) <= MaxWord
         /\ Object(m).size = 292 + DescSize(m)
         /\ SectionSlack \in Nat /\ SectionSlack >= 16
<1>1. NoteAt = 276 /\ TableAt = 64 /\ StringsAt = 256
  BY DEF NoteAt, TableAt, StringsAt
<1>2. DescSize(m) \in Nat /\ DescSize(m) >= 33 /\ DescSize(m) % 4 = 0
  <2>1. /\ Len(Expand(m)) \in Nat /\ FirstAt(m) \in Nat /\ FirstAt(m) >= 33
        /\ Begins(m)[Len(Expand(m))] = DescSize(m)
        /\ \A i \in 0..Len(Expand(m)) :
             Begins(m)[i] \in Nat /\ Begins(m)[i] % 4 = 0 /\ FirstAt(m) <= Begins(m)[i]
    BY DescLayout
  <2>2. Len(Expand(m)) \in 0..Len(Expand(m))
    BY <2>1
  <2>3. DescSize(m) \in Nat /\ DescSize(m) % 4 = 0 /\ FirstAt(m) <= DescSize(m)
    BY <2>1, <2>2
  <2> QED
    BY <2>1, <2>3
<1>3. DescSize(m) <= MaxDescSize
  BY ManifestHas
<1>4. Object(m).size = NoteAt + 16 + DescSize(m)
  BY HeadIsFound
<1>5. /\ MaxDescSize \in Nat /\ MaxWord \in Nat /\ NoteAt + 16 + MaxDescSize <= MaxWord
      /\ SectionSlack \in Nat /\ SectionSlack >= 16
  BY LimitsAssumption
<1> QED
  BY <1>1, <1>2, <1>3, <1>4, <1>5

\* Two sequences of the same things in the same places are one.
LEMMA SameSeq ==
  ASSUME NEW s, NEW t, IsSeq(s), IsSeq(t), Len(s) = Len(t), \A i \in 1..Len(s) : s[i] = t[i]
  PROVE  s = t
<1>1. Len(s) \in Nat /\ s = [i \in 1..Len(s) |-> s[i]] /\ t = [i \in 1..Len(s) |-> t[i]]
  BY SeqParts
<1> QED
  BY <1>1, Zenon

LEMMA NoteInit == Reader!Init => NoteInv
<1> SUFFICES ASSUME Reader!Init PROVE NoteInv
  OBVIOUS
<1>1. file \in Objects /\ pc = "elf" /\ out = <<>>
  BY DEF Reader!Init
<1>2. PICK m \in Manifests : file = Object(m)
  BY <1>1 DEF Objects
<1>3. file.manifest = m
  BY <1>2, ObjectHas
<1> QED
  BY <1>1, <1>2, <1>3 DEF NoteInv

\* The header of the object is accepted.
LEMMA ElfStep == NoteInv /\ Reader!ReadElf => NoteInv'
<1> SUFFICES ASSUME NoteInv, Reader!ReadElf PROVE NoteInv'
  OBVIOUS
<1> DEFINE m == file.manifest
           h == [known |-> TRUE, shoff |-> TableAt, entsize |-> 64, num |-> 3, strndx |-> 1]
           s == [name |-> 1, note |-> FALSE, at |-> StringsAt, size |-> 20]
           size == ObjectSize(file)
<1>1. m \in Manifests /\ file = Object(m) /\ pc = "elf" /\ out = <<>>
  BY DEF NoteInv, Reader!ReadElf
<1>2. NoteAt = 276 /\ TableAt = 64 /\ StringsAt = 256 /\ DescSize(m) \in Nat /\ MaxWord \in Nat /\ 292 + DescSize(m) <= MaxWord
  BY <1>1, ObjectNumbers
<1>3. size = 292 + DescSize(m)
  BY <1>1, ObjectNumbers DEF ObjectSize
<1>4. ElfFound(file) = {h}
  BY DEF ElfFound
<1>5. /\ h.known = TRUE /\ h.shoff = 64 /\ h.entsize = 64 /\ h.num = 3 /\ h.strndx = 1
      /\ s.at = 256 /\ s.size = 20
  BY <1>2
<1>6. SectionsFound(file, 128) = {s}
  BY <1>2 DEF SectionsFound
<1>7. h.known
  BY <1>5, Zenon
<1> HIDE DEF h, s, size
<1>8. Reader!SectionAt(h, h.strndx) = 128
  BY <1>5 DEF Reader!SectionAt
<1>9. Reader!TableFits(h)
  BY <1>2, <1>3, <1>5, <1>7, <1>8
     DEF Reader!TableFits, Reader!ShdrSize, Reader!Fits, Reader!ReadableSection, Reader!Plus, size
<1>10. Reader!Fits(s.at, s.size, size)
  BY <1>2, <1>3, <1>5 DEF Reader!Fits
<1>11. Reader!EnterTable(h, s)
  <2>1. size >= Reader!EhdrSize
    BY <1>2, <1>3 DEF Reader!EhdrSize
  <2>2. ~Reader!BadTable(h) /\ ~Reader!BadStrings(h, s)
    BY <1>9, <1>10 DEF Reader!BadTable, Reader!BadStrings, size
  <2> QED
    BY <1>4, <1>6, <1>8, <2>1, <2>2, <1>2, <1>3 DEF Reader!ReadElf, Reader!EhdrSize, size
<1>12. /\ pc' = "sections" /\ table' = [shoff |-> 64, entsize |-> 64, num |-> 3]
       /\ names' = [at |-> 256, size |-> 20] /\ nth' = 0 /\ file' = file /\ out' = out
  BY <1>11, <1>5 DEF Reader!EnterTable
<1> QED
  BY <1>1, <1>12 DEF NoteInv

\* The two sections before the note are skipped, the third one is taken.
LEMMA SectionStep == NoteInv /\ Reader!ReadSection => NoteInv'
<1> SUFFICES ASSUME NoteInv, Reader!ReadSection PROVE NoteInv'
  OBVIOUS
<1> DEFINE m == file.manifest
           size == ObjectSize(file)
           s == CASE nth = 0 -> [name |-> 0, note |-> FALSE, at |-> 0, size |-> 0]
                  [] nth = 1 -> [name |-> 1, note |-> FALSE, at |-> 256, size |-> 20]
                  [] nth = 2 -> [name |-> 2, note |-> TRUE, at |-> 276, size |-> size - 276]
<1>1. /\ m \in Manifests /\ file = Object(m) /\ pc = "sections" /\ out = <<>>
      /\ table = [shoff |-> 64, entsize |-> 64, num |-> 3]
      /\ names = [at |-> 256, size |-> 20] /\ nth \in 0..2
  BY DEF NoteInv, Reader!ReadSection
<1>2. /\ NoteAt = 276 /\ TableAt = 64 /\ StringsAt = 256 /\ DescSize(m) \in Nat /\ MaxWord \in Nat
      /\ 292 + DescSize(m) <= MaxWord /\ DescSize(m) <= MaxDescSize /\ MaxDescSize \in Nat
      /\ SectionSlack \in Nat /\ SectionSlack >= 16
  BY <1>1, ObjectNumbers
<1>3. size = 292 + DescSize(m) /\ size = file.size
  BY <1>1, ObjectNumbers DEF ObjectSize
<1> DEFINE at == Reader!SectionAt(table, nth)
<1>4. at = 64 + nth * 64
  BY <1>1 DEF Reader!SectionAt
<1>5. SectionsFound(file, at) = {s}
  <2>1. CASE nth = 0
    <3>1. at = 64 /\ s = [name |-> 0, note |-> FALSE, at |-> 0, size |-> 0]
      BY <2>1, <1>4
    <3> HIDE DEF s, at
    <3> QED
      BY <3>1, <1>2 DEF SectionsFound
  <2>2. CASE nth = 1
    <3>1. at = 128 /\ s = [name |-> 1, note |-> FALSE, at |-> 256, size |-> 20]
      BY <2>2, <1>4
    <3> HIDE DEF s, at
    <3> QED
      BY <3>1, <1>2 DEF SectionsFound
  <2>3. CASE nth = 2
    <3>1. at = 192 /\ s = [name |-> 2, note |-> TRUE, at |-> 276, size |-> size - 276]
      BY <2>3, <1>4
    <3> HIDE DEF s, at, size
    <3> QED
      BY <3>1, <1>2, <1>3 DEF SectionsFound
  <2> QED
    BY <2>1, <2>2, <2>3, <1>1
<1>6. s.name = nth /\ (s.note <=> nth = 2)
  <2>1. CASE nth = 0
    <3>1. s = [name |-> 0, note |-> FALSE, at |-> 0, size |-> 0]
      BY <2>1
    <3> HIDE DEF s
    <3> QED
      BY <3>1, <2>1
  <2>2. CASE nth = 1
    <3>1. s = [name |-> 1, note |-> FALSE, at |-> 256, size |-> 20]
      BY <2>2
    <3> HIDE DEF s
    <3> QED
      BY <3>1, <2>2
  <2>3. CASE nth = 2
    <3>1. s = [name |-> 2, note |-> TRUE, at |-> 276, size |-> size - 276]
      BY <2>3
    <3> HIDE DEF s
    <3> QED
      BY <3>1, <2>3
  <2> QED
    BY <2>1, <2>2, <2>3, <1>1
<1>7. nth = 2 => s.at = 276 /\ s.size = 16 + DescSize(m)
  <2> SUFFICES ASSUME nth = 2 PROVE s.at = 276 /\ s.size = 16 + DescSize(m)
    OBVIOUS
  <2>1. s = [name |-> 2, note |-> TRUE, at |-> 276, size |-> size - 276]
    OBVIOUS
  <2> HIDE DEF s, size
  <2> QED
    BY <2>1, <1>2, <1>3
<1> HIDE DEF s, size
<1>8. Reader!ReadableSection(table, nth)
  <2>1. nth = 0 \/ nth = 1 \/ nth = 2
    BY <1>1
  <2> HIDE DEF at
  <2>2. at \in Nat /\ at <= 192
    BY <1>4, <2>1
  <2>3. at <= MaxWord /\ Reader!Plus(at, Reader!ShdrSize) <= size
    BY <1>2, <1>3, <2>2 DEF Reader!Plus, Reader!ShdrSize
  <2> QED
    BY <2>3 DEF Reader!ReadableSection, at, size
<1>9. Reader!BadName(s) \/ Reader!SkipSection(s) \/ Reader!BadSection(s) \/ Reader!TakeSection(s)
  BY <1>5, <1>8, Zenon DEF Reader!ReadSection, at
<1> HIDE DEF at
<1>10. ~Reader!BadName(s)
  <2>1. ~(s.name >= names.size)
    BY <1>1, <1>6
  <2> QED
    BY <2>1 DEF Reader!BadName
<1>11. CASE Reader!SkipSection(s)
  <2>1. nth # 2 /\ nth' = nth + 1 /\ UNCHANGED <<file, pc, table, names, out>>
    BY <1>6, <1>11 DEF Reader!SkipSection
  <2>2. nth' \in 0..2
    BY <1>1, <2>1
  <2> QED
    BY <1>1, <2>1, <2>2 DEF NoteInv
<1>12. ~Reader!BadSection(s)
  <2>1. CASE nth # 2
    BY <2>1, <1>6 DEF Reader!BadSection
  <2>2. CASE nth = 2
    <3>1. Reader!SectionFits(s)
      BY <2>2, <1>2, <1>3, <1>7 DEF Reader!SectionFits, Reader!Fits, size
    <3> QED
      BY <3>1 DEF Reader!BadSection
  <2> QED
    BY <2>1, <2>2
<1>13. CASE Reader!TakeSection(s)
  <2>1. nth = 2
    BY <1>6, <1>13 DEF Reader!TakeSection
  <2>2. /\ pc' = "notes" /\ sec' = [at |-> s.at, size |-> s.size] /\ off' = 0
        /\ UNCHANGED <<file, out>>
    BY <1>13 DEF Reader!TakeSection
  <2> QED
    BY <1>1, <1>2, <1>7, <2>1, <2>2 DEF NoteInv
<1> QED
  BY <1>9, <1>10, <1>11, <1>12, <1>13

\* The search ends before the table does.
LEMMA SectionExists == NoteInv => ~Reader!NoSection
<1> SUFFICES ASSUME NoteInv, Reader!NoSection PROVE FALSE
  OBVIOUS
<1>1. table.num = 3 /\ nth \in 0..2 /\ nth >= table.num
  BY DEF NoteInv, Reader!NoSection
<1> QED
  BY <1>1

\* The first note is the layout's.
LEMMA NoteStep == NoteInv /\ Reader!ReadNote => NoteInv'
<1> SUFFICES ASSUME NoteInv, Reader!ReadNote PROVE NoteInv'
  OBVIOUS
<1> DEFINE m == file.manifest
           n == NoteHead(m)
<1>1. /\ m \in Manifests /\ file = Object(m) /\ pc = "notes" /\ out = <<>>
      /\ sec = [at |-> NoteAt, size |-> 16 + DescSize(m)] /\ off = 0
  BY DEF NoteInv, Reader!ReadNote
<1>2. /\ NoteAt = 276 /\ DescSize(m) \in Nat /\ MaxWord \in Nat
      /\ 292 + DescSize(m) <= MaxWord /\ DescSize(m) <= MaxDescSize
      /\ DescSize(m) >= 33 /\ DescSize(m) % 4 = 0
  BY <1>1, ObjectNumbers
<1>3. NoteFound(file, sec.at + off) = {n}
  <2>1. sec.at + off = NoteAt
    BY <1>1, <1>2
  <2>2. NoteFound(Object(m), NoteAt) = {NoteHead(m)}
    BY <1>1, HeadIsFound
  <2> QED
    BY <1>1, <2>1, <2>2
<1>4. n.namesz = 4 /\ n.descsz = DescSize(m) /\ n.iro = TRUE
  BY DEF NoteHead
<1>5. n.iro
  BY <1>4, Zenon
<1>6. Reader!BadNote(n) \/ Reader!SkipNote(n) \/ Reader!TakeNote(n)
  BY <1>3 DEF Reader!ReadNote
<1> HIDE DEF n, m
<1>7. Reader!Align4(4) = 4 /\ Reader!Align4(DescSize(m)) = DescSize(m)
  <2>1. \A d \in Nat : d % 4 = 0 => ((d + 3) \div 4) * 4 = d
    OBVIOUS
  <2>2. ((4 + 3) \div 4) * 4 = 4
    OBVIOUS
  <2> QED
    BY <2>1, <2>2, <1>2 DEF Reader!Align4, Reader!Plus
<1>8. Reader!NoteFits(n)
  <2>1. sec.size = 16 + DescSize(m)
    BY <1>1
  <2> QED
    BY <2>1, <1>1, <1>2, <1>4, <1>7 DEF Reader!NoteFits, Reader!Fits, Reader!NoteHeaderSize
<1>9. Reader!TakeNote(n)
  BY <1>5, <1>6, <1>8 DEF Reader!BadNote, Reader!SkipNote
<1>10. /\ pc' = "header" /\ desc' = [at |-> sec.at + Reader!DescAt(n), size |-> n.descsz]
       /\ UNCHANGED <<file, out>>
  BY <1>9 DEF Reader!TakeNote
<1>11. desc' = [at |-> NoteAt + 16, size |-> DescSize(m)]
  <2>1. sec.at + Reader!DescAt(n) = NoteAt + 16
    BY <1>1, <1>2, <1>4, <1>7 DEF Reader!DescAt, Reader!NoteHeaderSize
  <2> QED
    BY <2>1, <1>4, <1>10
<1> QED
  BY <1>1, <1>10, <1>11 DEF NoteInv, m

LEMMA NoteExists == NoteInv => ~Reader!NoNote
<1> SUFFICES ASSUME NoteInv, Reader!NoNote PROVE FALSE
  OBVIOUS
<1> DEFINE m == file.manifest
<1>1. /\ m \in Manifests /\ sec = [at |-> NoteAt, size |-> 16 + DescSize(m)] /\ off = 0
      /\ Reader!Plus(off, Reader!NoteHeaderSize) > sec.size
  BY DEF NoteInv, Reader!NoNote
<1>2. DescSize(m) \in Nat /\ MaxWord \in Nat /\ 292 + DescSize(m) <= MaxWord
  BY <1>1, ObjectNumbers
<1>3. sec.size = 16 + DescSize(m)
  BY <1>1
<1> HIDE DEF m
<1>4. Reader!Plus(off, Reader!NoteHeaderSize) = 12
  BY <1>1, <1>2 DEF Reader!Plus, Reader!NoteHeaderSize
<1> QED
  BY <1>1, <1>2, <1>3, <1>4

\* The head of the descriptor is taken, unless there are no records.
LEMMA HeaderStep == NoteInv /\ Reader!ReadHeader => NoteInv'
<1> SUFFICES ASSUME NoteInv, Reader!ReadHeader PROVE NoteInv'
  OBVIOUS
<1> DEFINE m == file.manifest
           d == DescHead(m)
           n == Len(Expand(m))
           l == Length[m.set]
<1>1. /\ m \in Manifests /\ file = Object(m) /\ pc = "header" /\ out = <<>>
      /\ desc = [at |-> NoteAt + 16, size |-> DescSize(m)]
  BY DEF NoteInv, Reader!ReadHeader
<1>2. /\ NoteAt = 276 /\ DescSize(m) \in Nat /\ MaxWord \in Nat
      /\ 292 + DescSize(m) <= MaxWord /\ DescSize(m) >= 33
  BY <1>1, ObjectNumbers
<1>3. n \in Nat /\ FirstAt(m) \in Nat /\ FirstAt(m) <= DescSize(m) /\ Begins(m)[0] = FirstAt(m)
  <2>1. /\ n \in Nat /\ FirstAt(m) \in Nat /\ Begins(m)[n] = DescSize(m) /\ Begins(m)[0] = FirstAt(m)
        /\ \A i \in 0..n : FirstAt(m) <= Begins(m)[i]
    BY <1>1, DescLayout
  <2>2. n \in 0..n
    BY <2>1
  <2> QED
    BY <2>1, <2>2
<1>4. n <= MaxRecordCount /\ l \in 1..MaxSetNameLen /\ m.set \in Given /\ MaxRecordCount \in Nat
  <2>1. /\ n <= MaxRecordCount /\ l <= MaxSetNameLen /\ m.set \in Given
        /\ MaxRecordCount \in Nat /\ MaxSetNameLen \in Nat /\ MaxStringLen \in Nat
    BY <1>1, ManifestHas, LimitsAssumption
  <2>2. l \in 1..MaxStringLen
    BY <2>1, LengthsAre
  <2> QED
    BY <2>1, <2>2
<1>5. d.known = TRUE /\ d.count = n /\ d.set_len = l
  BY DEF DescHead
<1>6. d.known
  BY <1>5, Zenon
<1>7. DescFound(file, desc.at) = {d}
  <2>1. desc.at = NoteAt + 16
    BY <1>1
  <2>2. DescFound(Object(m), NoteAt + 16) = {d}
    BY <1>1, HeadIsFound
  <2> QED
    BY <1>1, <2>1, <2>2
<1>8. NameFound(file, desc.at + Reader!DescHeaderSize, d.set_len) = {m.set}
  <2>1. desc.at + Reader!DescHeaderSize = NoteAt + 48
    BY <1>1, <1>2 DEF Reader!DescHeaderSize
  <2>2. NameFound(Object(m), NoteAt + 48, l) = {m.set}
    BY <1>1, HeadIsFound
  <2> QED
    BY <1>1, <1>5, <2>1, <2>2
<1>9. m.set # Garbled
  BY <1>4, NamesAssumption DEF Given
<1>10. desc.size = DescSize(m)
  BY <1>1
<1>11. FirstAt(m) = 32 + l + Padding(l) /\ Reader!Pad4(l) = Padding(l) /\ Padding(l) \in 0..3 /\ l \in Nat
  <2>1. l \in Nat
    BY <1>4
  <2>2. Reader!Pad4(l) = Padding(l) /\ FirstAt(m) = 32 + l + Padding(l)
    BY DEF Reader!Pad4, Padding, FirstAt
  <2> HIDE DEF l
  <2> QED
    BY <2>1, <2>2, PaddingPads
<1> HIDE DEF d, n, l
<1>12. Reader!BadHeader(d) \/ (Reader!DescFits(d) /\ Reader!TakeHeader(d))
  <2>1. desc.size >= Reader!DescHeaderSize
    BY <1>2, <1>10 DEF Reader!DescHeaderSize
  <2>2. \/ Reader!BadHeader(d)
        \/ \E s \in NameFound(file, desc.at + Reader!DescHeaderSize, d.set_len) :
             IF s = Garbled THEN Reader!BadSetName(d) ELSE Reader!TakeHeader(d)
    BY <1>7, <1>2, <1>10, <2>1 DEF Reader!ReadHeader, Reader!DescHeaderSize
  <2>3. Reader!BadHeader(d) \/ Reader!TakeHeader(d)
    BY <1>8, <1>9, <2>2, Zenon
  <2> QED
    BY <2>3 DEF Reader!TakeHeader
<1>13. CASE n = 0
  <2>1. ~Reader!DescFits(d)
    BY <1>13, <1>5 DEF Reader!DescFits
  <2>2. pc' = "rejected" /\ UNCHANGED <<file, out>>
    BY <1>12, <2>1 DEF Reader!BadHeader, Reader!Reject
  <2>3. Expand(m) = <<>>
    BY <1>1, <1>13, ExpandHolds, NoneIsSeq, SameSeq DEF n
  <2> QED
    BY <1>1, <2>2, <2>3 DEF NoteInv
<1>14. CASE n # 0
  <2>1. Reader!DescFits(d)
    <3>1. d.count \in 1..MaxRecordCount /\ d.set_len \in 1..MaxSetNameLen
      BY <1>3, <1>4, <1>5, <1>14
    <3>2. 32 + l <= DescSize(m) /\ 32 + l + Padding(l) <= DescSize(m) /\ DescSize(m) <= MaxWord
      BY <1>2, <1>3, <1>11
    <3>3. Reader!Fits(32, l, DescSize(m)) /\ Reader!Fits(32 + l, Padding(l), DescSize(m))
      BY <1>2, <1>11, <3>2 DEF Reader!Fits
    <3> QED
      BY <1>5, <1>6, <1>10, <1>11, <3>1, <3>3 DEF Reader!DescFits, Reader!DescHeaderSize
  <2>2. Reader!TakeHeader(d)
    BY <1>12, <2>1 DEF Reader!BadHeader
  <2>3. /\ pc' = "records" /\ pos' = Reader!SetEnd(d) /\ todo' = d.count
        /\ UNCHANGED <<file, desc, out>>
    BY <2>2 DEF Reader!TakeHeader
  <2>4. pos' = Begins(m)[0] /\ todo' = n - 0
    <3>1. Reader!SetEnd(d) = 32 + l + Padding(l)
      BY <1>5, <1>11 DEF Reader!SetEnd, Reader!DescHeaderSize
    <3> QED
      BY <1>3, <1>5, <1>11, <2>3, <3>1
  <2>5. IsSeq(out') /\ Len(out') = 0
    BY <1>1, <2>3, NoneIsSeq
  <2>6. ReadUpTo(m, 0)'
    <3>1. 1..0 = {}
      OBVIOUS
    <3>2. m' = m
      BY <2>3
    <3> QED
      BY <2>4, <2>5, <3>1, <3>2 DEF ReadUpTo, n
  <2>7. Expand(m) # <<>>
    BY <1>14, NoneIsSeq DEF n
  <2>8. 0 \in 0..n /\ file' = file
    BY <1>3, <2>3
  <2> QED
    BY <1>1, <2>3, <2>6, <2>7, <2>8 DEF NoteInv, n
<1> QED
  BY <1>13, <1>14

\* A record is read as it was written.
LEMMA RecordStep == NoteInv /\ Reader!ReadRecord => NoteInv'
<1> SUFFICES ASSUME NoteInv, Reader!ReadRecord PROVE NoteInv'
  OBVIOUS
<1> DEFINE m == file.manifest
           n == Len(Expand(m))
<1>1. /\ m \in Manifests /\ file = Object(m) /\ pc = "records" /\ todo > 0
      /\ desc = [at |-> NoteAt + 16, size |-> DescSize(m)] /\ Expand(m) # <<>>
  BY DEF NoteInv, Reader!ReadRecord
<1>2. PICK k \in 0..n : ReadUpTo(m, k)
  BY <1>1 DEF NoteInv
<1>3. /\ NoteAt = 276 /\ DescSize(m) \in Nat /\ MaxWord \in Nat /\ 292 + DescSize(m) <= MaxWord
  BY <1>1, ObjectNumbers
<1>4. /\ n \in Nat /\ Begins(m)[n] = DescSize(m)
      /\ \A i \in 1..n : Sound(Expand(m)[i]) /\ Begins(m)[i] = Begins(m)[i - 1] + RecordSize(Expand(m)[i])
      /\ \A i \in 0..n : Begins(m)[i] \in Nat /\ Begins(m)[i] <= Begins(m)[n]
  BY <1>1, DescLayout
<1>5. todo = n - k /\ pos = Begins(m)[k] /\ IsSeq(out) /\ Len(out) = k /\ \A i \in 1..k : out[i] = Expand(m)[i]
  BY <1>2 DEF ReadUpTo
<1> DEFINE i == k + 1
           r == Expand(m)[i]
           h == RecordHead(r)
           tl == Length[r.type_name]
           fl == Length[r.field_name]
<1>6. i \in 1..n /\ i - 1 = k /\ i \in 0..n
  BY <1>1, <1>4, <1>5
<1>7. Sound(r) /\ Begins(m)[i] = pos + RecordSize(r) /\ pos \in Nat /\ pos + RecordSize(r) <= DescSize(m)
  BY <1>4, <1>5, <1>6
<1> DEFINE size == RecordSize(r)
           len == StringLength(r)
           p == NoteAt + 16 + pos
<1>8. /\ tl \in 1..MaxStringLen /\ fl \in 0..MaxStringLen /\ MaxStringLen \in Nat
      /\ (fl = 0) = (r.kind \in {"type", "const"})
      /\ len = tl + fl /\ len \in Nat /\ size \in Nat /\ size % 4 = 0 /\ size >= 40 + len
  BY <1>7, SoundNumbers
<1>9. /\ h.size = size /\ h.kind = r.kind /\ h.flags = r.flags /\ h.type_len = tl /\ h.field_len = fl
      /\ h.sizeof = r.sizeof /\ h.alignof = r.alignof /\ h.reserved0 = 0 /\ h.value = r.value
  BY DEF RecordHead
<1>10. /\ RecordFound(Object(m), p) = {h}
       /\ NameFound(Object(m), p + 40, tl) = {r.type_name}
       /\ NameFound(Object(m), p + 40 + tl, fl) = {r.field_name}
  <2> DEFINE q == NoteAt + 16 + Begins(m)[i - 1]
  <2>1. q = p
    BY <1>5, <1>6
  <2> HIDE DEF i, p
  <2>2. /\ RecordFound(Object(m), q) = {h}
        /\ NameFound(Object(m), q + 40, tl) = {r.type_name}
        /\ NameFound(Object(m), q + 40 + tl, fl) = {r.field_name}
    BY <1>1, <1>6, RecordIsFound, Zenon
  <2> HIDE DEF q, h, tl, fl, r
  <2> QED
    BY <2>1, <2>2
<1>11. Garbled \notin {r.type_name, r.field_name}
  <2>1. r.type_name \in DOMAIN Length /\ r.field_name \in DOMAIN Length /\ Garbled \notin DOMAIN Length
    BY <1>7, NamesAssumption DEF Sound, Given
  <2> QED
    BY <2>1
<1>12. desc.at + pos = p /\ desc.size = DescSize(m) /\ p \in Nat
  BY <1>1, <1>3, <1>7
<1> HIDE DEF h, tl, fl, size, len, p, r, n
<1>13. Reader!Plus(pos, Reader!RecordHeaderSize) <= desc.size
  BY <1>3, <1>7, <1>8, <1>12 DEF Reader!Plus, Reader!RecordHeaderSize, size
<1>14. Reader!RecordFits(h)
  <2>1. h.size >= Reader!RecordHeaderSize /\ h.size % 4 = 0 /\ h.reserved0 = 0
    BY <1>8, <1>9 DEF Reader!RecordHeaderSize
  <2>2. "reserved" \notin h.flags /\ h.kind \in Reader!Kinds
    BY <1>7, <1>9 DEF Sound, Reader!Kinds
  <2>3. h.type_len <= MaxStringLen /\ h.field_len <= MaxStringLen
    BY <1>8, <1>9
  <2>4. Reader!Fits(pos + Reader!RecordHeaderSize, h.size - Reader!RecordHeaderSize, desc.size)
    <3>1. pos + size <= DescSize(m)
      BY <1>7 DEF size
    <3> QED
      BY <3>1, <1>3, <1>7, <1>8, <1>9, <1>12 DEF Reader!Fits, Reader!RecordHeaderSize
  <2>5. Reader!Plus32(h.type_len, h.field_len) <= h.size - Reader!RecordHeaderSize
    <3>1. tl + fl <= MaxU32 /\ MaxU32 \in Nat
      BY <1>8, LimitsAssumption
    <3> QED
      BY <3>1, <1>8, <1>9 DEF Reader!Plus32, Reader!RecordHeaderSize
  <2> QED
    BY <2>1, <2>2, <2>3, <2>4, <2>5 DEF Reader!RecordFits
<1>15. Reader!KindFits(h)
  <2>1. /\ r.kind \in {"type", "field", "bitfield", "const", "enum"}
        /\ r.flags \subseteq {"signed"} /\ (r.kind # "enum" => r.flags = {})
        /\ IF r.kind \in {"const", "enum"} THEN r.sizeof = 0 /\ r.alignof = 0
                                           ELSE r.sizeof = 8 /\ r.alignof = 8
        /\ r.kind = "type" => r.value = 0
    BY <1>7 DEF Sound
  <2>2. (fl = 0) = (r.kind \in {"type", "const"})
    BY <1>8
  <2>3. (h.field_len = 0) = (h.kind \in {"type", "const"})
    BY <2>2, <1>9
  <2> QED
    BY <2>1, <2>3, <1>9 DEF Reader!KindFits
<1>16. Reader!TypeNames(h) = {r.type_name} /\ Reader!FieldNames(h) = {r.field_name}
  <2>1. /\ desc.at + pos + Reader!RecordHeaderSize = p + 40
        /\ desc.at + pos + Reader!RecordHeaderSize + h.type_len = p + 40 + tl
    BY <1>9, <1>12 DEF Reader!RecordHeaderSize
  <2> QED
    BY <2>1, <1>1, <1>9, <1>10 DEF Reader!TypeNames, Reader!FieldNames
<1>17. Reader!TakeRecord(h, r.type_name, r.field_name)
  <2>1. RecordFound(file, desc.at + pos) = {h}
    BY <1>1, <1>10, <1>12
  <2>2. \/ Reader!BadRecord(h)
        \/ \E t \in Reader!TypeNames(h), f \in Reader!FieldNames(h) :
             Reader!BadContents(h, t, f) \/ Reader!TakeRecord(h, t, f)
    <3>1. ~(Reader!Plus(pos, Reader!RecordHeaderSize) > desc.size)
      <4>1. Reader!Plus(pos, Reader!RecordHeaderSize) \in Int
        BY <1>3, <1>7 DEF Reader!Plus, Reader!RecordHeaderSize
      <4> QED
        BY <4>1, <1>3, <1>12, <1>13
    <3> QED
      BY <2>1, <3>1, Zenon DEF Reader!ReadRecord
  <2>3. ~Reader!BadRecord(h) /\ ~Reader!BadContents(h, r.type_name, r.field_name)
    BY <1>11, <1>14, <1>15 DEF Reader!BadRecord, Reader!BadContents
  <2> QED
    BY <2>2, <2>3, <1>16
<1>18. /\ pc' = "records" /\ pos' = Reader!RecordEnd(h) /\ todo' = todo - 1
       /\ out' = Append(out, Reader!Record(h, r.type_name, r.field_name))
       /\ UNCHANGED <<file, desc>>
  BY <1>1, <1>17 DEF Reader!TakeRecord
<1>19. Reader!Record(h, r.type_name, r.field_name) = r
  <2>1. r = [kind |-> r.kind, flags |-> r.flags, type_name |-> r.type_name,
             field_name |-> r.field_name, sizeof |-> r.sizeof, alignof |-> r.alignof,
             value |-> r.value]
    BY <1>7 DEF Sound
  <2>2. Reader!Record(h, r.type_name, r.field_name)
          = [kind |-> r.kind, flags |-> r.flags, type_name |-> r.type_name,
             field_name |-> r.field_name, sizeof |-> r.sizeof, alignof |-> r.alignof,
             value |-> r.value]
    BY <1>9, Zenon DEF Reader!Record
  <2> QED
    BY <2>1, <2>2, Zenon
<1>20. pos' = Begins(m)[i]
  <2>1. Reader!RecordEnd(h) = pos + size
    BY <1>7, <1>8, <1>9 DEF Reader!RecordEnd, Reader!RecordHeaderSize
  <2> QED
    BY <2>1, <1>7, <1>18 DEF size
<1>21. IsSeq(out') /\ Len(out') = i /\ \A j \in 1..i : out'[j] = Expand(m)[j]
  <2>1. out' = Append(out, r)
    BY <1>18, <1>19
  <2> DEFINE S == ToSet(out) \cup {r}
             T == ToSet(out)
  <2>2. out \in Seq(T) /\ T \subseteq S /\ r \in S
    BY <1>5 DEF IsSeq
  <2> HIDE DEF S, T
  <2>3. out' \in Seq(S) /\ Len(out') = Len(out) + 1 /\ out'[Len(out) + 1] = r
        /\ \A j \in 1..Len(out) : out'[j] = out[j]
    BY <2>1, <2>2
  <2>4. IsSeq(out')
    BY <2>3, SeqOfAny
  <2>5. \A j \in 1..i : j = i \/ j \in 1..k
    BY <1>4
  <2> QED
    BY <2>3, <2>4, <2>5, <1>5 DEF r
<1>22. ReadUpTo(m, i)'
  <2>1. m' = m /\ todo' = n - i
    BY <1>4, <1>5, <1>18
  <2> QED
    BY <2>1, <1>20, <1>21 DEF ReadUpTo, n
<1> QED
  BY <1>1, <1>6, <1>18, <1>22 DEF NoteInv, n

\* Nothing is left over after the last record.
LEMMA TrailingStep == NoteInv /\ Reader!ReadTrailing => NoteInv'
<1> SUFFICES ASSUME NoteInv, Reader!ReadTrailing PROVE NoteInv'
  OBVIOUS
<1> DEFINE m == file.manifest
           n == Len(Expand(m))
<1>1. /\ m \in Manifests /\ file = Object(m) /\ pc = "records" /\ todo = 0
      /\ desc = [at |-> NoteAt + 16, size |-> DescSize(m)]
  BY DEF NoteInv, Reader!ReadTrailing
<1>2. PICK k \in 0..n : ReadUpTo(m, k)
  BY <1>1 DEF NoteInv
<1>3. n \in Nat /\ Begins(m)[n] = DescSize(m) /\ IsSeq(Expand(m)) /\ NoteAt = 276 /\ DescSize(m) \in Nat
  BY <1>1, DescLayout, ExpandHolds, ObjectNumbers
<1>4. k = n /\ pos = DescSize(m) /\ out = Expand(m)
  <2>1. todo = n - k /\ pos = Begins(m)[k] /\ IsSeq(out) /\ Len(out) = k /\ \A i \in 1..k : out[i] = Expand(m)[i]
    BY <1>2 DEF ReadUpTo
  <2>2. k = n
    BY <1>1, <1>3, <2>1
  <2> QED
    BY <1>3, <2>1, <2>2, SameSeq
<1> DEFINE a == desc.at + pos
<1>5. desc.at + desc.size = a /\ a \in Nat
  BY <1>1, <1>3, <1>4
<1>6. ASSUME NEW z \in ZerosFound(file, a, a) PROVE z
  <2>1. \A i \in DOMAIN file.at : i \in a..(a - 1) => file.at[i].v = 0
    <3>1. a..(a - 1) = {}
      BY <1>5
    <3> QED
      BY <3>1
  <2>2. z = (\A i \in DOMAIN file.at : i \in a..(a - 1) => file.at[i].v = 0)
    BY <1>6, Zenon DEF ZerosFound
  <2> HIDE DEF a
  <2> QED
    BY <2>1, <2>2, Zenon
<1> HIDE DEF a
<1>7. pc' = "accepted" /\ UNCHANGED <<file, out>>
  <2>1. \E z \in ZerosFound(file, a, a) : pc' = IF z THEN "accepted" ELSE "rejected"
    <3> DEFINE Z == ZerosFound(file, desc.at + pos, desc.at + desc.size)
    <3>1. \E z \in Z : pc' = IF z THEN "accepted" ELSE "rejected"
      BY Zenon DEF Reader!ReadTrailing
    <3>2. Z = ZerosFound(file, a, a)
      BY <1>5 DEF a
    <3> HIDE DEF Z
    <3> QED
      BY <3>1, <3>2, Zenon
  <2>2. pc' = "accepted"
    BY <1>6, <2>1, Zenon
  <2>3. UNCHANGED <<file, out>>
    BY DEF Reader!ReadTrailing
  <2> QED
    BY <2>2, <2>3
<1> QED
  BY <1>1, <1>4, <1>7 DEF NoteInv

LEMMA NoteInvStep == NoteInv /\ [Reader!Next]_(Reader!vars) => NoteInv'
<1> SUFFICES ASSUME NoteInv, [Reader!Next]_(Reader!vars) PROVE NoteInv'
  OBVIOUS
<1>1. CASE Reader!ReadElf
  BY <1>1, ElfStep
<1>2. CASE Reader!ReadSection
  BY <1>2, SectionStep
<1>3. CASE Reader!NoSection
  BY <1>3, SectionExists
<1>4. CASE Reader!ReadNote
  BY <1>4, NoteStep
<1>5. CASE Reader!NoNote
  BY <1>5, NoteExists
<1>6. CASE Reader!ReadHeader
  BY <1>6, HeaderStep
<1>7. CASE Reader!ReadRecord
  BY <1>7, RecordStep
<1>8. CASE Reader!ReadTrailing
  BY <1>8, TrailingStep
<1>9. CASE UNCHANGED Reader!vars
  <2>1. UNCHANGED <<file, pc, table, names, nth, sec, off, desc, pos, todo, out>>
    BY <1>9 DEF Reader!vars, Reader!elf, Reader!cursor
  <2> QED
    BY <2>1 DEF NoteInv, ReadUpTo
<1> QED
  BY <1>1, <1>2, <1>3, <1>4, <1>5, <1>6, <1>7, <1>8, <1>9 DEF Reader!Next

LEMMA NoteInvAlways == Spec => []NoteInv
<1> QED
  BY NoteInit, NoteInvStep, PTL DEF Spec, Reader!Spec

\* What gen_probe wrote is what layout_parse knows: for every manifest within the
\* reader's limits, the records that are accepted are those of expand_records,
\* in its order.
THEOREM RecordsSurvive == Spec => []RoundTrip
<1>1. NoteInv => RoundTrip
  BY DEF NoteInv, RoundTrip
<1> QED
  BY <1>1, NoteInvAlways, PTL

-----------------------------------------------------------------------------
(* Records that contradict each other                                      *)

\* Which sections before the i-th one ask for an accessor of the same type.
SeenBefore(m, i, bf) ==
  {j \in 1..(i - 1) :
     /\ m.types[j].policy = "accessor_shim"
     /\ m.types[j].c_type = m.types[i].c_type
     /\ Contains(m.types[j].bitfields, bf)}

LEMMA AccessorIdIs ==
  ASSUME NEW m, NEW i, NEW bf
  PROVE  AccessorId(m, i, bf) = <<"id", m.types[i].c_type, bf, Cardinality(SeenBefore(m, i, bf))>>
BY Zenon DEF AccessorId, SeenBefore

\* A later section of the same type gets another id for the same accessor.
LEMMA LaterIdDiffers ==
  ASSUME NEW m, NEW j \in Nat, NEW i \in Nat, j < i, j >= 1, NEW bf,
         m.types[j].policy = "accessor_shim", m.types[j].c_type = m.types[i].c_type,
         Contains(m.types[j].bitfields, bf)
  PROVE  AccessorId(m, j, bf) # AccessorId(m, i, bf)
<1> DEFINE S == SeenBefore(m, j, bf)
           T == SeenBefore(m, i, bf)
<1>1. S \subseteq T /\ j \in T /\ j \notin S
  BY DEF SeenBefore
<1>2. IsFiniteSet(T)
  <2>1. IsFiniteSet(1..(i - 1)) /\ T \in SUBSET (1..(i - 1))
    <3>1. 1 \in Int /\ i - 1 \in Int
      OBVIOUS
    <3> QED
      BY <3>1, FS_Interval DEF SeenBefore
  <2> HIDE DEF T
  <2> QED
    BY <2>1, FS_Subset
<1> HIDE DEF S, T
<1>3. Cardinality(S) # Cardinality(T)
  BY <1>1, <1>2, FS_Subset
<1>4. /\ AccessorId(m, j, bf) = <<"id", m.types[j].c_type, bf, Cardinality(S)>>
      /\ AccessorId(m, i, bf) = <<"id", m.types[i].c_type, bf, Cardinality(T)>>
  BY AccessorIdIs, Zenon DEF S, T
<1> QED
  BY <1>3, <1>4

LEMMA ItemSays ==
  ASSUME NEW kind, NEW t, NEW f, NEW flags, NEW value
  PROVE  LET r == Item(kind, t, f, flags, value)
         IN  r.kind = kind /\ r.type_name = t /\ r.field_name = f /\ r.value = value
BY DEF Item

LEMMA ShimSays ==
  ASSUME NEW m, NEW i, NEW bf
  PROVE  LET r == ShimItem(m, i, bf)
         IN  /\ r.kind = "bitfield" /\ r.type_name = m.types[i].c_type
             /\ r.field_name = bf /\ r.value = AccessorId(m, i, bf)
BY ItemSays DEF ShimItem

\* The accessor of a section that the record of a bitfield is for.
ShimOf(m, i, r) ==
  /\ m.types[i].policy = "accessor_shim" /\ m.types[i].c_type = r.type_name
  /\ r.field_name \in ToSet(m.types[i].bitfields)
  /\ r.value = AccessorId(m, i, r.field_name)

\* The value of a record, but for the id of an accessor, follows from its names.
LEMMA ComesSays ==
  ASSUME NEW m \in Manifests, NEW r, Comes(m, r)
  PROVE  \/ r.kind = "type" /\ r.value = 0
         \/ r.kind = "field" /\ r.value = <<"offsetof", r.type_name, r.field_name>>
         \/ r.kind = "const" /\ r.value = <<"const", r.type_name>>
         \/ r.kind = "enum" /\ r.value = <<"enum", r.field_name>>
         \/ r.kind = "bitfield" /\ \E i \in 1..Len(m.types) : ShimOf(m, i, r)
<1>1. ASSUME NEW i \in 1..Len(m.types), r = TypeItem(m, i)
      PROVE  r.kind = "type" /\ r.value = 0
  BY <1>1, ItemSays DEF TypeItem
<1>2. ASSUME NEW i \in 1..Len(m.types), NEW k, r = FieldItem(m, i, m.types[i].fields[k])
      PROVE  r.kind = "field" /\ r.value = <<"offsetof", r.type_name, r.field_name>>
  BY <1>2, ItemSays DEF FieldItem
<1>3. ASSUME NEW i \in 1..Len(m.types), m.types[i].policy = "accessor_shim",
             NEW k \in 1..Len(m.types[i].bitfields), r = ShimItem(m, i, m.types[i].bitfields[k])
      PROVE  r.kind = "bitfield" /\ ShimOf(m, i, r)
  <2> DEFINE bf == m.types[i].bitfields[k]
  <2>1. r = Item("bitfield", m.types[i].c_type, bf, {}, AccessorId(m, i, bf))
    BY <1>3 DEF ShimItem
  <2>2. bf \in ToSet(m.types[i].bitfields)
    BY ManifestHas, SeqParts
  <2> HIDE DEF bf
  <2>3. r.kind = "bitfield" /\ r.type_name = m.types[i].c_type /\ r.field_name = bf /\ r.value = AccessorId(m, i, bf)
    BY <2>1, ItemSays
  <2> QED
    BY <1>3, <2>2, <2>3 DEF ShimOf
<1>4. ASSUME NEW i \in 1..Len(m.constants), r = ConstItem(m.constants[i])
      PROVE  r.kind = "const" /\ r.value = <<"const", r.type_name>>
  BY <1>4, ItemSays DEF ConstItem
<1>5. ASSUME NEW e, NEW v, r = EnumItem(e, v)
      PROVE  r.kind = "enum" /\ r.value = <<"enum", r.field_name>>
  <2> DEFINE flags == IF v \in Negative THEN {"signed"} ELSE {}
  <2>1. r = Item("enum", e.c_type, v, flags, <<"enum", v>>)
    BY <1>5 DEF EnumItem
  <2> HIDE DEF flags
  <2> QED
    BY <2>1, ItemSays
<1> QED
  BY <1>1, <1>2, <1>3, <1>4, <1>5, Zenon DEF Comes, OfType, OfEnum

\* Records contradict each other where two sections share an accessor, and
\* nowhere else.
LEMMA ContradictionsAreShared ==
  ASSUME NEW m \in Manifests
  PROVE  SharesAccessor(m) <=>
           \E i, j \in DOMAIN Expand(m) : Contradict(Expand(m)[i], Expand(m)[j])
<1> DEFINE x == Expand(m)
<1>1. /\ DOMAIN x = 1..Len(x)
      /\ \A k \in 1..Len(x) : Comes(m, x[k])
      /\ \A i \in 1..Len(m.types) : m.types[i].policy = "accessor_shim" =>
           \A k \in 1..Len(m.types[i].bitfields) :
             \E j \in 1..Len(x) : x[j] = ShimItem(m, i, m.types[i].bitfields[k])
  BY ExpandHolds, SeqParts
<1>2. DOMAIN m.types = 1..Len(m.types) /\ Len(m.types) \in Nat
  BY ManifestHas, SeqParts
<1> HIDE DEF x
<1>3. ASSUME NEW i \in 1..Len(m.types), NEW j \in 1..Len(m.types), j < i,
             m.types[i].c_type = m.types[j].c_type,
             m.types[i].policy = "accessor_shim", m.types[j].policy = "accessor_shim",
             NEW bf, bf \in ToSet(m.types[i].bitfields), bf \in ToSet(m.types[j].bitfields)
      PROVE  \E a, b \in DOMAIN x : Contradict(x[a], x[b])
  <2>1. /\ IsSeq(m.types[i].bitfields) /\ IsSeq(m.types[j].bitfields)
        /\ DOMAIN m.types[i].bitfields = 1..Len(m.types[i].bitfields)
        /\ DOMAIN m.types[j].bitfields = 1..Len(m.types[j].bitfields)
    BY ManifestHas, SeqParts
  <2>2. PICK k \in 1..Len(m.types[i].bitfields) : m.types[i].bitfields[k] = bf
    BY <1>3, <2>1 DEF ToSet
  <2>3. PICK l \in 1..Len(m.types[j].bitfields) : m.types[j].bitfields[l] = bf
    BY <1>3, <2>1 DEF ToSet
  <2>4. PICK a \in 1..Len(x) : x[a] = ShimItem(m, i, bf)
    BY <1>1, <1>3, <2>2
  <2>5. PICK b \in 1..Len(x) : x[b] = ShimItem(m, j, bf)
    BY <1>1, <1>3, <2>3
  <2>6. AccessorId(m, j, bf) # AccessorId(m, i, bf)
    <3>1. Contains(m.types[j].bitfields, bf)
      BY <2>3 DEF Contains
    <3>2. i \in Nat /\ j \in Nat /\ j >= 1
      BY <1>2
    <3> QED
      BY <1>3, <3>1, <3>2, LaterIdDiffers
  <2>7. /\ x[a].kind = "bitfield" /\ x[a].type_name = m.types[i].c_type
        /\ x[a].field_name = bf /\ x[a].value = AccessorId(m, i, bf)
    BY <2>4, ShimSays
  <2>8. /\ x[b].kind = "bitfield" /\ x[b].type_name = m.types[j].c_type
        /\ x[b].field_name = bf /\ x[b].value = AccessorId(m, j, bf)
    BY <2>5, ShimSays
  <2>9. Contradict(x[a], x[b])
    BY <1>3, <2>6, <2>7, <2>8 DEF Contradict
  <2> QED
    BY <1>1, <2>9
<1>4. ASSUME SharesAccessor(m)
      PROVE  \E a, b \in DOMAIN x : Contradict(x[a], x[b])
  <2>1. PICK i \in DOMAIN m.types, j \in DOMAIN m.types :
          /\ i # j /\ m.types[i].c_type = m.types[j].c_type
          /\ m.types[i].policy = "accessor_shim" /\ m.types[j].policy = "accessor_shim"
          /\ \E bf : bf \in ToSet(m.types[i].bitfields) /\ bf \in ToSet(m.types[j].bitfields)
    BY <1>4 DEF SharesAccessor
  <2>2. PICK bf : bf \in ToSet(m.types[i].bitfields) /\ bf \in ToSet(m.types[j].bitfields)
    BY <2>1
  <2>3. j < i \/ i < j
    BY <1>2, <2>1
  <2> QED
    BY <1>2, <1>3, <2>1, <2>2, <2>3
<1>5. ASSUME NEW a \in DOMAIN x, NEW b \in DOMAIN x, Contradict(x[a], x[b])
      PROVE  SharesAccessor(m)
  <2> DEFINE r == x[a]
             s == x[b]
  <2>1. /\ r.kind = s.kind /\ r.type_name = s.type_name /\ r.field_name = s.field_name
        /\ r.value # s.value
    BY <1>5 DEF Contradict
  <2>2. Comes(m, r) /\ Comes(m, s)
    BY <1>1
  <2> HIDE DEF r, s
  <2>3. /\ r.kind \in {"type", "field", "const", "enum"} => r.value = s.value
        /\ r.kind \in {"type", "field", "const", "enum", "bitfield"}
    BY <2>1, <2>2, ComesSays
  <2>4. r.kind = "bitfield" /\ s.kind = "bitfield"
    BY <2>1, <2>3
  <2>5. PICK i \in 1..Len(m.types) : ShimOf(m, i, r)
    BY <2>2, <2>4, ComesSays
  <2>6. PICK j \in 1..Len(m.types) : ShimOf(m, j, s)
    BY <2>2, <2>4, ComesSays
  <2>7. i # j
    BY <2>1, <2>5, <2>6 DEF ShimOf
  <2>8. /\ m.types[i].c_type = m.types[j].c_type
        /\ m.types[i].policy = "accessor_shim" /\ m.types[j].policy = "accessor_shim"
        /\ r.field_name \in ToSet(m.types[i].bitfields) \cap ToSet(m.types[j].bitfields)
    BY <2>1, <2>5, <2>6 DEF ShimOf
  <2> QED
    BY <1>2, <2>7, <2>8 DEF SharesAccessor
<1> QED
  BY <1>4, <1>5 DEF x

\* A note with a record in it is accepted, for every manifest within the
\* reader's limits: the sizes and paddings that compute_sizes, emit_record_bytes
\* and layout_parse compute agree.  Its records contradict each other exactly
\* where two sections ask for one accessor.
THEOREM NoNoteIsLost == Spec => []WrittenIsAccepted
<1>1. NoteInv => WrittenIsAccepted
  <2> SUFFICES ASSUME NoteInv PROVE WrittenIsAccepted
    OBVIOUS
  <2> DEFINE m == file.manifest
  <2>1. /\ m \in Manifests /\ (pc = "rejected" => Expand(m) = <<>>)
        /\ (pc = "accepted" => out = Expand(m))
    BY DEF NoteInv
  <2>2. ASSUME pc = "accepted"
        PROVE  SharesAccessor(m) <=> \E i, j \in DOMAIN out : Contradict(out[i], out[j])
    <3>1. out = Expand(m)
      BY <2>1, <2>2
    <3> HIDE DEF m
    <3> QED
      BY <2>1, <3>1, ContradictionsAreShared, Zenon
  <2> QED
    BY <2>1, <2>2 DEF WrittenIsAccepted
<1> QED
  BY <1>1, NoteInvAlways, PTL

=============================================================================
