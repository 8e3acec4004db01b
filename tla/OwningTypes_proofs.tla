------------------------- MODULE OwningTypes_proofs -------------------------
(***************************************************************************)
(* Proofs about OwningTypes, for any owners, blocks and values: no step of *)
(* any call is illegal, between calls everything alive is owned once, and  *)
(* each call does, whatever throws, what Holders promises of it.           *)
(***************************************************************************)
EXTENDS OwningTypes, SequenceTheorems, TLAPS

Kinds == {"value", "error"}
Cells == Things \cup {Dead}
MarksOrNone == Marks \cup {Absent}

\* What the steps work on.
States == [cell : [Places -> Cells], mark : [Owners -> MarksOrNone], heap : SUBSET Blocks]
Now == [cell |-> cell, mark |-> mark, heap |-> heap]

-----------------------------------------------------------------------------
(* One step                                                                *)

\* There is something of a kind to copy or to move.
There(st, from, arm) ==
  \/ from.by = "arg" /\ from.val \in Values
  \/ from.by \in {"copy", "move"} /\ from.of \in Places /\ st.cell[from.of].arm = arm

MayDo(st, s) ==
  \/ /\ s.do = "new" /\ s.at \in Places /\ s.arm \in Kinds /\ There(st, s.from, s.arm)
     /\ st.cell[s.at].arm = "dead" /\ (s.at[1] \in Blocks => s.at[1] \in st.heap)
  \/ /\ s.do = "assign" /\ s.at \in Places /\ s.arm \in Kinds /\ There(st, s.from, s.arm)
     /\ st.cell[s.at].arm = s.arm /\ s.from.by # "arg"
  \/ s.do = "end" /\ s.at \in Places /\ s.arm \in Kinds /\ st.cell[s.at].arm = s.arm
  \/ s.do = "mark" /\ s.owner \in Owners /\ s.to \in MarksOrNone
  \/ s.do = "alloc" /\ s.block \in Blocks \ st.heap
  \/ /\ s.do = "free" /\ s.block \in st.heap
     /\ \A i \in 0..MaxCount - 1 : st.cell[<<s.block, i>>].arm = "dead"

Source(c, from) == IF from.by = "arg" THEN from.val ELSE c[from.of].val
Rest(c, from) == IF from.by = "move" THEN [c EXCEPT ![from.of].val = Moved] ELSE c

Builds(s) == s.do \in {"new", "assign"}

CellResult(c, s) ==
  IF Builds(s) THEN [Rest(c, s.from) EXCEPT ![s.at] = [arm |-> s.arm, val |-> Source(c, s.from)]]
  ELSE IF s.do = "end" THEN [c EXCEPT ![s.at] = Dead]
  ELSE c

Result(st, s) ==
  [cell |-> CellResult(st.cell, s),
   mark |-> IF s.do = "mark" THEN [st.mark EXCEPT ![s.owner] = s.to] ELSE st.mark,
   heap |-> IF s.do = "alloc" THEN st.heap \cup {s.block}
            ELSE IF s.do = "free" THEN st.heap \ {s.block} ELSE st.heap]

\* What may be lost when a step throws.
Loses(s) ==
  (IF s.do = "assign" THEN {s.at} ELSE {}) \cup (IF s.from.by = "move" THEN {s.from.of} ELSE {})

WithLoss(st, some) ==
  [cell |-> [p \in Places |-> IF p \in some THEN [st.cell[p] EXCEPT !.val = Moved] ELSE st.cell[p]],
   mark |-> st.mark, heap |-> st.heap]

-----------------------------------------------------------------------------
(* Sequences of steps                                                      *)

Sequential(s) == s \in Seq(ToSet(s))

MayFail(s) == s.do = "alloc" \/ (Builds(s) /\ s.throws)

Path(t, st, seq, end) ==
  /\ Sequential(seq)
  /\ t \in [0..Len(seq) -> States] /\ t[0] = st /\ t[Len(seq)] = end
  /\ \A i \in 1..Len(seq) : MayDo(t[i - 1], seq[i]) /\ t[i] = Result(t[i - 1], seq[i])

\* The steps of seq, none of which fails, lead to one of some states.
Unwinds(st, seq, failed) ==
  \E t, end :
    Path(t, st, seq, end) /\ end \in failed /\ \A i \in 1..Len(seq) : ~MayFail(seq[i])

\* A step that fails leads to one of some states.
Safe(st, s, failed) ==
  /\ s.do = "alloc" => st \in failed
  /\ Builds(s) /\ s.throws =>
       \A some \in SUBSET Loses(s) : Unwinds(WithLoss(st, some), s.unwind, failed)

\* The steps of seq, none of which is illegal, lead from st to end, or fail to
\* one of some states.
Goes(st, seq, failed, end) ==
  \E t : Path(t, st, seq, end) /\ \A i \in 1..Len(seq) : Safe(t[i - 1], seq[i], failed)

Runs(st, seq, ok, failed) == \E end \in ok : Goes(st, seq, failed, end)

-----------------------------------------------------------------------------
(* Lemmas about steps                                                      *)

\* The arms of what lives at a place.
LEMMA CellKinds ==
  /\ \A c \in Cells : /\ c.arm \in Kinds \cup {"dead"} /\ c.val \in Values \cup {Moved}
                      /\ DOMAIN c = {"arm", "val"}
                      /\ c.arm = "dead" <=> c = Dead
                      /\ [c EXCEPT !.val = Moved] \in Cells /\ [c EXCEPT !.val = Moved].arm = c.arm
  /\ \A a \in Kinds, v \in Values \cup {Moved} : [arm |-> a, val |-> v] \in Cells
BY DEF Cells, Things, Dead, Kinds

\* A legal step leads from state to state, and changes the arm of one place.
LEMMA ResultState ==
  ASSUME NEW st \in States, NEW s, MayDo(st, s)
  PROVE  /\ Result(st, s) \in States
         /\ \A p \in Places :
              Result(st, s).cell[p].arm =
                IF s.do = "new" /\ p = s.at THEN s.arm
                ELSE IF s.do = "end" /\ p = s.at THEN "dead"
                ELSE st.cell[p].arm
<1> DEFINE c == st.cell
           d == CellResult(c, s)
<1>1. /\ c \in [Places -> Cells] /\ st.mark \in [Owners -> MarksOrNone] /\ st.heap \in SUBSET Blocks
  BY DEF States
<1>2. /\ d \in [Places -> Cells]
      /\ \A p \in Places : d[p].arm = IF s.do = "new" /\ p = s.at THEN s.arm
                                      ELSE IF s.do = "end" /\ p = s.at THEN "dead"
                                      ELSE c[p].arm
  <2>1. CASE Builds(s)
    <3> DEFINE new == [arm |-> s.arm, val |-> Source(c, s.from)]
               r == Rest(c, s.from)
    <3>1. /\ s.at \in Places /\ s.arm \in Kinds /\ There(st, s.from, s.arm)
          /\ s.do = "assign" => c[s.at].arm = s.arm
          /\ s.do # "end"
      BY <2>1 DEF MayDo, Builds
    <3>2. new \in Cells /\ new.arm = s.arm
      BY <1>1, <3>1, CellKinds DEF There, Source
    <3>3. r \in [Places -> Cells] /\ \A p \in Places : r[p].arm = c[p].arm
      <4>1. CASE s.from.by = "move"
        <5>1. s.from.of \in Places
          BY <3>1, <4>1 DEF There
        <5>2. r = [c EXCEPT ![s.from.of] = [c[s.from.of] EXCEPT !.val = Moved]]
          BY <1>1, <4>1 DEF Rest
        <5> QED
          BY <1>1, <5>1, <5>2, CellKinds
      <4>2. CASE s.from.by # "move"
        BY <1>1, <4>2 DEF Rest
      <4> QED
        BY <4>1, <4>2
    <3>4. d = [r EXCEPT ![s.at] = new]
      BY <2>1 DEF CellResult
    <3> HIDE DEF new, r, d
    <3>5. d \in [Places -> Cells]
      BY <3>1, <3>2, <3>3, <3>4
    <3>6. \A p \in Places : d[p].arm = IF p = s.at THEN s.arm ELSE c[p].arm
      BY <3>1, <3>2, <3>3, <3>4
    <3> QED
      BY <2>1, <3>1, <3>5, <3>6 DEF Builds
  <2>2. CASE s.do = "end"
    <3>1. s.at \in Places /\ d = [c EXCEPT ![s.at] = Dead]
      BY <2>2 DEF MayDo, CellResult, Builds
    <3>2. Dead \in Cells /\ Dead.arm = "dead"
      BY DEF Cells, Dead
    <3> QED
      BY <1>1, <2>2, <3>1, <3>2
  <2>3. CASE ~Builds(s) /\ s.do # "end"
    BY <1>1, <2>3 DEF CellResult, Builds
  <2> QED
    BY <2>1, <2>2, <2>3
<1>3. (IF s.do = "mark" THEN [st.mark EXCEPT ![s.owner] = s.to] ELSE st.mark) \in [Owners -> MarksOrNone]
  BY <1>1 DEF MayDo
<1>4. (IF s.do = "alloc" THEN st.heap \cup {s.block}
       ELSE IF s.do = "free" THEN st.heap \ {s.block} ELSE st.heap) \in SUBSET Blocks
  BY <1>1 DEF MayDo
<1> HIDE DEF d
<1> QED
  BY <1>2, <1>3, <1>4 DEF Result, States, d

-----------------------------------------------------------------------------
(* Lemmas about sequences of steps                                         *)

\* A sequence of anything is one.
LEMMA SeqIs ==
  ASSUME NEW S, NEW s \in Seq(S)
  PROVE  Sequential(s) /\ Len(s) \in Nat /\ DOMAIN s = 1..Len(s)
<1>1. Len(s) \in Nat /\ DOMAIN s = 1..Len(s) /\ s = [i \in 1..Len(s) |-> s[i]]
  OBVIOUS
<1>2. \A i \in 1..Len(s) : s[i] \in ToSet(s)
  BY <1>1 DEF ToSet
<1>3. s \in Seq(ToSet(s))
  BY <1>1, <1>2
<1> QED
  BY <1>1, <1>3 DEF Sequential

\* The elements of two sequences joined.
LEMMA JoinIs ==
  ASSUME NEW a, NEW b, Sequential(a), Sequential(b)
  PROVE  /\ Sequential(a \o b) /\ Len(a \o b) = Len(a) + Len(b)
         /\ Len(a) \in Nat /\ Len(b) \in Nat
         /\ \A i \in 1..Len(a) : (a \o b)[i] = a[i]
         /\ \A i \in 1..Len(b) : (a \o b)[Len(a) + i] = b[i]
<1> DEFINE S == ToSet(a) \cup ToSet(b)
<1>1. a \in Seq(S) /\ b \in Seq(S)
  BY DEF Sequential
<1>2. a \o b \in Seq(S) /\ Len(a \o b) = Len(a) + Len(b) /\ Len(a) \in Nat /\ Len(b) \in Nat
  BY <1>1
<1>3. Sequential(a \o b)
  BY <1>2, SeqIs
<1>4. \A i \in 1..Len(a) : (a \o b)[i] = a[i]
  BY <1>1, <1>2
<1>5. \A i \in 1..Len(b) : (a \o b)[Len(a) + i] = b[i]
  BY <1>1, <1>2
<1> QED
  BY <1>2, <1>3, <1>4, <1>5

\* No steps lead nowhere else.
LEMMA NoSteps ==
  ASSUME NEW st \in States, NEW failed
  PROVE  Goes(st, <<>>, failed, st) /\ (st \in failed => Unwinds(st, <<>>, failed))
<1> DEFINE t == [i \in 0..0 |-> st]
<1>1. Sequential(<<>>) /\ Len(<<>>) = 0
  BY SeqIs DEF Sequential
<1>2. t \in [0..Len(<<>>) -> States] /\ t[0] = st /\ t[Len(<<>>)] = st
  BY <1>1
<1> HIDE DEF t
<1>3. Path(t, st, <<>>, st)
  BY <1>1, <1>2 DEF Path
<1> QED
  BY <1>1, <1>3 DEF Goes, Unwinds

\* One step leads to its result.
LEMMA OneStep ==
  ASSUME NEW st \in States, NEW s, MayDo(st, s), NEW failed
  PROVE  /\ Safe(st, s, failed) => Goes(st, <<s>>, failed, Result(st, s))
         /\ ~MayFail(s) /\ Result(st, s) \in failed => Unwinds(st, <<s>>, failed)
<1> DEFINE end == Result(st, s)
           t == [i \in 0..1 |-> IF i = 0 THEN st ELSE end]
           seq == <<s>>
<1>1. Sequential(seq) /\ Len(seq) = 1 /\ seq[1] = s
  <2>1. seq \in Seq({s})
    OBVIOUS
  <2> QED
    BY <2>1, SeqIs
<1>2. end \in States
  BY ResultState
<1>3. t \in [0..Len(seq) -> States] /\ t[0] = st /\ t[1] = end
  BY <1>1, <1>2
<1> HIDE DEF t, seq
<1>4. Path(t, st, seq, end)
  BY <1>1, <1>3 DEF Path
<1>5. \A i \in 1..Len(seq) : i = 1
  BY <1>1
<1>6. Safe(st, s, failed) => Goes(st, seq, failed, end)
  BY <1>1, <1>3, <1>4, <1>5 DEF Goes
<1>7. ~MayFail(s) /\ end \in failed => Unwinds(st, seq, failed)
  BY <1>1, <1>4, <1>5 DEF Unwinds
<1> QED
  BY <1>6, <1>7 DEF seq

\* Two paths, one after the other.
LEMMA PathsJoin ==
  ASSUME NEW t, NEW u, NEW st, NEW mid, NEW end, NEW a, NEW b,
         Path(t, st, a, mid), Path(u, mid, b, end)
  PROVE  \E v : /\ Path(v, st, a \o b, end)
                /\ \A i \in 1..Len(a) : v[i - 1] = t[i - 1]
                /\ \A i \in 1..Len(b) : v[Len(a) + i - 1] = u[i - 1]
<1> DEFINE n == Len(a)
           m == Len(b)
           v == [i \in 0..n + m |-> IF i <= n THEN t[i] ELSE u[i - n]]
<1>1. /\ Sequential(a) /\ t \in [0..n -> States] /\ t[0] = st /\ t[n] = mid
      /\ \A i \in 1..n : MayDo(t[i - 1], a[i]) /\ t[i] = Result(t[i - 1], a[i])
      /\ Sequential(b) /\ u \in [0..m -> States] /\ u[0] = mid /\ u[m] = end
      /\ \A i \in 1..m : MayDo(u[i - 1], b[i]) /\ u[i] = Result(u[i - 1], b[i])
  BY DEF Path
<1>2. /\ Sequential(a \o b) /\ Len(a \o b) = n + m /\ n \in Nat /\ m \in Nat
      /\ \A i \in 1..n : (a \o b)[i] = a[i]
      /\ \A i \in 1..m : (a \o b)[n + i] = b[i]
  BY <1>1, JoinIs
<1> HIDE DEF n, m
<1>3. v \in [0..n + m -> States]
  BY <1>1, <1>2
<1>4. /\ \A i \in 0..n : v[i] = t[i]
      /\ \A i \in 0..m : v[n + i] = u[i]
  <2>1. \A i \in 0..n : v[i] = t[i]
    BY <1>2
  <2>2. ASSUME NEW i \in 0..m PROVE v[n + i] = u[i]
    <3>1. CASE i = 0
      BY <1>1, <1>2, <3>1
    <3>2. CASE i > 0
      <4>1. n + i \in 0..n + m /\ ~(n + i <= n) /\ n + i - n = i
        BY <1>2, <3>2
      <4>2. v[n + i] = IF n + i <= n THEN t[n + i] ELSE u[n + i - n]
        BY <1>2, <4>1
      <4> HIDE DEF v
      <4> QED
        BY <4>1, <4>2
    <3> QED
      BY <1>2, <3>1, <3>2
  <2> QED
    BY <2>1, <2>2
<1> HIDE DEF v
<1>5. v[0] = st /\ v[n + m] = end
  BY <1>1, <1>2, <1>4
<1>6. ASSUME NEW i \in 1..n PROVE v[i - 1] = t[i - 1] /\ v[i] = t[i]
  BY <1>2, <1>4
<1>7. ASSUME NEW i \in 1..m PROVE v[n + i - 1] = u[i - 1] /\ v[n + i] = u[i]
  <2>1. i - 1 \in 0..m /\ i \in 0..m /\ n + i - 1 = n + (i - 1)
    BY <1>2
  <2> QED
    BY <1>4, <2>1
<1>8. ASSUME NEW j \in 1..n + m
      PROVE  MayDo(v[j - 1], (a \o b)[j]) /\ v[j] = Result(v[j - 1], (a \o b)[j])
  <2>1. CASE j \in 1..n
    BY <1>1, <1>2, <1>6, <2>1
  <2>2. CASE j \notin 1..n
    <3>1. j - n \in 1..m /\ j = n + (j - n)
      BY <1>2, <2>2
    <3>2. PICK i \in 1..m : j = n + i
      BY <3>1
    <3>3. /\ MayDo(u[i - 1], b[i]) /\ u[i] = Result(u[i - 1], b[i])
          /\ v[n + i - 1] = u[i - 1] /\ v[n + i] = u[i] /\ (a \o b)[n + i] = b[i]
      BY <1>1, <1>2, <1>7
    <3>4. j - 1 = n + i - 1
      BY <1>2, <3>2
    <3> QED
      BY <3>2, <3>3, <3>4
  <2> QED
    BY <2>1, <2>2
<1>9. Path(v, st, a \o b, end)
  BY <1>2, <1>3, <1>5, <1>8 DEF Path
<1> QED
  BY <1>6, <1>7, <1>9 DEF n, m

\* Steps and more steps.
LEMMA GoOn ==
  ASSUME NEW st, NEW mid, NEW end, NEW a, NEW b, NEW failed,
         Goes(st, a, failed, mid), Goes(mid, b, failed, end)
  PROVE  Goes(st, a \o b, failed, end)
<1>1. PICK t : Path(t, st, a, mid) /\ \A i \in 1..Len(a) : Safe(t[i - 1], a[i], failed)
  BY DEF Goes
<1>2. PICK u : Path(u, mid, b, end) /\ \A i \in 1..Len(b) : Safe(u[i - 1], b[i], failed)
  BY DEF Goes
<1>3. PICK v : /\ Path(v, st, a \o b, end)
               /\ \A i \in 1..Len(a) : v[i - 1] = t[i - 1]
               /\ \A i \in 1..Len(b) : v[Len(a) + i - 1] = u[i - 1]
  BY <1>1, <1>2, PathsJoin
<1>4. /\ Len(a \o b) = Len(a) + Len(b) /\ Len(a) \in Nat /\ Len(b) \in Nat
      /\ \A i \in 1..Len(a) : (a \o b)[i] = a[i]
      /\ \A i \in 1..Len(b) : (a \o b)[Len(a) + i] = b[i]
  BY <1>1, <1>2, JoinIs DEF Path
<1>5. ASSUME NEW j \in 1..Len(a \o b) PROVE Safe(v[j - 1], (a \o b)[j], failed)
  <2>1. CASE j \in 1..Len(a)
    BY <1>1, <1>3, <1>4, <2>1
  <2>2. CASE j \notin 1..Len(a)
    <3>1. j - Len(a) \in 1..Len(b) /\ j = Len(a) + (j - Len(a))
      BY <1>4, <2>2
    <3>2. PICK i \in 1..Len(b) : j = Len(a) + i
      BY <3>1
    <3>3. /\ Safe(u[i - 1], b[i], failed)
          /\ v[Len(a) + i - 1] = u[i - 1] /\ (a \o b)[Len(a) + i] = b[i]
      BY <1>2, <1>3, <1>4
    <3> QED
      BY <3>2, <3>3
  <2> QED
    BY <2>1, <2>2
<1> QED
  BY <1>3, <1>5 DEF Goes

\* A step is taken: it was legal, and the others lead where they led.
LEMMA FirstStep ==
  ASSUME NEW st, NEW seq, NEW ok, NEW failed, Runs(st, seq, ok, failed), seq # <<>>
  PROVE  /\ st \in States /\ MayDo(st, Head(seq)) /\ Safe(st, Head(seq), failed)
         /\ Sequential(Tail(seq)) /\ Runs(Result(st, Head(seq)), Tail(seq), ok, failed)
<1>1. PICK end, t : /\ end \in ok /\ Path(t, st, seq, end)
                    /\ \A i \in 1..Len(seq) : Safe(t[i - 1], seq[i], failed)
  BY DEF Runs, Goes
<1>2. /\ seq \in Seq(ToSet(seq)) /\ t \in [0..Len(seq) -> States] /\ t[0] = st /\ t[Len(seq)] = end
      /\ \A i \in 1..Len(seq) : MayDo(t[i - 1], seq[i]) /\ t[i] = Result(t[i - 1], seq[i])
  BY <1>1 DEF Path, Sequential
<1> DEFINE n == Len(seq) - 1
           q == Tail(seq)
           u == [i \in 0..n |-> t[i + 1]]
<1>3. Len(seq) \in Nat /\ Len(seq) > 0
  BY <1>2
<1>4. /\ q \in Seq(ToSet(seq)) /\ Len(q) = n /\ Head(seq) = seq[1]
      /\ \A i \in 1..n : q[i] = seq[i + 1]
  BY <1>2, <1>3
<1>5. Sequential(q)
  BY <1>4, SeqIs
<1>6. t[0] = st /\ t[1] = Result(st, seq[1]) /\ MayDo(st, seq[1]) /\ Safe(st, seq[1], failed)
  <2>1. 1 \in 1..Len(seq) /\ 1 - 1 = 0
    BY <1>3
  <2> QED
    BY <1>1, <1>2, <2>1
<1>7. /\ u \in [0..n -> States] /\ u[0] = t[1] /\ u[n] = end
      /\ \A i \in 1..n : u[i - 1] = t[i] /\ u[i] = t[i + 1]
  BY <1>2, <1>3
<1> HIDE DEF u, q
<1>8. ASSUME NEW i \in 1..n
      PROVE  MayDo(u[i - 1], q[i]) /\ u[i] = Result(u[i - 1], q[i]) /\ Safe(u[i - 1], q[i], failed)
  <2>1. i + 1 \in 1..Len(seq) /\ i + 1 - 1 = i
    BY <1>3
  <2>2. /\ MayDo(t[i + 1 - 1], seq[i + 1]) /\ t[i + 1] = Result(t[i + 1 - 1], seq[i + 1])
        /\ Safe(t[i + 1 - 1], seq[i + 1], failed)
    BY <1>1, <1>2, <2>1
  <2>3. u[i - 1] = t[i] /\ u[i] = t[i + 1] /\ q[i] = seq[i + 1]
    BY <1>4, <1>7
  <2> QED
    BY <2>1, <2>2, <2>3
<1>9. Path(u, t[1], q, end)
  BY <1>4, <1>5, <1>7, <1>8 DEF Path
<1>10. Goes(t[1], q, failed, end)
  BY <1>4, <1>8, <1>9 DEF Goes
<1> QED
  BY <1>1, <1>2, <1>3, <1>4, <1>5, <1>6, <1>10 DEF Runs, q

\* What does not fail runs.
LEMMA UnwindsRun ==
  ASSUME NEW st, NEW seq, NEW failed, Unwinds(st, seq, failed)
  PROVE  Sequential(seq) /\ Runs(st, seq, failed, failed)
<1>1. PICK t, end :
        Path(t, st, seq, end) /\ end \in failed /\ \A i \in 1..Len(seq) : ~MayFail(seq[i])
  BY DEF Unwinds
<1>2. \A i \in 1..Len(seq) : Safe(t[i - 1], seq[i], failed)
  BY <1>1 DEF Safe, MayFail
<1> QED
  BY <1>1, <1>2 DEF Runs, Goes, Path

-----------------------------------------------------------------------------
(* Where the steps of the methods lead                                     *)

\* The places, as pairs.
LEMMA PlacePairs ==
  /\ \A p \in Places : /\ p[1] \in Owners \cup Blocks \cup {Tmp} /\ p[2] \in 0..MaxCount - 1
                       /\ p = <<p[1], p[2]>>
  /\ \A a \in Owners \cup Blocks \cup {Tmp} : \A i \in 0..MaxCount - 1 :
       <<a, i>> \in Places /\ <<a, i>>[1] = a /\ <<a, i>>[2] = i
  /\ MaxCount \in Nat /\ MaxCount > 0 /\ 0 \in 0..MaxCount - 1
BY OwnersHoldSomething DEF Places

\* One thing has been done, and no other.
Marked(st, o, m, end) ==
  /\ end.mark[o] = m /\ \A x \in Owners : x # o => end.mark[x] = st.mark[x]
  /\ end.cell = st.cell /\ end.heap = st.heap

Destroyed(st, p, end) ==
  /\ \A q \in Places : /\ end.cell[q] = IF q = p THEN Dead ELSE st.cell[q]
                       /\ end.cell[q].arm = IF q = p THEN "dead" ELSE st.cell[q].arm
  /\ end.mark = st.mark /\ end.heap = st.heap

Allocated(st, b, end) ==
  end.heap = st.heap \cup {b} /\ end.cell = st.cell /\ end.mark = st.mark

Freed(st, b, end) ==
  end.heap = st.heap \ {b} /\ end.cell = st.cell /\ end.mark = st.mark

\* A discriminator is written.
LEMMA DoMark ==
  ASSUME NEW st \in States, NEW o \in Owners, NEW m \in MarksOrNone, NEW failed
  PROVE  /\ \E end \in States : Goes(st, <<Mark(o, m)>>, failed, end) /\ Marked(st, o, m, end)
         /\ (\A end \in States : Marked(st, o, m, end) => end \in failed)
              => Unwinds(st, <<Mark(o, m)>>, failed)
<1> DEFINE s == Mark(o, m)
<1>1. MayDo(st, s) /\ Safe(st, s, failed) /\ ~MayFail(s)
  BY DEF Mark, MayDo, Safe, Builds, MayFail
<1>2. Marked(st, o, m, Result(st, s))
  BY DEF Mark, Result, CellResult, Builds, Marked, States
<1> HIDE DEF s
<1>3. /\ Result(st, s) \in States /\ Goes(st, <<s>>, failed, Result(st, s))
      /\ Result(st, s) \in failed => Unwinds(st, <<s>>, failed)
  BY <1>1, OneStep, ResultState
<1> QED
  BY <1>2, <1>3 DEF s

\* An object is destroyed.
LEMMA DoEnd ==
  ASSUME NEW st \in States, NEW p \in Places, NEW arm \in Kinds, st.cell[p].arm = arm, NEW failed
  PROVE  \E end \in States : Goes(st, <<End(p, arm)>>, failed, end) /\ Destroyed(st, p, end)
<1> DEFINE s == End(p, arm)
<1>1. MayDo(st, s) /\ Safe(st, s, failed)
  BY DEF End, MayDo, Safe, Builds
<1>2. Destroyed(st, p, Result(st, s))
  BY DEF End, Result, CellResult, Builds, Destroyed, States, Dead
<1> HIDE DEF s
<1>3. Result(st, s) \in States /\ Goes(st, <<s>>, failed, Result(st, s))
  BY <1>1, OneStep, ResultState
<1> QED
  BY <1>2, <1>3 DEF s

\* A block is allocated, and nothing has happened if there is none.
LEMMA DoAlloc ==
  ASSUME NEW st \in States, NEW b \in Blocks \ st.heap, NEW failed, st \in failed
  PROVE  \E end \in States : Goes(st, <<Alloc(b)>>, failed, end) /\ Allocated(st, b, end)
<1> DEFINE s == Alloc(b)
<1>1. MayDo(st, s) /\ Safe(st, s, failed)
  BY DEF Alloc, MayDo, Safe, Builds
<1>2. Allocated(st, b, Result(st, s))
  BY DEF Alloc, Result, CellResult, Builds, Allocated
<1> HIDE DEF s
<1>3. Result(st, s) \in States /\ Goes(st, <<s>>, failed, Result(st, s))
  BY <1>1, OneStep, ResultState
<1> QED
  BY <1>2, <1>3 DEF s

\* A block in which nothing lives is freed.
LEMMA DoFree ==
  ASSUME NEW st \in States, NEW b \in st.heap, NEW failed,
         \A i \in 0..MaxCount - 1 : st.cell[<<b, i>>].arm = "dead"
  PROVE  /\ \E end \in States : Goes(st, <<Free(b)>>, failed, end) /\ Freed(st, b, end)
         /\ (\A end \in States : Freed(st, b, end) => end \in failed)
              => Unwinds(st, <<Free(b)>>, failed)
<1> DEFINE s == Free(b)
<1>1. MayDo(st, s) /\ Safe(st, s, failed) /\ ~MayFail(s)
  BY DEF Free, MayDo, Safe, Builds, MayFail
<1>2. Freed(st, b, Result(st, s))
  BY DEF Free, Result, CellResult, Builds, Freed
<1> HIDE DEF s
<1>3. /\ Result(st, s) \in States /\ Goes(st, <<s>>, failed, Result(st, s))
      /\ Result(st, s) \in failed => Unwinds(st, <<s>>, failed)
  BY <1>1, OneStep, ResultState
<1> QED
  BY <1>2, <1>3 DEF s

\* The same objects live, whatever their values.
SameArms(st, end) == \A p \in Places : end.cell[p].arm = st.cell[p].arm

\* What throws and has nothing to undo only loses values.
LEMMA LossKeepsArms ==
  ASSUME NEW st \in States, NEW some
  PROVE  /\ WithLoss(st, some) \in States /\ SameArms(st, WithLoss(st, some))
         /\ WithLoss(st, some).mark = st.mark /\ WithLoss(st, some).heap = st.heap
<1> DEFINE c == [p \in Places |-> IF p \in some THEN [st.cell[p] EXCEPT !.val = Moved] ELSE st.cell[p]]
<1>1. st.cell \in [Places -> Cells] /\ st.mark \in [Owners -> MarksOrNone] /\ st.heap \in SUBSET Blocks
  BY DEF States
<1>2. c \in [Places -> Cells] /\ \A p \in Places : c[p].arm = st.cell[p].arm
  BY <1>1, CellKinds
<1> HIDE DEF c
<1>3. WithLoss(st, some) = [cell |-> c, mark |-> st.mark, heap |-> st.heap]
  BY DEF WithLoss, c
<1> QED
  BY <1>1, <1>2, <1>3 DEF States, SameArms

\* The values a construction or an assignment leaves.
Constructed(st, p, arm, from) ==
  [Rest(st.cell, from) EXCEPT ![p] = [arm |-> arm, val |-> Source(st.cell, from)]]

\* An object has been built, and nothing else has happened.
Built(st, p, arm, from, end) ==
  /\ end.cell = Constructed(st, p, arm, from)
  /\ \A q \in Places : end.cell[q].arm = IF q = p THEN arm ELSE st.cell[q].arm
  /\ end.mark = st.mark /\ end.heap = st.heap

\* An object is constructed by a step that is safe.
LEMMA DoBuild ==
  ASSUME NEW st \in States, NEW p \in Places, NEW arm \in Kinds, NEW from, NEW failed,
         There(st, from, arm), st.cell[p].arm = "dead", p[1] \in Blocks => p[1] \in st.heap,
         NEW s, s.do = "new", s.at = p, s.arm = arm, s.from = from, Safe(st, s, failed)
  PROVE  \E end \in States :
           Goes(st, <<s>>, failed, end) /\ Built(st, p, arm, from, end)
<1>1. MayDo(st, s)
  BY DEF MayDo
<1>2. Result(st, s) \in States /\ Goes(st, <<s>>, failed, Result(st, s))
  BY <1>1, OneStep, ResultState
<1>3. \A q \in Places : Result(st, s).cell[q].arm = IF q = p THEN arm ELSE st.cell[q].arm
  BY <1>1, ResultState
<1>4. /\ Result(st, s).cell = Constructed(st, p, arm, from)
      /\ Result(st, s).mark = st.mark /\ Result(st, s).heap = st.heap
  BY DEF Result, CellResult, Builds, Constructed
<1> QED
  BY <1>2, <1>3, <1>4 DEF Built

\* An object is constructed, by a constructor that does not throw.
LEMMA DoNew ==
  ASSUME NEW st \in States, NEW p \in Places, NEW arm \in Kinds, NEW from, NEW failed,
         There(st, from, arm), st.cell[p].arm = "dead", p[1] \in Blocks => p[1] \in st.heap
  PROVE  \E end \in States :
           Goes(st, <<New(p, arm, from)>>, failed, end) /\ Built(st, p, arm, from, end)
<1> DEFINE s == New(p, arm, from)
<1>1. s.do = "new" /\ s.at = p /\ s.arm = arm /\ s.from = from /\ Safe(st, s, failed)
  BY DEF New, Safe, Builds
<1> HIDE DEF s
<1>2. \E end \in States :
        Goes(st, <<s>>, failed, end) /\ Built(st, p, arm, from, end)
  BY <1>1, DoBuild
<1> QED
  BY <1>2 DEF s

\* An object is constructed, or what was done before is undone.
LEMMA DoNewOr ==
  ASSUME NEW st \in States, NEW p \in Places, NEW arm \in Kinds, NEW from, NEW unwind, NEW failed,
         There(st, from, arm), st.cell[p].arm = "dead", p[1] \in Blocks => p[1] \in st.heap,
         \A some \in SUBSET Loses(NewOr(unwind, p, arm, from)) :
           Unwinds(WithLoss(st, some), unwind, failed)
  PROVE  \E end \in States :
           Goes(st, <<NewOr(unwind, p, arm, from)>>, failed, end) /\ Built(st, p, arm, from, end)
<1> DEFINE s == NewOr(unwind, p, arm, from)
<1>1. s.do = "new" /\ s.at = p /\ s.arm = arm /\ s.from = from /\ s.unwind = unwind
  BY DEF NewOr
<1> HIDE DEF s
<1>2. Safe(st, s, failed)
  BY <1>1 DEF Safe, s
<1>3. \E end \in States :
        Goes(st, <<s>>, failed, end) /\ Built(st, p, arm, from, end)
  BY <1>1, <1>2, DoBuild
<1> QED
  BY <1>3 DEF s

\* An object has been assigned.
Assigned(st, p, arm, from, end) ==
  /\ end.cell = Constructed(st, p, arm, from) /\ SameArms(st, end)
  /\ end.mark = st.mark /\ end.heap = st.heap

\* An object is assigned, or loses its value, as may the one moved from.
LEMMA DoAssign ==
  ASSUME NEW st \in States, NEW p \in Places, NEW arm \in Kinds, NEW from, NEW failed,
         There(st, from, arm), st.cell[p].arm = arm, from.by # "arg",
         \A some \in SUBSET Loses(Assign(p, arm, from)) : WithLoss(st, some) \in failed
  PROVE  \E end \in States :
           Goes(st, <<Assign(p, arm, from)>>, failed, end) /\ Assigned(st, p, arm, from, end)
<1> DEFINE s == Assign(p, arm, from)
<1>1. MayDo(st, s)
  BY DEF Assign, MayDo
<1>2. Safe(st, s, failed)
  <2>1. \A some \in SUBSET Loses(s) : Unwinds(WithLoss(st, some), <<>>, failed)
    BY NoSteps, LossKeepsArms
  <2> QED
    BY <2>1 DEF Safe, Assign
<1>3. /\ Result(st, s).cell = Constructed(st, p, arm, from)
      /\ Result(st, s).mark = st.mark /\ Result(st, s).heap = st.heap
  BY DEF Assign, Result, CellResult, Builds, Constructed
<1>4. s.do = "assign"
  BY DEF Assign
<1> HIDE DEF s
<1>5. Result(st, s) \in States /\ Goes(st, <<s>>, failed, Result(st, s))
  BY <1>1, <1>2, OneStep, ResultState
<1>6. SameArms(st, Result(st, s))
  BY <1>1, <1>4, ResultState DEF SameArms
<1> QED
  BY <1>3, <1>5, <1>6 DEF s, Assigned

\* Tuples, one element at a time.
LEMMA TuplesJoin ==
  ASSUME NEW a, NEW b, NEW c
  PROVE  <<a>> \o <<b>> = <<a, b>> /\ <<a, b>> \o <<c>> = <<a, b, c>>
<1> DEFINE S == {a, b, c}
<1>1. <<a>> \in Seq(S) /\ <<b>> \in Seq(S) /\ <<c>> \in Seq(S) /\ <<a, b>> \in Seq(S)
      /\ <<a, b, c>> \in Seq(S)
  OBVIOUS
<1>2. \A s \in Seq(S), u \in Seq(S) :
        Len(s) = Len(u) /\ (\A i \in 1..Len(s) : s[i] = u[i]) => s = u
  BY SeqEqual
<1>3. <<a>> \o <<b>> = <<a, b>>
  <2> DEFINE s == <<a>> \o <<b>>
  <2>1. s \in Seq(S) /\ Len(s) = 2 /\ s[1] = a /\ s[2] = b
    BY <1>1
  <2>2. Len(<<a, b>>) = 2 /\ <<a, b>>[1] = a /\ <<a, b>>[2] = b
    OBVIOUS
  <2> HIDE DEF s, S
  <2>3. \A i \in 1..Len(s) : s[i] = <<a, b>>[i]
    BY <2>1, <2>2
  <2> QED
    BY <1>1, <1>2, <2>1, <2>2, <2>3 DEF s
<1>4. <<a, b>> \o <<c>> = <<a, b, c>>
  <2> DEFINE s == <<a, b>> \o <<c>>
  <2>1. s \in Seq(S) /\ Len(s) = 3 /\ s[1] = a /\ s[2] = b /\ s[3] = c
    BY <1>1
  <2>2. Len(<<a, b, c>>) = 3 /\ <<a, b, c>>[1] = a /\ <<a, b, c>>[2] = b /\ <<a, b, c>>[3] = c
    OBVIOUS
  <2> HIDE DEF s, S
  <2>3. \A i \in 1..Len(s) : s[i] = <<a, b, c>>[i]
    BY <2>1, <2>2
  <2> QED
    BY <1>1, <1>2, <2>1, <2>2, <2>3 DEF s
<1> QED
  BY <1>3, <1>4

\* One step and another.
LEMMA TwoSteps ==
  ASSUME NEW st, NEW mid, NEW end, NEW a, NEW b, NEW failed,
         Goes(st, <<a>>, failed, mid), Goes(mid, <<b>>, failed, end)
  PROVE  Goes(st, <<a, b>>, failed, end)
<1>1. <<a>> \o <<b>> = <<a, b>>
  BY TuplesJoin
<1> QED
  BY <1>1, GoOn

\* Likewise, three.
LEMMA ThreeSteps ==
  ASSUME NEW st, NEW mid, NEW late, NEW end, NEW a, NEW b, NEW c, NEW failed,
         Goes(st, <<a>>, failed, mid), Goes(mid, <<b>>, failed, late), Goes(late, <<c>>, failed, end)
  PROVE  Goes(st, <<a, b, c>>, failed, end)
<1>1. <<a, b>> \o <<c>> = <<a, b, c>>
  BY TuplesJoin
<1> QED
  BY <1>1, TwoSteps, GoOn

\* What is undone in two parts.
LEMMA UnwindOn ==
  ASSUME NEW st, NEW mid, NEW a, NEW b, NEW failed,
         Unwinds(st, a, {mid}), Unwinds(mid, b, failed)
  PROVE  Unwinds(st, a \o b, failed)
<1>1. PICK t : Path(t, st, a, mid) /\ \A i \in 1..Len(a) : ~MayFail(a[i])
  BY DEF Unwinds
<1>2. PICK u, end : Path(u, mid, b, end) /\ end \in failed /\ \A i \in 1..Len(b) : ~MayFail(b[i])
  BY DEF Unwinds
<1>3. PICK v : Path(v, st, a \o b, end)
  BY <1>1, <1>2, PathsJoin
<1>4. /\ Len(a \o b) = Len(a) + Len(b) /\ Len(a) \in Nat /\ Len(b) \in Nat
      /\ \A i \in 1..Len(a) : (a \o b)[i] = a[i]
      /\ \A i \in 1..Len(b) : (a \o b)[Len(a) + i] = b[i]
  BY <1>1, <1>2, JoinIs DEF Path
<1>5. ASSUME NEW j \in 1..Len(a \o b) PROVE ~MayFail((a \o b)[j])
  <2>1. CASE j \in 1..Len(a)
    BY <1>1, <1>4, <2>1
  <2>2. CASE j \notin 1..Len(a)
    <3>1. j - Len(a) \in 1..Len(b) /\ j = Len(a) + (j - Len(a))
      BY <1>4, <2>2
    <3>2. PICK i \in 1..Len(b) : j = Len(a) + i
      BY <3>1
    <3> QED
      BY <1>2, <1>4, <3>2
  <2> QED
    BY <2>1, <2>2
<1> QED
  BY <1>2, <1>3, <1>5 DEF Unwinds

\* Objects in a row are destroyed one by one, in either order.
EndsOf(at, n, arm) == [i \in 1..n |-> End(at[i], arm)]

Emptied(st, at, n) ==
  [cell |-> [p \in Places |-> IF \E i \in 1..n : p = at[i] THEN Dead ELSE st.cell[p]],
   mark |-> st.mark, heap |-> st.heap]

\* Where that leads.
LEMMA DoRow ==
  ASSUME NEW st \in States, NEW n \in Nat, NEW arm \in Kinds, NEW at, NEW failed,
         \A i \in 1..n : at[i] \in Places /\ st.cell[at[i]].arm = arm,
         \A i, j \in 1..n : i # j => at[i] # at[j]
  PROVE  /\ Emptied(st, at, n) \in States
         /\ Goes(st, EndsOf(at, n, arm), failed, Emptied(st, at, n))
         /\ Unwinds(st, EndsOf(at, n, arm), {Emptied(st, at, n)})
<1> DEFINE row == EndsOf(at, n, arm)
           end == Emptied(st, at, n)
           c(k) == [p \in Places |-> IF \E i \in 1..n : i <= k /\ p = at[i] THEN Dead ELSE st.cell[p]]
           s(k) == [cell |-> c(k), mark |-> st.mark, heap |-> st.heap]
           t == [k \in 0..n |-> s(k)]
<1>1. st.cell \in [Places -> Cells] /\ st.mark \in [Owners -> MarksOrNone] /\ st.heap \in SUBSET Blocks
  BY DEF States
<1>2. Dead \in Cells
  BY DEF Cells
<1>3. ASSUME NEW k \in 0..n PROVE s(k) \in States
  BY <1>1, <1>2 DEF States
<1>4. Sequential(row) /\ Len(row) = n
  <2>1. row \in Seq({End(at[i], arm) : i \in 1..n}) /\ Len(row) = n
    BY DEF EndsOf
  <2> QED
    BY <2>1, SeqIs
<1>5. s(0) = st
  <2>1. c(0) = st.cell
    BY <1>1
  <2> HIDE DEF c
  <2>2. st = [cell |-> st.cell, mark |-> st.mark, heap |-> st.heap]
    BY DEF States
  <2> QED
    BY <2>1, <2>2
<1>6. s(n) = end
  BY DEF Emptied
<1>7. ASSUME NEW i \in 1..n
      PROVE  /\ MayDo(s(i - 1), row[i]) /\ s(i) = Result(s(i - 1), row[i])
             /\ ~MayFail(row[i]) /\ Safe(s(i - 1), row[i], failed)
  <2>1. row[i] = End(at[i], arm)
    BY DEF EndsOf
  <2>2. c(i - 1)[at[i]] = st.cell[at[i]]
    <3>1. \A j \in 1..n : j <= i - 1 => at[i] # at[j]
      OBVIOUS
    <3> QED
      BY <3>1
  <2>3. c(i) = [c(i - 1) EXCEPT ![at[i]] = Dead]
    <3>1. ASSUME NEW p \in Places
          PROVE  c(i)[p] = IF p = at[i] THEN Dead ELSE c(i - 1)[p]
      <4>1. \A j \in 1..n : j <= i <=> j = i \/ j <= i - 1
        OBVIOUS
      <4>2. (\E j \in 1..n : j <= i /\ p = at[j]) => p = at[i] \/ \E j \in 1..n : j <= i - 1 /\ p = at[j]
        BY <4>1
      <4>3. p = at[i] \/ (\E j \in 1..n : j <= i - 1 /\ p = at[j]) => \E j \in 1..n : j <= i /\ p = at[j]
        BY <4>1
      <4> QED
        BY <4>2, <4>3
    <3> QED
      BY <3>1
  <2> HIDE DEF c
  <2>4. MayDo(s(i - 1), row[i])
    BY <2>1, <2>2 DEF MayDo, End
  <2>5. s(i) = Result(s(i - 1), row[i])
    BY <2>1, <2>3 DEF Result, CellResult, Builds, End
  <2> QED
    BY <2>1, <2>4, <2>5 DEF MayFail, Safe, Builds, End
<1> HIDE DEF s, row, end
<1>8. /\ t \in [0..n -> States] /\ t[0] = st /\ t[n] = end
      /\ \A i \in 1..n : t[i - 1] = s(i - 1) /\ t[i] = s(i)
  BY <1>3, <1>5, <1>6
<1> HIDE DEF t
<1>9. Path(t, st, row, end)
  BY <1>4, <1>7, <1>8 DEF Path
<1>10. Goes(st, row, failed, end)
  BY <1>4, <1>7, <1>8, <1>9 DEF Goes
<1>11. Unwinds(st, row, {end})
  BY <1>4, <1>7, <1>9 DEF Unwinds
<1>12. end \in States
  BY <1>3, <1>6
<1> QED
  BY <1>10, <1>11, <1>12 DEF row, end

-----------------------------------------------------------------------------
(* The state between calls                                                 *)

OnHeap == class \in {"unique_ptr", "boxed_slice"}

\* An owner that keeps its objects in itself.
OwnMarks(o) ==
  {Absent} \cup
  CASE class = "expected" -> {Holds(o, arm, 1) : arm \in Kinds}
    [] class = "optional" -> {Holds(o, "value", n) : n \in 0..1}
    [] OTHER -> {Holds(o, "value", n) : n \in 0..MaxCount}

\* What lives in the places of an owner that is marked so.
ArmAt(m, i) == IF i < m.n THEN m.arm ELSE "dead"

SettledInPlace(st) ==
  /\ st.heap = {}
  /\ \A o \in Owners : st.mark[o] \in OwnMarks(o)
  /\ \A p \in Places :
       st.cell[p].arm = IF p[1] \in Owners THEN ArmAt(st.mark[p[1]], p[2]) ELSE "dead"

\* The owners of blocks: besides the owners, the caller, who has what was
\* released, and the call itself, which has what it is about to delete.
Caller == Tmp
Doomed == Nowhere
Keepers == Owners \cup {Caller, Doomed}

Keeping(st, l, d) ==
  [k \in Keepers |-> IF k = Caller THEN l ELSE IF k = Doomed THEN d ELSE st.mark[k]]

Counted == IF class = "unique_ptr" THEN {1} ELSE 1..MaxCount
BlockMarks == {Absent, Null} \cup {Holds(b, "value", n) : b \in Blocks, n \in Counted}

\* A block has one keeper, whose mark says what lives in it.
SettledOnHeap(st, keep) ==
  /\ keep \in [Keepers -> BlockMarks]
  /\ \A k, j \in Keepers : k # j /\ keep[k].at # Nowhere => keep[k].at # keep[j].at
  /\ \A b \in Blocks : b \in st.heap <=> \E k \in Keepers : keep[k].at = b
  /\ \A k \in Keepers : keep[k].at # Nowhere =>
       \A i \in 0..MaxCount - 1 : st.cell[<<keep[k].at, i>>].arm = ArmAt(keep[k], i)
  /\ \A p \in Places : p[1] \notin st.heap => st.cell[p].arm = "dead"

Settled(st, l) ==
  IF OnHeap THEN l # Absent /\ SettledOnHeap(st, Keeping(st, l, Null))
  ELSE l = Null /\ SettledInPlace(st)

AllSettled(l) == {st \in States : Settled(st, l)}

-----------------------------------------------------------------------------
(* Lemmas about the owners that keep their objects in themselves           *)

\* Owners, blocks, local variables and nullptr are different places.
LEMMA Apart ==
  /\ \A o \in Owners : o \notin Blocks /\ o # Tmp /\ o # Nowhere
  /\ \A b \in Blocks : b \notin Owners /\ b # Tmp /\ b # Nowhere
BY PlacesAreDistinct

\* The discriminators of such an owner.
LEMMA OwnMarksFit ==
  ASSUME NEW o \in Owners, NEW m \in OwnMarks(o)
  PROVE  /\ m \in MarksOrNone
         /\ m.n \in 0..MaxCount
         /\ m # Absent => m \in Marks /\ m.at = o /\ m.arm \in Kinds /\ m = Holds(o, m.arm, m.n)
         /\ m = Absent => m.n = 0
<1>1. CASE m = Absent
  BY <1>1, PlacePairs DEF Absent, MarksOrNone
<1>2. CASE m # Absent
  <2>1. \E arm \in Kinds, n \in 0..MaxCount : m = Holds(o, arm, n)
    <3>1. 0..1 \subseteq 0..MaxCount /\ 1 \in 0..MaxCount
      BY PlacePairs
    <3> QED
      BY <1>2, <3>1 DEF OwnMarks, Kinds
  <2>2. PICK arm \in Kinds, n \in 0..MaxCount : m = Holds(o, arm, n)
    BY <2>1
  <2> QED
    BY <1>2, <2>2 DEF Holds, Marks, MarksOrNone, Kinds
<1> QED
  BY <1>1, <1>2

\* A state whose objects are those of a settled one is settled.
LEMMA SettledKeeps ==
  ASSUME NEW st, SettledInPlace(st), NEW e, SameArms(st, e), e.heap = st.heap,
         \A o \in Owners : e.mark[o] = st.mark[o]
  PROVE  SettledInPlace(e)
BY DEF SettledInPlace, SameArms

\* Nothing outside an owner and the local variables has changed.
Within(st, o, e) ==
  /\ e.heap = st.heap
  /\ \A x \in Owners : x # o => e.mark[x] = st.mark[x]
  /\ \A p \in Places : p[1] \notin {o, Tmp} => e.cell[p].arm = st.cell[p].arm

\* What lives in an owner is what its discriminator says.
Tells(e, o) ==
  /\ e.mark[o] \in OwnMarks(o)
  /\ \A i \in 0..MaxCount - 1 :
       e.cell[<<o, i>>].arm = ArmAt(e.mark[o], i) /\ e.cell[<<Tmp, i>>].arm = "dead"

\* A call is over when what it changed tells the truth again.
LEMMA SettledAgain ==
  ASSUME NEW st, SettledInPlace(st), NEW o \in Owners, NEW e, Within(st, o, e), Tells(e, o)
  PROVE  SettledInPlace(e)
<1>1. \A x \in Owners : e.mark[x] \in OwnMarks(x)
  BY DEF SettledInPlace, Within, Tells
<1>2. ASSUME NEW p \in Places
      PROVE  e.cell[p].arm = IF p[1] \in Owners THEN ArmAt(e.mark[p[1]], p[2]) ELSE "dead"
  <2>1. p = <<p[1], p[2]>> /\ p[2] \in 0..MaxCount - 1
    BY PlacePairs
  <2>2. CASE p[1] = o
    BY <2>1, <2>2 DEF Tells
  <2>3. CASE p[1] = Tmp
    BY <2>1, <2>3, Apart DEF Tells
  <2>4. CASE p[1] \notin {o, Tmp}
    BY <2>4 DEF SettledInPlace, Within
  <2> QED
    BY <2>2, <2>3, <2>4
<1> QED
  BY <1>1, <1>2 DEF SettledInPlace, Within

\* In a settled state every owner tells the truth.
LEMMA AllTell ==
  ASSUME NEW st, SettledInPlace(st), NEW o \in Owners
  PROVE  Tells(st, o)
<1>1. \A i \in 0..MaxCount - 1 :
        /\ <<o, i>> \in Places /\ <<o, i>>[1] = o /\ <<o, i>>[2] = i
        /\ <<Tmp, i>> \in Places /\ <<Tmp, i>>[1] = Tmp
  BY PlacePairs
<1> QED
  BY <1>1, Apart DEF SettledInPlace, Tells

\* States that agree in everything are one.
LEMMA StatesAgree ==
  ASSUME NEW a \in States, NEW b \in States, a.cell = b.cell, a.heap = b.heap,
         \A o \in Owners : a.mark[o] = b.mark[o]
  PROVE  a = b
<1>1. a.mark = b.mark
  BY DEF States
<1> QED
  BY <1>1 DEF States

\* What was to be moved from has lost its value, and all else is as it was.
LEMMA RestIs ==
  ASSUME NEW st \in States, NEW arm, NEW from, There(st, from, arm)
  PROVE  /\ DOMAIN Rest(st.cell, from) = Places
         /\ \A q \in Places :
              Rest(st.cell, from)[q] =
                IF from.by = "move" /\ q = from.of THEN [st.cell[q] EXCEPT !.val = Moved]
                ELSE st.cell[q]
<1>1. st.cell \in [Places -> Cells]
  BY DEF States
<1> QED
  BY <1>1 DEF Rest

\* All places but one are the same.
SameBut(c, d, p, new) == \A q \in Places : c[q] = IF q = p THEN new ELSE d[q]

\* So they are after a construction or an assignment.
LEMMA ConstructedIs ==
  ASSUME NEW st \in States, NEW p \in Places, NEW arm, NEW from, There(st, from, arm)
  PROVE  SameBut(Constructed(st, p, arm, from), Rest(st.cell, from), p,
                 [arm |-> arm, val |-> Source(st.cell, from)])
<1> DEFINE c == Rest(st.cell, from)
           new == [arm |-> arm, val |-> Source(st.cell, from)]
<1>1. DOMAIN c = Places
  BY RestIs
<1>2. Constructed(st, p, arm, from) = [c EXCEPT ![p] = new]
  BY DEF Constructed
<1> HIDE DEF c, new
<1>3. \A q \in Places : [c EXCEPT ![p] = new][q] = IF q = p THEN new ELSE c[q]
  BY <1>1
<1> QED
  BY <1>2, <1>3 DEF SameBut, c, new

\* The last object that an owner has is new, and so is its discriminator, and
\* nothing else has changed but what was moved from.
Given(st, o, m, arm, from, end) ==
  /\ end.mark[o] = m /\ \A x \in Owners : x # o => end.mark[x] = st.mark[x]
  /\ end.cell[<<o, m.n - 1>>] = [arm |-> arm, val |-> Source(st.cell, from)]
  /\ \A q \in Places :
       q[1] \in Owners /\ (q[1] = o => q[2] < m.n - 1) => end.cell[q] = Rest(st.cell, from)[q]

\* What is lost when that throws.
Lost(from) == IF from.by = "move" THEN {from.of} ELSE {}

\* So say the steps.
LEMMA LosesIs ==
  ASSUME NEW u, NEW p, NEW arm, NEW from
  PROVE  Loses(NewOr(u, p, arm, from)) = Lost(from) /\ Loses(Assign(p, arm, from)) = {p} \cup Lost(from)
BY DEF Loses, NewOr, Assign, Lost

-----------------------------------------------------------------------------
(* The steps that methods share                                            *)

\* All that a discriminator names is destroyed.
AllDestroyed(st, m, end) ==
  /\ \A p \in Places :
       /\ end.cell[p] = IF p[1] = m.at /\ p[2] < m.n THEN Dead ELSE st.cell[p]
       /\ end.cell[p].arm = IF p[1] = m.at /\ p[2] < m.n THEN "dead" ELSE st.cell[p].arm
  /\ end.mark = st.mark /\ end.heap = st.heap

\* So it is by its destructors, first to last.
LEMMA DoEnds ==
  ASSUME NEW st \in States, NEW m, NEW failed,
         m.n \in 0..MaxCount, m.arm \in Kinds, m.n > 0 => m.at \in Owners \cup Blocks,
         \A i \in 0..MaxCount - 1 : i < m.n => st.cell[<<m.at, i>>].arm = m.arm
  PROVE  \E end \in States : Goes(st, Ends(m), failed, end) /\ AllDestroyed(st, m, end)
<1> DEFINE n == m.n
           at == [i \in 1..n |-> <<m.at, i - 1>>]
           row == EndsOf(at, n, m.arm)
           end == Emptied(st, at, n)
<1>1. n \in Nat /\ n <= MaxCount /\ MaxCount \in Nat
  BY PlacePairs
<1>2. \A i \in 1..n : /\ i - 1 \in 0..MaxCount - 1 /\ i - 1 < n
                      /\ at[i] = <<m.at, i - 1>> /\ at[i] \in Places
                      /\ at[i][1] = m.at /\ at[i][2] = i - 1
  BY <1>1, PlacePairs
<1>3. \A i \in 1..n : st.cell[at[i]].arm = m.arm
  BY <1>2
<1>4. row = Ends(m)
  BY DEF Ends, EndsOf
<1> HIDE DEF at
<1>5. \A i, j \in 1..n : i # j => at[i] # at[j]
  BY <1>1, <1>2
<1>6. end \in States /\ Goes(st, row, failed, end)
  <2>1. \A i \in 1..n : at[i] \in Places /\ st.cell[at[i]].arm = m.arm
    BY <1>2, <1>3
  <2>2. n \in Nat
    BY <1>1
  <2> HIDE DEF n
  <2> QED
    BY <1>5, <2>1, <2>2, DoRow
<1>7. ASSUME NEW p \in Places
      PROVE  /\ end.cell[p] = IF p[1] = m.at /\ p[2] < n THEN Dead ELSE st.cell[p]
             /\ end.cell[p].arm = IF p[1] = m.at /\ p[2] < n THEN "dead" ELSE st.cell[p].arm
  <2>1. p = <<p[1], p[2]>> /\ p[2] \in Nat
    BY <1>1, PlacePairs
  <2>2. (\E i \in 1..n : p = at[i]) <=> p[1] = m.at /\ p[2] < n
    <3>1. ASSUME p[1] = m.at, p[2] < n PROVE \E i \in 1..n : p = at[i]
      <4>1. p[2] + 1 \in 1..n /\ p[2] = p[2] + 1 - 1
        BY <1>1, <2>1, <3>1
      <4>2. PICK i \in 1..n : p[2] = i - 1
        BY <2>1, <4>1
      <4>3. at[i] = p
        BY <1>2, <2>1, <3>1, <4>2
      <4> QED
        BY <4>3
    <3> QED
      BY <1>2, <3>1
  <2>3. Dead.arm = "dead"
    BY DEF Dead
  <2> QED
    BY <2>2, <2>3 DEF Emptied
<1>8. end.mark = st.mark /\ end.heap = st.heap
  BY DEF Emptied
<1>9. AllDestroyed(st, m, end)
  BY <1>7, <1>8 DEF AllDestroyed
<1> HIDE DEF row, end
<1> QED
  BY <1>4, <1>6, <1>9

\* Where an owner of this kind may be left.
LEMMA InPlaceStates ==
  ASSUME ~OnHeap
  PROVE  \A st : st \in AllSettled(Null) <=> st \in States /\ SettledInPlace(st)
BY DEF AllSettled, Settled

\* An object is constructed in its owner, or may be assigned, and where that
\* throws only values are lost.
LEMMA LossIsSettled ==
  ASSUME ~OnHeap, NEW st \in AllSettled(Null), NEW some
  PROVE  WithLoss(st, some) \in AllSettled(Null)
BY InPlaceStates, LossKeepsArms, SettledKeeps

\* What a call changed tells the truth again.
LEMMA Back ==
  ASSUME ~OnHeap, NEW st \in AllSettled(Null), NEW o \in Owners, NEW e \in States,
         Within(st, o, e), Tells(e, o)
  PROVE  e \in AllSettled(Null)
BY InPlaceStates, SettledAgain

\* An owner has been given one object.
LEMMA BornIsSettled ==
  ASSUME ~OnHeap, NEW st \in AllSettled(Null), NEW o \in Owners, NEW arm \in Kinds, NEW from,
         Holds(o, arm, 1) \in OwnMarks(o), st.mark[o] = Absent,
         NEW e1 \in States, Marked(st, o, Holds(o, arm, 1), e1),
         NEW e2 \in States, Built(e1, Only(o), arm, from, e2)
  PROVE  e2 \in AllSettled(Null)
<1>1. SettledInPlace(st) /\ Tells(st, o)
  BY InPlaceStates, AllTell
<1>2. Only(o)[1] = o
  BY DEF Only
<1>3. e2.mark[o] = Holds(o, arm, 1) /\ \A x \in Owners : x # o => e2.mark[x] = st.mark[x]
  BY DEF Marked, Built
<1>4. Within(st, o, e2)
  BY <1>2, <1>3 DEF Within, Built, Marked
<1>5. Tells(e2, o)
  <2>1. ASSUME NEW i \in 0..MaxCount - 1
        PROVE  e2.cell[<<o, i>>].arm = ArmAt(e2.mark[o], i) /\ e2.cell[<<Tmp, i>>].arm = "dead"
    <3>1. /\ <<o, i>> \in Places /\ <<Tmp, i>> \in Places /\ <<Tmp, i>> # <<o, 0>>
          /\ i \in Nat /\ (<<o, i>> = <<o, 0>> <=> i = 0)
          /\ i < 1 <=> i = 0
      BY PlacePairs, Apart
    <3>2. /\ st.cell[<<o, i>>].arm = "dead" /\ st.cell[<<Tmp, i>>].arm = "dead"
      BY <1>1, <3>1 DEF Tells, ArmAt, Absent
    <3> QED
      BY <1>3, <3>1, <3>2 DEF ArmAt, Holds, Only, Built, Marked
  <2> QED
    BY <1>3, <2>1 DEF Tells
<1> QED
  BY <1>4, <1>5, Back

\* The places of an owner that does not exist, or has no objects, are empty.
LEMMA NothingThere ==
  ASSUME ~OnHeap, NEW st \in AllSettled(Null), NEW o \in Owners, st.mark[o].n = 0
  PROVE  \A i \in 0..MaxCount - 1 : st.cell[<<o, i>>].arm = "dead"
<1>1. Tells(st, o)
  BY InPlaceStates, AllTell
<1>2. \A i \in 0..MaxCount - 1 : ~(i < 0)
  BY PlacePairs
<1> QED
  BY <1>1, <1>2 DEF Tells, ArmAt

\* The place of the only object.
LEMMA OnlyPlace ==
  ASSUME NEW o \in Owners
  PROVE  /\ Only(o) \in Places /\ Only(o)[1] = o /\ Only(o)[2] = 0 /\ Only(o) = <<o, 0>>
         /\ o \notin Blocks /\ Only(o) # Local
         /\ Local \in Places /\ Local[1] = Tmp /\ Local[2] = 0 /\ Tmp \notin Blocks
<1>1. 0 \in 0..MaxCount - 1 /\ <<o, 0>> \in Places /\ <<o, 0>>[1] = o /\ <<o, 0>>[2] = 0
  BY PlacePairs
<1>2. <<Tmp, 0>> \in Places /\ <<Tmp, 0>>[1] = Tmp /\ <<Tmp, 0>>[2] = 0
  BY PlacePairs
<1> QED
  BY <1>1, <1>2, Apart, PlacesAreDistinct DEF Only, Local

\* An owner begins with one object, or does not exist.
LEMMA DoBorn ==
  ASSUME ~OnHeap, NEW st \in AllSettled(Null), NEW o \in Owners, NEW arm \in Kinds, NEW from,
         Holds(o, arm, 1) \in OwnMarks(o), st.mark[o] = Absent, There(st, from, arm),
         NEW ok, NEW failed,
         \A e \in AllSettled(Null) : Given(st, o, Holds(o, arm, 1), arm, from, e) => e \in ok
  PROVE  /\ (\A some \in SUBSET Lost(from) : WithLoss(st, some) \in failed) =>
              Runs(st, Born(o, arm, from), ok, failed)
         /\ Runs(st, <<Mark(o, Holds(o, arm, 1)), New(Only(o), arm, from)>>, ok, failed)
<1> DEFINE F == failed
           a == Mark(o, Holds(o, arm, 1))
           u == <<Mark(o, Absent)>>
           p == Only(o)
<1>1. st \in States /\ SettledInPlace(st)
  BY InPlaceStates
<1>2. Holds(o, arm, 1) \in MarksOrNone /\ Absent \in MarksOrNone
  BY OwnMarksFit DEF MarksOrNone
<1>3. p \in Places /\ p[1] = o /\ p[2] = 0 /\ o \notin Blocks /\ st.cell[p].arm = "dead"
  <2>1. 0 \in 0..MaxCount - 1 /\ st.mark[o].n = 0
    BY PlacePairs DEF Absent
  <2> QED
    BY <2>1, OnlyPlace, NothingThere
<1>4. PICK e1 \in States : Goes(st, <<a>>, F, e1) /\ Marked(st, o, Holds(o, arm, 1), e1)
  BY <1>1, <1>2, DoMark
<1>5. There(e1, from, arm)
  BY <1>4 DEF There, Marked
<1>6. e1.cell = st.cell /\ e1.heap = st.heap
  BY <1>4 DEF Marked
<1>7. e1.cell[p].arm = "dead" /\ (p[1] \in Blocks => p[1] \in e1.heap)
  BY <1>3, <1>6
<1>8. ASSUME \A some \in SUBSET Lost(from) : WithLoss(st, some) \in failed
      PROVE  \A some \in SUBSET Loses(NewOr(u, p, arm, from)) : Unwinds(WithLoss(e1, some), u, F)
  <2> SUFFICES ASSUME NEW some \in SUBSET Lost(from) PROVE Unwinds(WithLoss(e1, some), u, F)
    BY LosesIs
  <2>1. /\ WithLoss(e1, some) \in States /\ WithLoss(st, some) \in States
        /\ WithLoss(e1, some).mark = e1.mark /\ WithLoss(e1, some).heap = e1.heap
        /\ WithLoss(st, some).mark = st.mark /\ WithLoss(st, some).heap = st.heap
    BY <1>1, LossKeepsArms
  <2>2. WithLoss(e1, some).cell = WithLoss(st, some).cell
    BY <1>6 DEF WithLoss
  <2>3. ASSUME NEW e \in States, Marked(WithLoss(e1, some), o, Absent, e)
        PROVE  e \in F
    <3>1. e.cell = WithLoss(st, some).cell /\ e.heap = WithLoss(st, some).heap
      BY <1>6, <2>1, <2>2, <2>3 DEF Marked
    <3>2. \A x \in Owners : e.mark[x] = WithLoss(st, some).mark[x]
      BY <1>4, <2>1, <2>3 DEF Marked
    <3>3. e = WithLoss(st, some)
      BY <2>1, <3>1, <3>2, StatesAgree
    <3> QED
      BY <1>8, <3>3
  <2> QED
    BY <1>2, <2>1, <2>3, DoMark
<1>9. ASSUME NEW e \in States, Built(e1, Only(o), arm, from, e)
      PROVE  e \in ok
  <2>1. e \in AllSettled(Null)
    BY <1>4, <1>9, BornIsSettled
  <2>2. Given(st, o, Holds(o, arm, 1), arm, from, e)
    <3>1. Holds(o, arm, 1).n - 1 = 0
      BY DEF Holds
    <3>2. \A q \in Places : q[1] \in Owners /\ (q[1] = o => q[2] < 0) => q # p
      BY <1>3
    <3>3. e.mark[o] = Holds(o, arm, 1) /\ \A x \in Owners : x # o => e.mark[x] = st.mark[x]
      BY <1>4, <1>9 DEF Marked, Built
    <3>4. e.cell = Constructed(st, p, arm, from)
      BY <1>6, <1>9 DEF Built, Constructed
    <3>5. \A q \in Places : e.cell[q] = IF q = p THEN [arm |-> arm, val |-> Source(st.cell, from)]
                                        ELSE Rest(st.cell, from)[q]
      BY <1>1, <1>3, <3>4, ConstructedIs DEF SameBut
    <3>6. <<o, 0>> = p
      BY OnlyPlace
    <3> DEFINE m == Holds(o, arm, 1)
    <3> HIDE DEF p, m
    <3>7. m.n - 1 = 0
      BY <3>1 DEF m
    <3>8. e.cell[<<o, m.n - 1>>] = [arm |-> arm, val |-> Source(st.cell, from)]
      BY <1>3, <3>5, <3>6, <3>7
    <3>9. \A q \in Places :
            q[1] \in Owners /\ (q[1] = o => q[2] < m.n - 1) => e.cell[q] = Rest(st.cell, from)[q]
      BY <3>2, <3>5, <3>7
    <3> QED
      BY <3>3, <3>8, <3>9 DEF Given, m
  <2> QED
    BY <2>1, <2>2
<1> HIDE DEF F, a, u, p
<1>10. PICK e3 \in States : Goes(e1, <<New(p, arm, from)>>, F, e3) /\ Built(e1, p, arm, from, e3)
  BY <1>3, <1>5, <1>7, DoNew
<1>11. Runs(st, <<a, New(p, arm, from)>>, ok, F)
  BY <1>4, <1>9, <1>10, TwoSteps DEF Runs, p
<1>12. ASSUME \A some \in SUBSET Lost(from) : WithLoss(st, some) \in failed
       PROVE  Runs(st, <<a, NewOr(u, p, arm, from)>>, ok, F)
  <2>1. PICK e2 \in States : Goes(e1, <<NewOr(u, p, arm, from)>>, F, e2) /\ Built(e1, p, arm, from, e2)
    BY <1>3, <1>5, <1>7, <1>8, <1>12, DoNewOr
  <2> QED
    BY <1>4, <1>9, <2>1, TwoSteps DEF Runs, p
<1> QED
  BY <1>11, <1>12 DEF Born, F, a, u, p

\* The objects of an owner are destroyed.
Cleared(st, o, end) ==
  /\ \A p \in Places : /\ end.cell[p].arm = IF p[1] = o THEN "dead" ELSE st.cell[p].arm
                       /\ p[1] # o => end.cell[p] = st.cell[p]
  /\ end.mark = st.mark /\ end.heap = st.heap

\* What happened in the meantime has left them there.
LEMMA DoEmpty ==
  ASSUME ~OnHeap, NEW st \in AllSettled(Null), NEW o \in Owners, st.mark[o] # Absent,
         NEW e \in States, NEW failed,
         \A i \in 0..MaxCount - 1 : e.cell[<<o, i>>].arm = st.cell[<<o, i>>].arm
  PROVE  \E end \in States : Goes(e, Ends(st.mark[o]), failed, end) /\ Cleared(e, o, end)
<1> DEFINE m == st.mark[o]
<1>1. Tells(st, o)
  BY InPlaceStates, AllTell
<1>2. m.n \in 0..MaxCount /\ m.at = o /\ m.arm \in Kinds
  BY <1>1, OwnMarksFit DEF Tells
<1>3. \A i \in 0..MaxCount - 1 : e.cell[<<o, i>>].arm = IF i < m.n THEN m.arm ELSE "dead"
  BY <1>1 DEF Tells, ArmAt
<1> HIDE DEF m
<1>4. /\ \A i \in 0..MaxCount - 1 : i < m.n => e.cell[<<m.at, i>>].arm = m.arm
      /\ m.n > 0 => m.at \in Owners \cup Blocks
  BY <1>2, <1>3
<1>5. PICK end \in States : Goes(e, Ends(m), failed, end) /\ AllDestroyed(e, m, end)
  BY <1>2, <1>4, DoEnds
<1>6. ASSUME NEW p \in Places
      PROVE  /\ end.cell[p].arm = IF p[1] = o THEN "dead" ELSE e.cell[p].arm
             /\ p[1] # o => end.cell[p] = e.cell[p]
  <2>1. p = <<p[1], p[2]>> /\ p[2] \in 0..MaxCount - 1
    BY PlacePairs
  <2>2. p[1] = o => e.cell[p].arm = IF p[2] < m.n THEN m.arm ELSE "dead"
    BY <1>3, <2>1
  <2> QED
    BY <1>2, <1>5, <2>2 DEF AllDestroyed
<1>7. Cleared(e, o, end)
  BY <1>5, <1>6 DEF Cleared, AllDestroyed
<1> QED
  BY <1>5, <1>7 DEF m

\* The new object is in a local variable: the old one goes, and the new one is
\* moved to its place.
LEMMA DoStage ==
  ASSUME ~OnHeap, NEW st \in AllSettled(Null), NEW o \in Owners, NEW arm \in Kinds,
         Holds(o, arm, 1) \in OwnMarks(o), st.mark[o] # Absent,
         NEW from, There(st, from, arm), NEW ok, NEW failed,
         \A e \in AllSettled(Null) : Given(st, o, Holds(o, arm, 1), arm, from, e) => e \in ok,
         NEW first, NEW e1 \in States, Goes(st, <<first>>, failed, e1),
         Built(st, Local, arm, from, e1)
  PROVE  Runs(st, <<first>> \o Ends(st.mark[o])
                    \o <<New(Only(o), arm, Move(Local)), Mark(o, Holds(o, arm, 1)), End(Local, arm)>>,
              ok, failed)
<1> DEFINE F == failed
           m == Holds(o, arm, 1)
           a == New(Only(o), arm, Move(Local))
           b == Mark(o, m)
           c == End(Local, arm)
<1>1. st \in States /\ SettledInPlace(st) /\ Tells(st, o)
  BY InPlaceStates, AllTell
<1>3. m \in MarksOrNone
  BY OwnMarksFit
<1>4. /\ Only(o) \in Places /\ Only(o)[1] = o /\ Only(o)[2] = 0 /\ o \notin Blocks
      /\ Local \in Places /\ Local[1] = Tmp /\ Local[2] = 0 /\ o # Tmp /\ Only(o) # Local
  <2>1. 0 \in 0..MaxCount - 1 /\ <<o, 0>> \in Places /\ <<o, 0>>[1] = o /\ <<o, 0>>[2] = 0
    BY PlacePairs
  <2>2. <<Tmp, 0>> \in Places /\ <<Tmp, 0>>[1] = Tmp /\ <<Tmp, 0>>[2] = 0
    BY PlacePairs
  <2> QED
    BY <2>1, <2>2, Apart DEF Only, Local
<1>2. /\ \A q \in Places : e1.cell[q].arm = IF q = Local THEN arm ELSE st.cell[q].arm
      /\ e1.mark = st.mark /\ e1.heap = st.heap
  BY DEF Built
<1>5. \A i \in 0..MaxCount - 1 : e1.cell[<<o, i>>].arm = st.cell[<<o, i>>].arm
  <2>1. \A i \in 0..MaxCount - 1 : <<o, i>> \in Places /\ <<o, i>>[1] = o
    BY PlacePairs
  <2> QED
    BY <1>2, <1>4, <2>1
<1> HIDE DEF F, a, b, c, m
<1>6. PICK e2 \in States : Goes(e1, Ends(st.mark[o]), F, e2) /\ Cleared(e1, o, e2)
  BY <1>5, DoEmpty
<1>7. PICK e3 \in States : Goes(e2, <<a>>, F, e3) /\ Built(e2, Only(o), arm, Move(Local), e3)
  <2>1. There(e2, Move(Local), arm)
    BY <1>2, <1>4, <1>6 DEF There, Move, Cleared
  <2>2. e2.cell[Only(o)].arm = "dead"
    BY <1>4, <1>6 DEF Cleared
  <2> QED
    BY <1>4, <2>1, <2>2, DoNew DEF a
<1>8. PICK e4 \in States : Goes(e3, <<b>>, F, e4) /\ Marked(e3, o, m, e4)
  BY <1>3, DoMark DEF b
<1>9. e4.cell[Local].arm = arm
  BY <1>2, <1>4, <1>6, <1>7, <1>8 DEF Built, Marked, Cleared
<1>10. PICK e5 \in States : Goes(e4, <<c>>, F, e5) /\ Destroyed(e4, Local, e5)
  BY <1>4, <1>9, DoEnd DEF c
<1>11. Goes(st, <<first>> \o Ends(st.mark[o]) \o <<a, b, c>>, F, e5)
  <2>1. Goes(st, <<first>> \o Ends(st.mark[o]), F, e2)
    BY <1>6, GoOn DEF F
  <2>2. Goes(e2, <<a, b, c>>, F, e5)
    BY <1>7, <1>8, <1>10, ThreeSteps
  <2> QED
    BY <2>1, <2>2, GoOn
<1>12. \A x \in Owners : e5.mark[x] = IF x = o THEN m ELSE st.mark[x]
  BY <1>2, <1>6, <1>7, <1>8, <1>10 DEF Cleared, Built, Marked, Destroyed
<1>13. \A p \in Places :
         e5.cell[p].arm = IF p = Local THEN "dead" ELSE IF p = Only(o) THEN arm
                          ELSE IF p[1] = o THEN "dead" ELSE st.cell[p].arm
  <2>2. \A p \in Places : e5.cell[p].arm = IF p = Local THEN "dead" ELSE e3.cell[p].arm
    BY <1>8, <1>10 DEF Destroyed, Marked
  <2>3. \A p \in Places : e3.cell[p].arm = IF p = Only(o) THEN arm ELSE e2.cell[p].arm
    BY <1>7 DEF Built
  <2> QED
    BY <1>2, <1>6, <2>2, <2>3 DEF Cleared
<1>14. Within(st, o, e5)
  <2>1. e5.heap = st.heap
    BY <1>2, <1>6, <1>7, <1>8, <1>10 DEF Built, Marked, Destroyed, Cleared
  <2>2. \A x \in Owners : x # o => e5.mark[x] = st.mark[x]
    BY <1>12
  <2>3. \A p \in Places : p[1] \notin {o, Tmp} => e5.cell[p].arm = st.cell[p].arm
    BY <1>4, <1>13
  <2> QED
    BY <2>1, <2>2, <2>3 DEF Within
<1>15. Tells(e5, o)
  <2>1. e5.mark[o] = m
    BY <1>12
  <2>2. ASSUME NEW i \in 0..MaxCount - 1
        PROVE  e5.cell[<<o, i>>].arm = ArmAt(m, i) /\ e5.cell[<<Tmp, i>>].arm = "dead"
    <3>1. /\ <<o, i>> \in Places /\ <<Tmp, i>> \in Places /\ <<o, i>> # Local /\ <<Tmp, i>> # Only(o)
          /\ (<<o, i>> = Only(o) <=> i = 0)
          /\ <<o, i>>[1] = o /\ <<Tmp, i>>[1] = Tmp
      BY <1>4, PlacePairs DEF Only, Local
    <3>2. i < 1 <=> i = 0
      BY PlacePairs
    <3>3. st.cell[<<Tmp, i>>].arm = "dead"
      BY <1>1 DEF Tells
    <3>4. e5.cell[<<o, i>>].arm = IF i = 0 THEN arm ELSE "dead"
      BY <1>13, <3>1
    <3>5. ArmAt(m, i) = IF i = 0 THEN arm ELSE "dead"
      BY <3>2 DEF ArmAt, m, Holds
    <3> QED
      BY <1>4, <1>13, <3>1, <3>3, <3>4, <3>5
  <2> QED
    BY <2>1, <2>2 DEF Tells, m
<1>16. e5 \in AllSettled(Null)
  BY <1>1, <1>14, <1>15, SettledAgain, InPlaceStates
<1>17. Given(st, o, m, arm, from, e5)
  <2> DEFINE new == [arm |-> arm, val |-> Source(st.cell, from)]
  <2>1. SameBut(e1.cell, Rest(st.cell, from), Local, new)
    BY <1>1, <1>4, ConstructedIs DEF Built
  <2>2. There(e2, Move(Local), arm)
    BY <1>2, <1>4, <1>6 DEF There, Move, Cleared
  <2>3. SameBut(e3.cell, Rest(e2.cell, Move(Local)), Only(o),
                [arm |-> arm, val |-> Source(e2.cell, Move(Local))])
    BY <1>4, <1>7, <2>2, ConstructedIs DEF Built
  <2>4. Source(e2.cell, Move(Local)) = Source(st.cell, from)
    <3>1. e2.cell[Local] = new
      BY <1>4, <1>6, <2>1 DEF Cleared, SameBut
    <3> QED
      BY <3>1 DEF Source, Move
  <2>5. \A q \in Places : q # Local => Rest(e2.cell, Move(Local))[q] = e2.cell[q]
    <3>1. Move(Local).of = Local
      BY DEF Move
    <3> DEFINE f == Move(Local)
    <3>2. There(e2, f, arm) /\ f.of = Local
      BY <2>2, <3>1
    <3> HIDE DEF f
    <3>3. \A q \in Places : Rest(e2.cell, f)[q] =
            IF f.by = "move" /\ q = f.of THEN [e2.cell[q] EXCEPT !.val = Moved] ELSE e2.cell[q]
      BY <3>2, RestIs
    <3> QED
      BY <3>2, <3>3 DEF f
  <2>6. \A q \in Places : q # Local => e5.cell[q] = e3.cell[q]
    BY <1>8, <1>10 DEF Marked, Destroyed
  <2> HIDE DEF new
  <2>7. e5.cell[Only(o)] = new
    BY <1>4, <2>3, <2>4, <2>6 DEF SameBut, new
  <2>8. ASSUME NEW q \in Places, q[1] \in Owners, q[1] # o
        PROVE  e5.cell[q] = Rest(st.cell, from)[q]
    <3>1. q # Local /\ q # Only(o)
      BY <1>4, <2>8, Apart
    <3>2. e5.cell[q] = e2.cell[q]
      BY <2>3, <2>5, <2>6, <3>1 DEF SameBut
    <3>3. e2.cell[q] = e1.cell[q]
      BY <1>6, <2>8 DEF Cleared
    <3>4. e1.cell[q] = Rest(st.cell, from)[q]
      BY <2>1, <3>1 DEF SameBut
    <3> QED
      BY <3>2, <3>3, <3>4
  <2>9. m.n - 1 = 0 /\ <<o, 0>> = Only(o)
    BY DEF m, Holds, Only
  <2>10. \A q \in Places : ~(q[2] < 0)
    BY PlacePairs
  <2> QED
    BY <1>12, <2>7, <2>8, <2>9, <2>10 DEF Given, new
<1>18. e5 \in ok
  BY <1>16, <1>17 DEF m
<1> QED
  BY <1>11, <1>18 DEF Runs, F, a, b, c, m

\* An owner without objects takes another discriminator without objects.
LEMMA DoRemark ==
  ASSUME ~OnHeap, NEW st \in AllSettled(Null), NEW o \in Owners, NEW m \in OwnMarks(o),
         m.n = 0, st.mark[o].n = 0, NEW failed
  PROVE  \E end \in AllSettled(Null) :
           Goes(st, <<Mark(o, m)>>, failed, end) /\ Marked(st, o, m, end)
<1>1. st \in States /\ m \in MarksOrNone
  BY InPlaceStates, OwnMarksFit
<1>2. PICK end \in States :
        Goes(st, <<Mark(o, m)>>, failed, end) /\ Marked(st, o, m, end)
  BY <1>1, DoMark
<1>3. Within(st, o, end)
  BY <1>2 DEF Within, Marked
<1>4. Tells(end, o)
  <2>1. \A i \in 0..MaxCount - 1 : ArmAt(m, i) = "dead"
    BY PlacePairs DEF ArmAt
  <2>2. Tells(st, o)
    BY InPlaceStates, AllTell
  <2> QED
    BY <1>2, <2>1, <2>2, NothingThere DEF Tells, Marked
<1> QED
  BY <1>2, <1>3, <1>4, Back

\* An owner has been emptied, and nothing else has happened.
Vacated(st, o, m, end) ==
  /\ end.mark[o] = m /\ \A x \in Owners : x # o => end.mark[x] = st.mark[x]
  /\ end.heap = st.heap
  /\ \A p \in Places : p[1] # o => end.cell[p] = st.cell[p]

\* Its objects are destroyed, and its discriminator says so.
LEMMA DoVacate ==
  ASSUME ~OnHeap, NEW st \in AllSettled(Null), NEW o \in Owners, st.mark[o] # Absent,
         NEW m \in OwnMarks(o), m.n = 0, NEW failed
  PROVE  \E end \in AllSettled(Null) :
           /\ Goes(st, Ends(st.mark[o]) \o <<Mark(o, m)>>, failed, end)
           /\ Vacated(st, o, m, end)
<1> DEFINE F == failed
<1>1. st \in States /\ m \in MarksOrNone
  BY InPlaceStates, OwnMarksFit
<1>2. PICK e1 \in States : Goes(st, Ends(st.mark[o]), F, e1) /\ Cleared(st, o, e1)
  BY <1>1, DoEmpty
<1>3. PICK e2 \in States : Goes(e1, <<Mark(o, m)>>, F, e2) /\ Marked(e1, o, m, e2)
  BY <1>1, DoMark
<1>4. Goes(st, Ends(st.mark[o]) \o <<Mark(o, m)>>, F, e2)
  BY <1>2, <1>3, GoOn
<1>5. Vacated(st, o, m, e2)
  BY <1>2, <1>3 DEF Vacated, Cleared, Marked
<1>6. Within(st, o, e2)
  BY <1>5 DEF Within, Vacated
<1>7. Tells(e2, o)
  <2>1. \A i \in 0..MaxCount - 1 : ArmAt(m, i) = "dead"
    BY PlacePairs DEF ArmAt
  <2>2. \A i \in 0..MaxCount - 1 : st.cell[<<Tmp, i>>].arm = "dead"
    BY InPlaceStates, AllTell DEF Tells
  <2>3. \A i \in 0..MaxCount - 1 :
          /\ <<o, i>> \in Places /\ <<o, i>>[1] = o
          /\ <<Tmp, i>> \in Places /\ <<Tmp, i>>[1] = Tmp /\ Tmp # o
    BY PlacePairs, Apart
  <2>4. \A i \in 0..MaxCount - 1 :
          e2.cell[<<o, i>>].arm = "dead" /\ e2.cell[<<Tmp, i>>].arm = "dead"
    BY <1>2, <1>3, <2>2, <2>3 DEF Cleared, Marked
  <2> QED
    BY <1>3, <2>1, <2>4 DEF Tells, Marked
<1>8. e2 \in AllSettled(Null)
  BY <1>6, <1>7, Back
<1> QED
  BY <1>4, <1>5, <1>8

\* The next object of an owner is built, and then counted.
LEMMA DoGrow ==
  ASSUME ~OnHeap, NEW st \in AllSettled(Null), NEW o \in Owners, NEW n \in 0..MaxCount - 1,
         NEW from, There(st, from, "value"), st.mark[o] = Holds(o, "value", n),
         Holds(o, "value", n + 1) \in OwnMarks(o), NEW ok, NEW failed,
         \A e \in AllSettled(Null) :
           Given(st, o, Holds(o, "value", n + 1), "value", from, e) => e \in ok,
         \A some \in SUBSET Lost(from) : WithLoss(st, some) \in failed
  PROVE  Runs(st, <<NewOr(<<>>, <<o, n>>, "value", from), Mark(o, Holds(o, "value", n + 1))>>,
              ok, failed)
<1> DEFINE F == failed
           p == <<o, n>>
           m == Holds(o, "value", n + 1)
           u == <<>>
<1>1. st \in States /\ SettledInPlace(st) /\ Tells(st, o) /\ m \in MarksOrNone
  BY InPlaceStates, AllTell, OwnMarksFit
<1>2. n \in Nat /\ ~(n < n)
  BY PlacePairs
<1>3. p \in Places /\ p[1] = o /\ p[2] = n /\ o \notin Blocks /\ "value" \in Kinds
  BY PlacePairs, Apart DEF Kinds
<1>4. st.cell[p].arm = "dead" /\ (p[1] \in Blocks => p[1] \in st.heap)
  <2>1. st.cell[<<o, n>>].arm = ArmAt(Holds(o, "value", n), n)
    BY <1>1 DEF Tells
  <2>2. ArmAt(Holds(o, "value", n), n) = "dead"
    BY <1>2 DEF ArmAt, Holds
  <2> QED
    BY <1>3, <2>1, <2>2
<1>5. \A some \in SUBSET Loses(NewOr(u, p, "value", from)) : Unwinds(WithLoss(st, some), u, F)
  BY <1>1, LosesIs, LossKeepsArms, NoSteps
<1> HIDE DEF F, p, m, u
<1>6. PICK e1 \in States :
        Goes(st, <<NewOr(u, p, "value", from)>>, F, e1) /\ Built(st, p, "value", from, e1)
  BY <1>1, <1>3, <1>4, <1>5, DoNewOr
<1>7. PICK e2 \in States : Goes(e1, <<Mark(o, m)>>, F, e2) /\ Marked(e1, o, m, e2)
  BY <1>1, DoMark
<1>8. Goes(st, <<NewOr(u, p, "value", from), Mark(o, m)>>, F, e2)
  BY <1>6, <1>7, TwoSteps
<1>9. Within(st, o, e2)
  BY <1>3, <1>6, <1>7 DEF Within, Built, Marked
<1>10. Tells(e2, o)
  <2>1. ASSUME NEW i \in 0..MaxCount - 1
        PROVE  e2.cell[<<o, i>>].arm = ArmAt(m, i) /\ e2.cell[<<Tmp, i>>].arm = "dead"
    <3>1. <<o, i>> \in Places /\ <<Tmp, i>> \in Places /\ <<Tmp, i>> # p /\ (<<o, i>> = p <=> i = n)
      BY PlacePairs, Apart DEF p
    <3>2. (i < n + 1) <=> (i < n \/ i = n)
      BY <1>2, PlacePairs
    <3>3. st.cell[<<o, i>>].arm = (IF i < n THEN "value" ELSE "dead") /\ st.cell[<<Tmp, i>>].arm = "dead"
      BY <1>1 DEF Tells, ArmAt, Holds
    <3>4. ArmAt(m, i) = IF i < n \/ i = n THEN "value" ELSE "dead"
      BY <3>2 DEF ArmAt, Holds, m
    <3>5. \A q \in Places : e2.cell[q].arm = IF q = p THEN "value" ELSE st.cell[q].arm
      BY <1>6, <1>7 DEF Built, Marked
    <3> QED
      BY <3>1, <3>3, <3>4, <3>5
  <2>2. e2.mark[o] = m
    BY <1>7 DEF Marked
  <2> QED
    BY <2>1, <2>2 DEF Tells, m
<1>11. e2 \in AllSettled(Null)
  BY <1>9, <1>10, Back
<1>12. Given(st, o, m, "value", from, e2)
  <2>1. SameBut(e2.cell, Rest(st.cell, from), p, [arm |-> "value", val |-> Source(st.cell, from)])
    BY <1>1, <1>3, <1>6, <1>7, ConstructedIs DEF Built, Marked
  <2>2. m.n - 1 = n /\ <<o, n>> = p
    BY <1>2 DEF m, Holds, p
  <2>3. \A q \in Places : q[1] \in Owners /\ (q[1] = o => q[2] < n) => q # p
    BY <1>2, <1>3
  <2>4. e2.mark[o] = m /\ \A x \in Owners : x # o => e2.mark[x] = st.mark[x]
    BY <1>6, <1>7 DEF Built, Marked
  <2> QED
    BY <1>3, <2>1, <2>2, <2>3, <2>4 DEF Given, SameBut
<1>13. e2 \in ok
  BY <1>11, <1>12 DEF m
<1> QED
  BY <1>8, <1>13 DEF Runs, F, p, m, u

\* An object is assigned.
LEMMA DoReassign ==
  ASSUME ~OnHeap, NEW st \in AllSettled(Null), NEW o \in Owners, NEW arm \in Kinds, NEW from,
         There(st, from, arm), from.by # "arg", st.cell[Only(o)].arm = arm,
         st.mark[o].n = 1, NEW ok, NEW failed,
         \A e \in AllSettled(Null) : Given(st, o, st.mark[o], arm, from, e) => e \in ok,
         \A some \in SUBSET ({Only(o)} \cup Lost(from)) : WithLoss(st, some) \in failed
  PROVE  Runs(st, <<Assign(Only(o), arm, from)>>, ok, failed)
<1> DEFINE F == failed
           p == Only(o)
<1>1. st \in States /\ SettledInPlace(st) /\ p \in Places
  BY InPlaceStates, OnlyPlace
<1>2. \A some \in SUBSET Loses(Assign(p, arm, from)) : WithLoss(st, some) \in F
  BY LosesIs
<1> HIDE DEF F, p
<1>3. st.cell[p].arm = arm
  BY DEF p
<1>4. PICK end \in States :
        Goes(st, <<Assign(p, arm, from)>>, F, end) /\ Assigned(st, p, arm, from, end)
  BY <1>1, <1>2, <1>3, DoAssign
<1>5. end \in AllSettled(Null)
  BY <1>1, <1>4, SettledKeeps, InPlaceStates DEF Assigned
<1>6. Given(st, o, st.mark[o], arm, from, end)
  <2>1. SameBut(end.cell, Rest(st.cell, from), p, [arm |-> arm, val |-> Source(st.cell, from)])
    BY <1>1, <1>4, ConstructedIs DEF Assigned
  <2>2. st.mark[o].n - 1 = 0 /\ <<o, 0>> = p
    BY DEF p, Only
  <2>3. p[1] = o /\ p[2] = 0
    BY OnlyPlace DEF p
  <2>4. \A q \in Places : q[1] \in Owners /\ (q[1] = o => q[2] < 0) => q # p
    BY <2>3
  <2> QED
    BY <1>1, <1>4, <2>1, <2>2, <2>4 DEF Given, SameBut, Assigned
<1>7. end \in ok
  BY <1>5, <1>6
<1> QED
  BY <1>4, <1>7 DEF Runs, F, p

-----------------------------------------------------------------------------
(* What callers see                                                        *)

LivingIn(st, m) == [i \in 1..m.n |-> st.cell[<<m.at, i - 1>>]]
HeldIn(st) == [o \in Owners |-> IF st.mark[o] = Absent THEN None ELSE LivingIn(st, st.mark[o])]

\* They see it in the state the program is in.
LEMMA ContentsAreHeld == Contents = HeldIn(Now) /\ \A m : Living(m) = LivingIn(Now, m)
BY DEF Contents, HeldIn, Living, LivingIn, Now

\* One object, or none.
LEMMA FewLive ==
  ASSUME NEW st, NEW m
  PROVE  /\ m.n = 1 => LivingIn(st, m) = <<st.cell[<<m.at, 0>>]>>
         /\ m.n = 0 => LivingIn(st, m) = <<>>
<1>1. ASSUME m.n = 1 PROVE LivingIn(st, m) = <<st.cell[<<m.at, 0>>]>>
  <2> DEFINE c(i) == st.cell[<<m.at, i - 1>>]
             a == c(1)
             s == [i \in 1..1 |-> c(i)]
  <2>1. LivingIn(st, m) = s /\ a = st.cell[<<m.at, 0>>]
    BY <1>1 DEF LivingIn
  <2>2. \A i \in 1..1 : c(i) = a
    OBVIOUS
  <2> HIDE DEF c, a
  <2>3. s \in Seq({a}) /\ <<a>> \in Seq({a}) /\ Len(s) = 1 /\ Len(<<a>>) = 1
    BY <2>2
  <2>4. \A i \in 1..1 : s[i] = <<a>>[i]
    BY <2>2
  <2> HIDE DEF s
  <2>5. s = <<a>>
    BY <2>3, <2>4, SeqEqual
  <2> QED
    BY <2>1, <2>5
<1>2. ASSUME m.n = 0 PROVE LivingIn(st, m) = <<>>
  <2>1. LivingIn(st, m) = [i \in 1..0 |-> st.cell[<<m.at, i - 1>>]]
    BY <1>2 DEF LivingIn
  <2> QED
    BY <2>1
<1> QED
  BY <1>1, <1>2

\* The same objects.
LEMMA SameLive ==
  ASSUME NEW st, NEW e, NEW m, \A i \in 1..m.n : e.cell[<<m.at, i - 1>>] = st.cell[<<m.at, i - 1>>]
  PROVE  LivingIn(e, m) = LivingIn(st, m)
BY DEF LivingIn

\* One object more.
OneMore(st, e, m, w, new) ==
  /\ m.n \in Nat /\ w.n = m.n + 1 /\ w.at = m.at
  /\ \A i \in 1..m.n : e.cell[<<m.at, i - 1>>] = st.cell[<<m.at, i - 1>>]
  /\ e.cell[<<m.at, m.n>>] = new

\* It is seen after the others.
LEMMA MoreLive ==
  ASSUME NEW st, NEW e, NEW m, NEW w, NEW new, OneMore(st, e, m, w, new)
  PROVE  LivingIn(e, w) = Append(LivingIn(st, m), new)
<1> DEFINE c(i) == st.cell[<<m.at, i - 1>>]
           d(i) == e.cell[<<m.at, i - 1>>]
           n == m.n
           s == [i \in 1..n |-> c(i)]
           u == [i \in 1..n + 1 |-> d(i)]
           S == {d(i) : i \in 1..n + 1}
<1>1. LivingIn(e, w) = u /\ LivingIn(st, m) = s
  BY DEF LivingIn, OneMore
<1>2. n \in Nat /\ (\A i \in 1..n : c(i) = d(i)) /\ d(n + 1) = new
  BY DEF OneMore
<1> HIDE DEF c, d, n
<1>3. s \in Seq(S) /\ new \in S /\ u \in Seq(S)
  BY <1>2
<1>4. Len(s) = n /\ Len(u) = n + 1 /\ (\A i \in 1..n : s[i] = d(i)) /\ \A i \in 1..n + 1 : u[i] = d(i)
  BY <1>2
<1> HIDE DEF s, u, S
<1>5. /\ Append(s, new) \in Seq(S) /\ Len(Append(s, new)) = n + 1
      /\ \A i \in 1..n + 1 : Append(s, new)[i] = IF i = n + 1 THEN new ELSE s[i]
  BY <1>2, <1>3, <1>4
<1>6. \A i \in 1..Len(u) : u[i] = Append(s, new)[i]
  BY <1>2, <1>4, <1>5
<1>7. u = Append(s, new)
  BY <1>3, <1>4, <1>5, <1>6, SeqEqual
<1> QED
  BY <1>1, <1>7

\* One object less.
OneLess(st, e, m, w) ==
  /\ m.n \in Nat \ {0} /\ w.n = m.n - 1 /\ w.at = m.at
  /\ \A i \in 1..m.n - 1 : e.cell[<<m.at, i - 1>>] = st.cell[<<m.at, i - 1>>]

\* The others are seen.
LEMMA FewerLive ==
  ASSUME NEW st, NEW e, NEW m, NEW w, OneLess(st, e, m, w)
  PROVE  LivingIn(e, w) = Promise!Front(LivingIn(st, m))
<1> DEFINE c(i) == st.cell[<<m.at, i - 1>>]
           d(i) == e.cell[<<m.at, i - 1>>]
           n == m.n
           s == [i \in 1..n |-> c(i)]
           u == [i \in 1..n - 1 |-> d(i)]
           S == {c(i) : i \in 1..n}
<1>1. LivingIn(e, w) = u /\ LivingIn(st, m) = s
  BY DEF LivingIn, OneLess
<1>2. n \in Nat /\ n > 0 /\ (\A i \in 1..n - 1 : c(i) = d(i))
  BY DEF OneLess
<1> HIDE DEF c, d, n
<1>3. s \in Seq(S) /\ u \in Seq(S)
  BY <1>2
<1>4. Len(s) = n /\ Len(u) = n - 1 /\ (\A i \in 1..n : s[i] = c(i)) /\ \A i \in 1..n - 1 : u[i] = d(i)
  BY <1>2
<1> HIDE DEF s, u, S
<1>5. Promise!Front(s) = SubSeq(s, 1, n - 1)
  BY <1>4 DEF Promise!Front
<1>6. /\ SubSeq(s, 1, n - 1) \in Seq(S) /\ Len(SubSeq(s, 1, n - 1)) = n - 1
      /\ \A i \in 1..n - 1 : SubSeq(s, 1, n - 1)[i] = s[i]
  BY <1>2, <1>3, <1>4
<1>7. u = SubSeq(s, 1, n - 1)
  BY <1>2, <1>3, <1>4, <1>6, SeqEqual
<1> QED
  BY <1>1, <1>5, <1>7

\* What a move leaves of one object, and of none.
LEMMA ResidueIs ==
  ASSUME ~OnHeap
  PROVE  /\ Promise!Residue(<<>>) = <<>>
         /\ \A a \in Cells : Promise!Residue(<<a>>) = <<[a EXCEPT !.val = Moved]>>
<1>1. \A c : Promise!Residue(c) = [i \in DOMAIN c |-> Promise!Thing(c[i].arm, Moved)]
  BY DEF Promise!Residue, Promise!OnHeap, OnHeap
<1>2. Promise!Residue(<<>>) = <<>>
  BY <1>1
<1>3. ASSUME NEW a \in Cells PROVE Promise!Residue(<<a>>) = <<[a EXCEPT !.val = Moved]>>
  <2> DEFINE b == [a EXCEPT !.val = Moved]
             s == [i \in DOMAIN <<a>> |-> Promise!Thing(<<a>>[i].arm, Moved)]
  <2>1. b = Promise!Thing(a.arm, Moved)
    BY DEF Cells, Things, Dead, Promise!Thing
  <2>2. DOMAIN <<a>> = 1..1 /\ <<a>>[1] = a
    OBVIOUS
  <2>3. s = [i \in 1..1 |-> b]
    BY <2>1, <2>2
  <2> HIDE DEF b, s
  <2>4. s \in Seq({b}) /\ <<b>> \in Seq({b}) /\ Len(s) = 1 /\ Len(<<b>>) = 1 /\ s[1] = <<b>>[1]
    BY <2>3
  <2>5. s = <<b>>
    BY <2>4, SeqEqual
  <2> QED
    BY <1>1, <2>5 DEF b, s
<1> QED
  BY <1>2, <1>3

\* Places of owners of one object.
Ones(st, some) == \A p \in some : \E x \in Owners : p = Only(x) /\ st.mark[x].n = 1

\* An owner holds what it held, or what is left of it.
LEMMA KeptHeld ==
  ASSUME ~OnHeap, NEW st \in AllSettled(Null), NEW k \in Owners, NEW e, e.mark[k] = st.mark[k],
         NEW some, Ones(st, some),
         \A q \in Places : q[1] = k =>
           e.cell[q] = IF q \in some THEN [st.cell[q] EXCEPT !.val = Moved] ELSE st.cell[q]
  PROVE  HeldIn(e)[k] = IF Only(k) \in some THEN Promise!Residue(HeldIn(st)[k]) ELSE HeldIn(st)[k]
<1> DEFINE m == st.mark[k]
<1>1. st.cell \in [Places -> Cells] /\ m \in OwnMarks(k)
  BY InPlaceStates, AllTell DEF States, Tells
<1>2. /\ HeldIn(e)[k] = IF m = Absent THEN None ELSE LivingIn(e, m)
      /\ HeldIn(st)[k] = IF m = Absent THEN None ELSE LivingIn(st, m)
  BY DEF HeldIn
<1>3. m.n \in 0..MaxCount /\ MaxCount \in Nat /\ (m # Absent => m.at = k)
  BY <1>1, OwnMarksFit, PlacePairs
<1>4. \A i \in 1..m.n : <<k, i - 1>> \in Places /\ <<k, i - 1>>[1] = k /\ i - 1 \in 0..MaxCount - 1
  BY <1>3, PlacePairs
<1>5. \A x \in Owners : \A i \in 0..MaxCount - 1 : <<k, i>> = Only(x) => k = x /\ i = 0
  BY DEF Only
<1>6. Only(k) \in Places /\ Only(k)[1] = k /\ Only(k) = <<k, 0>>
  BY OnlyPlace
<1> HIDE DEF m
<1>7. CASE Only(k) \in some
  <2>1. m.n = 1
    <3>1. PICK x \in Owners : Only(k) = Only(x) /\ st.mark[x].n = 1
      BY <1>7 DEF Ones
    <3>2. x = k
      BY <3>1 DEF Only
    <3> QED
      BY <3>1, <3>2 DEF m
  <2>2. m # Absent
    BY <2>1 DEF Absent
  <2>3. LivingIn(e, m) = <<e.cell[Only(k)]>> /\ LivingIn(st, m) = <<st.cell[Only(k)]>>
    <3>1. <<m.at, 0>> = Only(k)
      BY <1>3, <1>6, <2>2
    <3>2. LivingIn(e, m) = <<e.cell[<<m.at, 0>>]>> /\ LivingIn(st, m) = <<st.cell[<<m.at, 0>>]>>
      BY <2>1, FewLive
    <3> QED
      BY <3>1, <3>2
  <2>4. e.cell[Only(k)] = [st.cell[Only(k)] EXCEPT !.val = Moved] /\ st.cell[Only(k)] \in Cells
    BY <1>1, <1>6, <1>7
  <2> QED
    BY <1>2, <1>7, <2>2, <2>3, <2>4, ResidueIs
<1>8. CASE Only(k) \notin some
  <2>1. \A i \in 0..MaxCount - 1 : <<k, i>> \notin some
    BY <1>5, <1>6, <1>8 DEF Ones
  <2>2. m # Absent => \A i \in 1..m.n : e.cell[<<m.at, i - 1>>] = st.cell[<<m.at, i - 1>>]
    BY <1>3, <1>4, <2>1
  <2>3. m # Absent => LivingIn(e, m) = LivingIn(st, m)
    BY <2>2, SameLive
  <2> QED
    BY <1>2, <1>8, <2>3
<1> QED
  BY <1>7, <1>8

\* After an exception owners hold what they held, or what is left of it.
LEMMA LossHeld ==
  ASSUME ~OnHeap, NEW st \in AllSettled(Null), NEW some, Ones(st, some)
  PROVE  \A k \in Owners :
           HeldIn(WithLoss(st, some))[k] =
             IF Only(k) \in some THEN Promise!Residue(HeldIn(st)[k]) ELSE HeldIn(st)[k]
<1> DEFINE e == WithLoss(st, some)
<1>1. e.mark = st.mark /\ \A q \in Places :
        e.cell[q] = IF q \in some THEN [st.cell[q] EXCEPT !.val = Moved] ELSE st.cell[q]
  BY DEF WithLoss
<1> HIDE DEF e
<1>2. ASSUME NEW k \in Owners
      PROVE  HeldIn(e)[k] = IF Only(k) \in some THEN Promise!Residue(HeldIn(st)[k]) ELSE HeldIn(st)[k]
  <2>1. e.mark[k] = st.mark[k]
    BY <1>1
  <2>2. \A q \in Places : q[1] = k =>
          e.cell[q] = IF q \in some THEN [st.cell[q] EXCEPT !.val = Moved] ELSE st.cell[q]
    BY <1>1
  <2> QED
    BY <2>1, <2>2, KeptHeld
<1> QED
  BY <1>2 DEF e

\* What an owner has been given it holds, and the others what they held, or
\* what is left of it.
LEMMA GivenHeld ==
  ASSUME ~OnHeap, NEW st \in AllSettled(Null), NEW o \in Owners, NEW m \in OwnMarks(o),
         NEW arm, NEW from, There(st, from, arm), Ones(st, Lost(from)), Only(o) \notin Lost(from),
         NEW e, Given(st, o, m, arm, from, e)
  PROVE  LET new == [arm |-> arm, val |-> Source(st.cell, from)]
         IN  /\ m.n = 1 => HeldIn(e)[o] = <<new>>
             /\ st.mark[o] # Absent /\ m.n = st.mark[o].n + 1 =>
                  HeldIn(e)[o] = Append(HeldIn(st)[o], new)
             /\ \A k \in Owners : k # o =>
                  HeldIn(e)[k] = IF Only(k) \in Lost(from) THEN Promise!Residue(HeldIn(st)[k])
                                 ELSE HeldIn(st)[k]
<1> DEFINE new == [arm |-> arm, val |-> Source(st.cell, from)]
           some == Lost(from)
           w == st.mark[o]
<1>1. st \in States /\ w \in OwnMarks(o)
  BY InPlaceStates, AllTell DEF Tells
<1>2. \A q \in Places :
        Rest(st.cell, from)[q] = IF q \in some THEN [st.cell[q] EXCEPT !.val = Moved] ELSE st.cell[q]
  BY <1>1, RestIs DEF Lost
<1>3. /\ e.mark[o] = m /\ \A x \in Owners : x # o => e.mark[x] = st.mark[x]
      /\ e.cell[<<o, m.n - 1>>] = new
      /\ \A q \in Places :
           q[1] \in Owners /\ (q[1] = o => q[2] < m.n - 1) => e.cell[q] = Rest(st.cell, from)[q]
  BY DEF Given
<1>4. /\ m.n \in 0..MaxCount /\ MaxCount \in Nat /\ (m.n > 0 => m # Absent /\ m.at = o)
      /\ w.n \in 0..MaxCount /\ (w # Absent => w.at = o)
  BY <1>1, OwnMarksFit, PlacePairs
<1> HIDE DEF new, some, w
<1>5. HeldIn(e)[o] = IF m = Absent THEN None ELSE LivingIn(e, m)
  BY <1>3 DEF HeldIn
<1>6. HeldIn(st)[o] = IF w = Absent THEN None ELSE LivingIn(st, w)
  BY DEF HeldIn, w
<1>7. m.n = 1 => HeldIn(e)[o] = <<new>>
  <2> SUFFICES ASSUME m.n = 1 PROVE HeldIn(e)[o] = <<new>>
    OBVIOUS
  <2>1. <<m.at, 0>> = <<o, m.n - 1>> /\ m # Absent
    BY <1>4
  <2>2. e.cell[<<m.at, 0>>] = new
    BY <1>3, <2>1
  <2>3. LivingIn(e, m) = <<e.cell[<<m.at, 0>>]>>
    BY FewLive
  <2> QED
    BY <1>5, <2>1, <2>2, <2>3
<1>8. ASSUME w # Absent, m.n = w.n + 1 PROVE HeldIn(e)[o] = Append(HeldIn(st)[o], new)
  <2>1. w.n \in Nat /\ w.n = m.n - 1 /\ m.n > 0 /\ w.n \in 0..MaxCount - 1
    BY <1>4, <1>8
  <2>2. \A i \in 1..w.n : e.cell[<<o, i - 1>>] = st.cell[<<o, i - 1>>]
    <3> SUFFICES ASSUME NEW i \in 1..w.n PROVE e.cell[<<o, i - 1>>] = st.cell[<<o, i - 1>>]
      OBVIOUS
    <3> DEFINE q == <<o, i - 1>>
    <3>1. i - 1 \in 0..MaxCount - 1 /\ i - 1 < m.n - 1
      BY <1>4, <2>1
    <3>2. q \in Places /\ q[1] = o /\ q[2] = i - 1
      BY <3>1, PlacePairs
    <3>3. q \notin some
      <4>1. \A x \in Owners : q = Only(x) => q = Only(o)
        BY <3>2 DEF Only
      <4> QED
        BY <4>1 DEF Ones, some
    <3> HIDE DEF q
    <3>4. e.cell[q] = st.cell[q]
      BY <1>2, <1>3, <3>1, <3>2, <3>3
    <3> QED
      BY <3>4 DEF q
  <2>3. LivingIn(e, m) = Append(LivingIn(st, w), new)
    <3>1. w.at = o /\ m.at = o
      BY <1>4, <1>8, <2>1
    <3>2. \A i \in 1..w.n : e.cell[<<w.at, i - 1>>] = st.cell[<<w.at, i - 1>>]
      BY <2>2, <3>1
    <3>3. e.cell[<<w.at, w.n>>] = new
      BY <1>3, <2>1, <3>1
    <3>4. OneMore(st, e, w, m, new)
      BY <1>8, <2>1, <3>1, <3>2, <3>3 DEF OneMore
    <3> QED
      BY <3>4, MoreLive
  <2> QED
    BY <1>4, <1>5, <1>6, <1>8, <2>1, <2>3
<1>9. ASSUME NEW k \in Owners, k # o
      PROVE  HeldIn(e)[k] = IF Only(k) \in some THEN Promise!Residue(HeldIn(st)[k]) ELSE HeldIn(st)[k]
  <2>1. \A q \in Places : q[1] = k =>
          e.cell[q] = IF q \in some THEN [st.cell[q] EXCEPT !.val = Moved] ELSE st.cell[q]
    BY <1>2, <1>3, <1>9
  <2> QED
    BY <1>3, <1>9, <2>1, KeptHeld DEF some
<1> QED
  BY <1>7, <1>8, <1>9 DEF new, some, w

\* What the caller has of them when a call has begun.
LooseThen(r) == CASE r.op = "release" -> mark[r.o]
                  [] r.op \in {"reset_to", "drop"} -> Null
                  [] OTHER -> loose

\* What callers see to, as discriminators say it.
Asked(r) ==
  /\ r.o \in Owners /\ r.x \in Owners /\ r.v \in Values /\ r.n \in Promise!Counts
  /\ r.op \in Promise!Constructors \cup Promise!Methods
  /\ mark[r.o] = Absent <=> r.op \in Promise!Constructors
  /\ IF r.op \in {"copy", "move", "copy_assign", "move_assign", "swap"}
       THEN mark[r.x] # Absent
       ELSE r.x = r.o
  /\ r.op = "emplace_self" => cell[Only(r.o)].arm = "value"
  /\ r.op \in {"pop_back", "push_self"} => mark[r.o].n > 0
  /\ r.op \in {"reset_to", "drop"} => loose.n > 0
  /\ r.op = "release" => loose.n = 0

\* What they are promised to see.
Held == IF AtRest THEN Contents ELSE before.held
Handed == IF AtRest THEN Living(loose) ELSE before.loose

OkEnds(r, l) ==
  {e \in AllSettled(l) : HeldIn(e) = Promise!After(r) /\ LivingIn(e, l) = Promise!LooseAfter(r)}

FailEnds(r, l) ==
  {e \in AllSettled(l) :
     Promise!MayThrow(r) /\ HeldIn(e) \in Promise!Failed(r) /\ LivingIn(e, l) = Handed}

\* What becomes of the other operand of a call.
Other(r) ==
  CASE r.op \in {"move", "move_assign"} -> Promise!Residue(Contents[r.x])
    [] r.op = "swap" -> Contents[r.o]
    [] OTHER -> Contents[r.x]

\* The owners that a call is not about hold what they held.
OthersSame(r, e) == \A k \in Owners : k # r.o /\ k # r.x => HeldIn(e)[k] = Contents[k]

\* A call changes its operands.
LEMMA AfterIs ==
  ASSUME AtRest, NEW r, r.o \in Owners, r.x \in Owners, NEW e, OthersSame(r, e),
         HeldIn(e)[r.o] = Promise!Becomes(r), r.x # r.o => HeldIn(e)[r.x] = Other(r)
  PROVE  HeldIn(e) = Promise!After(r)
<1> DEFINE h == HeldIn(e)
           other == CASE r.op \in {"move", "move_assign"} -> Promise!Residue(Contents[r.x])
                      [] r.op = "swap" -> Contents[r.o]
                      [] OTHER -> Contents[r.x]
           after == [Contents EXCEPT ![r.x] = IF r.x = r.o THEN @ ELSE other,
                                     ![r.o] = Promise!Becomes(r)]
<1>1. Promise!After(r) = after
  BY DEF Promise!After
<1>2. Contents = [k \in Owners |-> Contents[k]] /\ h = [k \in Owners |-> h[k]]
  BY DEF Contents, HeldIn
<1>3. other = Other(r)
  BY DEF Other
<1> HIDE DEF h, other
<1>4. after = [k \in Owners |-> IF k = r.o THEN Promise!Becomes(r)
                                ELSE IF k = r.x THEN other ELSE Contents[k]]
  BY <1>2
<1>5. \A k \in Owners : h[k] = IF k = r.o THEN Promise!Becomes(r)
                               ELSE IF k = r.x THEN other ELSE Contents[k]
  BY <1>3 DEF OthersSame, h
<1> HIDE DEF after
<1>6. h = after
  BY <1>2, <1>4, <1>5
<1> QED
  BY <1>1, <1>6 DEF h

\* A call that fails may change them.
LEMMA FailedIs ==
  ASSUME AtRest, NEW r, r.o \in Owners, r.x \in Owners, NEW e, OthersSame(r, e),
         HeldIn(e)[r.o] \in Promise!Kept(r), r.x # r.o => HeldIn(e)[r.x] \in Promise!Source(r)
  PROVE  HeldIn(e) \in Promise!Failed(r)
<1> DEFINE h == HeldIn(e)
           after(c, d) == [Contents EXCEPT ![r.x] = IF r.x = r.o THEN @ ELSE d, ![r.o] = c]
<1>1. Promise!Failed(r) = {after(c, d) : c \in Promise!Kept(r), d \in Promise!Source(r)}
  BY DEF Promise!Failed
<1>2. Contents = [k \in Owners |-> Contents[k]] /\ h = [k \in Owners |-> h[k]]
  BY DEF Contents, HeldIn
<1>3. Contents[r.x] \in Promise!Source(r)
  BY DEF Promise!Source
<1>4. PICK d \in Promise!Source(r) : r.x # r.o => h[r.x] = d
  BY <1>3
<1> HIDE DEF h
<1>5. after(h[r.o], d) = [k \in Owners |-> IF k = r.o THEN h[r.o]
                                           ELSE IF k = r.x THEN d ELSE Contents[k]]
  BY <1>2
<1>6. \A k \in Owners : h[k] = IF k = r.o THEN h[r.o] ELSE IF k = r.x THEN d ELSE Contents[k]
  BY <1>4 DEF OthersSame, h
<1> HIDE DEF after
<1>7. h = after(h[r.o], d)
  BY <1>2, <1>5, <1>6
<1>8. h[r.o] \in Promise!Kept(r)
  BY DEF h
<1> QED
  BY <1>1, <1>4, <1>7, <1>8 DEF h

\* Owners that keep their objects in themselves let go of none.
LEMMA NothingLoose ==
  ASSUME AtRest, class \in {"expected", "optional", "inplace_vector"}, Now \in AllSettled(loose),
         NEW r, Asked(r)
  PROVE  /\ loose = Null /\ LooseThen(r) = Null /\ Handed = <<>> /\ Promise!LooseAfter(r) = <<>>
         /\ \A e : LivingIn(e, Null) = <<>>
<1>1. loose = Null
  BY DEF AllSettled, Settled, OnHeap
<1>2. r.op \notin {"release", "reset_to", "drop"}
  BY DEF Asked, Promise!Constructors, Promise!Methods
<1>3. \A e : LivingIn(e, Null) = <<>>
  BY FewLive DEF Null
<1>4. Handed = <<>>
  BY <1>1, <1>3, ContentsAreHeld DEF Handed
<1>5. Promise!LooseAfter(r) = Handed
  BY <1>2 DEF Promise!LooseAfter, Handed
<1> QED
  BY <1>1, <1>2, <1>3, <1>4, <1>5 DEF LooseThen

\* A call of such an owner may end so.
LEMMA EndsInPlace ==
  ASSUME AtRest, class \in {"expected", "optional", "inplace_vector"}, Now \in AllSettled(loose),
         NEW r, Asked(r), NEW e \in AllSettled(Null), OthersSame(r, e)
  PROVE  /\ HeldIn(e)[r.o] = Promise!Becomes(r) /\ (r.x # r.o => HeldIn(e)[r.x] = Other(r)) =>
              e \in OkEnds(r, Null)
         /\ Promise!MayThrow(r) /\ HeldIn(e)[r.o] \in Promise!Kept(r)
              /\ (r.x # r.o => HeldIn(e)[r.x] \in Promise!Source(r)) =>
              e \in FailEnds(r, Null)
<1>1. r.o \in Owners /\ r.x \in Owners
  BY DEF Asked
<1>2. LivingIn(e, Null) = Promise!LooseAfter(r) /\ LivingIn(e, Null) = Handed
  BY NothingLoose
<1>3. HeldIn(e)[r.o] = Promise!Becomes(r) /\ (r.x # r.o => HeldIn(e)[r.x] = Other(r)) =>
        HeldIn(e) = Promise!After(r)
  BY <1>1, AfterIs
<1>4. HeldIn(e)[r.o] \in Promise!Kept(r) /\ (r.x # r.o => HeldIn(e)[r.x] \in Promise!Source(r)) =>
        HeldIn(e) \in Promise!Failed(r)
  BY <1>1, FailedIs
<1> QED
  BY <1>2, <1>3, <1>4 DEF OkEnds, FailEnds

\* Only the owner that a call is of has changed so far.
UpTo(r, st) ==
  /\ OthersSame(r, st)
  /\ r.x # r.o => HeldIn(st)[r.x] = Contents[r.x] /\ st.mark[r.x] = mark[r.x]

\* What a call may give to its owner: of the other operand, if it is a move.
Fits(r, from) ==
  \/ from.by # "move" /\ r.op \notin {"move", "move_assign", "swap"}
  \/ /\ r.op \in {"move", "move_assign"} /\ r.x # r.o
     /\ from = Move(Only(r.x)) /\ mark[r.x].n = 1

\* An owner is given what the call is to give it.
LEMMA GivenIsOk ==
  ASSUME AtRest, class \in {"expected", "optional", "inplace_vector"}, Now \in AllSettled(loose),
         NEW r, Asked(r), NEW st \in AllSettled(Null), UpTo(r, st),
         NEW m \in OwnMarks(r.o), NEW arm, NEW from, There(st, from, arm), Fits(r, from),
         LET new == [arm |-> arm, val |-> Source(st.cell, from)]
         IN  \/ m.n = 1 /\ Promise!Becomes(r) = <<new>>
             \/ /\ st.mark[r.o] # Absent /\ m.n = st.mark[r.o].n + 1
                /\ Promise!Becomes(r) = Append(HeldIn(st)[r.o], new)
  PROVE  \A e \in AllSettled(Null) : Given(st, r.o, m, arm, from, e) => e \in OkEnds(r, Null)
<1> SUFFICES ASSUME NEW e \in AllSettled(Null), Given(st, r.o, m, arm, from, e)
             PROVE  e \in OkEnds(r, Null)
  OBVIOUS
<1> DEFINE new == [arm |-> arm, val |-> Source(st.cell, from)]
<1>1. r.o \in Owners /\ r.x \in Owners /\ ~OnHeap
  BY DEF Asked, OnHeap
<1>2. \A k, j \in Owners : Only(k) = Only(j) => k = j
  BY DEF Only
<1>3. /\ from.by # "move" => Lost(from) = {}
      /\ from.by = "move" => Lost(from) = {Only(r.x)} /\ r.x # r.o /\ st.mark[r.x].n = 1
                             /\ r.op \in {"move", "move_assign"}
  BY DEF Lost, Fits, Move, UpTo
<1>4. Ones(st, Lost(from)) /\ Only(r.o) \notin Lost(from)
  BY <1>1, <1>2, <1>3 DEF Ones
<1> HIDE DEF new
<1>5. /\ m.n = 1 => HeldIn(e)[r.o] = <<new>>
      /\ st.mark[r.o] # Absent /\ m.n = st.mark[r.o].n + 1 =>
           HeldIn(e)[r.o] = Append(HeldIn(st)[r.o], new)
      /\ \A k \in Owners : k # r.o =>
           HeldIn(e)[k] = IF Only(k) \in Lost(from) THEN Promise!Residue(HeldIn(st)[k])
                          ELSE HeldIn(st)[k]
  BY <1>1, <1>4, GivenHeld DEF new
<1>6. HeldIn(e)[r.o] = Promise!Becomes(r)
  BY <1>5 DEF new
<1>7. r.x # r.o => HeldIn(e)[r.x] = Other(r)
  <2> SUFFICES ASSUME r.x # r.o PROVE HeldIn(e)[r.x] = Other(r)
    OBVIOUS
  <2>1. HeldIn(st)[r.x] = Contents[r.x]
    BY DEF UpTo
  <2>2. CASE from.by = "move"
    BY <1>1, <1>3, <1>5, <2>1, <2>2 DEF Other
  <2>3. CASE from.by # "move"
    <3>1. r.op \notin {"move", "move_assign", "swap"}
      BY <2>3 DEF Fits, Move
    <3>2. Other(r) = Contents[r.x]
      BY <3>1 DEF Other
    <3> QED
      BY <1>1, <1>3, <1>5, <2>1, <2>3, <3>2
  <2> QED
    BY <2>2, <2>3
<1>8. OthersSame(r, e)
  <2>1. \A k \in Owners : k # r.x => Only(k) \notin Lost(from)
    BY <1>1, <1>2, <1>3
  <2> QED
    BY <1>5, <2>1 DEF OthersSame, UpTo
<1> QED
  BY <1>6, <1>7, <1>8, EndsInPlace

\* An exception leaves the operands as documented.
LEMMA LossFails ==
  ASSUME AtRest, class \in {"expected", "optional", "inplace_vector"}, Now \in AllSettled(loose),
         NEW r, Asked(r), Promise!MayThrow(r), NEW st \in AllSettled(Null), UpTo(r, st),
         NEW some, Ones(st, some), some \subseteq {Only(r.o), Only(r.x)},
         (IF Only(r.o) \in some THEN Promise!Residue(HeldIn(st)[r.o]) ELSE HeldIn(st)[r.o])
           \in Promise!Kept(r),
         r.x # r.o /\ Only(r.x) \in some => r.op \in {"move", "move_assign"}
  PROVE  WithLoss(st, some) \in FailEnds(r, Null)
<1> DEFINE e == WithLoss(st, some)
<1>1. r.o \in Owners /\ r.x \in Owners /\ ~OnHeap
  BY DEF Asked, OnHeap
<1>2. \A k, j \in Owners : Only(k) = Only(j) => k = j
  BY DEF Only
<1>3. \A k \in Owners :
        HeldIn(e)[k] = IF Only(k) \in some THEN Promise!Residue(HeldIn(st)[k]) ELSE HeldIn(st)[k]
  BY <1>1, LossHeld
<1>4. e \in AllSettled(Null)
  BY <1>1, LossIsSettled
<1> HIDE DEF e
<1>5. OthersSame(r, e)
  <2>1. \A k \in Owners : k # r.o /\ k # r.x => Only(k) \notin some
    BY <1>1, <1>2
  <2> QED
    BY <1>3, <2>1 DEF OthersSame, UpTo
<1>6. HeldIn(e)[r.o] \in Promise!Kept(r)
  BY <1>1, <1>3
<1>7. r.x # r.o => HeldIn(e)[r.x] \in Promise!Source(r)
  <2> SUFFICES ASSUME r.x # r.o PROVE HeldIn(e)[r.x] \in Promise!Source(r)
    OBVIOUS
  <2>1. HeldIn(st)[r.x] = Contents[r.x]
    BY DEF UpTo
  <2>2. Contents[r.x] \in Promise!Source(r)
    BY DEF Promise!Source
  <2>3. r.op \in {"move", "move_assign"} => Promise!Residue(Contents[r.x]) \in Promise!Source(r)
    BY DEF Promise!Source
  <2> QED
    BY <1>1, <1>3, <2>1, <2>2, <2>3
<1>8. e \in FailEnds(r, Null)
  BY <1>4, <1>5, <1>6, <1>7, EndsInPlace
<1> QED
  BY <1>8 DEF e

\* So far nothing has changed.
LEMMA NowUpTo == \A r : r.o \in Owners /\ r.x \in Owners => UpTo(r, Now)
BY ContentsAreHeld DEF UpTo, OthersSame, Now

\* An exception that ends the construction or the assignment of what a call
\* gives.
LEMMA GiftFails ==
  ASSUME AtRest, class \in {"expected", "optional", "inplace_vector"}, Now \in AllSettled(loose),
         NEW r, Asked(r), Promise!MayThrow(r), NEW st \in AllSettled(Null), UpTo(r, st),
         NEW from, Fits(r, from), HeldIn(st)[r.o] \in Promise!Kept(r)
  PROVE  /\ \A some \in SUBSET Lost(from) : WithLoss(st, some) \in FailEnds(r, Null)
         /\ st.mark[r.o].n = 1 /\ Promise!Residue(HeldIn(st)[r.o]) \in Promise!Kept(r) =>
              \A some \in SUBSET ({Only(r.o)} \cup Lost(from)) : WithLoss(st, some) \in FailEnds(r, Null)
<1>1. r.o \in Owners /\ r.x \in Owners
  BY DEF Asked
<1>2. \A k, j \in Owners : Only(k) = Only(j) => k = j
  BY DEF Only
<1>3. /\ from.by # "move" => Lost(from) = {}
      /\ from.by = "move" => Lost(from) = {Only(r.x)} /\ r.x # r.o /\ st.mark[r.x].n = 1
                             /\ r.op \in {"move", "move_assign"}
  BY DEF Lost, Fits, Move, UpTo
<1>4. ASSUME NEW some \in SUBSET ({Only(r.o)} \cup Lost(from)),
             Only(r.o) \in some =>
               st.mark[r.o].n = 1 /\ Promise!Residue(HeldIn(st)[r.o]) \in Promise!Kept(r)
      PROVE  WithLoss(st, some) \in FailEnds(r, Null)
  <2>1. some \subseteq {Only(r.o), Only(r.x)}
    BY <1>3
  <2>2. \A p \in some : p = Only(r.o) \/ (p = Only(r.x) /\ st.mark[r.x].n = 1)
    BY <1>3
  <2>3. Ones(st, some)
    BY <1>1, <1>4, <2>2 DEF Ones
  <2>4. r.x # r.o /\ Only(r.x) \in some => r.op \in {"move", "move_assign"}
    BY <1>1, <1>2, <1>3
  <2>5. (IF Only(r.o) \in some THEN Promise!Residue(HeldIn(st)[r.o]) ELSE HeldIn(st)[r.o])
          \in Promise!Kept(r)
    BY <1>4
  <2> QED
    BY <2>1, <2>3, <2>4, <2>5, LossFails
<1>5. Only(r.o) \notin Lost(from)
  BY <1>1, <1>2, <1>3
<1> QED
  BY <1>4, <1>5

\* An object is its arm and its value.
LEMMA ObjectIs == \A c \in Cells : c = [arm |-> c.arm, val |-> c.val]
BY DEF Cells, Things, Dead

\* What an owner of one object holds, and what can be copied or moved of it.
LEMMA HeldOne ==
  ASSUME ~OnHeap, Now \in AllSettled(Null), NEW k \in Owners, mark[k].n = 1
  PROVE  /\ Contents[k] = <<[arm |-> mark[k].arm, val |-> Source(cell, Copy(Only(k)))]>>
         /\ Source(cell, Move(Only(k))) = Source(cell, Copy(Only(k)))
         /\ mark[k] # Absent /\ cell[Only(k)].arm = mark[k].arm /\ Only(k) \in Places
<1> DEFINE c == cell[Only(k)]
<1>1. Now \in States /\ Tells(Now, k) /\ Now.mark = mark /\ Now.cell = cell
  BY InPlaceStates, AllTell DEF Now
<1>2. mark[k] # Absent
  BY DEF Absent
<1>3. mark[k].at = k
  BY <1>1, <1>2, OwnMarksFit DEF Tells
<1>4. Only(k) \in Places /\ Only(k) = <<k, 0>> /\ 0 \in 0..MaxCount - 1
  BY OnlyPlace, PlacePairs
<1>5. c.arm = mark[k].arm
  <2>1. cell[<<k, 0>>].arm = ArmAt(mark[k], 0)
    BY <1>1, <1>4 DEF Tells
  <2> QED
    BY <1>4, <2>1 DEF ArmAt
<1>6. c \in Cells
  BY <1>1, <1>4 DEF States
<1>7. c = [arm |-> mark[k].arm, val |-> c.val]
  BY <1>5, <1>6, ObjectIs
<1>8. Source(cell, Copy(Only(k))) = c.val /\ Source(cell, Move(Only(k))) = c.val
  BY DEF Source, Copy, Move
<1>9. LivingIn(Now, mark[k]) = <<c>>
  <2>1. LivingIn(Now, mark[k]) = <<Now.cell[<<mark[k].at, 0>>]>>
    BY FewLive
  <2> QED
    BY <1>1, <1>3, <1>4, <2>1
<1>10. Contents[k] = <<c>>
  BY <1>1, <1>2, <1>9, ContentsAreHeld DEF HeldIn
<1> HIDE DEF c
<1> QED
  BY <1>2, <1>4, <1>5, <1>7, <1>8, <1>10 DEF c

\* What an owner holds of which nothing is left.
Nothing(m) == IF m = Absent THEN None ELSE <<>>

\* So it is when it has been emptied, and the others hold what they held.
LEMMA VacatedHeld ==
  ASSUME ~OnHeap, NEW st \in AllSettled(Null), NEW o \in Owners, NEW m, m.n = 0,
         NEW e, Vacated(st, o, m, e)
  PROVE  HeldIn(e)[o] = Nothing(m) /\ \A k \in Owners : k # o => HeldIn(e)[k] = HeldIn(st)[k]
<1>1. HeldIn(e)[o] = Nothing(m)
  <2>1. LivingIn(e, m) = <<>>
    BY FewLive
  <2>2. e.mark[o] = m
    BY DEF Vacated
  <2> QED
    BY <2>1, <2>2 DEF HeldIn, Nothing
<1>2. ASSUME NEW k \in Owners, k # o PROVE HeldIn(e)[k] = HeldIn(st)[k]
  <2> DEFINE some == {}
  <2>1. Ones(st, some) /\ Only(k) \notin some
    BY DEF Ones
  <2>2. e.mark[k] = st.mark[k]
    BY <1>2 DEF Vacated
  <2>3. \A q \in Places : q[1] = k =>
          e.cell[q] = IF q \in some THEN [st.cell[q] EXCEPT !.val = Moved] ELSE st.cell[q]
    BY <1>2 DEF Vacated
  <2> HIDE DEF some
  <2> QED
    BY <2>1, <2>2, <2>3, KeptHeld
<1> QED
  BY <1>1, <1>2

\* An owner is left without objects.
LEMMA VacatedIsOk ==
  ASSUME AtRest, class \in {"expected", "optional", "inplace_vector"}, Now \in AllSettled(loose),
         NEW r, Asked(r), NEW st \in AllSettled(Null), UpTo(r, st), NEW m, m.n = 0,
         NEW e \in AllSettled(Null), Vacated(st, r.o, m, e)
  PROVE  /\ UpTo(r, e) /\ HeldIn(e)[r.o] = Nothing(m)
         /\ Promise!Becomes(r) = Nothing(m) /\ (r.x # r.o => Other(r) = Contents[r.x]) =>
              e \in OkEnds(r, Null)
<1>1. r.o \in Owners /\ r.x \in Owners /\ ~OnHeap
  BY DEF Asked, OnHeap
<1>2. /\ HeldIn(e)[r.o] = Nothing(m)
      /\ \A k \in Owners : k # r.o => HeldIn(e)[k] = HeldIn(st)[k]
  BY <1>1, VacatedHeld
<1>3. UpTo(r, e)
  BY <1>1, <1>2 DEF UpTo, OthersSame, Vacated
<1> QED
  BY <1>2, <1>3, EndsInPlace DEF UpTo

\* A discriminator is written, and nothing is destroyed.
LEMMA MarkedVacates ==
  \A st, o, m, e : Marked(st, o, m, e) => Vacated(st, o, m, e)
BY DEF Marked, Vacated

\* An owner without objects holds none.
LEMMA HeldNone ==
  ASSUME NEW k \in Owners, mark[k].n = 0, mark[k] # Absent
  PROVE  Contents[k] = <<>>
<1>1. LivingIn(Now, mark[k]) = <<>> /\ Now.mark = mark
  BY FewLive DEF Now
<1> QED
  BY <1>1, ContentsAreHeld DEF HeldIn

-----------------------------------------------------------------------------
(* Calls of the owners that keep their objects in themselves               *)

\* What is there to be copied or moved.
LEMMA ArgIsThere ==
  ASSUME NEW st, NEW v \in Values, NEW arm
  PROVE  There(st, Arg(v), arm)
BY DEF There, Arg

\* Likewise, in a place.
LEMMA PlaceIsThere ==
  ASSUME NEW st, NEW p \in Places, NEW arm, st.cell[p].arm = arm
  PROVE  /\ There(st, Copy(p), arm) /\ Copy(p).by # "arg"
         /\ There(st, Move(p), arm) /\ Move(p).by # "arg"
BY DEF There, Copy, Move

\* An expected has one object.
LEMMA ExpectedHolds ==
  ASSUME class = "expected", Now \in AllSettled(Null), NEW o \in Owners
  PROVE  /\ ~OnHeap /\ Absent \in OwnMarks(o) /\ Absent.n = 0
         /\ \A arm \in Kinds : Holds(o, arm, 1) \in OwnMarks(o)
         /\ mark[o] # Absent =>
              /\ mark[o].arm \in Kinds /\ mark[o].n = 1 /\ mark[o] = Holds(o, mark[o].arm, 1)
              /\ Only(o) \in Places /\ cell[Only(o)].arm = mark[o].arm
<1>1. ~OnHeap
  BY DEF OnHeap
<1>2. Absent \in OwnMarks(o) /\ Absent.n = 0 /\ \A arm \in Kinds : Holds(o, arm, 1) \in OwnMarks(o)
  BY DEF OwnMarks, Absent
<1>3. Tells(Now, o)
  BY <1>1, InPlaceStates, AllTell
<1>4. ASSUME mark[o] # Absent
      PROVE  /\ mark[o].arm \in Kinds /\ mark[o].n = 1 /\ mark[o] = Holds(o, mark[o].arm, 1)
             /\ Only(o) \in Places /\ cell[Only(o)].arm = mark[o].arm
  <2>1. mark[o] \in OwnMarks(o)
    BY <1>3 DEF Tells, Now
  <2>2. PICK arm \in Kinds : mark[o] = Holds(o, arm, 1)
    BY <1>4, <2>1 DEF OwnMarks
  <2>3. mark[o].arm = arm /\ mark[o].n = 1
    BY <2>2 DEF Holds
  <2>4. 0 \in 0..MaxCount - 1
    BY PlacePairs
  <2>5. cell[<<o, 0>>].arm = ArmAt(mark[o], 0)
    BY <1>3, <2>4 DEF Tells, Now
  <2> QED
    BY <2>2, <2>3, <2>5, OnlyPlace DEF ArmAt
<1> QED
  BY <1>1, <1>2, <1>4

\* The new object of an expected is first built in a local variable.
LEMMA StageRuns ==
  ASSUME class = "expected", Now \in AllSettled(Null), NEW o \in Owners, mark[o] # Absent,
         NEW arm \in Kinds, NEW from, There(Now, from, arm), NEW ok, NEW failed,
         \A e \in AllSettled(Null) : Given(Now, o, Holds(o, arm, 1), arm, from, e) => e \in ok
  PROVE  /\ (\A some \in SUBSET Lost(from) : WithLoss(Now, some) \in failed) =>
              Runs(Now, Stage(o, NewOr(<<>>, Local, arm, from), arm), ok, failed)
         /\ Runs(Now, Stage(o, New(Local, arm, from), arm), ok, failed)
<1> DEFINE F == failed
           u == <<>>
           p == Local
<1>1. ~OnHeap /\ Holds(o, arm, 1) \in OwnMarks(o)
  BY ExpectedHolds
<1>2. Now \in States /\ Tells(Now, o) /\ Now.mark = mark /\ Now.cell = cell /\ Now.heap = heap
  BY <1>1, InPlaceStates, AllTell DEF Now
<1>3. p \in Places /\ Now.cell[p].arm = "dead" /\ (p[1] \in Blocks => p[1] \in Now.heap)
  <2>1. 0 \in 0..MaxCount - 1 /\ p = <<Tmp, 0>>
    BY PlacePairs DEF Local, Only
  <2> QED
    BY <1>2, <2>1, OnlyPlace DEF Tells
<1>4. (\A some \in SUBSET Lost(from) : WithLoss(Now, some) \in failed) =>
        \A some \in SUBSET Loses(NewOr(u, p, arm, from)) : Unwinds(WithLoss(Now, some), u, F)
  BY <1>1, <1>2, LosesIs, LossKeepsArms, NoSteps
<1>5. ASSUME NEW first, NEW e \in States, Goes(Now, <<first>>, F, e), Built(Now, p, arm, from, e)
      PROVE  Runs(Now, Stage(o, first, arm), ok, F)
  <2> DEFINE st == Now
  <2>1. /\ st \in AllSettled(Null) /\ st.mark[o] # Absent /\ Goes(st, <<first>>, F, e)
        /\ Built(st, Local, arm, from, e) /\ There(st, from, arm)
        /\ \A x \in AllSettled(Null) : Given(st, o, Holds(o, arm, 1), arm, from, x) => x \in ok
    BY <1>2, <1>5
  <2> HIDE DEF st
  <2>2. Runs(st, <<first>> \o Ends(st.mark[o])
                   \o <<New(Only(o), arm, Move(Local)), Mark(o, Holds(o, arm, 1)), End(Local, arm)>>,
             ok, F)
    BY <1>1, <2>1, DoStage
  <2> QED
    BY <1>2, <2>2 DEF Stage, st
<1> HIDE DEF F, u, p
<1>6. ASSUME \A some \in SUBSET Lost(from) : WithLoss(Now, some) \in failed
      PROVE  Runs(Now, Stage(o, NewOr(u, p, arm, from), arm), ok, F)
  <2>1. PICK e1 \in States : Goes(Now, <<NewOr(u, p, arm, from)>>, F, e1) /\ Built(Now, p, arm, from, e1)
    BY <1>2, <1>3, <1>4, <1>6, DoNewOr
  <2> QED
    BY <1>5, <2>1
<1>7. PICK e2 \in States : Goes(Now, <<New(p, arm, from)>>, F, e2) /\ Built(Now, p, arm, from, e2)
  BY <1>2, <1>3, DoNew
<1> QED
  BY <1>5, <1>6, <1>7 DEF F, u, p

\* No step of a call of expected is illegal, and each way it may end is as
\* documented.
LEMMA ExpectedRuns ==
  ASSUME AtRest, class = "expected", Now \in AllSettled(loose), NEW r, Asked(r)
  PROVE  Runs(Now, ExpectedSteps(r), OkEnds(r, Null), FailEnds(r, Null))
<1> DEFINE O == OkEnds(r, Null)
           F == FailEnds(r, Null)
           o == r.o
           x == r.x
           its == mark[x].arm
<1>1. o \in Owners /\ x \in Owners /\ r.v \in Values
  BY DEF Asked
<1>2. r.op \in {"value", "error", "copy", "move", "destroy", "copy_assign", "move_assign",
                "emplace", "emplace_self"}
  BY DEF Asked, Promise!Constructors, Promise!Methods
<1>3. /\ r.op \in {"value", "error", "copy", "move"} => mark[o] = Absent
      /\ r.op \in {"destroy", "copy_assign", "move_assign", "emplace", "emplace_self"} =>
           mark[o] # Absent
      /\ r.op \in {"copy", "move", "copy_assign", "move_assign"} => mark[x] # Absent
      /\ r.op \notin {"copy", "move", "copy_assign", "move_assign"} => x = o
  BY <1>2 DEF Asked, Promise!Constructors
<1>4. Now \in AllSettled(Null)
  BY NothingLoose
<1>5. /\ ~OnHeap /\ Absent \in OwnMarks(o) /\ Absent.n = 0
      /\ \A arm \in Kinds : Holds(o, arm, 1) \in OwnMarks(o)
      /\ Now.mark = mark /\ Now.cell = cell /\ Now \in States
  BY <1>1, <1>4, ExpectedHolds, InPlaceStates DEF Now
<1>6. ASSUME NEW k \in Owners, mark[k] # Absent
      PROVE  /\ mark[k].arm \in Kinds /\ mark[k].n = 1 /\ mark[k] = Holds(k, mark[k].arm, 1)
             /\ Contents[k] = <<[arm |-> mark[k].arm, val |-> Source(cell, CopyOf(k))]>>
             /\ Source(cell, Move(Only(k))) = Source(cell, CopyOf(k))
             /\ cell[Only(k)].arm = mark[k].arm /\ Only(k) \in Places
             /\ There(Now, CopyOf(k), mark[k].arm) /\ There(Now, Move(Only(k)), mark[k].arm)
             /\ CopyOf(k).by # "arg" /\ Move(Only(k)).by # "arg" /\ CopyOf(k).by # "move"
  <2>1. /\ mark[k].arm \in Kinds /\ mark[k].n = 1 /\ mark[k] = Holds(k, mark[k].arm, 1)
        /\ cell[Only(k)].arm = mark[k].arm /\ Only(k) \in Places
    BY <1>4, <1>6, ExpectedHolds
  <2>2. /\ Contents[k] = <<[arm |-> mark[k].arm, val |-> Source(cell, CopyOf(k))]>>
        /\ Source(cell, Move(Only(k))) = Source(cell, CopyOf(k))
    BY <1>4, <1>5, <2>1, HeldOne DEF CopyOf
  <2>3. /\ There(Now, CopyOf(k), mark[k].arm) /\ There(Now, Move(Only(k)), mark[k].arm)
        /\ CopyOf(k).by # "arg" /\ Move(Only(k)).by # "arg"
    BY <1>5, <2>1, PlaceIsThere DEF CopyOf
  <2> QED
    BY <2>1, <2>2, <2>3 DEF CopyOf, Copy
<1>7. "value" \in Kinds /\ "error" \in Kinds
  BY DEF Kinds
<1> HIDE DEF O, F
<1>8. ASSUME NEW arm \in Kinds, NEW from, There(Now, from, arm), Fits(r, from),
             Promise!Becomes(r) = <<[arm |-> arm, val |-> Source(cell, from)]>>
      PROVE  \A e \in AllSettled(Null) : Given(Now, o, Holds(o, arm, 1), arm, from, e) => e \in O
  <2> DEFINE m == Holds(o, arm, 1)
             st == Now
  <2>1. m \in OwnMarks(o) /\ m.n = 1
    BY <1>5 DEF Holds
  <2>2. UpTo(r, st)
    BY <1>1, NowUpTo
  <2>3. /\ st \in AllSettled(Null) /\ There(st, from, arm)
        /\ Promise!Becomes(r) = <<[arm |-> arm, val |-> Source(st.cell, from)]>>
    BY <1>4, <1>5, <1>8
  <2> HIDE DEF m, st
  <2>4. \A e \in AllSettled(Null) : Given(st, r.o, m, arm, from, e) => e \in OkEnds(r, Null)
    BY <1>8, <2>1, <2>2, <2>3, GivenIsOk
  <2> QED
    BY <2>4 DEF O, m, st
<1>9. /\ Contents[o] \in Promise!Kept(r)
      /\ Promise!SameArm(r) => Promise!Residue(Contents[o]) \in Promise!Kept(r)
  BY DEF Promise!Kept
<1>10. ASSUME NEW from, Fits(r, from), Promise!MayThrow(r)
       PROVE  /\ \A some \in SUBSET Lost(from) : WithLoss(Now, some) \in F
              /\ mark[o].n = 1 /\ Promise!SameArm(r) =>
                   \A some \in SUBSET ({Only(o)} \cup Lost(from)) : WithLoss(Now, some) \in F
  <2> DEFINE st == Now
  <2>1. st \in AllSettled(Null) /\ UpTo(r, st) /\ st.mark = mark /\ HeldIn(st) = Contents
    BY <1>1, <1>4, <1>5, NowUpTo, ContentsAreHeld
  <2> HIDE DEF st
  <2>2. /\ \A some \in SUBSET Lost(from) : WithLoss(st, some) \in F
        /\ mark[o].n = 1 /\ Promise!SameArm(r) =>
             \A some \in SUBSET ({Only(o)} \cup Lost(from)) : WithLoss(st, some) \in F
    BY <1>9, <1>10, <2>1, GiftFails DEF F
  <2> QED
    BY <2>2 DEF st
<1>11. CASE r.op \in {"value", "error"}
  <2>1. ExpectedSteps(r) = Born(o, r.op, Arg(r.v))
    BY <1>11 DEF ExpectedSteps
  <2>2. There(Now, Arg(r.v), r.op) /\ r.op \in Kinds
    BY <1>1, <1>7, <1>11, ArgIsThere
  <2>3. Fits(r, Arg(r.v)) /\ Promise!MayThrow(r)
    BY <1>11 DEF Fits, Arg, Promise!MayThrow
  <2>4. Promise!Becomes(r) = <<[arm |-> r.op, val |-> Source(cell, Arg(r.v))]>>
    BY <1>11 DEF Promise!Becomes, Promise!Thing, Source, Arg
  <2> QED
    BY <1>1, <1>3, <1>4, <1>5, <1>8, <1>10, <1>11, <2>1, <2>2, <2>3, <2>4, DoBorn DEF O, F
<1>12. CASE r.op = "copy"
  <2>1. ExpectedSteps(r) = Born(o, its, CopyOf(x))
    BY <1>12 DEF ExpectedSteps
  <2>2. Fits(r, CopyOf(x)) /\ Promise!MayThrow(r)
    BY <1>12 DEF Fits, CopyOf, Copy, Promise!MayThrow
  <2>3. Promise!Becomes(r) = <<[arm |-> its, val |-> Source(cell, CopyOf(x))]>>
    BY <1>1, <1>3, <1>6, <1>12 DEF Promise!Becomes
  <2>4. mark[x] # Absent /\ mark[o] = Absent
    BY <1>3, <1>12
  <2>5. its \in Kinds /\ There(Now, CopyOf(x), its)
    BY <1>1, <1>6, <2>4
  <2>6. \A e \in AllSettled(Null) : Given(Now, o, Holds(o, its, 1), its, CopyOf(x), e) => e \in O
    BY <1>8, <2>2, <2>3, <2>5
  <2>7. \A some \in SUBSET Lost(CopyOf(x)) : WithLoss(Now, some) \in F
    BY <1>10, <2>2
  <2> HIDE DEF its
  <2> QED
    BY <1>1, <1>4, <1>5, <2>1, <2>4, <2>5, <2>6, <2>7, DoBorn DEF O, F
<1>13. CASE r.op = "move"
  <2>1. ExpectedSteps(r) = <<Mark(o, Holds(o, its, 1)), New(Only(o), its, Move(Only(x)))>>
    BY <1>13 DEF ExpectedSteps
  <2>2. Fits(r, Move(Only(x)))
    BY <1>1, <1>3, <1>6, <1>13 DEF Fits
  <2>3. Promise!Becomes(r) = <<[arm |-> its, val |-> Source(cell, Move(Only(x)))]>>
    BY <1>1, <1>3, <1>6, <1>13 DEF Promise!Becomes
  <2> QED
    BY <1>1, <1>3, <1>4, <1>5, <1>6, <1>8, <1>13, <2>1, <2>2, <2>3, DoBorn DEF O, F
<1>14. CASE r.op = "destroy"
  <2> DEFINE st == Now
  <2>1. ExpectedSteps(r) = Ends(st.mark[o]) \o <<Mark(o, Absent)>>
    BY <1>5, <1>14 DEF ExpectedSteps
  <2>2. st \in AllSettled(Null) /\ UpTo(r, st) /\ st.mark = mark
    BY <1>1, <1>4, <1>5, NowUpTo
  <2> HIDE DEF st
  <2>3. PICK e \in AllSettled(Null) :
          /\ Goes(st, Ends(st.mark[o]) \o <<Mark(o, Absent)>>, F, e)
          /\ Vacated(st, o, Absent, e)
    BY <1>1, <1>3, <1>5, <1>14, <2>2, DoVacate
  <2>4. Promise!Becomes(r) = Nothing(Absent) /\ x = o
    BY <1>3, <1>14 DEF Promise!Becomes, Nothing
  <2>5. e \in O
    BY <1>5, <2>2, <2>3, <2>4, VacatedIsOk DEF O
  <2> QED
    BY <2>1, <2>3, <2>5 DEF Runs, F, O, st
<1>15. CASE r.op \in {"copy_assign", "move_assign"} /\ o = x
  <2>1. ExpectedSteps(r) = <<>>
    BY <1>15 DEF ExpectedSteps
  <2>2. Promise!Becomes(r) = Contents[o]
    BY <1>15 DEF Promise!Becomes
  <2>3. Now \in O
    BY <1>1, <1>4, <1>15, <2>2, NowUpTo, ContentsAreHeld, EndsInPlace DEF O, UpTo
  <2> QED
    BY <1>5, <2>1, <2>3, NoSteps DEF Runs, O
<1>16. ASSUME r.op \in {"copy_assign", "move_assign"}, o # x
       PROVE  /\ Promise!MayThrow(r) /\ (mark[o].arm = its => Promise!SameArm(r))
              /\ mark[o] # Absent /\ mark[x] # Absent /\ mark[o].n = 1
              /\ Promise!Becomes(r) = <<[arm |-> its, val |-> Source(cell, CopyOf(x))]>>
              /\ Promise!Becomes(r) = <<[arm |-> its, val |-> Source(cell, Move(Only(x)))]>>
              /\ r.op = "copy_assign" => Fits(r, CopyOf(x))
              /\ r.op = "move_assign" => Fits(r, Move(Only(x)))
  <2>1. mark[o] # Absent /\ mark[x] # Absent
    BY <1>3, <1>16
  <2>2. Promise!MayThrow(r)
    BY <1>16 DEF Promise!MayThrow, Promise!OnHeap
  <2>3. mark[o].arm = its => Promise!SameArm(r)
    <3>1. ASSUME NEW k \in Owners, mark[k] # Absent
          PROVE  Contents[k] # <<>> /\ Contents[k][1].arm = mark[k].arm
      <4> DEFINE a == [arm |-> mark[k].arm, val |-> Source(cell, CopyOf(k))]
      <4>1. a.arm = mark[k].arm
        OBVIOUS
      <4> HIDE DEF a
      <4>2. Contents[k] = <<a>>
        BY <1>6, <3>1 DEF a
      <4> QED
        BY <4>1, <4>2
    <3>2. /\ Contents[o] # <<>> /\ Contents[x] # <<>>
          /\ Contents[o][1].arm = mark[o].arm /\ Contents[x][1].arm = its
      BY <1>1, <2>1, <3>1
    <3> QED
      BY <1>16, <3>2 DEF Promise!SameArm
  <2>4. Promise!Becomes(r) = Contents[x]
    BY <1>16 DEF Promise!Becomes
  <2>5. r.op = "copy_assign" => Fits(r, CopyOf(x))
    BY <1>1, <1>6, <2>1 DEF Fits
  <2>6. r.op = "move_assign" => Fits(r, Move(Only(x)))
    BY <1>1, <1>6, <1>16, <2>1 DEF Fits
  <2> QED
    BY <1>1, <1>6, <2>1, <2>2, <2>3, <2>4, <2>5, <2>6
<1>17. ASSUME NEW from, There(Now, from, its), from.by # "arg", Fits(r, from),
              r.op \in {"copy_assign", "move_assign"}, o # x,
              Promise!Becomes(r) = <<[arm |-> its, val |-> Source(cell, from)]>>
       PROVE  /\ mark[o].arm = its => Runs(Now, <<Assign(Only(o), its, from)>>, O, F)
              /\ mark[o].arm # its =>
                   /\ Runs(Now, Stage(o, NewOr(<<>>, Local, its, from), its), O, F)
                   /\ Runs(Now, Stage(o, New(Local, its, from), its), O, F)
  <2>1. /\ Promise!MayThrow(r) /\ (mark[o].arm = its => Promise!SameArm(r))
        /\ mark[o] # Absent /\ mark[x] # Absent /\ mark[o].n = 1 /\ its \in Kinds
    BY <1>1, <1>6, <1>16, <1>17
  <2>2. \A e \in AllSettled(Null) : Given(Now, o, Holds(o, its, 1), its, from, e) => e \in O
    BY <1>8, <1>17, <2>1
  <2>3. /\ \A some \in SUBSET Lost(from) : WithLoss(Now, some) \in F
        /\ mark[o].arm = its =>
             \A some \in SUBSET ({Only(o)} \cup Lost(from)) : WithLoss(Now, some) \in F
    BY <1>10, <1>17, <2>1
  <2>4. CASE mark[o].arm = its
    <3> DEFINE st == Now
    <3>1. /\ st \in AllSettled(Null) /\ st.mark[o].n = 1 /\ st.mark[o] = Holds(o, its, 1)
          /\ st.cell[Only(o)].arm = its /\ There(st, from, its)
      BY <1>1, <1>4, <1>5, <1>6, <1>17, <2>1, <2>4
    <3>2. /\ \A e \in AllSettled(Null) : Given(st, o, st.mark[o], its, from, e) => e \in O
          /\ \A some \in SUBSET ({Only(o)} \cup Lost(from)) : WithLoss(st, some) \in F
      BY <2>2, <2>3, <2>4, <3>1
    <3> HIDE DEF st
    <3>3. Runs(st, <<Assign(Only(o), its, from)>>, O, F)
      BY <1>1, <1>5, <1>17, <2>1, <3>1, <3>2, DoReassign
    <3> QED
      BY <2>4, <3>3 DEF st
  <2>5. CASE mark[o].arm # its
    BY <1>1, <1>4, <1>17, <2>1, <2>2, <2>3, <2>5, StageRuns
  <2> QED
    BY <2>4, <2>5
<1>18. CASE r.op = "copy_assign" /\ o # x
  <2>1. ExpectedSteps(r) = IF mark[o].arm = its THEN <<Assign(Only(o), its, CopyOf(x))>>
                           ELSE Stage(o, NewOr(<<>>, Local, its, CopyOf(x)), its)
    BY <1>18 DEF ExpectedSteps
  <2> QED
    BY <1>1, <1>6, <1>16, <1>17, <1>18, <2>1 DEF O, F
<1>19. CASE r.op = "move_assign" /\ o # x
  <2>1. ExpectedSteps(r) = IF mark[o].arm = its THEN <<Assign(Only(o), its, Move(Only(x)))>>
                           ELSE Stage(o, New(Local, its, Move(Only(x))), its)
    BY <1>19 DEF ExpectedSteps
  <2> QED
    BY <1>1, <1>6, <1>16, <1>17, <1>19, <2>1 DEF O, F
<1>20. CASE r.op = "emplace"
  <2>1. ExpectedSteps(r) = Stage(o, NewOr(<<>>, Local, "value", Arg(r.v)), "value")
    BY <1>20 DEF ExpectedSteps
  <2>2. Fits(r, Arg(r.v)) /\ Promise!MayThrow(r)
    BY <1>20 DEF Fits, Arg, Promise!MayThrow
  <2>3. Promise!Becomes(r) = <<[arm |-> "value", val |-> Source(cell, Arg(r.v))]>>
    BY <1>20 DEF Promise!Becomes, Promise!Thing, Source, Arg
  <2> QED
    BY <1>1, <1>3, <1>4, <1>7, <1>8, <1>10, <1>20, <2>1, <2>2, <2>3, ArgIsThere, StageRuns DEF O, F
<1>21. CASE r.op = "emplace_self"
  <2>1. ExpectedSteps(r) = Stage(o, NewOr(<<>>, Local, "value", CopyOf(o)), "value")
    BY <1>21 DEF ExpectedSteps
  <2>2. cell[Only(o)].arm = "value" /\ mark[o] # Absent
    BY <1>3, <1>21 DEF Asked
  <2>3. There(Now, CopyOf(o), "value") /\ mark[o].arm = "value"
    BY <1>1, <1>6, <2>2
  <2>4. Fits(r, CopyOf(o)) /\ Promise!MayThrow(r)
    BY <1>21 DEF Fits, CopyOf, Copy, Promise!MayThrow
  <2>5. Promise!Becomes(r) = <<[arm |-> "value", val |-> Source(cell, CopyOf(o))]>>
    <3>1. Promise!Becomes(r) = Contents[o]
      BY <1>21 DEF Promise!Becomes
    <3> QED
      BY <1>1, <1>6, <2>2, <2>3, <3>1
  <2> QED
    BY <1>1, <1>4, <1>7, <1>8, <1>10, <2>1, <2>2, <2>3, <2>4, <2>5, StageRuns DEF O, F
<1> QED
  BY <1>2, <1>11, <1>12, <1>13, <1>14, <1>15, <1>18, <1>19, <1>20, <1>21 DEF O, F

\* What an optional and a vector may hold.
LEMMA CountedHolds ==
  ASSUME class \in {"optional", "inplace_vector"}, Now \in AllSettled(Null), NEW o \in Owners
  PROVE  LET most == IF class = "optional" THEN 1 ELSE MaxCount
         IN  /\ ~OnHeap /\ Absent \in OwnMarks(o) /\ Absent.n = 0
             /\ most \in 0..MaxCount
             /\ \A n \in 0..most : /\ Holds(o, "value", n) \in OwnMarks(o)
                                   /\ Holds(o, "value", n) # Absent
                                   /\ Holds(o, "value", n).n = n
             /\ mark[o] # Absent =>
                  /\ mark[o].n \in 0..most /\ mark[o] = Holds(o, "value", mark[o].n)
                  /\ \A i \in 0..MaxCount - 1 : i < mark[o].n =>
                       <<o, i>> \in Places /\ cell[<<o, i>>].arm = "value"
<1> DEFINE most == IF class = "optional" THEN 1 ELSE MaxCount
<1>1. ~OnHeap /\ most \in 0..MaxCount
  BY PlacePairs DEF OnHeap
<1>2. OwnMarks(o) = {Absent} \cup {Holds(o, "value", n) : n \in 0..most}
  BY DEF OwnMarks
<1>3. Absent \in OwnMarks(o) /\ Absent.n = 0
  BY DEF OwnMarks, Absent
<1> HIDE DEF most
<1>4. \A n \in 0..most : /\ Holds(o, "value", n) \in OwnMarks(o)
                         /\ Holds(o, "value", n) # Absent
                         /\ Holds(o, "value", n).n = n
  BY <1>2 DEF Holds, Absent
<1>5. ASSUME mark[o] # Absent
      PROVE  /\ mark[o].n \in 0..most /\ mark[o] = Holds(o, "value", mark[o].n)
             /\ \A i \in 0..MaxCount - 1 : i < mark[o].n =>
                  <<o, i>> \in Places /\ cell[<<o, i>>].arm = "value"
  <2>1. Tells(Now, o) /\ Now.mark = mark /\ Now.cell = cell
    BY <1>1, InPlaceStates, AllTell DEF Now
  <2>2. PICK n \in 0..most : mark[o] = Holds(o, "value", n)
    BY <1>2, <1>5, <2>1 DEF Tells
  <2>3. mark[o].n = n /\ mark[o].arm = "value"
    BY <2>2 DEF Holds
  <2>4. \A i \in 0..MaxCount - 1 : <<o, i>> \in Places /\ cell[<<o, i>>].arm = ArmAt(mark[o], i)
    BY <2>1, PlacePairs DEF Tells
  <2> QED
    BY <2>2, <2>3, <2>4 DEF ArmAt
<1> QED
  BY <1>1, <1>3, <1>4, <1>5 DEF most

\* An optional is left disengaged, and nothing else has happened.
LEMMA DoDisengage ==
  ASSUME class = "optional", Now \in AllSettled(Null), NEW o \in Owners, mark[o] # Absent,
         NEW failed
  PROVE  \E end \in AllSettled(Null) :
           /\ Goes(Now, Disengage(o), failed, end)
           /\ Vacated(Now, o, Holds(o, "value", 0), end)
<1> DEFINE F == AllSettled(Null)
           m == Holds(o, "value", 0)
<1>1. ~OnHeap /\ m \in OwnMarks(o) /\ m.n = 0
  <2>1. 0 \in 0..1
    OBVIOUS
  <2> QED
    BY <2>1, CountedHolds
<1>2. Now \in States /\ Now.mark = mark /\ Now.cell = cell
  BY <1>1, InPlaceStates DEF Now
<1>3. CASE mark[o].n = 0
  <2>1. Disengage(o) = <<>> /\ mark[o] = m
    BY <1>3, CountedHolds DEF Disengage
  <2>2. Vacated(Now, o, m, Now)
    BY <1>2, <2>1 DEF Vacated
  <2> QED
    BY <1>2, <2>1, <2>2, NoSteps
<1>4. CASE mark[o].n # 0
  <2>1. Disengage(o) = Ends(mark[o]) \o <<Mark(o, m)>>
    BY <1>4 DEF Disengage
  <2> DEFINE st == Now
  <2>2. st \in F /\ st.mark = mark
    BY <1>2
  <2> HIDE DEF st, m
  <2>3. \E end \in F : /\ Goes(st, Ends(st.mark[o]) \o <<Mark(o, m)>>, failed, end)
                       /\ Vacated(st, o, m, end)
    BY <1>1, <2>2, DoVacate
  <2> QED
    BY <2>1, <2>2, <2>3 DEF st, m
<1> QED
  BY <1>3, <1>4

\* An optional is emptied, and filled if nothing throws.
LEMMA EmplaceRuns ==
  ASSUME AtRest, class = "optional", Now \in AllSettled(loose), NEW r, Asked(r),
         mark[r.o] # Absent, NEW from, There(Now, from, "value"), Fits(r, from),
         from.by # "arg" => from.of[1] # r.o,
         Promise!MayThrow(r), <<>> \in Promise!Kept(r),
         Promise!Becomes(r) = <<[arm |-> "value", val |-> Source(cell, from)]>>
  PROVE  Runs(Now, Emplace(r.o, from), OkEnds(r, Null), FailEnds(r, Null))
<1> DEFINE O == OkEnds(r, Null)
           F == FailEnds(r, Null)
           o == r.o
           m == Holds(o, "value", 0)
           w == Holds(o, "value", 1)
           rest == <<NewOr(<<>>, Only(o), "value", from), Mark(o, Holds(o, "value", 1))>>
<1>1. o \in Owners /\ r.x \in Owners /\ Now \in AllSettled(Null) /\ Now.cell = cell
  BY NothingLoose DEF Asked, Now
<1>2. ~OnHeap /\ w \in OwnMarks(o) /\ w.n = 1 /\ m.n = 0 /\ m # Absent
  <2>1. 1 \in 0..1 /\ 0 \in 0..1
    OBVIOUS
  <2> QED
    BY <1>1, <2>1, CountedHolds
<1> HIDE DEF O, F, m, w, o
<1>3. PICK e \in AllSettled(Null) : Goes(Now, Disengage(o), F, e) /\ Vacated(Now, o, m, e)
  BY <1>1, DoDisengage DEF m, o
<1>4. There(e, from, "value") /\ Source(e.cell, from) = Source(cell, from)
  BY <1>1, <1>3 DEF There, Vacated, Source, o
<1>5. UpTo(r, e) /\ HeldIn(e)[o] = <<>>
  <2> DEFINE st == Now
  <2>1. st \in AllSettled(Null) /\ UpTo(r, st) /\ Vacated(st, r.o, m, e)
    BY <1>1, <1>3, NowUpTo DEF o
  <2> HIDE DEF st
  <2> QED
    BY <1>2, <2>1, VacatedIsOk DEF Nothing, o
<1>6. \A x \in AllSettled(Null) : Given(e, o, w, "value", from, x) => x \in O
  BY <1>2, <1>4, <1>5, GivenIsOk DEF O, o
<1>7. \A some \in SUBSET Lost(from) : WithLoss(e, some) \in F
  BY <1>5, GiftFails DEF F, o
<1>8. Runs(e, rest, O, F)
  <2>1. e.mark[o] = m /\ 0 \in 0..MaxCount - 1 /\ 0 + 1 = 1 /\ Only(o) = <<o, 0>>
    BY <1>1, <1>3, OnlyPlace, PlacePairs DEF Vacated
  <2>2. Runs(e, <<NewOr(<<>>, <<o, 0>>, "value", from), Mark(o, Holds(o, "value", 0 + 1))>>, O, F)
    BY <1>1, <1>2, <1>4, <1>6, <1>7, <2>1, DoGrow DEF m, w
  <2> QED
    BY <2>1, <2>2
<1> HIDE DEF rest
<1>9. PICK end \in O : Goes(e, rest, F, end)
  BY <1>8 DEF Runs
<1>10. Goes(Now, Disengage(o) \o rest, F, end)
  BY <1>3, <1>9, GoOn
<1> QED
  BY <1>9, <1>10 DEF Emplace, Runs, O, F, rest, o

\* No step of a call of optional is illegal, and each way it may end is as
\* documented.
LEMMA OptionalRuns ==
  ASSUME AtRest, class = "optional", Now \in AllSettled(loose), NEW r, Asked(r)
  PROVE  Runs(Now, OptionalSteps(r), OkEnds(r, Null), FailEnds(r, Null))
<1> DEFINE O == OkEnds(r, Null)
           F == FailEnds(r, Null)
           o == r.o
           x == r.x
           from == IF r.op \in {"copy", "copy_assign"} THEN Copy(Only(x)) ELSE Move(Only(x))
           m == Holds(o, "value", 0)
           w == Holds(o, "value", 1)
<1>1. o \in Owners /\ x \in Owners /\ r.v \in Values
  BY DEF Asked
<1>2. r.op \in {"empty", "value", "copy", "move", "destroy", "copy_assign", "move_assign",
                "emplace", "reset"}
  BY DEF Asked, Promise!Constructors, Promise!Methods
<1>3. /\ r.op \in {"empty", "value", "copy", "move"} => mark[o] = Absent
      /\ r.op \in {"destroy", "copy_assign", "move_assign", "emplace", "reset"} => mark[o] # Absent
      /\ r.op \in {"copy", "move", "copy_assign", "move_assign"} => mark[x] # Absent
      /\ r.op \notin {"copy", "move", "copy_assign", "move_assign"} => x = o
  BY <1>2 DEF Asked, Promise!Constructors
<1>4. Now \in AllSettled(Null) /\ ~OnHeap /\ Now.mark = mark /\ Now.cell = cell /\ Now \in States
  <2>1. Now \in AllSettled(Null) /\ ~OnHeap
    BY NothingLoose DEF OnHeap
  <2> QED
    BY <2>1, InPlaceStates DEF Now
<1>5. /\ Absent \in OwnMarks(o) /\ Absent.n = 0 /\ m \in OwnMarks(o) /\ m.n = 0 /\ m # Absent
      /\ w \in OwnMarks(o) /\ w.n = 1 /\ "value" \in Kinds /\ Nothing(m) = <<>>
  <2>1. 0 \in 0..1 /\ 1 \in 0..1
    OBVIOUS
  <2> QED
    BY <1>1, <1>4, <2>1, CountedHolds DEF Kinds, Nothing
<1>6. ASSUME NEW k \in Owners, mark[k] # Absent
      PROVE  /\ mark[k].n \in 0..1 /\ mark[k] = Holds(k, "value", mark[k].n)
             /\ mark[k].n # 1 => Contents[k] = <<>>
             /\ mark[k].n = 1 =>
                  /\ Contents[k] = <<[arm |-> "value", val |-> Source(cell, Copy(Only(k)))]>>
                  /\ Source(cell, Move(Only(k))) = Source(cell, Copy(Only(k)))
                  /\ cell[Only(k)].arm = "value" /\ Only(k) \in Places
  <2>1. mark[k].n \in 0..1 /\ mark[k] = Holds(k, "value", mark[k].n)
    BY <1>4, <1>6, CountedHolds
  <2>2. mark[k].arm = "value"
    BY <2>1 DEF Holds
  <2>3. mark[k].n # 1 => Contents[k] = <<>>
    <3>1. mark[k].n # 1 => mark[k].n = 0
      BY <2>1
    <3> QED
      BY <1>6, <3>1, HeldNone
  <2> QED
    BY <1>4, <1>6, <2>1, <2>2, <2>3, HeldOne
<1>7. \A k \in Owners : mark[k].n = 1 => mark[k] # Absent
  BY DEF Absent
<1>8. ASSUME mark[x].n = 1, r.op \in {"copy", "move", "copy_assign", "move_assign"}, x # o
      PROVE  /\ There(Now, from, "value") /\ from.by # "arg" /\ from.of[1] = x /\ Fits(r, from)
             /\ Contents[x] = <<[arm |-> "value", val |-> Source(cell, from)]>>
             /\ Promise!MayThrow(r)
  <2>1. /\ Only(x) \in Places /\ Now.cell[Only(x)].arm = "value"
        /\ Contents[x] = <<[arm |-> "value", val |-> Source(cell, Copy(Only(x)))]>>
        /\ Source(cell, Move(Only(x))) = Source(cell, Copy(Only(x)))
    BY <1>1, <1>4, <1>6, <1>7, <1>8
  <2>2. Copy(Only(x)).of[1] = x /\ Move(Only(x)).of[1] = x /\ Copy(Only(x)).by # "move"
    BY DEF Copy, Move, Only
  <2>3. There(Now, from, "value") /\ from.by # "arg"
    BY <2>1, PlaceIsThere
  <2>4. Promise!MayThrow(r)
    BY <1>8 DEF Promise!MayThrow, Promise!OnHeap
  <2>5. Fits(r, from)
    BY <1>8, <2>2 DEF Fits
  <2> QED
    BY <2>1, <2>2, <2>3, <2>4, <2>5
<1>9. r.op \in {"copy", "move"} => x # o
  BY <1>3
<1> HIDE DEF from, m, w, O, F, x
<1>10. UpTo(r, Now) /\ HeldIn(Now) = Contents
  BY <1>1, NowUpTo, ContentsAreHeld DEF x
<1>11. ASSUME NEW e \in AllSettled(Null), NEW u, u.n = 0, Vacated(Now, o, u, e)
       PROVE  /\ UpTo(r, e) /\ HeldIn(e)[o] = Nothing(u)
              /\ Promise!Becomes(r) = Nothing(u) /\ (x # o => Other(r) = Contents[x]) => e \in O
  <2> DEFINE st == Now
  <2>1. st \in AllSettled(Null) /\ UpTo(r, st) /\ Vacated(st, r.o, u, e)
    BY <1>4, <1>10, <1>11
  <2> HIDE DEF st
  <2> QED
    BY <1>11, <2>1, VacatedIsOk DEF O, x
<1>12. ASSUME NEW gift, There(Now, gift, "value"), Fits(r, gift), Promise!MayThrow(r),
              Promise!Becomes(r) = <<[arm |-> "value", val |-> Source(cell, gift)]>>,
              Contents[o] \in Promise!Kept(r)
       PROVE  /\ \A e \in AllSettled(Null) : Given(Now, o, w, "value", gift, e) => e \in O
              /\ \A some \in SUBSET Lost(gift) : WithLoss(Now, some) \in F
              /\ mark[o].n = 1 /\ Promise!Residue(Contents[o]) \in Promise!Kept(r) =>
                   \A some \in SUBSET ({Only(o)} \cup Lost(gift)) : WithLoss(Now, some) \in F
  <2> DEFINE st == Now
  <2>1. st \in AllSettled(Null) /\ UpTo(r, st) /\ st.mark = mark /\ HeldIn(st) = Contents
        /\ There(st, gift, "value") /\ Source(cell, gift) = Source(st.cell, gift)
    BY <1>4, <1>10, <1>12
  <2> HIDE DEF st
  <2>2. \A e \in AllSettled(Null) : Given(st, o, w, "value", gift, e) => e \in O
    BY <1>5, <1>12, <2>1, GivenIsOk DEF O
  <2>3. /\ \A some \in SUBSET Lost(gift) : WithLoss(st, some) \in F
        /\ mark[o].n = 1 /\ Promise!Residue(Contents[o]) \in Promise!Kept(r) =>
             \A some \in SUBSET ({Only(o)} \cup Lost(gift)) : WithLoss(st, some) \in F
    BY <1>12, <2>1, GiftFails DEF F
  <2> QED
    BY <2>2, <2>3 DEF st
<1>13. r.op \in Promise!Constructors => Contents[o] \in Promise!Kept(r)
  BY DEF Promise!Kept
<1>14. CASE r.op = "empty"
  <2>1. OptionalSteps(r) = <<Mark(o, m)>>
    BY <1>14 DEF OptionalSteps, m
  <2>2. PICK e \in AllSettled(Null) : Goes(Now, <<Mark(o, m)>>, F, e) /\ Marked(Now, o, m, e)
    BY <1>1, <1>3, <1>4, <1>5, <1>14, DoRemark
  <2>3. Promise!Becomes(r) = <<>> /\ x = o
    BY <1>3, <1>14 DEF Promise!Becomes
  <2>4. e \in O
    BY <1>5, <1>11, <2>2, <2>3, MarkedVacates
  <2> QED
    BY <2>1, <2>2, <2>4 DEF Runs, O, F
<1>15. CASE r.op = "value"
  <2>1. OptionalSteps(r) = Born(o, "value", Arg(r.v))
    BY <1>15 DEF OptionalSteps
  <2>2. Fits(r, Arg(r.v)) /\ Promise!MayThrow(r) /\ r.op \in Promise!Constructors
    BY <1>15 DEF Fits, Arg, Promise!MayThrow, Promise!Constructors
  <2>3. Promise!Becomes(r) = <<[arm |-> "value", val |-> Source(cell, Arg(r.v))]>>
    BY <1>15 DEF Promise!Becomes, Promise!Thing, Source, Arg
  <2>4. There(Now, Arg(r.v), "value")
    BY <1>1, ArgIsThere
  <2>5. /\ \A e \in AllSettled(Null) : Given(Now, o, w, "value", Arg(r.v), e) => e \in O
        /\ \A some \in SUBSET Lost(Arg(r.v)) : WithLoss(Now, some) \in F
    BY <1>12, <1>13, <2>2, <2>3, <2>4
  <2> QED
    BY <1>1, <1>3, <1>4, <1>5, <1>15, <2>1, <2>4, <2>5, DoBorn DEF O, F, w
<1>16. CASE r.op \in {"copy", "move"}
  <2>1. OptionalSteps(r) = IF mark[x].n = 1 THEN Born(o, "value", from) ELSE <<Mark(o, m)>>
    BY <1>16 DEF OptionalSteps, from, m, x
  <2>2. Promise!Becomes(r) = Contents[x] /\ r.op \in Promise!Constructors
    BY <1>16 DEF Promise!Becomes, Promise!Constructors, x
  <2>3. CASE mark[x].n = 1
    <3>1. /\ There(Now, from, "value") /\ Fits(r, from) /\ Promise!MayThrow(r)
          /\ Promise!Becomes(r) = <<[arm |-> "value", val |-> Source(cell, from)]>>
      BY <1>8, <1>9, <1>16, <2>2, <2>3
    <3>2. /\ \A e \in AllSettled(Null) : Given(Now, o, w, "value", from, e) => e \in O
          /\ \A some \in SUBSET Lost(from) : WithLoss(Now, some) \in F
      BY <1>12, <1>13, <2>2, <3>1
    <3> QED
      BY <1>1, <1>3, <1>4, <1>5, <1>16, <2>1, <2>3, <3>1, <3>2, DoBorn DEF O, F, w
  <2>4. CASE mark[x].n # 1
    <3>1. Contents[x] = <<>>
      BY <1>1, <1>3, <1>6, <1>16, <2>4 DEF x
    <3>2. Other(r) = Contents[x]
      BY <1>4, <1>16, <3>1, ResidueIs DEF Other, x
    <3>3. PICK e \in AllSettled(Null) : Goes(Now, <<Mark(o, m)>>, F, e) /\ Marked(Now, o, m, e)
      BY <1>1, <1>3, <1>4, <1>5, <1>16, DoRemark
    <3>4. e \in O
      BY <1>5, <1>11, <2>2, <3>1, <3>2, <3>3, MarkedVacates
    <3> QED
      BY <2>1, <2>4, <3>3, <3>4 DEF Runs, O, F
  <2> QED
    BY <2>3, <2>4
<1>17. CASE r.op = "destroy"
  <2>1. OptionalSteps(r) = Disengage(o) \o <<Mark(o, Absent)>>
    BY <1>17 DEF OptionalSteps
  <2>2. PICK e \in AllSettled(Null) : Goes(Now, Disengage(o), F, e) /\ Vacated(Now, o, m, e)
    BY <1>1, <1>3, <1>4, <1>17, DoDisengage DEF m
  <2>3. e.mark[o].n = 0 /\ UpTo(r, e)
    BY <1>5, <1>11, <2>2 DEF Vacated
  <2>4. PICK end \in AllSettled(Null) :
          Goes(e, <<Mark(o, Absent)>>, F, end) /\ Marked(e, o, Absent, end)
    BY <1>1, <1>4, <1>5, <2>3, DoRemark
  <2>5. Promise!Becomes(r) = Nothing(Absent) /\ x = o
    BY <1>3, <1>17 DEF Promise!Becomes, Nothing
  <2>6. end \in O
    BY <1>5, <2>3, <2>4, <2>5, MarkedVacates, VacatedIsOk DEF O, x
  <2>7. Goes(Now, Disengage(o) \o <<Mark(o, Absent)>>, F, end)
    BY <2>2, <2>4, GoOn
  <2> QED
    BY <2>1, <2>6, <2>7 DEF Runs, O, F
<1>18. CASE r.op = "reset"
  <2>1. OptionalSteps(r) = Disengage(o)
    BY <1>18 DEF OptionalSteps
  <2>2. PICK e \in AllSettled(Null) : Goes(Now, Disengage(o), F, e) /\ Vacated(Now, o, m, e)
    BY <1>1, <1>3, <1>4, <1>18, DoDisengage DEF m
  <2>3. Promise!Becomes(r) = <<>> /\ x = o
    BY <1>3, <1>18 DEF Promise!Becomes
  <2>4. e \in O
    BY <1>5, <1>11, <2>2, <2>3
  <2> QED
    BY <2>1, <2>2, <2>4 DEF Runs, O, F
<1>19. CASE r.op = "emplace"
  <2>1. OptionalSteps(r) = Emplace(o, Arg(r.v))
    BY <1>19 DEF OptionalSteps
  <2>2. There(Now, Arg(r.v), "value") /\ Arg(r.v).by = "arg"
    BY <1>1, ArgIsThere DEF Arg
  <2>3. Fits(r, Arg(r.v)) /\ Promise!MayThrow(r)
    BY <1>19 DEF Fits, Arg, Promise!MayThrow
  <2>4. Promise!Becomes(r) = <<[arm |-> "value", val |-> Source(cell, Arg(r.v))]>>
    BY <1>19 DEF Promise!Becomes, Promise!Thing, Source, Arg
  <2>5. <<>> \in Promise!Kept(r)
    BY <1>19 DEF Promise!Kept, Promise!SameArm, Promise!Constructors
  <2> QED
    BY <1>3, <1>19, <2>1, <2>2, <2>3, <2>4, <2>5, EmplaceRuns DEF O, F
<1>20. CASE r.op \in {"copy_assign", "move_assign"}
  <2>1. OptionalSteps(r) = IF o = x THEN <<>>
                           ELSE IF mark[x].n # 1 THEN Disengage(o)
                           ELSE IF mark[o].n = 1 THEN <<Assign(Only(o), "value", from)>>
                           ELSE Emplace(o, from)
    BY <1>20 DEF OptionalSteps, from, x
  <2>2. Promise!Becomes(r) = Contents[x] /\ x \in Owners /\ mark[x] # Absent /\ mark[o] # Absent
    BY <1>1, <1>3, <1>20 DEF Promise!Becomes, x
  <2>3. CASE o = x
    <3>1. Now \in O
      BY <1>4, <1>10, <2>2, <2>3, EndsInPlace DEF O, UpTo, x
    <3> QED
      BY <1>4, <2>1, <2>3, <3>1, NoSteps DEF Runs, O, F
  <2>4. CASE o # x /\ mark[x].n # 1
    <3>1. Contents[x] = <<>>
      BY <1>6, <2>2, <2>4
    <3>2. Other(r) = Contents[x]
      BY <1>4, <1>20, <3>1, ResidueIs DEF Other, x
    <3>3. PICK e \in AllSettled(Null) : Goes(Now, Disengage(o), F, e) /\ Vacated(Now, o, m, e)
      BY <1>1, <1>4, <2>2, DoDisengage DEF m
    <3>4. e \in O
      BY <1>5, <1>11, <2>2, <3>1, <3>2, <3>3
    <3> QED
      BY <2>1, <2>4, <3>3, <3>4 DEF Runs, O, F
  <2>5. ASSUME o # x, mark[x].n = 1
        PROVE  /\ There(Now, from, "value") /\ from.by # "arg" /\ from.of[1] # o /\ Fits(r, from)
               /\ Promise!MayThrow(r)
               /\ Promise!Becomes(r) = <<[arm |-> "value", val |-> Source(cell, from)]>>
    BY <1>8, <1>20, <2>2, <2>5
  <2>6. CASE o # x /\ mark[x].n = 1 /\ mark[o].n = 1
    <3>1. Promise!SameArm(r)
      <4>1. ASSUME NEW k \in Owners, mark[k] # Absent, mark[k].n = 1
            PROVE  Contents[k] # <<>> /\ Contents[k][1].arm = "value"
        <5> DEFINE a == [arm |-> "value", val |-> Source(cell, Copy(Only(k)))]
        <5>1. a.arm = "value"
          OBVIOUS
        <5> HIDE DEF a
        <5>2. Contents[k] = <<a>>
          BY <1>6, <4>1 DEF a
        <5> QED
          BY <5>1, <5>2
      <4>2. /\ Contents[o] # <<>> /\ Contents[x] # <<>>
            /\ Contents[o][1].arm = "value" /\ Contents[x][1].arm = "value"
        BY <1>1, <2>2, <2>6, <4>1
      <4> QED
        BY <1>20, <4>2 DEF Promise!SameArm, x
    <3>2. Contents[o] \in Promise!Kept(r) /\ Promise!Residue(Contents[o]) \in Promise!Kept(r)
      BY <3>1 DEF Promise!Kept
    <3>3. /\ \A e \in AllSettled(Null) : Given(Now, o, w, "value", from, e) => e \in O
          /\ \A some \in SUBSET ({Only(o)} \cup Lost(from)) : WithLoss(Now, some) \in F
      BY <1>12, <2>5, <2>6, <3>2
    <3> DEFINE st == Now
    <3>4. /\ st \in AllSettled(Null) /\ st.mark[o] = w /\ st.mark[o].n = 1
          /\ st.cell[Only(o)].arm = "value" /\ There(st, from, "value")
      BY <1>1, <1>4, <1>6, <2>2, <2>5, <2>6 DEF w
    <3>5. /\ \A e \in AllSettled(Null) : Given(st, o, st.mark[o], "value", from, e) => e \in O
          /\ \A some \in SUBSET ({Only(o)} \cup Lost(from)) : WithLoss(st, some) \in F
      BY <3>3, <3>4
    <3> HIDE DEF st
    <3>6. Runs(st, <<Assign(Only(o), "value", from)>>, O, F)
      BY <1>1, <1>4, <1>5, <2>5, <2>6, <3>4, <3>5, DoReassign
    <3> QED
      BY <2>1, <2>6, <3>6 DEF st, O, F
  <2>7. CASE o # x /\ mark[x].n = 1 /\ mark[o].n # 1
    <3>1. Contents[o] = <<>>
      BY <1>1, <1>6, <2>2, <2>7
    <3>2. <<>> \in Promise!Kept(r)
      BY <1>20, <3>1 DEF Promise!Kept, Promise!SameArm
    <3> QED
      BY <2>1, <2>2, <2>5, <2>7, <3>2, EmplaceRuns DEF O, F
  <2> QED
    BY <2>3, <2>4, <2>6, <2>7
<1> QED
  BY <1>2, <1>14, <1>15, <1>16, <1>17, <1>18, <1>19, <1>20 DEF O, F

\* The last object of a vector is no longer counted, and then destroyed; the
\* others are as they were.
LEMMA DoShrink ==
  ASSUME class = "inplace_vector", Now \in AllSettled(Null), NEW o \in Owners, mark[o].n > 0,
         NEW failed
  PROVE  \E end \in AllSettled(Null) :
           /\ Goes(Now, <<Mark(o, Holds(o, "value", mark[o].n - 1)),
                          End(<<o, mark[o].n - 1>>, "value")>>, failed, end)
           /\ HeldIn(end)[o] = Promise!Front(HeldIn(Now)[o])
           /\ \A x \in Owners : x # o => HeldIn(end)[x] = HeldIn(Now)[x]
<1> DEFINE F == failed
           n == mark[o].n
           k == n - 1
           m == Holds(o, "value", k)
           p == <<o, k>>
<1>1. /\ Now.mark = mark /\ Now.cell = cell /\ Now \in States /\ ~OnHeap
      /\ SettledInPlace(Now) /\ Tells(Now, o)
  <2>1. ~OnHeap
    BY DEF OnHeap
  <2> QED
    BY <2>1, InPlaceStates, AllTell DEF Now
<1>2. n \in 0..MaxCount /\ mark[o] = Holds(o, "value", n)
  <2>1. mark[o] # Absent
    BY DEF Absent
  <2> QED
    BY <2>1, CountedHolds
<1>3. /\ MaxCount \in Nat /\ n \in Nat /\ k \in 0..MaxCount /\ k \in 0..MaxCount - 1
      /\ \A i \in 0..MaxCount - 1 : (i < n) <=> (i < k \/ i = k)
      /\ ~(k < k)
  <2>1. MaxCount \in Nat
    BY PlacePairs
  <2> QED
    BY <1>2, <2>1
<1>4. m \in OwnMarks(o) /\ m \in MarksOrNone
  <2>1. m \in OwnMarks(o)
    BY <1>3, CountedHolds
  <2> QED
    BY <2>1, OwnMarksFit
<1>5. /\ p \in Places /\ p[1] = o /\ "value" \in Kinds
      /\ \A i \in 0..MaxCount - 1 :
           <<o, i>> \in Places /\ <<Tmp, i>> \in Places /\ <<Tmp, i>> # p /\ (<<o, i>> = p <=> i = k)
  BY <1>3, PlacePairs, Apart DEF Kinds
<1>6. /\ \A i \in 0..MaxCount - 1 : Now.cell[<<Tmp, i>>].arm = "dead"
      /\ \A i \in 0..MaxCount - 1 : Now.cell[<<o, i>>].arm = IF i < n THEN "value" ELSE "dead"
  <2>1. /\ \A i \in 0..MaxCount - 1 : Now.cell[<<Tmp, i>>].arm = "dead"
        /\ \A i \in 0..MaxCount - 1 : Now.cell[<<o, i>>].arm = ArmAt(mark[o], i)
    BY <1>1 DEF Tells
  <2>2. mark[o].arm = "value"
    BY <1>2 DEF Holds
  <2> QED
    BY <2>1, <2>2 DEF ArmAt
<1> HIDE DEF F, n, k, m, p
<1>7. PICK e1 \in States : Goes(Now, <<Mark(o, m)>>, F, e1) /\ Marked(Now, o, m, e1)
  BY <1>1, <1>4, DoMark
<1>8. e1.cell[p].arm = "value"
  BY <1>3, <1>5, <1>6, <1>7 DEF Marked, p
<1>9. PICK e2 \in States : Goes(e1, <<End(p, "value")>>, F, e2) /\ Destroyed(e1, p, e2)
  BY <1>5, <1>8, DoEnd
<1>10. Goes(Now, <<Mark(o, m), End(p, "value")>>, F, e2)
  BY <1>7, <1>9, TwoSteps
<1>11. Within(Now, o, e2)
  BY <1>5, <1>7, <1>9 DEF Within, Marked, Destroyed
<1>12. Tells(e2, o)
  <2>1. ASSUME NEW i \in 0..MaxCount - 1
        PROVE  e2.cell[<<o, i>>].arm = ArmAt(m, i) /\ e2.cell[<<Tmp, i>>].arm = "dead"
    <3>1. ArmAt(m, i) = IF i < k THEN "value" ELSE "dead"
      BY DEF ArmAt, m, Holds
    <3>2. \A q \in Places : e2.cell[q].arm = IF q = p THEN "dead" ELSE Now.cell[q].arm
      BY <1>7, <1>9 DEF Marked, Destroyed
    <3>3. e2.cell[<<Tmp, i>>].arm = "dead"
      BY <1>5, <1>6, <3>2
    <3>4. e2.cell[<<o, i>>].arm = IF i = k THEN "dead" ELSE IF i < n THEN "value" ELSE "dead"
      BY <1>5, <1>6, <3>2
    <3> QED
      BY <1>3, <3>1, <3>3, <3>4
  <2>2. e2.mark[o] = m
    BY <1>7, <1>9 DEF Marked, Destroyed
  <2> QED
    BY <1>4, <2>1, <2>2 DEF Tells
<1>13. e2 \in AllSettled(Null)
  BY <1>1, <1>11, <1>12, Back
<1>14. /\ e2.mark[o] = m /\ \A x \in Owners : x # o => e2.mark[x] = Now.mark[x]
       /\ \A q \in Places : q # p => e2.cell[q] = Now.cell[q]
  BY <1>7, <1>9 DEF Marked, Destroyed
<1>15. HeldIn(e2)[o] = Promise!Front(HeldIn(Now)[o])
  <2> DEFINE st == Now
             w == mark[o]
  <2>1. w.n = n /\ w.at = o /\ w # Absent /\ m.n = k /\ m.at = o /\ m # Absent /\ k = n - 1
    BY <1>2, <1>3 DEF Holds, Absent, m, k, n
  <2>2. /\ HeldIn(e2)[o] = IF m = Absent THEN None ELSE LivingIn(e2, m)
        /\ HeldIn(st)[o] = IF w = Absent THEN None ELSE LivingIn(st, w)
    BY <1>1, <1>14 DEF HeldIn
  <2>3. \A i \in 1..n - 1 : e2.cell[<<o, i - 1>>] = st.cell[<<o, i - 1>>]
    <3> SUFFICES ASSUME NEW i \in 1..n - 1 PROVE e2.cell[<<o, i - 1>>] = st.cell[<<o, i - 1>>]
      OBVIOUS
    <3>1. i - 1 \in 0..MaxCount - 1 /\ i - 1 # k
      BY <1>2, <1>3, <2>1 DEF n
    <3>2. <<o, i - 1>> \in Places /\ <<o, i - 1>> # p
      BY <1>5, <3>1
    <3> QED
      BY <1>14, <3>2
  <2>4. n \in Nat \ {0}
    BY <1>3 DEF n
  <2>5. OneLess(st, e2, w, m)
    BY <2>1, <2>3, <2>4 DEF OneLess
  <2> HIDE DEF w
  <2>6. LivingIn(e2, m) = Promise!Front(LivingIn(st, w))
    BY <2>5, FewerLive
  <2> QED
    BY <2>1, <2>2, <2>6 DEF st
<1>16. ASSUME NEW x \in Owners, x # o PROVE HeldIn(e2)[x] = HeldIn(Now)[x]
  <2> DEFINE some == {}
             st == Now
  <2>1. Ones(st, some) /\ Only(x) \notin some /\ st \in AllSettled(Null)
    BY DEF Ones
  <2>2. e2.mark[x] = st.mark[x]
    BY <1>14, <1>16
  <2>3. \A q \in Places : q[1] = x =>
          e2.cell[q] = IF q \in some THEN [st.cell[q] EXCEPT !.val = Moved] ELSE st.cell[q]
    BY <1>5, <1>14, <1>16
  <2> HIDE DEF some, st
  <2>4. HeldIn(e2)[x] = HeldIn(st)[x]
    BY <1>1, <2>1, <2>2, <2>3, KeptHeld
  <2> QED
    BY <2>4 DEF st
<1> QED
  BY <1>10, <1>13, <1>15, <1>16 DEF F, n, k, m, p

\* How many objects a vector holds, and the first of them.
LEMMA HeldMany ==
  ASSUME ~OnHeap, Now \in AllSettled(Null), NEW k \in Owners, mark[k] # Absent
  PROVE  /\ Len(Contents[k]) = mark[k].n /\ (Contents[k] = <<>> <=> mark[k].n = 0)
         /\ mark[k].n > 0 => Contents[k][1] = cell[Only(k)]
<1> DEFINE n == mark[k].n
           c(i) == cell[<<mark[k].at, i - 1>>]
           s == [i \in 1..n |-> c(i)]
<1>1. Now.mark = mark /\ Now.cell = cell /\ Tells(Now, k)
  BY InPlaceStates, AllTell DEF Now
<1>2. n \in 0..MaxCount /\ mark[k].at = k
  BY <1>1, OwnMarksFit DEF Tells
<1>3. n \in Nat /\ (n # 0 <=> n > 0)
  BY <1>2, PlacePairs
<1>4. Contents[k] = s
  BY DEF Contents, Living
<1>5. 1 - 1 = 0 /\ c(1) = cell[Only(k)]
  BY <1>2 DEF Only
<1> HIDE DEF n, c
<1>6. s \in Seq({c(i) : i \in 1..n}) /\ Len(s) = n
  BY <1>3
<1>7. n > 0 => s[1] = c(1)
  BY <1>3
<1> HIDE DEF s
<1>8. s = <<>> <=> n = 0
  BY <1>6
<1> QED
  BY <1>3, <1>4, <1>5, <1>6, <1>7, <1>8 DEF n

\* A vector that is not full gets one object more, and one that is stays so.
LEMMA PushRuns ==
  ASSUME AtRest, class = "inplace_vector", Now \in AllSettled(loose), NEW r, Asked(r),
         mark[r.o] # Absent, r.op \in {"try_push_back", "push_back", "push_self"},
         NEW from, There(Now, from, "value"), from.by # "move",
         Promise!Becomes(r) =
           IF Promise!Full(r.o) THEN Contents[r.o]
           ELSE Append(Contents[r.o], [arm |-> "value", val |-> Source(cell, from)])
  PROVE  Runs(Now, Push(r.o, from), OkEnds(r, Null), FailEnds(r, Null))
<1> DEFINE O == OkEnds(r, Null)
           F == FailEnds(r, Null)
           o == r.o
           n == mark[o].n
           w == Holds(o, "value", n + 1)
<1>1. /\ o \in Owners /\ r.x = o /\ Now \in AllSettled(Null) /\ ~OnHeap
      /\ Now \in States /\ Now.mark = mark /\ Now.cell = cell
  <2>1. o \in Owners /\ r.x = o
    BY DEF Asked
  <2>2. Now \in AllSettled(Null) /\ ~OnHeap
    BY NothingLoose DEF OnHeap
  <2> QED
    BY <2>1, <2>2, InPlaceStates DEF Now
<1>2. n \in 0..MaxCount /\ mark[o] = Holds(o, "value", n) /\ MaxCount \in Nat
  BY <1>1, CountedHolds, PlacePairs
<1>3. Promise!Full(o) <=> n = MaxCount
  BY <1>1, HeldMany DEF Promise!Full, Held
<1>4. UpTo(r, Now) /\ HeldIn(Now) = Contents
  BY <1>1, NowUpTo, ContentsAreHeld
<1> HIDE DEF O, F
<1>5. CASE n >= MaxCount
  <2>1. Push(o, from) = <<>>
    BY <1>5 DEF Push
  <2>2. Promise!Becomes(r) = Contents[o]
    BY <1>2, <1>3, <1>5
  <2>3. Now \in O
    BY <1>1, <1>4, <2>2, EndsInPlace DEF O, UpTo
  <2> QED
    BY <1>1, <2>1, <2>3, NoSteps DEF Runs, O, F
<1>6. CASE ~(n >= MaxCount)
  <2>1. Push(o, from) = <<NewOr(<<>>, <<o, n>>, "value", from), Mark(o, w)>>
    BY <1>6 DEF Push
  <2>2. n \in 0..MaxCount - 1 /\ n + 1 \in 0..MaxCount /\ n # MaxCount
    BY <1>2, <1>6
  <2>3. w \in OwnMarks(o) /\ w.n = n + 1
    BY <1>1, <2>2, CountedHolds
  <2>4. Promise!Becomes(r) = Append(Contents[o], [arm |-> "value", val |-> Source(cell, from)])
    BY <1>3, <2>2
  <2>5. Fits(r, from) /\ Promise!MayThrow(r) /\ Contents[o] \in Promise!Kept(r)
    BY DEF Fits, Promise!MayThrow, Promise!Kept, Promise!SameArm
  <2> DEFINE st == Now
  <2>6. /\ st \in AllSettled(Null) /\ UpTo(r, st) /\ There(st, from, "value")
        /\ HeldIn(st)[o] \in Promise!Kept(r)
        /\ st.mark[o] # Absent /\ w.n = st.mark[o].n + 1 /\ st.mark[o] = Holds(o, "value", n)
        /\ Promise!Becomes(r) =
             Append(HeldIn(st)[o], [arm |-> "value", val |-> Source(st.cell, from)])
    BY <1>1, <1>2, <1>4, <2>3, <2>4, <2>5
  <2> HIDE DEF st, w, n
  <2>7. \A e \in AllSettled(Null) : Given(st, o, w, "value", from, e) => e \in O
    BY <2>3, <2>5, <2>6, GivenIsOk DEF O
  <2>8. \A some \in SUBSET Lost(from) : WithLoss(st, some) \in F
    BY <2>5, <2>6, GiftFails DEF F
  <2>9. Runs(st, <<NewOr(<<>>, <<o, n>>, "value", from), Mark(o, w)>>, O, F)
    BY <1>1, <2>2, <2>3, <2>6, <2>7, <2>8, DoGrow DEF w
  <2> QED
    BY <2>1, <2>9 DEF st, O, F
<1> QED
  BY <1>5, <1>6

\* No step of a call of a vector is illegal, and each way it may end is as
\* documented.
LEMMA VectorRuns ==
  ASSUME AtRest, class = "inplace_vector", Now \in AllSettled(loose), NEW r, Asked(r)
  PROVE  Runs(Now, VectorSteps(r), OkEnds(r, Null), FailEnds(r, Null))
<1> DEFINE O == OkEnds(r, Null)
           F == FailEnds(r, Null)
           o == r.o
           m == Holds(o, "value", 0)
<1>1. o \in Owners /\ r.v \in Values
  BY DEF Asked
<1>2. r.op \in {"empty", "destroy", "try_push_back", "push_back", "push_self", "pop_back", "clear"}
  BY DEF Asked, Promise!Constructors, Promise!Methods
<1>3. /\ r.op = "empty" => mark[o] = Absent
      /\ r.op # "empty" => mark[o] # Absent
      /\ r.op \in {"pop_back", "push_self"} => mark[o].n > 0
      /\ r.x = o
  BY <1>2 DEF Asked, Promise!Constructors
<1>4. Now \in AllSettled(Null) /\ ~OnHeap /\ Now.mark = mark /\ Now.cell = cell /\ Now \in States
  <2>1. Now \in AllSettled(Null) /\ ~OnHeap
    BY NothingLoose DEF OnHeap
  <2> QED
    BY <2>1, InPlaceStates DEF Now
<1>5. /\ Absent \in OwnMarks(o) /\ Absent.n = 0 /\ m \in OwnMarks(o) /\ m.n = 0
      /\ Nothing(m) = <<>> /\ Nothing(Absent) = None
  <2>1. 0 \in 0..MaxCount
    BY PlacePairs
  <2> QED
    BY <1>1, <1>4, <2>1, CountedHolds DEF Nothing
<1>6. UpTo(r, Now) /\ HeldIn(Now) = Contents
  BY <1>1, <1>3, NowUpTo, ContentsAreHeld
<1> HIDE DEF O, F, m
<1>7. ASSUME NEW e \in AllSettled(Null), NEW u, u.n = 0, Vacated(Now, o, u, e),
             Promise!Becomes(r) = Nothing(u)
      PROVE  e \in O
  <2> DEFINE st == Now
  <2>1. st \in AllSettled(Null) /\ UpTo(r, st) /\ Vacated(st, r.o, u, e)
    BY <1>4, <1>6, <1>7
  <2> HIDE DEF st
  <2> QED
    BY <1>3, <1>7, <2>1, VacatedIsOk DEF O
<1>8. CASE r.op = "empty"
  <2>1. VectorSteps(r) = <<Mark(o, m)>>
    BY <1>8 DEF VectorSteps, m
  <2>2. PICK e \in AllSettled(Null) : Goes(Now, <<Mark(o, m)>>, F, e) /\ Marked(Now, o, m, e)
    BY <1>1, <1>3, <1>4, <1>5, <1>8, DoRemark
  <2>3. Promise!Becomes(r) = Nothing(m)
    BY <1>5, <1>8 DEF Promise!Becomes
  <2>4. e \in O
    BY <1>5, <1>7, <2>2, <2>3, MarkedVacates
  <2> QED
    BY <2>1, <2>2, <2>4 DEF Runs, O, F
<1>9. CASE r.op \in {"try_push_back", "push_back"}
  <2>1. VectorSteps(r) = Push(o, Arg(r.v))
    BY <1>9 DEF VectorSteps
  <2>2. There(Now, Arg(r.v), "value") /\ Arg(r.v).by # "move"
    BY <1>1, ArgIsThere DEF Arg
  <2>3. Promise!Becomes(r) =
          IF Promise!Full(o) THEN Contents[o]
          ELSE Append(Contents[o], [arm |-> "value", val |-> Source(cell, Arg(r.v))])
    BY <1>9 DEF Promise!Becomes, Promise!Thing, Source, Arg
  <2> QED
    BY <1>3, <1>9, <2>1, <2>2, <2>3, PushRuns DEF O, F
<1>10. CASE r.op = "push_self"
  <2>1. VectorSteps(r) = Push(o, Copy(Only(o)))
    BY <1>10 DEF VectorSteps
  <2>2. /\ Only(o) \in Places /\ cell[Only(o)].arm = "value" /\ cell[Only(o)] \in Cells
        /\ mark[o] # Absent /\ mark[o].n > 0
    <3>1. 0 \in 0..MaxCount - 1 /\ 0 < mark[o].n /\ mark[o] # Absent
      BY <1>3, <1>10, PlacePairs
    <3>2. Only(o) \in Places /\ cell[Only(o)].arm = "value"
      BY <1>1, <1>4, <3>1, CountedHolds DEF Only
    <3> QED
      BY <1>4, <3>1, <3>2 DEF States
  <2>3. There(Now, Copy(Only(o)), "value") /\ Copy(Only(o)).by # "move"
    BY <1>4, <2>2, PlaceIsThere DEF Copy
  <2>4. Contents[o][1] = [arm |-> "value", val |-> Source(cell, Copy(Only(o)))]
    <3>1. Contents[o][1] = cell[Only(o)]
      BY <1>1, <1>4, <2>2, HeldMany
    <3>2. cell[Only(o)] = [arm |-> "value", val |-> cell[Only(o)].val]
      BY <2>2, ObjectIs
    <3> QED
      BY <3>1, <3>2 DEF Source, Copy
  <2>5. Promise!Becomes(r) =
          IF Promise!Full(o) THEN Contents[o]
          ELSE Append(Contents[o], [arm |-> "value", val |-> Source(cell, Copy(Only(o)))])
    BY <1>10, <2>4 DEF Promise!Becomes
  <2> QED
    BY <1>10, <2>1, <2>2, <2>3, <2>5, PushRuns DEF O, F
<1>11. CASE r.op = "pop_back"
  <2>1. VectorSteps(r) =
          <<Mark(o, Holds(o, "value", mark[o].n - 1)), End(<<o, mark[o].n - 1>>, "value")>>
    BY <1>11 DEF VectorSteps
  <2>2. PICK e \in AllSettled(Null) :
          /\ Goes(Now, VectorSteps(r), F, e)
          /\ HeldIn(e)[o] = Promise!Front(HeldIn(Now)[o])
          /\ \A k \in Owners : k # o => HeldIn(e)[k] = HeldIn(Now)[k]
    BY <1>1, <1>3, <1>4, <1>11, <2>1, DoShrink
  <2>3. Promise!Becomes(r) = Promise!Front(Contents[o])
    BY <1>11 DEF Promise!Becomes
  <2>4. OthersSame(r, e) /\ HeldIn(e)[o] = Promise!Becomes(r)
    BY <1>6, <2>2, <2>3 DEF OthersSame
  <2>5. e \in O
    BY <1>3, <2>4, EndsInPlace DEF O
  <2> QED
    BY <2>2, <2>5 DEF Runs, O, F
<1>12. CASE r.op \in {"clear", "destroy"}
  <2> DEFINE to == IF r.op = "clear" THEN m ELSE Absent
             st == Now
  <2>1. VectorSteps(r) = Ends(st.mark[o]) \o <<Mark(o, to)>>
    BY <1>4, <1>12 DEF VectorSteps, m
  <2>2. to \in OwnMarks(o) /\ to.n = 0 /\ Promise!Becomes(r) = Nothing(to)
    BY <1>5, <1>12 DEF Promise!Becomes
  <2>3. st \in AllSettled(Null) /\ st.mark[o] # Absent
    BY <1>3, <1>4, <1>12
  <2>4. \A e \in AllSettled(Null) : Vacated(st, o, to, e) => e \in O
    BY <1>7, <2>2
  <2> HIDE DEF to, st
  <2>5. PICK e \in AllSettled(Null) :
          Goes(st, Ends(st.mark[o]) \o <<Mark(o, to)>>, F, e) /\ Vacated(st, o, to, e)
    BY <1>1, <1>4, <2>2, <2>3, DoVacate
  <2> QED
    BY <2>1, <2>4, <2>5 DEF Runs, st, O, F
<1> QED
  BY <1>2, <1>8, <1>9, <1>10, <1>11, <1>12 DEF O, F

-----------------------------------------------------------------------------
(* Lemmas about the owners of blocks                                       *)

\* The discriminators of such an owner.
LEMMA BlockMarksFit ==
  ASSUME OnHeap
  PROVE  /\ Absent \in BlockMarks /\ Null \in BlockMarks /\ Null # Absent
         /\ Absent.at = Nowhere /\ Null.at = Nowhere /\ Absent.n = 0 /\ Null.n = 0
         /\ Counted \subseteq 1..MaxCount
         /\ BlockMarks \subseteq MarksOrNone
         /\ \A b \in Blocks, n \in Counted : Holds(b, "value", n) \in BlockMarks
         /\ \A m \in BlockMarks :
              /\ m # Absent => m \in Marks
              /\ m.at = Nowhere => m.n = 0 /\ m \in {Absent, Null}
              /\ m.at # Nowhere =>
                   /\ m.at \in Blocks /\ m.n \in Counted /\ m.n \in 1..MaxCount /\ m.arm = "value"
                   /\ m = Holds(m.at, "value", m.n) /\ m # Absent
<1>1. Absent \in BlockMarks /\ Null \in BlockMarks /\ Null # Absent
  BY DEF BlockMarks, Null, Absent
<1>2. Absent.at = Nowhere /\ Null.at = Nowhere /\ Absent.n = 0 /\ Null.n = 0
  BY DEF Null, Absent
<1>3. MaxCount \in Nat /\ MaxCount > 0
  BY PlacePairs
<1>4. Counted \subseteq 1..MaxCount
  BY <1>3 DEF Counted
<1>5. \A b \in Blocks, n \in Counted : Holds(b, "value", n) \in BlockMarks
  BY DEF BlockMarks
<1>6. ASSUME NEW m \in BlockMarks
      PROVE  /\ m # Absent => m \in Marks
             /\ m.at = Nowhere => m.n = 0 /\ m \in {Absent, Null}
             /\ m.at # Nowhere =>
                  /\ m.at \in Blocks /\ m.n \in Counted /\ m.n \in 1..MaxCount /\ m.arm = "value"
                  /\ m = Holds(m.at, "value", m.n) /\ m # Absent
  <2>1. CASE m \in {Absent, Null}
    <3>1. Null \in Marks
      BY <1>3 DEF Null, Marks
    <3> QED
      BY <1>2, <2>1, <3>1
  <2>2. CASE m \notin {Absent, Null}
    <3>1. PICK b \in Blocks, n \in Counted : m = Holds(b, "value", n)
      BY <2>2 DEF BlockMarks
    <3>2. m.at = b /\ m.n = n /\ m.arm = "value" /\ b # Nowhere
      BY <3>1, Apart DEF Holds
    <3>3. n \in 0..MaxCount /\ n \in 1..MaxCount
      BY <1>3, <1>4
    <3>4. m \in Marks
      BY <3>1, <3>3 DEF Holds, Marks
    <3> QED
      BY <2>2, <3>1, <3>2, <3>3, <3>4
  <2> QED
    BY <2>1, <2>2
<1>7. BlockMarks \subseteq MarksOrNone
  BY <1>6 DEF MarksOrNone
<1> QED
  BY <1>1, <1>2, <1>4, <1>5, <1>6, <1>7

\* One keeper takes another discriminator; two exchange theirs.
Put(keep, k, m) == [h \in Keepers |-> IF h = k THEN m ELSE keep[h]]
Swapped(keep, k, j) ==
  [h \in Keepers |-> IF h = k THEN keep[j] ELSE IF h = j THEN keep[k] ELSE keep[h]]

\* What is told of blocks by their keepers.
LEMMA KeeperTells ==
  ASSUME NEW st, NEW keep, SettledOnHeap(st, keep), NEW k \in Keepers, keep[k].at # Nowhere
  PROVE  \A i \in 0..MaxCount - 1 : st.cell[<<keep[k].at, i>>].arm = ArmAt(keep[k], i)
BY DEF SettledOnHeap

\* It does not matter who keeps what.
LEMMA Exchange ==
  ASSUME NEW st, NEW keep, SettledOnHeap(st, keep), NEW e, SameArms(st, e), e.heap = st.heap,
         NEW k \in Keepers, NEW j \in Keepers
  PROVE  SettledOnHeap(e, Swapped(keep, k, j))
<1> DEFINE new == Swapped(keep, k, j)
<1>1. /\ keep \in [Keepers -> BlockMarks]
      /\ \A h, g \in Keepers : h # g /\ keep[h].at # Nowhere => keep[h].at # keep[g].at
      /\ \A b \in Blocks : b \in st.heap <=> \E h \in Keepers : keep[h].at = b
      /\ \A h \in Keepers : keep[h].at # Nowhere =>
           \A i \in 0..MaxCount - 1 : st.cell[<<keep[h].at, i>>].arm = ArmAt(keep[h], i)
      /\ \A p \in Places : p[1] \notin st.heap => st.cell[p].arm = "dead"
  BY DEF SettledOnHeap
<1> DEFINE to(h) == IF h = k THEN j ELSE IF h = j THEN k ELSE h
<1>2. \A h \in Keepers : to(h) \in Keepers /\ new[h] = keep[to(h)] /\ to(to(h)) = h
  BY DEF Swapped
<1>3. new \in [Keepers -> BlockMarks]
  BY <1>1 DEF Swapped
<1> HIDE DEF new, to
<1>4. \A h, g \in Keepers : h # g /\ new[h].at # Nowhere => new[h].at # new[g].at
  BY <1>1, <1>2
<1>5. \A b \in Blocks : b \in e.heap <=> \E h \in Keepers : new[h].at = b
  BY <1>1, <1>2
<1>6. \A h \in Keepers : keep[h].at # Nowhere =>
        \A i \in 0..MaxCount - 1 : e.cell[<<keep[h].at, i>>].arm = ArmAt(keep[h], i)
  <2>1. ASSUME NEW h \in Keepers, keep[h].at # Nowhere, NEW i \in 0..MaxCount - 1
        PROVE  e.cell[<<keep[h].at, i>>].arm = ArmAt(keep[h], i)
    <3>1. keep[h].at \in Blocks
      BY <1>1, <2>1, Apart DEF BlockMarks, Absent, Null, Holds
    <3>2. <<keep[h].at, i>> \in Places
      BY <3>1, PlacePairs
    <3> QED
      BY <1>1, <2>1, <3>2 DEF SameArms
  <2> QED
    BY <2>1
<1>7. \A h \in Keepers : new[h].at # Nowhere =>
        \A i \in 0..MaxCount - 1 : e.cell[<<new[h].at, i>>].arm = ArmAt(new[h], i)
  BY <1>2, <1>6
<1>8. \A p \in Places : p[1] \notin e.heap => e.cell[p].arm = "dead"
  BY <1>1 DEF SameArms
<1> QED
  BY <1>3, <1>4, <1>5, <1>7, <1>8 DEF SettledOnHeap, new

\* Who has nothing may have nothing in another way.
LEMMA PutNothing ==
  ASSUME OnHeap, NEW st, NEW keep, SettledOnHeap(st, keep), NEW e, SameArms(st, e),
         e.heap = st.heap, NEW k \in Keepers, keep[k].at = Nowhere, NEW m \in {Absent, Null}
  PROVE  SettledOnHeap(e, Put(keep, k, m))
<1> DEFINE new == Put(keep, k, m)
<1>1. /\ keep \in [Keepers -> BlockMarks]
      /\ \A h, g \in Keepers : h # g /\ keep[h].at # Nowhere => keep[h].at # keep[g].at
      /\ \A b \in Blocks : b \in st.heap <=> \E h \in Keepers : keep[h].at = b
      /\ \A h \in Keepers : keep[h].at # Nowhere =>
           \A i \in 0..MaxCount - 1 : st.cell[<<keep[h].at, i>>].arm = ArmAt(keep[h], i)
      /\ \A p \in Places : p[1] \notin st.heap => st.cell[p].arm = "dead"
  BY DEF SettledOnHeap
<1>2. m \in BlockMarks /\ m.at = Nowhere
  BY BlockMarksFit
<1>3. /\ new \in [Keepers -> BlockMarks]
      /\ \A h \in Keepers : new[h].at = keep[h].at /\ (h # k => new[h] = keep[h])
      /\ \A h \in Keepers : new[h].at # Nowhere => h # k
  BY <1>1, <1>2 DEF Put
<1> HIDE DEF new
<1>4. \A h \in Keepers : keep[h].at # Nowhere =>
        \A i \in 0..MaxCount - 1 : <<keep[h].at, i>> \in Places
  BY <1>1, BlockMarksFit, PlacePairs
<1>5. \A h \in Keepers : new[h].at # Nowhere =>
        \A i \in 0..MaxCount - 1 : e.cell[<<new[h].at, i>>].arm = ArmAt(new[h], i)
  BY <1>1, <1>3, <1>4 DEF SameArms
<1>6. \A h, g \in Keepers : h # g /\ new[h].at # Nowhere => new[h].at # new[g].at
  BY <1>1, <1>3
<1>7. \A b \in Blocks : b \in e.heap <=> \E h \in Keepers : new[h].at = b
  BY <1>1, <1>3
<1>8. \A p \in Places : p[1] \notin e.heap => e.cell[p].arm = "dead"
  BY <1>1 DEF SameArms
<1> QED
  BY <1>3, <1>5, <1>6, <1>7, <1>8 DEF SettledOnHeap, new

\* A block and what lives in it have gone.
LEMMA PutAway ==
  ASSUME OnHeap, NEW st, NEW keep, SettledOnHeap(st, keep), NEW k \in Keepers,
         keep[k].at # Nowhere, NEW e, e.heap = st.heap \ {keep[k].at},
         \A p \in Places : e.cell[p].arm = IF p[1] = keep[k].at THEN "dead" ELSE st.cell[p].arm
  PROVE  SettledOnHeap(e, Put(keep, k, Null))
<1> DEFINE new == Put(keep, k, Null)
           a == keep[k].at
<1>1. /\ keep \in [Keepers -> BlockMarks]
      /\ \A h, g \in Keepers : h # g /\ keep[h].at # Nowhere => keep[h].at # keep[g].at
      /\ \A b \in Blocks : b \in st.heap <=> \E h \in Keepers : keep[h].at = b
      /\ \A h \in Keepers : keep[h].at # Nowhere =>
           \A i \in 0..MaxCount - 1 : st.cell[<<keep[h].at, i>>].arm = ArmAt(keep[h], i)
      /\ \A p \in Places : p[1] \notin st.heap => st.cell[p].arm = "dead"
  BY DEF SettledOnHeap
<1>2. Null \in BlockMarks /\ Null.at = Nowhere /\ \A b \in Blocks : b # Nowhere
  BY BlockMarksFit, Apart
<1>3. /\ new \in [Keepers -> BlockMarks] /\ new[k] = Null
      /\ \A h \in Keepers : h # k => new[h] = keep[h]
  BY <1>1, <1>2 DEF Put
<1> HIDE DEF new
<1>4. \A h \in Keepers : keep[h].at # Nowhere /\ h # k => keep[h].at # a
  BY <1>1
<1>5. \A h \in Keepers : keep[h].at # Nowhere =>
        \A i \in 0..MaxCount - 1 : <<keep[h].at, i>> \in Places /\ <<keep[h].at, i>>[1] = keep[h].at
  BY <1>1, BlockMarksFit, PlacePairs
<1> HIDE DEF a
<1>6. \A h \in Keepers : new[h].at # Nowhere =>
        \A i \in 0..MaxCount - 1 : e.cell[<<new[h].at, i>>].arm = ArmAt(new[h], i)
  <2>1. ASSUME NEW h \in Keepers, new[h].at # Nowhere, NEW i \in 0..MaxCount - 1
        PROVE  e.cell[<<new[h].at, i>>].arm = ArmAt(new[h], i)
    <3>1. h # k /\ new[h] = keep[h] /\ keep[h].at # a /\ keep[h].at # Nowhere
      BY <1>2, <1>3, <1>4, <2>1
    <3>2. e.cell[<<keep[h].at, i>>].arm = st.cell[<<keep[h].at, i>>].arm
      BY <1>5, <3>1 DEF a
    <3> QED
      BY <1>1, <3>1, <3>2
  <2> QED
    BY <2>1
<1>7. \A h, g \in Keepers : h # g /\ new[h].at # Nowhere => new[h].at # new[g].at
  BY <1>1, <1>2, <1>3
<1>8. \A b \in Blocks : b \in e.heap <=> \E h \in Keepers : new[h].at = b
  <2>1. ASSUME NEW b \in Blocks PROVE b \in e.heap <=> \E h \in Keepers : new[h].at = b
    <3>1. CASE b = a
      <4>1. \A h \in Keepers : new[h].at # b
        BY <1>2, <1>3, <1>4, <3>1
      <4> QED
        BY <3>1, <4>1 DEF a
    <3>2. CASE b # a
      <4>1. \A h \in Keepers : keep[h].at = b => h # k
        BY <3>2 DEF a
      <4>2. \A h \in Keepers : new[h].at = b <=> keep[h].at = b
        BY <1>2, <1>3, <4>1
      <4> QED
        BY <1>1, <3>2, <4>2 DEF a
    <3> QED
      BY <3>1, <3>2
  <2> QED
    BY <2>1
<1>9. \A p \in Places : p[1] \notin e.heap => e.cell[p].arm = "dead"
  BY <1>1 DEF a
<1> QED
  BY <1>3, <1>6, <1>7, <1>8, <1>9 DEF SettledOnHeap, new

\* A block has been taken, and objects live in it.
LEMMA PutNew ==
  ASSUME OnHeap, NEW st, NEW keep, SettledOnHeap(st, keep), NEW k \in Keepers,
         keep[k].at = Nowhere, NEW b \in Blocks, b \notin st.heap, NEW n \in Counted,
         NEW e, e.heap = st.heap \cup {b},
         \A p \in Places :
           e.cell[p].arm = IF p[1] = b /\ p[2] < n THEN "value" ELSE st.cell[p].arm
  PROVE  SettledOnHeap(e, Put(keep, k, Holds(b, "value", n)))
<1> DEFINE m == Holds(b, "value", n)
           new == Put(keep, k, m)
<1>1. /\ keep \in [Keepers -> BlockMarks]
      /\ \A h, g \in Keepers : h # g /\ keep[h].at # Nowhere => keep[h].at # keep[g].at
      /\ \A c \in Blocks : c \in st.heap <=> \E h \in Keepers : keep[h].at = c
      /\ \A h \in Keepers : keep[h].at # Nowhere =>
           \A i \in 0..MaxCount - 1 : st.cell[<<keep[h].at, i>>].arm = ArmAt(keep[h], i)
      /\ \A p \in Places : p[1] \notin st.heap => st.cell[p].arm = "dead"
  BY DEF SettledOnHeap
<1>2. m \in BlockMarks /\ m.at = b /\ m.n = n /\ m.arm = "value" /\ b # Nowhere
  BY BlockMarksFit, Apart DEF Holds
<1> HIDE DEF m
<1>3. /\ new \in [Keepers -> BlockMarks] /\ new[k] = m
      /\ \A h \in Keepers : h # k => new[h] = keep[h]
  BY <1>1, <1>2 DEF Put
<1> HIDE DEF new
<1>4. \A h \in Keepers : keep[h].at # b
  BY <1>1
<1>5. \A h \in Keepers : keep[h].at # Nowhere =>
        \A i \in 0..MaxCount - 1 : <<keep[h].at, i>> \in Places /\ <<keep[h].at, i>>[1] = keep[h].at
  BY <1>1, BlockMarksFit, PlacePairs
<1>6. \A h \in Keepers : new[h].at # Nowhere =>
        \A i \in 0..MaxCount - 1 : e.cell[<<new[h].at, i>>].arm = ArmAt(new[h], i)
  <2>1. ASSUME NEW h \in Keepers, new[h].at # Nowhere, NEW i \in 0..MaxCount - 1
        PROVE  e.cell[<<new[h].at, i>>].arm = ArmAt(new[h], i)
    <3>1. CASE h = k
      <4>1. /\ <<b, i>> \in Places /\ <<b, i>>[1] = b /\ <<b, i>>[2] = i
        BY PlacePairs
      <4>2. st.cell[<<b, i>>].arm = "dead"
        BY <1>1, <4>1
      <4>3. e.cell[<<b, i>>].arm = IF i < n THEN "value" ELSE "dead"
        BY <4>1, <4>2
      <4> QED
        BY <1>2, <1>3, <3>1, <4>3 DEF ArmAt
    <3>2. CASE h # k
      <4>1. e.cell[<<keep[h].at, i>>].arm = st.cell[<<keep[h].at, i>>].arm
        BY <1>3, <1>4, <1>5, <2>1, <3>2
      <4> QED
        BY <1>1, <1>3, <2>1, <3>2, <4>1
    <3> QED
      BY <3>1, <3>2
  <2> QED
    BY <2>1
<1>7. \A h, g \in Keepers : h # g /\ new[h].at # Nowhere => new[h].at # new[g].at
  BY <1>1, <1>2, <1>3, <1>4
<1>8. \A c \in Blocks : c \in e.heap <=> \E h \in Keepers : new[h].at = c
  <2>1. ASSUME NEW c \in Blocks PROVE c \in e.heap <=> \E h \in Keepers : new[h].at = c
    <3>1. CASE c = b
      BY <1>2, <1>3, <3>1
    <3>2. CASE c # b
      <4>1. \A h \in Keepers : keep[h].at = c => h # k
        BY <3>2, Apart
      <4>2. \A h \in Keepers : new[h].at = c <=> keep[h].at = c
        BY <1>2, <1>3, <3>2, <4>1
      <4> QED
        BY <1>1, <3>2, <4>2
    <3> QED
      BY <3>1, <3>2
  <2> QED
    BY <2>1
<1>9. \A p \in Places : p[1] \notin e.heap => e.cell[p].arm = "dead"
  BY <1>1
<1> QED
  BY <1>3, <1>6, <1>7, <1>8, <1>9 DEF SettledOnHeap, new, m

\* Where an owner of blocks may be left.
LEMMA HeapStates ==
  ASSUME OnHeap
  PROVE  \A st, l : st \in AllSettled(l) <=>
                      st \in States /\ l # Absent /\ SettledOnHeap(st, Keeping(st, l, Null))
BY DEF AllSettled, Settled

\* The keepers, one by one.
LEMMA KeepingIs ==
  /\ Caller \in Keepers /\ Doomed \in Keepers /\ Owners \subseteq Keepers /\ Caller # Doomed
  /\ \A o \in Owners : o # Caller /\ o # Doomed
  /\ \A st, l, d : /\ Keeping(st, l, d)[Caller] = l /\ Keeping(st, l, d)[Doomed] = d
                   /\ \A o \in Owners : Keeping(st, l, d)[o] = st.mark[o]
BY PlacesAreDistinct DEF Keepers, Keeping, Caller, Doomed

\* A state with the same objects tells the same.
LEMMA KeepsTelling ==
  ASSUME NEW st, NEW keep, SettledOnHeap(st, keep), NEW e, SameArms(st, e), e.heap = st.heap
  PROVE  SettledOnHeap(e, keep)
<1>1. keep \in [Keepers -> BlockMarks]
  BY DEF SettledOnHeap
<1>2. Swapped(keep, Caller, Caller) = keep
  BY <1>1 DEF Swapped
<1> QED
  BY <1>2, Exchange, KeepingIs

\* What is still allocated is as it was.
Leaves(st, e) ==
  e.heap \subseteq st.heap /\ \A p \in Places : p[1] \in e.heap => e.cell[p] = st.cell[p]

\* So it is if no place has changed, or not by two steps in turn.
LEMMA LeavesOn ==
  /\ \A a, b : b.cell = a.cell /\ b.heap = a.heap => Leaves(a, b)
  /\ \A a, b, c : Leaves(a, b) /\ Leaves(b, c) => Leaves(a, c)
BY DEF Leaves

\* The same objects live in a block that has not changed.
LEMMA LivesThere ==
  ASSUME OnHeap, NEW m \in BlockMarks, NEW st, NEW e,
         \A p \in Places : p[1] = m.at => e.cell[p] = st.cell[p]
  PROVE  LivingIn(e, m) = LivingIn(st, m)
<1>1. CASE m.at = Nowhere
  <2>1. m.n = 0
    BY <1>1, BlockMarksFit
  <2> QED
    BY <2>1, FewLive
<1>2. CASE m.at # Nowhere
  <2>1. m.at \in Blocks /\ m.n \in 1..MaxCount /\ MaxCount \in Nat
    BY <1>2, BlockMarksFit, PlacePairs
  <2>2. \A i \in 1..m.n : i - 1 \in 0..MaxCount - 1
    BY <2>1
  <2>3. \A i \in 1..m.n : <<m.at, i - 1>> \in Places /\ <<m.at, i - 1>>[1] = m.at
    BY <2>1, <2>2, PlacePairs
  <2>4. \A i \in 1..m.n : e.cell[<<m.at, i - 1>>] = st.cell[<<m.at, i - 1>>]
    BY <2>3
  <2> QED
    BY <2>4, SameLive
<1> QED
  BY <1>1, <1>2

\* Every object in a block is destroyed, and then the block is freed.
LEMMA DoDelete ==
  ASSUME OnHeap, NEW st \in States, NEW keep, SettledOnHeap(st, keep), NEW k \in Keepers,
         keep[k].at # Nowhere, NEW failed
  PROVE  \E mid, end \in States :
           /\ Goes(st, Ends(keep[k]), failed, mid) /\ Goes(mid, <<Free(keep[k].at)>>, failed, end)
           /\ SettledOnHeap(end, Put(keep, k, Null)) /\ end.mark = st.mark /\ Leaves(st, end)
<1> DEFINE m == keep[k]
           b == m.at
<1>1. m \in BlockMarks /\ (\A c \in Blocks : c \in st.heap <=> \E h \in Keepers : keep[h].at = c)
  BY DEF SettledOnHeap
<1>2. b \in Blocks /\ m.n \in 0..MaxCount /\ m.arm = "value" /\ m.arm \in Kinds
  BY <1>1, BlockMarksFit DEF Kinds
<1>3. b \in st.heap
  BY <1>1, <1>2
<1>4. \A i \in 0..MaxCount - 1 : st.cell[<<b, i>>].arm = IF i < m.n THEN m.arm ELSE "dead"
  BY KeeperTells DEF ArmAt
<1> HIDE DEF m
<1>5. PICK e1 \in States : Goes(st, Ends(m), failed, e1) /\ AllDestroyed(st, m, e1)
  BY <1>2, <1>4, DoEnds
<1>6. \A i \in 0..MaxCount - 1 : <<b, i>> \in Places /\ <<b, i>>[1] = b /\ <<b, i>>[2] = i
  BY <1>2, PlacePairs
<1>7. \A i \in 0..MaxCount - 1 : e1.cell[<<b, i>>].arm = "dead"
  BY <1>4, <1>5, <1>6 DEF AllDestroyed
<1>8. \A p \in Places : e1.cell[p].arm = IF p[1] = b THEN "dead" ELSE st.cell[p].arm
  <2>1. ASSUME NEW p \in Places, p[1] = b PROVE e1.cell[p].arm = "dead"
    <3>1. p = <<b, p[2]>> /\ p[2] \in 0..MaxCount - 1
      BY <2>1, PlacePairs
    <3> QED
      BY <1>7, <3>1
  <2> QED
    BY <1>5, <2>1 DEF AllDestroyed
<1>9. b \in e1.heap
  BY <1>3, <1>5 DEF AllDestroyed
<1> HIDE DEF b
<1>10. PICK e2 \in States : Goes(e1, <<Free(b)>>, failed, e2) /\ Freed(e1, b, e2)
  BY <1>7, <1>9, DoFree
<1>11. /\ e2.heap = st.heap \ {b} /\ e2.mark = st.mark
       /\ \A p \in Places : e2.cell[p].arm = IF p[1] = b THEN "dead" ELSE st.cell[p].arm
  BY <1>5, <1>8, <1>10 DEF AllDestroyed, Freed
<1>12. SettledOnHeap(e2, Put(keep, k, Null))
  BY <1>11, PutAway DEF b, m
<1>13. Leaves(st, e2)
  <2>1. \A p \in Places : p[1] # m.at => e1.cell[p] = st.cell[p]
    BY <1>5 DEF AllDestroyed
  <2> QED
    BY <1>5, <1>10, <1>11, <2>1 DEF Leaves, Freed, b
<1> QED
  BY <1>5, <1>10, <1>11, <1>12, <1>13 DEF b, m

\* What a call is about to delete goes, if it is anything.
LEMMA DoomedGoes ==
  ASSUME OnHeap, NEW e \in States, NEW l, l # Absent, NEW d,
         SettledOnHeap(e, Keeping(e, l, d)), NEW failed
  PROVE  \E end \in AllSettled(l) :
           Goes(e, Delete(d), failed, end) /\ end.mark = e.mark /\ Leaves(e, end)
<1> DEFINE keep == Keeping(e, l, d)
<1>1. keep[Doomed] = d /\ Doomed \in Keepers
  BY KeepingIs
<1>2. ASSUME NEW end, end.mark = e.mark PROVE Keeping(end, l, Null) = Put(keep, Doomed, Null)
  BY <1>2, KeepingIs DEF Keeping, Put
<1> HIDE DEF keep
<1>3. CASE d.at = Nowhere
  <2>1. Delete(d) = <<>>
    BY <1>3 DEF Delete
  <2>2. SettledOnHeap(e, Put(keep, Doomed, Null))
    BY <1>1, <1>3, PutNothing DEF SameArms, keep
  <2>3. e \in AllSettled(l)
    BY <1>2, <2>2, HeapStates
  <2> QED
    BY <2>1, <2>3, NoSteps, LeavesOn
<1>4. CASE d.at # Nowhere
  <2>1. Delete(d) = Ends(d) \o <<Free(d.at)>>
    BY <1>4 DEF Delete
  <2>2. SettledOnHeap(e, keep) /\ keep[Doomed].at # Nowhere
    BY <1>1, <1>4 DEF keep
  <2>3. PICK mid, end \in States :
          /\ Goes(e, Ends(keep[Doomed]), failed, mid)
          /\ Goes(mid, <<Free(keep[Doomed].at)>>, failed, end)
          /\ SettledOnHeap(end, Put(keep, Doomed, Null)) /\ end.mark = e.mark /\ Leaves(e, end)
    BY <1>1, <2>2, DoDelete
  <2>4. Goes(e, Delete(d), failed, end)
    BY <1>1, <2>1, <2>3, GoOn
  <2>5. end \in AllSettled(l)
    BY <1>2, <2>3, HeapStates
  <2> QED
    BY <2>3, <2>4, <2>5
<1> QED
  BY <1>3, <1>4

\* Two discriminators are written.
TwoMarked(st, o, m, x, w, end) ==
  /\ end.mark[x] = w /\ (o # x => end.mark[o] = m)
  /\ \A y \in Owners : y # o /\ y # x => end.mark[y] = st.mark[y]
  /\ end.cell = st.cell /\ end.heap = st.heap

\* So they are.
LEMMA DoTwoMarks ==
  ASSUME NEW st \in States, NEW o \in Owners, NEW m \in MarksOrNone,
         NEW x \in Owners, NEW w \in MarksOrNone, NEW failed
  PROVE  \E end \in States : /\ Goes(st, <<Mark(o, m), Mark(x, w)>>, failed, end)
                             /\ TwoMarked(st, o, m, x, w, end)
<1>1. PICK e1 \in States : Goes(st, <<Mark(o, m)>>, failed, e1) /\ Marked(st, o, m, e1)
  BY DoMark
<1>2. PICK e2 \in States : Goes(e1, <<Mark(x, w)>>, failed, e2) /\ Marked(e1, x, w, e2)
  BY DoMark
<1>3. Goes(st, <<Mark(o, m), Mark(x, w)>>, failed, e2)
  BY <1>1, <1>2, TwoSteps
<1>4. TwoMarked(st, o, m, x, w, e2)
  BY <1>1, <1>2 DEF TwoMarked, Marked
<1> QED
  BY <1>3, <1>4

\* An owner or two have got other marks, and what is still allocated is as it
\* was.
Leads(st, o, m, x, w, end) ==
  /\ end.mark[o] = m /\ (x # o => end.mark[x] = w)
  /\ \A y \in Owners : y # o /\ y # x => end.mark[y] = st.mark[y]
  /\ Leaves(st, end)

\* Steps that do so.
Gets(st, seq, l, failed, o, m, x, w) ==
  \E end \in AllSettled(l) : Goes(st, seq, failed, end) /\ Leads(st, o, m, x, w, end)

\* Nothing is freed where only discriminators are written.
LEMMA MarksLead ==
  /\ \A st, o, m, e : Marked(st, o, m, e) => Leads(st, o, m, o, m, e)
  /\ \A st, o, m, x, w, e : o # x /\ TwoMarked(st, o, m, x, w, e) => Leads(st, o, m, x, w, e)
  /\ \A st, o, m, x, w, e : o # x /\ TwoMarked(st, o, m, x, w, e) => Leads(st, x, w, o, m, e)
  /\ \A st, o, m, e : TwoMarked(st, o, m, o, m, e) => Leads(st, o, m, o, m, e)
BY LeavesOn DEF Leads, Marked, TwoMarked

-----------------------------------------------------------------------------
(* Calls of the owners of blocks                                           *)

\* Owners, the caller and the call are different keepers.
LEMMA KeepersApart ==
  /\ Caller \in Keepers /\ Doomed \in Keepers /\ Owners \subseteq Keepers /\ Caller # Doomed
  /\ \A a \in Owners : a \in Keepers /\ a # Caller /\ a # Doomed
BY KeepingIs

\* What every keeper has.
Everyones(k) == k = [h \in Keepers |-> k[h]]

\* The keepers of a state are those that are named one by one.
LEMMA KeepingOf ==
  ASSUME NEW st, NEW l, NEW d, NEW k, Everyones(k),
         k[Caller] = l, k[Doomed] = d, \A o \in Owners : k[o] = st.mark[o]
  PROVE  Keeping(st, l, d) = k
<1>1. \A h \in Keepers : Keeping(st, l, d)[h] = k[h]
  BY KeepingIs DEF Keepers
<1>2. Keeping(st, l, d) = [h \in Keepers |-> Keeping(st, l, d)[h]]
  BY DEF Keeping
<1> QED
  BY <1>1, <1>2 DEF Everyones

\* What each keeper has when two have exchanged what they had.
HasSwapped(keep, k, j, new) ==
  /\ Everyones(new) /\ new[k] = keep[j] /\ new[j] = keep[k]
  /\ \A h \in Keepers : h # k /\ h # j => new[h] = keep[h]

\* So it is.
LEMMA SwappedIs ==
  ASSUME NEW keep, NEW k \in Keepers, NEW j \in Keepers
  PROVE  HasSwapped(keep, k, j, Swapped(keep, k, j))
BY DEF Swapped, Everyones, HasSwapped

\* What each keeper has when one has been given something.
HasPut(keep, k, m, new) ==
  Everyones(new) /\ new[k] = m /\ \A h \in Keepers : h # k => new[h] = keep[h]

\* So it is.
LEMMA PutIs ==
  ASSUME NEW keep, NEW k \in Keepers, NEW m
  PROVE  HasPut(keep, k, m, Put(keep, k, m))
BY DEF Put, Everyones, HasPut

\* What is known when such a call begins.
LEMMA HeapNow ==
  ASSUME OnHeap, Now \in AllSettled(loose)
  PROVE  LET keep == Keeping(Now, loose, Null)
         IN  /\ Now \in States /\ SettledOnHeap(Now, keep) /\ loose # Absent
             /\ Now.mark = mark /\ Now.cell = cell /\ Now.heap = heap
             /\ keep[Caller] = loose /\ keep[Doomed] = Null /\ Null.at = Nowhere
             /\ \A a \in Owners : /\ keep[a] = mark[a] /\ mark[a] \in BlockMarks
                                  /\ mark[a] \in MarksOrNone
             /\ loose \in BlockMarks /\ Null # Absent /\ Null \in MarksOrNone /\ Absent \in MarksOrNone
<1> DEFINE keep == Keeping(Now, loose, Null)
<1>1. Now \in States /\ SettledOnHeap(Now, keep) /\ loose # Absent
  BY HeapStates
<1>2. Now.mark = mark /\ Now.cell = cell /\ Now.heap = heap
  BY DEF Now
<1>3. keep[Caller] = loose /\ keep[Doomed] = Null /\ \A a \in Owners : keep[a] = mark[a]
  BY <1>2, KeepingIs
<1>4. keep \in [Keepers -> BlockMarks]
  BY <1>1 DEF SettledOnHeap
<1> HIDE DEF keep
<1>5. loose \in BlockMarks /\ \A a \in Owners : mark[a] \in BlockMarks
  BY <1>3, <1>4, KeepingIs
<1>6. /\ Null.at = Nowhere /\ Null # Absent /\ Null \in MarksOrNone /\ Absent \in MarksOrNone
      /\ BlockMarks \subseteq MarksOrNone
  BY BlockMarksFit
<1> QED
  BY <1>1, <1>2, <1>3, <1>5, <1>6 DEF keep

\* Likewise, of any settled state.
LEMMA HeapIs ==
  ASSUME OnHeap, NEW l, NEW st \in AllSettled(l)
  PROVE  LET keep == Keeping(st, l, Null)
         IN  /\ st \in States /\ SettledOnHeap(st, keep) /\ l # Absent
             /\ keep[Caller] = l /\ keep[Doomed] = Null /\ Null \in MarksOrNone
             /\ \A a \in Owners : keep[a] = st.mark[a] /\ st.mark[a] \in MarksOrNone
<1> DEFINE keep == Keeping(st, l, Null)
<1>1. st \in States /\ SettledOnHeap(st, keep) /\ l # Absent
  BY HeapStates
<1>2. keep[Caller] = l /\ keep[Doomed] = Null /\ \A a \in Owners : keep[a] = st.mark[a]
  BY KeepingIs
<1>3. Null \in MarksOrNone /\ \A a \in Owners : st.mark[a] \in MarksOrNone
  BY <1>1, BlockMarksFit DEF States
<1> QED
  BY <1>1, <1>2, <1>3

\* An owner lets go of what it has, which is deleted.
LEMMA DoReplace ==
  ASSUME OnHeap, Now \in AllSettled(loose), NEW o \in Owners, NEW failed
  PROVE  Gets(Now, Replace(o, Null), loose, failed, o, Null, o, Null)
<1> DEFINE keep == Keeping(Now, loose, Null)
<1>1. /\ Now \in States /\ SettledOnHeap(Now, keep) /\ loose # Absent
      /\ Null \in MarksOrNone /\ Now.mark = mark
      /\ keep[o] = mark[o] /\ keep[Doomed] = Null
  BY HeapNow
<1>2. PICK e \in States : Goes(Now, <<Mark(o, Null)>>, failed, e) /\ Marked(Now, o, Null, e)
  BY <1>1, DoMark
<1>3. SameArms(Now, e) /\ e.heap = Now.heap
  BY <1>2 DEF Marked, SameArms
<1> DEFINE new == Swapped(keep, o, Doomed)
<1>4. keep[Caller] = loose /\ \A a \in Owners : keep[a] = mark[a]
  BY HeapNow
<1> HIDE DEF keep
<1>12. /\ Everyones(new) /\ new[o] = keep[Doomed] /\ new[Doomed] = keep[o]
       /\ \A h \in Keepers : h # o /\ h # Doomed => new[h] = keep[h]
  <2>1. HasSwapped(keep, o, Doomed, new)
    BY KeepersApart, SwappedIs
  <2> HIDE DEF new
  <2> QED
    BY <2>1 DEF HasSwapped
<1> HIDE DEF new
<1>9. /\ Everyones(new) /\ new[o] = Null /\ new[Doomed] = mark[o]
      /\ new[Caller] = loose /\ \A a \in Owners : a # o => new[a] = mark[a]
  BY <1>1, <1>4, <1>12, KeepersApart
<1>10. Keeping(e, loose, mark[o]) = new
  BY <1>1, <1>2, <1>9, KeepingOf DEF Marked
<1>5. SettledOnHeap(e, Keeping(e, loose, mark[o]))
  BY <1>1, <1>3, <1>10, Exchange, KeepingIs DEF new
<1>6. PICK end \in AllSettled(loose) : 
        Goes(e, Delete(mark[o]), failed, end) /\ end.mark = e.mark /\ Leaves(e, end)
  BY <1>1, <1>5, DoomedGoes
<1>7. Goes(Now, Replace(o, Null), failed, end)
  BY <1>2, <1>6, GoOn DEF Replace
<1>8. Leads(Now, o, Null, o, Null, end)
  <2>1. Leaves(Now, e)
    BY <1>2, LeavesOn DEF Marked
  <2>2. Leaves(Now, end)
    BY <1>6, <2>1, LeavesOn
  <2> QED
    BY <1>2, <1>6, <2>2 DEF Leads, Marked
<1> QED
  BY <1>6, <1>7, <1>8 DEF Gets

\* unique_ptr takes what another has, or what the caller has.
LEMMA TakeRuns ==
  ASSUME OnHeap, Now \in AllSettled(loose), NEW o \in Owners, NEW x \in Owners, NEW failed
  PROVE  /\ o # x => Gets(Now, <<Mark(x, Null)>> \o Replace(o, mark[x]), loose, failed,
                          o, mark[x], x, Null)
         /\ Gets(Now, Replace(o, loose), Null, failed, o, loose, o, loose)
<1> DEFINE keep == Keeping(Now, loose, Null)
<1>1. /\ Now \in States /\ SettledOnHeap(Now, keep) /\ loose # Absent /\ Null # Absent
      /\ Null \in MarksOrNone /\ Now.mark = mark /\ mark[x] \in MarksOrNone
      /\ keep[o] = mark[o] /\ keep[x] = mark[x] /\ keep[Doomed] = Null /\ keep[Caller] = loose
      /\ loose \in BlockMarks /\ \A a \in Owners : keep[a] = mark[a]
  BY HeapNow
<1>2. loose \in MarksOrNone
  BY <1>1, BlockMarksFit
<1>5. o \in Keepers /\ x \in Keepers
  BY KeepersApart
<1>3. ASSUME o # x
      PROVE  Gets(Now, <<Mark(x, Null)>> \o Replace(o, mark[x]), loose, failed,
                  o, mark[x], x, Null)
  <2>1. PICK e1 \in States : Goes(Now, <<Mark(x, Null)>>, failed, e1) /\ Marked(Now, x, Null, e1)
    BY <1>1, DoMark
  <2>2. PICK e2 \in States : Goes(e1, <<Mark(o, mark[x])>>, failed, e2) /\ Marked(e1, o, mark[x], e2)
    BY <1>1, DoMark
  <2>3. SameArms(Now, e2) /\ e2.heap = Now.heap
    BY <2>1, <2>2 DEF Marked, SameArms
  <2> DEFINE k1 == Swapped(keep, o, x)
         new == Swapped(k1, x, Doomed)
  <2> HIDE DEF keep
  <2>9. SettledOnHeap(Now, k1)
    BY <1>1, Exchange, KeepersApart DEF SameArms
  <2>10. k1[o] = keep[x] /\ k1[x] = keep[o] /\ \A h \in Keepers : h # o /\ h # x => k1[h] = keep[h]
    <3>1. HasSwapped(keep, o, x, k1)
      BY <1>5, SwappedIs
    <3> HIDE DEF k1
    <3> QED
      BY <3>1 DEF HasSwapped
  <2> HIDE DEF k1
  <2>11. /\ Everyones(new) /\ new[x] = k1[Doomed] /\ new[Doomed] = k1[x]
         /\ \A h \in Keepers : h # x /\ h # Doomed => new[h] = k1[h]
    <3>1. HasSwapped(k1, x, Doomed, new)
      BY <1>5, KeepersApart, SwappedIs
    <3> HIDE DEF new
    <3> QED
      BY <3>1 DEF HasSwapped
  <2>12. SettledOnHeap(e2, new)
    BY <2>3, <2>9, Exchange, KeepersApart
  <2> HIDE DEF new
  <2>13. /\ new[x] = Null /\ new[Doomed] = mark[o] /\ new[Caller] = loose /\ new[o] = mark[x]
         /\ \A a \in Owners : a # o /\ a # x => new[a] = mark[a]
    BY <1>1, <1>3, <2>10, <2>11, KeepersApart
  <2>14. \A a \in Owners : e2.mark[a] = new[a]
    BY <1>1, <1>3, <2>1, <2>2, <2>13 DEF Marked
  <2>15. Keeping(e2, loose, mark[o]) = new
    BY <2>11, <2>13, <2>14, KeepingOf
  <2>6. SettledOnHeap(e2, Keeping(e2, loose, mark[o]))
    BY <2>12, <2>15
  <2>7. PICK end \in AllSettled(loose) :
          Goes(e2, Delete(mark[o]), failed, end) /\ end.mark = e2.mark /\ Leaves(e2, end)
    BY <1>1, <2>6, DoomedGoes
  <2>8. Goes(e1, Replace(o, mark[x]), failed, end)
    BY <2>2, <2>7, GoOn DEF Replace
  <2>16. Leads(Now, o, mark[x], x, Null, end)
    <3>1. Leaves(Now, e2)
      BY <2>1, <2>2, LeavesOn DEF Marked
    <3>2. Leaves(Now, end)
      BY <2>7, <3>1, LeavesOn
    <3>3. e2.mark[o] = mark[x] /\ e2.mark[x] = Null
          /\ \A y \in Owners : y # o /\ y # x => e2.mark[y] = Now.mark[y]
      BY <1>3, <2>1, <2>2 DEF Marked
    <3> QED
      BY <2>7, <3>2, <3>3 DEF Leads
  <2>17. Goes(Now, <<Mark(x, Null)>> \o Replace(o, mark[x]), failed, end)
    BY <2>1, <2>8, GoOn
  <2> QED
    BY <2>7, <2>16, <2>17 DEF Gets
<1>4. Gets(Now, Replace(o, loose), Null, failed, o, loose, o, loose)
  <2>1. PICK e \in States : Goes(Now, <<Mark(o, loose)>>, failed, e) /\ Marked(Now, o, loose, e)
    BY <1>1, <1>2, DoMark
  <2>2. SameArms(Now, e) /\ e.heap = Now.heap
    BY <2>1 DEF Marked, SameArms
  <2> DEFINE k1 == Swapped(keep, o, Caller)
         new == Swapped(k1, Caller, Doomed)
  <2> HIDE DEF keep
  <2>9. SettledOnHeap(Now, k1)
    BY <1>1, Exchange, KeepersApart DEF SameArms
  <2>10. /\ k1[o] = keep[Caller] /\ k1[Caller] = keep[o]
         /\ \A h \in Keepers : h # o /\ h # Caller => k1[h] = keep[h]
    <3>1. HasSwapped(keep, o, Caller, k1)
      BY KeepersApart, SwappedIs
    <3> HIDE DEF k1
    <3> QED
      BY <3>1 DEF HasSwapped
  <2> HIDE DEF k1
  <2>11. /\ Everyones(new) /\ new[Caller] = k1[Doomed] /\ new[Doomed] = k1[Caller]
         /\ \A h \in Keepers : h # Caller /\ h # Doomed => new[h] = k1[h]
    <3>1. HasSwapped(k1, Caller, Doomed, new)
      BY KeepersApart, SwappedIs
    <3> HIDE DEF new
    <3> QED
      BY <3>1 DEF HasSwapped
  <2>12. SettledOnHeap(e, new)
    BY <2>2, <2>9, Exchange, KeepersApart
  <2> HIDE DEF new
  <2>13. /\ new[Caller] = Null /\ new[Doomed] = mark[o] /\ new[o] = loose
         /\ \A a \in Owners : a # o => new[a] = mark[a]
    BY <1>1, <2>10, <2>11, KeepersApart
  <2>14. \A a \in Owners : e.mark[a] = new[a]
    BY <1>1, <2>1, <2>13 DEF Marked
  <2>15. Keeping(e, Null, mark[o]) = new
    BY <2>11, <2>13, <2>14, KeepingOf
  <2>5. SettledOnHeap(e, Keeping(e, Null, mark[o]))
    BY <2>12, <2>15
  <2>6. PICK end \in AllSettled(Null) :
          Goes(e, Delete(mark[o]), failed, end) /\ end.mark = e.mark /\ Leaves(e, end)
    BY <1>1, <2>5, DoomedGoes
  <2>7. Goes(Now, Replace(o, loose), failed, end)
    BY <2>1, <2>6, GoOn DEF Replace
  <2>16. Leads(Now, o, loose, o, loose, end)
    <3>1. Leaves(Now, e)
      BY <2>1, LeavesOn DEF Marked
    <3>2. Leaves(Now, end)
      BY <2>6, <3>1, LeavesOn
    <3> QED
      BY <2>1, <2>6, <3>2 DEF Leads, Marked
  <2> QED
    BY <2>6, <2>7, <2>16 DEF Gets
<1> QED
  BY <1>3, <1>4

\* Two owners exchange what they have, or one that has nothing takes it all.
LEMMA SwapRuns ==
  ASSUME OnHeap, NEW l, NEW st \in AllSettled(l), NEW o \in Owners, NEW x \in Owners, NEW failed
  PROVE  /\ Gets(st, <<Mark(o, st.mark[x]), Mark(x, st.mark[o])>>, l, failed,
                 o, st.mark[x], x, st.mark[o])
         /\ st.mark[o].at = Nowhere /\ o # x =>
              /\ Gets(st, <<Mark(o, st.mark[x]), Mark(x, Null)>>, l, failed, o, st.mark[x], x, Null)
              /\ Gets(st, <<Mark(x, Null), Mark(o, st.mark[x])>>, l, failed, o, st.mark[x], x, Null)
<1> DEFINE keep == Keeping(st, l, Null)
           k1 == Put(keep, o, Null)
<1>1. /\ st \in States /\ SettledOnHeap(st, keep) /\ l # Absent
      /\ Null \in MarksOrNone
      /\ st.mark[x] \in MarksOrNone /\ st.mark[o] \in MarksOrNone
      /\ keep[o] = st.mark[o] /\ keep[x] = st.mark[x] /\ keep[Caller] = l /\ keep[Doomed] = Null
      /\ \A a \in Owners : keep[a] = st.mark[a]
  BY HeapIs
<1>5. o \in Keepers /\ x \in Keepers
  BY KeepersApart
<1>2. Gets(st, <<Mark(o, st.mark[x]), Mark(x, st.mark[o])>>, l, failed,
           o, st.mark[x], x, st.mark[o])
  <2>1. PICK e \in States : /\ Goes(st, <<Mark(o, st.mark[x]), Mark(x, st.mark[o])>>, failed, e)
                            /\ TwoMarked(st, o, st.mark[x], x, st.mark[o], e)
    BY <1>1, DoTwoMarks
  <2>2. SameArms(st, e) /\ e.heap = st.heap
    BY <2>1 DEF TwoMarked, SameArms
  <2> DEFINE new == Swapped(keep, o, x)
  <2> HIDE DEF keep
  <2>5. /\ Everyones(new) /\ new[o] = keep[x] /\ new[x] = keep[o]
        /\ \A h \in Keepers : h # o /\ h # x => new[h] = keep[h]
    <3>1. HasSwapped(keep, o, x, new)
      BY <1>5, SwappedIs
    <3> HIDE DEF new
    <3> QED
      BY <3>1 DEF HasSwapped
  <2>6. SettledOnHeap(e, new)
    BY <1>1, <2>2, Exchange, KeepersApart
  <2> HIDE DEF new
  <2>7. new[Caller] = l /\ new[Doomed] = Null
    BY <1>1, <2>5, KeepersApart
  <2>8. \A a \in Owners : e.mark[a] = new[a]
    BY <1>1, <2>1, <2>5, KeepersApart DEF TwoMarked
  <2>9. Keeping(e, l, Null) = new
    BY <2>5, <2>7, <2>8, KeepingOf
  <2>4. SettledOnHeap(e, Keeping(e, l, Null))
    BY <2>6, <2>9
  <2>10. Leads(st, o, st.mark[x], x, st.mark[o], e)
    BY <2>1, MarksLead
  <2>11. e \in AllSettled(l)
    BY <1>1, <2>4, HeapStates
  <2> QED
    BY <2>1, <2>10, <2>11 DEF Gets
<1>3. ASSUME st.mark[o].at = Nowhere, o # x
      PROVE  /\ Gets(st, <<Mark(o, st.mark[x]), Mark(x, Null)>>, l, failed, o, st.mark[x], x, Null)
             /\ Gets(st, <<Mark(x, Null), Mark(o, st.mark[x])>>, l, failed, o, st.mark[x], x, Null)
  <2> HIDE DEF keep
  <2>1. SettledOnHeap(st, k1)
    BY <1>1, <1>3, PutNothing, KeepersApart DEF SameArms
  <2>7. k1[o] = Null /\ \A h \in Keepers : h # o => k1[h] = keep[h]
    <3>1. HasPut(keep, o, Null, k1)
      BY <1>5, PutIs
    <3> HIDE DEF k1
    <3> QED
      BY <3>1 DEF HasPut
  <2> HIDE DEF k1
  <2>2. ASSUME NEW e \in States, e.mark[o] = st.mark[x], e.mark[x] = Null,
               \A y \in Owners : y # o /\ y # x => e.mark[y] = st.mark[y],
               e.cell = st.cell, e.heap = st.heap
        PROVE  e \in AllSettled(l)
    <3> DEFINE new == Swapped(k1, o, x)
    <3>1. /\ Everyones(new) /\ new[o] = k1[x] /\ new[x] = k1[o]
          /\ \A h \in Keepers : h # o /\ h # x => new[h] = k1[h]
      <4>1. HasSwapped(k1, o, x, new)
        BY <1>5, SwappedIs
      <4> HIDE DEF new
      <4> QED
        BY <4>1 DEF HasSwapped
    <3>2. SameArms(st, e)
      BY <2>2 DEF SameArms
    <3>4. SettledOnHeap(e, new)
      BY <2>1, <2>2, <3>2, Exchange, KeepersApart
    <3> HIDE DEF new
    <3>5. new[Caller] = l /\ new[Doomed] = Null
      BY <1>1, <2>7, <3>1, KeepersApart
    <3>6. \A a \in Owners : e.mark[a] = new[a]
      BY <1>1, <1>3, <2>2, <2>7, <3>1, KeepersApart
    <3>7. Keeping(e, l, Null) = new
      BY <3>1, <3>5, <3>6, KeepingOf
    <3>3. SettledOnHeap(e, Keeping(e, l, Null))
      BY <3>4, <3>7
    <3> QED
      BY <1>1, <3>3, HeapStates
  <2>3. PICK e1 \in States : /\ Goes(st, <<Mark(o, st.mark[x]), Mark(x, Null)>>, failed, e1)
                             /\ TwoMarked(st, o, st.mark[x], x, Null, e1)
    BY <1>1, DoTwoMarks
  <2>4. PICK e2 \in States : /\ Goes(st, <<Mark(x, Null), Mark(o, st.mark[x])>>, failed, e2)
                             /\ TwoMarked(st, x, Null, o, st.mark[x], e2)
    BY <1>1, DoTwoMarks
  <2>5. e1 \in AllSettled(l)
    BY <1>1, <1>3, <2>2, <2>3 DEF TwoMarked
  <2>6. e2 \in AllSettled(l)
    BY <1>1, <1>3, <2>2, <2>4 DEF TwoMarked
  <2>8. Leads(st, o, st.mark[x], x, Null, e1) /\ Leads(st, o, st.mark[x], x, Null, e2)
    BY <1>3, <2>3, <2>4, MarksLead
  <2> QED
    BY <2>3, <2>4, <2>5, <2>6, <2>8 DEF Gets
<1> QED
  BY <1>2, <1>3

\* An owner that has nothing says so in another way, or the caller takes what
\* it has.
LEMMA LetGoRuns ==
  ASSUME OnHeap, NEW st \in States, NEW l, l # Absent, SettledOnHeap(st, Keeping(st, l, Null)),
         NEW o \in Owners, NEW failed
  PROVE  /\ \A m \in {Absent, Null} : st.mark[o].at = Nowhere =>
              Gets(st, <<Mark(o, m)>>, l, failed, o, m, o, m)
         /\ l = Null /\ st.mark[o] # Absent =>
              Gets(st, <<Mark(o, Null)>>, st.mark[o], failed, o, Null, o, Null)
<1> DEFINE keep == Keeping(st, l, Null)
<1>1. /\ keep[o] = st.mark[o] /\ keep[Caller] = l /\ keep[Doomed] = Null
      /\ \A a \in Owners : keep[a] = st.mark[a]
      /\ Null \in MarksOrNone /\ Absent \in MarksOrNone
  BY KeepingIs, BlockMarksFit
<1>5. o \in Keepers
  BY KeepersApart
<1>2. ASSUME NEW m \in {Absent, Null}, st.mark[o].at = Nowhere
      PROVE  Gets(st, <<Mark(o, m)>>, l, failed, o, m, o, m)
  <2>1. PICK e \in States : Goes(st, <<Mark(o, m)>>, failed, e) /\ Marked(st, o, m, e)
    BY <1>1, DoMark
  <2>3. SameArms(st, e) /\ e.heap = st.heap /\ keep[o].at = Nowhere
    BY <1>1, <1>2, <2>1 DEF Marked, SameArms
  <2> DEFINE new == Put(keep, o, m)
  <2>5. SettledOnHeap(st, keep)
    OBVIOUS
  <2> HIDE DEF keep
  <2>6. Everyones(new) /\ new[o] = m /\ \A h \in Keepers : h # o => new[h] = keep[h]
    <3>1. HasPut(keep, o, m, new)
      BY <1>5, PutIs
    <3> HIDE DEF new
    <3> QED
      BY <3>1 DEF HasPut
  <2>7. SettledOnHeap(e, new)
    BY <2>3, <2>5, PutNothing, KeepersApart
  <2> HIDE DEF new
  <2>8. new[Caller] = l /\ new[Doomed] = Null
    BY <1>1, <2>6, KeepersApart
  <2>9. \A a \in Owners : e.mark[a] = new[a]
    BY <1>1, <2>1, <2>6, KeepersApart DEF Marked
  <2>10. Keeping(e, l, Null) = new
    BY <2>6, <2>8, <2>9, KeepingOf
  <2>4. SettledOnHeap(e, Keeping(e, l, Null))
    BY <2>7, <2>10
  <2> QED
    BY <2>1, <2>4, HeapStates, MarksLead DEF Gets
<1>3. ASSUME l = Null, st.mark[o] # Absent
      PROVE  Gets(st, <<Mark(o, Null)>>, st.mark[o], failed, o, Null, o, Null)
  <2>1. PICK e \in States : Goes(st, <<Mark(o, Null)>>, failed, e) /\ Marked(st, o, Null, e)
    BY <1>1, DoMark
  <2>3. SameArms(st, e) /\ e.heap = st.heap
    BY <2>1 DEF Marked, SameArms
  <2> DEFINE new == Swapped(keep, o, Caller)
  <2>5. SettledOnHeap(st, keep)
    OBVIOUS
  <2> HIDE DEF keep
  <2>6. /\ Everyones(new) /\ new[o] = keep[Caller] /\ new[Caller] = keep[o]
        /\ \A h \in Keepers : h # o /\ h # Caller => new[h] = keep[h]
    <3>1. HasSwapped(keep, o, Caller, new)
      BY KeepersApart, SwappedIs
    <3> HIDE DEF new
    <3> QED
      BY <3>1 DEF HasSwapped
  <2>7. SettledOnHeap(e, new)
    BY <2>3, <2>5, Exchange, KeepersApart
  <2> HIDE DEF new
  <2>8. new[Caller] = st.mark[o] /\ new[Doomed] = Null
    BY <1>1, <2>6, KeepersApart
  <2>9. \A a \in Owners : e.mark[a] = new[a]
    BY <1>1, <1>3, <2>1, <2>6, KeepersApart DEF Marked
  <2>10. Keeping(e, st.mark[o], Null) = new
    BY <2>6, <2>8, <2>9, KeepingOf
  <2>4. SettledOnHeap(e, Keeping(e, st.mark[o], Null))
    BY <2>7, <2>10
  <2> QED
    BY <1>3, <2>1, <2>4, HeapStates, MarksLead DEF Gets
<1> QED
  BY <1>2, <1>3

-----------------------------------------------------------------------------
(* Blocks that are made                                                    *)

\* A step that has nothing to lose loses nothing.
LEMMA NoLoss ==
  ASSUME NEW st \in States
  PROVE  WithLoss(st, {}) = st
<1>1. st.cell = [p \in Places |-> st.cell[p]]
  BY DEF States
<1>2. st = [cell |-> st.cell, mark |-> st.mark, heap |-> st.heap]
  BY DEF States
<1>3. WithLoss(st, {}) = [cell |-> [p \in Places |-> st.cell[p]], mark |-> st.mark, heap |-> st.heap]
  BY DEF WithLoss
<1> QED
  BY <1>1, <1>2, <1>3

\* The first k objects of a block have been built.
Filled(st, b, k, v) ==
  [cell |-> [p \in Places |-> IF p[1] = b /\ p[2] < k THEN [arm |-> "value", val |-> v]
                              ELSE st.cell[p]],
   mark |-> st.mark, heap |-> st.heap]

\* What lives in a block then.
HasFirst(st, b, k, v, end) ==
  /\ end.mark = st.mark /\ end.heap = st.heap
  /\ \A p \in Places :
       /\ end.cell[p] = IF p[1] = b /\ p[2] < k THEN [arm |-> "value", val |-> v] ELSE st.cell[p]
       /\ end.cell[p].arm = IF p[1] = b /\ p[2] < k THEN "value" ELSE st.cell[p].arm

\* That is a state.
LEMMA FilledIs ==
  ASSUME NEW st \in States, NEW b, NEW k, NEW v \in Values
  PROVE  Filled(st, b, k, v) \in States /\ HasFirst(st, b, k, v, Filled(st, b, k, v))
<1> DEFINE new == [arm |-> "value", val |-> v]
           c == [p \in Places |-> IF p[1] = b /\ p[2] < k THEN new ELSE st.cell[p]]
<1>1. st.cell \in [Places -> Cells] /\ st.mark \in [Owners -> MarksOrNone] /\ st.heap \in SUBSET Blocks
  BY DEF States
<1>2. new \in Cells /\ new.arm = "value"
  BY DEF Cells, Things
<1>3. Filled(st, b, k, v) = [cell |-> c, mark |-> st.mark, heap |-> st.heap]
  BY DEF Filled
<1> HIDE DEF new
<1>4. /\ c \in [Places -> Cells]
      /\ \A p \in Places : c[p] = IF p[1] = b /\ p[2] < k THEN new ELSE st.cell[p]
  BY <1>1, <1>2
<1> HIDE DEF c
<1>5. \A p \in Places : c[p].arm = IF p[1] = b /\ p[2] < k THEN "value" ELSE st.cell[p].arm
  BY <1>2, <1>4
<1> QED
  BY <1>1, <1>3, <1>4, <1>5 DEF States, HasFirst, new

\* The objects made so far are destroyed and the block is freed: nothing is
\* left of them.
LEMMA UndoUndoes ==
  ASSUME NEW st \in States, NEW b \in Blocks \ st.heap,
         \A i \in 0..MaxCount - 1 : st.cell[<<b, i>>].arm = "dead",
         NEW e0 \in States, Allocated(st, b, e0),
         NEW v \in Values, NEW k \in 0..MaxCount, NEW failed, st \in failed
  PROVE  Unwinds(Filled(e0, b, k, v), Undo(b, k), failed)
<1> DEFINE f == Filled(e0, b, k, v)
           at == [j \in 1..k |-> <<b, k - j>>]
           row == EndsOf(at, k, "value")
           mid == Emptied(f, at, k)
<1>1. /\ f \in States /\ f.mark = st.mark /\ f.heap = st.heap \cup {b}
      /\ \A p \in Places :
           /\ f.cell[p].arm = IF p[1] = b /\ p[2] < k THEN "value" ELSE st.cell[p].arm
           /\ p[1] # b => f.cell[p] = st.cell[p]
  <2>1. /\ f \in States /\ f.mark = e0.mark /\ f.heap = e0.heap
        /\ \A p \in Places :
             /\ f.cell[p].arm = IF p[1] = b /\ p[2] < k THEN "value" ELSE e0.cell[p].arm
             /\ p[1] # b => f.cell[p] = e0.cell[p]
    <3>1. f \in States /\ HasFirst(e0, b, k, v, f)
      BY FilledIs
    <3> HIDE DEF f
    <3> QED
      BY <3>1 DEF HasFirst
  <2> HIDE DEF f
  <2> QED
    BY <2>1 DEF Allocated
<1>2. k \in Nat /\ MaxCount \in Nat /\ k <= MaxCount
  BY PlacePairs
<1>3. \A j \in 1..k : /\ k - j \in 0..MaxCount - 1 /\ k - j < k
                      /\ at[j] = <<b, k - j>> /\ at[j] \in Places
                      /\ at[j][1] = b /\ at[j][2] = k - j
  BY <1>2, PlacePairs
<1>4. row = [j \in 1..k |-> End(<<b, k - j>>, "value")]
  BY DEF EndsOf
<1>5. Undo(b, k) = row \o <<Free(b)>>
  BY <1>4 DEF Undo
<1> HIDE DEF at, f, row
<1>6. \A j \in 1..k : at[j] \in Places /\ f.cell[at[j]].arm = "value"
  BY <1>1, <1>3
<1>7. \A i, j \in 1..k : i # j => at[i] # at[j]
  BY <1>2, <1>3
<1>8. "value" \in Kinds
  BY DEF Kinds
<1>9. mid \in States /\ Unwinds(f, row, {mid})
  BY <1>1, <1>2, <1>6, <1>7, <1>8, DoRow DEF row
<1>10. ASSUME NEW p \in Places
       PROVE  /\ mid.cell[p].arm = IF p[1] = b THEN "dead" ELSE st.cell[p].arm
              /\ p[1] # b => mid.cell[p] = st.cell[p]
  <2>1. mid.cell[p] = IF \E j \in 1..k : p = at[j] THEN Dead ELSE f.cell[p]
    BY DEF Emptied
  <2>2. p = <<p[1], p[2]>> /\ p[2] \in 0..MaxCount - 1
    BY PlacePairs
  <2>3. Dead.arm = "dead"
    BY DEF Dead
  <2>4. CASE p[1] # b
    <3>1. ~\E j \in 1..k : p = at[j]
      BY <1>3, <2>4
    <3> QED
      BY <1>1, <2>1, <2>4, <3>1
  <2>5. CASE p[1] = b /\ p[2] < k
    <3>1. k - p[2] \in 1..k /\ k - (k - p[2]) = p[2]
      BY <1>2, <2>2, <2>5
    <3>2. PICK j \in 1..k : k - j = p[2]
      BY <3>1
    <3>3. at[j] = p
      BY <1>3, <2>2, <2>5, <3>2
    <3> QED
      BY <2>1, <2>3, <2>5, <3>3
  <2>6. CASE p[1] = b /\ ~(p[2] < k)
    <3>1. st.cell[<<b, p[2]>>].arm = "dead"
      BY <2>2
    <3>2. f.cell[p].arm = "dead"
      BY <1>1, <2>2, <2>6, <3>1
    <3> QED
      BY <2>1, <2>3, <2>6, <3>2
  <2> QED
    BY <2>4, <2>5, <2>6
<1>11. mid.mark = st.mark /\ mid.heap = st.heap \cup {b}
  BY <1>1 DEF Emptied
<1> HIDE DEF mid
<1>12. \A i \in 0..MaxCount - 1 : mid.cell[<<b, i>>].arm = "dead"
  BY <1>10, PlacePairs
<1>13. \A end \in States : Freed(mid, b, end) => end \in failed
  <2>1. ASSUME NEW end \in States, Freed(mid, b, end) PROVE end \in failed
    <3>1. end.mark = st.mark /\ end.heap = st.heap
      BY <1>11, <2>1 DEF Freed
    <3>2. end.cell \in [Places -> Cells] /\ st.cell \in [Places -> Cells]
      BY DEF States
    <3>3. ASSUME NEW p \in Places PROVE end.cell[p] = st.cell[p]
      <4>1. /\ end.cell[p].arm = IF p[1] = b THEN "dead" ELSE st.cell[p].arm
            /\ p[1] # b => end.cell[p] = st.cell[p]
        BY <1>10, <2>1 DEF Freed
      <4>2. p = <<p[1], p[2]>> /\ p[2] \in 0..MaxCount - 1
        BY PlacePairs
      <4>3. p[1] = b => st.cell[p].arm = "dead"
        BY <4>2
      <4>4. end.cell[p] \in Cells /\ st.cell[p] \in Cells
        BY <3>2
      <4>5. p[1] = b => end.cell[p] = Dead /\ st.cell[p] = Dead
        BY <4>1, <4>3, <4>4, CellKinds
      <4> QED
        BY <4>1, <4>5
    <3>4. end.cell = st.cell
      BY <3>2, <3>3
    <3>5. end = st
      BY <3>1, <3>4, StatesAgree
    <3> QED
      BY <3>5
  <2> QED
    BY <2>1
<1>14. Unwinds(mid, <<Free(b)>>, failed)
  <2>1. b \in mid.heap
    BY <1>11
  <2> QED
    BY <1>9, <1>12, <1>13, <2>1, DoFree
<1> QED
  BY <1>5, <1>9, <1>14, UnwindOn DEF f

\* A block is filled, object by object, or all of it is undone.
LEMMA DoBuilds ==
  ASSUME NEW st \in States, NEW b \in Blocks \ st.heap,
         \A i \in 0..MaxCount - 1 : st.cell[<<b, i>>].arm = "dead",
         NEW e0 \in States, Allocated(st, b, e0),
         NEW v \in Values, NEW n \in 1..MaxCount, NEW failed, st \in failed
  PROVE  Goes(e0, [i \in 1..n |-> NewOr(Undo(b, i - 1), <<b, i - 1>>, "value", Arg(v))], failed,
              Filled(e0, b, n, v))
<1> DEFINE step(i) == NewOr(Undo(b, i - 1), <<b, i - 1>>, "value", Arg(v))
           row == [i \in 1..n |-> step(i)]
           s(k) == Filled(e0, b, k, v)
           t == [k \in 0..n |-> s(k)]
<1>1. n \in Nat /\ MaxCount \in Nat /\ n <= MaxCount /\ b \in e0.heap /\ e0.cell = st.cell
  BY PlacePairs DEF Allocated
<1>2. Sequential(row) /\ Len(row) = n
  <2> HIDE DEF step
  <2>1. row \in Seq({step(i) : i \in 1..n}) /\ Len(row) = n
    BY <1>1
  <2> HIDE DEF row
  <2> QED
    BY <2>1, SeqIs
<1>3. \A k \in 0..n : s(k) \in States
  BY FilledIs
<1>4. s(0) = e0
  <2>1. \A p \in Places : ~(p[2] < 0)
    BY PlacePairs
  <2>2. e0.cell = [p \in Places |-> e0.cell[p]]
    BY DEF States
  <2>3. [p \in Places |-> IF p[1] = b /\ p[2] < 0 THEN [arm |-> "value", val |-> v] ELSE e0.cell[p]]
          = e0.cell
    BY <2>1, <2>2
  <2>4. e0 = [cell |-> e0.cell, mark |-> e0.mark, heap |-> e0.heap]
    BY DEF States
  <2> QED
    BY <2>3, <2>4 DEF Filled
<1>5. ASSUME NEW i \in 1..n
      PROVE  /\ MayDo(s(i - 1), row[i]) /\ s(i) = Result(s(i - 1), row[i])
             /\ Safe(s(i - 1), row[i], failed)
  <2> DEFINE p == <<b, i - 1>>
             new == [arm |-> "value", val |-> v]
  <2>1. i - 1 \in 0..MaxCount - 1 /\ i - 1 \in 0..MaxCount /\ i \in Nat /\ ~(i - 1 < i - 1)
    BY <1>1
  <2>2. p \in Places /\ p[1] = b /\ p[2] = i - 1
    BY <2>1, PlacePairs
  <2>3. row[i] = step(i)
    OBVIOUS
  <2>4. /\ s(i - 1).cell[p].arm = "dead" /\ s(i - 1).heap = e0.heap /\ s(i - 1).mark = e0.mark
        /\ s(i - 1) \in States
    <3>1. st.cell[p].arm = "dead"
      BY <2>1
    <3>2. /\ s(i - 1) \in States /\ s(i - 1).mark = e0.mark /\ s(i - 1).heap = e0.heap
          /\ \A q \in Places :
               s(i - 1).cell[q].arm = IF q[1] = b /\ q[2] < i - 1 THEN "value" ELSE e0.cell[q].arm
      <4>1. s(i - 1) \in States /\ HasFirst(e0, b, i - 1, v, s(i - 1))
        BY FilledIs
      <4> HIDE DEF s
      <4> QED
        BY <4>1 DEF HasFirst
    <3> HIDE DEF p, s
    <3> QED
      BY <1>1, <2>1, <2>2, <3>1, <3>2
  <2>5. step(i).do = "new" /\ step(i).at = p /\ step(i).arm = "value" /\ step(i).from = Arg(v)
        /\ step(i).unwind = Undo(b, i - 1)
    BY DEF NewOr
  <2>6. There(s(i - 1), Arg(v), "value") /\ Arg(v).by = "arg" /\ Arg(v).val = v /\ "value" \in Kinds
    BY ArgIsThere DEF Arg, Kinds
  <2> HIDE DEF s, step, row
  <2>7. MayDo(s(i - 1), step(i))
    BY <1>1, <2>2, <2>4, <2>5, <2>6 DEF MayDo
  <2>8. Loses(step(i)) = {}
    BY <2>5, <2>6 DEF Loses
  <2>9. Safe(s(i - 1), step(i), failed)
    <3>1. Unwinds(s(i - 1), Undo(b, i - 1), failed)
      BY <2>1, UndoUndoes DEF s
    <3>2. WithLoss(s(i - 1), {}) = s(i - 1)
      BY <2>4, NoLoss
    <3>3. \A some \in SUBSET Loses(step(i)) : some = {}
      BY <2>8
    <3> QED
      BY <2>5, <3>1, <3>2, <3>3 DEF Safe
  <2>10. CellResult(s(i - 1).cell, step(i)) = [s(i - 1).cell EXCEPT ![p] = new]
    BY <2>5, <2>6 DEF CellResult, Builds, Rest, Source
  <2>11. s(i).cell = [s(i - 1).cell EXCEPT ![p] = new]
    <3>1. \A q \in Places : /\ s(i - 1).cell[q] = IF q[1] = b /\ q[2] < i - 1 THEN new ELSE e0.cell[q]
                            /\ s(i).cell[q] = IF q[1] = b /\ q[2] < i THEN new ELSE e0.cell[q]
      BY FilledIs DEF s, HasFirst
    <3>2. s(i).cell \in [Places -> Cells] /\ s(i - 1).cell \in [Places -> Cells]
      BY FilledIs DEF s, States
    <3>3. \A q \in Places : (q[1] = b /\ q[2] < i) <=> (q = p \/ (q[1] = b /\ q[2] < i - 1))
      <4>1. \A q \in Places : q = <<q[1], q[2]>> /\ q[2] \in Nat
        BY <1>1, PlacePairs
      <4> QED
        BY <2>1, <2>2, <4>1
    <3> HIDE DEF p, new
    <3>4. \A q \in Places : s(i).cell[q] = IF q = p THEN new ELSE s(i - 1).cell[q]
      BY <3>1, <3>3
    <3> QED
      BY <2>2, <3>2, <3>4
  <2>12. s(i) = Result(s(i - 1), step(i))
    <3>1. /\ s(i) = [cell |-> s(i).cell, mark |-> e0.mark, heap |-> e0.heap]
      BY DEF s, Filled
    <3>2. Result(s(i - 1), step(i)) =
            [cell |-> CellResult(s(i - 1).cell, step(i)), mark |-> s(i - 1).mark, heap |-> s(i - 1).heap]
      BY <2>5 DEF Result
    <3> QED
      BY <2>4, <2>10, <2>11, <3>1, <3>2
  <2> QED
    BY <2>3, <2>7, <2>9, <2>12
<1> HIDE DEF s, row
<1>6. t \in [0..n -> States] /\ t[0] = e0 /\ t[n] = s(n) /\ \A i \in 1..n : t[i - 1] = s(i - 1) /\ t[i] = s(i)
  BY <1>1, <1>3, <1>4
<1> HIDE DEF t
<1>7. Path(t, e0, row, s(n))
  BY <1>2, <1>5, <1>6 DEF Path
<1>8. Goes(e0, row, failed, s(n))
  BY <1>2, <1>5, <1>6, <1>7 DEF Goes
<1> QED
  BY <1>8 DEF s, row

\* An owner that had nothing has got a block.
LEMMA GotIsSettled ==
  ASSUME OnHeap, NEW l, NEW st \in AllSettled(l), NEW o \in Owners, st.mark[o].at = Nowhere,
         NEW b \in Blocks, b \notin st.heap, NEW n \in Counted, NEW e \in States,
         e.mark[o] = Holds(b, "value", n), \A x \in Owners : x # o => e.mark[x] = st.mark[x],
         e.heap = st.heap \cup {b},
         \A p \in Places : e.cell[p].arm = IF p[1] = b /\ p[2] < n THEN "value" ELSE st.cell[p].arm
  PROVE  e \in AllSettled(l)
<1> DEFINE keep == Keeping(st, l, Null)
           m == Holds(b, "value", n)
           new == Put(keep, o, m)
<1>1. /\ SettledOnHeap(st, keep) /\ l # Absent /\ keep[Caller] = l /\ keep[Doomed] = Null
      /\ \A a \in Owners : keep[a] = st.mark[a]
  BY HeapIs
<1>2. o \in Keepers
  BY KeepersApart
<1> HIDE DEF keep
<1>3. keep[o].at = Nowhere
  BY <1>1
<1>4. SettledOnHeap(e, new)
  BY <1>1, <1>2, <1>3, PutNew
<1> HIDE DEF m
<1>5. HasPut(keep, o, m, new)
  BY <1>2, PutIs
<1> HIDE DEF new
<1>6. Everyones(new) /\ new[o] = m /\ \A h \in Keepers : h # o => new[h] = keep[h]
  BY <1>5 DEF HasPut
<1>7. new[Caller] = l /\ new[Doomed] = Null
  BY <1>1, <1>6, KeepersApart
<1>8. \A a \in Owners : e.mark[a] = new[a]
  BY <1>1, <1>6, KeepersApart DEF m
<1>9. Keeping(e, l, Null) = new
  BY <1>6, <1>7, <1>8, KeepingOf
<1> QED
  BY <1>1, <1>4, <1>9, HeapStates

\* So it has, and the objects in it are new.
Made(st, o, b, n, v, e) ==
  /\ e.mark[o] = Holds(b, "value", n) /\ \A x \in Owners : x # o => e.mark[x] = st.mark[x]
  /\ \A p \in Places :
       e.cell[p] = IF p[1] = b /\ p[2] < n THEN [arm |-> "value", val |-> v] ELSE st.cell[p]

\* An owner is made with a block of its own, or is not and leaves nothing.
LEMMA MakeRuns ==
  ASSUME OnHeap, NEW l, NEW st \in AllSettled(l), NEW o \in Owners, st.mark[o].at = Nowhere,
         NEW b \in Blocks \ st.heap, NEW n \in Counted, NEW v \in Values,
         NEW ok, NEW failed, st \in failed,
         \A e \in AllSettled(l) : Made(st, o, b, n, v, e) => e \in ok
  PROVE  Runs(st, <<Alloc(b)>>
                    \o [i \in 1..n |-> NewOr(Undo(b, i - 1), <<b, i - 1>>, "value", Arg(v))]
                    \o <<Mark(o, Holds(b, "value", n))>>, ok, failed)
<1> DEFINE F == failed
           row == [i \in 1..n |-> NewOr(Undo(b, i - 1), <<b, i - 1>>, "value", Arg(v))]
           m == Holds(b, "value", n)
<1>1. st \in States /\ SettledOnHeap(st, Keeping(st, l, Null)) /\ l # Absent
  BY HeapStates
<1>2. /\ n \in 1..MaxCount /\ m \in MarksOrNone
  BY BlockMarksFit
<1>3. \A i \in 0..MaxCount - 1 : st.cell[<<b, i>>].arm = "dead"
  <2>1. \A i \in 0..MaxCount - 1 : <<b, i>> \in Places /\ <<b, i>>[1] = b
    BY PlacePairs
  <2>2. \A p \in Places : p[1] \notin st.heap => st.cell[p].arm = "dead"
    BY <1>1 DEF SettledOnHeap
  <2> QED
    BY <2>1, <2>2
<1>4. st \in F
  OBVIOUS
<1> HIDE DEF F
<1>5. PICK e0 \in States : Goes(st, <<Alloc(b)>>, F, e0) /\ Allocated(st, b, e0)
  BY <1>1, <1>4, DoAlloc
<1> DEFINE e1 == Filled(e0, b, n, v)
<1>6. Goes(e0, row, F, e1)
  BY <1>1, <1>2, <1>3, <1>4, <1>5, DoBuilds
<1>7. e1 \in States /\ HasFirst(e0, b, n, v, e1)
  BY FilledIs
<1> HIDE DEF row, e1, m
<1>8. PICK e2 \in States : Goes(e1, <<Mark(o, m)>>, F, e2) /\ Marked(e1, o, m, e2)
  BY <1>2, <1>7, DoMark
<1>9. e2 \in ok
  <2>1. \A p \in Places : e2.cell[p].arm = IF p[1] = b /\ p[2] < n THEN "value" ELSE st.cell[p].arm
    BY <1>5, <1>7, <1>8 DEF Allocated, HasFirst, Marked
  <2>2. /\ e2.mark[o] = Holds(b, "value", n) /\ e2.heap = st.heap \cup {b}
        /\ \A x \in Owners : x # o => e2.mark[x] = st.mark[x]
    BY <1>5, <1>7, <1>8 DEF Allocated, HasFirst, Marked, m
  <2>3. e2 \in AllSettled(l)
    BY <2>1, <2>2, GotIsSettled
  <2>4. \A p \in Places :
          e2.cell[p] = IF p[1] = b /\ p[2] < n THEN [arm |-> "value", val |-> v] ELSE st.cell[p]
    BY <1>5, <1>7, <1>8 DEF Allocated, HasFirst, Marked
  <2>5. Made(st, o, b, n, v, e2)
    BY <2>2, <2>4 DEF Made
  <2> QED
    BY <2>3, <2>5
<1>10. Goes(st, <<Alloc(b)>> \o row, F, e1)
  BY <1>5, <1>6, GoOn
<1>11. Goes(st, (<<Alloc(b)>> \o row) \o <<Mark(o, m)>>, F, e2)
  BY <1>8, <1>10, GoOn
<1> QED
  BY <1>9, <1>11 DEF Runs, F, row, m

\* make_unique takes the same steps for one object.
LEMMA OneIsMade ==
  ASSUME NEW b, NEW v, NEW last
  PROVE  <<Alloc(b)>> \o [i \in 1..1 |-> NewOr(Undo(b, i - 1), <<b, i - 1>>, "value", Arg(v))]
           \o <<last>>
         = <<Alloc(b), NewOr(<<Free(b)>>, Only(b), "value", Arg(v)), last>>
<1> DEFINE row == [i \in 1..1 |-> NewOr(Undo(b, i - 1), <<b, i - 1>>, "value", Arg(v))]
           one == NewOr(<<Free(b)>>, Only(b), "value", Arg(v))
<1>1. Undo(b, 0) = <<Free(b)>>
  <2>1. [j \in 1..0 |-> End(<<b, 0 - j>>, "value")] = <<>>
    OBVIOUS
  <2>2. <<Free(b)>> \in Seq({Free(b)})
    OBVIOUS
  <2>3. \A S : \A s \in Seq(S) : <<>> \o s = s
    BY ConcatEmptySeq
  <2> QED
    BY <2>1, <2>2, <2>3 DEF Undo
<1>2. row = <<one>>
  <2>1. \A i \in 1..1 : NewOr(Undo(b, i - 1), <<b, i - 1>>, "value", Arg(v)) = one
    <3>1. \A i \in 1..1 : i - 1 = 0
      OBVIOUS
    <3> QED
      BY <1>1, <3>1 DEF Only
  <2> HIDE DEF one
  <2>2. row = [i \in 1..1 |-> one]
    BY <2>1
  <2> QED
    BY <2>2
<1> HIDE DEF row, one
<1>3. <<Alloc(b)>> \o <<one>> = <<Alloc(b), one>>
      /\ <<Alloc(b), one>> \o <<last>> = <<Alloc(b), one, last>>
  BY TuplesJoin
<1> QED
  BY <1>2, <1>3 DEF row, one

\* A slice lets go of its objects and its block, if it has any.
LEMMA DoDispose ==
  ASSUME OnHeap, NEW l, Now \in AllSettled(l), NEW o \in Owners, mark[o] # Absent, NEW failed
  PROVE  Gets(Now, Dispose(o), l, failed, o, Null, o, Null)
<1> DEFINE st == Now
           keep == Keeping(st, l, Null)
           new == Put(keep, o, Null)
<1>1. /\ st \in States /\ SettledOnHeap(st, keep) /\ l # Absent
      /\ keep[Caller] = l /\ keep[Doomed] = Null /\ Null \in MarksOrNone
      /\ \A a \in Owners : keep[a] = st.mark[a]
  BY HeapIs
<1>2. o \in Keepers /\ st.mark = mark
  BY KeepersApart DEF Now
<1>3. st \in AllSettled(l)
  OBVIOUS
<1> HIDE DEF st, keep
<1>4. CASE mark[o].at = Nowhere
  <2>1. Dispose(o) = <<>>
    BY <1>4 DEF Dispose
  <2>2. mark[o] = Null
    <3>1. keep[o] \in BlockMarks
      BY <1>1, <1>2 DEF SettledOnHeap
    <3> QED
      BY <1>1, <1>2, <1>4, <3>1, BlockMarksFit
  <2>3. Leads(st, o, Null, o, Null, st)
    BY <1>2, <2>2, LeavesOn DEF Leads
  <2> QED
    BY <1>1, <1>3, <2>1, <2>3, NoSteps DEF Gets, st
<1>5. CASE mark[o].at # Nowhere
  <2> DEFINE at == mark[o].at
  <2>1. Dispose(o) = Ends(keep[o]) \o <<Free(at), Mark(o, Null)>> /\ keep[o].at = at
    BY <1>1, <1>2, <1>5 DEF Dispose
  <2>2. PICK mid, late \in States :
          /\ Goes(st, Ends(keep[o]), failed, mid) /\ Goes(mid, <<Free(keep[o].at)>>, failed, late)
          /\ SettledOnHeap(late, Put(keep, o, Null)) /\ late.mark = st.mark /\ Leaves(st, late)
    BY <1>1, <1>2, <1>5, DoDelete
  <2> HIDE DEF at
  <2>3. PICK end \in States : Goes(late, <<Mark(o, Null)>>, failed, end) /\ Marked(late, o, Null, end)
    BY <1>1, DoMark
  <2>4. Goes(mid, <<Free(at), Mark(o, Null)>>, failed, end)
    BY <2>1, <2>2, <2>3, TwoSteps
  <2>5. Goes(st, Dispose(o), failed, end)
    BY <2>1, <2>2, <2>4, GoOn
  <2>6. SameArms(late, end) /\ end.heap = late.heap
    BY <2>3 DEF Marked, SameArms
  <2>7. SettledOnHeap(end, new)
    BY <2>2, <2>6, KeepsTelling
  <2>8. HasPut(keep, o, Null, new)
    BY <1>2, PutIs
  <2> HIDE DEF new
  <2>9. Everyones(new) /\ new[o] = Null /\ \A h \in Keepers : h # o => new[h] = keep[h]
    BY <2>8 DEF HasPut
  <2>10. new[Caller] = l /\ new[Doomed] = Null
    BY <1>1, <2>9, KeepersApart
  <2>11. \A a \in Owners : end.mark[a] = new[a]
    BY <1>1, <2>2, <2>3, <2>9, KeepersApart DEF Marked
  <2>12. Keeping(end, l, Null) = new
    BY <2>9, <2>10, <2>11, KeepingOf
  <2>13. end \in AllSettled(l)
    BY <1>1, <2>7, <2>12, HeapStates
  <2>14. Leads(st, o, Null, o, Null, end)
    <3>1. Leaves(late, end)
      BY <2>3, LeavesOn DEF Marked
    <3>2. Leaves(st, end)
      BY <2>2, <3>1, LeavesOn
    <3> QED
      BY <2>2, <2>3, <3>2 DEF Leads, Marked
  <2> QED
    BY <2>5, <2>13, <2>14 DEF Gets, st
<1> QED
  BY <1>4, <1>5

\* The caller gives up what it had been handed.
LEMMA DropRuns ==
  ASSUME OnHeap, Now \in AllSettled(loose), NEW o \in Owners, NEW failed
  PROVE  Gets(Now, Delete(loose), Null, failed, o, mark[o], o, mark[o])
<1> DEFINE st == Now
           keep == Keeping(st, loose, Null)
           new == Swapped(keep, Caller, Doomed)
<1>1. /\ st \in States /\ SettledOnHeap(st, keep)
      /\ keep[Caller] = loose /\ keep[Doomed] = Null
      /\ \A a \in Owners : keep[a] = st.mark[a]
  BY HeapIs
<1>2. Null # Absent
  BY BlockMarksFit
<1>9. st.mark = mark
  BY DEF Now
<1> HIDE DEF st, keep
<1>3. SettledOnHeap(st, new)
  BY <1>1, Exchange, KeepersApart DEF SameArms
<1>4. HasSwapped(keep, Caller, Doomed, new)
  BY KeepersApart, SwappedIs
<1> HIDE DEF new
<1>5. /\ Everyones(new) /\ new[Caller] = keep[Doomed] /\ new[Doomed] = keep[Caller]
      /\ \A h \in Keepers : h # Caller /\ h # Doomed => new[h] = keep[h]
  BY <1>4 DEF HasSwapped
<1>6. \A a \in Owners : st.mark[a] = new[a]
  BY <1>1, <1>5, KeepersApart
<1>7. Keeping(st, Null, loose) = new
  BY <1>1, <1>5, <1>6, KeepingOf
<1>8. PICK end \in AllSettled(Null) :
        Goes(st, Delete(loose), failed, end) /\ end.mark = st.mark /\ Leaves(st, end)
  BY <1>1, <1>2, <1>3, <1>7, DoomedGoes
<1>10. Leads(st, o, mark[o], o, mark[o], end)
  BY <1>8, <1>9 DEF Leads
<1> QED
  BY <1>8, <1>10 DEF Gets, st

\* What each kind of call finds.
HeapCall(r) ==
  /\ r.o \in Owners /\ r.x \in Owners /\ r.v \in Values
  /\ r.op \in {"empty", "make", "move"} => mark[r.o] = Absent
  /\ r.op \notin {"empty", "make", "move"} => mark[r.o] # Absent
  /\ r.op \in {"move", "move_assign", "swap"} => mark[r.x] # Absent
  /\ r.op = "release" => loose = Null
  /\ mark[r.o] = Absent => mark[r.o].at = Nowhere
  /\ Now.mark = mark /\ Now \in States
  /\ LooseThen(r) = IF r.op = "release" THEN mark[r.o]
                    ELSE IF r.op \in {"reset_to", "drop"} THEN Null ELSE loose

\* So it does.
LEMMA HeapCalls ==
  ASSUME OnHeap, Now \in AllSettled(loose), NEW r, Asked(r)
  PROVE  HeapCall(r)
<1>1. class # "expected" /\ class # "optional" /\ class # "inplace_vector"
  BY DEF OnHeap
<1>2. Promise!Constructors = {"empty", "make", "move"}
  BY <1>1 DEF Promise!Constructors
<1>3. r.op = "release" => loose = Null
  <2>1. ASSUME r.op = "release" PROVE loose = Null
    <3>1. loose.n = 0 /\ loose \in BlockMarks /\ loose # Absent
      BY <2>1, HeapNow DEF Asked
    <3>2. ~(loose.n \in 1..MaxCount)
      BY <3>1
    <3> QED
      BY <3>1, <3>2, BlockMarksFit
  <2> QED
    BY <2>1
<1>4. mark[r.o] = Absent => mark[r.o].at = Nowhere
  BY DEF Absent
<1>5. Now.mark = mark /\ Now \in States
  BY HeapStates DEF Now
<1>6. LooseThen(r) = IF r.op = "release" THEN mark[r.o]
                     ELSE IF r.op \in {"reset_to", "drop"} THEN Null ELSE loose
  BY DEF LooseThen
<1> QED
  BY <1>2, <1>3, <1>4, <1>5, <1>6 DEF HeapCall, Asked

\* What callers see of an owner, by its discriminator.
Seen(m) == IF m = Absent THEN None ELSE Living(m)

\* So they do; and an owner of nothing, they see, has nothing.
LEMMA ContentsSeen ==
  /\ \A k \in Owners : Contents[k] = Seen(mark[k])
  /\ Seen(Absent) = None /\ Seen(Null) = <<>> /\ Null # Absent
  /\ \A st : LivingIn(st, Null) = <<>>
<1>1. Null.n = 0 /\ Null # Absent
  BY DEF Null, Absent
<1>2. \A st : LivingIn(st, Null) = <<>>
  BY <1>1, FewLive
<1>3. Living(Null) = <<>>
  BY <1>2, ContentsAreHeld
<1>4. \A k \in Owners : Contents[k] = Seen(mark[k])
  BY DEF Contents, Seen
<1> QED
  BY <1>1, <1>2, <1>3, <1>4 DEF Seen

\* What is left of blocks holds what it held.
LEMMA StillLives ==
  ASSUME OnHeap, NEW l, NEW e \in AllSettled(l), Leaves(Now, e)
  PROVE  /\ \A k \in Owners : HeldIn(e)[k] = Seen(e.mark[k])
         /\ LivingIn(e, l) = Living(l)
<1> DEFINE keep == Keeping(e, l, Null)
<1>1. SettledOnHeap(e, keep) /\ keep[Caller] = l /\ \A a \in Owners : keep[a] = e.mark[a]
  BY HeapIs
<1> HIDE DEF keep
<1>2. \A k \in Keepers : keep[k] \in BlockMarks
  BY <1>1 DEF SettledOnHeap
<1>3. ASSUME NEW k \in Keepers PROVE LivingIn(e, keep[k]) = Living(keep[k])
  <2>1. keep[k].at # Nowhere => keep[k].at \in e.heap
    BY <1>1, <1>2, BlockMarksFit DEF SettledOnHeap
  <2>2. ASSUME NEW p \in Places, p[1] = keep[k].at PROVE e.cell[p] = Now.cell[p]
    <3>1. p[1] # Nowhere
      BY PlacePairs, PlacesAreDistinct
    <3> QED
      BY <2>1, <2>2, <3>1 DEF Leaves
  <2>3. LivingIn(e, keep[k]) = LivingIn(Now, keep[k])
    BY <1>2, <2>2, LivesThere
  <2> QED
    BY <2>3, ContentsAreHeld
<1>4. LivingIn(e, l) = Living(l)
  BY <1>1, <1>3, KeepersApart
<1>5. \A k \in Owners : LivingIn(e, e.mark[k]) = Living(e.mark[k])
  BY <1>1, <1>3, KeepersApart
<1> QED
  BY <1>4, <1>5 DEF HeldIn, Seen

\* What the caller is promised to have afterwards is what they are handed when
\* the call begins.
LEMMA HandedThen ==
  ASSUME AtRest, OnHeap, Now \in AllSettled(loose), NEW r, Asked(r)
  PROVE  Living(LooseThen(r)) = Promise!LooseAfter(r) /\ Handed = Living(loose)
<1>1. HeapCall(r)
  BY HeapCalls
<1>2. CASE r.op = "release"
  <2>1. mark[r.o] # Absent /\ LooseThen(r) = mark[r.o] /\ r.o \in Owners
    BY <1>1, <1>2 DEF HeapCall
  <2>2. Promise!LooseAfter(r) = Contents[r.o]
    BY <1>2 DEF Promise!LooseAfter
  <2> QED
    BY <2>1, <2>2, ContentsSeen DEF Seen, Handed
<1>3. CASE r.op \in {"reset_to", "drop"}
  <2>1. LooseThen(r) = Null /\ Promise!LooseAfter(r) = <<>>
    BY <1>1, <1>3 DEF HeapCall, Promise!LooseAfter
  <2> QED
    BY <2>1, ContentsSeen DEF Seen, Handed
<1>4. CASE r.op \notin {"release", "reset_to", "drop"}
  <2>1. LooseThen(r) = loose
    BY <1>1, <1>4 DEF HeapCall
  <2>2. Promise!LooseAfter(r) = Living(loose)
    BY <1>4 DEF Promise!LooseAfter
  <2> QED
    BY <2>1, <2>2 DEF Handed
<1> QED
  BY <1>2, <1>3, <1>4

\* Steps that leave the owners with the blocks they are promised are a way in
\* which a call may go.
LEMMA EndsOnHeap ==
  ASSUME AtRest, OnHeap, Now \in AllSettled(loose), NEW r, Asked(r),
         NEW m, NEW w, NEW seq, NEW failed, Gets(Now, seq, LooseThen(r), failed, r.o, m, r.x, w),
         Promise!Becomes(r) = Seen(m), r.x # r.o => Other(r) = Seen(w)
  PROVE  Runs(Now, seq, OkEnds(r, LooseThen(r)), failed)
<1> DEFINE l == LooseThen(r)
<1>1. r.o \in Owners /\ r.x \in Owners /\ Now.mark = mark
  BY HeapCalls DEF HeapCall
<1>2. Living(l) = Promise!LooseAfter(r)
  BY HandedThen
<1> HIDE DEF l
<1>3. PICK e \in AllSettled(l) : Goes(Now, seq, failed, e) /\ Leads(Now, r.o, m, r.x, w, e)
  BY DEF Gets, l
<1>4. /\ \A k \in Owners : HeldIn(e)[k] = Seen(e.mark[k])
      /\ LivingIn(e, l) = Living(l)
  BY <1>3, StillLives DEF Leads
<1>5. HeldIn(e)[r.o] = Promise!Becomes(r) /\ (r.x # r.o => HeldIn(e)[r.x] = Other(r))
  BY <1>1, <1>3, <1>4 DEF Leads
<1>6. OthersSame(r, e)
  BY <1>1, <1>3, <1>4, ContentsSeen DEF Leads, OthersSame
<1>7. HeldIn(e) = Promise!After(r)
  BY <1>1, <1>5, <1>6, AfterIs
<1>8. e \in OkEnds(r, l)
  BY <1>2, <1>4, <1>7 DEF OkEnds
<1> QED
  BY <1>3, <1>8 DEF Runs, l

\* An owner made has the objects it was to be made with.
LEMMA MadeIsOk ==
  ASSUME AtRest, OnHeap, Now \in AllSettled(loose), NEW r, Asked(r), r.op = "make",
         NEW b \in Blocks \ heap, r.n \in Counted, NEW e \in AllSettled(loose),
         Made(Now, r.o, b, r.n, r.v, e)
  PROVE  e \in OkEnds(r, LooseThen(r))
<1> DEFINE keep == Keeping(e, loose, Null)
           m == Holds(b, "value", r.n)
           new == [arm |-> "value", val |-> r.v]
           n == r.n
<1>1. /\ r.o \in Owners /\ r.x = r.o /\ Now.mark = mark /\ Now.cell = cell /\ Now.heap = heap
      /\ LooseThen(r) = loose /\ mark[r.o] = Absent
  BY HeapCalls DEF HeapCall, Asked, Now
<1>2. Living(loose) = Promise!LooseAfter(r)
  BY <1>1, HandedThen
<1>3. /\ e.mark[r.o] = m /\ \A x \in Owners : x # r.o => e.mark[x] = mark[x]
      /\ \A p \in Places : e.cell[p] = IF p[1] = b /\ p[2] < n THEN new ELSE cell[p]
  BY <1>1 DEF Made
<1>4. n \in 1..MaxCount /\ MaxCount \in Nat
  BY BlockMarksFit, PlacePairs
<1>5. \A i \in 1..n : e.cell[<<b, i - 1>>] = new
  <2>1. SUFFICES ASSUME NEW i \in 1..n PROVE e.cell[<<b, i - 1>>] = new
    OBVIOUS
  <2>2. i - 1 \in 0..MaxCount - 1 /\ i - 1 < n
    BY <1>4
  <2>3. <<b, i - 1>> \in Places /\ <<b, i - 1>>[1] = b /\ <<b, i - 1>>[2] = i - 1
    BY <2>2, PlacePairs
  <2> QED
    BY <1>3, <2>2, <2>3
<1>6. HeldIn(e)[r.o] = Promise!Becomes(r)
  <2>1. m.at = b /\ m.n = n /\ m # Absent
    BY Apart DEF Holds, Absent
  <2>2. LivingIn(e, m) = [i \in 1..n |-> new]
    BY <1>5, <2>1 DEF LivingIn
  <2>3. Promise!Becomes(r) = [i \in 1..n |-> new]
    BY DEF Promise!Becomes, Promise!Thing
  <2>4. HeldIn(e)[r.o] = LivingIn(e, e.mark[r.o])
    BY <1>1, <1>3, <2>1 DEF HeldIn
  <2> QED
    BY <1>3, <2>2, <2>3, <2>4
<1> DEFINE old == Keeping(Now, loose, Null)
<1>7. /\ SettledOnHeap(Now, old) /\ old[Caller] = loose /\ \A a \in Owners : old[a] = mark[a]
  BY HeapNow
<1> HIDE DEF old, new, n, m
<1>8. ASSUME NEW k \in Keepers PROVE LivingIn(e, old[k]) = Living(old[k])
  <2>1. old[k] \in BlockMarks
    BY <1>7 DEF SettledOnHeap
  <2>2. old[k].at # b
    BY <1>1, <1>7 DEF SettledOnHeap
  <2>3. \A p \in Places : p[1] = old[k].at => e.cell[p] = Now.cell[p]
    BY <1>1, <1>3, <2>2
  <2>4. LivingIn(e, old[k]) = LivingIn(Now, old[k])
    BY <2>1, <2>3, LivesThere
  <2> QED
    BY <2>4, ContentsAreHeld
<1>9. LivingIn(e, loose) = Promise!LooseAfter(r)
  BY <1>2, <1>7, <1>8, KeepersApart
<1>10. OthersSame(r, e)
  <2>1. SUFFICES ASSUME NEW k \in Owners, k # r.o PROVE HeldIn(e)[k] = Contents[k]
    BY DEF OthersSame
  <2>2. LivingIn(e, mark[k]) = Living(mark[k])
    BY <1>7, <1>8, KeepersApart
  <2>3. e.mark[k] = mark[k]
    BY <1>3, <2>1
  <2>4. HeldIn(e)[k] = IF mark[k] = Absent THEN None ELSE LivingIn(e, mark[k])
    BY <2>3 DEF HeldIn
  <2> QED
    BY <2>2, <2>4, ContentsSeen DEF Seen
<1>11. HeldIn(e) = Promise!After(r)
  BY <1>1, <1>6, <1>10, AfterIs
<1> QED
  BY <1>1, <1>9, <1>11 DEF OkEnds

\* Where nothing has been made, nothing has changed.
LEMMA NotMadeFails ==
  ASSUME AtRest, OnHeap, Now \in AllSettled(loose), NEW r, Asked(r), r.op = "make"
  PROVE  Now \in FailEnds(r, LooseThen(r))
<1>1. r.o \in Owners /\ r.x = r.o /\ r.x \in Owners /\ LooseThen(r) = loose
  BY HeapCalls DEF HeapCall, Asked
<1>2. Promise!MayThrow(r)
  BY DEF Promise!MayThrow
<1>3. HeldIn(Now) = Contents /\ LivingIn(Now, loose) = Handed
  BY HandedThen, ContentsAreHeld
<1>4. OthersSame(r, Now)
  BY <1>3 DEF OthersSame
<1>5. Contents[r.o] \in Promise!Kept(r)
  <2>1. ~Promise!SameArm(r)
    BY DEF Promise!SameArm
  <2>2. class # "optional"
    BY DEF OnHeap
  <2> QED
    BY <2>1, <2>2 DEF Promise!Kept
<1>6. HeldIn(Now) \in Promise!Failed(r)
  BY <1>1, <1>3, <1>4, <1>5, FailedIs
<1> QED
  BY <1>1, <1>2, <1>3, <1>6 DEF FailEnds

\* What the operands of such a call are promised to hold.
LEMMA PromisedOnHeap ==
  ASSUME AtRest, OnHeap, Now \in AllSettled(loose), NEW r, Asked(r)
  PROVE  /\ r.op \in {"move", "move_assign", "swap"} => Promise!Becomes(r) = Seen(mark[r.x])
         /\ r.op \in {"move", "move_assign"} => Other(r) = Seen(Null)
         /\ r.op = "swap" => Other(r) = Seen(mark[r.o])
         /\ r.op = "reset" \/ (r.op = "make" /\ r.n = 0) => Promise!Becomes(r) = Seen(Null)
         /\ r.op = "destroy" => Promise!Becomes(r) = Seen(Absent)
         /\ r.op = "reset_to" => Promise!Becomes(r) = Seen(loose)
         /\ r.op = "drop" => Promise!Becomes(r) = Seen(mark[r.o])
         /\ r.op \notin {"move", "move_assign", "swap", "copy", "copy_assign"} => r.x = r.o
<1>1. r.o \in Owners /\ r.x \in Owners /\ loose # Absent
  BY HeapNow, HeapCalls DEF HeapCall
<1>2. Contents[r.o] = Seen(mark[r.o]) /\ Contents[r.x] = Seen(mark[r.x])
  BY <1>1, ContentsSeen
<1>3. r.op \in {"move", "move_assign", "swap"} => Promise!Becomes(r) = Contents[r.x]
  BY DEF Promise!Becomes
<1>4. r.op \in {"move", "move_assign"} => Other(r) = <<>>
  BY DEF Other, Promise!Residue, Promise!OnHeap, OnHeap
<1>5. r.op = "swap" => Other(r) = Contents[r.o]
  BY DEF Other
<1>6. r.op = "reset" => Promise!Becomes(r) = <<>>
  BY DEF Promise!Becomes
<1>7. r.op = "make" /\ r.n = 0 => Promise!Becomes(r) = <<>>
  <2>1. ASSUME r.op = "make", r.n = 0 PROVE Promise!Becomes(r) = <<>>
    <3>1. Promise!Becomes(r) = [i \in 1..0 |-> Promise!Thing("value", r.v)]
      BY <2>1 DEF Promise!Becomes
    <3> QED
      BY <3>1
  <2> QED
    BY <2>1
<1>8. r.op = "destroy" => Promise!Becomes(r) = None
  BY DEF Promise!Becomes
<1>9. r.op = "reset_to" => Promise!Becomes(r) = Living(loose)
  BY DEF Promise!Becomes
<1>10. r.op = "drop" => Promise!Becomes(r) = Contents[r.o]
  BY DEF Promise!Becomes
<1>11. r.op \notin {"move", "move_assign", "swap", "copy", "copy_assign"} => r.x = r.o
  BY DEF Asked
<1>12. Living(loose) = Seen(loose)
  BY <1>1 DEF Seen
<1> QED
  BY <1>2, <1>3, <1>4, <1>5, <1>6, <1>7, <1>8, <1>9, <1>10, <1>11, <1>12, ContentsSeen

\* An owner begins with nothing, or the caller takes what it has.
LEMMA EmptyAndRelease ==
  ASSUME AtRest, OnHeap, Now \in AllSettled(loose), NEW r, Asked(r), NEW failed,
         r.op \in {"empty", "release"}
  PROVE  Runs(Now, <<Mark(r.o, Null)>>, OkEnds(r, LooseThen(r)), failed)
<1> DEFINE st == Now
<1>1. /\ st \in States /\ loose # Absent /\ SettledOnHeap(st, Keeping(st, loose, Null))
      /\ st.mark = mark
  BY HeapNow
<1>2. HeapCall(r) /\ r.x = r.o
  BY HeapCalls DEF Asked
<1> HIDE DEF st
<1>3. Gets(st, <<Mark(r.o, Null)>>, LooseThen(r), failed, r.o, Null, r.o, Null)
  <2>1. CASE r.op = "empty"
    <3>1. st.mark[r.o].at = Nowhere /\ r.o \in Owners /\ LooseThen(r) = loose
      BY <1>1, <1>2, <2>1 DEF HeapCall
    <3> QED
      BY <1>1, <3>1, LetGoRuns
  <2>2. CASE r.op = "release"
    <3>1. st.mark[r.o] # Absent /\ r.o \in Owners /\ LooseThen(r) = st.mark[r.o] /\ loose = Null
      BY <1>1, <1>2, <2>2 DEF HeapCall
    <3> QED
      BY <1>1, <3>1, LetGoRuns
  <2> QED
    BY <2>1, <2>2
<1>4. Promise!Becomes(r) = Seen(Null)
  BY ContentsSeen DEF Promise!Becomes
<1> QED
  BY <1>2, <1>3, <1>4, EndsOnHeap DEF st

\* An owner whose last word was that it has nothing exists no more.
LEMMA GoneRuns ==
  ASSUME OnHeap, NEW o \in Owners, NEW seq, NEW failed,
         Gets(Now, seq, loose, failed, o, Null, o, Null)
  PROVE  Gets(Now, seq \o <<Mark(o, Absent)>>, loose, failed, o, Absent, o, Absent)
<1>1. PICK end \in AllSettled(loose) :
        Goes(Now, seq, failed, end) /\ Leads(Now, o, Null, o, Null, end)
  BY DEF Gets
<1>2. end \in States /\ loose # Absent /\ SettledOnHeap(end, Keeping(end, loose, Null))
  BY HeapIs
<1>3. end.mark[o].at = Nowhere
  BY <1>1, BlockMarksFit DEF Leads
<1>4. Gets(end, <<Mark(o, Absent)>>, loose, failed, o, Absent, o, Absent)
  BY <1>2, <1>3, LetGoRuns
<1>5. PICK late \in AllSettled(loose) :
        Goes(end, <<Mark(o, Absent)>>, failed, late) /\ Leads(end, o, Absent, o, Absent, late)
  BY <1>4 DEF Gets
<1>6. Goes(Now, seq \o <<Mark(o, Absent)>>, failed, late)
  BY <1>1, <1>5, GoOn
<1>7. Leaves(Now, late)
  BY <1>1, <1>5, LeavesOn DEF Leads
<1>8. Leads(Now, o, Absent, o, Absent, late)
  BY <1>1, <1>5, <1>7 DEF Leads
<1> QED
  BY <1>6, <1>8 DEF Gets

\* No step of a call of unique_ptr is illegal, and each way it may end is as
\* documented.
LEMMA UniquePtrRuns ==
  ASSUME AtRest, class = "unique_ptr", Now \in AllSettled(loose), NEW r, Asked(r), NEW block,
         r.op = "make" => block \in Blocks \ heap
  PROVE  Runs(Now, UniquePtrSteps(r, block), OkEnds(r, LooseThen(r)), FailEnds(r, LooseThen(r)))
<1> DEFINE o == r.o
           x == r.x
           F == FailEnds(r, LooseThen(r))
           seq == UniquePtrSteps(r, block)
           st == Now
<1>1. OnHeap
  BY DEF OnHeap
<1>2. HeapCall(r)
  BY <1>1, HeapCalls
<1>3. o \in Owners /\ x \in Owners /\ r.v \in Values /\ st.mark = mark /\ st.heap = heap /\ st \in States
  BY <1>2 DEF HeapCall, Now
<1>4. r.op \in {"empty", "make", "move", "destroy", "move_assign", "release", "reset", "reset_to",
                "swap", "drop"}
  BY DEF Asked, Promise!Constructors, Promise!Methods
<1>5. r.op \notin {"release", "reset_to", "drop"} => LooseThen(r) = loose
  BY <1>2 DEF HeapCall
<1>6. r.op \in {"reset_to", "drop"} => LooseThen(r) = Null
  BY <1>2 DEF HeapCall
<1> HIDE DEF F
<1>7. CASE r.op \in {"empty", "release"}
  <2>1. seq = <<Mark(o, Null)>>
    BY <1>7 DEF UniquePtrSteps
  <2> QED
    BY <1>1, <1>7, <2>1, EmptyAndRelease
<1>8. CASE r.op = "make"
  <2> DEFINE last == Mark(o, Holds(block, "value", 1))
             ok == OkEnds(r, LooseThen(r))
  <2>1. seq = <<Alloc(block), NewOr(<<Free(block)>>, Only(block), "value", Arg(r.v)), last>>
    BY <1>8 DEF UniquePtrSteps
  <2>2. block \in Blocks \ st.heap /\ 1 \in Counted /\ st.mark[o].at = Nowhere
    BY <1>2, <1>3, <1>8 DEF Counted, HeapCall
  <2>3. r.n = 1
    BY DEF Asked, Promise!Counts
  <2>4. \A e \in AllSettled(loose) : Made(st, o, block, 1, r.v, e) => e \in ok
    BY <1>1, <1>3, <1>8, <2>2, <2>3, MadeIsOk
  <2>5. st \in F /\ st \in AllSettled(loose)
    BY <1>1, <1>8, NotMadeFails DEF F
  <2> HIDE DEF st, ok
  <2>6. Runs(st, <<Alloc(block)>>
                   \o [i \in 1..1 |-> NewOr(Undo(block, i - 1), <<block, i - 1>>, "value", Arg(r.v))]
                   \o <<Mark(o, Holds(block, "value", 1))>>, ok, F)
    BY <1>1, <1>3, <2>2, <2>4, <2>5, MakeRuns
  <2> HIDE DEF last, seq
  <2>7. <<Alloc(block)>>
          \o [i \in 1..1 |-> NewOr(Undo(block, i - 1), <<block, i - 1>>, "value", Arg(r.v))]
          \o <<last>> = seq
    BY <2>1, OneIsMade
  <2> QED
    BY <2>6, <2>7 DEF last, st, ok, seq, F
<1> HIDE DEF seq
<1>9. CASE r.op = "move"
  <2>1. seq = <<Mark(x, Null), Mark(o, mark[x])>>
    BY <1>9 DEF UniquePtrSteps, seq
  <2>2. o # x /\ st.mark[o].at = Nowhere
    BY <1>2, <1>3, <1>9 DEF HeapCall
  <2>3. st \in AllSettled(loose)
    OBVIOUS
  <2> HIDE DEF st
  <2>4. Gets(st, <<Mark(x, Null), Mark(o, st.mark[x])>>, loose, F, o, st.mark[x], x, Null)
    BY <1>1, <1>3, <2>2, <2>3, SwapRuns
  <2>5. Gets(Now, seq, LooseThen(r), F, o, mark[x], x, Null)
    BY <1>3, <1>5, <1>9, <2>1, <2>4 DEF st
  <2> QED
    BY <1>1, <1>9, <2>5, EndsOnHeap, PromisedOnHeap DEF F, seq
<1>10. CASE r.op = "move_assign"
  <2>1. seq = IF o = x THEN <<>> ELSE <<Mark(x, Null)>> \o Replace(o, mark[x])
    BY <1>10 DEF UniquePtrSteps, seq
  <2>2. CASE o = x
    <3>1. Leads(Now, o, mark[x], x, Null, Now) /\ Goes(Now, <<>>, F, Now)
      BY <1>3, <2>2, LeavesOn, NoSteps DEF Leads
    <3>2. Gets(Now, seq, LooseThen(r), F, o, mark[x], x, Null)
      BY <1>5, <1>10, <2>1, <2>2, <3>1 DEF Gets
    <3> QED
      BY <1>1, <1>10, <2>2, <3>2, EndsOnHeap, PromisedOnHeap DEF F, seq
  <2>3. CASE o # x
    <3>1. Gets(Now, seq, LooseThen(r), F, o, mark[x], x, Null)
      BY <1>1, <1>3, <1>5, <1>10, <2>1, <2>3, TakeRuns
    <3> QED
      BY <1>1, <1>10, <3>1, EndsOnHeap, PromisedOnHeap DEF F, seq
  <2> QED
    BY <2>2, <2>3
<1>11. CASE r.op = "reset"
  <2>1. seq = Replace(o, Null) /\ x = o
    BY <1>1, <1>11, PromisedOnHeap DEF UniquePtrSteps, seq
  <2>2. Gets(Now, seq, LooseThen(r), F, o, Null, x, Null)
    BY <1>1, <1>3, <1>5, <1>11, <2>1, DoReplace
  <2> QED
    BY <1>1, <1>11, <2>1, <2>2, EndsOnHeap, PromisedOnHeap DEF F, seq
<1>12. CASE r.op = "reset_to"
  <2>1. seq = Replace(o, loose) /\ x = o
    BY <1>1, <1>12, PromisedOnHeap DEF UniquePtrSteps, seq
  <2>2. Gets(Now, seq, LooseThen(r), F, o, loose, x, loose)
    BY <1>1, <1>3, <1>6, <1>12, <2>1, TakeRuns
  <2> QED
    BY <1>1, <1>12, <2>1, <2>2, EndsOnHeap, PromisedOnHeap DEF F, seq
<1>13. CASE r.op = "swap"
  <2>1. seq = <<Mark(o, mark[x]), Mark(x, mark[o])>>
    BY <1>13 DEF UniquePtrSteps, seq
  <2>2. st \in AllSettled(loose)
    OBVIOUS
  <2> HIDE DEF st
  <2>3. Gets(st, <<Mark(o, st.mark[x]), Mark(x, st.mark[o])>>, loose, F,
             o, st.mark[x], x, st.mark[o])
    BY <1>1, <1>3, <2>2, SwapRuns
  <2>4. Gets(Now, seq, LooseThen(r), F, o, mark[x], x, mark[o])
    BY <1>3, <1>5, <1>13, <2>1, <2>3 DEF st
  <2> QED
    BY <1>1, <1>13, <2>4, EndsOnHeap, PromisedOnHeap DEF F, seq
<1>14. CASE r.op = "destroy"
  <2>1. seq = Replace(o, Null) \o <<Mark(o, Absent)>> /\ x = o
    BY <1>1, <1>14, PromisedOnHeap DEF UniquePtrSteps, seq
  <2>2. Gets(Now, Replace(o, Null), loose, F, o, Null, o, Null)
    BY <1>1, <1>3, DoReplace
  <2>3. Gets(Now, seq, LooseThen(r), F, o, Absent, x, Absent)
    BY <1>1, <1>3, <1>5, <1>14, <2>1, <2>2, GoneRuns
  <2> QED
    BY <1>1, <1>14, <2>1, <2>3, EndsOnHeap, PromisedOnHeap DEF F, seq
<1>15. CASE r.op = "drop"
  <2>1. seq = Delete(loose) /\ x = o
    BY <1>1, <1>15, PromisedOnHeap DEF UniquePtrSteps, seq
  <2>2. Gets(Now, seq, LooseThen(r), F, o, mark[o], x, mark[o])
    BY <1>1, <1>3, <1>6, <1>15, <2>1, DropRuns
  <2> QED
    BY <1>1, <1>15, <2>1, <2>2, EndsOnHeap, PromisedOnHeap DEF F, seq
<1> QED
  BY <1>4, <1>7, <1>8, <1>9, <1>10, <1>11, <1>12, <1>13, <1>14, <1>15 DEF F, seq

\* No step of a call of boxed_slice is illegal, and each way it may end is as
\* documented.
LEMMA BoxedSliceRuns ==
  ASSUME AtRest, class = "boxed_slice", Now \in AllSettled(loose), NEW r, Asked(r), NEW block,
         r.op = "make" => block \in Blocks \ heap
  PROVE  Runs(Now, BoxedSliceSteps(r, block), OkEnds(r, LooseThen(r)), FailEnds(r, LooseThen(r)))
<1> DEFINE o == r.o
           x == r.x
           F == FailEnds(r, LooseThen(r))
           seq == BoxedSliceSteps(r, block)
           st == Now
<1>1. OnHeap
  BY DEF OnHeap
<1>2. HeapCall(r)
  BY <1>1, HeapCalls
<1>3. o \in Owners /\ x \in Owners /\ r.v \in Values /\ st.mark = mark /\ st.heap = heap /\ st \in States
  BY <1>2 DEF HeapCall, Now
<1>4. r.op \in {"empty", "make", "move", "destroy", "move_assign", "release", "reset", "drop"}
  BY DEF Asked, Promise!Constructors, Promise!Methods
<1>5. r.op \notin {"release", "drop"} => LooseThen(r) = loose
  BY <1>2, <1>4 DEF HeapCall
<1>6. r.op = "drop" => LooseThen(r) = Null
  BY <1>2 DEF HeapCall
<1>7. st \in AllSettled(loose)
  OBVIOUS
<1> HIDE DEF F
<1>8. CASE r.op \in {"empty", "release"}
  <2>1. seq = <<Mark(o, Null)>>
    BY <1>8 DEF BoxedSliceSteps
  <2> QED
    BY <1>1, <1>8, <2>1, EmptyAndRelease
<1>9. CASE r.op = "make" /\ r.n = 0
  <2>1. seq = <<Mark(o, Null)>> /\ x = o
    BY <1>1, <1>9, PromisedOnHeap DEF BoxedSliceSteps
  <2>2. st.mark[o].at = Nowhere
    BY <1>2, <1>3, <1>9 DEF HeapCall
  <2>3. loose # Absent /\ SettledOnHeap(st, Keeping(st, loose, Null))
    BY <1>1, HeapNow
  <2> HIDE DEF st, seq
  <2>4. Gets(st, <<Mark(o, Null)>>, loose, F, o, Null, o, Null)
    BY <1>1, <1>3, <2>2, <2>3, LetGoRuns
  <2>5. Gets(Now, seq, LooseThen(r), F, o, Null, x, Null)
    BY <1>5, <1>9, <2>1, <2>4 DEF st
  <2> QED
    BY <1>1, <1>9, <2>1, <2>5, EndsOnHeap, PromisedOnHeap DEF F, seq
<1>10. CASE r.op = "make" /\ r.n # 0
  <2> DEFINE ok == OkEnds(r, LooseThen(r))
  <2>1. r.n \in 1..MaxCount /\ r.n > 0 /\ r.n \in Counted
    <3>1. r.n \in 0..MaxCount
      BY DEF Asked, Promise!Counts
    <3>2. MaxCount \in Nat
      BY PlacePairs
    <3>3. r.n \in 1..MaxCount /\ r.n > 0
      BY <1>10, <3>1, <3>2
    <3> QED
      BY <3>3 DEF Counted
  <2>2. seq = <<Alloc(block)>>
                \o [i \in 1..r.n |-> NewOr(Undo(block, i - 1), <<block, i - 1>>, "value", Arg(r.v))]
                \o <<Mark(o, Holds(block, "value", r.n))>>
    BY <1>10, <2>1 DEF BoxedSliceSteps
  <2>3. block \in Blocks \ st.heap /\ st.mark[o].at = Nowhere
    BY <1>2, <1>3, <1>10 DEF HeapCall
  <2>4. \A e \in AllSettled(loose) : Made(st, o, block, r.n, r.v, e) => e \in ok
    BY <1>1, <1>3, <1>10, <2>1, <2>3, MadeIsOk
  <2>5. st \in F
    BY <1>1, <1>10, NotMadeFails DEF F
  <2> HIDE DEF st, ok
  <2>6. Runs(st, <<Alloc(block)>>
                   \o [i \in 1..r.n |-> NewOr(Undo(block, i - 1), <<block, i - 1>>, "value", Arg(r.v))]
                   \o <<Mark(o, Holds(block, "value", r.n))>>, ok, F)
    BY <1>1, <1>3, <1>7, <2>1, <2>3, <2>4, <2>5, MakeRuns
  <2> QED
    BY <2>2, <2>6 DEF st, ok, F
<1> HIDE DEF seq
<1>11. CASE r.op = "move"
  <2>1. seq = <<Mark(o, mark[x]), Mark(x, Null)>>
    BY <1>11 DEF BoxedSliceSteps, seq
  <2>2. o # x /\ st.mark[o].at = Nowhere
    BY <1>2, <1>3, <1>11 DEF HeapCall
  <2> HIDE DEF st
  <2>3. Gets(st, <<Mark(o, st.mark[x]), Mark(x, Null)>>, loose, F, o, st.mark[x], x, Null)
    BY <1>1, <1>3, <1>7, <2>2, SwapRuns
  <2>4. Gets(Now, seq, LooseThen(r), F, o, mark[x], x, Null)
    BY <1>3, <1>5, <1>11, <2>1, <2>3 DEF st
  <2> QED
    BY <1>1, <1>11, <2>4, EndsOnHeap, PromisedOnHeap DEF F, seq
<1>12. CASE r.op = "move_assign"
  <2> DEFINE take == <<Mark(o, mark[x]), Mark(x, Null)>>
  <2>1. seq = IF o = x THEN <<>> ELSE Dispose(o) \o take
    BY <1>12 DEF BoxedSliceSteps, seq
  <2>2. CASE o = x
    <3>1. Leads(Now, o, mark[x], x, Null, Now) /\ Goes(Now, <<>>, F, Now)
      BY <1>3, <2>2, LeavesOn, NoSteps DEF Leads
    <3>2. Gets(Now, seq, LooseThen(r), F, o, mark[x], x, Null)
      BY <1>5, <1>12, <2>1, <2>2, <3>1 DEF Gets
    <3> QED
      BY <1>1, <1>12, <2>2, <3>2, EndsOnHeap, PromisedOnHeap DEF F, seq
  <2>3. CASE o # x
    <3>1. mark[o] # Absent
      BY <1>2, <1>12 DEF HeapCall
    <3>2. PICK mid \in AllSettled(loose) :
            Goes(Now, Dispose(o), F, mid) /\ Leads(Now, o, Null, o, Null, mid)
      BY <1>1, <1>3, <3>1, DoDispose DEF Gets
    <3>3. mid.mark[x] = mark[x] /\ mid.mark[o].at = Nowhere
      BY <1>1, <1>3, <2>3, <3>2, BlockMarksFit DEF Leads
    <3>4. Gets(mid, <<Mark(o, mid.mark[x]), Mark(x, Null)>>, loose, F, o, mid.mark[x], x, Null)
      BY <1>1, <1>3, <2>3, <3>2, <3>3, SwapRuns
    <3>5. PICK end \in AllSettled(loose) :
            Goes(mid, take, F, end) /\ Leads(mid, o, mark[x], x, Null, end)
      BY <3>3, <3>4 DEF Gets
    <3>6. Goes(Now, Dispose(o) \o take, F, end)
      BY <3>2, <3>5, GoOn
    <3>7. Leads(Now, o, mark[x], x, Null, end)
      <4>1. Leaves(Now, end)
        BY <3>2, <3>5, LeavesOn DEF Leads
      <4> QED
        BY <3>2, <3>5, <4>1 DEF Leads
    <3>8. Gets(Now, seq, LooseThen(r), F, o, mark[x], x, Null)
      BY <1>5, <1>12, <2>1, <2>3, <3>5, <3>6, <3>7 DEF Gets
    <3> QED
      BY <1>1, <1>12, <3>8, EndsOnHeap, PromisedOnHeap DEF F, seq
  <2> QED
    BY <2>2, <2>3
<1>13. CASE r.op \in {"reset", "destroy"}
  <2>1. mark[o] # Absent /\ x = o
    BY <1>1, <1>2, <1>13, PromisedOnHeap DEF HeapCall
  <2>2. Gets(Now, Dispose(o), loose, F, o, Null, o, Null)
    BY <1>1, <1>3, <2>1, DoDispose
  <2>3. CASE r.op = "reset"
    <3>1. seq = Dispose(o)
      BY <2>3 DEF BoxedSliceSteps, seq
    <3>2. Gets(Now, seq, LooseThen(r), F, o, Null, x, Null)
      BY <1>5, <2>1, <2>2, <2>3, <3>1
    <3> QED
      BY <1>1, <2>1, <2>3, <3>2, EndsOnHeap, PromisedOnHeap DEF F, seq
  <2>4. CASE r.op = "destroy"
    <3>1. seq = Dispose(o) \o <<Mark(o, Absent)>>
      BY <2>4 DEF BoxedSliceSteps, seq
    <3>2. Gets(Now, seq, LooseThen(r), F, o, Absent, x, Absent)
      BY <1>1, <1>3, <1>5, <2>1, <2>2, <2>4, <3>1, GoneRuns
    <3> QED
      BY <1>1, <2>1, <2>4, <3>2, EndsOnHeap, PromisedOnHeap DEF F, seq
  <2> QED
    BY <1>13, <2>3, <2>4
<1>14. CASE r.op = "drop"
  <2>1. seq = Delete(loose) /\ x = o
    BY <1>1, <1>14, PromisedOnHeap DEF BoxedSliceSteps, seq
  <2>2. Gets(Now, seq, LooseThen(r), F, o, mark[o], x, mark[o])
    BY <1>1, <1>3, <1>6, <1>14, <2>1, DropRuns
  <2> QED
    BY <1>1, <1>14, <2>1, <2>2, EndsOnHeap, PromisedOnHeap DEF F, seq
<1> QED
  BY <1>4, <1>8, <1>9, <1>10, <1>11, <1>12, <1>13, <1>14 DEF F, seq

-----------------------------------------------------------------------------
(* Any call                                                                *)

\* What lives where a discriminator says.
LEMMA LivingIs ==
  ASSUME Now \in States, NEW m \in Marks, m.n > 0 => m.at \in Owners \cup Blocks
  PROVE  /\ Living(m) # None /\ (Living(m) = <<>> <=> m.n = 0)
         /\ m.n > 0 => Living(m)[1] = cell[<<m.at, 0>>]
<1>1. cell \in [Places -> Cells] /\ m.n \in 0..MaxCount /\ MaxCount \in Nat
  BY PlacePairs DEF States, Now, Marks
<1>2. \A i \in 1..m.n : cell[<<m.at, i - 1>>] \in Cells
  <2>1. ASSUME NEW i \in 1..m.n PROVE cell[<<m.at, i - 1>>] \in Cells
    <3>1. i - 1 \in 0..MaxCount - 1 /\ m.at \in Owners \cup Blocks
      BY <1>1
    <3>2. <<m.at, i - 1>> \in Places
      BY <3>1, PlacePairs
    <3> QED
      BY <1>1, <3>2
  <2> QED
    BY <2>1
<1>3. Living(m) = [i \in 1..m.n |-> cell[<<m.at, i - 1>>]]
  BY DEF Living
<1>4. Living(m) \in Seq(Cells) /\ Len(Living(m)) = m.n
  <2> DEFINE n == m.n
             c(i) == cell[<<m.at, i - 1>>]
             row == [i \in 1..n |-> c(i)]
  <2>1. n \in Nat /\ Living(m) = row /\ \A i \in 1..n : c(i) \in Cells
    BY <1>1, <1>2, <1>3
  <2> HIDE DEF n, c
  <2>2. row \in Seq(Cells) /\ Len(row) = n
    BY <2>1
  <2> QED
    BY <2>1, <2>2 DEF n
<1>5. Living(m) # None
  BY <1>4, NoneIsNothing DEF Cells
<1>6. Living(m) = <<>> <=> m.n = 0
  BY <1>1, <1>4
<1>7. m.n > 0 => Living(m)[1] = cell[<<m.at, 0>>]
  <2>1. m.n > 0 => 1 \in 1..m.n /\ 1 - 1 = 0
    BY <1>1
  <2> QED
    BY <1>3, <2>1
<1> QED
  BY <1>5, <1>6, <1>7

\* Between calls every discriminator has its type.
LEMMA MarksAre ==
  ASSUME Now \in AllSettled(loose)
  PROVE  /\ Now \in States /\ loose \in Marks /\ loose.n \in Nat
         /\ loose.n > 0 => loose.at \in Owners \cup Blocks
         /\ \A o \in Owners : mark[o] # Absent =>
              mark[o] \in Marks /\ (mark[o].n > 0 => mark[o].at \in Owners \cup Blocks)
<1>1. Now \in States /\ Settled(Now, loose)
  BY DEF AllSettled
<1>2. \A m \in Marks : m.n \in Nat
  BY PlacePairs DEF Marks
<1>3. CASE OnHeap
  <2>1. loose \in BlockMarks /\ loose # Absent /\ \A o \in Owners : mark[o] \in BlockMarks
    BY <1>3, HeapNow
  <2>2. \A m \in BlockMarks : m # Absent => m \in Marks
    BY <1>3, BlockMarksFit
  <2>3. \A m \in BlockMarks : m.n > 0 => m.at \in Blocks
    <3>1. ASSUME NEW m \in BlockMarks, m.n > 0 PROVE m.at # Nowhere
      <4>1. m.at = Nowhere => m.n = 0
        BY <1>3, BlockMarksFit
      <4> QED
        BY <3>1, <4>1
    <3> QED
      BY <1>3, <3>1, BlockMarksFit
  <2> QED
    BY <1>1, <1>2, <2>1, <2>2, <2>3
<1>4. CASE ~OnHeap
  <2>1. loose = Null /\ SettledInPlace(Now)
    BY <1>1, <1>4 DEF Settled
  <2>2. Null \in Marks /\ Null.n = 0
    BY PlacePairs DEF Null, Marks
  <2>3. \A o \in Owners : mark[o] \in OwnMarks(o)
    BY <2>1 DEF SettledInPlace, Now
  <2>4. \A o \in Owners : mark[o] # Absent => mark[o] \in Marks /\ mark[o].at = o
    BY <2>3, OwnMarksFit
  <2> QED
    BY <1>1, <2>1, <2>2, <2>4
<1> QED
  BY <1>3, <1>4

\* What callers see to, they see to.
LEMMA CallableIsAsked ==
  ASSUME AtRest, Now \in AllSettled(loose), NEW r \in Promise!Requests, Promise!Callable(r)
  PROVE  Asked(r)
<1> DEFINE held == IF AtRest THEN Contents ELSE before.held
           free == IF AtRest THEN Living(loose) ELSE before.loose
<1>1. /\ r.op \in Promise!Constructors \cup Promise!Methods
      /\ r.o \in Owners /\ r.x \in Owners /\ r.v \in Values /\ r.n \in Promise!Counts
  BY DEF Promise!Requests
<1>2. /\ (held[r.o] = None) = (r.op \in Promise!Constructors)
      /\ IF r.op \in {"copy", "move", "copy_assign", "move_assign", "swap"}
           THEN held[r.x] # None
           ELSE r.x = r.o
      /\ r.op = "emplace_self" => held[r.o][1].arm = "value"
      /\ r.op \in {"pop_back", "push_self"} => held[r.o] # <<>>
      /\ r.op \in {"reset_to", "drop"} => free # <<>>
      /\ r.op = "release" => free = <<>>
  BY DEF Promise!Callable
<1>3. held = Contents /\ free = Living(loose)
  OBVIOUS
<1> HIDE DEF held, free
<1>4. \A o \in Owners : held[o] = IF mark[o] = Absent THEN None ELSE Living(mark[o])
  BY <1>3 DEF Contents
<1>5. \A o \in Owners : mark[o] # Absent => mark[o] \in Marks /\ held[o] = Living(mark[o])
                                            /\ Living(mark[o]) # None
                                            /\ (Living(mark[o]) = <<>> <=> mark[o].n = 0)
                                            /\ mark[o].n \in Nat
  <2>1. \A m \in Marks : m.n \in Nat
    BY PlacePairs DEF Marks
  <2> QED
    BY <1>4, <2>1, MarksAre, LivingIs
<1>6. \A o \in Owners : mark[o] = Absent <=> held[o] = None
  BY <1>4, <1>5
<1>7. free = <<>> <=> loose.n = 0
  BY <1>3, MarksAre, LivingIs
<1>8. r.op = "emplace_self" => cell[Only(r.o)].arm = "value"
  <2>1. ASSUME r.op = "emplace_self" PROVE cell[Only(r.o)].arm = "value"
    <3>1. class = "expected" /\ r.op \notin Promise!Constructors
      BY <1>1, <2>1 DEF Promise!Constructors, Promise!Methods
    <3>2. mark[r.o] # Absent
      BY <1>1, <1>2, <1>6, <3>1
    <3>3. ~OnHeap
      BY <3>1 DEF OnHeap
    <3>4. mark[r.o] \in OwnMarks(r.o)
      BY <1>1, <3>3 DEF AllSettled, Settled, SettledInPlace, Now
    <3>5. mark[r.o].n = 1 /\ mark[r.o].at = r.o
      <4>1. PICK arm \in Kinds : mark[r.o] = Holds(r.o, arm, 1)
        BY <3>1, <3>2, <3>4 DEF OwnMarks
      <4> QED
        BY <4>1 DEF Holds
    <3>6. Living(mark[r.o])[1] = cell[<<r.o, 0>>]
      BY <1>1, <1>5, <3>2, <3>5, MarksAre, LivingIs
    <3>7. held[r.o] = Living(mark[r.o])
      BY <1>1, <1>5, <3>2
    <3> QED
      BY <1>2, <2>1, <3>6, <3>7 DEF Only
  <2> QED
    BY <2>1
<1>9. r.op \in {"pop_back", "push_self"} => mark[r.o].n > 0
  <2>1. ASSUME r.op \in {"pop_back", "push_self"} PROVE mark[r.o].n > 0
    <3>1. r.op \notin Promise!Constructors
      BY <1>1, <2>1 DEF Promise!Constructors
    <3>2. mark[r.o] # Absent
      BY <1>1, <1>2, <1>6, <3>1
    <3> QED
      BY <1>1, <1>2, <1>5, <2>1, <3>2
  <2> QED
    BY <2>1
<1>10. (r.op \in {"reset_to", "drop"} => loose.n > 0) /\ (r.op = "release" => loose.n = 0)
  BY <1>2, <1>7, MarksAre
<1>11. mark[r.o] = Absent <=> r.op \in Promise!Constructors
  BY <1>1, <1>2, <1>6
<1>12. IF r.op \in {"copy", "move", "copy_assign", "move_assign", "swap"}
         THEN mark[r.x] # Absent
         ELSE r.x = r.o
  BY <1>1, <1>2, <1>6
<1> QED
  BY <1>1, <1>8, <1>9, <1>10, <1>11, <1>12 DEF Asked

\* No step of any call is illegal, and each way it may end is as documented.
LEMMA StepsRun ==
  ASSUME AtRest, class \in Promise!Classes, Now \in AllSettled(loose), NEW r, Asked(r), NEW block,
         r.op = "make" => block \in Blocks \ heap
  PROVE  Runs(Now, Steps(r, block), OkEnds(r, LooseThen(r)), FailEnds(r, LooseThen(r)))
<1>1. class \in {"expected", "optional", "inplace_vector", "unique_ptr", "boxed_slice"}
  BY DEF Promise!Classes
<1>2. CASE class \in {"expected", "optional", "inplace_vector"}
  <2>1. LooseThen(r) = Null
    BY <1>2, NothingLoose
  <2>2. CASE class = "expected"
    BY <2>1, <2>2, ExpectedRuns DEF Steps
  <2>3. CASE class = "optional"
    BY <2>1, <2>3, OptionalRuns DEF Steps
  <2>4. CASE class = "inplace_vector"
    BY <2>1, <2>4, VectorRuns DEF Steps
  <2> QED
    BY <1>2, <2>2, <2>3, <2>4
<1>3. CASE class = "unique_ptr"
  BY <1>3, UniquePtrRuns DEF Steps
<1>4. CASE class = "boxed_slice"
  BY <1>4, BoxedSliceRuns DEF Steps
<1> QED
  BY <1>1, <1>2, <1>3, <1>4

-----------------------------------------------------------------------------
(* The program                                                             *)

\* What runs starts in a state, and has ended when no step is left.
LEMMA RunsFrom ==
  ASSUME NEW st, NEW seq, NEW ok, NEW failed, Runs(st, seq, ok, failed)
  PROVE  st \in States /\ (seq = <<>> => st \in ok)
<1>1. PICK end, t : end \in ok /\ Path(t, st, seq, end)
  BY DEF Runs, Goes
<1>2. /\ Sequential(seq) /\ t \in [0..Len(seq) -> States] /\ t[0] = st /\ t[Len(seq)] = end
  BY <1>1 DEF Path
<1>3. Len(seq) \in Nat
  BY <1>2 DEF Sequential
<1>4. st \in States
  BY <1>2, <1>3
<1>5. seq = <<>> => Len(seq) = 0
  OBVIOUS
<1> QED
  BY <1>1, <1>2, <1>4, <1>5

\* A step does what is known of it.
LEMMA StepIsResult ==
  ASSUME Construct \/ Destroy \/ SetMark \/ Allocate \/ Release
  PROVE  todo # <<>> /\ Now' = Result(Now, Head(todo)) /\ todo' = Tail(todo)
<1> DEFINE s == Head(todo)
<1>1. CASE Construct
  <2>1. Builds(s) /\ todo # <<>> /\ todo' = Tail(todo) /\ mark' = mark /\ heap' = heap
    BY <1>1 DEF Construct, Do, Builds
  <2>2. cell' = [Left(s.from) EXCEPT ![s.at] = [arm |-> s.arm, val |-> Read(s.from)]]
    BY <1>1 DEF Construct
  <2>3. cell' = CellResult(cell, s)
    BY <2>1, <2>2 DEF CellResult, Left, Read, Rest, Source
  <2> QED
    BY <2>1, <2>3 DEF Now, Result, Builds
<1>2. CASE Destroy
  BY <1>2 DEF Destroy, Do, Now, Result, CellResult, Builds
<1>3. CASE SetMark
  BY <1>3 DEF SetMark, Do, Now, Result, CellResult, Builds
<1>4. CASE Allocate
  BY <1>4 DEF Allocate, Do, Now, Result, CellResult, Builds
<1>5. CASE Release
  BY <1>5 DEF Release, Do, Now, Result, CellResult, Builds
<1> QED
  BY <1>1, <1>2, <1>3, <1>4, <1>5

\* An exception loses what may be lost.
LEMMA ThrowIsLoss ==
  ASSUME Throw
  PROVE  /\ todo # <<>> /\ Builds(Head(todo)) /\ Head(todo).throws /\ todo' = Head(todo).unwind
         /\ \E some \in SUBSET Loses(Head(todo)) : Now' = WithLoss(Now, some)
<1> DEFINE s == Head(todo)
<1>1. todo # <<>> /\ Builds(s) /\ s.throws /\ todo' = s.unwind /\ mark' = mark /\ heap' = heap
  BY DEF Throw, Do, Builds
<1>2. PICK some \in SUBSET Loses(s) :
        cell' = [p \in Places |-> IF p \in some THEN [cell[p] EXCEPT !.val = Moved] ELSE cell[p]]
  BY DEF Throw, Loses
<1>3. Now' = WithLoss(Now, some)
  BY <1>1, <1>2 DEF Now, WithLoss
<1> QED
  BY <1>1, <1>3

\* Where calls may end depends on what owners are.
LEMMA ClassDecides ==
  ASSUME class' = class
  PROVE  \A l : AllSettled(l)' = AllSettled(l)
<1>1. OnHeap' = OnHeap /\ Counted' = Counted
  BY DEF OnHeap, Counted
<1>2. BlockMarks' = BlockMarks
  BY <1>1 DEF BlockMarks
<1>3. \A o : OwnMarks(o)' = OwnMarks(o)
  BY DEF OwnMarks
<1>4. \A st, keep : SettledOnHeap(st, keep)' <=> SettledOnHeap(st, keep)
  BY <1>2 DEF SettledOnHeap
<1>5. \A st : SettledInPlace(st)' <=> SettledInPlace(st)
  BY <1>3 DEF SettledInPlace
<1>6. \A st, l : Settled(st, l)' <=> Settled(st, l)
  BY <1>1, <1>4, <1>5 DEF Settled
<1> QED
  BY <1>6 DEF AllSettled

\* What is promised of a call depends on what was there when it began.
LEMMA PromiseIsKept ==
  ASSUME class' = class, Held' = Held, Handed' = Handed
  PROVE  \A r, l : OkEnds(r, l)' = OkEnds(r, l) /\ FailEnds(r, l)' = FailEnds(r, l)
<1>1. \A l : AllSettled(l)' = AllSettled(l)
  BY ClassDecides
<1>2. \A c : Promise!Residue(c)' = Promise!Residue(c)
  BY DEF Promise!Residue, Promise!OnHeap
<1>3. \A r : Promise!Becomes(r)' = Promise!Becomes(r)
  BY DEF Promise!Becomes, Promise!Full, Held, Handed
<1>4. \A r : Promise!After(r)' = Promise!After(r)
  BY <1>2, <1>3 DEF Promise!After, Held
<1>5. \A r : Promise!LooseAfter(r)' = Promise!LooseAfter(r)
  BY DEF Promise!LooseAfter, Held, Handed
<1>6. \A r : Promise!MayThrow(r)' = Promise!MayThrow(r)
  BY DEF Promise!MayThrow, Promise!OnHeap
<1>7. \A r : Promise!SameArm(r)' = Promise!SameArm(r)
  BY DEF Promise!SameArm, Held
<1>8. Promise!Constructors' = Promise!Constructors
  BY DEF Promise!Constructors
<1>9. \A r : Promise!Kept(r)' = Promise!Kept(r)
  BY <1>2, <1>7, <1>8 DEF Promise!Kept, Held
<1>10. \A r : Promise!Source(r)' = Promise!Source(r)
  BY <1>2 DEF Promise!Source, Held
<1>11. \A r : Promise!Failed(r)' = Promise!Failed(r)
  BY <1>9, <1>10 DEF Promise!Failed, Held
<1>12. \A r, l : OkEnds(r, l)' = OkEnds(r, l)
  BY <1>1, <1>4, <1>5 DEF OkEnds
<1>13. \A r, l : FailEnds(r, l)' = FailEnds(r, l)
  BY <1>1, <1>6, <1>11 DEF FailEnds
<1> QED
  BY <1>12, <1>13

\* Where the call in progress may end, after an exception and without one.
Due == IF status = "ok" THEN OkEnds(request, loose) ELSE FailEnds(request, loose)

\* During a call there is a way to its end, whatever throws: every state it
\* may still reach allows the step that is next there, and the last tells the
\* truth and holds what was promised.
IInv ==
  /\ class \in Promise!Classes
  /\ loose \in Marks
  /\ status \in {"ok", "failed", "trapped"}
  /\ AtRest => todo = <<>> /\ Now \in AllSettled(loose)
  /\ ~AtRest =>
       /\ status # "trapped"
       /\ request.op \in Promise!Constructors \cup Promise!Methods
       /\ before.held = [o \in Owners |-> before.held[o]]
       /\ Runs(Now, todo, Due, FailEnds(request, loose))

\* However a call ends, every discriminator tells the truth.
LEMMA EndsSettle ==
  ASSUME NEW st, st \in Due \/ st \in FailEnds(request, loose)
  PROVE  st \in AllSettled(loose)
BY DEF Due, OkEnds, FailEnds

\* At first nothing exists.
LEMMA InitIInv == Init => IInv
<1> SUFFICES ASSUME Init PROVE IInv
  OBVIOUS
<1>1. /\ class \in Promise!Classes /\ loose = Null /\ status = "ok" /\ AtRest /\ todo = <<>>
      /\ cell = [p \in Places |-> Dead] /\ mark = [o \in Owners |-> Absent] /\ heap = {}
  BY DEF Init, AtRest
<1>2. Null \in Marks /\ Null # Absent /\ Dead \in Cells /\ Dead.arm = "dead"
  BY PlacePairs DEF Null, Absent, Marks, Cells, Dead
<1>3. Now \in States
  BY <1>1, <1>2 DEF Now, States, MarksOrNone
<1>4. /\ Now.heap = {} /\ (\A o \in Owners : Now.mark[o] = Absent)
      /\ \A p \in Places : Now.cell[p].arm = "dead"
  BY <1>1, <1>2 DEF Now
<1>5. Settled(Now, loose)
  <2>1. CASE OnHeap
    <3> DEFINE keep == Keeping(Now, loose, Null)
    <3>1. Absent \in BlockMarks /\ Null \in BlockMarks /\ Absent.at = Nowhere /\ Null.at = Nowhere
      BY <2>1, BlockMarksFit
    <3>2. keep[Caller] = Null /\ keep[Doomed] = Null /\ \A o \in Owners : keep[o] = Absent
      BY <1>1, <1>4, KeepingIs
    <3>3. keep = [k \in Keepers |-> keep[k]]
      BY DEF Keeping
    <3> HIDE DEF keep
    <3>4. \A k \in Keepers : keep[k] \in BlockMarks /\ keep[k].at = Nowhere
      BY <3>1, <3>2 DEF Keepers
    <3>5. keep \in [Keepers -> BlockMarks]
      BY <3>3, <3>4
    <3>6. \A b \in Blocks : b # Nowhere
      BY Apart
    <3>7. SettledOnHeap(Now, keep)
      BY <1>4, <3>4, <3>5, <3>6 DEF SettledOnHeap
    <3> QED
      BY <1>1, <1>2, <2>1, <3>7 DEF Settled, keep
  <2>2. CASE ~OnHeap
    <3>1. \A o \in Owners : Absent \in OwnMarks(o)
      BY DEF OwnMarks
    <3>2. \A p \in Places : p[2] \in Nat /\ ~(p[2] < 0)
      BY PlacePairs
    <3>3. \A p \in Places : ArmAt(Absent, p[2]) = "dead"
      BY <3>2 DEF ArmAt, Absent
    <3>4. SettledInPlace(Now)
      BY <1>4, <3>1, <3>3 DEF SettledInPlace
    <3> QED
      BY <1>1, <2>2, <3>4 DEF Settled
  <2> QED
    BY <2>1, <2>2
<1>6. Now \in AllSettled(loose)
  BY <1>3, <1>5 DEF AllSettled
<1> QED
  BY <1>1, <1>2, <1>6 DEF IInv

\* What can be asked for is not nothing.
LEMMA RequestIsCall ==
  ASSUME NEW r \in Promise!Requests
  PROVE  r # None
<1>1. r \in [op : Operations, o : Owners, x : Owners, v : Values, n : Nat]
  <2>1. Promise!Constructors \subseteq Operations /\ Promise!Methods \subseteq Operations
    BY DEF Promise!Constructors, Promise!Methods, Operations
  <2>2. Promise!Counts \subseteq Nat
    BY PlacePairs DEF Promise!Counts
  <2> QED
    BY <2>1, <2>2 DEF Promise!Requests
<1> QED
  BY <1>1, NoneIsNothing

\* A call begins.
LEMMA CallKeeps ==
  ASSUME IInv, NEW r \in Promise!Requests, NEW block, r.op = "make" => block \in Blocks \ heap,
         Call(r, block)
  PROVE  IInv'
<1>1. /\ AtRest /\ Promise!Callable(r) /\ request' = r /\ status' = "ok"
      /\ todo' = Steps(r, block) /\ class' = class
      /\ cell' = cell /\ mark' = mark /\ heap' = heap
  BY DEF Call
<1>2. loose' = LooseThen(r)
  BY DEF Call, LooseThen
<1>3. class \in Promise!Classes /\ Now \in AllSettled(loose)
  BY <1>1 DEF IInv
<1>4. Asked(r)
  BY <1>1, <1>3, CallableIsAsked
<1>5. Runs(Now, Steps(r, block), OkEnds(r, LooseThen(r)), FailEnds(r, LooseThen(r)))
  BY <1>1, <1>3, <1>4, StepsRun
<1>6. Now' = Now
  BY <1>1 DEF Now
<1>7. r # None
  BY RequestIsCall
<1>8. ~AtRest'
  BY <1>1, <1>7 DEF AtRest
<1>9. /\ before' = [held |-> Contents, loose |-> Living(loose)]
      /\ before'.held = Contents /\ before'.loose = Living(loose)
  BY DEF Call
<1>10. /\ Due' = OkEnds(r, LooseThen(r))
       /\ FailEnds(request, loose)' = FailEnds(r, LooseThen(r))
  <2>1. Held' = Held /\ Handed' = Handed
    BY <1>1, <1>8, <1>9 DEF Held, Handed
  <2>2. PICK l : l = LooseThen(r)
    OBVIOUS
  <2>3. OkEnds(r, l)' = OkEnds(r, l) /\ FailEnds(r, l)' = FailEnds(r, l)
    BY <1>1, <2>1, PromiseIsKept
  <2>4. Due' = OkEnds(r, l)' /\ FailEnds(request, loose)' = FailEnds(r, l)'
    BY <1>1, <1>2, <2>2 DEF Due
  <2> QED
    BY <2>2, <2>3, <2>4
<1>12. before'.held = [k \in Owners |-> before'.held[k]]
  BY <1>9 DEF Contents
<1>13. r.op \in (Promise!Constructors \cup Promise!Methods)'
  <2>1. Promise!Constructors' = Promise!Constructors /\ Promise!Methods' = Promise!Methods
    BY <1>1 DEF Promise!Constructors, Promise!Methods
  <2> QED
    BY <1>4, <2>1 DEF Asked
<1>14. Runs(Now', todo', Due', FailEnds(request, loose)')
  BY <1>1, <1>5, <1>6, <1>10
<1>11. loose' \in Marks
  <2>1. Null \in Marks
    BY PlacePairs DEF Null, Marks
  <2>2. r.op = "release" => mark[r.o] \in Marks
    <3>1. ASSUME r.op = "release" PROVE mark[r.o] # Absent
      BY <1>4, <3>1 DEF Asked, Promise!Constructors
    <3> QED
      BY <1>3, <1>4, <3>1, MarksAre DEF Asked
  <2> QED
    BY <1>2, <2>1, <2>2 DEF LooseThen, IInv
<1> QED
  BY <1>1, <1>3, <1>8, <1>11, <1>12, <1>13, <1>14 DEF IInv

\* A step is taken, or fails.
LEMMA StepKeeps ==
  ASSUME IInv, Step \/ GiveUp
  PROVE  IInv'
<1> DEFINE F == FailEnds(request, loose)
           D == Due
           s == Head(todo)
<1>1. /\ class' = class /\ loose' = loose /\ request' = request /\ before' = before
      /\ Step => status' = status
      /\ GiveUp => status' = "failed"
  BY DEF Step, GiveUp, InCall
<1>2. todo # <<>>
  BY StepIsResult, ThrowIsLoss DEF Step, GiveUp, OutOfMemory, Do
<1>3. ~AtRest /\ ~AtRest'
  BY <1>1, <1>2 DEF IInv, AtRest
<1>4. Runs(Now, todo, D, F) /\ status \in {"ok", "failed"}
  BY <1>3 DEF IInv
<1>5. /\ Now \in States /\ MayDo(Now, s) /\ Safe(Now, s, F)
      /\ Runs(Result(Now, s), Tail(todo), D, F)
  BY <1>2, <1>4, FirstStep
<1>6. FailEnds(request, loose)' = F /\ (Step => Due' = D) /\ (GiveUp => Due' = F)
  <2>1. Held' = Held /\ Handed' = Handed
    BY <1>1, <1>3 DEF Held, Handed
  <2>2. PICK q, l : q = request /\ l = loose
    OBVIOUS
  <2>3. OkEnds(q, l)' = OkEnds(q, l) /\ FailEnds(q, l)' = FailEnds(q, l)
    BY <1>1, <2>1, PromiseIsKept
  <2>4. /\ OkEnds(request, loose)' = OkEnds(q, l)' /\ FailEnds(request, loose)' = FailEnds(q, l)'
        /\ OkEnds(request, loose) = OkEnds(q, l) /\ F = FailEnds(q, l)
    BY <1>1, <2>2
  <2>5. OkEnds(request, loose)' = OkEnds(request, loose) /\ FailEnds(request, loose)' = F
    BY <2>3, <2>4
  <2> QED
    BY <1>1, <2>5 DEF Due
<1> HIDE DEF F, D
<1>7. Runs(Now', todo', Due', FailEnds(request, loose)')
  <2>1. CASE Step
    BY <1>5, <1>6, <2>1, StepIsResult DEF Step
  <2>2. CASE GiveUp /\ Throw
    <3>1. Builds(s) /\ s.throws /\ todo' = s.unwind
      BY <2>2, ThrowIsLoss
    <3>2. PICK some \in SUBSET Loses(s) : Now' = WithLoss(Now, some)
      BY <2>2, ThrowIsLoss
    <3>3. Unwinds(WithLoss(Now, some), s.unwind, F)
      BY <1>5, <3>1 DEF Safe
    <3>4. Runs(WithLoss(Now, some), s.unwind, F, F)
      BY <3>3, UnwindsRun
    <3> QED
      BY <1>6, <2>2, <3>1, <3>2, <3>4
  <2>3. CASE GiveUp /\ OutOfMemory
    <3>1. s.do = "alloc" /\ todo' = <<>> /\ Now' = Now
      BY <2>3 DEF OutOfMemory, Do, Now
    <3>2. Now \in F
      BY <1>5, <3>1 DEF Safe
    <3> QED
      BY <1>5, <1>6, <2>3, <3>1, <3>2, NoSteps DEF Runs
  <2> QED
    BY <2>1, <2>2, <2>3 DEF GiveUp
<1>8. request'.op \in (Promise!Constructors \cup Promise!Methods)'
  <2>1. Promise!Constructors' = Promise!Constructors /\ Promise!Methods' = Promise!Methods
    BY <1>1 DEF Promise!Constructors, Promise!Methods
  <2> QED
    BY <1>1, <1>3, <2>1 DEF IInv
<1>9. status' \in {"ok", "failed"}
  BY <1>1, <1>4
<1> QED
  BY <1>1, <1>3, <1>7, <1>8, <1>9 DEF IInv

\* A call is over.
LEMMA ReturnKeeps ==
  ASSUME IInv, Return
  PROVE  IInv'
<1>1. /\ ~AtRest /\ todo = <<>> /\ request' = None /\ status' \in {status, "trapped"}
      /\ class' = class /\ loose' = loose /\ cell' = cell /\ mark' = mark /\ heap' = heap
      /\ todo' = todo
  BY DEF Return, raw
<1>2. Now \in AllSettled(loose)
  BY <1>1, RunsFrom, EndsSettle DEF IInv
<1>3. Now' = Now /\ AtRest'
  BY <1>1 DEF Now, AtRest
<1>4. AllSettled(loose)' = AllSettled(loose)
  BY <1>1, ClassDecides
<1> QED
  BY <1>1, <1>2, <1>3, <1>4 DEF IInv

\* The invariant is inductive.
LEMMA IInvInductive == Spec => []IInv
<1>1. IInv /\ [Next]_vars => IInv'
  <2> SUFFICES ASSUME IInv, [Next]_vars PROVE IInv'
    OBVIOUS
  <2>1. ASSUME NEW r \in Promise!Requests,
               IF r.op = "make" THEN \E block \in Blocks \ heap : Call(r, block) ELSE Call(r, Nowhere)
        PROVE  IInv'
    <3>1. PICK block : Call(r, block) /\ (r.op = "make" => block \in Blocks \ heap)
      BY <2>1
    <3> QED
      BY <3>1, CallKeeps
  <2>2. CASE Step \/ GiveUp
    BY <2>2, StepKeeps
  <2>3. CASE Return
    BY <2>3, ReturnKeeps
  <2>4. CASE UNCHANGED vars
    <3>1. /\ class' = class /\ loose' = loose /\ status' = status /\ request' = request
          /\ cell' = cell /\ mark' = mark /\ heap' = heap /\ todo' = todo /\ before' = before
      BY <2>4 DEF vars, raw
    <3>2. Now' = Now /\ AtRest' = AtRest
      BY <3>1 DEF Now, AtRest
    <3>3. AllSettled(loose)' = AllSettled(loose)
      BY <3>1, ClassDecides
    <3>4. Held' = Held /\ Handed' = Handed
      <4>1. Contents' = Contents /\ Living(loose)' = Living(loose)
        BY <3>1 DEF Contents, Living
      <4> QED
        BY <3>1, <3>2, <4>1 DEF Held, Handed
    <3>5. OkEnds(request, loose)' = OkEnds(request, loose)
          /\ FailEnds(request, loose)' = FailEnds(request, loose)
      BY <3>1, <3>4, PromiseIsKept
    <3>6. Due' = Due
      BY <3>1, <3>5 DEF Due
    <3>7. Promise!Constructors' = Promise!Constructors /\ Promise!Methods' = Promise!Methods
      BY <3>1 DEF Promise!Constructors, Promise!Methods
    <3> QED
      BY <3>1, <3>2, <3>3, <3>5, <3>6, <3>7 DEF IInv
  <2> QED
    BY <2>1, <2>2, <2>3, <2>4 DEF Next
<1> QED
  BY InitIInv, <1>1, PTL DEF Spec

-----------------------------------------------------------------------------
(* What follows                                                            *)

\* Between calls and in them, what the steps work on is a state.
LEMMA NowIsState ==
  ASSUME IInv
  PROVE  Now \in States
<1>1. CASE AtRest
  BY <1>1 DEF IInv, AllSettled
<1>2. CASE ~AtRest
  BY <1>2, RunsFrom DEF IInv
<1> QED
  BY <1>1, <1>2

\* What every variable of the owning types may be: an object, or none, in each
\* place of each owner, block or local variable.
THEOREM TypeCorrect == Spec => []TypeOK
<1>1. IInv => TypeOK
  <2> SUFFICES ASSUME IInv PROVE TypeOK
    OBVIOUS
  <2>1. Now \in States
    BY NowIsState
  <2>2. /\ cell \in [Places -> Cells] /\ mark \in [Owners -> MarksOrNone] /\ heap \in SUBSET Blocks
    BY <2>1 DEF Now, States
  <2> QED
    BY <2>2 DEF IInv, TypeOK, Cells, MarksOrNone
<1> QED
  BY IInvInductive, <1>1, PTL

\* No step of any sequence of calls of expected, optional, inplace_vector,
\* unique_ptr or boxed_slice, whichever constructors, assignments and
\* allocations fail, builds an object over a living one, uses or destroys one
\* that is dead or of the other arm, touches a block that is not allocated, or
\* frees a block with objects in it.
THEOREM NoStepIsIllegal == Spec => []StepsAreLegal
<1>1. IInv => StepsAreLegal
  <2> SUFFICES ASSUME IInv, todo # <<>> PROVE Legal
    BY DEF StepsAreLegal, Legal
  <2> DEFINE s == Head(todo)
             Lives(p) == cell[p] # Dead
  <2>1. Runs(Now, todo, Due, FailEnds(request, loose))
    BY DEF IInv
  <2>2. Now \in States /\ MayDo(Now, s)
    BY <2>1, FirstStep
  <2>3. cell \in [Places -> Cells] /\ Now.cell = cell /\ Now.heap = heap
    BY <2>2 DEF Now, States
  <2>4. \A p \in Places : Lives(p) <=> cell[p].arm # "dead"
    BY <2>3, CellKinds
  <2> HIDE DEF s
  <2>5. CASE s.do \in {"new", "assign"}
    <3>1. /\ s.at \in Places /\ s.arm \in Kinds /\ There(Now, s.from, s.arm)
          /\ s.do = "new" => cell[s.at].arm = "dead" /\ (s.at[1] \in Blocks => s.at[1] \in heap)
          /\ s.do = "assign" => cell[s.at].arm = s.arm /\ s.from.by # "arg"
      BY <2>2, <2>3, <2>5 DEF MayDo
    <3>2. s.arm # "dead"
      BY <3>1 DEF Kinds
    <3>3. s.from.by # "arg" =>
            /\ s.from.of \in Places /\ cell[s.from.of].arm = s.arm /\ Lives(s.from.of)
      BY <2>3, <2>4, <3>1, <3>2 DEF There
    <3>4. s.do = "new" => ~Lives(s.at)
      BY <2>4, <3>1
    <3>5. s.do = "assign" => Lives(s.at)
      BY <2>4, <3>1, <3>2
    <3> QED
      BY <2>5, <3>1, <3>3, <3>4, <3>5 DEF Legal, s
  <2>6. CASE s.do = "end"
    <3>1. s.at \in Places /\ s.arm \in Kinds /\ cell[s.at].arm = s.arm
      BY <2>2, <2>3, <2>6 DEF MayDo
    <3>2. Lives(s.at)
      BY <2>4, <3>1 DEF Kinds
    <3> QED
      BY <2>6, <3>1, <3>2 DEF Legal, s
  <2>7. CASE s.do = "mark"
    BY <2>7 DEF Legal, s
  <2>8. CASE s.do = "alloc"
    <3>1. s.block \notin heap
      BY <2>2, <2>3, <2>8 DEF MayDo
    <3> QED
      BY <2>8, <3>1 DEF Legal, s
  <2>9. CASE s.do = "free"
    <3>1. s.block \in heap /\ \A i \in 0..MaxCount - 1 : cell[<<s.block, i>>].arm = "dead"
      BY <2>2, <2>3, <2>9 DEF MayDo
    <3>2. s.block \in Blocks
      BY <2>2, <2>3, <3>1 DEF States
    <3>3. \A i \in 0..MaxCount - 1 : ~Lives(<<s.block, i>>)
      BY <2>4, <3>1, <3>2, PlacePairs
    <3> QED
      BY <2>9, <3>1, <3>3 DEF Legal, s
  <2>10. s.do \in {"new", "assign", "end", "mark", "alloc", "free"}
    BY <2>2 DEF MayDo
  <2> QED
    BY <2>5, <2>6, <2>7, <2>8, <2>9, <2>10
<1> QED
  BY IInvInductive, <1>1, PTL

\* Whose discriminators name the object at a place.
OwnersOf(p) == {o \in Owners : mark[o].at = p[1] /\ p[2] < mark[o].n}
LetGo(p) == loose.at = p[1] /\ p[2] < loose.n

\* Where all discriminators tell the truth.
OwnedOnce ==
  /\ \A p \in Places :
       /\ cell[p] # Dead <=> OwnersOf(p) # {} \/ LetGo(p)
       /\ \A o \in OwnersOf(p) : cell[p].arm = mark[o].arm
  /\ heap = ({mark[o].at : o \in Owners} \cup {loose.at}) \cap Blocks
  /\ \A o, x \in Owners : o # x /\ mark[o].at # Nowhere => mark[o].at # mark[x].at
  /\ loose.at # Nowhere => \A o \in Owners : mark[o].at # loose.at

\* It is what the specification asks for.
LEMMA OwnedOnceIs == (AtRest => OwnedOnce) => EverythingOwnedOnce
BY DEF EverythingOwnedOnce, OwnedOnce, OwnersOf, LetGo

\* They do where owners keep their objects in themselves.
LEMMA OwnedInPlace ==
  ASSUME ~OnHeap, Now \in AllSettled(loose)
  PROVE  OwnedOnce
<1>1. Now \in States /\ loose = Null /\ SettledInPlace(Now)
  BY DEF AllSettled, Settled
<1>2. /\ cell \in [Places -> Cells] /\ mark \in [Owners -> MarksOrNone] /\ heap = {}
      /\ \A o \in Owners : mark[o] \in OwnMarks(o)
      /\ \A p \in Places : cell[p].arm = IF p[1] \in Owners THEN ArmAt(mark[p[1]], p[2]) ELSE "dead"
  BY <1>1 DEF Now, States, SettledInPlace
<1>3. loose.at = Nowhere /\ loose.n = 0
  BY <1>1 DEF Null
<1>4. \A o \in Owners : /\ mark[o].n \in 0..MaxCount
                        /\ mark[o].at = o \/ (mark[o].at = Nowhere /\ mark[o].n = 0)
                        /\ mark[o].n > 0 => mark[o].arm \in Kinds
  BY <1>2, OwnMarksFit DEF Absent
<1>5. \A p \in Places : p[2] \in 0..MaxCount - 1
  BY PlacePairs
<1>6. \A p \in Places : ~LetGo(p)
  BY <1>3, <1>5 DEF LetGo
<1>7. \A p \in Places : \A o \in OwnersOf(p) : o = p[1] /\ p[2] < mark[o].n
  BY <1>4, <1>5 DEF OwnersOf
<1>8. \A p \in Places : cell[p] # Dead <=> cell[p].arm # "dead"
  BY <1>2, CellKinds
<1>9. ASSUME NEW p \in Places
      PROVE  /\ cell[p] # Dead <=> OwnersOf(p) # {}
             /\ \A o \in OwnersOf(p) : cell[p].arm = mark[o].arm
  <2>1. \A o \in OwnersOf(p) : cell[p].arm = mark[o].arm /\ mark[o].arm \in Kinds
    <3>1. SUFFICES ASSUME NEW o \in OwnersOf(p)
                   PROVE  cell[p].arm = mark[o].arm /\ mark[o].arm \in Kinds
      OBVIOUS
    <3>2. o \in Owners /\ o = p[1] /\ p[2] < mark[o].n
      BY <1>7 DEF OwnersOf
    <3>3. mark[o].n > 0
      BY <1>4, <1>5, <3>2
    <3> QED
      BY <1>2, <1>4, <3>2, <3>3 DEF ArmAt
  <2>2. OwnersOf(p) # {} => cell[p].arm # "dead"
    BY <2>1 DEF Kinds
  <2>3. ASSUME cell[p].arm # "dead" PROVE p[1] \in OwnersOf(p)
    <3>1. p[1] \in Owners /\ p[2] < mark[p[1]].n
      BY <1>2, <2>3 DEF ArmAt
    <3>2. mark[p[1]].n \in Nat /\ mark[p[1]].n # 0
      BY <1>4, <1>5, <3>1
    <3>3. mark[p[1]].at = p[1]
      BY <1>4, <3>1, <3>2
    <3> QED
      BY <3>1, <3>3 DEF OwnersOf
  <2> QED
    BY <1>8, <2>1, <2>2, <2>3
<1>10. heap = ({mark[o].at : o \in Owners} \cup {loose.at}) \cap Blocks
  BY <1>2, <1>3, <1>4, Apart, PlacesAreDistinct
<1> QED
  BY <1>3, <1>4, <1>6, <1>9, <1>10 DEF OwnedOnce

\* They do where owners keep them in blocks.
LEMMA OwnedOnHeap ==
  ASSUME OnHeap, Now \in AllSettled(loose)
  PROVE  OwnedOnce
<1> DEFINE keep == Keeping(Now, loose, Null)
<1>1. Now \in States /\ SettledOnHeap(Now, keep)
  BY HeapStates
<1>2. /\ cell \in [Places -> Cells] /\ heap \in SUBSET Blocks
      /\ Now.cell = cell /\ Now.heap = heap /\ Now.mark = mark
  BY <1>1 DEF Now, States
<1>3. /\ keep[Caller] = loose /\ keep[Doomed] = Null
      /\ \A o \in Owners : keep[o] = mark[o]
  BY <1>2, KeepingIs
<1> HIDE DEF keep
<1>4. /\ keep \in [Keepers -> BlockMarks]
      /\ \A k, j \in Keepers : k # j /\ keep[k].at # Nowhere => keep[k].at # keep[j].at
      /\ \A b \in Blocks : b \in heap <=> \E k \in Keepers : keep[k].at = b
      /\ \A k \in Keepers : keep[k].at # Nowhere =>
           \A i \in 0..MaxCount - 1 : cell[<<keep[k].at, i>>].arm = ArmAt(keep[k], i)
      /\ \A p \in Places : p[1] \notin heap => cell[p].arm = "dead"
  BY <1>1, <1>2 DEF SettledOnHeap
<1>5. \A k \in Keepers :
        /\ keep[k].at = Nowhere => keep[k].n = 0
        /\ keep[k].at # Nowhere =>
             keep[k].at \in Blocks /\ keep[k].n \in 1..MaxCount /\ keep[k].arm = "value"
  BY <1>4, BlockMarksFit
<1>6. /\ \A k \in Keepers : k \in Owners \/ k = Caller \/ k = Doomed
      /\ Caller \in Keepers /\ Owners \subseteq Keepers /\ \A o \in Owners : o # Caller
  BY KeepingIs DEF Keepers
<1>7. keep[Doomed].at = Nowhere
  BY <1>3 DEF Null
<1>8. \A p \in Places : p[2] \in 0..MaxCount - 1 /\ p = <<p[1], p[2]>> /\ p[1] # Nowhere
  BY PlacePairs, PlacesAreDistinct
<1>9. \A p \in Places : cell[p] # Dead <=> cell[p].arm # "dead"
  BY <1>2, CellKinds
<1>10. \A b \in Blocks : b \in heap <=> (\E o \in Owners : mark[o].at = b) \/ loose.at = b
  BY <1>3, <1>4, <1>6, <1>7, Apart
<1>11. heap = ({mark[o].at : o \in Owners} \cup {loose.at}) \cap Blocks
  BY <1>2, <1>10
<1>12. ASSUME NEW p \in Places, NEW k \in Keepers, keep[k].at = p[1], p[2] < keep[k].n
       PROVE  cell[p].arm = keep[k].arm /\ cell[p] # Dead
  <2>1. keep[k].at # Nowhere
    BY <1>8, <1>12
  <2>2. cell[<<keep[k].at, p[2]>>].arm = ArmAt(keep[k], p[2])
    BY <1>4, <1>8, <2>1
  <2>3. cell[p].arm = keep[k].arm
    BY <1>8, <1>12, <2>2 DEF ArmAt
  <2>4. keep[k].arm = "value"
    BY <1>5, <2>1
  <2> QED
    BY <1>9, <2>3, <2>4
<1>13. ASSUME NEW p \in Places, cell[p] # Dead
       PROVE  \E k \in Keepers : keep[k].at = p[1] /\ p[2] < keep[k].n
  <2>1. cell[p].arm # "dead" /\ p[1] \in heap
    BY <1>4, <1>9, <1>13
  <2>2. PICK k \in Keepers : keep[k].at = p[1]
    BY <1>2, <1>4, <2>1
  <2>3. cell[<<keep[k].at, p[2]>>].arm = ArmAt(keep[k], p[2])
    BY <1>4, <1>8, <2>2
  <2>4. p[2] < keep[k].n
    BY <1>8, <2>1, <2>2, <2>3 DEF ArmAt
  <2> QED
    BY <2>2, <2>4
<1>14. ASSUME NEW p \in Places
       PROVE  /\ cell[p] # Dead <=> OwnersOf(p) # {} \/ LetGo(p)
              /\ \A o \in OwnersOf(p) : cell[p].arm = mark[o].arm
  <2>1. \A o \in OwnersOf(p) : cell[p].arm = mark[o].arm /\ cell[p] # Dead
    BY <1>3, <1>6, <1>12 DEF OwnersOf
  <2>2. LetGo(p) => cell[p] # Dead
    BY <1>3, <1>6, <1>12 DEF LetGo
  <2>3. ASSUME cell[p] # Dead PROVE OwnersOf(p) # {} \/ LetGo(p)
    <3>1. PICK k \in Keepers : keep[k].at = p[1] /\ p[2] < keep[k].n
      BY <1>13, <2>3
    <3>2. k # Doomed
      BY <1>7, <1>8, <3>1
    <3>3. CASE k \in Owners
      <4>1. k \in OwnersOf(p)
        BY <1>3, <3>1, <3>3 DEF OwnersOf
      <4> QED
        BY <4>1
    <3>4. CASE k = Caller
      BY <1>3, <3>1, <3>4 DEF LetGo
    <3> QED
      BY <1>6, <3>2, <3>3, <3>4
  <2> QED
    BY <2>1, <2>2, <2>3
<1>15. /\ \A o, x \in Owners : o # x /\ mark[o].at # Nowhere => mark[o].at # mark[x].at
       /\ loose.at # Nowhere => \A o \in Owners : mark[o].at # loose.at
  BY <1>3, <1>4, <1>6
<1> QED
  BY <1>11, <1>14, <1>15 DEF OwnedOnce

\* Between calls every discriminator tells the truth, whatever has failed
\* before: what it says is alive is alive, nothing else is, and each block
\* that is allocated has one owner.
THEOREM NothingIsLost == Spec => []EverythingOwnedOnce
<1>1. IInv => EverythingOwnedOnce
  BY OwnedInPlace, OwnedOnHeap, OwnedOnceIs DEF IInv
<1> QED
  BY IInvInductive, <1>1, PTL

-----------------------------------------------------------------------------
(* Calls keep what they promise                                            *)

\* At first no owner exists, as promised.
LEMMA InitPromised == Init => Promise!Init
<1> SUFFICES ASSUME Init PROVE Promise!Init
  OBVIOUS
<1>1. /\ AtRest /\ class \in Promise!Classes /\ status = "ok" /\ request = None
      /\ mark = [o \in Owners |-> Absent] /\ loose = Null
  BY DEF Init, AtRest
<1>2. Contents = [o \in Owners |-> None]
  BY <1>1 DEF Contents
<1>3. Living(loose) = <<>>
  BY <1>1, ContentsSeen, ContentsAreHeld
<1> QED
  BY <1>1, <1>2, <1>3 DEF Promise!Init, Promise!NoCall

\* A call that begins is one that was asked for, and changes nothing yet that
\* callers see.
LEMMA CallAsks ==
  ASSUME NEW r \in Promise!Requests, NEW block, Call(r, block)
  PROVE  Promise!Ask(r)
<1>1. /\ AtRest /\ status # "trapped" /\ Promise!Callable(r) /\ request' = r /\ class' = class
      /\ before' = [held |-> Contents, loose |-> Living(loose)]
  BY DEF Call
<1>2. ~AtRest'
  BY <1>1, RequestIsCall DEF AtRest
<1>3. Held' = Held /\ Handed' = Handed
  BY <1>1, <1>2 DEF Held, Handed
<1> QED
  BY <1>1, <1>2, <1>3 DEF Promise!Ask, Promise!NoCall, AtRest, Held, Handed

\* A call that is over is answered: it has succeeded, has failed or has been
\* trapped, as documented.
LEMMA ReturnAnswers ==
  ASSUME IInv, Return
  PROVE  Promise!Answer
<1> DEFINE r == request
           o == request.o
<1>1. /\ ~AtRest /\ todo = <<>> /\ request' = None /\ class' = class /\ loose' = loose
      /\ cell' = cell /\ mark' = mark
      /\ status' \in IF Dropped THEN {status, "trapped"} ELSE {status}
  BY DEF Return, raw
<1>2. /\ Now \in Due /\ status \in {"ok", "failed"}
      /\ r.op \in Promise!Constructors \cup Promise!Methods
      /\ before.held = [k \in Owners |-> before.held[k]]
  BY <1>1, RunsFrom DEF IInv
<1>3. AtRest' /\ Held = before.held /\ Handed = before.loose
  BY <1>1 DEF AtRest, Held, Handed
<1>4. Held' = HeldIn(Now) /\ Handed' = LivingIn(Now, loose)
  <2>1. Contents' = Contents /\ Living(loose)' = Living(loose)
    BY <1>1 DEF Contents, Living
  <2> QED
    BY <1>3, <2>1, ContentsAreHeld DEF Held, Handed
<1>5. status = "ok" => HeldIn(Now) = Promise!After(r) /\ LivingIn(Now, loose) = Promise!LooseAfter(r)
  BY <1>2 DEF Due, OkEnds
<1>6. status = "failed" => /\ Promise!MayThrow(r) /\ HeldIn(Now) \in Promise!Failed(r)
                           /\ LivingIn(Now, loose) = Handed
  BY <1>2 DEF Due, FailEnds
<1>7. CASE status' = status
  <2>1. CASE status = "ok"
    <3>1. Promise!Succeed(r)
      BY <1>3, <1>4, <1>5, <1>7, <2>1 DEF Promise!Succeed, Held, Handed
    <3> QED
      BY <1>1, <3>1 DEF Promise!Answer, Promise!NoCall, AtRest
  <2>2. CASE status = "failed"
    <3>1. Promise!Fail(r)
      BY <1>3, <1>4, <1>6, <1>7, <2>2 DEF Promise!Fail, Held, Handed
    <3> QED
      BY <1>1, <3>1 DEF Promise!Answer, Promise!NoCall, AtRest
  <2> QED
    BY <1>2, <2>1, <2>2
<1>8. CASE status' # status
  <2>1. /\ status' = "trapped" /\ r.op \in {"push_back", "push_self"}
        /\ Len(before.held[o]) = MaxCount
    BY <1>1, <1>8 DEF Dropped
  <2>2. Promise!Full(o)
    BY <1>3, <2>1 DEF Promise!Full, Held
  <2>3. class = "inplace_vector"
    BY <1>2, <2>1 DEF Promise!Constructors, Promise!Methods
  <2>4. status = "ok" => HeldIn(Now) = Held /\ LivingIn(Now, loose) = Handed
    <3>1. Promise!Becomes(r) = Held[o]
      BY <2>1, <2>2 DEF Promise!Becomes, Held
    <3>2. Promise!After(r) = [Held EXCEPT ![r.x] = IF r.x = o THEN @ ELSE Held[r.x], ![o] = Held[o]]
      BY <2>1, <3>1 DEF Promise!After, Held
    <3>3. Promise!After(r) = Held
      BY <1>2, <1>3, <3>2
    <3>4. Promise!LooseAfter(r) = Handed
      BY <2>1 DEF Promise!LooseAfter, Handed
    <3> QED
      BY <1>5, <3>3, <3>4
  <2>5. status = "failed" => HeldIn(Now) = Held /\ LivingIn(Now, loose) = Handed
    <3>1. ~Promise!SameArm(r)
      BY <2>1 DEF Promise!SameArm
    <3>2. Promise!Kept(r) = {Held[o]}
      BY <2>3, <3>1 DEF Promise!Kept, Held
    <3>3. Promise!Source(r) = {Held[r.x]}
      BY <2>1 DEF Promise!Source, Held
    <3>4. \A h \in Promise!Failed(r) :
            h = [Held EXCEPT ![r.x] = IF r.x = o THEN @ ELSE Held[r.x], ![o] = Held[o]]
      BY <3>2, <3>3 DEF Promise!Failed, Held
    <3>5. \A h \in Promise!Failed(r) : h = Held
      BY <1>2, <1>3, <3>4
    <3> QED
      BY <1>6, <3>5
  <2>6. Held' = Held /\ Handed' = Handed
    BY <1>2, <1>4, <2>4, <2>5
  <2>7. Promise!Trap(r)
    BY <1>3, <2>1, <2>2, <2>6 DEF Promise!Trap, Held, Handed
  <2> QED
    BY <1>1, <2>7 DEF Promise!Answer, Promise!NoCall, AtRest
<1> QED
  BY <1>7, <1>8

\* Step by step expected, optional, inplace_vector, unique_ptr and boxed_slice
\* do what Holders says of a call at once: whatever throws and whenever, what
\* callers see after it is what is documented, and during it is what they saw
\* before.
THEOREM CallsKeepPromise == Spec => KeepsPromise
<1>1. Init => Promise!Init
  BY InitPromised
<1>2. IInv /\ [Next]_vars => [Promise!Next]_(Promise!vars)
  <2> SUFFICES ASSUME IInv, [Next]_vars PROVE Promise!Next \/ UNCHANGED Promise!vars
    OBVIOUS
  <2>1. ASSUME NEW r \in Promise!Requests,
               IF r.op = "make" THEN \E block \in Blocks \ heap : Call(r, block) ELSE Call(r, Nowhere)
        PROVE  Promise!Next
    <3>1. PICK block : Call(r, block)
      BY <2>1
    <3> QED
      BY <3>1, CallAsks DEF Promise!Next
  <2>2. CASE Step \/ GiveUp
    <3>1. class' = class /\ request' = request /\ before' = before
      BY <2>2 DEF Step, GiveUp, InCall
    <3>2. todo # <<>>
      BY <2>2, StepIsResult, ThrowIsLoss DEF Step, GiveUp, OutOfMemory, Do
    <3>3. ~AtRest /\ ~AtRest'
      BY <3>1, <3>2 DEF IInv, AtRest
    <3> QED
      BY <3>1, <3>3 DEF Promise!vars
  <2>3. CASE Return
    BY <2>3, ReturnAnswers DEF Promise!Next
  <2>4. CASE UNCHANGED vars
    <3>1. /\ class' = class /\ loose' = loose /\ status' = status /\ request' = request
          /\ cell' = cell /\ mark' = mark /\ before' = before
      BY <2>4 DEF vars, raw
    <3>2. Contents' = Contents /\ Living(loose)' = Living(loose) /\ AtRest' = AtRest
      BY <3>1 DEF Contents, Living, AtRest
    <3> QED
      BY <3>1, <3>2 DEF Promise!vars
  <2> QED
    BY <2>1, <2>2, <2>3, <2>4 DEF Next
<1> QED
  BY <1>1, <1>2, IInvInductive, PTL DEF Spec, KeepsPromise, Promise!Spec
=============================================================================
