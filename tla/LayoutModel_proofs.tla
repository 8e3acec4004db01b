-------------------------- MODULE LayoutModel_proofs --------------------------
(***************************************************************************)
(* Proofs about LayoutModel, for all manifests, notes and debug            *)
(* information: the outcome depends on the set of entries given, nothing   *)
(* the rendering looks up is missing, and each request has a macro of its  *)
(* own, with its value, in both headers.  The last rests on what Escape    *)
(* does to a name of any length, which is shown by induction.              *)
(***************************************************************************)
EXTENDS LayoutModel, FiniteSetTheorems, TLAPS

\* What has been taken of a sequence.
Taken(s, n) == {s[i] : i \in 1..n}

Functional(es) == \A e, f \in es : SameKey(e, f) => e.value = f.value

KnownGeometry(es) == \A e \in es : e.kind = "geometry" => e.type \in KnownTypes(Range(input.records))

\* The Model is what has been taken, and nothing taken contradicts anything else.
BuildInv ==
  pc = "build" =>
    /\ next \in 0..Len(input.records)
    /\ model = Taken(input.records, next)

MergeInv ==
  pc = "merge" =>
    /\ NeedsDebug /\ input.debug
    /\ next \in 0..Len(input.entries)
    /\ model = Range(input.records) \cup Taken(input.entries, next)
    /\ KnownGeometry(Taken(input.entries, next))

Complete ==
  /\ model = Given
  /\ Consistent
  /\ NeedsDebug => input.debug /\ KnownGeometry(Range(input.entries))

CheckInv == pc = "check" => Complete

RenderInv == pc = "render" => Complete /\ input.hash /\ input.set /\ Covers(Given)

\* The inductive invariant.
IInv ==
  /\ input \in Inputs
  /\ next \in Nat
  /\ pc \in {"build", "merge", "check", "render", "done", "rejected", "internal"}
  /\ model \subseteq Given
  /\ Functional(model)
  /\ BuildInv
  /\ MergeInv
  /\ CheckInv
  /\ RenderInv
  /\ pc # "internal"
  /\ OutcomeIsOrderFree

-----------------------------------------------------------------------------
(* Sequences and sets of entries                                           *)

\* What has been taken grows by one element, and in the end is all there is.
LEMMA TakenGrows ==
  ASSUME NEW S, NEW s \in Seq(S)
  PROVE  /\ Taken(s, 0) = {}
         /\ Taken(s, Len(s)) = Range(s)
         /\ \A n \in 0..Len(s) : Taken(s, n) \subseteq Range(s)
         /\ \A n \in 0..(Len(s) - 1) : Taken(s, n + 1) = Taken(s, n) \cup {s[n + 1]}
<1>1. Len(s) \in Nat /\ DOMAIN s = 1..Len(s)
  OBVIOUS
<1>2. \A n \in 0..(Len(s) - 1) : 1..(n + 1) = (1..n) \cup {n + 1}
  BY <1>1
<1>3. \A n \in 0..(Len(s) - 1) : Taken(s, n + 1) = Taken(s, n) \cup {s[n + 1]}
  BY <1>1, <1>2, Zenon DEF Taken
<1>4. \A n \in 0..Len(s) : Taken(s, n) \subseteq Range(s)
  BY <1>1 DEF Taken, Range
<1>5. Taken(s, 0) = {} /\ Taken(s, Len(s)) = Range(s)
  BY <1>1 DEF Taken, Range
<1> QED
  BY <1>3, <1>4, <1>5

\* Debug information names no type of its own.
LEMMA KnownTypesFromRecords ==
  ASSUME NEW R, NEW D, \A e \in D : e.kind \in {"geometry", "enum"}
  PROVE  KnownTypes(R \cup D) = KnownTypes(R)
BY DEF KnownTypes

\* The rendering asks for what the validation has found: sections of one type
\* that agree on the policy can be merged after each was validated alone.
LEMMA ValidIsRenderable ==
  ASSUME NEW es, Covers(es), ~PolicyConflict
  PROVE  Renderable(es)
<1>1. ASSUME NEW t \in Types PROVE Has(es, "type", t, <<>>)
  BY Covers(es) DEF Covers, CoversType, Types
<1>2. ASSUME NEW t \in Types, NEW f \in Fields(t) PROVE Has(es, "field", t, f)
  BY Covers(es) DEF Covers, CoversType, Fields, Entries
<1>3. ASSUME NEW t \in Types, NEW e \in Entries(t), NEW b \in Bitfields(t)
      PROVE  /\ e.policy = "geometry" => Has(es, "geometry", t, b)
             /\ e.policy = "accessor_shim" => Has(es, "accessor", t, b)
  <2>1. PICK u \in Entries(t) : b \in Range(u.bitfields)
    BY DEF Bitfields
  <2>2. /\ e \in Range(m.types) /\ u \in Range(m.types)
        /\ e.c_type = t /\ u.c_type = t
    BY DEF Entries
  <2>3. u.policy = e.policy
    BY <2>2, ~PolicyConflict DEF PolicyConflict
  <2>4. CoversType(es, u)
    BY <2>2, Covers(es) DEF Covers
  <2> QED
    BY <2>1, <2>2, <2>3, <2>4 DEF CoversType
<1>4. \A c \in Range(m.constants) : Has(es, "const", c, <<>>)
  BY Covers(es) DEF Covers
<1>5. ASSUME NEW en \in Range(m.enums), NEW v \in Requested(es, en)
      PROVE  Has(es, "enum", en.c_type, v)
  <2>1. CoversEnum(es, en)
    BY Covers(es) DEF Covers
  <2>2. v \in Enumerators(es, en.c_type)
    BY <2>1 DEF CoversEnum, Requested
  <2> QED
    BY <2>2 DEF Enumerators, Has
<1> QED
  BY <1>1, <1>2, <1>3, <1>4, <1>5 DEF Renderable

\* What is derived from the input alone stays as it is.
LEMMA InputDecides ==
  ASSUME input' = input
  PROVE  /\ Given' = Given
         /\ NeedsDebug' = NeedsDebug
         /\ Consistent' = Consistent
         /\ Covers(Given)' = Covers(Given)
         /\ Meaningful' = Meaningful
<1>1. m' = m
  BY DEF m
<1>2. NeedsDebug' = NeedsDebug
  BY <1>1 DEF NeedsDebug
<1>3. Given' = Given
  BY <1>2 DEF Given
<1>4. Consistent' = Consistent
  BY <1>3 DEF Consistent
<1>5. Covers(Given)' = Covers(Given)
  BY <1>1, <1>3 DEF Covers
<1>6. PolicyConflict' = PolicyConflict
  BY <1>1 DEF PolicyConflict
<1>7. Collision' = Collision
  <2>1. Types' = Types
    BY <1>1 DEF Types
  <2>2. ASSUME NEW t PROVE Fields(t)' = Fields(t) /\ Bitfields(t)' = Bitfields(t)
    BY <1>1 DEF Fields, Bitfields, Entries
  <2> QED
    BY <1>1, <2>1, <2>2 DEF Collision
<1>8. ExtractedCollide(Given)' = ExtractedCollide(Given)
  BY <1>1, <1>3 DEF ExtractedCollide, Requested, Enumerators
<1> QED
  BY <1>2, <1>3, <1>4, <1>5, <1>6, <1>7, <1>8 DEF Meaningful

-----------------------------------------------------------------------------
(* The invariant                                                           *)

\* An entry is refused exactly when the Model, a part of what is given, already
\* contradicts it.
LEMMA RefusedIsInconsistent ==
  ASSUME NEW e \in Given, model \subseteq Given, Conflicts(e)
  PROVE  ~Meaningful
BY DEF Conflicts, Meaningful, Consistent, SameKey

\* What contradicts nothing can be added.
LEMMA AddedIsFunctional ==
  ASSUME NEW e, Functional(model), ~Conflicts(e)
  PROVE  Functional(model \cup {e})
BY DEF Functional, Conflicts, SameKey

\* The Model is the entries taken so far, whatever their order, and what makes
\* layout_parse stop is a property of all entries given.
THEOREM InvHolds == Spec => []IInv
<1>1. Init => IInv
  <2> SUFFICES ASSUME Init PROVE IInv
    OBVIOUS
  <2>1. input.records \in Seq(Range(input.records))
    BY InputsAreTwoLists DEF Init
  <2>2. Taken(input.records, 0) = {} /\ 0 \in 0..Len(input.records)
    BY <2>1, TakenGrows
  <2> QED
    BY <2>2 DEF Init, IInv, Functional, BuildInv, MergeInv, CheckInv, RenderInv, OutcomeIsOrderFree
<1>2. IInv /\ [Next]_vars => IInv'
  <2> SUFFICES ASSUME IInv, [Next]_vars PROVE IInv'
    OBVIOUS
  <2> USE DEF IInv
  <2>i. input' = input
    BY DEF Next, vars, BuildModel, FinishModel, Merge, FinishMerge, Validate, Render, Take, Reject
  <2>d. /\ Given' = Given /\ NeedsDebug' = NeedsDebug /\ Consistent' = Consistent
        /\ Covers(Given)' = Covers(Given) /\ Meaningful' = Meaningful
    BY <2>i, InputDecides
  <2>s. /\ input.records \in Seq(Range(input.records))
        /\ input.entries \in Seq(Range(input.entries))
        /\ \A e \in Range(input.entries) : e.kind \in {"geometry", "enum"}
    BY InputsAreTwoLists
  <2>l. /\ Len(input.records) \in Nat /\ Len(input.entries) \in Nat
        /\ \A i \in 1..Len(input.records) : input.records[i] \in Range(input.records)
        /\ \A i \in 1..Len(input.entries) : input.entries[i] \in Range(input.entries)
    BY <2>s DEF Range
  <2>r. Range(input.records) \subseteq Given
    BY DEF Given
  <2>1. CASE UNCHANGED vars
    BY <2>1, <2>d DEF vars, Functional, BuildInv, MergeInv, CheckInv, RenderInv, Complete,
       OutcomeIsOrderFree, KnownGeometry, KnownTypes
  <2>2. CASE BuildModel
    <3> DEFINE e == input.records[next + 1]
    <3>1. pc = "build" /\ next + 1 \in 1..Len(input.records) /\ next + 1 \in Nat
      BY <2>2, <2>l DEF BuildModel
    <3>2. e \in Given
      BY <3>1, <2>l, <2>r
    <3>3. CASE Conflicts(e)
      <4>1. Reject
        BY <3>3, <2>2 DEF BuildModel, Take
      <4>2. ~Meaningful
        BY <3>2, <3>3, RefusedIsInconsistent
      <4> QED
        BY <4>1, <4>2, <2>i, <2>d DEF Reject, Functional, BuildInv, MergeInv, CheckInv, RenderInv,
           OutcomeIsOrderFree
    <3>4. CASE ~Conflicts(e)
      <4>1. /\ model' = model \cup {e} /\ next' = next + 1 /\ pc' = "build"
        BY <3>4, <3>1, <2>2 DEF BuildModel, Take
      <4>2. Functional(model') /\ model' \subseteq Given
        BY <4>1, <3>2, <3>4, AddedIsFunctional
      <4>3. model' = Taken(input.records, next + 1)
        <5>1. next \in 0..(Len(input.records) - 1)
          BY <3>1, <2>l
        <5> QED
          BY <5>1, <4>1, <3>1, <2>s, TakenGrows DEF BuildInv
      <4> QED
        BY <4>1, <4>2, <4>3, <3>1, <2>i, <2>d DEF Functional, BuildInv, MergeInv, CheckInv, RenderInv,
           OutcomeIsOrderFree
    <3> QED
      BY <3>3, <3>4
  <2>3. CASE FinishModel
    <3>1. pc = "build" /\ model' = model /\ next' = 0
      BY <2>3 DEF FinishModel
    <3>2. model = Range(input.records)
      BY <3>1, <2>3, <2>s, TakenGrows DEF BuildInv, FinishModel
    <3>3. CASE ~NeedsDebug
      <4>1. pc' = "check" /\ model = Given
        BY <3>2, <3>3, <2>3 DEF FinishModel, Given
      <4>2. Complete'
        BY <4>1, <3>1, <3>3, <2>d DEF Complete, Consistent, Functional
      <4> QED
        BY <4>1, <4>2, <3>1, <2>i, <2>d DEF Functional, BuildInv, MergeInv, CheckInv, RenderInv,
           OutcomeIsOrderFree
    <3>4. CASE NeedsDebug /\ input.debug
      <4>1. pc' = "merge"
        BY <3>4, <2>3 DEF FinishModel
      <4>2. Taken(input.entries, 0) = {}
        BY <2>s, TakenGrows
      <4> QED
        BY <4>1, <4>2, <3>1, <3>2, <3>4, <2>i, <2>d, <2>l DEF Functional, BuildInv, MergeInv, CheckInv,
           RenderInv, OutcomeIsOrderFree, KnownGeometry
    <3>5. CASE NeedsDebug /\ ~input.debug
      <4>1. pc' = "rejected" /\ ~Meaningful
        BY <3>5, <2>3 DEF FinishModel, Meaningful
      <4> QED
        BY <4>1, <3>1, <2>i, <2>d DEF Functional, BuildInv, MergeInv, CheckInv, RenderInv,
           OutcomeIsOrderFree
    <3> QED
      BY <3>3, <3>4, <3>5
  <2>4. CASE Merge
    <3> DEFINE e == input.entries[next + 1]
    <3>1. pc = "merge" /\ next + 1 \in 1..Len(input.entries) /\ next + 1 \in Nat
      BY <2>4, <2>l DEF Merge
    <3>2. NeedsDebug /\ e \in Range(input.entries) /\ e \in Given
      BY <3>1, <2>l DEF MergeInv, Given
    <3>3. KnownTypes(model) = KnownTypes(Range(input.records))
      <4>1. \A x \in Taken(input.entries, next) : x.kind \in {"geometry", "enum"}
        <5>1. Taken(input.entries, next) \subseteq Range(input.entries)
          BY <3>1, <2>s, TakenGrows DEF MergeInv
        <5> QED
          BY <5>1, <2>s
      <4> QED
        BY <4>1, <3>1, KnownTypesFromRecords DEF MergeInv
    <3>4. CASE e.kind = "geometry" /\ e.type \notin KnownTypes(model)
      <4>1. Reject
        BY <3>4, <2>4 DEF Merge
      <4>2. ~Meaningful
        BY <3>2, <3>3, <3>4 DEF Meaningful
      <4> QED
        BY <4>1, <4>2, <2>i, <2>d DEF Reject, Functional, BuildInv, MergeInv, CheckInv, RenderInv,
           OutcomeIsOrderFree
    <3>5. CASE ~(e.kind = "geometry" /\ e.type \notin KnownTypes(model)) /\ Conflicts(e)
      <4>1. Reject
        BY <3>5, <2>4 DEF Merge, Take
      <4>2. ~Meaningful
        BY <3>2, <3>5, RefusedIsInconsistent
      <4> QED
        BY <4>1, <4>2, <2>i, <2>d DEF Reject, Functional, BuildInv, MergeInv, CheckInv, RenderInv,
           OutcomeIsOrderFree
    <3>6. CASE ~(e.kind = "geometry" /\ e.type \notin KnownTypes(model)) /\ ~Conflicts(e)
      <4>1. /\ model' = model \cup {e} /\ next' = next + 1 /\ pc' = "merge"
        BY <3>6, <3>1, <2>4 DEF Merge, Take
      <4>2. Functional(model') /\ model' \subseteq Given
        BY <4>1, <3>2, <3>6, AddedIsFunctional
      <4>3. Taken(input.entries, next + 1) = Taken(input.entries, next) \cup {e}
        <5>1. next \in 0..(Len(input.entries) - 1)
          BY <3>1, <2>l
        <5> QED
          BY <5>1, <2>s, TakenGrows
      <4>4. KnownGeometry(Taken(input.entries, next + 1))
        BY <4>3, <3>1, <3>3, <3>6 DEF KnownGeometry, MergeInv
      <4>5. MergeInv'
        BY <4>1, <4>3, <4>4, <3>1, <2>i, <2>d DEF MergeInv, KnownGeometry, KnownTypes
      <4> QED
        BY <4>1, <4>2, <4>5, <3>1, <2>i, <2>d DEF Functional, BuildInv, CheckInv, RenderInv,
           OutcomeIsOrderFree
    <3> QED
      BY <3>4, <3>5, <3>6
  <2>5. CASE FinishMerge
    <3>1. pc = "merge" /\ pc' = "check" /\ model' = model /\ next' = next
      BY <2>5 DEF FinishMerge
    <3>2. NeedsDebug /\ input.debug /\ Taken(input.entries, next) = Range(input.entries)
      BY <3>1, <2>5, <2>s, TakenGrows DEF MergeInv, FinishMerge
    <3>3. model = Given
      BY <3>1, <3>2 DEF MergeInv, Given
    <3>4. Complete
      BY <3>1, <3>2, <3>3 DEF Complete, Consistent, Functional, MergeInv
    <3> QED
      BY <3>1, <3>4, <2>i, <2>d DEF Complete, Functional, BuildInv, MergeInv, CheckInv, RenderInv,
         OutcomeIsOrderFree, KnownGeometry, KnownTypes
  <2>6. CASE Validate
    <3>1. pc = "check" /\ model' = model /\ next' = next /\ Complete
      BY <2>6 DEF Validate, CheckInv
    <3>2. CASE input.hash /\ input.set /\ Covers(model)
      <4>1. pc' = "render" /\ Covers(Given)
        BY <3>1, <3>2, <2>6 DEF Validate, Complete
      <4> QED
        BY <4>1, <3>1, <3>2, <2>i, <2>d DEF Complete, Functional, BuildInv, MergeInv, CheckInv,
           RenderInv, OutcomeIsOrderFree, KnownGeometry, KnownTypes
    <3>3. CASE ~(input.hash /\ input.set /\ Covers(model))
      <4>1. pc' = "rejected" /\ ~Meaningful
        BY <3>1, <3>3, <2>6 DEF Validate, Meaningful, Complete
      <4> QED
        BY <4>1, <3>1, <2>i, <2>d DEF Functional, BuildInv, MergeInv, CheckInv, RenderInv,
           OutcomeIsOrderFree
    <3> QED
      BY <3>2, <3>3
  <2>7. CASE Render
    <3>1. pc = "render" /\ pc' = Outcome /\ model' = model /\ next' = next
      BY <2>7 DEF Render
    <3>2. Complete /\ input.hash /\ input.set /\ Covers(Given) /\ model = Given
      BY <3>1 DEF RenderInv, Complete
    <3>3. ~PolicyConflict => Renderable(model)
      BY <3>2, ValidIsRenderable
    <3>4. Outcome \in {"done", "rejected"} /\ (Outcome = "done" <=> Meaningful)
      BY <3>2, <3>3, Zenon DEF Outcome, Meaningful, Complete, KnownGeometry
    <3> QED
      BY <3>1, <3>4, <2>i, <2>d DEF Functional, BuildInv, MergeInv, CheckInv, RenderInv,
         OutcomeIsOrderFree
  <2> QED
    BY <2>1, <2>2, <2>3, <2>4, <2>5, <2>6, <2>7 DEF Next
<1> QED
  BY <1>1, <1>2, PTL DEF Spec

\* Whether headers are generated depends on which entries there are, never on
\* their order or on repetitions.
THEOREM OrderFree == Spec => []OutcomeIsOrderFree
<1>1. IInv => OutcomeIsOrderFree
  BY DEF IInv
<1> QED
  BY <1>1, InvHolds, PTL

\* What was validated can be rendered: no lookup of the rendering throws.
THEOREM NeverInternal == Spec => []NoInternalError
<1>1. IInv => NoInternalError
  BY DEF IInv, NoInternalError
<1> QED
  BY <1>1, InvHolds, PTL

\* The Model holds nothing that was not given, and indices stay in their lists.
THEOREM TypeCorrect == Spec => []TypeOK
<1>1. IInv => TypeOK
  BY InputsAreTwoLists DEF IInv, TypeOK, BuildInv, MergeInv
<1> QED
  BY <1>1, InvHolds, PTL

-----------------------------------------------------------------------------
(* Induction over the pieces of a name                                     *)

\* Every set of numbers that is not empty has a least one.
LEMMA LeastNumber ==
  ASSUME NEW T, T \subseteq Nat, T # {}
  PROVE  \E n \in T : \A k \in T : n <= k
<1> DEFINE upto(n) == 1..n
           U == {upto(n) : n \in T}
<1>1. \A n \in Nat : upto(n) \in FiniteSubsetsOf(Nat)
  <2> SUFFICES ASSUME NEW n \in Nat PROVE upto(n) \in FiniteSubsetsOf(Nat)
    OBVIOUS
  <2>1. IsFiniteSet(1..n)
    BY FS_Interval
  <2> QED
    BY <2>1 DEF FiniteSubsetsOf
<1>2. U \subseteq FiniteSubsetsOf(Nat) /\ U # {}
  BY <1>1
<1>3. IsWellFoundedOn(StrictSubsetOrdering(Nat), FiniteSubsetsOf(Nat))
  BY FS_StrictSubsetOrderingWellFounded
<1> HIDE DEF U
<1>4. PICK u \in U : \A v \in U : <<v, u>> \notin StrictSubsetOrdering(Nat)
  BY <1>2, <1>3, WFMin
<1>5. PICK n \in T : u = upto(n)
  BY DEF U
<1>6. ASSUME NEW k \in T, ~(n <= k) PROVE FALSE
  <2>1. upto(k) \subseteq upto(n) /\ upto(k) # upto(n)
    <3>1. n \in upto(n) /\ n \notin upto(k)
      BY <1>6
    <3> QED
      BY <1>6, <3>1
  <2>2. upto(k) \in SUBSET Nat /\ upto(n) \in SUBSET Nat
    OBVIOUS
  <2>3. <<upto(k), upto(n)>> \in StrictSubsetOrdering(Nat)
    BY <2>1, <2>2 DEF StrictSubsetOrdering
  <2> QED
    BY <1>4, <1>5, <2>3 DEF U
<1> QED
  BY <1>6

\* Induction over the numbers of a set.
LEMMA NumberInduction ==
  ASSUME NEW S, 0 \in S, \A n \in Nat : n \in S => n + 1 \in S
  PROVE  Nat \subseteq S
<1> DEFINE T == Nat \ S
<1> SUFFICES ASSUME T # {} PROVE FALSE
  OBVIOUS
<1>1. PICK n \in T : \A k \in T : n <= k
  BY LeastNumber
<1>2. n \in Nat /\ n # 0 /\ n \notin S
  OBVIOUS
<1>3. n - 1 \in Nat /\ ~(n <= n - 1) /\ (n - 1) + 1 = n
  BY <1>2
<1>4. n - 1 \in S
  BY <1>1, <1>3
<1> QED
  BY <1>2, <1>3, <1>4

\* What escape_identifier has written before the first piece, and how it goes on.
EscapeStart(name) == IF Head(name) \in Numbers THEN <<Under>> ELSE <<>>

EscapeStep(out, c) ==
  IF c \in Words THEN Append(out, c)
  ELSE IF out # <<>> /\ Last(out) = Under THEN out
  ELSE Append(out, Under)

Escapes(u, name, n) ==
  u = [k \in 0..n |-> IF k = 0 THEN EscapeStart(name) ELSE EscapeStep(u[k - 1], name[k])]

\* The recursion of Escape defines a function, however long the name.
LEMMA EscapesExist ==
  ASSUME NEW name, NEW n \in Nat
  PROVE  \E u : Escapes(u, name, n)
<1> DEFINE S == {k \in Nat : \E u : Escapes(u, name, k)}
<1>1. 0 \in S
  <2>1. Escapes([k \in {0} |-> EscapeStart(name)], name, 0)
    <3>1. 0..0 = {0}
      OBVIOUS
    <3> QED
      BY <3>1 DEF Escapes
  <2> QED
    BY <2>1
<1>2. ASSUME NEW k \in Nat, k \in S PROVE k + 1 \in S
  <2>1. PICK u : Escapes(u, name, k)
    BY <1>2
  <2> DEFINE v == [j \in 0..(k + 1) |-> IF j = k + 1 THEN EscapeStep(u[k], name[k + 1]) ELSE u[j]]
  <2>2. \A j \in 0..k : u[j] = IF j = 0 THEN EscapeStart(name) ELSE EscapeStep(u[j - 1], name[j])
    <3> HIDE DEF EscapeStart, EscapeStep
    <3> QED
      BY <2>1, Zenon DEF Escapes
  <2> HIDE DEF EscapeStart, EscapeStep
  <2>3. ASSUME NEW j \in 0..(k + 1)
        PROVE v[j] = IF j = 0 THEN EscapeStart(name) ELSE EscapeStep(v[j - 1], name[j])
    <3>1. CASE j = k + 1
      <4>1. v[j] = EscapeStep(u[k], name[j]) /\ j # 0 /\ j - 1 = k /\ k \in 0..(k + 1) /\ k # k + 1
        BY <3>1
      <4>2. v[k] = u[k]
        BY <4>1
      <4> QED
        BY <4>1, <4>2
    <3>2. CASE j # k + 1
      <4>1. j \in 0..k
        BY <3>2
      <4>2. v[j] = u[j]
        BY <3>2
      <4>3. j # 0 => j - 1 \in 0..(k + 1) /\ j - 1 # k + 1
        BY <4>1
      <4>4. j # 0 => v[j - 1] = u[j - 1]
        BY <4>3
      <4> HIDE DEF v
      <4> QED
        BY <4>1, <4>2, <4>4, <2>2
    <3> QED
      BY <3>1, <3>2
  <2>4. v = [j \in 0..(k + 1) |-> v[j]]
    OBVIOUS
  <2> HIDE DEF v
  <2>5. Escapes(v, name, k + 1)
    BY <2>3, <2>4 DEF Escapes
  <2> QED
    BY <2>5
<1> HIDE DEF S
<1>3. Nat \subseteq S
  BY <1>1, <1>2, NumberInduction
<1> QED
  BY <1>3 DEF S

\* A name that is not empty is escaped piece by piece.
LEMMA EscapeIsStepwise ==
  ASSUME NEW name, name # <<>>, Len(name) \in Nat
  PROVE  \E u : Escapes(u, name, Len(name)) /\ Escape(name) = u[Len(name)]
<1>1. (CHOOSE u : Escapes(u, name, Len(name)))[Len(name)] = Escape(name)
  BY DEF Escape, Escapes, EscapeStart, EscapeStep
<1>2. Escapes(CHOOSE u : Escapes(u, name, Len(name)), name, Len(name))
  BY EscapesExist
<1> QED
  BY <1>1, <1>2

\* What an escaped name is made of.
Pieces == Words \cup {Under}

\* No two underscores follow each other.
NoDouble(s) == \A i \in 1..(Len(s) - 1) : ~(s[i] = Under /\ s[i + 1] = Under)

Escaped(s) == s \in Seq(Pieces) /\ NoDouble(s)

\* What Append and \o give, for sequences of any elements.
LEMMA AppendGives ==
  ASSUME NEW S, NEW s \in Seq(S), NEW e \in S
  PROVE  /\ Append(s, e) \in Seq(S)
         /\ Len(Append(s, e)) = Len(s) + 1
         /\ \A i \in 1..Len(s) : Append(s, e)[i] = s[i]
         /\ Append(s, e)[Len(s) + 1] = e
OBVIOUS

Joined(x, s, t) ==
  /\ Len(x) = Len(s) + Len(t)
  /\ \A i \in 1..Len(s) : x[i] = s[i]
  /\ \A i \in 1..Len(t) : x[Len(s) + i] = t[i]

\* Where the elements of a concatenation come from.
LEMMA JoinGives ==
  ASSUME NEW S, NEW s \in Seq(S), NEW t \in Seq(S)
  PROVE  s \o t \in Seq(S) /\ Joined(s \o t, s, t)
BY DEF Joined

\* Sequences are equal element by element.
LEMMA EqualSequences ==
  ASSUME NEW S, NEW s \in Seq(S), NEW t \in Seq(S), Len(s) = Len(t),
         \A i \in 1..Len(s) : s[i] = t[i]
  PROVE  s = t
OBVIOUS

\* One more piece, unless it puts two underscores side by side.
LEMMA AppendEscaped ==
  ASSUME NEW out, Escaped(out), NEW c \in Pieces, ~(out # <<>> /\ Last(out) = Under /\ c = Under)
  PROVE  Escaped(Append(out, c)) /\ Append(out, c) # <<>>
<1> USE DEF Last
<1> DEFINE s == Append(out, c)
<1>1. out \in Seq(Pieces) /\ Len(out) \in Nat
  BY DEF Escaped
<1>2. /\ s \in Seq(Pieces) /\ Len(s) = Len(out) + 1 /\ s[Len(out) + 1] = c
      /\ \A i \in 1..Len(out) : s[i] = out[i]
  BY <1>1, AppendGives
<1> HIDE DEF s, Pieces
<1>3. ASSUME NEW i \in 1..(Len(s) - 1), s[i] = Under, s[i + 1] = Under PROVE FALSE
  <2>1. i \in 1..Len(out) /\ s[i] = out[i]
    BY <1>1, <1>2
  <2>2. CASE i = Len(out)
    BY <1>1, <1>2, <1>3, <2>1, <2>2 DEF Last
  <2>3. CASE i # Len(out)
    <3>1. i \in 1..(Len(out) - 1) /\ i + 1 \in 1..Len(out)
      BY <1>1, <2>1, <2>3
    <3> QED
      BY <1>2, <1>3, <2>1, <3>1 DEF Escaped, NoDouble
  <2> QED
    BY <2>2, <2>3
<1>4. s # <<>>
  BY <1>1, <1>2
<1> QED
  BY <1>2, <1>3, <1>4 DEF Escaped, NoDouble, s

\* One more piece keeps underscores apart and leaves something.
LEMMA StepKeepsEscaped ==
  ASSUME NEW out, NEW c, Escaped(out)
  PROVE  Escaped(EscapeStep(out, c)) /\ EscapeStep(out, c) # <<>>
<1> USE DEF Last
<1>1. CASE c \in Words
  <2>1. EscapeStep(out, c) = Append(out, c) /\ c \in Pieces /\ c # Under
    BY <1>1, UnderscoreIsNoWord DEF EscapeStep, Pieces
  <2> QED
    BY <2>1, AppendEscaped
<1>2. CASE c \notin Words /\ out # <<>> /\ Last(out) = Under
  BY <1>2 DEF EscapeStep
<1>3. CASE c \notin Words /\ ~(out # <<>> /\ Last(out) = Under)
  <2>1. EscapeStep(out, c) = Append(out, Under) /\ Under \in Pieces
    BY <1>3 DEF EscapeStep, Pieces
  <2> QED
    BY <1>3, <2>1, AppendEscaped
<1> QED
  BY <1>1, <1>2, <1>3

\* escape_identifier never leaves two underscores in a row, and never nothing.
LEMMA EscapeIsEscaped ==
  ASSUME NEW name, IsText(name)
  PROVE  Escaped(Escape(name)) /\ Escape(name) # <<>>
<1>1. CASE name = <<>>
  <2>1. Escape(name) = <<Under>>
    BY <1>1 DEF Escape
  <2>2. Escaped(<<Under>>) /\ <<Under>> # <<>>
    BY DEF Escaped, Pieces, NoDouble
  <2> QED
    BY <2>1, <2>2
<1>2. CASE name # <<>>
  <2>1. Len(name) \in Nat /\ Len(name) # 0
    BY <1>2 DEF IsText
  <2>2. PICK u : Escapes(u, name, Len(name)) /\ Escape(name) = u[Len(name)]
    BY <1>2, <2>1, EscapeIsStepwise
  <2>3. \A k \in 0..Len(name) :
          u[k] = IF k = 0 THEN EscapeStart(name) ELSE EscapeStep(u[k - 1], name[k])
    <3> HIDE DEF EscapeStart, EscapeStep
    <3> QED
      BY <2>2, Zenon DEF Escapes
  <2> DEFINE S == {k \in Nat : k <= Len(name) => Escaped(u[k]) /\ (k # 0 => u[k] # <<>>)}
  <2>4. 0 \in S
    <3>1. u[0] = EscapeStart(name)
      BY <2>1, <2>3
    <3>2. Escaped(<<>>) /\ Escaped(<<Under>>)
      BY DEF Escaped, Pieces, NoDouble
    <3> QED
      BY <3>1, <3>2 DEF EscapeStart
  <2>5. ASSUME NEW k \in Nat, k \in S PROVE k + 1 \in S
    <3> SUFFICES ASSUME k + 1 <= Len(name)
                 PROVE  Escaped(u[k + 1]) /\ u[k + 1] # <<>>
      BY <2>1
    <3>1. u[k + 1] = EscapeStep(u[k], name[k + 1])
      <4>1. k + 1 \in 0..Len(name) /\ k + 1 # 0 /\ (k + 1) - 1 = k
        BY <2>1
      <4> HIDE DEF EscapeStep
      <4> QED
        BY <4>1, <2>3
    <3>2. Escaped(u[k])
      BY <2>1, <2>5
    <3> QED
      BY <3>1, <3>2, StepKeepsEscaped
  <2> HIDE DEF S
  <2>6. Nat \subseteq S
    BY <2>4, <2>5, NumberInduction
  <2>7. Len(name) \in S
    BY <2>1, <2>6
  <2> QED
    BY <2>1, <2>2, <2>7 DEF S
<1> QED
  BY <1>1, <1>2

-----------------------------------------------------------------------------
(* Reading a macro's name                                                  *)

Sep == <<Under, Under>>

\* A text in two parts, with a separator between them.
TwoParts(x, a, b) ==
  /\ Len(x) = Len(a) + 2 + Len(b)
  /\ \A i \in 1..Len(a) : x[i] = a[i]
  /\ x[Len(a) + 1] = Under /\ x[Len(a) + 2] = Under
  /\ \A i \in 1..Len(b) : x[Len(a) + 2 + i] = b[i]

\* Where the parts of two names with a separator are.
LEMMA PartsLie ==
  ASSUME NEW S, NEW a \in Seq(S), NEW b \in Seq(S), Under \in S
  PROVE  a \o Sep \o b \in Seq(S) /\ TwoParts(a \o Sep \o b, a, b)
<1>1. Sep \in Seq(S) /\ Len(Sep) = 2 /\ Sep[1] = Under /\ Sep[2] = Under
  BY DEF Sep
<1> HIDE DEF Sep
<1> DEFINE y == a \o Sep
<1>2. y \in Seq(S) /\ Joined(y, a, Sep)
  BY <1>1, JoinGives
<1> HIDE DEF y
<1> DEFINE x == y \o b
<1>3. x \in Seq(S) /\ Joined(x, y, b)
  BY <1>2, JoinGives
<1> HIDE DEF x
<1>4. Len(a) \in Nat /\ Len(b) \in Nat /\ Len(y) = Len(a) + 2
  BY <1>1, <1>2 DEF Joined
<1>5. Len(x) = Len(a) + 2 + Len(b) /\ \A i \in 1..Len(a) : x[i] = a[i]
  <2>1. \A i \in 1..Len(a) : i \in 1..Len(y)
    BY <1>4
  <2>2. \A i \in 1..Len(a) : x[i] = y[i] /\ y[i] = a[i]
    BY <1>2, <1>3, <2>1 DEF Joined
  <2> QED
    BY <1>3, <1>4, <2>2 DEF Joined
<1>6. x[Len(a) + 1] = Under /\ x[Len(a) + 2] = Under
  <2>1. Len(a) + 1 \in 1..Len(y) /\ Len(a) + 2 \in 1..Len(y)
    BY <1>4
  <2>2. x[Len(a) + 1] = y[Len(a) + 1] /\ x[Len(a) + 2] = y[Len(a) + 2]
    BY <1>3, <2>1 DEF Joined
  <2>3. y[Len(a) + 1] = Sep[1] /\ y[Len(a) + 2] = Sep[2]
    BY <1>1, <1>2 DEF Joined
  <2> QED
    BY <1>1, <2>2, <2>3
<1>7. \A i \in 1..Len(b) : x[Len(a) + 2 + i] = b[i]
  BY <1>3, <1>4 DEF Joined
<1>8. TwoParts(x, a, b)
  BY <1>5, <1>6, <1>7 DEF TwoParts
<1> QED
  BY <1>3, <1>8 DEF x, y

\* Without an underscore at its end, a part ends before the first two in a row.
LEMMA PartIsNoShorter ==
  ASSUME NEW a, NEW b, NEW c, NEW d,
         Escaped(a), Escaped(b), Escaped(c), Escaped(d), Last(c) # Under,
         a \o Sep \o b = c \o Sep \o d
  PROVE  ~(Len(a) < Len(c))
<1> USE DEF Last
<1>1. /\ a \in Seq(Pieces) /\ b \in Seq(Pieces) /\ c \in Seq(Pieces) /\ d \in Seq(Pieces)
      /\ Len(a) \in Nat /\ Len(c) \in Nat /\ Under \in Pieces
  BY DEF Escaped, Pieces
<1> HIDE DEF Sep, Pieces
<1> DEFINE x == a \o Sep \o b
<1>2. x[Len(a) + 1] = Under /\ x[Len(a) + 2] = Under
  <2>1. TwoParts(x, a, b)
    BY <1>1, PartsLie
  <2> QED
    BY <2>1 DEF TwoParts
<1>3. \A i \in 1..Len(c) : x[i] = c[i]
  <2>1. TwoParts(x, c, d)
    BY <1>1, PartsLie
  <2> QED
    BY <2>1 DEF TwoParts
<1> SUFFICES ASSUME Len(a) < Len(c) PROVE FALSE
  OBVIOUS
<1> HIDE DEF x
<1>4. c[Len(a) + 1] = Under
  <2>1. Len(a) + 1 \in 1..Len(c)
    BY <1>1
  <2> QED
    BY <1>2, <1>3, <2>1, Zenon
<1>5. CASE Len(c) = Len(a) + 1
  BY <1>4, <1>5 DEF Last
<1>6. CASE Len(c) # Len(a) + 1
  <2>1. Len(a) + 2 \in 1..Len(c) /\ Len(a) + 1 \in 1..(Len(c) - 1) /\ (Len(a) + 1) + 1 = Len(a) + 2
    BY <1>1, <1>6
  <2>2. c[Len(a) + 2] = Under
    BY <1>2, <1>3, <2>1
  <2> QED
    BY <1>4, <2>1, <2>2 DEF Escaped, NoDouble
<1> QED
  BY <1>5, <1>6

Apart(a, b, c, d) ==
  Last(a) # Under /\ Last(c) # Under /\ a \o Sep \o b = c \o Sep \o d => a = c /\ b = d

\* So both parts can be read from their text.
LEMMA PartsAreRead ==
  ASSUME NEW a, NEW b, NEW c, NEW d, Escaped(a), Escaped(b), Escaped(c), Escaped(d)
  PROVE  Apart(a, b, c, d)
<1> SUFFICES ASSUME Last(a) # Under, Last(c) # Under, a \o Sep \o b = c \o Sep \o d
             PROVE  a = c /\ b = d
  BY Zenon DEF Apart
<1> USE DEF Last
<1>1. /\ a \in Seq(Pieces) /\ b \in Seq(Pieces) /\ c \in Seq(Pieces) /\ d \in Seq(Pieces)
      /\ Len(a) \in Nat /\ Len(b) \in Nat /\ Len(c) \in Nat /\ Len(d) \in Nat /\ Under \in Pieces
  BY DEF Escaped, Pieces
<1> HIDE DEF Sep, Pieces
<1>2. Len(a) = Len(c)
  <2>1. ~(Len(a) < Len(c)) /\ ~(Len(c) < Len(a))
    BY PartIsNoShorter
  <2> QED
    BY <1>1, <2>1
<1> DEFINE x == a \o Sep \o b
<1>3. TwoParts(x, a, b) /\ TwoParts(x, c, d)
  BY <1>1, PartsLie
<1> HIDE DEF x
<1>4. a = c
  <2>1. \A i \in 1..Len(a) : a[i] = c[i]
    BY <1>2, <1>3 DEF TwoParts
  <2> QED
    BY <1>1, <1>2, <2>1, EqualSequences
<1>5. b = d
  <2>1. Len(b) = Len(d)
    BY <1>1, <1>2, <1>3 DEF TwoParts
  <2>2. \A i \in 1..Len(b) : b[i] = d[i]
    BY <1>2, <1>3, <2>1 DEF TwoParts
  <2> QED
    BY <1>1, <2>1, <2>2, EqualSequences
<1> QED
  BY <1>4, <1>5

Associates(s, t, u) == (s \o t) \o u = s \o (t \o u)

\* Three texts in a row can be put together from either side.
LEMMA JoinAssociates ==
  ASSUME NEW S, NEW s \in Seq(S), NEW t \in Seq(S), NEW u \in Seq(S)
  PROVE  Associates(s, t, u)
<1> DEFINE x == (s \o t) \o u
           y == s \o (t \o u)
<1>1. Len(s) \in Nat /\ Len(t) \in Nat /\ Len(u) \in Nat
  OBVIOUS
<1>2. s \o t \in Seq(S) /\ Joined(s \o t, s, t) /\ t \o u \in Seq(S) /\ Joined(t \o u, t, u)
  BY JoinGives
<1>3. x \in Seq(S) /\ Joined(x, s \o t, u) /\ y \in Seq(S) /\ Joined(y, s, t \o u)
  BY <1>2, JoinGives
<1> HIDE DEF x, y
<1>4. Len(x) = Len(s) + Len(t) + Len(u) /\ Len(y) = Len(x)
  BY <1>1, <1>2, <1>3 DEF Joined
<1>5. ASSUME NEW i \in 1..Len(x) PROVE x[i] = y[i]
  <2>1. CASE i \in 1..Len(s)
    <3>1. i \in 1..Len(s \o t)
      BY <1>1, <1>2, <2>1 DEF Joined
    <3> QED
      BY <1>2, <1>3, <2>1, <3>1 DEF Joined
  <2>2. CASE i - Len(s) \in 1..Len(t)
    <3>1. i \in 1..Len(s \o t) /\ i - Len(s) \in 1..Len(t \o u) /\ i = Len(s) + (i - Len(s))
      BY <1>1, <1>2, <2>2 DEF Joined
    <3>2. (s \o t)[i] = t[i - Len(s)] /\ (t \o u)[i - Len(s)] = t[i - Len(s)]
      BY <1>2, <2>2, <3>1 DEF Joined
    <3>3. x[i] = (s \o t)[i] /\ y[i] = (t \o u)[i - Len(s)]
      BY <1>3, <3>1 DEF Joined
    <3> QED
      BY <3>2, <3>3
  <2>3. CASE i - Len(s) - Len(t) \in 1..Len(u)
    <3> DEFINE j == i - Len(s) - Len(t)
    <3>1. /\ i = Len(s \o t) + j /\ Len(t) + j \in 1..Len(t \o u)
          /\ i = Len(s) + (Len(t) + j)
      BY <1>1, <1>2, <2>3 DEF Joined
    <3> HIDE DEF j
    <3>2. j \in 1..Len(u)
      BY <2>3 DEF j
    <3>3. x[i] = u[j]
      BY <1>3, <3>1, <3>2 DEF Joined
    <3>4. (t \o u)[Len(t) + j] = u[j]
      BY <1>2, <3>2 DEF Joined
    <3>5. y[i] = (t \o u)[Len(t) + j]
      BY <1>3, <3>1 DEF Joined
    <3> QED
      BY <3>3, <3>4, <3>5
  <2> QED
    BY <1>1, <1>4, <2>1, <2>2, <2>3
<1>6. x = y
  BY <1>3, <1>4, <1>5, EqualSequences
<1> QED
  BY <1>6 DEF x, y, Associates

Cancels(s, t, u, v) ==
  s \o t = u \o v /\ (Len(s) = Len(u) \/ Len(t) = Len(v)) => s = u /\ t = v

\* Two equal texts with starts, or with ends, of one length are equal in both.
LEMMA JoinCancels ==
  ASSUME NEW S, NEW s \in Seq(S), NEW t \in Seq(S), NEW u \in Seq(S), NEW v \in Seq(S)
  PROVE  Cancels(s, t, u, v)
<1> SUFFICES ASSUME s \o t = u \o v, Len(s) = Len(u) \/ Len(t) = Len(v)
             PROVE  s = u /\ t = v
  BY DEF Cancels
<1> DEFINE x == s \o t
<1>1. Joined(x, s, t) /\ Joined(x, u, v)
  BY JoinGives
<1> HIDE DEF x
<1>2. Len(s) \in Nat /\ Len(t) \in Nat /\ Len(u) \in Nat /\ Len(v) \in Nat
  OBVIOUS
<1>3. Len(s) = Len(u) /\ Len(t) = Len(v)
  BY <1>1, <1>2 DEF Joined
<1>4. \A i \in 1..Len(s) : s[i] = u[i]
  BY <1>1, <1>3 DEF Joined
<1>5. \A i \in 1..Len(t) : t[i] = v[i]
  BY <1>1, <1>3 DEF Joined
<1> QED
  BY <1>3, <1>4, <1>5, EqualSequences

Lead(prefix) == <<prefix, Under, Under>>

\* A macro with two parts is read as it was written.
LEMMA TwoIsRead ==
  ASSUME NEW p, NEW q, NEW a, NEW b, NEW c, NEW d,
         IsText(a), IsText(b), IsText(c), IsText(d),
         Last(Escape(a)) # Under, Last(Escape(c)) # Under,
         Two(p, a, b) = Two(q, c, d)
  PROVE  p = q /\ Escape(a) = Escape(c) /\ Escape(b) = Escape(d)
<1> DEFINE S == Pieces \cup {p, q}
           ea == Escape(a)
           eb == Escape(b)
           ec == Escape(c)
           ed == Escape(d)
<1>1. Escaped(ea) /\ Escaped(eb) /\ Escaped(ec) /\ Escaped(ed)
  BY EscapeIsEscaped
<1>2. Two(p, a, b) = Lead(p) \o ea \o Sep \o eb /\ Two(q, c, d) = Lead(q) \o ec \o Sep \o ed
  BY DEF Two, Lead, Sep
<1>n. Last(ea) # Under /\ Last(ec) # Under
  OBVIOUS
<1> HIDE DEF ea, eb, ec, ed
<1>3. /\ ea \in Seq(S) /\ eb \in Seq(S) /\ ec \in Seq(S) /\ ed \in Seq(S)
      /\ Sep \in Seq(S) /\ Lead(p) \in Seq(S) /\ Lead(q) \in Seq(S)
  <2>1. \A s : s \in Seq(Pieces) => s \in Seq(S)
    OBVIOUS
  <2>2. Under \in S /\ p \in S /\ q \in S
    BY DEF Pieces
  <2> HIDE DEF S
  <2> QED
    BY <1>1, <2>1, <2>2 DEF Escaped, Sep, Lead
<1> HIDE DEF S
<1>4. Len(Lead(p)) = 3 /\ Lead(p)[1] = p /\ Len(Lead(q)) = 3 /\ Lead(q)[1] = q
  BY DEF Lead
<1> HIDE DEF Sep, Lead
<1>5. /\ ea \o Sep \in Seq(S) /\ ec \o Sep \in Seq(S)
      /\ ea \o Sep \o eb \in Seq(S) /\ ec \o Sep \o ed \in Seq(S)
  BY <1>3
<1>6. /\ Lead(p) \o ea \o Sep \o eb = Lead(p) \o (ea \o Sep \o eb)
      /\ Lead(q) \o ec \o Sep \o ed = Lead(q) \o (ec \o Sep \o ed)
  <2>1. Associates(Lead(p), ea, Sep) /\ Associates(Lead(q), ec, Sep)
    BY <1>3, JoinAssociates
  <2>2. Associates(Lead(p), ea \o Sep, eb) /\ Associates(Lead(q), ec \o Sep, ed)
    BY <1>3, <1>5, JoinAssociates
  <2> QED
    BY <2>1, <2>2, Zenon DEF Associates
<1>7. Lead(p) = Lead(q) /\ ea \o Sep \o eb = ec \o Sep \o ed
  <2> DEFINE x == ea \o Sep \o eb
             y == ec \o Sep \o ed
  <2>1. Lead(p) \o x = Lead(q) \o y /\ x \in Seq(S) /\ y \in Seq(S)
    BY <1>2, <1>5, <1>6
  <2> HIDE DEF x, y
  <2>2. Cancels(Lead(p), x, Lead(q), y)
    BY <1>3, <2>1, JoinCancels
  <2> QED
    BY <1>4, <2>1, <2>2 DEF Cancels, x, y
<1>8. ea = ec /\ eb = ed
  <2>1. Apart(ea, eb, ec, ed)
    BY <1>1, PartsAreRead
  <2> QED
    BY <1>n, <1>7, <2>1, Zenon DEF Apart
<1> QED
  BY <1>4, <1>7, <1>8 DEF ea, eb, ec, ed

\* And so is one with a single part, whether or not it ends in an underscore.
LEMMA OneIsRead ==
  ASSUME NEW p, NEW q, NEW a, NEW c, IsText(a), IsText(c), One(p, a) = One(q, c)
  PROVE  p = q /\ Escape(a) = Escape(c)
<1> DEFINE S == Pieces \cup {p, q}
<1>1. /\ Escape(a) \in Seq(S) /\ Escape(c) \in Seq(S)
      /\ Lead(p) \in Seq(S) /\ Lead(q) \in Seq(S)
  <2>1. \A s : s \in Seq(Pieces) => s \in Seq(S)
    OBVIOUS
  <2>2. Under \in S /\ p \in S /\ q \in S
    BY DEF Pieces
  <2> HIDE DEF S
  <2> QED
    BY <2>1, <2>2, EscapeIsEscaped DEF Escaped, Lead
<1> HIDE DEF S
<1>2. Len(Lead(p)) = 3 /\ Lead(p)[1] = p /\ Len(Lead(q)) = 3 /\ Lead(q)[1] = q
  BY DEF Lead
<1>3. Lead(p) \o Escape(a) = Lead(q) \o Escape(c)
  BY DEF One, Lead
<1> HIDE DEF Lead
<1>4. Cancels(Lead(p), Escape(a), Lead(q), Escape(c))
  BY <1>1, JoinCancels
<1> QED
  BY <1>2, <1>3, <1>4 DEF Cancels

\* The prefix is the first piece of every macro.
LEMMA PrefixIsFirst ==
  ASSUME NEW p, NEW a, NEW b, IsText(a), IsText(b)
  PROVE  One(p, a)[1] = p /\ Two(p, a, b)[1] = p
<1> DEFINE S == Pieces \cup {p}
<1>1. /\ Escape(a) \in Seq(S) /\ Escape(b) \in Seq(S)
      /\ Lead(p) \in Seq(S) /\ Sep \in Seq(S)
  <2>1. \A s : s \in Seq(Pieces) => s \in Seq(S)
    OBVIOUS
  <2>2. Under \in S /\ p \in S
    BY DEF Pieces
  <2> HIDE DEF S
  <2> QED
    BY <2>1, <2>2, EscapeIsEscaped DEF Escaped, Lead, Sep
<1> HIDE DEF S
<1>2. Len(Lead(p)) = 3 /\ Lead(p)[1] = p
  BY DEF Lead
<1> DEFINE x == Lead(p) \o Escape(a)
           y == x \o Sep
           z == y \o Escape(b)
<1>3. One(p, a) = x /\ Two(p, a, b) = z
  BY DEF One, Two, Lead, Sep
<1>4. x \in Seq(S) /\ Joined(x, Lead(p), Escape(a))
  BY <1>1, JoinGives
<1> HIDE DEF x
<1>5. y \in Seq(S) /\ Joined(y, x, Sep)
  BY <1>1, <1>4, JoinGives
<1> HIDE DEF y
<1>6. z \in Seq(S) /\ Joined(z, y, Escape(b))
  BY <1>1, <1>5, JoinGives
<1> HIDE DEF z
<1>7. 1 \in 1..Len(Lead(p)) /\ 1 \in 1..Len(x) /\ 1 \in 1..Len(y)
  BY <1>1, <1>2, <1>4, <1>5 DEF Joined
<1>8. z[1] = y[1] /\ y[1] = x[1] /\ x[1] = Lead(p)[1]
  BY <1>4, <1>5, <1>6, <1>7 DEF Joined
<1> QED
  BY <1>2, <1>3, <1>8

-----------------------------------------------------------------------------
(* What a manifest asks for, one macro each                                *)

Prefix == [type |-> "SIZEOF_ALIGNOF", field |-> "OFFSETOF", geometry |-> "BF",
           accessor |-> "BF_ACCESSOR_ID", const |-> "CONST", enum |-> "ENUM"]

WithPolicy(t, policy) == \E e \in Entries(t) : e.policy = policy

\* The keys of the entries the rendering asks the Model for.
IsRequest(k, t, n) ==
  \/ k = "type" /\ t \in Types /\ n = <<>>
  \/ k = "field" /\ t \in Types /\ n \in Fields(t)
  \/ k = "geometry" /\ t \in Types /\ n \in Bitfields(t) /\ WithPolicy(t, "geometry")
  \/ k = "accessor" /\ t \in Types /\ n \in Bitfields(t) /\ WithPolicy(t, "accessor_shim")
  \/ k = "const" /\ t \in Range(m.constants) /\ n = <<>>
  \/ k = "enum" /\ \E en \in Range(m.enums) : t = en.c_type /\ n \in Requested(Given, en)

Text(k, t, n) == IF k \in {"type", "const"} THEN One(Prefix[k], t) ELSE Two(Prefix[k], t, n)

\* What the runs that end well have found out, and what the property assumes.
Readable == ~Collision /\ ~ExtractedCollide(Given) /\ EdgesApart

\* Every part of a request is a text.
LEMMA RequestsAreTexts ==
  ASSUME input \in Inputs, NEW k, NEW t, NEW n, IsRequest(k, t, n)
  PROVE  IsText(t) /\ IsText(n)
<1>1. IsText(<<>>)
  BY DEF IsText
<1>2. /\ \A s \in Range(m.types) :
           IsText(s.c_type) /\ \A f \in Range(s.fields) \cup Range(s.bitfields) : IsText(f)
      /\ \A c \in Range(m.constants) : IsText(c)
      /\ \A e \in Range(m.enums) : IsText(e.c_type) /\ \A v \in Range(e.values) : IsText(v)
      /\ \A e \in Range(input.records) \cup Range(input.entries) : IsText(e.name)
  BY NamesAreTexts DEF m
<1> HIDE DEF IsText
<1>3. \A s \in Types : IsText(s)
  BY <1>2 DEF Types
<1>4. \A s, f : f \in Fields(s) \cup Bitfields(s) => IsText(f)
  BY <1>2 DEF Fields, Bitfields, Entries
<1>5. \A en \in Range(m.enums) : \A v : v \in Requested(Given, en) => IsText(v)
  BY <1>2 DEF Requested, Enumerators, Given
<1> QED
  BY <1>1, <1>2, <1>3, <1>4, <1>5 DEF IsRequest

\* The prefix tells the kind.
LEMMA KindIsRead ==
  ASSUME NEW k, NEW t, NEW n, NEW l, NEW u, NEW o, input \in Inputs,
         IsRequest(k, t, n), IsRequest(l, u, o), Text(k, t, n) = Text(l, u, o)
  PROVE  k = l
<1>1. IsText(t) /\ IsText(n) /\ IsText(u) /\ IsText(o)
  BY RequestsAreTexts
<1>2. Text(k, t, n)[1] = Prefix[k] /\ Text(l, u, o)[1] = Prefix[l]
  BY <1>1, PrefixIsFirst DEF Text
<1>3. /\ k \in {"type", "field", "geometry", "accessor", "const", "enum"}
      /\ l \in {"type", "field", "geometry", "accessor", "const", "enum"}
  BY DEF IsRequest
<1> QED
  BY <1>2, <1>3 DEF Prefix

\* Escaping makes no two requests one: the macro of a request is its own.
LEMMA RequestIsRead ==
  ASSUME NEW k, NEW t, NEW n, NEW l, NEW u, NEW o, input \in Inputs, Readable,
         IsRequest(k, t, n), IsRequest(l, u, o), Text(k, t, n) = Text(l, u, o)
  PROVE  k = l /\ t = u /\ n = o
<1>1. IsText(t) /\ IsText(n) /\ IsText(u) /\ IsText(o)
  BY RequestsAreTexts
<1>2. k = l
  BY KindIsRead
<1>3. CASE k \in {"type", "const"}
  <2>1. One(Prefix[k], t) = One(Prefix[k], u)
    BY <1>2, <1>3 DEF Text
  <2>2. Escape(t) = Escape(u)
    BY <1>1, <2>1, OneIsRead
  <2>3. n = <<>> /\ o = <<>>
    BY <1>2, <1>3 DEF IsRequest
  <2>4. k = "type" => t \in Types /\ u \in Types
    BY <1>2 DEF IsRequest
  <2>5. k = "const" => t \in Range(m.constants) /\ u \in Range(m.constants)
    BY <1>2 DEF IsRequest
  <2>6. t = u
    BY <1>3, <2>2, <2>4, <2>5 DEF Readable, Collision, Collide
  <2> QED
    BY <1>2, <2>3, <2>6
<1>4. CASE k \notin {"type", "const"}
  <2>1. Two(Prefix[k], t, n) = Two(Prefix[k], u, o)
    BY <1>2, <1>4 DEF Text
  <2>2. t \in Types \cup {en.c_type : en \in Range(m.enums)}
    BY <1>4 DEF IsRequest
  <2>3. u \in Types \cup {en.c_type : en \in Range(m.enums)}
    BY <1>2, <1>4 DEF IsRequest
  <2>4. Last(Escape(t)) # Under /\ Last(Escape(u)) # Under
    BY <2>2, <2>3 DEF Readable, EdgesApart
  <2>5. Escape(t) = Escape(u) /\ Escape(n) = Escape(o)
    BY <1>1, <2>1, <2>4, TwoIsRead
  <2>6. CASE k # "enum"
    <3>1. t \in Types /\ u \in Types
      BY <1>2, <1>4, <2>6 DEF IsRequest
    <3>2. t = u
      BY <2>5, <3>1 DEF Readable, Collision, Collide
    <3>3. (n \in Fields(t) /\ o \in Fields(t)) \/ (n \in Bitfields(t) /\ o \in Bitfields(t))
      BY <1>2, <1>4, <2>6, <3>2 DEF IsRequest
    <3>4. n = o
      BY <2>5, <3>1, <3>3 DEF Readable, Collision, Collide
    <3> QED
      BY <1>2, <3>2, <3>4
  <2>7. CASE k = "enum"
    <3>1. PICK en \in Range(m.enums) : t = en.c_type /\ n \in Requested(Given, en)
      BY <2>7 DEF IsRequest
    <3>2. PICK em \in Range(m.enums) : u = em.c_type /\ o \in Requested(Given, em)
      BY <1>2, <2>7 DEF IsRequest
    <3>3. PICK i \in DOMAIN m.enums, j \in DOMAIN m.enums : en = m.enums[i] /\ em = m.enums[j]
      BY DEF Range
    <3>4. i = j
      BY <2>5, <3>1, <3>2, <3>3 DEF Readable, Collision
    <3>5. en = em
      BY <3>3, <3>4
    <3>6. n = o
      BY <2>5, <3>1, <3>2, <3>5 DEF Readable, ExtractedCollide, Collide
    <3> QED
      BY <1>2, <3>1, <3>2, <3>5, <3>6
  <2> QED
    BY <2>6, <2>7
<1> QED
  BY <1>3, <1>4

-----------------------------------------------------------------------------
(* The C header                                                            *)

\* The rendering writes one macro for each request, with what the Model has.
LEMMA RenderedAreRequests ==
  ASSUME model = Given, NEW x
  PROVE  x \in Rendered <=>
           \E k, t, n : IsRequest(k, t, n) /\ x = Macro(Text(k, t, n), Value(Given, k, t, n))
<1> DEFINE Of(k, t, n) == Macro(Text(k, t, n), Value(Given, k, t, n))
<1>1. ASSUME NEW t, NEW n
      PROVE  /\ Of("type", t, <<>>) = Macro(One("SIZEOF_ALIGNOF", t), Value(model, "type", t, <<>>))
             /\ Of("field", t, n) = Macro(Two("OFFSETOF", t, n), Value(model, "field", t, n))
             /\ Of("geometry", t, n) = Macro(Two("BF", t, n), Value(model, "geometry", t, n))
             /\ Of("accessor", t, n) = Macro(Two("BF_ACCESSOR_ID", t, n), Value(model, "accessor", t, n))
             /\ Of("const", t, <<>>) = Macro(One("CONST", t), Value(model, "const", t, <<>>))
             /\ Of("enum", t, n) = Macro(Two("ENUM", t, n), Value(model, "enum", t, n))
  BY DEF Text, Prefix
<1> HIDE DEF Of
<1>r. x \in Rendered <=>
        \/ \E t \in Types : x \in TypeMacros(t)
        \/ \E c \in Range(m.constants) : x = Macro(One("CONST", c), Value(model, "const", c, <<>>))
        \/ \E en \in Range(m.enums) : x \in EnumMacros(en)
  BY Zenon DEF Rendered
<1>2. ASSUME x \in Rendered PROVE \E k, t, n : IsRequest(k, t, n) /\ x = Of(k, t, n)
  <2>1. CASE \E t \in Types : x \in TypeMacros(t)
    <3>1. PICK t \in Types : x \in TypeMacros(t)
      BY <2>1
    <3>2. CASE x = Macro(One("SIZEOF_ALIGNOF", t), Value(model, "type", t, <<>>))
      BY <1>1, <3>2 DEF IsRequest
    <3>3. CASE \E f \in Fields(t) : x = Macro(Two("OFFSETOF", t, f), Value(model, "field", t, f))
      BY <1>1, <3>3 DEF IsRequest
    <3>4. CASE x \in BitfieldMacros(t)
      BY <1>1, <3>4 DEF BitfieldMacros, IsRequest, WithPolicy
    <3> QED
      BY <3>1, <3>2, <3>3, <3>4 DEF TypeMacros
  <2>2. CASE \E c \in Range(m.constants) : x = Macro(One("CONST", c), Value(model, "const", c, <<>>))
    <3>1. PICK c \in Range(m.constants) : x = Macro(One("CONST", c), Value(model, "const", c, <<>>))
      BY <2>2
    <3>2. IsRequest("const", c, <<>>) /\ x = Of("const", c, <<>>)
      BY <1>1, <3>1 DEF IsRequest
    <3> QED
      BY <3>2
  <2>3. CASE \E en \in Range(m.enums) : x \in EnumMacros(en)
    <3>1. PICK en \in Range(m.enums) : \E v \in Requested(Given, en) :
            x = Macro(Two("ENUM", en.c_type, v), Value(model, "enum", en.c_type, v))
      BY <2>3, model = Given DEF EnumMacros
    <3> QED
      BY <1>1, <3>1 DEF IsRequest
  <2> QED
    BY <1>2, <1>r, <2>1, <2>2, <2>3
<1>3. ASSUME NEW k, NEW t, NEW n, IsRequest(k, t, n), x = Of(k, t, n) PROVE x \in Rendered
  <2>1. CASE k \in {"type", "field", "geometry", "accessor"}
    <3>1. t \in Types
      BY <1>3, <2>1 DEF IsRequest
    <3>2. k = "type" => x \in TypeMacros(t)
      BY <1>1, <1>3 DEF IsRequest, TypeMacros
    <3>3. k = "field" => x \in TypeMacros(t)
      BY <1>1, <1>3 DEF IsRequest, TypeMacros
    <3>4. k \in {"geometry", "accessor"} => x \in TypeMacros(t)
      BY <1>1, <1>3 DEF IsRequest, TypeMacros, BitfieldMacros, WithPolicy
    <3> QED
      BY <1>r, <2>1, <3>1, <3>2, <3>3, <3>4
  <2>2. CASE k = "const"
    <3>1. t \in Range(m.constants) /\ n = <<>>
      BY <1>3, <2>2 DEF IsRequest
    <3> QED
      BY <1>1, <1>3, <1>r, <2>2, <3>1
  <2>3. CASE k = "enum"
    <3>1. PICK en \in Range(m.enums) : t = en.c_type /\ n \in Requested(model, en)
      BY <1>3, <2>3, model = Given DEF IsRequest
    <3>2. x \in EnumMacros(en)
      BY <1>1, <1>3, <2>3, <3>1 DEF EnumMacros
    <3> QED
      BY <1>r, <3>2
  <2> QED
    BY <1>3, <2>1, <2>2, <2>3 DEF IsRequest
<1> QED
  BY <1>2, <1>3 DEF Of

\* The Model has one entry for each request.
LEMMA RequestIsRecorded ==
  ASSUME NEW k, NEW t, NEW n, IsRequest(k, t, n), Renderable(Given), Consistent
  PROVE  Recorded(k, t, n) = {Value(Given, k, t, n)}
<1>1. Has(Given, k, t, n)
  BY DEF IsRequest, WithPolicy, Renderable
<1>2. PICK e \in Given : e.kind = k /\ e.type = t /\ e.name = n
  BY <1>1 DEF Has
<1>3. \A f \in Given : f.kind = k /\ f.type = t /\ f.name = n => f.value = e.value
  BY <1>2 DEF Consistent, SameKey
<1>4. Value(Given, k, t, n) = e.value
  BY <1>2, <1>3 DEF Value
<1>5. Recorded(k, t, n) = {e.value}
  BY <1>2, <1>3 DEF Recorded
<1> QED
  BY <1>4, <1>5

\* So a macro has the recorded value of its request, and no other.
LEMMA RequestIsMeant ==
  ASSUME NEW k, NEW t, NEW n, IsRequest(k, t, n), input \in Inputs, Readable,
         Renderable(Given), Consistent, model = Given, macros = Rendered
  PROVE  Values(Text(k, t, n)) = Recorded(k, t, n)
<1> DEFINE value == Value(Given, k, t, n)
<1>1. Macro(Text(k, t, n), value) \in macros
  BY RenderedAreRequests
<1>2. ASSUME NEW y \in macros, y.macro = Text(k, t, n) PROVE y.value = value
  <2>1. PICK l, u, o : IsRequest(l, u, o) /\ y = Macro(Text(l, u, o), Value(Given, l, u, o))
    BY RenderedAreRequests
  <2>2. y.macro = Text(l, u, o) /\ y.value = Value(Given, l, u, o)
    BY <2>1 DEF Macro
  <2>3. k = l /\ t = u /\ n = o
    BY <1>2, <2>1, <2>2, RequestIsRead
  <2> QED
    BY <2>2, <2>3
<1>3. Macro(Text(k, t, n), value).macro = Text(k, t, n) /\ Macro(Text(k, t, n), value).value = value
  BY DEF Macro
<1> HIDE DEF value
<1>4. Values(Text(k, t, n)) = {value}
  BY <1>1, <1>2, <1>3 DEF Values
<1> QED
  BY <1>4, RequestIsRecorded DEF value

-----------------------------------------------------------------------------
(* The C++ header                                                          *)

Scope(k, t) ==
  IF k = "const" THEN <<"constants">>
  ELSE IF k = "enum" THEN <<"enums", Escape(t)>>
  ELSE <<"struct", Escape(t)>>

\* What is declared for a request.
NamesOf(k, t, n) ==
  IF k = "type" THEN {<<"size">>, <<"align">>}
  ELSE IF k = "field" THEN {Escape(n) \o <<Under, "offset">>}
  ELSE IF k = "geometry" THEN BitfieldNames(n, "geometry")
  ELSE IF k = "accessor" THEN BitfieldNames(n, "accessor_shim")
  ELSE IF k = "const" THEN {Escape(t)}
  ELSE {Escape(n)}

DeclaredFor(d, k, t, n) == \E x \in NamesOf(k, t, n) : d = Declared(Scope(k, t), x, Text(k, t, n))

\* The members of a struct, request by request.
LEMMA MembersAreRequests ==
  ASSUME NEW t \in Types, NEW d
  PROVE  d \in StructMembers(t) <=>
           \E k, n : /\ k \in {"type", "field", "geometry", "accessor"}
                     /\ IsRequest(k, t, n) /\ DeclaredFor(d, k, t, n)
<1> DEFINE Member(name, text) == Declared(<<"struct", Escape(t)>>, name, text)
           Bits(policy) == {x \in Bitfields(t) : \E e \in Entries(t) : e.policy = policy}
           A == {Member(n, One("SIZEOF_ALIGNOF", t)) : n \in {<<"size">>, <<"align">>}}
           B == {Member(Escape(f) \o <<Under, "offset">>, Two("OFFSETOF", t, f)) : f \in Fields(t)}
           OfGeometry(b) == {Member(n, Two("BF", t, b)) : n \in BitfieldNames(b, "geometry")}
           OfAccessor(b) == {Member(n, Two("BF_ACCESSOR_ID", t, b)) : n \in BitfieldNames(b, "accessor_shim")}
           C == UNION {OfGeometry(b) : b \in Bits("geometry")}
           D == UNION {OfAccessor(b) : b \in Bits("accessor_shim")}
<1>1. StructMembers(t) = A \cup B \cup C \cup D
  BY Zenon DEF StructMembers
<1>2. d \in A <=> \E n \in {<<"size">>, <<"align">>} : d = Member(n, One("SIZEOF_ALIGNOF", t))
  BY Zenon
<1>3. d \in B <=> \E f \in Fields(t) : d = Member(Escape(f) \o <<Under, "offset">>, Two("OFFSETOF", t, f))
  BY Zenon
<1>4. d \in C <=> \E b \in Bits("geometry") : \E n \in BitfieldNames(b, "geometry") :
                     d = Member(n, Two("BF", t, b))
  <2>1. \A b : d \in OfGeometry(b) <=>
                 \E n \in BitfieldNames(b, "geometry") : d = Member(n, Two("BF", t, b))
    BY Zenon
  <2> HIDE DEF OfGeometry, Bits
  <2>2. d \in C <=> \E b \in Bits("geometry") : d \in OfGeometry(b)
    BY Zenon
  <2> QED
    BY <2>1, <2>2
<1>5. d \in D <=> \E b \in Bits("accessor_shim") : \E n \in BitfieldNames(b, "accessor_shim") :
                     d = Member(n, Two("BF_ACCESSOR_ID", t, b))
  <2>1. \A b : d \in OfAccessor(b) <=>
                 \E n \in BitfieldNames(b, "accessor_shim") : d = Member(n, Two("BF_ACCESSOR_ID", t, b))
    BY Zenon
  <2> HIDE DEF OfAccessor, Bits
  <2>2. d \in D <=> \E b \in Bits("accessor_shim") : d \in OfAccessor(b)
    BY Zenon
  <2> QED
    BY <2>1, <2>2
<1>6. \A n : /\ Text("type", t, n) = One("SIZEOF_ALIGNOF", t)
             /\ Text("field", t, n) = Two("OFFSETOF", t, n)
             /\ Text("geometry", t, n) = Two("BF", t, n)
             /\ Text("accessor", t, n) = Two("BF_ACCESSOR_ID", t, n)
  BY DEF Text, Prefix
<1>7. \A k \in {"type", "field", "geometry", "accessor"} : Scope(k, t) = <<"struct", Escape(t)>>
  BY DEF Scope
<1>8. \A n : /\ NamesOf("type", t, n) = {<<"size">>, <<"align">>}
             /\ NamesOf("field", t, n) = {Escape(n) \o <<Under, "offset">>}
             /\ NamesOf("geometry", t, n) = BitfieldNames(n, "geometry")
             /\ NamesOf("accessor", t, n) = BitfieldNames(n, "accessor_shim")
  BY DEF NamesOf
<1>9. \A k \in {"type", "field", "geometry", "accessor"} : \A n :
        DeclaredFor(d, k, t, n) <=> \E x \in NamesOf(k, t, n) : d = Member(x, Text(k, t, n))
  BY <1>7 DEF DeclaredFor
<1>10. /\ IsRequest("type", t, <<>>)
       /\ \A n : IsRequest("type", t, n) => n = <<>>
       /\ \A n : IsRequest("field", t, n) <=> n \in Fields(t)
       /\ \A n : IsRequest("geometry", t, n) <=> n \in Bits("geometry")
       /\ \A n : IsRequest("accessor", t, n) <=> n \in Bits("accessor_shim")
  BY DEF IsRequest, WithPolicy
<1> HIDE DEF A, B, C, D, Bits, Member, OfGeometry, OfAccessor
<1>11. d \in A <=> \E n : IsRequest("type", t, n) /\ DeclaredFor(d, "type", t, n)
  BY <1>2, <1>6, <1>8, <1>9, <1>10
<1>12. d \in B <=> \E n : IsRequest("field", t, n) /\ DeclaredFor(d, "field", t, n)
  <2>1. \A n : DeclaredFor(d, "field", t, n) <=>
                 d = Member(Escape(n) \o <<Under, "offset">>, Two("OFFSETOF", t, n))
    BY <1>6, <1>8, <1>9
  <2> QED
    BY <1>3, <1>10, <2>1
<1>13. d \in C <=> \E n : IsRequest("geometry", t, n) /\ DeclaredFor(d, "geometry", t, n)
  BY <1>4, <1>6, <1>8, <1>9, <1>10
<1>14. d \in D <=> \E n : IsRequest("accessor", t, n) /\ DeclaredFor(d, "accessor", t, n)
  BY <1>5, <1>6, <1>8, <1>9, <1>10
<1> QED
  BY <1>1, <1>11, <1>12, <1>13, <1>14

\* The C++ header declares something for each request, in the request's scope.
LEMMA DeclarationsAreRequests ==
  ASSUME model = Given, NEW d
  PROVE  d \in Declarations <=> \E k, t, n : IsRequest(k, t, n) /\ DeclaredFor(d, k, t, n)
<1>1. d \in Declarations <=>
        \/ \E t \in Types : d \in StructMembers(t)
        \/ \E c \in Range(m.constants) : d = Declared(<<"constants">>, Escape(c), One("CONST", c))
        \/ \E en \in Range(m.enums) : d \in EnumDeclarations(en)
  BY Zenon DEF Declarations
<1>2. (\E t \in Types : d \in StructMembers(t)) <=>
        \E k, t, n : /\ k \in {"type", "field", "geometry", "accessor"}
                     /\ IsRequest(k, t, n) /\ DeclaredFor(d, k, t, n)
  <2>1. \A k \in {"type", "field", "geometry", "accessor"} : \A t, n : IsRequest(k, t, n) => t \in Types
    BY DEF IsRequest
  <2> QED
    BY <2>1, MembersAreRequests
<1>3. (\E c \in Range(m.constants) : d = Declared(<<"constants">>, Escape(c), One("CONST", c))) <=>
        \E t, n : IsRequest("const", t, n) /\ DeclaredFor(d, "const", t, n)
  <2>1. \A t, n : DeclaredFor(d, "const", t, n) <=> d = Declared(<<"constants">>, Escape(t), One("CONST", t))
    BY DEF DeclaredFor, Scope, NamesOf, Text, Prefix
  <2>2. \A t, n : IsRequest("const", t, n) <=> t \in Range(m.constants) /\ n = <<>>
    BY DEF IsRequest
  <2> QED
    BY <2>1, <2>2
<1>4. (\E en \in Range(m.enums) : d \in EnumDeclarations(en)) <=>
        \E t, n : IsRequest("enum", t, n) /\ DeclaredFor(d, "enum", t, n)
  <2>1. \A t, n : DeclaredFor(d, "enum", t, n) <=>
                    d = Declared(<<"enums", Escape(t)>>, Escape(n), Two("ENUM", t, n))
    BY DEF DeclaredFor, Scope, NamesOf, Text, Prefix
  <2>2. \A t, n : IsRequest("enum", t, n) <=>
                    \E en \in Range(m.enums) : t = en.c_type /\ n \in Requested(Given, en)
    BY DEF IsRequest
  <2>3. \A en : d \in EnumDeclarations(en) <=>
                  \E n \in Requested(Given, en) :
                    d = Declared(<<"enums", Escape(en.c_type)>>, Escape(n), Two("ENUM", en.c_type, n))
    BY model = Given, Zenon DEF EnumDeclarations
  <2>4. ASSUME NEW en \in Range(m.enums), d \in EnumDeclarations(en)
        PROVE  \E t, n : IsRequest("enum", t, n) /\ DeclaredFor(d, "enum", t, n)
    BY <2>1, <2>2, <2>3, <2>4
  <2>5. ASSUME NEW t, NEW n, IsRequest("enum", t, n), DeclaredFor(d, "enum", t, n)
        PROVE  \E en \in Range(m.enums) : d \in EnumDeclarations(en)
    <3>1. PICK en \in Range(m.enums) : t = en.c_type /\ n \in Requested(Given, en)
      BY <2>2, <2>5
    <3>2. d = Declared(<<"enums", Escape(en.c_type)>>, Escape(n), Two("ENUM", en.c_type, n))
      BY <2>1, <2>5, <3>1
    <3>3. d \in EnumDeclarations(en)
      BY <2>3, <3>1, <3>2
    <3> QED
      BY <3>3
  <2> QED
    BY <2>4, <2>5
<1>5. \A k, t, n : IsRequest(k, t, n) => k \in {"type", "field", "geometry", "accessor", "const", "enum"}
  BY DEF IsRequest
<1> QED
  BY <1>1, <1>2, <1>3, <1>4, <1>5

Letters == Pieces \cup {"abs", "bit", "offset", "size", "is", "signed", "byte", "in", "span",
                        "bytes", "accessor", "id", "align"}

OffsetSuffix == <<Under, "offset">>
AccessorSuffix == <<Under, "accessor", Under, "id">>
ByteSuffix == <<Under, "byte">>
AbsBitSuffix == <<Under, "abs", Under, "bit">>

ByteOffset == <<Under, "byte", Under, "offset">>
AbsBitOffset == <<Under, "abs", Under, "bit", Under, "offset">>

MemberSuffixes == GeometrySuffixes \cup {AccessorSuffix, OffsetSuffix}

SameFromEnd(x, y, j) == x[Len(x) - j] = y[Len(y) - j]

\* The end of a text is that of its last part.
LEMMA EndsAgree ==
  ASSUME NEW S, NEW s \in Seq(S), NEW t \in Seq(S), NEW x \in Seq(S), NEW y \in Seq(S),
         s \o x = t \o y, NEW j \in Nat, j < Len(x), j < Len(y)
  PROVE  SameFromEnd(x, y, j)
<1> DEFINE z == s \o x
<1>1. Joined(z, s, x) /\ Joined(z, t, y)
  BY JoinGives
<1> HIDE DEF z
<1>2. Len(s) \in Nat /\ Len(t) \in Nat /\ Len(x) \in Nat /\ Len(y) \in Nat
  OBVIOUS
<1>3. Len(x) - j \in 1..Len(x) /\ Len(y) - j \in 1..Len(y)
  BY <1>2
<1>4. z[Len(s) + (Len(x) - j)] = x[Len(x) - j] /\ z[Len(t) + (Len(y) - j)] = y[Len(y) - j]
  BY <1>1, <1>3 DEF Joined
<1>5. Len(s) + (Len(x) - j) = Len(t) + (Len(y) - j)
  BY <1>1, <1>2 DEF Joined
<1> QED
  BY <1>4, <1>5 DEF SameFromEnd

\* What can follow an escaped name, and where it ends in "offset".
LEMMA SuffixFacts ==
  /\ MemberSuffixes \subseteq Seq(Letters)
  /\ \A x \in MemberSuffixes : Len(x) \in Nat /\ 0 < Len(x) /\ Len(x) - 0 = Len(x)
  /\ \A x, y \in MemberSuffixes :
       x[Len(x)] = y[Len(y)] => x = y \/ {x, y} \subseteq {OffsetSuffix, ByteOffset, AbsBitOffset}
<1> DEFINE size == <<Under, "bit", Under, "size">>
           signed == <<Under, "is", Under, "signed">>
           inbyte == <<Under, "bit", Under, "in", Under, "byte">>
           bytes == <<Under, "span", Under, "bytes">>
           all == {size, signed, inbyte, bytes, AccessorSuffix, OffsetSuffix, ByteOffset, AbsBitOffset}
<1>1. MemberSuffixes = all
  BY Zenon DEF MemberSuffixes, GeometrySuffixes, ByteOffset, AbsBitOffset
<1>2. /\ size \in Seq(Letters) /\ signed \in Seq(Letters)
      /\ inbyte \in Seq(Letters) /\ bytes \in Seq(Letters)
  BY DEF Letters, Pieces
<1>3. /\ AccessorSuffix \in Seq(Letters) /\ OffsetSuffix \in Seq(Letters)
      /\ ByteOffset \in Seq(Letters) /\ AbsBitOffset \in Seq(Letters)
  BY DEF Letters, Pieces, AccessorSuffix, OffsetSuffix, ByteOffset, AbsBitOffset
<1>4. /\ Len(size) = 4 /\ size[4] = "size" /\ Len(signed) = 4 /\ signed[4] = "signed"
      /\ Len(inbyte) = 6 /\ inbyte[6] = "byte" /\ Len(bytes) = 4 /\ bytes[4] = "bytes"
  OBVIOUS
<1>5. /\ Len(AccessorSuffix) = 4 /\ AccessorSuffix[4] = "id"
      /\ Len(OffsetSuffix) = 2 /\ OffsetSuffix[2] = "offset"
      /\ Len(ByteOffset) = 4 /\ ByteOffset[4] = "offset"
      /\ Len(AbsBitOffset) = 6 /\ AbsBitOffset[6] = "offset"
  BY DEF AccessorSuffix, OffsetSuffix, ByteOffset, AbsBitOffset
<1> HIDE DEF size, signed, inbyte, bytes
<1>6. all \subseteq Seq(Letters)
  BY <1>2, <1>3
<1> DEFINE Long(x) == Len(x) \in Nat /\ 0 < Len(x) /\ Len(x) - 0 = Len(x)
<1>7. \A x \in all : Long(x)
  <2>1. \A x : Len(x) \in {2, 4, 6} => Long(x)
    OBVIOUS
  <2> HIDE DEF Long
  <2> QED
    BY <1>4, <1>5, <2>1
<1> DEFINE End(x) == x[Len(x)]
<1>8. /\ End(size) = "size" /\ End(signed) = "signed" /\ End(inbyte) = "byte" /\ End(bytes) = "bytes"
      /\ End(AccessorSuffix) = "id" /\ End(OffsetSuffix) = "offset"
      /\ End(ByteOffset) = "offset" /\ End(AbsBitOffset) = "offset"
  BY <1>4, <1>5
<1> HIDE DEF End
<1>9. ASSUME NEW x \in all, NEW y \in all, End(x) = End(y)
      PROVE  x = y \/ {x, y} \subseteq {OffsetSuffix, ByteOffset, AbsBitOffset}
  <2>1. CASE x \in {OffsetSuffix, ByteOffset, AbsBitOffset}
    BY <1>8, <1>9, <2>1
  <2>2. CASE x \in {size, signed, inbyte, bytes, AccessorSuffix}
    BY <1>8, <1>9, <2>2
  <2> QED
    BY <2>1, <2>2
<1> HIDE DEF all
<1> QED
  BY <1>1, <1>6, <1>7, <1>9 DEF End

\* The two suffixes that end as a field's does are longer by a known text.
LEMMA LongerSuffixes ==
  /\ ByteSuffix \in Seq(Letters) /\ AbsBitSuffix \in Seq(Letters) /\ OffsetSuffix \in Seq(Letters)
  /\ ByteOffset = ByteSuffix \o OffsetSuffix
  /\ AbsBitOffset = AbsBitSuffix \o OffsetSuffix
  /\ OffsetSuffix # ByteOffset /\ OffsetSuffix # AbsBitOffset
  /\ Len(ByteOffset) = 4 /\ Len(AbsBitOffset) = 6
  /\ ByteOffset[2] = "byte" /\ AbsBitOffset[4] = "bit"
<1>1. ByteSuffix \in Seq(Letters) /\ AbsBitSuffix \in Seq(Letters) /\ OffsetSuffix \in Seq(Letters)
  BY DEF Letters, Pieces, ByteSuffix, AbsBitSuffix, OffsetSuffix
<1>2. ByteOffset = ByteSuffix \o OffsetSuffix
  BY DEF ByteOffset, ByteSuffix, OffsetSuffix
<1>3. AbsBitOffset = AbsBitSuffix \o OffsetSuffix
  BY DEF AbsBitOffset, AbsBitSuffix, OffsetSuffix
<1>4. OffsetSuffix # ByteOffset /\ OffsetSuffix # AbsBitOffset
  BY DEF OffsetSuffix, ByteOffset, AbsBitOffset
<1>5. /\ Len(ByteOffset) = 4 /\ Len(AbsBitOffset) = 6
      /\ ByteOffset[2] = "byte" /\ AbsBitOffset[4] = "bit"
  BY DEF ByteOffset, AbsBitOffset
<1> QED
  BY <1>1, <1>2, <1>3, <1>4, <1>5

\* A field called like a bit-field with "_byte" or "_abs_bit" behind it.
LooksLikeBits(s, x, t, y) == x = OffsetSuffix /\ y # x /\ s \in {t \o ByteSuffix, t \o AbsBitSuffix}

\* A member's name tells its suffix and what is before it.
LEMMA SuffixIsRead ==
  ASSUME NEW s \in Seq(Letters), NEW t \in Seq(Letters), NEW x \in MemberSuffixes, NEW y \in MemberSuffixes,
         s \o x = t \o y, ~LooksLikeBits(s, x, t, y), ~LooksLikeBits(t, y, s, x)
  PROVE  s = t /\ x = y
<1>1. x \in Seq(Letters) /\ y \in Seq(Letters)
  BY SuffixFacts
<1>2. CASE x = y
  <2>1. Cancels(s, x, t, y)
    BY <1>1, JoinCancels
  <2> QED
    BY <1>2, <2>1 DEF Cancels
<1>3. CASE x # y
  <2>1. /\ Len(x) \in Nat /\ 0 < Len(x) /\ Len(x) - 0 = Len(x)
        /\ Len(y) \in Nat /\ 0 < Len(y) /\ Len(y) - 0 = Len(y)
    BY SuffixFacts, Zenon
  <2>2. SameFromEnd(x, y, 0)
    BY <1>1, <2>1, EndsAgree
  <2>3. x[Len(x)] = y[Len(y)]
    BY <2>1, <2>2, Zenon DEF SameFromEnd
  <2>4. {x, y} \subseteq {OffsetSuffix, ByteOffset, AbsBitOffset}
    BY <1>3, <2>3, SuffixFacts
  <2>5. CASE x = OffsetSuffix
    <3>1. PICK u \in {ByteSuffix, AbsBitSuffix} : y = u \o OffsetSuffix /\ u \in Seq(Letters)
      BY <1>3, <2>4, <2>5, LongerSuffixes
    <3>2. Associates(t, u, x)
      BY <1>1, <3>1, JoinAssociates
    <3>3. s \o x = (t \o u) \o x
      BY <2>5, <3>1, <3>2 DEF Associates
    <3>4. t \o u \in Seq(Letters)
      BY <3>1
    <3>5. Cancels(s, x, t \o u, x)
      BY <1>1, <3>4, JoinCancels
    <3>6. s = t \o u
      BY <3>3, <3>5 DEF Cancels
    <3> QED
      BY <1>3, <2>5, <3>1, <3>6 DEF LooksLikeBits
  <2>6. CASE y = OffsetSuffix
    <3>1. PICK u \in {ByteSuffix, AbsBitSuffix} : x = u \o OffsetSuffix /\ u \in Seq(Letters)
      BY <1>3, <2>4, <2>6, LongerSuffixes
    <3>2. Associates(s, u, y)
      BY <1>1, <3>1, JoinAssociates
    <3>3. t \o y = (s \o u) \o y
      BY <2>6, <3>1, <3>2 DEF Associates
    <3>4. s \o u \in Seq(Letters)
      BY <3>1
    <3>5. Cancels(t, y, s \o u, y)
      BY <1>1, <3>4, JoinCancels
    <3>6. t = s \o u
      BY <3>3, <3>5 DEF Cancels
    <3> QED
      BY <1>3, <2>6, <3>1, <3>6 DEF LooksLikeBits
  <2>7. CASE x # OffsetSuffix /\ y # OffsetSuffix
    <3>1. (x = ByteOffset /\ y = AbsBitOffset) \/ (x = AbsBitOffset /\ y = ByteOffset)
      BY <1>3, <2>4, <2>7
    <3>2. 2 \in Nat /\ 2 < Len(ByteOffset) /\ 2 < Len(AbsBitOffset)
      BY LongerSuffixes
    <3>3. SameFromEnd(x, y, 2)
      <4>1. 2 < Len(x) /\ 2 < Len(y)
        BY <3>1, <3>2, Zenon
      <4> QED
        BY <1>1, <3>2, <4>1, EndsAgree
    <3>4. ByteOffset[Len(ByteOffset) - 2] = AbsBitOffset[Len(AbsBitOffset) - 2]
      BY <3>1, <3>3, Zenon DEF SameFromEnd
    <3>5. ByteOffset[Len(ByteOffset) - 2] # AbsBitOffset[Len(AbsBitOffset) - 2]
      BY LongerSuffixes
    <3> QED
      BY <3>4, <3>5
  <2> QED
    BY <2>5, <2>6, <2>7
<1> QED
  BY <1>2, <1>3

\* A member's name is an escaped one and a suffix of its kind.
LEMMA MemberNames ==
  ASSUME NEW k \in {"field", "geometry", "accessor"}, NEW t, NEW n, NEW x \in NamesOf(k, t, n)
  PROVE  \E s \in MemberSuffixes : /\ x = Escape(n) \o s
                                   /\ s = OffsetSuffix <=> k = "field"
                                   /\ s = AccessorSuffix <=> k = "accessor"
<1>1. OffsetSuffix \notin GeometrySuffixes /\ AccessorSuffix \notin GeometrySuffixes
  BY DEF GeometrySuffixes, OffsetSuffix, AccessorSuffix
<1>2. OffsetSuffix # AccessorSuffix
  BY DEF OffsetSuffix, AccessorSuffix
<1>3. CASE k = "field"
  <2>1. x = Escape(n) \o OffsetSuffix
    BY <1>3 DEF NamesOf, OffsetSuffix
  <2> QED
    BY <1>2, <1>3, <2>1 DEF MemberSuffixes
<1>4. CASE k = "geometry"
  <2>1. PICK s \in GeometrySuffixes : x = Escape(n) \o s
    BY <1>4 DEF NamesOf, BitfieldNames
  <2> QED
    BY <1>1, <1>4, <2>1 DEF MemberSuffixes
<1>5. CASE k = "accessor"
  <2>1. x = Escape(n) \o AccessorSuffix
    BY <1>5 DEF NamesOf, BitfieldNames, AccessorSuffix
  <2> QED
    BY <1>2, <1>5, <2>1 DEF MemberSuffixes
<1> QED
  BY <1>3, <1>4, <1>5

\* An escaped name and a suffix are texts of the same alphabet.
LEMMA EscapeIsLetters ==
  ASSUME NEW name, IsText(name)
  PROVE  Escape(name) \in Seq(Letters) /\ Len(Escape(name)) > 0
<1> DEFINE e == Escape(name)
<1>1. e \in Seq(Pieces) /\ e # <<>>
  BY EscapeIsEscaped DEF Escaped
<1> HIDE DEF e
<1>2. Pieces \subseteq Letters
  BY DEF Letters
<1>3. Len(e) > 0
  BY <1>1
<1>4. e \in Seq(Letters)
  BY <1>1, <1>2
<1> QED
  BY <1>3, <1>4 DEF e

\* "size" and "align" are too short to be a member's name.
LEMMA MembersAreLonger ==
  ASSUME NEW name, IsText(name), NEW s \in MemberSuffixes
  PROVE  Escape(name) \o s \notin {<<"size">>, <<"align">>}
<1>1. Escape(name) \in Seq(Letters) /\ Len(Escape(name)) > 0
  BY EscapeIsLetters
<1>2. s \in Seq(Letters) /\ Len(s) \in Nat /\ 0 < Len(s)
  BY SuffixFacts, Zenon
<1>3. Len(Escape(name) \o s) > 1
  BY <1>1, <1>2
<1>4. Len(<<"size">>) = 1 /\ Len(<<"align">>) = 1
  OBVIOUS
<1> QED
  BY <1>3, <1>4

\* Fields and bit-fields of one type never share a name, by what is assumed.
LEMMA MemberIsRead ==
  ASSUME NEW k \in {"field", "geometry", "accessor"}, NEW l \in {"field", "geometry", "accessor"},
         NEW t \in Types, NEW n, NEW o, input \in Inputs, Readable, SuffixesApart,
         IsRequest(k, t, n), IsRequest(l, t, o),
         NEW x \in NamesOf(k, t, n), x \in NamesOf(l, t, o)
  PROVE  k = l /\ n = o
<1>1. IsText(n) /\ IsText(o)
  BY RequestsAreTexts
<1>2. Escape(n) \in Seq(Letters) /\ Escape(o) \in Seq(Letters)
  BY <1>1, EscapeIsLetters
<1>3. PICK r \in MemberSuffixes : /\ x = Escape(n) \o r
                                  /\ r = OffsetSuffix <=> k = "field"
                                  /\ r = AccessorSuffix <=> k = "accessor"
  BY MemberNames
<1>4. PICK s \in MemberSuffixes : /\ x = Escape(o) \o s
                                  /\ s = OffsetSuffix <=> l = "field"
                                  /\ s = AccessorSuffix <=> l = "accessor"
  BY MemberNames
<1>5. /\ k = "field" => n \in Fields(t)
      /\ l = "field" => o \in Fields(t)
      /\ k # "field" => n \in Bitfields(t)
      /\ l # "field" => o \in Bitfields(t)
  BY DEF IsRequest
<1>6. \A f \in Fields(t), b \in Bitfields(t) :
        Escape(f) # Escape(b) \o ByteSuffix /\ Escape(f) # Escape(b) \o AbsBitSuffix
  BY DEF SuffixesApart, ByteSuffix, AbsBitSuffix
<1>7. Escape(n) = Escape(o) /\ r = s
  <2>1. ~LooksLikeBits(Escape(n), r, Escape(o), s) /\ ~LooksLikeBits(Escape(o), s, Escape(n), r)
    BY <1>3, <1>4, <1>5, <1>6 DEF LooksLikeBits
  <2>2. Escape(n) \o r = Escape(o) \o s
    BY <1>3, <1>4
  <2> QED
    BY <1>2, <2>1, <2>2, SuffixIsRead
<1>8. k = l
  BY <1>3, <1>4, <1>7
<1>9. (n \in Fields(t) /\ o \in Fields(t)) \/ (n \in Bitfields(t) /\ o \in Bitfields(t))
  BY <1>5, <1>8
<1>10. n = o
  BY <1>7, <1>9 DEF Readable, Collision, Collide
<1> QED
  BY <1>8, <1>10

\* A scope and a name in it tell the request.
LEMMA NameIsRead ==
  ASSUME NEW k, NEW t, NEW n, NEW l, NEW u, NEW o, input \in Inputs, Readable, SuffixesApart,
         IsRequest(k, t, n), IsRequest(l, u, o), Scope(k, t) = Scope(l, u),
         NEW x \in NamesOf(k, t, n), x \in NamesOf(l, u, o)
  PROVE  k = l /\ t = u /\ n = o
<1> DEFINE Member == {"field", "geometry", "accessor"}
           Kinds == {"type", "const", "enum"} \cup Member
<1>1. k \in Kinds /\ l \in Kinds
  BY DEF IsRequest
<1>2. IsText(n) /\ IsText(o)
  BY RequestsAreTexts
<1>3. CASE k = "const"
  <2>1. l = "const"
    BY <1>1, <1>3 DEF Scope
  <2>2. /\ t \in Range(m.constants) /\ u \in Range(m.constants) /\ n = <<>> /\ o = <<>>
        /\ Escape(t) = Escape(u)
    BY <1>3, <2>1 DEF IsRequest, NamesOf
  <2>3. t = u
    BY <2>2 DEF Readable, Collision, Collide
  <2> QED
    BY <1>3, <2>1, <2>2, <2>3
<1>4. CASE k = "enum"
  <2>1. l = "enum" /\ Escape(t) = Escape(u)
    BY <1>1, <1>4 DEF Scope
  <2>2. Escape(n) = Escape(o)
    BY <1>4, <2>1 DEF NamesOf
  <2>3. PICK en \in Range(m.enums) : t = en.c_type /\ n \in Requested(Given, en)
    BY <1>4 DEF IsRequest
  <2>4. PICK em \in Range(m.enums) : u = em.c_type /\ o \in Requested(Given, em)
    BY <2>1 DEF IsRequest
  <2>5. PICK i \in DOMAIN m.enums, j \in DOMAIN m.enums : en = m.enums[i] /\ em = m.enums[j]
    BY DEF Range
  <2>6. i = j
    BY <2>1, <2>3, <2>4, <2>5 DEF Readable, Collision
  <2>7. en = em
    BY <2>5, <2>6
  <2>8. n = o
    BY <2>2, <2>3, <2>4, <2>7 DEF Readable, ExtractedCollide, Collide
  <2> QED
    BY <1>4, <2>1, <2>3, <2>4, <2>7, <2>8
<1>5. CASE k \notin {"const", "enum"}
  <2>1. l \notin {"const", "enum"} /\ Escape(t) = Escape(u)
    BY <1>1, <1>5 DEF Scope
  <2>2. t \in Types /\ u \in Types
    BY <1>1, <1>5, <2>1 DEF IsRequest
  <2>3. t = u
    BY <2>1, <2>2 DEF Readable, Collision, Collide
  <2>4. CASE k = "type" /\ l = "type"
    BY <2>3, <2>4 DEF IsRequest
  <2>5. CASE k = "type" /\ l \in Member
    <3>1. x \in {<<"size">>, <<"align">>}
      BY <2>5 DEF NamesOf
    <3>2. \E s \in MemberSuffixes : x = Escape(o) \o s
      BY <2>5, MemberNames
    <3> QED
      BY <1>2, <3>1, <3>2, MembersAreLonger
  <2>6. CASE k \in Member /\ l = "type"
    <3>1. x \in {<<"size">>, <<"align">>}
      BY <2>6 DEF NamesOf
    <3>2. \E s \in MemberSuffixes : x = Escape(n) \o s
      BY <2>6, MemberNames
    <3> QED
      BY <1>2, <3>1, <3>2, MembersAreLonger
  <2>7. CASE k \in Member /\ l \in Member
    BY <2>2, <2>3, <2>7, MemberIsRead
  <2> QED
    BY <1>1, <1>5, <2>1, <2>4, <2>5, <2>6, <2>7
<1> QED
  BY <1>3, <1>4, <1>5

-----------------------------------------------------------------------------
(* Both headers                                                            *)

\* Once headers are written they are the rendering of all that was given.
DoneInv == pc = "done" => model = Given /\ macros = Rendered

\* The rendering depends on the input and the Model alone.
LEMMA RenderingStays ==
  ASSUME input' = input, model' = model
  PROVE  Rendered' = Rendered
<1>1. m' = m
  BY DEF m
<1>2. Types' = Types /\ \A t : (Fields(t)' = Fields(t) /\ Bitfields(t)' = Bitfields(t) /\ Entries(t)' = Entries(t))
  BY <1>1 DEF Types, Fields, Bitfields, Entries
<1>3. ASSUME NEW t PROVE TypeMacros(t)' = TypeMacros(t)
  BY <1>2 DEF TypeMacros, BitfieldMacros
<1>4. ASSUME NEW en PROVE EnumMacros(en)' = EnumMacros(en)
  BY DEF EnumMacros, Requested, Enumerators
<1> QED
  BY <1>1, <1>2, <1>3, <1>4 DEF Rendered

\* Only the rendering ends a run well, with all that was given in the Model.
LEMMA DoneHolds == Spec => []DoneInv
<1>1. Init => DoneInv
  BY DEF Init, DoneInv
<1>2. IInv /\ DoneInv /\ [Next]_vars => DoneInv'
  <2> SUFFICES ASSUME IInv, DoneInv, [Next]_vars, pc' = "done" PROVE model' = Given' /\ macros' = Rendered'
    BY DEF DoneInv
  <2>1. CASE UNCHANGED vars
    <3>1. input' = input /\ model' = model /\ macros' = macros /\ pc = "done"
      BY <2>1 DEF vars
    <3> QED
      BY <3>1, RenderingStays, InputDecides DEF DoneInv
  <2>2. CASE Render
    <3>1. input' = input /\ model' = model /\ macros' = Rendered /\ pc = "render"
      BY <2>2 DEF Render
    <3>2. model = Given
      BY <3>1 DEF IInv, RenderInv, Complete
    <3> QED
      BY <3>1, <3>2, RenderingStays, InputDecides
  <2>3. CASE BuildModel \/ FinishModel \/ Merge \/ FinishMerge \/ Validate
    BY <2>3 DEF BuildModel, FinishModel, Merge, FinishMerge, Validate, Take, Reject
  <2> QED
    BY <2>1, <2>2, <2>3 DEF Next
<1> QED
  BY <1>1, <1>2, InvHolds, PTL DEF Spec

\* What the headers of a run that ended well are read from.
LEMMA DoneIsReadable ==
  ASSUME IInv, DoneInv, pc = "done", EdgesApart
  PROVE  /\ input \in Inputs /\ model = Given /\ macros = Rendered
         /\ Readable /\ Renderable(Given) /\ Consistent
<1>1. Meaningful
  BY DEF IInv, OutcomeIsOrderFree
<1>2. Renderable(Given)
  BY <1>1, ValidIsRenderable DEF Meaningful
<1> QED
  BY <1>1, <1>2 DEF IInv, DoneInv, Meaningful, Readable

\* The C header: one macro for each request, with the recorded value.
LEMMA MacrosAreRight ==
  ASSUME IInv, DoneInv
  PROVE  MacrosMeanRequests
<1> SUFFICES ASSUME pc = "done", EdgesApart
             PROVE  MacrosMeanRequests
  BY DEF MacrosMeanRequests
<1>1. \A k, t, n : IsRequest(k, t, n) => Values(Text(k, t, n)) = Recorded(k, t, n)
  BY DoneIsReadable, RequestIsMeant
<1>2. \A t, n : /\ Text("type", t, n) = One("SIZEOF_ALIGNOF", t)
                /\ Text("field", t, n) = Two("OFFSETOF", t, n)
                /\ Text("geometry", t, n) = Two("BF", t, n)
                /\ Text("accessor", t, n) = Two("BF_ACCESSOR_ID", t, n)
                /\ Text("const", t, n) = One("CONST", t)
                /\ Text("enum", t, n) = Two("ENUM", t, n)
  BY DEF Text, Prefix
<1>3. ASSUME NEW t \in Types
      PROVE  /\ Values(One("SIZEOF_ALIGNOF", t)) = Recorded("type", t, <<>>)
             /\ \A f \in Fields(t) : Values(Two("OFFSETOF", t, f)) = Recorded("field", t, f)
  <2>1. IsRequest("type", t, <<>>) /\ \A f \in Fields(t) : IsRequest("field", t, f)
    BY DEF IsRequest
  <2> QED
    BY <1>1, <1>2, <2>1
<1>4. ASSUME NEW t \in Types, NEW s \in Entries(t), NEW b \in Bitfields(t)
      PROVE  /\ s.policy = "geometry" => Values(Two("BF", t, b)) = Recorded("geometry", t, b)
             /\ s.policy = "accessor_shim" =>
                  Values(Two("BF_ACCESSOR_ID", t, b)) = Recorded("accessor", t, b)
  <2>1. /\ s.policy = "geometry" => IsRequest("geometry", t, b)
        /\ s.policy = "accessor_shim" => IsRequest("accessor", t, b)
    BY DEF IsRequest, WithPolicy
  <2> QED
    BY <1>1, <1>2, <2>1
<1>5. ASSUME NEW c \in Range(m.constants)
      PROVE  Values(One("CONST", c)) = Recorded("const", c, <<>>)
  <2>1. IsRequest("const", c, <<>>)
    BY DEF IsRequest
  <2> QED
    BY <1>1, <1>2, <2>1
<1>6. ASSUME NEW en \in Range(m.enums), NEW v \in Requested(Given, en)
      PROVE  Values(Two("ENUM", en.c_type, v)) = Recorded("enum", en.c_type, v)
  <2>1. IsRequest("enum", en.c_type, v)
    BY DEF IsRequest
  <2> QED
    BY <1>1, <1>2, <2>1
<1> QED
  BY <1>3, <1>4, <1>5, <1>6 DEF MacrosMeanRequests

\* The C++ header: a name in a scope is declared for one request, and every
\* request has one.
LEMMA DeclarationsAreRight ==
  ASSUME IInv, DoneInv, pc = "done", EdgesApart
  PROVE  /\ SuffixesApart =>
              \A d, e \in Declarations : d.scope = e.scope /\ d.name = e.name => d.macro = e.macro
         /\ {d.macro : d \in Declarations} = {x.macro : x \in macros}
<1>1. /\ input \in Inputs /\ model = Given /\ macros = Rendered
      /\ Readable /\ Renderable(Given) /\ Consistent
  BY DoneIsReadable
<1>2. ASSUME SuffixesApart, NEW d \in Declarations, NEW e \in Declarations,
             d.scope = e.scope, d.name = e.name
      PROVE  d.macro = e.macro
  <2>1. PICK k, t, n : IsRequest(k, t, n) /\ DeclaredFor(d, k, t, n)
    BY <1>1, DeclarationsAreRequests
  <2>2. PICK l, u, o : IsRequest(l, u, o) /\ DeclaredFor(e, l, u, o)
    BY <1>1, DeclarationsAreRequests
  <2>3. PICK x \in NamesOf(k, t, n) : d = Declared(Scope(k, t), x, Text(k, t, n))
    BY <2>1 DEF DeclaredFor
  <2>4. PICK y \in NamesOf(l, u, o) : e = Declared(Scope(l, u), y, Text(l, u, o))
    BY <2>2 DEF DeclaredFor
  <2>5. /\ d.scope = Scope(k, t) /\ d.name = x /\ d.macro = Text(k, t, n)
        /\ e.scope = Scope(l, u) /\ e.name = y /\ e.macro = Text(l, u, o)
    BY <2>3, <2>4 DEF Declared
  <2>6. Scope(k, t) = Scope(l, u) /\ x \in NamesOf(l, u, o)
    BY <1>2, <2>4, <2>5
  <2>7. k = l /\ t = u /\ n = o
    BY <1>1, <1>2, <2>1, <2>2, <2>6, NameIsRead
  <2> QED
    BY <2>5, <2>7
<1>3. ASSUME NEW d \in Declarations PROVE \E x \in macros : x.macro = d.macro
  <2>1. PICK k, t, n : IsRequest(k, t, n) /\ DeclaredFor(d, k, t, n)
    BY <1>1, DeclarationsAreRequests
  <2>2. d.macro = Text(k, t, n)
    BY <2>1 DEF DeclaredFor, Declared
  <2>3. Macro(Text(k, t, n), Value(Given, k, t, n)) \in macros
    BY <1>1, <2>1, RenderedAreRequests
  <2>4. Macro(Text(k, t, n), Value(Given, k, t, n)).macro = Text(k, t, n)
    BY DEF Macro
  <2> QED
    BY <2>2, <2>3, <2>4
<1>4. ASSUME NEW x \in macros PROVE \E d \in Declarations : d.macro = x.macro
  <2>1. PICK k, t, n : IsRequest(k, t, n) /\ x = Macro(Text(k, t, n), Value(Given, k, t, n))
    BY <1>1, RenderedAreRequests
  <2>2. x.macro = Text(k, t, n)
    BY <2>1 DEF Macro
  <2>3. NamesOf(k, t, n) # {}
    BY DEF NamesOf, BitfieldNames, GeometrySuffixes
  <2>4. PICK y \in NamesOf(k, t, n) : TRUE
    BY <2>3
  <2> DEFINE d == Declared(Scope(k, t), y, Text(k, t, n))
  <2>5. DeclaredFor(d, k, t, n)
    BY DEF DeclaredFor
  <2>6. d.macro = Text(k, t, n)
    BY DEF Declared
  <2> HIDE DEF d
  <2>7. d \in Declarations
    BY <1>1, <2>1, <2>5, DeclarationsAreRequests
  <2> QED
    BY <2>2, <2>6, <2>7
<1> QED
  BY <1>2, <1>3, <1>4

\* Both headers of a run that ends well mean what the manifest asks for: every
\* macro has the recorded value of its one request, and the C++ header declares
\* each under a name of its own in its scope.
THEOREM HeadersAreRight == Spec => []HeadersMeanRequests
<1>1. IInv /\ DoneInv => HeadersMeanRequests
  BY MacrosAreRight, DeclarationsAreRight DEF HeadersMeanRequests
<1> QED
  BY <1>1, InvHolds, DoneHolds, PTL
=============================================================================
