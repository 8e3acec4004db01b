------------------------- MODULE DwarfReader_proofs -------------------------
(***************************************************************************)
(* Proofs about DwarfReader, for every object whose units lie one after    *)
(* the other: the reader stays within the section and within its stack,    *)
(* and if the entries of each unit form a tree, as EntriesAreTrees says    *)
(* without a stack, every entry read has its level and its parent.  The    *)
(* invariant ties the stack to the entries read: its element i is the last *)
(* entry of level i - 1.                                                   *)
(***************************************************************************)
EXTENDS DwarfReader, SequenceTheorems, FiniteSetTheorems, TLAPS

Typed ==
  /\ UnitsAdjoin(object)
  /\ pc \in {"unit", "dies", "extract", "done", "rejected"}
  /\ off \in 0..Size
  /\ units \in Seq(ToSet(units)) /\ stack \in Seq(0..Size - 1)
  /\ dies \in Seq(ToSet(dies)) /\ out \in Seq(ToSet(out))
  /\ Len(out) <= Len(object.requests)

\* Between units the cursor is at a header, and a unit is read to the end its
\* header gives.
UnitsRead ==
  /\ pc = "unit" /\ off < Size => IsHeader(object, off)
  /\ pc = "dies" => units # <<>> /\ off \in Unit.offset + 1..Unit.end
  /\ \A i \in DOMAIN units :
       LET h == units[i].offset
       IN  /\ h \in 0..Size - 1 /\ IsHeader(object, h) /\ CellOf(object, h).length # 0
           /\ units[i].end = h + CellOf(object, h).length /\ units[i].end <= Size
           /\ units[i].abbrevs = AbbrevsAt(object, h)
           /\ DOMAIN units[i] = {"offset", "end", "abbrevs", "address_size", "base"}

DiesRead ==
  \A i \in DOMAIN dies : dies[i].unit \in DOMAIN units /\ dies[i].offset \in 0..Size - 1

TypeInv == Typed /\ UnitsRead /\ DiesRead

\* In a unit the stack is as high as the next cell is deep, and holds the last
\* entry of each level above.
StackIsPath ==
  pc = "dies" /\ off < Unit.end =>
    /\ Len(stack) = object.levels[off]
    /\ \A i \in DOMAIN stack : LastOfLevel(object, Unit.offset, off, stack[i], i - 1)

DiesNested ==
  \A i \in DOMAIN dies :
    /\ dies[i].depth = object.levels[dies[i].offset]
    /\ dies[i].parent = object.parents[dies[i].offset]

NestInv == EntriesAreTrees(object) /\ StackIsPath /\ DiesNested

-----------------------------------------------------------------------------
(* Sequences                                                               *)

\* A sequence of whatever it holds stays one when an element is appended.
LEMMA AppendKeeps ==
  ASSUME NEW s, s \in Seq(ToSet(s)), NEW e
  PROVE  /\ Append(s, e) \in Seq(ToSet(Append(s, e)))
         /\ Len(Append(s, e)) = Len(s) + 1 /\ DOMAIN Append(s, e) = 1..Len(s) + 1
         /\ DOMAIN s = 1..Len(s) /\ Len(s) \in Nat
         /\ Append(s, e)[Len(s) + 1] = e /\ Last(Append(s, e)) = e
         /\ \A i \in DOMAIN s : Append(s, e)[i] = s[i]
<1> DEFINE S == ToSet(s) \cup {e}
           t == Append(s, e)
<1>1. s \in Seq(S) /\ e \in S
  BY DEF ToSet
<1>2. Len(t) = Len(s) + 1 /\ t \in Seq(S) /\ DOMAIN s = 1..Len(s) /\ Len(s) \in Nat
  BY <1>1
<1>3. DOMAIN t = 1..Len(s) + 1
  BY <1>2
<1>4. t[Len(s) + 1] = e /\ \A i \in DOMAIN s : t[i] = s[i]
  BY <1>1, <1>2
<1>5. \A i \in 1..Len(t) : t[i] \in ToSet(t)
  BY <1>2, <1>3 DEF ToSet
<1>6. t \in Seq(ToSet(t))
  BY <1>2, <1>5
<1> QED
  BY <1>2, <1>3, <1>4, <1>6 DEF Last

\* A stack is pushed and popped.
LEMMA PushPop ==
  ASSUME NEW S, NEW s \in Seq(S)
  PROVE  /\ \A e \in S :
              /\ Append(s, e) \in Seq(S) /\ Len(Append(s, e)) = Len(s) + 1
              /\ \A i \in 1..Len(s) + 1 : Append(s, e)[i] = IF i = Len(s) + 1 THEN e ELSE s[i]
         /\ s # <<>> => /\ Front(s) \in Seq(S) /\ Len(Front(s)) = Len(s) - 1 /\ Len(s) > 0
                        /\ \A i \in 1..Len(s) - 1 : Front(s)[i] = s[i]
         /\ s = <<>> <=> Len(s) = 0
<1>1. s = <<>> <=> Len(s) = 0
  OBVIOUS
<1>2. CASE s = <<>>
  BY <1>1, <1>2
<1>3. CASE s # <<>>
  <2>1. Len(s) \in Nat /\ Len(s) > 0
    BY <1>3, <1>1
  <2>2. Front(s) = SubSeq(s, 1, Len(s) - 1)
    BY DEF Front
  <2>3. Len(s) - 1 \in Nat /\ \A i \in 1..Len(s) - 1 : s[i] \in S
    BY <2>1
  <2>4. ASSUME NEW n \in Nat, \A i \in 1..n : s[i] \in S
        PROVE  /\ SubSeq(s, 1, n) \in Seq(S) /\ Len(SubSeq(s, 1, n)) = n
               /\ \A i \in 1..n : SubSeq(s, 1, n)[i] = s[i]
    <3>1. /\ SubSeq(s, 1, n) \in Seq(S)
          /\ Len(SubSeq(s, 1, n)) = IF 1 <= n THEN n - 1 + 1 ELSE 0
          /\ \A i \in 1..n - 1 + 1 : SubSeq(s, 1, n)[i] = s[1 + i - 1]
      BY <2>4, SubSeqProperties
    <3>2. Len(SubSeq(s, 1, n)) = n
      BY <3>1
    <3> QED
      BY <3>1, <3>2
  <2>5. Front(s) \in Seq(S) /\ Len(Front(s)) = Len(s) - 1
    BY <2>2, <2>3, <2>4
  <2>6. \A i \in 1..Len(s) - 1 : Front(s)[i] = s[i]
    BY <2>2, <2>3, <2>4
  <2> QED
    BY <1>1, <1>3, <2>1, <2>5, <2>6
<1> QED
  BY <1>2, <1>3

-----------------------------------------------------------------------------
(* Types                                                                   *)

\* What is read depends on the object alone.
LEMMA SizeIsNat ==
  ASSUME UnitsAdjoin(object)
  PROVE  /\ Size \in Nat /\ Len(object.requests) \in Nat
         /\ Size > 0 => IsHeader(object, 0)
         /\ \A h \in 0..Size - 1 : IsHeader(object, h) =>
              /\ CellOf(object, h).length \in Nat
              /\ h + CellOf(object, h).length < Size =>
                    IsHeader(object, h + CellOf(object, h).length)
BY DEF UnitsAdjoin, Size

LEMMA InitTypes == Init => TypeInv
<1> SUFFICES ASSUME Init PROVE TypeInv
  OBVIOUS
<1>1. UnitsAdjoin(object)
  BY ObjectsHaveUnits DEF Init
<1>2. Size \in Nat /\ (Size > 0 => IsHeader(object, 0)) /\ Len(object.requests) \in Nat
  BY <1>1, SizeIsNat
<1>3. <<>> \in Seq(ToSet(<<>>)) /\ <<>> \in Seq(0..Size - 1)
  OBVIOUS
<1>4. Typed
  BY <1>1, <1>2, <1>3 DEF Init, Typed
<1>5. UnitsRead /\ DiesRead
  BY <1>2 DEF Init, UnitsRead, DiesRead
<1> QED
  BY <1>4, <1>5 DEF TypeInv

\* The object is the same in every state.
LEMMA SameObject ==
  ASSUME object' = object
  PROVE  Size' = Size /\ (UnitsAdjoin(object)' <=> UnitsAdjoin(object))
BY DEF Size

\* A unit header is taken with the bounds it gives.
LEMMA ReadUnitTypes ==
  ASSUME TypeInv, ReadUnit, ~(off + At(off).length > Size)
  PROVE  TypeInv'
<1> DEFINE h == off
           u == [offset |-> off, end |-> UnitEnd(At(off).length), abbrevs |-> AbbrevsAt(object, off),
                 address_size |-> At(off).address_size, base |-> 0]
<1>1. Typed /\ UnitsRead /\ DiesRead
  BY DEF TypeInv
<1>2. /\ off \in 0..Size - 1 /\ Size \in Nat /\ IsHeader(object, off)
      /\ At(off).length \in Nat /\ At(off).length # 0
  <2>1. pc = "unit" /\ off < Size /\ At(off).length # 0
    BY DEF ReadUnit, MoreUnits
  <2>2. Size \in Nat /\ off \in 0..Size - 1 /\ IsHeader(object, off)
    BY <1>1, <2>1, SizeIsNat DEF Typed, UnitsRead
  <2> QED
    BY <1>1, <2>1, <2>2, SizeIsNat DEF Typed, At
<1>3. /\ units' = Append(units, u) /\ off' = off + 1 /\ stack' = <<>> /\ pc' = "dies"
      /\ object' = object /\ dies' = dies /\ out' = out
  BY DEF ReadUnit, Goto
<1>4. /\ units' \in Seq(ToSet(units')) /\ DOMAIN units' = 1..Len(units) + 1
      /\ DOMAIN units = 1..Len(units) /\ Len(units) \in Nat
      /\ units'[Len(units) + 1] = u /\ Last(units') = u /\ Len(units') = Len(units) + 1
      /\ \A i \in DOMAIN units : units'[i] = units[i]
  <2>1. units \in Seq(ToSet(units)) /\ units' = Append(units, u)
    BY <1>1, <1>3 DEF Typed
  <2> HIDE DEF u
  <2>2. /\ Append(units, u) \in Seq(ToSet(Append(units, u)))
        /\ Len(Append(units, u)) = Len(units) + 1
        /\ DOMAIN Append(units, u) = 1..Len(units) + 1
        /\ DOMAIN units = 1..Len(units) /\ Len(units) \in Nat
        /\ Append(units, u)[Len(units) + 1] = u /\ Last(Append(units, u)) = u
        /\ \A i \in DOMAIN units : Append(units, u)[i] = units[i]
    BY <2>1, AppendKeeps
  <2> QED
    BY <2>1, <2>2
<1>5. /\ u.offset = off /\ u.end = off + CellOf(object, off).length
      /\ u.abbrevs = AbbrevsAt(object, off)
      /\ DOMAIN u = {"offset", "end", "abbrevs", "address_size", "base"}
  BY DEF UnitEnd, At
<1> HIDE DEF u
<1>6. Typed'
  BY <1>1, <1>2, <1>3, <1>4, SameObject DEF Typed
<1>7. UnitsRead'
  <2>1. Unit' = u /\ units' # <<>>
    BY <1>4 DEF Unit
  <2>2. off' \in Unit'.offset + 1..Unit'.end
    BY <1>2, <1>3, <1>5, <2>1 DEF At
  <2>3. ASSUME NEW i \in DOMAIN units'
        PROVE  /\ units'[i].offset \in 0..Size - 1 /\ IsHeader(object, units'[i].offset)
               /\ CellOf(object, units'[i].offset).length # 0
               /\ units'[i].end = units'[i].offset + CellOf(object, units'[i].offset).length
               /\ units'[i].end <= Size
               /\ units'[i].abbrevs = AbbrevsAt(object, units'[i].offset)
               /\ DOMAIN units'[i] = {"offset", "end", "abbrevs", "address_size", "base"}
    <3>1. CASE i \in DOMAIN units
      BY <1>1, <1>4, <3>1 DEF UnitsRead
    <3>2. CASE i = Len(units) + 1
      BY <1>2, <1>4, <1>5, <3>2 DEF At
    <3> QED
      BY <1>4, <2>3, <3>1, <3>2
  <2> QED
    BY <1>3, <2>1, <2>2, <2>3, SameObject DEF UnitsRead
<1>8. DiesRead'
  BY <1>1, <1>3, <1>4, SameObject DEF DiesRead
<1> QED
  BY <1>6, <1>7, <1>8 DEF TypeInv

\* The unit being read is the last one.
LEMMA UnitIsLast ==
  ASSUME TypeInv, pc = "dies"
  PROVE  /\ Len(units) \in DOMAIN units /\ Unit = units[Len(units)]
         /\ Unit.offset \in 0..Size - 1 /\ IsHeader(object, Unit.offset)
         /\ Unit.end = Unit.offset + CellOf(object, Unit.offset).length /\ Unit.end <= Size
         /\ Unit.abbrevs = AbbrevsAt(object, Unit.offset)
         /\ off \in Unit.offset + 1..Unit.end /\ Unit.end \in Nat /\ Size \in Nat
         /\ CellOf(object, Unit.offset).length \in Nat
<1>1. Typed /\ UnitsRead
  BY DEF TypeInv
<1>2. units \in Seq(ToSet(units)) /\ units # <<>>
  BY <1>1 DEF Typed, UnitsRead
<1>3. Len(units) \in DOMAIN units /\ Unit = units[Len(units)]
  BY <1>2 DEF Unit, Last
<1>4. Size \in Nat
  BY <1>1, SizeIsNat DEF Typed
<1>5. CellOf(object, Unit.offset).length \in Nat
  BY <1>1, <1>3, SizeIsNat DEF Typed, UnitsRead
<1> QED
  BY <1>1, <1>3, <1>4, <1>5 DEF UnitsRead

\* Only the string offsets of a unit change once it has been entered.
LEMMA BaseNoted ==
  ASSUME TypeInv, pc = "dies", NEW die
  PROVE  /\ NoteBase(die) \in Seq(ToSet(NoteBase(die)))
         /\ DOMAIN NoteBase(die) = DOMAIN units /\ Len(NoteBase(die)) = Len(units)
         /\ \A i \in DOMAIN units :
              /\ NoteBase(die)[i].offset = units[i].offset /\ NoteBase(die)[i].end = units[i].end
              /\ NoteBase(die)[i].abbrevs = units[i].abbrevs
              /\ DOMAIN NoteBase(die)[i] = DOMAIN units[i]
<1>1. Typed /\ UnitsRead
  BY DEF TypeInv
<1>2. units \in Seq(ToSet(units)) /\ Len(units) \in DOMAIN units
  BY <1>1, UnitIsLast DEF Typed
<1> DEFINE base == die.attrs["str_offsets_base"].v
           noted == [units[Len(units)] EXCEPT !.base = base]
           us == [units EXCEPT ![Len(units)] = noted]
<1>3. /\ noted.offset = units[Len(units)].offset /\ noted.end = units[Len(units)].end
      /\ noted.abbrevs = units[Len(units)].abbrevs /\ DOMAIN noted = DOMAIN units[Len(units)]
  BY <1>1, <1>2 DEF UnitsRead
<1> HIDE DEF noted
<1>4. /\ DOMAIN us = DOMAIN units
      /\ \A i \in DOMAIN units : us[i] = IF i = Len(units) THEN noted ELSE units[i]
  BY <1>2
<1>5. us \in Seq(ToSet(us)) /\ Len(us) = Len(units)
  <2>1. DOMAIN units = 1..Len(units) /\ Len(units) \in Nat
    BY <1>2
  <2>2. \A i \in 1..Len(units) : us[i] \in ToSet(us)
    BY <1>4, <2>1 DEF ToSet
  <2>3. us = [i \in 1..Len(units) |-> us[i]]
    BY <1>4, <2>1
  <2> HIDE DEF us
  <2>4. us \in [1..Len(units) -> ToSet(us)]
    BY <2>2, <2>3
  <2> QED
    BY <2>1, <2>4
<1>6. NoteBase(die) \in {units, us}
  BY DEF NoteBase, noted
<1> HIDE DEF us
<1>7. CASE NoteBase(die) = units
  BY <1>2, <1>7
<1>8. CASE NoteBase(die) = us
  BY <1>3, <1>4, <1>5, <1>8
<1> QED
  BY <1>6, <1>7, <1>8

\* What an entry that is accepted changes.
LEMMA DieTaken ==
  ASSUME ReadDie, pc' # "rejected"
  PROVE  LET decl == Unit.abbrevs[At(off).code]
         IN  /\ pc = "dies" /\ off < Unit.end /\ At(off).code # 0
             /\ dies' = Append(dies, Die(decl)) /\ units' = NoteBase(Die(decl))
             /\ stack' = PushParent(decl) /\ off' = off + 1
             /\ object' = object /\ pc' = pc /\ out' = out
BY DEF ReadDie, Reject, Goto

\* An entry is taken, at its place.
LEMMA ReadDieTypes ==
  ASSUME TypeInv, ReadDie, pc' # "rejected"
  PROVE  TypeInv'
<1> DEFINE decl == Unit.abbrevs[At(off).code]
<1>1. Typed /\ UnitsRead /\ DiesRead
  BY DEF TypeInv
<1>2. /\ pc = "dies" /\ off < Unit.end /\ object' = object /\ pc' = pc /\ out' = out
      /\ dies' = Append(dies, Die(decl)) /\ units' = NoteBase(Die(decl))
      /\ stack' = PushParent(decl) /\ off' = off + 1
  BY DieTaken
<1>3. /\ off \in 0..Size - 1 /\ off' \in Unit.offset + 1..Unit.end /\ Size \in Nat
      /\ Unit.end <= Size /\ Len(units) \in DOMAIN units /\ Unit = units[Len(units)]
  BY <1>2, UnitIsLast
<1>4. Die(decl).unit = Len(units) /\ Die(decl).offset = off
  BY DEF Die
<1>5. stack' \in Seq(0..Size - 1)
  <2>1. stack \in Seq(0..Size - 1) /\ Append(stack, off) \in Seq(0..Size - 1)
    BY <1>1, <1>3 DEF Typed
  <2> QED
    BY <1>2, <2>1 DEF PushParent
<1> DEFINE d == Die(decl)
<1> HIDE DEF d, decl
<1>6. /\ units' \in Seq(ToSet(units')) /\ DOMAIN units' = DOMAIN units
      /\ Len(units') = Len(units)
      /\ \A i \in DOMAIN units :
           /\ units'[i].offset = units[i].offset /\ units'[i].end = units[i].end
           /\ units'[i].abbrevs = units[i].abbrevs /\ DOMAIN units'[i] = DOMAIN units[i]
  BY <1>2, BaseNoted
<1>7. /\ dies' \in Seq(ToSet(dies')) /\ DOMAIN dies' = 1..Len(dies) + 1
      /\ DOMAIN dies = 1..Len(dies) /\ Len(dies) \in Nat
      /\ dies'[Len(dies) + 1] = Die(decl) /\ \A i \in DOMAIN dies : dies'[i] = dies[i]
  <2>1. dies \in Seq(ToSet(dies))
    BY <1>1 DEF Typed
  <2>2. /\ Append(dies, Die(decl)) \in Seq(ToSet(Append(dies, Die(decl))))
        /\ DOMAIN Append(dies, Die(decl)) = 1..Len(dies) + 1
        /\ DOMAIN dies = 1..Len(dies) /\ Len(dies) \in Nat
        /\ Append(dies, Die(decl))[Len(dies) + 1] = Die(decl)
        /\ \A i \in DOMAIN dies : Append(dies, Die(decl))[i] = dies[i]
    BY <2>1, AppendKeeps
  <2> QED
    BY <1>2, <2>2
<1>8. Typed'
  BY <1>1, <1>2, <1>3, <1>5, <1>6, <1>7, SameObject DEF Typed
<1>9. UnitsRead'
  <2>1. Unit' = units'[Len(units)] /\ units' # <<>>
    BY <1>3, <1>6 DEF Unit, Last
  <2>2. off' \in Unit'.offset + 1..Unit'.end
    BY <1>3, <1>6, <2>1
  <2> QED
    BY <1>1, <1>2, <1>6, <2>1, <2>2, SameObject DEF UnitsRead
<1>10. DiesRead'
  BY <1>1, <1>2, <1>3, <1>4, <1>6, <1>7, SameObject DEF DiesRead
<1> QED
  BY <1>8, <1>9, <1>10 DEF TypeInv

\* Every step keeps the types.
LEMMA StepTypes == TypeInv /\ [Next]_vars => TypeInv'
<1> SUFFICES ASSUME TypeInv, [Next]_vars PROVE TypeInv'
  OBVIOUS
<1>1. Typed /\ UnitsRead /\ DiesRead /\ Size \in Nat
  BY SizeIsNat DEF TypeInv, Typed
<1>2. ASSUME UNCHANGED <<object, off, units, stack, dies, out>>, pc' \in {"extract", "done", "rejected"}
      PROVE  TypeInv'
  BY <1>1, <1>2, SameObject DEF TypeInv, Typed, UnitsRead, DiesRead
<1>3. CASE NoSections
  BY <1>2, <1>3 DEF NoSections, Reject, Goto
<1>4. CASE ReadUnit
  <2>1. CASE off + At(off).length > Size
    BY <1>2, <1>4, <2>1 DEF ReadUnit, Reject, Goto
  <2> QED
    BY <1>4, <2>1, ReadUnitTypes
<1>5. CASE ReadNull
  <2>1. /\ pc = "dies" /\ off < Unit.end /\ off' = off + 1
        /\ UNCHANGED <<object, pc, units, dies, out>>
        /\ stack' = IF stack = <<>> THEN stack ELSE Front(stack)
    BY <1>5 DEF ReadNull
  <2>2. off \in Nat /\ off' \in Unit.offset + 1..Unit.end /\ off' \in 0..Size
    BY <1>1, <2>1, UnitIsLast
  <2>3. stack' \in Seq(0..Size - 1)
    <3>1. stack \in Seq(0..Size - 1)
      BY <1>1 DEF Typed
    <3>2. stack # <<>> => Front(stack) \in Seq(0..Size - 1)
      BY <3>1, PushPop
    <3> QED
      BY <2>1, <3>1, <3>2
  <2>4. Unit' = Unit
    BY <2>1 DEF Unit
  <2>5. UnitsRead'
    BY <1>1, <2>1, <2>2, <2>4, SameObject DEF UnitsRead
  <2> QED
    BY <1>1, <2>1, <2>2, <2>3, <2>5, SameObject DEF TypeInv, Typed, DiesRead
<1>6. CASE ReadDie
  <2>1. CASE pc' = "rejected"
    <3>1. UNCHANGED <<object, off, units, stack, dies, out>>
      BY <1>6, <2>1 DEF ReadDie, Reject, Goto
    <3> QED
      BY <1>2, <2>1, <3>1
  <2> QED
    BY <1>6, <2>1, ReadDieTypes
<1>7. CASE EndUnit
  <2>1. /\ pc = "dies" /\ off >= Unit.end /\ off' = Unit.end /\ pc' = "unit"
        /\ UNCHANGED <<object, units, stack, dies, out>>
    BY <1>7 DEF EndUnit, Goto
  <2>2. off' \in 0..Size /\ (off' < Size => IsHeader(object, off'))
    BY <1>1, <2>1, UnitIsLast, SizeIsNat DEF Typed
  <2> QED
    BY <1>1, <2>1, <2>2, SameObject DEF TypeInv, Typed, UnitsRead, DiesRead
<1>8. CASE EndInfo
  BY <1>2, <1>8 DEF EndInfo, Goto
<1>9. CASE Extract
  <2>1. CASE Answer(Request) = Fatal
    BY <1>2, <1>9, <2>1 DEF Extract, Reject, Goto
  <2>2. CASE Answer(Request) # Fatal
    <3>1. /\ out' = Append(out, Answer(Request)) /\ Len(out) < Len(object.requests)
          /\ UNCHANGED <<object, pc, off, units, stack, dies>>
      BY <1>9, <2>2 DEF Extract
    <3>2. out \in Seq(ToSet(out)) /\ Len(object.requests) \in Nat
      BY <1>1, SizeIsNat DEF Typed
    <3>3. /\ Append(out, Answer(Request)) \in Seq(ToSet(Append(out, Answer(Request))))
          /\ Len(Append(out, Answer(Request))) = Len(out) + 1 /\ Len(out) \in Nat
      BY <3>2, AppendKeeps
    <3>4. out' \in Seq(ToSet(out')) /\ Len(out') <= Len(object.requests)
      BY <3>1, <3>2, <3>3
    <3>5. Unit' = Unit
      BY <3>1 DEF Unit
    <3> QED
      BY <1>1, <3>1, <3>4, <3>5, SameObject DEF TypeInv, Typed, UnitsRead, DiesRead
  <2> QED
    BY <2>1, <2>2
<1>10. CASE Finish
  BY <1>2, <1>10 DEF Finish, Goto
<1>11. CASE UNCHANGED vars
  <2>1. Unit' = Unit
    BY <1>11 DEF vars, Unit
  <2> QED
    BY <1>1, <1>11, <2>1, SameObject DEF vars, TypeInv, Typed, UnitsRead, DiesRead
<1> QED
  BY <1>3, <1>4, <1>5, <1>6, <1>7, <1>8, <1>9, <1>10, <1>11 DEF Next

\* The reader stays within the section, its units and its stack.
THEOREM ReaderStaysInSection == Spec => []TypeOK
<1>1. TypeInv => TypeOK
  <2> SUFFICES ASSUME TypeInv PROVE TypeOK
    OBVIOUS
  <2>1. Typed /\ UnitsRead /\ DiesRead /\ Size \in Nat
    BY SizeIsNat DEF TypeInv, Typed
  <2>2. \A i \in DOMAIN stack : stack[i] \in 0..(Size - 1)
    BY <2>1 DEF Typed
  <2>3. \A i \in DOMAIN units : units[i].offset < units[i].end /\ units[i].end <= Size
    BY <2>1, SizeIsNat DEF Typed, UnitsRead
  <2>4. \A i \in DOMAIN dies : dies[i].unit \in DOMAIN units /\ dies[i].offset < Size
    BY <2>1 DEF DiesRead
  <2> QED
    BY <2>1, <2>2, <2>3, <2>4 DEF Typed, TypeOK
<1> QED
  BY InitTypes, StepTypes, <1>1, PTL DEF Spec

-----------------------------------------------------------------------------
(* Levels and parents                                                      *)

\* The last entry of a level stays the last until one of that level comes.
LEMMA LastStays ==
  ASSUME NEW o, NEW h \in Int, NEW x \in Int, NEW p, NEW level,
         LastOfLevel(o, h, x, p, level), IsEntry(o, x) => o.levels[x] # level
  PROVE  LastOfLevel(o, h, x + 1, p, level)
BY DEF LastOfLevel

\* An entry is the last of its level.
LEMMA NewestIsLast ==
  ASSUME NEW o, NEW h \in Int, NEW x \in Int, x > h, IsEntry(o, x)
  PROVE  LastOfLevel(o, h, x + 1, x, o.levels[x])
BY DEF LastOfLevel

\* There is one last entry.
LEMMA OneIsLast ==
  ASSUME NEW o, NEW h \in Int, NEW x \in Int, NEW p, NEW q, NEW level,
         LastOfLevel(o, h, x, p, level), LastOfLevel(o, h, x, q, level)
  PROVE  p = q
<1>1. p \in Int /\ q \in Int
  BY DEF LastOfLevel
<1> QED
  BY <1>1 DEF LastOfLevel

\* What the tree says of the cell at the cursor.
LEMMA CellInTree ==
  ASSUME TypeInv, EntriesAreTrees(object), pc = "dies", off < Unit.end
  PROVE  /\ object.levels[off] \in Nat /\ off \in Int /\ Unit.offset \in Int
         /\ Unit.offset < off
         /\ off + 1 < Unit.end => FollowsLevel(object, Unit.offset, off)
         /\ IsEntry(object, off) =>
              IF object.levels[off] = 0 THEN object.parents[off] = 0
              ELSE LastOfLevel(object, Unit.offset, off, object.parents[off], object.levels[off] - 1)
<1> DEFINE h == Unit.offset
<1>1. /\ h \in 0..Size - 1 /\ IsHeader(object, h)
      /\ Unit.end = h + CellOf(object, h).length /\ Unit.end <= Size
      /\ off \in h + 1..Unit.end /\ CellOf(object, h).length \in Nat /\ Size \in Nat
  BY UnitIsLast
<1>2. UnitIsTree(object, h)
  BY <1>1 DEF EntriesAreTrees, Size
<1>3. off \in h + 1..h + CellOf(object, h).length - 1
  BY <1>1
<1>4. off + 1 < Unit.end => off < h + CellOf(object, h).length - 1
  BY <1>1
<1> QED
  BY <1>1, <1>2, <1>3, <1>4 DEF UnitIsTree

\* The stack is the path to the next cell, after an entry and after a null.
LEMMA StepNesting ==
  ASSUME TypeInv, NestInv, [Next]_vars
  PROVE  NestInv'
<1>1. EntriesAreTrees(object) /\ StackIsPath /\ DiesNested
  BY DEF NestInv
<1>2. object' = object
  BY DEF Next, vars, NoSections, ReadUnit, ReadNull, ReadDie, EndUnit, EndInfo, Extract, Finish, Reject
<1>3. EntriesAreTrees(object)'
  BY <1>1, <1>2
<1>4. stack \in Seq(0..Size - 1) /\ dies \in Seq(ToSet(dies))
  BY DEF TypeInv, Typed
<1>5. ASSUME UNCHANGED <<dies, units, stack, off>> PROVE DiesNested' /\ (pc' = pc => StackIsPath')
  <2>1. Unit' = Unit
    BY <1>5 DEF Unit
  <2> QED
    BY <1>1, <1>2, <1>5, <2>1 DEF DiesNested, StackIsPath
<1>6. ASSUME UNCHANGED dies, pc' # "dies" PROVE NestInv'
  BY <1>1, <1>2, <1>3, <1>6 DEF NestInv, DiesNested, StackIsPath
<1>7. CASE ReadUnit /\ pc' = "dies"
  <2>1. off \in 0..Size /\ Size \in Nat /\ off < Size /\ IsHeader(object, off) /\ pc = "unit"
    BY <1>7, SizeIsNat DEF ReadUnit, MoreUnits, TypeInv, Typed, UnitsRead
  <2>2. /\ off' = off + 1 /\ stack' = <<>> /\ dies' = dies
        /\ off + At(off).length <= Size
        /\ Last(units').offset = off /\ Last(units').end = off + At(off).length
    <3>1. ~(off + At(off).length > Size) /\ At(off).length \in Nat
      BY <1>7, <2>1, SizeIsNat DEF ReadUnit, Reject, Goto, TypeInv, Typed, At
    <3>2. off' = off + 1 /\ stack' = <<>> /\ dies' = dies
      BY <1>7, <3>1 DEF ReadUnit
    <3>3. PICK u : units' = Append(units, u) /\ u.offset = off /\ u.end = off + At(off).length
      BY <1>7, <3>1 DEF ReadUnit, UnitEnd
    <3>4. Last(units') = u
      BY <3>3, AppendKeeps DEF TypeInv, Typed
    <3> QED
      BY <2>1, <3>1, <3>2, <3>3, <3>4
  <2>3. UnitIsTree(object, off) /\ CellOf(object, off).length \in Nat
    BY <1>1, <2>1, <2>2, SizeIsNat DEF EntriesAreTrees, At, Size, TypeInv, Typed
  <2>4. off' < Unit'.end => object.levels[off'] = 0
    <3> SUFFICES ASSUME off' < Unit'.end PROVE object.levels[off + 1] = 0
      BY <2>2
    <3>1. off + 1 \in off + 1..off + CellOf(object, off).length - 1
      BY <2>1, <2>2, <2>3 DEF Unit, At
    <3> QED
      BY <2>3, <3>1 DEF UnitIsTree
  <2>5. StackIsPath'
    BY <1>2, <2>2, <2>4 DEF StackIsPath
  <2> QED
    BY <1>1, <1>2, <1>3, <2>2, <2>5 DEF NestInv, DiesNested
<1>8. CASE ReadNull
  <2> DEFINE h == Unit.offset
             low == IF stack = <<>> THEN stack ELSE Front(stack)
  <2>1. /\ pc = "dies" /\ off < Unit.end /\ At(off).code = 0 /\ off' = off + 1
        /\ stack' = low /\ UNCHANGED <<pc, units, dies>>
    BY <1>8 DEF ReadNull
  <2>2. Unit' = Unit
    BY <2>1 DEF Unit
  <2>3. /\ object.levels[off] \in Nat /\ off \in Int /\ h \in Int
        /\ off + 1 < Unit.end => FollowsLevel(object, h, off)
        /\ ~IsEntry(object, off)
    BY <1>1, <2>1, CellInTree DEF IsEntry, At
  <2>4. /\ Len(stack) = object.levels[off] /\ DOMAIN stack = 1..Len(stack)
        /\ \A i \in 1..Len(stack) : LastOfLevel(object, h, off, stack[i], i - 1)
    BY <1>1, <1>4, <2>1 DEF StackIsPath
  <2>5. /\ Len(low) = IF Len(stack) = 0 THEN 0 ELSE Len(stack) - 1
        /\ DOMAIN low = 1..Len(low)
        /\ \A i \in 1..Len(low) : i \in 1..Len(stack) /\ low[i] = stack[i]
    <3>1. CASE stack = <<>>
      BY <3>1
    <3>2. CASE stack # <<>>
      <4>1. /\ Front(stack) \in Seq(0..Size - 1) /\ Len(Front(stack)) = Len(stack) - 1
            /\ Len(stack) > 0 /\ Len(stack) \in Nat
            /\ \A i \in 1..Len(stack) - 1 : Front(stack)[i] = stack[i]
        BY <1>4, <3>2, PushPop
      <4>2. DOMAIN Front(stack) = 1..Len(Front(stack))
        BY <4>1
      <4> QED
        BY <3>2, <4>1, <4>2
    <3> QED
      BY <3>1, <3>2
  <2> HIDE DEF low
  <2>6. ASSUME NEW i \in 1..Len(low) PROVE LastOfLevel(object, h, off + 1, low[i], i - 1)
    BY <2>3, <2>4, <2>5, LastStays
  <2>7. off + 1 < Unit.end => Len(low) = object.levels[off + 1]
    BY <2>3, <2>4, <2>5 DEF FollowsLevel
  <2>8. StackIsPath'
    BY <1>2, <2>1, <2>2, <2>5, <2>6, <2>7 DEF StackIsPath
  <2> QED
    BY <1>1, <1>2, <1>3, <2>1, <2>8 DEF NestInv, DiesNested
<1>9. CASE ReadDie /\ pc' # "rejected"
  <2> DEFINE decl == Unit.abbrevs[At(off).code]
             h == Unit.offset
             die == Die(decl)
  <2>1. /\ pc = "dies" /\ off < Unit.end /\ At(off).code # 0 /\ off' = off + 1
        /\ dies' = Append(dies, die) /\ units' = NoteBase(die) /\ stack' = PushParent(decl)
        /\ pc' = pc
    BY <1>9, DieTaken
  <2>2. /\ Len(units) \in DOMAIN units /\ Unit = units[Len(units)]
        /\ Unit.abbrevs = AbbrevsAt(object, h) /\ off \in 0..Size - 1
    BY <2>1, UnitIsLast
  <2>3. Unit'.offset = h /\ Unit'.end = Unit.end
    BY <2>1, <2>2, BaseNoted DEF Unit, Last
  <2>4. /\ object.levels[off] \in Nat /\ off \in Int /\ h \in Int /\ h < off
        /\ off + 1 < Unit.end => FollowsLevel(object, h, off)
        /\ IsEntry(object, off)
        /\ IF object.levels[off] = 0 THEN object.parents[off] = 0
           ELSE LastOfLevel(object, h, off, object.parents[off], object.levels[off] - 1)
    BY <1>1, <2>1, CellInTree DEF IsEntry, At
  <2>5. /\ Len(stack) = object.levels[off] /\ DOMAIN stack = 1..Len(stack)
        /\ \A i \in 1..Len(stack) : LastOfLevel(object, h, off, stack[i], i - 1)
    BY <1>1, <1>4, <2>1 DEF StackIsPath
  <2>6. die.offset = off /\ die.depth = object.levels[off] /\ die.parent = object.parents[off]
    <3>1. die.offset = off /\ die.depth = Len(stack)
          /\ die.parent = IF stack = <<>> THEN 0 ELSE stack[Len(stack)]
      BY DEF Die, Last
    <3>2. stack = <<>> <=> Len(stack) = 0
      BY <1>4
    <3>3. Len(stack) # 0 => stack[Len(stack)] = object.parents[off]
      BY <2>4, <2>5, OneIsLast
    <3> QED
      BY <2>4, <2>5, <3>1, <3>2, <3>3
  <2> HIDE DEF die
  <2>7. DiesNested'
    <3>1. /\ DOMAIN Append(dies, die) = 1..Len(dies) + 1 /\ DOMAIN dies = 1..Len(dies)
          /\ Len(dies) \in Nat /\ Append(dies, die)[Len(dies) + 1] = die
          /\ \A i \in DOMAIN dies : Append(dies, die)[i] = dies[i]
      BY <1>4, AppendKeeps
    <3>2. ASSUME NEW i \in DOMAIN Append(dies, die)
          PROVE  LET d == Append(dies, die)[i]
                 IN  d.depth = object.levels[d.offset] /\ d.parent = object.parents[d.offset]
      <4>1. CASE i = Len(dies) + 1
        BY <2>6, <3>1, <4>1
      <4>2. CASE i \in DOMAIN dies
        BY <1>1, <3>1, <4>2 DEF DiesNested
      <4> QED
        BY <3>1, <3>2, <4>1, <4>2
    <3> QED
      BY <1>2, <2>1, <3>2 DEF DiesNested
  <2>8. OpensLevel(object, h, off) <=> decl.has_children
    BY <2>2 DEF OpensLevel, At
  <2>9. StackIsPath'
    <3>1. CASE decl.has_children
      <4>1. /\ stack' = Append(stack, off) /\ Len(stack') = Len(stack) + 1
            /\ DOMAIN stack' = 1..Len(stack) + 1 /\ Len(stack) \in Nat
            /\ \A i \in 1..Len(stack) + 1 : stack'[i] = IF i = Len(stack) + 1 THEN off ELSE stack[i]
        BY <1>4, <2>1, <2>2, <3>1, PushPop DEF PushParent
      <4>2. LastOfLevel(object, h, off + 1, off, object.levels[off])
        BY <2>4, NewestIsLast
      <4>3. ASSUME NEW i \in 1..Len(stack) + 1
            PROVE  LastOfLevel(object, h, off + 1, stack'[i], i - 1)
        BY <2>4, <2>5, <4>1, <4>2, LastStays
      <4>4. off + 1 < Unit.end => Len(stack') = object.levels[off + 1]
        BY <2>4, <2>5, <2>8, <3>1, <4>1 DEF FollowsLevel
      <4> QED
        BY <1>2, <2>1, <2>3, <4>1, <4>3, <4>4 DEF StackIsPath
    <3>2. CASE ~decl.has_children
      <4>1. stack' = stack
        BY <2>1, <3>2 DEF PushParent
      <4>2. ASSUME NEW i \in 1..Len(stack)
            PROVE  LastOfLevel(object, h, off + 1, stack[i], i - 1)
        BY <2>4, <2>5, LastStays
      <4>3. off + 1 < Unit.end => Len(stack) = object.levels[off + 1]
        BY <2>4, <2>5, <2>8, <3>2 DEF FollowsLevel
      <4> QED
        BY <1>2, <2>1, <2>3, <2>5, <4>1, <4>2, <4>3 DEF StackIsPath
    <3> QED
      BY <3>1, <3>2
  <2> QED
    BY <1>3, <2>7, <2>9 DEF NestInv
<1>10. CASE ReadUnit /\ pc' # "dies"
  BY <1>6, <1>10 DEF ReadUnit, Reject, Goto
<1>11. CASE ReadDie /\ pc' = "rejected"
  BY <1>6, <1>11, DieTaken DEF ReadDie, Reject, Goto
<1>12. CASE NoSections \/ EndUnit \/ EndInfo \/ Finish
  BY <1>6, <1>12 DEF NoSections, EndUnit, EndInfo, Finish, Reject, Goto
<1>13. CASE Extract
  BY <1>6, <1>13 DEF Extract, Reject, Goto
<1>14. CASE UNCHANGED vars
  BY <1>3, <1>5, <1>14 DEF vars, NestInv
<1> QED
  BY <1>7, <1>8, <1>9, <1>10, <1>11, <1>12, <1>13, <1>14 DEF Next

\* In every tree, however deep and padded, each entry gets the level and the
\* parent it has there.
THEOREM TreesAreKept ==
  ASSUME \A s \in Sources : EntriesAreTrees(Object(s))
  PROVE  Spec => []NestingIsKept
<1>1. Init => NestInv
  <2> SUFFICES ASSUME Init PROVE NestInv
    OBVIOUS
  <2> QED
    BY DEF Init, NestInv, StackIsPath, DiesNested
<1>2. TypeInv /\ NestInv /\ [Next]_vars => NestInv'
  BY StepNesting
<1>3. NestInv /\ TypeOK => NestingIsKept
  BY DEF NestInv, DiesNested, NestingIsKept
<1> QED
  BY InitTypes, StepTypes, ReaderStaysInSection, <1>1, <1>2, <1>3, PTL DEF Spec

-----------------------------------------------------------------------------
(* Enumerators                                                             *)

\* What has been read of the constant of an enumerator.
ValueFits(attr) ==
  /\ attr.kind = "unsigned" => attr.v \in 0..MaxWord
  /\ attr.kind = "signed" => attr.v \in Int /\ attr.v <= MaxWord

EnumInv ==
  /\ ConstantsFit(object)
  /\ \A i \in DOMAIN dies :
       "const_value" \in DOMAIN dies[i].attrs => ValueFits(dies[i].attrs["const_value"])
  /\ pc \in {"unit", "dies"} => out = <<>>
  /\ EnumeratorsKeepSign

\* Every set of numbers that is not empty has a least one.
LEMMA LeastNumber ==
  ASSUME NEW T, T \subseteq Nat, T # {}
  PROVE  \E n \in T : \A k \in T : n <= k
<1> DEFINE upto(n) == 1..n
           U == {upto(n) : n \in T}
<1>1. \A n \in Nat : upto(n) \in FiniteSubsetsOf(Nat)
  <2> SUFFICES ASSUME NEW n \in Nat PROVE upto(n) \in FiniteSubsetsOf(Nat)
    OBVIOUS
  <2>1. IsFiniteSet(1..n)
    BY FS_Interval
  <2> QED
    BY <2>1 DEF FiniteSubsetsOf
<1>2. U \subseteq FiniteSubsetsOf(Nat) /\ U # {}
  BY <1>1
<1>3. IsWellFoundedOn(StrictSubsetOrdering(Nat), FiniteSubsetsOf(Nat))
  BY FS_StrictSubsetOrderingWellFounded
<1> HIDE DEF U
<1>4. PICK u \in U : \A v \in U : <<v, u>> \notin StrictSubsetOrdering(Nat)
  BY <1>2, <1>3, WFMin
<1>5. PICK n \in T : u = upto(n)
  BY DEF U
<1>6. ASSUME NEW k \in T, ~(n <= k) PROVE FALSE
  <2>1. upto(k) \subseteq upto(n) /\ upto(k) # upto(n)
    <3>1. n \in upto(n) /\ n \notin upto(k)
      BY <1>6
    <3> QED
      BY <1>6, <3>1
  <2>2. upto(k) \in SUBSET Nat /\ upto(n) \in SUBSET Nat
    OBVIOUS
  <2>3. <<upto(k), upto(n)>> \in StrictSubsetOrdering(Nat)
    BY <2>1, <2>2 DEF StrictSubsetOrdering
  <2> QED
    BY <1>4, <1>5, <2>3 DEF U
<1> QED
  BY <1>6

\* An attribute of a form that fits is read as a value that does.
LEMMA FittingIsRead ==
  ASSUME NEW u, NEW spec, NEW field, NEW raw, spec.form \in Forms,
         ConstantFits(object, spec, field, raw)
  PROVE  ValueFits(AttrValue(u, spec, field, raw))
<1> DEFINE attr == AttrValue(u, spec, field, raw)
           placed == IF spec.form \in Relocatable THEN Located(object, field, raw) ELSE raw
<1>1. PICK k \in DOMAIN FormsOf : spec.form \in FormsOf[k]
  BY DEF Forms
<1>2. attr.kind \in DOMAIN FormsOf /\ spec.form \in FormsOf[attr.kind]
  BY <1>1 DEF AttrValue
<1>3. CASE attr.kind = "unsigned"
  <2>1. spec.form \in FormsOf.unsigned
    BY <1>2, <1>3 DEF FormsOf
  <2>2. spec.form \notin {"implicit_const", "ref4", "flag", "flag_present", "strp"}
    BY <2>1 DEF FormsOf
  <2>3. attr.v = placed
    BY <2>2 DEF AttrValue
  <2> QED
    BY <1>3, <2>1, <2>3 DEF ConstantFits, ValueFits
<1>4. CASE attr.kind = "signed"
  <2>1. spec.form \in {"sdata", "implicit_const"}
    BY <1>2, <1>4 DEF FormsOf
  <2>2. CASE spec.form = "implicit_const"
    <3>1. attr.v = spec.const
      BY <2>2 DEF AttrValue
    <3> QED
      BY <1>4, <2>2, <3>1 DEF ConstantFits, ValueFits
  <2>3. CASE spec.form = "sdata"
    <3>1. attr.v = raw
      BY <2>3 DEF AttrValue, Relocatable
    <3> QED
      BY <1>4, <2>3, <3>1 DEF ConstantFits, ValueFits
  <2> QED
    BY <2>1, <2>2, <2>3
<1> QED
  BY <1>3, <1>4 DEF ValueFits

\* The constant of an entry fits.
LEMMA DieFits ==
  ASSUME TypeInv, ConstantsFit(object), ReadDie, pc' # "rejected",
         "const_value" \in DOMAIN Die(Unit.abbrevs[At(off).code]).attrs
  PROVE  ValueFits(Die(Unit.abbrevs[At(off).code]).attrs["const_value"])
<1> DEFINE h == Unit.offset
           specs == Unit.abbrevs[At(off).code].attrs
           names == {specs[k].name : k \in DOMAIN specs}
           of(n) == {j \in DOMAIN specs : specs[j].name = n}
           value(k) == AttrValue(Unit, specs[k], <<off, k>>, At(off).values[k])
           named == of("const_value")
<1>1. /\ pc = "dies" /\ off < Unit.end
      /\ At(off).code \in DOMAIN Unit.abbrevs
      /\ \A k \in DOMAIN specs : specs[k].form \in Forms
  <2>1. pc = "dies" /\ off < Unit.end
    BY DEF ReadDie
  <2>2. ~(\/ At(off).code \notin DOMAIN Unit.abbrevs
          \/ \E k \in DOMAIN Unit.abbrevs[At(off).code].attrs :
               Unit.abbrevs[At(off).code].attrs[k].form \notin Forms)
    BY DEF ReadDie, Reject, Goto
  <2> QED
    BY <2>1, <2>2
<1>2. /\ h \in 0..Size - 1 /\ IsHeader(object, h) /\ Unit.abbrevs = AbbrevsAt(object, h)
      /\ h + CellOf(object, h).length <= Size
      /\ off \in h + 1..h + CellOf(object, h).length - 1
  BY <1>1, UnitIsLast
<1>3. /\ DOMAIN specs \subseteq Nat
      /\ \A k \in named : ConstantFits(object, specs[k], <<off, k>>, At(off).values[k])
  BY <1>1, <1>2 DEF ConstantsFit, Size, At
<1>4. Die(Unit.abbrevs[At(off).code]).attrs = [n \in names |-> value(Min(of(n)))]
  BY DEF Die, Attributes
<1>5. \A k \in named : k \in DOMAIN specs
  OBVIOUS
<1>6. "const_value" \in names => named # {}
  OBVIOUS
<1> HIDE DEF value, names, of
<1>7. "const_value" \in names
  BY <1>4
<1>8. Die(Unit.abbrevs[At(off).code]).attrs["const_value"] = value(Min(named))
  BY <1>4, <1>7
<1> HIDE DEF named
<1>9. named # {} /\ named \subseteq Nat
  BY <1>3, <1>5, <1>6, <1>7
<1> HIDE DEF specs
<1>10. Min(named) \in named
  <2>1. PICK m \in named : \A k \in named : m <= k
    BY <1>9, LeastNumber
  <2> QED
    BY <2>1 DEF Min
<1>11. specs[Min(named)].form \in Forms
  BY <1>1, <1>5, <1>10
<1> QED
  BY <1>3, <1>8, <1>10, <1>11, FittingIsRead DEF value

\* A constant that is read is answered with its own value and sign.
LEMMA ValueIsKept ==
  ASSUME NEW c, EnumValue(c) # Fatal,
         "const_value" \in DOMAIN dies[c].attrs => ValueFits(dies[c].attrs["const_value"])
  PROVE  EnumValue(c) = AsWord(dies[c].attrs["const_value"].v)
<1> DEFINE a == "const_value"
           v == dies[c].attrs[a].v
<1>1. ASSUME NEW w \in 0..MaxWord PROVE AsWord(w) = [raw |-> w, is_signed |-> FALSE]
  <2>1. w % (MaxWord + 1) = w /\ (w < 0) = FALSE
    BY <1>1, WordsAndChainsAreNat
  <2> QED
    BY <2>1 DEF AsWord
<1>2. CASE U64(c, a) # None
  <2>1. U64(c, a) = v
    BY <1>2 DEF U64
  <2>2. Has(c, a, "unsigned") \/ (Has(c, a, "signed") /\ v >= 0)
    BY <1>2 DEF U64
  <2>3. v \in 0..MaxWord
    BY <2>2, WordsAndChainsAreNat DEF Has, ValueFits
  <2>4. EnumValue(c) = [raw |-> U64(c, a), is_signed |-> FALSE]
    BY <1>2 DEF EnumValue, Try
  <2> QED
    BY <1>1, <2>1, <2>3, <2>4
<1>3. CASE U64(c, a) = None
  <2>1. S64(c, a) \notin {None, Fatal}
    BY <1>3 DEF EnumValue, Try
  <2>2. S64(c, a) = v /\ (Has(c, a, "signed") \/ Has(c, a, "unsigned"))
    BY <2>1 DEF S64
  <2>3. Has(c, a, "signed") /\ ~(v >= 0)
    BY <1>3, <2>1, <2>2 DEF U64
  <2>4. v \in Int /\ v < 0
    BY <2>3 DEF Has, ValueFits
  <2>5. EnumValue(c) = [raw |-> v % (MaxWord + 1), is_signed |-> TRUE]
    BY <1>3, <2>1, <2>2 DEF EnumValue, Try
  <2>6. (v < 0) = TRUE
    BY <2>4
  <2> QED
    BY <2>5, <2>6 DEF AsWord
<1> QED
  BY <1>2, <1>3

\* The answer to a request for an enum.
LEMMA EnumIsAnswered ==
  ASSUME EnumInv, NEW r, r.ask = "enum", Answer(r) # Fatal, DOMAIN Answer(r) # {}
  PROVE  \E p \in {dies[i].parent : i \in DOMAIN dies} : IsEnumAt(Answer(r), p)
<1> DEFINE e == ResolveCType(r.c_type, "enum")
           named == {c \in Children(e, "enumerator") : Str(c, "name") \notin Unnamed}
           names == {Str(c, "name") : c \in named}
           pick(n) == CHOOSE c \in named : Str(c, "name") = n
           p == dies[e].offset
<1>1. Answer(r) = ExtractEnum(r)
  BY DEF Answer
<1>2. /\ ~\E c \in named : Fatal \in {Str(c, "name"), EnumValue(c)}
      /\ Answer(r) = [n \in names |-> EnumValue(pick(n))]
  BY <1>1 DEF ExtractEnum, Try
<1>3. \A n \in names : pick(n) \in named /\ Str(pick(n), "name") = n
  OBVIOUS
<1>4. named # {} => p # 0 /\ named = NamedIn(p)
  BY DEF Children, NamedIn
<1>5. \A c \in named : c \in DOMAIN dies /\ dies[c].parent = p
  BY DEF Children
<1> HIDE DEF e, named, pick, p
<1>6. DOMAIN Answer(r) = names /\ \A n \in names : Answer(r)[n] = EnumValue(pick(n))
  BY <1>2
<1>7. PICK x \in named : TRUE
  BY <1>6
<1>8. named = NamedIn(p) /\ p \in {dies[i].parent : i \in DOMAIN dies}
  BY <1>4, <1>5, <1>7
<1>9. ASSUME NEW n \in DOMAIN Answer(r)
      PROVE  \E c \in NamedIn(p) :
               Str(c, "name") = n /\ Answer(r)[n] = AsWord(dies[c].attrs["const_value"].v)
  <2>1. pick(n) \in named /\ Str(pick(n), "name") = n /\ Answer(r)[n] = EnumValue(pick(n))
    BY <1>3, <1>6, <1>9
  <2>2. EnumValue(pick(n)) # Fatal /\ pick(n) \in DOMAIN dies
    BY <1>2, <1>5, <2>1
  <2>3. "const_value" \in DOMAIN dies[pick(n)].attrs => ValueFits(dies[pick(n)].attrs["const_value"])
    BY <2>2 DEF EnumInv
  <2>4. EnumValue(pick(n)) = AsWord(dies[pick(n)].attrs["const_value"].v)
    BY <2>2, <2>3, ValueIsKept
  <2> QED
    BY <1>8, <2>1, <2>4
<1> QED
  BY <1>6, <1>8, <1>9 DEF IsEnumAt

\* Names and enumerators stay what they are once all entries have been read.
LEMMA NamesStay ==
  ASSUME UNCHANGED <<object, units, dies>>
  PROVE  /\ \A i, a : Str(i, a)' = Str(i, a)
         /\ \A p : NamedIn(p)' = NamedIn(p)
         /\ \A answer, p : IsEnumAt(answer, p)' <=> IsEnumAt(answer, p)
<1>1. \A i, a : Str(i, a)' = Str(i, a)
  BY DEF Str, Has
<1>2. \A p : NamedIn(p)' = NamedIn(p)
  BY <1>1 DEF NamedIn
<1>3. \A answer, p : IsEnumAt(answer, p)' <=> IsEnumAt(answer, p)
  BY <1>1, <1>2 DEF IsEnumAt
<1> QED
  BY <1>1, <1>2, <1>3

\* What was answered stays right.
LEMMA StepSigns ==
  ASSUME TypeInv, EnumInv, [Next]_vars
  PROVE  EnumInv'
<1>1. object' = object
  BY DEF Next, vars, NoSections, ReadUnit, ReadNull, ReadDie, EndUnit, EndInfo, Extract, Finish, Reject
<1>2. ASSUME UNCHANGED <<units, dies, out>>
      PROVE  EnumeratorsKeepSign'
  BY <1>1, <1>2, NamesStay DEF EnumInv, EnumeratorsKeepSign
<1>3. ASSUME UNCHANGED <<units, dies, out>>, pc' \in {"unit", "dies"} => pc \in {"unit", "dies"}
      PROVE  EnumInv'
  BY <1>1, <1>2, <1>3 DEF EnumInv
<1>4. ASSUME out = <<>>, out' = out PROVE EnumeratorsKeepSign'
  BY <1>4 DEF EnumeratorsKeepSign
<1>5. CASE ReadUnit
  BY <1>1, <1>4, <1>5 DEF ReadUnit, Reject, Goto, EnumInv
<1>6. CASE ReadDie /\ pc' # "rejected"
  <2> DEFINE die == Die(Unit.abbrevs[At(off).code])
  <2>1. pc = "dies" /\ out = <<>> /\ out' = out /\ dies' = Append(dies, die)
    BY <1>6, DieTaken DEF EnumInv
  <2>2. "const_value" \in DOMAIN die.attrs => ValueFits(die.attrs["const_value"])
    BY <1>6, DieFits DEF EnumInv
  <2> HIDE DEF die
  <2>3. /\ DOMAIN Append(dies, die) = 1..Len(dies) + 1 /\ DOMAIN dies = 1..Len(dies)
        /\ Len(dies) \in Nat /\ Append(dies, die)[Len(dies) + 1] = die
        /\ \A i \in DOMAIN dies : Append(dies, die)[i] = dies[i]
    BY AppendKeeps DEF TypeInv, Typed
  <2>4. ASSUME NEW i \in DOMAIN dies', "const_value" \in DOMAIN dies'[i].attrs
        PROVE  ValueFits(dies'[i].attrs["const_value"])
    <3>1. CASE i = Len(dies) + 1
      BY <2>1, <2>2, <2>3, <2>4, <3>1
    <3>2. CASE i \in DOMAIN dies
      BY <2>1, <2>3, <2>4, <3>2 DEF EnumInv
    <3> QED
      BY <2>1, <2>3, <2>4, <3>1, <3>2
  <2> QED
    BY <1>1, <1>4, <2>1, <2>4 DEF EnumInv, ValueFits
<1>7. CASE ReadDie /\ pc' = "rejected"
  BY <1>3, <1>7 DEF ReadDie, Reject, Goto
<1>8. CASE NoSections \/ ReadNull \/ EndUnit \/ EndInfo \/ Finish
  BY <1>3, <1>8 DEF NoSections, ReadNull, EndUnit, EndInfo, Finish, Reject, Goto
<1>9. CASE Extract
  <2>1. CASE Answer(Request) = Fatal
    BY <1>3, <1>9, <2>1 DEF Extract, Reject, Goto
  <2>2. CASE Answer(Request) # Fatal
    <3> DEFINE answer == Answer(Request)
               n == Len(out) + 1
    <3>1. /\ out' = Append(out, answer) /\ UNCHANGED <<object, units, dies, pc>> /\ pc = "extract"
      BY <1>9, <2>2 DEF Extract
    <3>2. /\ DOMAIN Append(out, answer) = 1..n /\ DOMAIN out = 1..Len(out)
          /\ Len(out) \in Nat /\ Append(out, answer)[n] = answer
          /\ \A k \in DOMAIN out : Append(out, answer)[k] = out[k]
      BY AppendKeeps DEF TypeInv, Typed
    <3>3. Request = object.requests[n]
      BY DEF Request
    <3>4. ASSUME object.requests[n].ask = "enum", DOMAIN answer # {}
          PROVE  \E p \in {dies[i].parent : i \in DOMAIN dies} : IsEnumAt(answer, p)
      BY <2>2, <3>3, <3>4, EnumIsAnswered
    <3> HIDE DEF answer
    <3>5. EnumeratorsKeepSign'
      <4> SUFFICES ASSUME NEW k \in 1..n, object.requests[k].ask = "enum",
                          DOMAIN Append(out, answer)[k] # {}
                   PROVE  \E p \in {dies[i].parent : i \in DOMAIN dies} :
                            IsEnumAt(Append(out, answer)[k], p)
        BY <3>1, <3>2, NamesStay DEF EnumeratorsKeepSign
      <4>1. CASE k = n
        BY <3>2, <3>4, <4>1
      <4>2. CASE k \in DOMAIN out
        BY <3>2, <4>2 DEF EnumInv, EnumeratorsKeepSign
      <4> QED
        BY <3>2, <4>1, <4>2
    <3> QED
      BY <3>1, <3>5 DEF EnumInv
  <2> QED
    BY <2>1, <2>2
<1>10. CASE UNCHANGED vars
  BY <1>3, <1>10 DEF vars
<1> QED
  BY <1>5, <1>6, <1>7, <1>8, <1>9, <1>10 DEF Next

\* Whatever was compiled, an enum is answered with all the enumerators of one
\* entry, each with its value and its sign, whichever form wrote it.
THEOREM SignsAreKept ==
  ASSUME \A s \in Sources : ConstantsFit(Object(s))
  PROVE  Spec => []EnumeratorsKeepSign
<1>1. Init => EnumInv
  <2> SUFFICES ASSUME Init PROVE EnumInv
    OBVIOUS
  <2> QED
    BY DEF Init, EnumInv, EnumeratorsKeepSign
<1>2. TypeInv /\ EnumInv /\ [Next]_vars => EnumInv'
  BY StepSigns
<1>3. EnumInv => EnumeratorsKeepSign
  BY DEF EnumInv
<1> QED
  BY InitTypes, StepTypes, <1>1, <1>2, <1>3, PTL DEF Spec

-----------------------------------------------------------------------------
(* Bit-fields                                                              *)

\* The bit-field of some size that begins at a bit of its structure, as DWARF 4
\* has it: counted from the most significant bit of the storage unit of its
\* type, which begins at byte loc and holds all of it.
CountedFromEnd(m, pos, size) ==
  \E loc, bytes \in Nat, type \in DOMAIN dies :
    /\ 8 * loc <= pos /\ pos + size <= 8 * (loc + bytes) /\ 8 * bytes <= MaxWord
    /\ DataMemberLocation(m) = loc
    /\ TypeOf(m) = type /\ type \notin {None, Fatal}
    /\ ByteSize(type) = bytes /\ bytes \notin {None, Fatal}
    /\ U64(m, "bit_offset") = 8 * bytes - size - (pos - 8 * loc)

\* The same, as DWARF 5 has it: counted from the start of the structure.
CountedFromStart(m, pos) == U64(m, "data_bit_offset") = pos

\* A bit-field has the same bits, or is refused, in either encoding, wherever its
\* structure lies: for every width, storage unit and place in it.
THEOREM EncodingsAgree ==
  ASSUME NEW m, NEW n, NEW pos \in Nat, NEW size \in Nat, NEW prefix \in Nat,
         CountedFromEnd(m, pos, size), CountedFromStart(n, pos)
  PROVE  FromBitOffset(m, prefix, size) = FromDataBitOffset(n, prefix)
<1>1. PICK loc \in Nat, bytes \in Nat, type \in DOMAIN dies :
        /\ 8 * loc <= pos /\ pos + size <= 8 * (loc + bytes) /\ 8 * bytes <= MaxWord
        /\ DataMemberLocation(m) = loc
        /\ TypeOf(m) = type /\ type \notin {None, Fatal}
        /\ ByteSize(type) = bytes /\ bytes \notin {None, Fatal}
        /\ U64(m, "bit_offset") = 8 * bytes - size - (pos - 8 * loc)
  BY DEF CountedFromEnd
<1> DEFINE last == (U64(m, "bit_offset") + size) % (MaxWord + 1)
           bits == (bytes * 8) % (MaxWord + 1)
           base == (prefix + loc) * 8
<1>2. ASSUME NEW w \in 0..MaxWord PROVE w % (MaxWord + 1) = w
  BY <1>2, WordsAndChainsAreNat
<1>3. U64(m, "bit_offset") + size = 8 * bytes - (pos - 8 * loc)
  BY <1>1
<1>4. 8 * bytes - (pos - 8 * loc) \in 0..MaxWord /\ bytes * 8 \in 0..MaxWord /\ MaxWord \in Nat
  BY <1>1, WordsAndChainsAreNat
<1>5. last = 8 * bytes - (pos - 8 * loc) /\ bits = 8 * bytes
  BY <1>2, <1>3, <1>4
<1>6. FromBitOffset(m, prefix, size) =
        IF last > bits \/ base > MaxWord THEN Fatal ELSE Sum(base, bits - last)
  BY <1>1 DEF FromBitOffset, Try
<1> HIDE DEF last, bits
<1>7. ~(last > bits) /\ base + (bits - last) = prefix * 8 + pos /\ base <= prefix * 8 + pos
  BY <1>1, <1>5
<1>8. FromBitOffset(m, prefix, size) = IF prefix * 8 + pos > MaxWord THEN Fatal ELSE prefix * 8 + pos
  BY <1>4, <1>6, <1>7 DEF Sum
<1>9. FromDataBitOffset(n, prefix) = IF prefix * 8 + pos > MaxWord THEN Fatal ELSE prefix * 8 + pos
  BY <1>4 DEF FromDataBitOffset, Sum, CountedFromStart
<1> QED
  BY <1>8, <1>9
=============================================================================
