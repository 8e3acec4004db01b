---------------------------- MODULE HostTools_proofs ----------------------------
(***************************************************************************)
(* Proofs about Manifest, about the script and about depcheck, the parts   *)
(* of HostTools.                                                           *)
(*                                                                         *)
(* Manifest, for every set of manifests: what an accepted manifest means,  *)
(* that a later option still forbids what was given before it, and that    *)
(* order is no reason to refuse.  The invariant says what the parser knows *)
(* after any number of lines, in terms of those lines: the table is that   *)
(* of the last header (TableIsCurrent), every key read is recorded under   *)
(* the last value that counts (GivenIsSaid), and types, enums and          *)
(* constants are in the order of their first mention (OrderIsMentions).    *)
(*                                                                         *)
(* The script, for any versions of the kernel and any number of stopped    *)
(* runs and of chores between runs: the invariant says what the script     *)
(* knows of the two files at each of its commands (ScriptKnows): between   *)
(* grep and the echo of the hook there is none in the file it is at,       *)
(* whatever earlier runs have left there.                                  *)
(*                                                                         *)
(* Depcheck, for any number of depfiles and headers and any names a        *)
(* depfile can hold: the text of a depfile is read back as the headers it  *)
(* was written from (TextIsRead), by induction over the pieces of a name   *)
(* and over the names. The invariant says which headers have been settled  *)
(* (TakenAreSettled, RestIsLeft), those of the depfiles before this one    *)
(* and the first ones of this one, and that nothing is recorded but their  *)
(* denied paths (RecordedIsDenied).                                        *)
(***************************************************************************)
EXTENDS HostTools, FiniteSetTheorems, WellFoundedInduction, TLAPS

-----------------------------------------------------------------------------
(* The manifest's parser                                                   *)

\* The keys of the lines before pos.
Read == {i \in Keys : i < pos}

TypeInv ==
  /\ file \in Files
  /\ pos \in 1..(Len(file.lines) + 1)
  /\ table \in Seq(STRING)
  /\ order \in Seq(ToSet(order))
  /\ pc \in {"read", "accepted", "rejected"}

TableIsCurrent ==
  /\ table = TableOf(pos - 1)
  /\ \A i \in Read : TableOf(i) \in Seq(STRING)

\* The value that is recorded for a key is the last that was given, and only a
\* global key, or a constant without an expression, was given before.
LastRead(i) ==
  \A j \in Read \ {i} :
    Place(j) = Place(i) =>
      /\ j < i
      /\ \/ Section(Place(i)[1]) \in Overwritten
         \/ Section(Place(i)[1]) = "constants" /\ Says(j).expr = Empty

GivenIsSaid ==
  /\ \A i \in Read : Known(i) => Place(i) \in DOMAIN given
  /\ \A p \in DOMAIN given :
       \E i \in Read : Place(i) = p /\ Known(i) /\ given[p] = Says(i) /\ LastRead(i)

UnknownIsSaid ==
  /\ \A i \in Read : Unfamiliar(i) => Place(i) \in unknown
  /\ unknown # {} => \E i \in Read : Unfamiliar(i)

\* The first key that is about an entity.
FirstMention(i, e) == Mention(i) = e /\ \A j \in Read : Mention(j) = e => i <= j

OrderIsMentions ==
  /\ \A i \in Read : Mention(i) # None => Mention(i) \in ToSet(order)
  /\ \A a \in DOMAIN order : order[a] # None /\ \E i \in Read : FirstMention(i, order[a])
  /\ \A a, b \in DOMAIN order : a < b =>
       \A i, j \in Read : FirstMention(i, order[a]) /\ FirstMention(j, order[b]) => i < j

AcceptedIsValid ==
  pc = "accepted" =>
    pos = Len(file.lines) + 1 /\ ValidKeys /\ \A i \in DOMAIN order : ValidEntity(order[i])

IInv ==
  /\ TypeInv /\ TableIsCurrent /\ GivenIsSaid /\ UnknownIsSaid /\ OrderIsMentions
  /\ AcceptedIsValid

-----------------------------------------------------------------------------
(* The lines of a file                                                     *)

\* The lines of a manifest are a sequence.
LEMMA LinesOfFile ==
  ASSUME TypeInv
  PROVE  Len(file.lines) \in Nat /\ DOMAIN file.lines = 1..Len(file.lines)
BY FilesAssumption DEF TypeInv

\* Only a header changes the table.
LEMMA TableStays ==
  ASSUME TypeInv, NEW i \in DOMAIN file.lines, file.lines[i].kind # "table"
  PROVE  TableOf(i) = TableOf(i - 1)
<1> DEFINE headers(n) == {j \in 1..n : file.lines[j].kind = "table"}
<1>1. i \in Nat /\ i >= 1
  BY LinesOfFile
<1>2. headers(i) = headers(i - 1)
  BY <1>1
<1> QED
  BY <1>2 DEF TableOf

\* The table under a header is the one it names.
LEMMA TableOfHeader ==
  ASSUME TypeInv, NEW i \in DOMAIN file.lines, file.lines[i].kind = "table"
  PROVE  TableOf(i) = file.lines[i].path
<1> DEFINE headers == {j \in 1..i : file.lines[j].kind = "table"}
<1>1. i \in Nat /\ i >= 1
  BY LinesOfFile
<1>2. i \in headers /\ \A j \in headers : j \in Nat /\ j <= i
  BY <1>1
<1>3. Max(headers) = i
  <2>1. \A x \in headers : (\A y \in headers : x >= y) <=> x = i
    BY <1>1, <1>2
  <2> HIDE DEF headers
  <2> QED
    BY <1>2, <2>1 DEF Max
<1> QED
  BY <1>2, <1>3 DEF TableOf

\* The key at pos is the next to be read.
LEMMA KeyAtPos ==
  ASSUME TypeInv, TableIsCurrent, Reading("key")
  PROVE  /\ pos \in Keys /\ pos \notin Read
         /\ TableOf(pos) = table /\ Place(pos) = <<table, Line.key>>
         /\ Says(pos) = Line.value /\ Mention(pos) = Entity(table, Line.key)
         /\ Known(pos) <=> IsKnown(table, Line.key)
<1>1. pos \in DOMAIN file.lines /\ file.lines[pos].kind = "key"
  BY LinesOfFile DEF TypeInv, Reading, Line
<1>2. pos \in Keys /\ pos \notin Read
  BY <1>1, LinesOfFile DEF Keys, Read
<1>3. TableOf(pos) = table
  BY <1>1, TableStays DEF TableIsCurrent
<1> QED
  BY <1>2, <1>3 DEF Place, Says, Mention, Known, Line

\* What is read of a file depends on the file and the place in it alone.
LEMMA SameFile ==
  ASSUME file' = file
  PROVE  /\ Keys' = Keys
         /\ \A i \in Keys : /\ TableOf(i)' = TableOf(i) /\ Place(i)' = Place(i)
                            /\ Says(i)' = Says(i) /\ Mention(i)' = Mention(i)
                            /\ Known(i)' = Known(i) /\ Unfamiliar(i)' = Unfamiliar(i)
<1>1. Keys' = Keys
  BY DEF Keys
<1>2. \A i : TableOf(i)' = TableOf(i)
  BY DEF TableOf
<1>3. \A i : Place(i)' = Place(i) /\ Says(i)' = Says(i) /\ Mention(i)' = Mention(i)
            /\ Known(i)' = Known(i)
  BY <1>2 DEF Place, Says, Mention, Known
<1> QED
  BY <1>1, <1>2, <1>3 DEF Unfamiliar

\* Where a key has been read, the keys read are one more.
LEMMA ReadGrows ==
  ASSUME TypeInv, file' = file, pos' = pos + 1
  PROVE  Read' = IF pos \in Keys THEN Read \cup {pos} ELSE Read
<1>1. Keys' = Keys /\ \A i \in Keys : i \in Nat
  BY LinesOfFile DEF Keys
<1>2. pos \in Nat
  BY LinesOfFile DEF TypeInv
<1> QED
  BY <1>1, <1>2 DEF Read
-----------------------------------------------------------------------------
(* What a key does                                                         *)

\* An entity is put at the end of the order where it is first mentioned, and
\* stays where it is.
LEMMA MentionsGrow ==
  ASSUME TypeInv, OrderIsMentions, file' = file, pos' = pos + 1,
         pos \in Keys, order' = Ensure(Mention(pos))
  PROVE  OrderIsMentions' /\ order' \in Seq(ToSet(order'))
<1> DEFINE e == Mention(pos)
<1>1. /\ Read' = Read \cup {pos} /\ Keys' = Keys
      /\ \A i \in Read' : i \in Keys /\ Mention(i)' = Mention(i)
      /\ \A i \in Read : i \in Nat /\ i < pos
  BY ReadGrows, SameFile, LinesOfFile DEF Read, Keys
<1>2. pos \in Nat /\ Len(order) \in Nat /\ DOMAIN order = 1..Len(order)
  BY LinesOfFile DEF TypeInv
<1> DEFINE First(i, x) == Mention(i) = x /\ \A j \in Read' : Mention(j) = x => i <= j
<1>3. \A i \in Read : \A x : FirstMention(i, x) <=> First(i, x)
  BY <1>1, <1>2 DEF FirstMention
<1>4. \A a : \A i \in Read' : FirstMention(i, order[a])' <=> First(i, order'[a])
  BY <1>1 DEF FirstMention
<1> HIDE DEF First
<1> SUFFICES /\ \A i \in Read' : Mention(i) # None => Mention(i) \in ToSet(order')
             /\ \A a \in DOMAIN order' : order'[a] # None /\ \E i \in Read' : First(i, order'[a])
             /\ \A a, b \in DOMAIN order' : a < b =>
                  \A i, j \in Read' : First(i, order'[a]) /\ First(j, order'[b]) => i < j
             /\ order' \in Seq(ToSet(order'))
  BY <1>1, <1>4 DEF OrderIsMentions
<1>5. \A a \in DOMAIN order : order[a] # None /\ \E i \in Read : First(i, order[a])
  BY <1>3 DEF OrderIsMentions
<1>6. \A a \in DOMAIN order, i \in Read' : First(i, order[a]) => i \in Read
  BY <1>1, <1>2, <1>5 DEF First
<1>7. \A a, b \in DOMAIN order : a < b =>
        \A i, j \in Read' : First(i, order[a]) /\ First(j, order[b]) => i < j
  BY <1>3, <1>6 DEF OrderIsMentions
<1>8. CASE e = None \/ e \in ToSet(order)
  <2>1. order' = order
    BY <1>8 DEF Ensure
  <2>2. \A i \in Read' : Mention(i) # None => Mention(i) \in ToSet(order')
    BY <1>1, <1>8, <2>1 DEF OrderIsMentions
  <2>3. order' \in Seq(ToSet(order'))
    BY <2>1 DEF TypeInv
  <2> QED
    BY <1>1, <1>5, <1>7, <2>1, <2>2, <2>3
<1>9. CASE e # None /\ e \notin ToSet(order)
  <2>1. /\ order' = Append(order, e)
        /\ Len(order') = Len(order) + 1 /\ DOMAIN order' = 1..(Len(order) + 1)
        /\ \A a \in DOMAIN order : order'[a] = order[a]
        /\ order'[Len(order) + 1] = e
    <3> DEFINE Entities == ToSet(order) \cup {e}
    <3>1. order \in Seq(Entities) /\ e \in Entities
      BY DEF TypeInv
    <3>2. order' = Append(order, e)
      BY <1>9 DEF Ensure
    <3> HIDE DEF e, Entities
    <3> QED
      BY <1>2, <3>1, <3>2
  <2>2. ToSet(order') = ToSet(order) \cup {e}
    BY <1>2, <2>1 DEF ToSet
  <2>3. order' \in Seq(ToSet(order'))
    BY <1>2, <2>1, <2>2 DEF TypeInv
  <2>4. \A i \in Read : Mention(i) # e
    BY <1>9 DEF OrderIsMentions
  <2>5. \A i \in Read' : Mention(i) # None => Mention(i) \in ToSet(order')
    BY <1>1, <2>2 DEF OrderIsMentions
  <2>6. First(pos, e) /\ \A i \in Read' : First(i, e) => i = pos
    BY <1>1, <1>2, <2>4 DEF First
  <2>7. \A a \in DOMAIN order' : order'[a] # None /\ \E i \in Read' : First(i, order'[a])
    BY <1>1, <1>2, <1>5, <1>9, <2>1, <2>6
  <2>8. \A a, b \in DOMAIN order' : a < b =>
          \A i, j \in Read' : First(i, order'[a]) /\ First(j, order'[b]) => i < j
    <3> SUFFICES ASSUME NEW a \in DOMAIN order', NEW b \in DOMAIN order', a < b,
                        NEW i \in Read', NEW j \in Read',
                        First(i, order'[a]), First(j, order'[b])
                 PROVE  i < j
      OBVIOUS
    <3>1. a \in DOMAIN order /\ order'[a] = order[a] /\ i \in Read
      BY <1>2, <1>6, <2>1
    <3>2. CASE b \in DOMAIN order
      BY <1>7, <2>1, <3>1, <3>2
    <3>3. CASE b = Len(order) + 1
      BY <1>1, <2>1, <2>6, <3>1, <3>3
    <3> QED
      BY <1>2, <2>1, <3>2, <3>3
  <2> QED
    BY <2>3, <2>5, <2>7, <2>8
<1> QED
  BY <1>8, <1>9

\* A key that may have a value takes the last place among those with its name.
LEMMA ValueIsRecorded ==
  ASSUME TypeInv, TableIsCurrent, GivenIsSaid, file' = file, pos' = pos + 1,
         Reading("key"), IsKnown(table, Line.key), ~Repeated(Line.key),
         given' = Assigned(<<table, Line.key>>, Line.value)
  PROVE  GivenIsSaid'
<1>1. /\ pos \in Keys /\ pos \notin Read /\ Place(pos) = <<table, Line.key>>
      /\ Says(pos) = Line.value /\ Known(pos)
  BY KeyAtPos
<1>2. /\ Read' = Read \cup {pos} /\ Read' \subseteq Keys
      /\ \A i \in Read' : /\ Place(i)' = Place(i) /\ Known(i)' = Known(i)
                          /\ Says(i)' = Says(i)
      /\ \A i \in Read : i \in Nat /\ i < pos
  BY <1>1, ReadGrows, SameFile, LinesOfFile DEF Read, Keys
<1> DEFINE here == Place(pos)
<1>3. /\ DOMAIN given' = DOMAIN given \cup {here} /\ given'[here] = Says(pos)
      /\ \A p \in DOMAIN given \ {here} : given'[p] = given[p]
  BY <1>1 DEF Assigned
<1>4. \A i \in Read' : Known(i)' => Place(i)' \in DOMAIN given'
  BY <1>1, <1>2, <1>3 DEF GivenIsSaid
<1>5. ASSUME NEW p \in DOMAIN given, p # here
      PROVE  \E i \in Read' : Place(i)' = p /\ Known(i)' /\ given'[p] = Says(i)' /\ LastRead(i)'
  <2>1. PICK i \in Read : Place(i) = p /\ Known(i) /\ given[p] = Says(i) /\ LastRead(i)
    BY DEF GivenIsSaid
  <2>2. LastRead(i)'
    BY <1>2, <1>5, <2>1 DEF LastRead
  <2> QED
    BY <1>2, <1>3, <1>5, <2>1, <2>2
<1>6. ASSUME NEW i \in {pos} PROVE LastRead(i)'
  <2> SUFFICES ASSUME NEW j \in Read, Place(j) = here
               PROVE  \/ Section(here[1]) \in Overwritten
                      \/ Section(here[1]) = "constants" /\ Says(j).expr = Empty
    BY <1>1, <1>2 DEF LastRead
  <2>1. Known(j)
    BY <1>1 DEF Known, Place
  <2>2. here \in DOMAIN given
    BY <2>1 DEF GivenIsSaid
  <2>3. PICK k \in Read : Place(k) = here /\ given[here] = Says(k) /\ LastRead(k)
    BY <2>2 DEF GivenIsSaid
  <2>4. here = <<table, Line.key>> /\ here[1] = table
    BY <1>1
  <2>5. Section(table) \in Overwritten \/ (Section(table) = "constants" /\ given[here].expr = Empty)
    BY <2>2, <2>4 DEF Repeated
  <2>6. Place(k)[1] = table /\ Place(k) = Place(j)
    BY <2>3, <2>4
  <2>7. j # k => Section(table) \in Overwritten
                   \/ (Section(table) = "constants" /\ Says(j).expr = Empty)
    BY <2>3, <2>6 DEF LastRead
  <2> QED
    BY <2>3, <2>4, <2>5, <2>7
<1>7. \E i \in Read' : Place(i)' = here /\ Known(i)' /\ given'[here] = Says(i)' /\ LastRead(i)'
  BY <1>1, <1>2, <1>3, <1>6
<1> QED
  BY <1>3, <1>4, <1>5, <1>7 DEF GivenIsSaid
-----------------------------------------------------------------------------
(* The invariant                                                           *)

\* Before the first line there is nothing to know.
LEMMA InitInv == Init => IInv
<1> SUFFICES ASSUME Init PROVE IInv
  OBVIOUS
<1>1. Len(file.lines) \in Nat
  BY FilesAssumption DEF Init
<1>2. TypeInv
  <2>1. <<>> \in Seq(STRING) /\ <<>> \in Seq(ToSet(<<>>))
    OBVIOUS
  <2> QED
    BY <1>1, <2>1 DEF Init, TypeInv
<1>3. Read = {}
  BY <1>2, LinesOfFile DEF Init, Read, Keys
<1>4. TableIsCurrent
  <2>1. {j \in 1..(pos - 1) : file.lines[j].kind = "table"} = {}
    BY DEF Init
  <2> QED
    BY <1>3, <2>1 DEF Init, TableIsCurrent, TableOf
<1>5. DOMAIN given = {} /\ DOMAIN order = {}
  BY DEF Init
<1> QED
  BY <1>2, <1>3, <1>4, <1>5
     DEF IInv, GivenIsSaid, UnknownIsSaid, OrderIsMentions, AcceptedIsValid, Init

\* What has been read stays read where nothing but pc changes.
LEMMA StopKeeps ==
  ASSUME IInv, UNCHANGED <<file, pos, table, given, order, unknown>>,
         pc' \in {"read", "accepted", "rejected"}, AcceptedIsValid'
  PROVE  IInv'
<1>1. Read' = Read /\ Read \subseteq Keys
  BY SameFile DEF Read
<1>2. TypeInv' /\ TableIsCurrent'
  <2>1. \A i \in Nat : TableOf(i)' = TableOf(i)
    BY DEF TableOf
  <2>2. pos - 1 \in Nat /\ Read \subseteq Nat
    BY LinesOfFile DEF IInv, TypeInv, Read, Keys
  <2> QED
    BY <1>1, <2>1, <2>2 DEF IInv, TypeInv, TableIsCurrent
<1>3. \A i \in Read : LastRead(i)' = LastRead(i)
  BY <1>1, SameFile DEF LastRead
<1>4. GivenIsSaid' /\ UnknownIsSaid'
  BY <1>1, <1>3, SameFile DEF IInv, GivenIsSaid, UnknownIsSaid
<1>5. \A x : \A i \in Read : (Mention(i) = x /\ \A j \in Read : Mention(j) = x => i <= j)
                               <=> (Mention(i)' = x /\ \A j \in Read' : Mention(j)' = x => i <= j)
  BY <1>1, SameFile
<1>6. \A i \in Read : \A a : FirstMention(i, order[a])' <=> FirstMention(i, order[a])
  BY <1>1, <1>5 DEF FirstMention
<1>7. OrderIsMentions'
  BY <1>1, <1>6, SameFile DEF IInv, OrderIsMentions
<1> QED
  BY <1>2, <1>4, <1>7 DEF IInv

\* Validity depends on what is given and unknown alone.
LEMMA SameValidity ==
  ASSUME UNCHANGED <<given, unknown>>
  PROVE  ValidKeys' = ValidKeys /\ \A e : ValidEntity(e)' = ValidEntity(e)
<1>1. \A t, key, default : Many(t, key)' = Many(t, key) /\ One(t, key, default)' = One(t, key, default)
  BY DEF Many, One
<1>2. \A key : Option(key)' = Option(key) /\ ExtractAll(key)' = ExtractAll(key)
  BY <1>1 DEF Option, ExtractAll
<1>3. \A t : EffectivePolicy(t)' = EffectivePolicy(t)
  BY <1>1 DEF EffectivePolicy
<1>4. \A s, b : ValidDesignator(s, b)' = ValidDesignator(s, b)
  BY <1>2 DEF ValidDesignator
<1>5. \A s, b : ValidMembers(s, b)' = ValidMembers(s, b)
  BY <1>4 DEF ValidMembers
<1>6. \A t : ValidType(t)' = ValidType(t)
  BY <1>1, <1>3, <1>5 DEF ValidType
<1>7. \A e : ValidEnum(e)' = ValidEnum(e)
  BY <1>1, <1>2 DEF ValidEnum
<1>8. \A c : ValidConstant(c)' = ValidConstant(c)
  BY DEF ValidConstant
<1>9. ValidKeys' = ValidKeys
  BY <1>2 DEF ValidKeys
<1>10. \A e : ValidEntity(e)' = ValidEntity(e)
  BY <1>6, <1>7, <1>8 DEF ValidEntity
<1> QED
  BY <1>9, <1>10

\* No line and no validation breaks the invariant.
LEMMA StepInv == IInv /\ [Next]_vars => IInv'
<1> SUFFICES ASSUME IInv, [Next]_vars PROVE IInv'
  OBVIOUS
<1>1. /\ TypeInv /\ TableIsCurrent /\ GivenIsSaid /\ UnknownIsSaid /\ OrderIsMentions
      /\ AcceptedIsValid
  BY DEF IInv
<1>2. /\ Len(file.lines) \in Nat /\ DOMAIN file.lines = 1..Len(file.lines)
      /\ pos \in Nat /\ pos >= 1 /\ pos <= Len(file.lines) + 1
  BY <1>1, LinesOfFile DEF TypeInv
<1>3. CASE UNCHANGED vars
  <2>1. AcceptedIsValid'
    BY <1>1, <1>3, SameValidity DEF vars, AcceptedIsValid
  <2> QED
    BY <1>1, <1>3, <2>1, StopKeeps DEF vars, TypeInv
<1>4. CASE BadLine
  BY <1>4, StopKeeps DEF BadLine, Stop, AcceptedIsValid
<1>5. CASE ReadHeader
  <2>1. /\ pos \in DOMAIN file.lines /\ file.lines[pos].kind = "table" /\ pos \notin Keys
        /\ file' = file /\ pos' = pos + 1 /\ table' = file.lines[pos].path /\ pc' = "read"
        /\ UNCHANGED <<given, order, unknown>>
    BY <1>2, <1>5 DEF ReadHeader, Reading, Line, Keys
  <2>2. Read' = Read /\ Read \subseteq Keys
    BY <1>1, <2>1, ReadGrows DEF Read
  <2>3. table' \in Seq(STRING)
    BY <1>1, <2>1, FilesAssumption DEF TypeInv
  <2>4. TypeInv'
    BY <1>1, <1>2, <2>1, <2>3 DEF TypeInv
  <2>5. TableIsCurrent'
    <3>1. TableOf(pos) = table'
      BY <1>1, <2>1, TableOfHeader
    <3>2. table' = TableOf(pos - 1)'
      <4>1. pos' - 1 = pos
        BY <1>2, <2>1
      <4>2. TableOf(pos - 1)' = TableOf(pos)
        BY <4>1, <2>1 DEF TableOf
      <4> QED
        BY <3>1, <4>2, <2>1
    <3>3. \A i \in Read' : TableOf(i)' \in Seq(STRING)
      BY <1>1, <2>1, <2>2, SameFile DEF TableIsCurrent
    <3> QED
      BY <3>2, <3>3 DEF TableIsCurrent
  <2>6. \A i \in Read : LastRead(i)' <=> LastRead(i)
    <3>1. \A i \in Read : /\ Place(i)' = Place(i) /\ Says(i)' = Says(i)
      BY <2>1, <2>2, SameFile
    <3> QED
      BY <2>2, <3>1 DEF LastRead, Overwritten
  <2>7. GivenIsSaid' /\ UnknownIsSaid'
    BY <1>1, <2>1, <2>2, <2>6, SameFile DEF GivenIsSaid, UnknownIsSaid
  <2>8. \A i \in Read : \A a : FirstMention(i, order[a])' <=> FirstMention(i, order[a])
    BY <2>1, <2>2, SameFile DEF FirstMention
  <2>9. OrderIsMentions'
    BY <1>1, <2>1, <2>2, <2>8, SameFile DEF OrderIsMentions
  <2> QED
    BY <2>1, <2>4, <2>5, <2>7, <2>9 DEF IInv, AcceptedIsValid
<1>6. ASSUME Reading("key"), file' = file, table' = table, pos' = pos + 1, pc' = pc,
             order' = Ensure(Entity(table, Line.key)), GivenIsSaid', UnknownIsSaid'
      PROVE  IInv'
  <2>1. pos \in DOMAIN file.lines /\ file.lines[pos].kind # "table" /\ pc' = "read"
    BY <1>2, <1>6 DEF Reading, Line
  <2>2. OrderIsMentions' /\ order' \in Seq(ToSet(order'))
    BY <1>1, <1>6, KeyAtPos, MentionsGrow
  <2>3. TypeInv'
    BY <1>1, <1>2, <1>6, <2>1, <2>2 DEF TypeInv
  <2>4. TableIsCurrent'
    <3>1. TableOf(pos) = table
      BY <1>1, <1>6, KeyAtPos
    <3>2. table' = TableOf(pos - 1)'
      <4>1. pos' - 1 = pos
        BY <1>2, <1>6
      <4>2. TableOf(pos - 1)' = TableOf(pos)
        BY <4>1, <1>6 DEF TableOf
      <4> QED
        BY <3>1, <4>2, <1>6
    <3>3. Read' = Read \cup {pos} /\ Read' \subseteq Keys
      BY <1>1, <1>6, KeyAtPos, ReadGrows DEF Read
    <3>4. \A i \in Read' : TableOf(i) \in Seq(STRING)
      BY <1>1, <3>1, <3>3 DEF TableIsCurrent, TypeInv
    <3>5. \A i \in Read' : TableOf(i)' \in Seq(STRING)
      BY <1>6, <3>3, <3>4, SameFile
    <3> QED
      BY <3>2, <3>5 DEF TableIsCurrent
  <2> QED
    BY <1>6, <2>1, <2>2, <2>3, <2>4 DEF IInv, AcceptedIsValid
<1>7. CASE ReadUnknown
  <2>1. /\ Reading("key") /\ ~IsKnown(table, Line.key) /\ file' = file /\ pos' = pos + 1
        /\ unknown' = unknown \cup {<<table, Line.key>>} /\ UNCHANGED <<given, table, pc>>
        /\ order' = Ensure(Entity(table, Line.key))
    BY <1>7 DEF ReadUnknown
  <2>2. /\ pos \in Keys /\ pos \notin Read /\ Place(pos) = <<table, Line.key>> /\ ~Known(pos)
    BY <1>1, <2>1, KeyAtPos
  <2>3. Read' = Read \cup {pos} /\ Read' \subseteq Keys /\ pos \notin Read
    BY <1>1, <2>1, <2>2, ReadGrows DEF Read
  <2>4. \A i \in Read : Known(i) => Place(i) # Place(pos)
    BY <2>2 DEF Known, Place
  <2>5. GivenIsSaid'
    <3>1. \A i \in Read' : Known(i)' => Place(i)' \in DOMAIN given'
      BY <1>1, <2>1, <2>2, <2>3, SameFile DEF GivenIsSaid
    <3>2. \A i \in Read : Known(i) /\ LastRead(i) => LastRead(i)'
      BY <2>1, <2>3, <2>4, SameFile DEF LastRead
    <3>3. ASSUME NEW p \in DOMAIN given
          PROVE  \E i \in Read' :
                   Place(i)' = p /\ Known(i)' /\ given'[p] = Says(i)' /\ LastRead(i)'
      <4>1. PICK i \in Read : Place(i) = p /\ Known(i) /\ given[p] = Says(i) /\ LastRead(i)
        BY <1>1 DEF GivenIsSaid
      <4> QED
        BY <2>1, <2>3, <3>2, <4>1, SameFile
    <3> QED
      BY <2>1, <3>1, <3>3 DEF GivenIsSaid
  <2>6. UnknownIsSaid'
    <3>1. \A i \in Read' : Unfamiliar(i)' = Unfamiliar(i) /\ Place(i)' = Place(i)
      BY <2>1, <2>3, SameFile
    <3>2. Unfamiliar(pos)
      BY <2>2 DEF Unfamiliar
    <3>3. \A i \in Read' : Unfamiliar(i) => Place(i) \in unknown'
      BY <1>1, <2>1, <2>2, <2>3 DEF UnknownIsSaid
    <3> QED
      BY <2>3, <3>1, <3>2, <3>3 DEF UnknownIsSaid
  <2> QED
    BY <1>6, <2>1, <2>5, <2>6
<1>8. CASE ReadKey
  <2>1. Reading("key") /\ IsKnown(table, Line.key)
    BY <1>8 DEF ReadKey
  <2>2. CASE Repeated(Line.key) \/ ~WellTyped(Line.key, Line.value)
    BY <1>8, <2>2, StopKeeps DEF ReadKey, Stop, AcceptedIsValid
  <2>3. CASE ~(Repeated(Line.key) \/ ~WellTyped(Line.key, Line.value))
    <3>1. /\ given' = Assigned(<<table, Line.key>>, Line.value)
          /\ order' = Ensure(Entity(table, Line.key))
          /\ unknown' = IF Line.value.more THEN unknown \cup {<<table, Line.key>>} ELSE unknown
          /\ pos' = pos + 1 /\ UNCHANGED <<file, table, pc>>
      BY <1>8, <2>3 DEF ReadKey
    <3>2. GivenIsSaid'
      BY <1>1, <2>1, <2>3, <3>1, ValueIsRecorded
    <3>3. /\ pos \in Keys /\ Place(pos) = <<table, Line.key>> /\ Known(pos)
          /\ Says(pos) = Line.value
      BY <1>1, <2>1, KeyAtPos
    <3>4. Read' = Read \cup {pos} /\ Read' \subseteq Keys
      BY <1>1, <3>1, <3>3, ReadGrows DEF Read
    <3>5. Unfamiliar(pos) <=> Line.value.more
      BY <3>3 DEF Unfamiliar
    <3>6. UnknownIsSaid'
      <4>1. \A i \in Read' : Unfamiliar(i)' = Unfamiliar(i) /\ Place(i)' = Place(i)
        BY <3>1, <3>4, SameFile
      <4>2. \A i \in Read' : Unfamiliar(i) => Place(i) \in unknown'
        BY <1>1, <3>1, <3>3, <3>4, <3>5 DEF UnknownIsSaid
      <4>3. unknown' # {} => \E i \in Read' : Unfamiliar(i)
        BY <1>1, <3>1, <3>4, <3>5 DEF UnknownIsSaid
      <4> QED
        BY <4>1, <4>2, <4>3 DEF UnknownIsSaid
    <3> QED
      BY <1>6, <2>1, <3>1, <3>2, <3>6
  <2> QED
    BY <2>2, <2>3
<1>9. CASE Validate
  <2>1. UNCHANGED <<file, pos, table, given, order, unknown>> /\ pc' \in {"accepted", "rejected"}
    BY <1>9 DEF Validate, Stop
  <2>2. AcceptedIsValid'
    <3> SUFFICES ASSUME pc' = "accepted" PROVE AcceptedIsValid'
      BY DEF AcceptedIsValid
    <3>1. pos = Len(file.lines) + 1 /\ ValidKeys /\ \A i \in DOMAIN order : ValidEntity(order[i])
      <4>1. pc' # "rejected"
        OBVIOUS
      <4>2. pos > Len(file.lines) /\ ValidKeys /\ \A i \in DOMAIN order : ValidEntity(order[i])
        BY <1>9, <4>1 DEF Validate, Stop
      <4> QED
        BY <1>2, <4>2
    <3> QED
      BY <2>1, <3>1, SameValidity DEF AcceptedIsValid
  <2> QED
    BY <2>1, <2>2, StopKeeps
<1> QED
  BY <1>3, <1>4, <1>5, <1>7, <1>8, <1>9 DEF Next
-----------------------------------------------------------------------------
(* What an accepted manifest means                                         *)

\* Behind the last line all keys are read.
LEMMA AllIsRead ==
  ASSUME IInv, pos > Len(file.lines)
  PROVE  Read = Keys /\ Keys \subseteq Nat
<1>1. Keys \subseteq 1..Len(file.lines) /\ Len(file.lines) \in Nat /\ pos \in Nat
  <2>1. TypeInv
    BY DEF IInv
  <2> QED
    BY <2>1, LinesOfFile DEF Keys, TypeInv
<1>2. \A i \in Keys : i \in Nat /\ i < pos
  BY <1>1
<1> QED
  BY <1>2 DEF Read

\* A manifest is accepted once all its lines are read.
LEMMA AcceptedIsRead ==
  ASSUME IInv, pc = "accepted"
  PROVE  Read = Keys /\ Keys \subseteq Nat
<1>1. Len(file.lines) \in Nat
  BY LinesOfFile DEF IInv
<1>2. pos > Len(file.lines)
  BY <1>1 DEF IInv, AcceptedIsValid
<1> QED
  BY <1>2, AllIsRead

\* What a file says last of a key is what was recorded for it.
LEMMA LastSaidIsRecorded ==
  ASSUME IInv, Read = Keys, Keys \subseteq Nat, NEW t, NEW key, NEW default, IsKnown(t, key)
  PROVE  LastSaid(<<t, key>>, default) = One(t, key, default)
<1> DEFINE said == {i \in Keys : Place(i) = <<t, key>>}
<1>1. \A i \in said : Known(i)
  BY DEF Known, Place
<1>2. CASE said = {}
  <2>1. <<t, key>> \notin DOMAIN given
    BY <1>2 DEF IInv, GivenIsSaid
  <2> QED
    BY <1>2, <2>1 DEF LastSaid, One
<1>3. CASE said # {}
  <2>1. <<t, key>> \in DOMAIN given
    BY <1>1, <1>3 DEF IInv, GivenIsSaid
  <2>2. PICK l \in said : given[<<t, key>>] = Says(l) /\ \A j \in said \ {l} : j < l
    BY <2>1 DEF IInv, GivenIsSaid, LastRead
  <2>3. Max(said) = l
    <3>1. said \subseteq Nat /\ l \in said /\ \A y \in said \ {l} : y < l
      BY <2>2
    <3>2. \A x \in said : (\A y \in said : x >= y) <=> x = l
      <4> HIDE DEF said
      <4> QED
        BY <3>1
    <3> HIDE DEF said
    <3> QED
      BY <2>2, <3>2 DEF Max
  <2> QED
    BY <1>3, <2>1, <2>2, <2>3 DEF LastSaid, One
<1> QED
  BY <1>2, <1>3

\* An entity has its place in the order by its first mention.
LEMMA FirstIsMin ==
  ASSUME IInv, pc = "accepted", NEW e, NEW i \in Read, FirstMention(i, e)
  PROVE  Min({j \in Keys : Mention(j) = e}) = i
<1> DEFINE mentions == {j \in Keys : Mention(j) = e}
<1>1. Read = Keys /\ Keys \subseteq Nat
  BY AcceptedIsRead
<1>2. i \in mentions /\ \A x \in mentions : (\A y \in mentions : x =< y) <=> x = i
  BY <1>1 DEF FirstMention
<1> HIDE DEF mentions
<1>3. Min(mentions) = i
  BY <1>2 DEF Min
<1> QED
  BY <1>3 DEF mentions

\* What is appended to a sequence comes after what is in it.
LEMMA AppendKeeps ==
  ASSUME NEW S, NEW t \in Seq(S), NEW x \in S
  PROVE  /\ Append(t, x) \in Seq(S) /\ Len(Append(t, x)) = Len(t) + 1
         /\ Append(t, x)[Len(t) + 1] = x
         /\ \A i \in 1..Len(t) : Append(t, x)[i] = t[i]
OBVIOUS

\* The options of a type are a table under it.
LEMMA AppendToPair ==
  ASSUME NEW S, NEW t \in Seq(S), Len(t) = 2, NEW x
  PROVE  LET o == Append(t, x) IN Len(o) = 3 /\ o[1] = t[1] /\ o[3] = x /\ o # <<>>
<1> DEFINE T == S \cup {x}
           o == Append(t, x)
<1>1. t \in Seq(T) /\ x \in T
  OBVIOUS
<1> HIDE DEF T
<1>2. /\ o \in Seq(T) /\ Len(o) = Len(t) + 1
      /\ o[Len(t) + 1] = x /\ \A i \in 1..Len(t) : o[i] = t[i]
  BY ONLY <1>1, AppendKeeps
<1> HIDE DEF o
<1>3. Len(o) = 3 /\ o[1] = t[1] /\ o[3] = x
  BY <1>2
<1>4. o # <<>>
  BY <1>2, <1>3
<1> QED
  BY <1>3, <1>4 DEF o

\* A global key is about no entity in particular.
LEMMA MentionOfGlobal ==
  ASSUME NEW t, NEW key, Section(t) \in Overwritten
  PROVE  Entity(t, key) = None
BY DEF Overwritten, Entity

-----------------------------------------------------------------------------
(* What is recorded of a file that is read to its end                      *)

\* A key that is said and known is recorded, and what is recorded is good if all
\* lines are.
LEMMA SaidIsRecorded ==
  ASSUME IInv, Read = Keys, NEW t, NEW key, IsKnown(t, key), IsSaid(<<t, key>>)
  PROVE  <<t, key>> \in DOMAIN given
<1>1. PICK i \in Keys : Place(i) = <<t, key>>
  BY DEF IsSaid
<1>2. Known(i)
  BY <1>1 DEF Known, Place
<1> QED
  BY <1>1, <1>2 DEF IInv, GivenIsSaid

LEMMA RecordedIsGood ==
  ASSUME IInv, Read = Keys, GoodLines, NEW t, NEW key, <<t, key>> \in DOMAIN given
  PROVE  IF Section(t) = "constants" THEN given[<<t, key>>].expr # Empty
         ELSE GoodAs(key, given[<<t, key>>].v)
<1>1. PICK i \in Keys : Place(i) = <<t, key>> /\ Known(i) /\ given[<<t, key>>] = Says(i)
  BY DEF IInv, GivenIsSaid
<1>2. TableOf(i) = t /\ file.lines[i].key = key
  BY <1>1 DEF Place
<1>3. GoodKey(i)
  BY <1>1 DEF GoodLines
<1> QED
  BY <1>1, <1>2, <1>3 DEF GoodKey

\* Of a type or an enum, what is recorded is what its only line says.
LEMMA OnlyLineIsRecorded ==
  ASSUME IInv, Read = Keys, Keys \subseteq Nat, NEW i \in Keys, NEW t, NEW key,
         Section(t) \in {"types", "enums"}, Place(i) = <<t, key>>, IsKnown(t, key)
  PROVE  <<t, key>> \in DOMAIN given /\ given[<<t, key>>] = Says(i)
<1>1. Known(i)
  BY DEF Known, Place
<1>2. Place(i) \in DOMAIN given
  BY <1>1 DEF IInv, GivenIsSaid
<1>3. PICK l \in Keys : Place(l) = Place(i) /\ given[Place(i)] = Says(l) /\ LastRead(l)
  BY <1>2 DEF IInv, GivenIsSaid
<1>4. l = i
  <2>1. Section(Place(l)[1]) \notin Overwritten /\ Section(Place(l)[1]) # "constants"
    BY <1>3 DEF Overwritten
  <2> QED
    BY <1>3, <2>1 DEF LastRead
<1> QED
  BY <1>2, <1>3, <1>4

\* A boolean option and a type's policy are what the file says of them.
LEMMA OptionIsSaid ==
  ASSUME IInv, Read = Keys, Keys \subseteq Nat,
         NEW key \in {"strict", "allow_nested_designators", "allow_array_subscripts"}
  PROVE  Option(key) <=> SaidOption(key, "true") = "true"
<1>1. IsKnown(<<"options">>, key)
  BY DEF IsKnown, Section, KeyTypes
<1> QED
  BY <1>1, LastSaidIsRecorded DEF Option, SaidOption

LEMMA OptionsOfType ==
  ASSUME NEW t \in Seq(STRING), Len(t) = 2, t[1] = "types"
  PROVE  IsKnown(Append(t, "options"), "bitfield_policy") /\ Section(Append(t, "options")) = "type_options"
<1> DEFINE o == Append(t, "options")
<1>1. Len(o) = 3 /\ o[1] = "types" /\ o[3] = "options" /\ o # <<>>
  BY AppendToPair
<1> HIDE DEF o
<1>2. Section(o) = "type_options"
  BY <1>1 DEF Section
<1>3. IsKnown(o, "bitfield_policy")
  BY <1>2 DEF IsKnown, KeyTypes
<1> QED
  BY <1>2, <1>3 DEF o

LEMMA PolicyIsSaid ==
  ASSUME IInv, Read = Keys, Keys \subseteq Nat,
         NEW t \in Seq(STRING), Len(t) = 2, t[1] = "types"
  PROVE  SaidPolicy(t) = EffectivePolicy(t)
<1>1. IsKnown(<<"options">>, "bitfield_policy")
  BY DEF IsKnown, Section, KeyTypes
<1>2. SaidOption("bitfield_policy", "geometry") = One(<<"options">>, "bitfield_policy", "geometry")
  BY <1>1, LastSaidIsRecorded DEF SaidOption
<1>3. LastSaid(<<Append(t, "options"), "bitfield_policy">>,
               One(<<"options">>, "bitfield_policy", "geometry")) = EffectivePolicy(t)
  BY OptionsOfType, LastSaidIsRecorded DEF EffectivePolicy
<1> QED
  BY <1>2, <1>3 DEF SaidPolicy

\* The tables of types and enums.
LEMMA TableOfEntity ==
  ASSUME NEW t \in Seq(STRING), Section(t) \in {"types", "enums"}
  PROVE  /\ Len(t) = 2 /\ t[1] = Section(t) /\ t # None
         /\ \A key : Entity(t, key) = t
<1>1. Len(t) = 2 /\ t[1] = Section(t)
  BY DEF Section
<1>2. SubSeq(t, 1, 2) = t
  BY <1>1
<1> QED
  BY <1>1, <1>2, FilesAssumption DEF Entity

LEMMA EntityOfTable ==
  ASSUME NEW t \in Seq(STRING), NEW key, Entity(t, key) # None
  PROVE  \/ /\ Section(t) \in {"types", "type_options", "enums"}
            /\ Entity(t, key) \in Seq(STRING) /\ Len(Entity(t, key)) = 2
            /\ Entity(t, key)[1] = IF Section(t) = "enums" THEN "enums" ELSE "types"
            /\ Section(t) = "enums" => Entity(t, key) = t
         \/ t = <<"constants">> /\ Section(t) = "constants" /\ Entity(t, key) = <<"constants", key>>
<1>1. Section(t) \in {"types", "type_options", "enums", "constants"}
  BY DEF Entity
<1>2. CASE Section(t) \in {"types", "type_options", "enums"}
  <2>1. Len(t) \in {2, 3} /\ t[1] = IF Section(t) = "enums" THEN "enums" ELSE "types"
    BY <1>2 DEF Section
  <2>2. Entity(t, key) = SubSeq(t, 1, 2)
    BY <1>2 DEF Entity
  <2>3. /\ SubSeq(t, 1, 2) \in Seq(STRING) /\ Len(SubSeq(t, 1, 2)) = 2
        /\ SubSeq(t, 1, 2)[1] = t[1]
    BY <2>1
  <2>4. Section(t) = "enums" => Entity(t, key) = t
    BY TableOfEntity
  <2> QED
    BY <1>2, <2>1, <2>2, <2>3, <2>4
<1>3. CASE Section(t) = "constants"
  <2>1. Len(t) = 1 /\ t[1] = "constants"
    BY <1>3 DEF Section
  <2>2. t = <<"constants">>
    BY <2>1
  <2> QED
    BY <1>3, <2>2 DEF Entity
<1> QED
  BY <1>1, <1>2, <1>3

\* Two members of a set are a sequence of members.
LEMMA PairIsSeq ==
  ASSUME NEW S, NEW x \in S, NEW y \in S
  PROVE  <<x, y>> \in Seq(S)
OBVIOUS

\* A known key that is not global is about a type, an enum or a constant.
LEMMA KnownHasEntity ==
  ASSUME NEW t \in Seq(STRING), NEW key \in STRING, IsKnown(t, key), Section(t) \notin Overwritten
  PROVE  Entity(t, key) # None
<1>1. Section(t) \in {"types", "type_options", "enums", "constants"}
  <2>1. Section(t) \in {"top", "target", "options", "constants", "types", "enums", "type_options", "unknown"}
    BY DEF Section
  <2>2. Section(t) # "unknown"
    BY DEF IsKnown, KeyTypes
  <2> QED
    BY <2>1, <2>2 DEF Overwritten
<1>2. CASE Section(t) = "constants"
  <2>1. <<"constants", key>> \in Seq(STRING)
    <3> DEFINE S == STRING
    <3>1. "constants" \in S /\ key \in S
      <4>1. Len(t) = 1 /\ t[1] = "constants" /\ t \in Seq(S) /\ key \in S
        BY <1>2 DEF Section
      <4> HIDE DEF S
      <4>2. t[1] \in S
        BY <4>1
      <4> QED
        BY <4>1, <4>2
    <3> HIDE DEF S
    <3>2. <<"constants", key>> \in Seq(S)
      BY <3>1, PairIsSeq
    <3> QED
      BY <3>2 DEF S
  <2> QED
    BY <1>2, <2>1, FilesAssumption DEF Entity
<1>3. CASE Section(t) # "constants"
  <2>1. Len(t) \in {2, 3}
    BY <1>1, <1>3 DEF Section
  <2>2. SubSeq(t, 1, 2) \in Seq(STRING)
    BY <2>1
  <2>3. Entity(t, key) = SubSeq(t, 1, 2)
    BY <1>1, <1>3 DEF Entity
  <2> QED
    BY <2>2, <2>3, FilesAssumption
<1> QED
  BY <1>2, <1>3

\* An accepted manifest is what its file says, in all its tables, opened once
\* or many times, whatever manifests there are.
THEOREM ManifestMeansWhatItSays == Spec => []MeansWhatItSays
<1>1. IInv => MeansWhatItSays
  <2> SUFFICES ASSUME IInv, pc = "accepted" PROVE MeansWhatItSays
    BY DEF MeansWhatItSays
  <2>1. Read = Keys /\ Keys \subseteq Nat
    BY AcceptedIsRead
  <2>2. /\ GivenIsSaid /\ OrderIsMentions /\ order \in Seq(ToSet(order))
    BY DEF IInv, TypeInv
  <2>3. ASSUME NEW i \in Keys, Known(i)
        PROVE  \/ /\ given[Place(i)] = Says(i)
                  /\ Mention(i) # None =>
                       \A j \in {k \in Keys \ {i} : Place(k) = Place(i)} : Says(j).expr = Empty
               \/ Mention(i) = None /\ \E j \in {k \in Keys \ {i} : Place(k) = Place(i)} : j > i
               \/ Says(i).expr = Empty
    <3>1. Place(i) \in DOMAIN given
      BY <2>1, <2>2, <2>3 DEF GivenIsSaid
    <3>2. PICK l \in Keys : Place(l) = Place(i) /\ given[Place(i)] = Says(l) /\ LastRead(l)
      BY <2>1, <2>2, <3>1 DEF GivenIsSaid
    <3>3. Section(Place(i)[1]) \in Overwritten => Mention(i) = None
      BY MentionOfGlobal DEF Mention, Place
    <3>4. CASE l = i
      BY <2>1, <3>2, <3>3, <3>4 DEF LastRead
    <3>5. CASE l # i
      <4>1. /\ i < l
            /\ Section(Place(i)[1]) \in Overwritten \/ Says(i).expr = Empty
        BY <2>1, <3>2, <3>5 DEF LastRead
      <4> QED
        BY <2>1, <3>2, <3>3, <3>5, <4>1
    <3> QED
      BY <3>4, <3>5
  <2>4. \A i \in Keys : Mention(i) # None => Mention(i) \in ToSet(order)
    BY <2>1, <2>2 DEF OrderIsMentions
  <2>5. ASSUME NEW a \in DOMAIN order, NEW b \in DOMAIN order, a < b
        PROVE  /\ Min({i \in Keys : Mention(i) = order[a]}) < Min({i \in Keys : Mention(i) = order[b]})
               /\ order[a] # order[b]
    <3>1. PICK i \in Read : FirstMention(i, order[a])
      BY <2>2 DEF OrderIsMentions
    <3>2. PICK j \in Read : FirstMention(j, order[b])
      BY <2>2 DEF OrderIsMentions
    <3>3. i < j
      BY <2>2, <2>5, <3>1, <3>2 DEF OrderIsMentions
    <3>4. /\ Min({k \in Keys : Mention(k) = order[a]}) = i
          /\ Min({k \in Keys : Mention(k) = order[b]}) = j
      BY <3>1, <3>2, FirstIsMin
    <3> QED
      BY <2>1, <3>3, <3>4
  <2>6. IsInjective(order)
    <3>1. DOMAIN order = 1..Len(order) /\ Len(order) \in Nat
      BY <2>2
    <3>2. ASSUME NEW a \in DOMAIN order, NEW b \in DOMAIN order, order[a] = order[b]
          PROVE  a = b
      <4>1. ~(a < b)
        BY <2>5, <3>2
      <4>2. ~(b < a)
        BY <2>5, <3>2
      <4> QED
        BY <3>1, <4>1, <4>2
    <3> QED
      BY <3>2 DEF IsInjective
  <2> QED
    BY <2>3, <2>4, <2>5, <2>6 DEF MeansWhatItSays
<1> QED
  BY <1>1, InitInv, StepInv, PTL DEF Spec

\* What an option forbids is in no accepted manifest, wherever the option is.
THEOREM ForbiddenIsAlwaysRefused == Spec => []ForbiddenIsRefused
<1>1. IInv => ForbiddenIsRefused
  <2> SUFFICES ASSUME IInv, pc = "accepted" PROVE ~SaysForbidden
    BY DEF ForbiddenIsRefused
  <2>1. Read = Keys /\ Keys \subseteq Nat
    BY AcceptedIsRead
  <2>2. /\ UnknownIsSaid /\ OrderIsMentions /\ ValidKeys
        /\ \A i \in DOMAIN order : ValidEntity(order[i])
    BY DEF IInv, AcceptedIsValid
  <2>3. ASSUME SaidOption("strict", "true") = "true"
        PROVE  \A i \in Keys : ~Unfamiliar(i)
    <3>1. unknown = {}
      BY <2>1, <2>2, <2>3, OptionIsSaid DEF ValidKeys
    <3> QED
      BY <2>1, <2>2, <3>1 DEF UnknownIsSaid
  <2>4. ASSUME NEW i \in Keys, Section(TableOf(i)) = "types",
               file.lines[i].key \in {"fields", "bitfields"}
        PROVE  ~ForbiddenMembers(i)
    <3> DEFINE t == TableOf(i)
               key == file.lines[i].key
               v == Says(i).v
    <3>1. t \in Seq(STRING)
      BY <2>1 DEF IInv, TableIsCurrent
    <3>2. Len(t) = 2 /\ t[1] = "types" /\ t # None /\ Mention(i) = t
      BY <2>4, <3>1, TableOfEntity DEF Mention
    <3>3. ValidType(t)
      <4>1. t \in ToSet(order)
        BY <2>1, <2>2, <3>2 DEF OrderIsMentions
      <4>2. ValidEntity(t)
        BY <2>2, <4>1 DEF ToSet
      <4> QED
        BY <3>2, <4>2 DEF ValidEntity
    <3>4. Many(t, key) = v
      <4>1. IsKnown(t, key) /\ Place(i) = <<t, key>>
        BY <2>4 DEF Place, IsKnown, KeyTypes
      <4> QED
        BY <2>1, <2>4, <4>1, OnlyLineIsRecorded DEF Many
    <3>5. v # <<>> => ValidMembers(v, key = "bitfields")
      BY <2>4, <3>3, <3>4 DEF ValidType
    <3>6. \A k \in DOMAIN v : ~ForbiddenMember(Designators[v[k]])
      <4> SUFFICES ASSUME NEW k \in DOMAIN v PROVE ~ForbiddenMember(Designators[v[k]])
        OBVIOUS
      <4>1. v # <<>>
        OBVIOUS
      <4>2. ValidDesignator(v[k], key = "bitfields")
        BY <3>5, <4>1 DEF ValidMembers
      <4> QED
        BY <2>1, <4>2, OptionIsSaid DEF ValidDesignator, ForbiddenMember
    <3>7. key = "bitfields" /\ v # <<>> => SaidPolicy(t) # "deny"
      BY <2>1, <3>1, <3>2, <3>3, <3>4, PolicyIsSaid DEF ValidType
    <3> QED
      BY <3>6, <3>7 DEF ForbiddenMembers
  <2> QED
    BY <2>3, <2>4 DEF SaysForbidden
<1> QED
  BY <1>1, InitInv, StepInv, PTL DEF Spec

-----------------------------------------------------------------------------
(* Why a manifest is refused                                               *)

Cause == SaysTwice \/ SaysForbidden \/ LeavesOut \/ MixesEnum

\* A key of a good line is refused only if it has a value already.
LEMMA RefusedKey ==
  ASSUME IInv, GoodLines, Reading("key"), IsKnown(table, Line.key),
         Repeated(Line.key) \/ ~WellTyped(Line.key, Line.value)
  PROVE  SaysTwice
<1>1. /\ pos \in Keys /\ pos \notin Read /\ TableOf(pos) = table
      /\ Place(pos) = <<table, Line.key>> /\ Says(pos) = Line.value
      /\ Mention(pos) = Entity(table, Line.key) /\ Known(pos)
  BY KeyAtPos DEF IInv
<1>2. WellTyped(Line.key, Line.value)
  <2>1. GoodKey(pos) /\ file.lines[pos].key = Line.key
    BY <1>1 DEF GoodLines, Line
  <2> QED
    BY <1>1, <2>1 DEF GoodKey, WellTyped
<1>3. <<table, Line.key>> \in DOMAIN given /\ Section(table) \notin Overwritten
  BY <1>2 DEF Repeated
<1>4. PICK i \in Read : Place(i) = Place(pos)
  BY <1>1, <1>3 DEF IInv, GivenIsSaid
<1>5. Mention(pos) # None
  <2>1. table \in Seq(STRING)
    BY DEF IInv, TypeInv
  <2>2. Line.key \in STRING
    <3>1. pos \in DOMAIN file.lines /\ file.lines[pos].kind = "key" /\ file \in Files
      BY <1>1 DEF Keys, IInv, TypeInv
    <3> QED
      BY <3>1, FilesAssumption DEF Line
  <2> QED
    BY <1>1, <1>3, <2>1, <2>2, KnownHasEntity
<1>6. i \in Keys /\ i # pos
  BY <1>1 DEF Read
<1> QED
  BY <1>1, <1>4, <1>5, <1>6 DEF SaysTwice

\* What is to be valid of the whole file.
LEMMA GoodTopIsValid ==
  ASSUME IInv, Read = Keys, Keys \subseteq Nat, GoodLines, ~LeavesOut
  PROVE  ValidTop /\ file.stem = One(<<>>, "set", Empty)
<1>1. ASSUME NEW key \in {"schema_version", "set", "includes"}
      PROVE  <<<<>>, key>> \in DOMAIN given /\ GoodAs(key, given[<<<<>>, key>>].v)
  <2>1. Section(<<>>) = "top"
    BY DEF Section
  <2>2. IsKnown(<<>>, key)
    BY <2>1 DEF IsKnown, KeyTypes
  <2>3. <<<<>>, key>> \in DOMAIN given
    BY <2>2, SaidIsRecorded DEF LeavesOut
  <2> QED
    BY <2>1, <2>3, RecordedIsGood
<1>2. /\ One(<<>>, "schema_version", Empty) = "1.5"
      /\ One(<<>>, "set", Empty) \in SafeNames /\ One(<<>>, "set", Empty) = file.stem
      /\ Many(<<>>, "includes") # <<>> /\ Empty \notin ToSet(Many(<<>>, "includes"))
  BY <1>1 DEF GoodAs, One, Many
<1>3. ToSet(Many(<<"target">>, "arch")) \subseteq Archs
  <2>1. CASE <<<<"target">>, "arch">> \in DOMAIN given
    <3>1. Section(<<"target">>) # "constants"
      BY DEF Section
    <3>2. GoodAs("arch", given[<<<<"target">>, "arch">>].v)
      BY <2>1, <3>1, RecordedIsGood
    <3> QED
      BY <2>1, <3>2 DEF GoodAs, Many
  <2>2. CASE <<<<"target">>, "arch">> \notin DOMAIN given
    BY <2>2 DEF Many, ToSet
  <2> QED
    BY <2>1, <2>2
<1>4. One(<<"options">>, "bitfield_policy", "geometry") \in Policies
  <2>1. Section(<<"options">>) # "constants"
    BY DEF Section
  <2>2. <<<<"options">>, "bitfield_policy">> \in DOMAIN given =>
          GoodAs("bitfield_policy", given[<<<<"options">>, "bitfield_policy">>].v)
    BY <2>1, RecordedIsGood
  <2> QED
    BY <2>2 DEF GoodAs, One, Policies
<1> QED
  BY <1>2, <1>3, <1>4 DEF ValidTop

\* A type or an enum that is mentioned has a C type.
LEMMA HasCType ==
  ASSUME IInv, Read = Keys, Keys \subseteq Nat, GoodLines, ~LeavesOut,
         NEW i \in Keys, Mention(i) # None, Mention(i)[1] # "constants",
         Section(Mention(i)) \in {"types", "enums"}
  PROVE  One(Mention(i), "c_type", Empty) # Empty
<1> DEFINE e == Mention(i)
<1>1. IsKnown(e, "c_type")
  BY DEF IsKnown, KeyTypes
<1>2. IsSaid(<<e, "c_type">>)
  BY DEF LeavesOut
<1>3. <<e, "c_type">> \in DOMAIN given /\ GoodAs("c_type", given[<<e, "c_type">>].v)
  BY <1>1, <1>2, SaidIsRecorded, RecordedIsGood
<1> QED
  BY <1>3 DEF GoodAs, One

\* Good members that no option forbids are valid.
LEMMA GoodMembersAreValid ==
  ASSUME IInv, Read = Keys, Keys \subseteq Nat, GoodLines, ~SaysForbidden,
         NEW t \in Seq(STRING), Section(t) = "types", NEW key \in {"fields", "bitfields"}
  PROVE  /\ ValidMembers(Many(t, key), key = "bitfields")
         /\ key = "bitfields" /\ Many(t, key) # <<>> => EffectivePolicy(t) # "deny"
<1> DEFINE v == Many(t, key)
<1>1. CASE <<t, key>> \notin DOMAIN given
  <2>1. v = <<>>
    BY <1>1 DEF Many
  <2> QED
    BY <2>1 DEF ValidMembers, IsInjective
<1>2. CASE <<t, key>> \in DOMAIN given
  <2>1. PICK i \in Keys : Place(i) = <<t, key>> /\ Known(i) /\ given[<<t, key>>] = Says(i)
    BY <1>2 DEF IInv, GivenIsSaid
  <2>2. TableOf(i) = t /\ file.lines[i].key = key /\ v = Says(i).v
    BY <1>2, <2>1 DEF Place, Many
  <2>3. ~ForbiddenMembers(i)
    BY <2>2 DEF SaysForbidden
  <2>4. GoodMembers(v, key = "bitfields")
    BY <1>2, <2>1, <2>2, RecordedIsGood DEF GoodAs
  <2>5. ASSUME NEW k \in DOMAIN v PROVE ValidDesignator(v[k], key = "bitfields")
    <3>1. ~ForbiddenMember(Designators[v[k]])
      BY <2>2, <2>3 DEF ForbiddenMembers
    <3> QED
      BY <2>4, <3>1, OptionIsSaid DEF ValidDesignator, ForbiddenMember, GoodMembers
  <2>6. ValidMembers(v, key = "bitfields")
    BY <2>4, <2>5 DEF ValidMembers, GoodMembers
  <2>7. key = "bitfields" /\ v # <<>> => EffectivePolicy(t) # "deny"
    BY <2>2, <2>3, PolicyIsSaid, TableOfEntity DEF ForbiddenMembers
  <2> QED
    BY <2>6, <2>7
<1> QED
  BY <1>1, <1>2

\* Types, enums and constants of good lines are valid, unless there is a cause.
LEMMA GoodTypeIsValid ==
  ASSUME IInv, Read = Keys, Keys \subseteq Nat, GoodLines, ~Cause,
         NEW i \in Keys, Mention(i) # None,
         Mention(i) \in Seq(STRING), Section(Mention(i)) = "types"
  PROVE  ValidType(Mention(i))
<1> DEFINE t == Mention(i)
<1>1. Len(t) = 2 /\ t[1] = "types"
  BY TableOfEntity
<1>2. One(t, "c_type", Empty) # Empty
  BY <1>1, HasCType DEF Cause
<1>3. EffectivePolicy(t) \in Policies
  <2>1. One(<<"options">>, "bitfield_policy", "geometry") \in Policies
    BY GoodTopIsValid DEF Cause, ValidTop
  <2> DEFINE own == <<Append(t, "options"), "bitfield_policy">>
  <2>2. own \in DOMAIN given => GoodAs("bitfield_policy", given[own].v)
    BY <1>1, OptionsOfType, RecordedIsGood
  <2> QED
    BY <2>1, <2>2 DEF EffectivePolicy, One, GoodAs
<1>4. ValidMembers(Many(t, "fields"), FALSE)
  BY GoodMembersAreValid DEF Cause
<1>5. Many(t, "bitfields") # <<>> =>
        EffectivePolicy(t) # "deny" /\ ValidMembers(Many(t, "bitfields"), TRUE)
  BY GoodMembersAreValid DEF Cause
<1> QED
  BY <1>2, <1>3, <1>4, <1>5 DEF ValidType

LEMMA GoodEnumIsValid ==
  ASSUME IInv, Read = Keys, Keys \subseteq Nat, GoodLines, ~Cause,
         NEW i \in Keys, Mention(i) # None,
         Mention(i) \in Seq(STRING), Section(Mention(i)) = "enums"
  PROVE  ValidEnum(Mention(i))
<1> DEFINE e == Mention(i)
<1>1. e[1] = "enums"
  BY TableOfEntity
<1>2. One(e, "c_type", Empty) # Empty
  BY <1>1, HasCType DEF Cause
<1>3. IsKnown(e, "values") /\ IsKnown(e, "extract_all")
  BY DEF IsKnown, KeyTypes
<1>4. Extracts(e) <=> ExtractAll(e)
  BY <1>3, LastSaidIsRecorded DEF Extracts, ExtractAll
<1>5. Lists(e) <=> Many(e, "values") # <<>>
  <2>1. ASSUME NEW j \in Keys, Place(j) = <<e, "values">> PROVE Many(e, "values") = Says(j).v
    <3>1. Section(e) \in {"types", "enums"}
      OBVIOUS
    <3> HIDE DEF e
    <3>2. <<e, "values">> \in DOMAIN given /\ given[<<e, "values">>] = Says(j)
      BY <1>3, <2>1, <3>1, OnlyLineIsRecorded
    <3> QED
      BY <3>2 DEF Many
  <2>2. ASSUME Many(e, "values") # <<>>
        PROVE  \E j \in Keys : Place(j) = <<e, "values">>
    BY <2>2 DEF Many, IInv, GivenIsSaid
  <2> QED
    BY <2>1, <2>2 DEF Lists
<1>6. ExtractAll(e) <=> Many(e, "values") = <<>>
  BY <1>1, <1>4, <1>5 DEF Cause, MixesEnum
<1>7. IsInjective(Many(e, "values")) /\ Empty \notin ToSet(Many(e, "values"))
  <2>1. CASE <<e, "values">> \in DOMAIN given
    <3>1. GoodAs("values", given[<<e, "values">>].v)
      BY <2>1, RecordedIsGood
    <3> QED
      BY <2>1, <3>1 DEF GoodAs, Many
  <2>2. CASE <<e, "values">> \notin DOMAIN given
    <3>1. Many(e, "values") = <<>>
      BY <2>2 DEF Many
    <3> QED
      BY <3>1 DEF IsInjective, ToSet
  <2> QED
    BY <2>1, <2>2
<1> QED
  BY <1>2, <1>6, <1>7 DEF ValidEnum

LEMMA GoodEntityIsValid ==
  ASSUME IInv, Read = Keys, Keys \subseteq Nat, GoodLines, ~Cause, NEW a \in DOMAIN order
  PROVE  ValidEntity(order[a])
<1>1. PICK i \in Keys : Mention(i) = order[a] /\ order[a] # None
  BY DEF IInv, OrderIsMentions, FirstMention
<1> DEFINE t == TableOf(i)
           key == file.lines[i].key
           e == Mention(i)
<1>2. t \in Seq(STRING) /\ e = Entity(t, key) /\ e # None
  BY <1>1 DEF IInv, TableIsCurrent, Mention
<1>3. CASE Section(t) \in {"types", "type_options", "enums"}
  <2>1. /\ e \in Seq(STRING) /\ Len(e) = 2
        /\ e[1] = IF Section(t) = "enums" THEN "enums" ELSE "types"
    BY <1>2, <1>3, EntityOfTable
  <2>2. Section(e) = e[1]
    BY <2>1 DEF Section
  <2>3. e[1] = "types" => ValidType(e)
    BY <1>2, <2>1, <2>2, GoodTypeIsValid
  <2>4. e[1] = "enums" => ValidEnum(e)
    BY <1>2, <2>1, <2>2, GoodEnumIsValid
  <2> QED
    BY <1>1, <2>1, <2>3, <2>4 DEF ValidEntity
<1>4. CASE Section(t) \notin {"types", "type_options", "enums"}
  <2>1. t = <<"constants">> /\ Section(t) = "constants" /\ e = <<"constants", key>>
    BY <1>2, <1>4, EntityOfTable
  <2>2. Known(i) /\ Place(i) = <<t, key>>
    BY <2>1 DEF Known, IsKnown, Place
  <2>3. <<t, key>> \in DOMAIN given
    BY <2>2 DEF IInv, GivenIsSaid
  <2>4. given[<<t, key>>].expr # Empty
    BY <2>1, <2>3, RecordedIsGood
  <2>5. ValidConstant(e)
    BY <2>1, <2>4 DEF ValidConstant
  <2> QED
    BY <1>1, <2>1, <2>5 DEF ValidEntity
<1> QED
  BY <1>3, <1>4

\* Behind the last line, a file of good lines is valid unless there is a cause.
LEMMA GoodFileIsValid ==
  ASSUME IInv, pos > Len(file.lines), GoodLines, ~Cause
  PROVE  /\ ValidTop /\ ValidKeys /\ \A a \in DOMAIN order : ValidEntity(order[a])
         /\ file.stem = One(<<>>, "set", Empty)
<1>1. Read = Keys /\ Keys \subseteq Nat
  BY AllIsRead
<1>2. ValidKeys
  <2>1. SaidOption("strict", "true") = "true" => \A i \in Keys : ~Unfamiliar(i)
    BY DEF Cause, SaysForbidden
  <2> QED
    BY <1>1, <2>1, OptionIsSaid DEF ValidKeys, IInv, UnknownIsSaid
<1> QED
  BY <1>1, <1>2, GoodTopIsValid, GoodEntityIsValid DEF Cause

\* Whether lines are good, and whether there is a cause, is a matter of the file.
LEMMA SameCause ==
  ASSUME file' = file
  PROVE  (GoodLines' <=> GoodLines) /\ (Cause' <=> Cause)
<1>1. Keys' = Keys
  BY DEF Keys
<1>2. \A i : TableOf(i)' = TableOf(i)
  BY DEF TableOf
<1>3. \A i : /\ Place(i)' = Place(i) /\ Says(i)' = Says(i) /\ Mention(i)' = Mention(i)
             /\ Known(i)' = Known(i)
  BY <1>2 DEF Place, Says, Mention, Known
<1>4. \A i : Unfamiliar(i)' = Unfamiliar(i)
  BY <1>3 DEF Unfamiliar
<1>5. \A p : IsSaid(p)' = IsSaid(p)
  BY <1>1, <1>3 DEF IsSaid
<1>6. \A p, default : LastSaid(p, default)' = LastSaid(p, default)
  <2>1. \A p : {i \in Keys : Place(i) = p}' = {i \in Keys : Place(i) = p}
    BY <1>1, <1>3
  <2> QED
    BY <1>3, <2>1 DEF LastSaid
<1>7. \A key, default : SaidOption(key, default)' = SaidOption(key, default)
  BY <1>6 DEF SaidOption
<1>8. \A t : SaidPolicy(t)' = SaidPolicy(t)
  BY <1>6, <1>7 DEF SaidPolicy
<1>9. \A comps : ForbiddenMember(comps)' = ForbiddenMember(comps)
  BY <1>7 DEF ForbiddenMember
<1>10. \A i : ForbiddenMembers(i)' = ForbiddenMembers(i)
  BY <1>2, <1>3, <1>8, <1>9 DEF ForbiddenMembers
<1>11. SaysForbidden' = SaysForbidden
  BY <1>1, <1>2, <1>4, <1>7, <1>10 DEF SaysForbidden
<1>12. SaysTwice' = SaysTwice
  BY <1>1, <1>3 DEF SaysTwice
<1>13. LeavesOut' = LeavesOut
  BY <1>1, <1>3, <1>5 DEF LeavesOut
<1>14. MixesEnum' = MixesEnum
  <2>1. \A e : Lists(e)' = Lists(e) /\ Extracts(e)' = Extracts(e)
    BY <1>1, <1>3, <1>6 DEF Lists, Extracts
  <2> QED
    BY <1>1, <1>3, <2>1 DEF MixesEnum
<1>15. GoodLines' = GoodLines
  <2>1. \A key, v : GoodAs(key, v)' = GoodAs(key, v)
    BY DEF GoodAs
  <2>2. \A i : GoodKey(i)' = GoodKey(i)
    BY <1>2, <1>3, <2>1 DEF GoodKey
  <2> QED
    BY <1>1, <1>3, <2>2 DEF GoodLines
<1> QED
  BY <1>11, <1>12, <1>13, <1>14, <1>15 DEF Cause

\* The order in which a file says what it says, and the number of times it opens
\* a table, is no reason to refuse it.
THEOREM OrderIsNeverTheCause == Spec => []OrderIsNoCause
<1>1. Init => OrderIsNoCause
  BY DEF Init, OrderIsNoCause
<1>2. IInv /\ OrderIsNoCause /\ [Next]_vars => OrderIsNoCause'
  <2> SUFFICES ASSUME IInv, OrderIsNoCause, [Next]_vars, pc' = "rejected", GoodLines'
               PROVE  Cause'
    BY DEF OrderIsNoCause, Cause
  <2>1. file' = file
    BY DEF Next, vars, BadLine, ReadHeader, ReadUnknown, ReadKey, Validate, Stop
  <2>2. GoodLines
    BY <2>1, SameCause
  <2> SUFFICES Cause
    BY <2>1, SameCause
  <2>3. CASE BadLine
    <3>1. pos \in DOMAIN file.lines /\ file.lines[pos].kind = "error"
      BY <2>3, LinesOfFile DEF BadLine, Reading, Line, IInv, TypeInv
    <3> QED
      BY <2>2, <3>1 DEF GoodLines
  <2>4. CASE ReadKey
    <3>1. Reading("key") /\ IsKnown(table, Line.key) /\ pc = "read"
      BY <2>4 DEF ReadKey, Reading
    <3>2. Repeated(Line.key) \/ ~WellTyped(Line.key, Line.value)
      BY <2>4, <3>1 DEF ReadKey
    <3> QED
      BY <2>2, <3>1, <3>2, RefusedKey DEF Cause
  <2>5. CASE Validate
    <3>1. pos > Len(file.lines)
      BY <2>5 DEF Validate
    <3>2. ~(/\ ValidTop /\ ValidKeys
            /\ \A a \in DOMAIN order : ValidEntity(order[a])
            /\ file.stem = One(<<>>, "set", Empty))
      BY <2>5 DEF Validate, Stop
    <3> QED
      BY <2>2, <3>1, <3>2, GoodFileIsValid
  <2>6. CASE UNCHANGED vars
    BY <2>2, <2>6 DEF vars, OrderIsNoCause, Cause
  <2>7. CASE ReadHeader \/ ReadUnknown
    BY <2>7 DEF ReadHeader, ReadUnknown, Reading
  <2> QED
    BY <2>3, <2>4, <2>5, <2>6, <2>7 DEF Next
<1> QED
  BY <1>1, <1>2, InitInv, StepInv, PTL DEF Spec

\* A value that has been read for a type or an enum stays to the end.
THEOREM ValuesOfTypesStay == Spec => NeverReplaced
<1>1. [Next]_vars => (\A p \in DOMAIN given :
        Section(p[1]) \in {"types", "type_options", "enums"} => given'[p] = given[p])
  <2> SUFFICES ASSUME [Next]_vars, NEW p \in DOMAIN given,
                      Section(p[1]) \in {"types", "type_options", "enums"}
               PROVE  given'[p] = given[p]
    OBVIOUS
  <2>1. CASE ReadKey
    <3>1. CASE given' = given
      BY <3>1
    <3>2. CASE given' = Assigned(<<table, Line.key>>, Line.value) /\ ~Repeated(Line.key)
      <4>1. p # <<table, Line.key>>
        <5>1. ASSUME p = <<table, Line.key>> PROVE FALSE
          <6>1. p[1] = table
            BY <5>1
          <6>2. Section(table) \notin Overwritten /\ Section(table) # "constants"
            BY <6>1 DEF Overwritten
          <6> QED
            BY <3>2, <5>1, <6>2 DEF Repeated
        <5> QED
          BY <5>1
      <4> QED
        BY <3>2, <4>1 DEF Assigned
    <3> QED
      BY <2>1, <3>1, <3>2 DEF ReadKey, Stop
  <2>2. CASE given' = given
    BY <2>2
  <2> QED
    BY <2>1, <2>2 DEF Next, vars, BadLine, ReadHeader, ReadUnknown, Validate, Stop
<1> QED
  BY <1>1, PTL DEF Spec, NeverReplaced

-----------------------------------------------------------------------------
(* The script                                                              *)

Lines == {"", "begin", "hook", "end"}
Contents == [version : Versions, whole : BOOLEAN, tail : Seq(Lines)]

ScriptTypeOK ==
  /\ overlay \in {"none", "part", "whole"}
  /\ tree \in [Script!Patched -> Contents]
  /\ bak \in [Script!Patched -> Contents \cup {None}]
  /\ config \in {"none", "plain", "asked", "settled"}
  /\ enable \in BOOLEAN /\ unread \in BOOLEAN
  /\ at \in {"idle", "copy", "grep", "backup", "fill", "append", "begin", "hook", "end",
             "config", "settle", "done"}
  /\ patched \in Script!Patched

\* No file has two hooks and no backup has one.
FewHooks ==
  /\ \A f \in Script!Patched : \A i, j \in Script!Hooks(tree[f]) : i = j
  /\ \A f \in Script!Patched : bak[f] # None => Script!Hooks(bak[f]) = {}

\* The commands that come between the grep of a file and the echo of its hook.
Hooking == {"backup", "fill", "append", "begin", "hook"}

\* What a running script has found out or done.
ScriptKnows ==
  /\ at \in Hooking => Script!Hooks(tree[patched]) = {}
  /\ at = "end" => Script!Hooks(tree[patched]) # {}
  /\ at \in Hooking \cup {"grep", "end"} /\ patched = "Kconfig" => Script!Hooks(tree["Makefile"]) # {}
  /\ at \in {"config", "settle", "done"} => \A f \in Script!Patched : Script!Hooks(tree[f]) # {}
  /\ at \notin {"idle", "copy"} => overlay = "whole" \/ unread
  /\ at = "done" /\ config = "plain" => ~enable \/ unread

ScriptInv == ScriptTypeOK /\ FewHooks /\ ScriptKnows

ScriptIInv == at # "none" => ScriptInv

-----------------------------------------------------------------------------
\* Where a line is appended, the hooks are where they were, and there is one
\* more if the line is one.
LEMMA HooksOfAppend ==
  ASSUME NEW c \in Contents, NEW line \in Lines,
         NEW d, d = [c EXCEPT !.tail = Append(@, line)]
  PROVE  /\ d \in Contents
         /\ Script!Hooks(d) = Script!Hooks(c) \cup (IF line = "hook" THEN {Len(c.tail) + 1} ELSE {})
<1>1. d.tail = Append(c.tail, line) /\ c.tail \in Seq(Lines)
  BY DEF Contents
<1>2. /\ d.tail \in Seq(Lines) /\ Len(d.tail) = Len(c.tail) + 1
      /\ d.tail[Len(c.tail) + 1] = line
      /\ \A i \in 1..Len(c.tail) : d.tail[i] = c.tail[i]
  BY <1>1
<1>3. d \in Contents
  BY <1>2 DEF Contents
<1>4. DOMAIN c.tail = 1..Len(c.tail) /\ DOMAIN d.tail = 1..(Len(c.tail) + 1)
      /\ Len(c.tail) \in Nat
  BY <1>1, <1>2
<1> QED
  BY <1>2, <1>3, <1>4 DEF Script!Hooks

\* grep finds what Hooks says.
LEMMA GrepFindsHooks ==
  ASSUME ScriptTypeOK, NEW f \in Script!Patched
  PROVE  Script!Hooked(f) <=> Script!Hooks(tree[f]) # {}
<1>1. tree[f].tail \in Seq(Lines)
  BY DEF ScriptTypeOK, Contents
<1> QED
  BY <1>1 DEF Script!Hooked, Script!Hooks, Script!Contains

\* The kernel's own files have no hook.
LEMMA PristineIsContents ==
  \A v \in Versions : Script!Pristine(v) \in Contents /\ Script!Hooks(Script!Pristine(v)) = {}
  BY DEF Script!Pristine, Contents, Script!Hooks

\* A backup that has been opened and not filled is a file too, and empty.
LEMMA OpenedIsContents ==
  ASSUME NEW c \in Contents
  PROVE  LET opened == [c EXCEPT !.whole = FALSE, !.tail = <<>>]
         IN  opened \in Contents /\ opened.tail = <<>>
<1> DEFINE half == [c EXCEPT !.whole = FALSE]
           opened == [c EXCEPT !.whole = FALSE, !.tail = <<>>]
<1>1. opened = [half EXCEPT !.tail = <<>>]
  OBVIOUS
<1>2. half \in Contents
  BY DEF Contents
<1>3. <<>> \in Seq(Lines)
  OBVIOUS
<1> QED
  BY <1>1, <1>2, <1>3 DEF Contents

\* The invariant holds of a tree the script has never been run on.
LEMMA InitScript == Script!Init => ScriptInv
<1> SUFFICES ASSUME Script!Init PROVE ScriptInv
  OBVIOUS
<1>1. PICK v \in Versions : tree = [f \in Script!Patched |-> Script!Pristine(v)]
  BY DEF Script!Init
<1>2. ScriptTypeOK
  BY <1>1, PristineIsContents DEF Script!Init, ScriptTypeOK, Script!Patched
<1> QED
  BY <1>1, <1>2, PristineIsContents DEF Script!Init, ScriptInv, FewHooks, ScriptKnows, Hooking

\* No command of the script, no stop and no chore breaks the invariant.
LEMMA StepScript == ScriptInv /\ [Script!Next]_apply => ScriptInv'
<1> SUFFICES ASSUME ScriptTypeOK, FewHooks, ScriptKnows, [Script!Next]_apply PROVE ScriptInv'
  BY DEF ScriptInv
<1> USE DEF ScriptInv
<1>1. CASE UNCHANGED apply
  BY <1>1 DEF apply, ScriptTypeOK, FewHooks, ScriptKnows
<1>2. CASE Script!Start
  BY <1>2 DEF Script!Start, ScriptTypeOK, FewHooks, ScriptKnows, Hooking
<1>3. CASE Script!CopyOverlay
  BY <1>3 DEF Script!CopyOverlay, ScriptTypeOK, Script!Patched, FewHooks, ScriptKnows, Hooking
<1>4. CASE Script!GrepHook
  <2>1. Script!Hooked(patched) <=> Script!Hooks(tree[patched]) # {}
    BY GrepFindsHooks DEF ScriptTypeOK
  <2>2. CASE Script!Hooked(patched)
    <3>1. Script!Hooks(tree[patched]) # {}
      BY <2>1, <2>2
    <3>2. CASE patched = "Makefile"
      BY <1>4, <2>2, <3>1, <3>2 DEF Script!GrepHook, Script!NextFile, ScriptTypeOK, Script!Patched, FewHooks, ScriptKnows, Hooking
    <3>3. CASE patched = "Kconfig"
      BY <1>4, <2>2, <3>1, <3>3 DEF Script!GrepHook, Script!NextFile, ScriptTypeOK, Script!Patched, FewHooks, ScriptKnows, Hooking
    <3> QED
      BY <3>2, <3>3 DEF ScriptTypeOK, Script!Patched
  <2>3. CASE ~Script!Hooked(patched)
    <3>1. Script!Hooks(tree[patched]) = {} /\ at' \in {"backup", "append"} /\ patched' = patched
      BY <1>4, <2>1, <2>3 DEF Script!GrepHook
    <3> QED
      BY <1>4, <3>1 DEF Script!GrepHook, ScriptTypeOK, FewHooks, ScriptKnows, Hooking
  <2> QED
    BY <2>2, <2>3
<1>5. CASE Script!OpenBackup
  <2>1. bak' \in [Script!Patched -> Contents \cup {None}] /\ Script!Hooks(bak'[patched]) = {}
        /\ \A f \in Script!Patched \ {patched} : bak'[f] = bak[f]
    <3> DEFINE opened == [tree[patched] EXCEPT !.whole = FALSE, !.tail = <<>>]
    <3>1. opened \in Contents /\ opened.tail = <<>>
      BY OpenedIsContents DEF ScriptTypeOK
    <3>2. Script!Hooks(opened) = {}
      BY <3>1 DEF Script!Hooks
    <3>3. bak' = [bak EXCEPT ![patched] = opened]
      BY <1>5 DEF Script!OpenBackup
    <3> HIDE DEF opened
    <3> QED
      BY <3>1, <3>2, <3>3 DEF ScriptTypeOK
  <2>2. FewHooks'
    BY <1>5, <2>1 DEF Script!OpenBackup, ScriptTypeOK, FewHooks
  <2> QED
    BY <1>5, <2>1, <2>2 DEF Script!OpenBackup, ScriptTypeOK, ScriptKnows, Hooking
<1>6. CASE Script!FillBackup
  <2>1. bak' \in [Script!Patched -> Contents \cup {None}] /\ Script!Hooks(bak'[patched]) = {}
        /\ \A f \in Script!Patched \ {patched} : bak'[f] = bak[f]
    BY <1>6 DEF Script!FillBackup, ScriptTypeOK, ScriptKnows, Hooking
  <2>2. FewHooks'
    BY <1>6, <2>1 DEF Script!FillBackup, ScriptTypeOK, FewHooks
  <2> QED
    BY <1>6, <2>1, <2>2 DEF Script!FillBackup, ScriptTypeOK, ScriptKnows, Hooking
<1>7. CASE Script!AppendLine
  <2>1. at \in {"append", "begin", "hook", "end"} /\ Script!Echoes[at] \in Lines
        /\ (Script!Echoes[at] = "hook" <=> at = "hook")
    <3>1. at \in {"append", "begin", "hook", "end"}
      BY <1>7 DEF Script!AppendLine, Script!Echoes
    <3>2. /\ Script!Echoes["append"] = "" /\ Script!Echoes["begin"] = "begin"
          /\ Script!Echoes["hook"] = "hook" /\ Script!Echoes["end"] = "end"
      BY DEF Script!Echoes
    <3> QED
      BY <3>1, <3>2 DEF Lines
  <2>2. /\ tree'[patched] = [tree[patched] EXCEPT !.tail = Append(@, Script!Echoes[at])]
        /\ \A f \in Script!Patched \ {patched} : tree'[f] = tree[f]
    BY <1>7 DEF Script!AppendLine, ScriptTypeOK
  <2>3. /\ tree'[patched] \in Contents
        /\ Script!Hooks(tree'[patched])
             = Script!Hooks(tree[patched]) \cup (IF at = "hook" THEN {Len(tree[patched].tail) + 1} ELSE {})
    BY <2>1, <2>2, HooksOfAppend DEF ScriptTypeOK
  <2>4. tree' \in [Script!Patched -> Contents]
    BY <1>7, <2>2, <2>3 DEF Script!AppendLine, ScriptTypeOK
  <2>5. at' = IF at = "append" THEN "begin" ELSE IF at = "begin" THEN "hook"
              ELSE IF at = "hook" THEN "end" ELSE IF patched = "Makefile" THEN "grep" ELSE "config"
    BY <1>7, <2>1 DEF Script!AppendLine, Script!After, Script!NextFile
  <2>6. ScriptTypeOK'
    BY <1>7, <2>1, <2>4, <2>5 DEF Script!AppendLine, Script!NextFile, ScriptTypeOK, Script!Patched
  <2>7. FewHooks'
    <3>1. \A f \in Script!Patched \ {patched} : Script!Hooks(tree'[f]) = Script!Hooks(tree[f])
      BY <2>2 DEF Script!Hooks
    <3>2. \A i, j \in Script!Hooks(tree'[patched]) : i = j
      <4>1. CASE at = "hook"
        BY <2>3, <4>1 DEF ScriptKnows, Hooking
      <4>2. CASE at # "hook"
        BY <2>3, <4>2 DEF FewHooks, ScriptTypeOK
      <4> QED
        BY <4>1, <4>2
    <3> QED
      BY <1>7, <3>1, <3>2 DEF Script!AppendLine, FewHooks
  <2>8. ScriptKnows'
    BY <1>7, <2>1, <2>2, <2>3, <2>5 DEF Script!AppendLine, Script!NextFile, ScriptTypeOK, Script!Patched, ScriptKnows, Hooking
  <2> QED
    BY <2>6, <2>7, <2>8
<1>8. CASE Script!EnableConfig
  BY <1>8 DEF Script!EnableConfig, ScriptTypeOK, FewHooks, ScriptKnows, Hooking
<1>9. CASE Script!SettleConfig
  <2>1. Script!Declared <=> overlay = "whole"
    BY <1>9, GrepFindsHooks DEF Script!SettleConfig, Script!Declared, ScriptKnows, Script!Patched
  <2> QED
    BY <1>9, <2>1 DEF Script!SettleConfig, ScriptTypeOK, FewHooks, ScriptKnows, Hooking
<1>10. CASE Script!Stop
  BY <1>10 DEF Script!Stop, ScriptTypeOK, FewHooks, ScriptKnows, Hooking
<1>11. CASE Script!CheckOut
  <2>1. PICK v \in Versions : tree' = [f \in Script!Patched |-> Script!Pristine(v)]
    BY <1>11 DEF Script!CheckOut
  <2> QED
    BY <1>11, <2>1, PristineIsContents DEF Script!CheckOut, Script!Chore, ScriptTypeOK, FewHooks, ScriptKnows, Hooking
<1>12. CASE Script!Clean
  BY <1>12 DEF Script!Clean, Script!Chore, ScriptTypeOK, FewHooks, ScriptKnows, Hooking
<1>13. CASE Script!Restore
  <2>1. PICK f \in Script!Patched : bak[f] # None /\ tree' = [tree EXCEPT ![f] = bak[f]]
    BY <1>13 DEF Script!Restore
  <2>2. tree' \in [Script!Patched -> Contents] /\ Script!Hooks(tree'[f]) = {}
        /\ \A g \in Script!Patched \ {f} : tree'[g] = tree[g]
    BY <2>1 DEF ScriptTypeOK, FewHooks
  <2> QED
    BY <1>13, <2>2 DEF Script!Restore, Script!Chore, ScriptTypeOK, FewHooks, ScriptKnows, Hooking
<1> QED
  BY <1>1, <1>2, <1>3, <1>4, <1>5, <1>6, <1>7, <1>8, <1>9, <1>10, <1>11, <1>12, <1>13
     DEF Script!Next, Script!Run

\* No step of any of the tools breaks it.
LEMMA ScriptIsInductive ==
  /\ HostInit => ScriptIInv
  /\ ScriptIInv /\ [HostNext]_<<vars, dep, apply>> => ScriptIInv'
<1>1. HostInit => ScriptIInv
  BY InitScript DEF HostInit, NoTree, ScriptIInv
<1>2. ASSUME ScriptIInv, HostNext \/ UNCHANGED <<vars, dep, apply>>, at' # "none"
      PROVE  ScriptInv'
  <2>1. (at # "none" /\ Script!Next) \/ UNCHANGED apply
    BY <1>2 DEF HostNext
  <2>2. at # "none"
    BY <1>2, <2>1 DEF apply
  <2> QED
    BY <1>2, <2>1, <2>2, StepScript DEF ScriptIInv
<1> QED
  BY <1>1, <1>2 DEF ScriptIInv

\* However often the script is run, whatever stopped the runs before and was
\* done to the tree between them, no file is hooked twice, a run that ends well
\* has done all it was to do, and restoring a backup takes the hook out.
THEOREM AlwaysHookedOnce == HostSpec => []HookedOnce
<1>1. ScriptIInv => HookedOnce
  BY DEF ScriptIInv, ScriptInv, FewHooks, ScriptKnows, HookedOnce, Script!HookedOnce
<1> QED
  BY <1>1, ScriptIsInductive, PTL DEF HostSpec

-----------------------------------------------------------------------------
(* Induction over numbers, and sequences of whatever they hold             *)

\* Every set of numbers that is not empty has a least one.
LEMMA LeastNumber ==
  ASSUME NEW T, T \subseteq Nat, T # {}
  PROVE  \E n \in T : \A k \in T : n <= k
<1> DEFINE upto(n) == 1..n
           U == {upto(n) : n \in T}
<1>1. \A n \in Nat : upto(n) \in FiniteSubsetsOf(Nat)
  <2> SUFFICES ASSUME NEW n \in Nat PROVE upto(n) \in FiniteSubsetsOf(Nat)
    OBVIOUS
  <2>1. IsFiniteSet(1..n)
    BY FS_Interval
  <2> QED
    BY <2>1 DEF FiniteSubsetsOf
<1>2. U \subseteq FiniteSubsetsOf(Nat) /\ U # {}
  BY <1>1
<1>3. IsWellFoundedOn(StrictSubsetOrdering(Nat), FiniteSubsetsOf(Nat))
  BY FS_StrictSubsetOrderingWellFounded
<1> HIDE DEF U
<1>4. PICK u \in U : \A v \in U : <<v, u>> \notin StrictSubsetOrdering(Nat)
  BY <1>2, <1>3, WFMin
<1>5. PICK n \in T : u = upto(n)
  BY DEF U
<1>6. ASSUME NEW k \in T, ~(n <= k) PROVE FALSE
  <2>1. upto(k) \subseteq upto(n) /\ upto(k) # upto(n)
    <3>1. n \in upto(n) /\ n \notin upto(k)
      BY <1>6
    <3> QED
      BY <1>6, <3>1
  <2>2. upto(k) \in SUBSET Nat /\ upto(n) \in SUBSET Nat
    OBVIOUS
  <2>3. <<upto(k), upto(n)>> \in StrictSubsetOrdering(Nat)
    BY <2>1, <2>2 DEF StrictSubsetOrdering
  <2> QED
    BY <1>4, <1>5, <2>3 DEF U
<1> QED
  BY <1>6

\* Induction over the numbers of a set.
LEMMA NumberInduction ==
  ASSUME NEW S, 0 \in S, \A n \in Nat : n \in S => n + 1 \in S
  PROVE  Nat \subseteq S
<1> DEFINE T == Nat \ S
<1> SUFFICES ASSUME T # {} PROVE FALSE
  OBVIOUS
<1>1. PICK n \in T : \A k \in T : n <= k
  BY LeastNumber
<1>2. n \in Nat /\ n # 0 /\ n \notin S
  OBVIOUS
<1>3. n - 1 \in Nat /\ ~(n <= n - 1) /\ (n - 1) + 1 = n
  BY <1>2
<1>4. n - 1 \in S
  BY <1>1, <1>3
<1> QED
  BY <1>2, <1>3, <1>4

IsSeq(s) == s \in Seq(ToSet(s))

LEMMA SeqParts ==
  ASSUME NEW s, IsSeq(s)
  PROVE  /\ Len(s) \in Nat /\ DOMAIN s = 1..Len(s) /\ s = [i \in 1..Len(s) |-> s[i]]
         /\ \A i \in 1..Len(s) : s[i] \in ToSet(s)
<1> DEFINE S == ToSet(s)
<1>1. s \in Seq(S)
  BY DEF IsSeq
<1> HIDE DEF S
<1>2. /\ Len(s) \in Nat /\ DOMAIN s = 1..Len(s) /\ s = [i \in 1..Len(s) |-> s[i]]
      /\ \A i \in 1..Len(s) : s[i] \in S
  BY <1>1
<1> QED
  BY <1>2 DEF S

LEMMA FunctionIsSeq ==
  ASSUME NEW n \in Nat, NEW s, s = [i \in 1..n |-> s[i]]
  PROVE  IsSeq(s) /\ Len(s) = n /\ DOMAIN s = 1..n
<1> DEFINE S == {s[i] : i \in 1..n}
<1>1. DOMAIN s = 1..n /\ \A i \in 1..n : s[i] \in S
  OBVIOUS
<1>2. S = ToSet(s)
  BY <1>1 DEF ToSet
<1> HIDE DEF S
<1>3. s \in Seq(S) /\ Len(s) = n
  BY <1>1
<1> QED
  BY <1>1, <1>2, <1>3 DEF IsSeq

LEMMA SeqOfAny ==
  ASSUME NEW S, NEW s \in Seq(S)
  PROVE  IsSeq(s) /\ \A i \in 1..Len(s) : s[i] \in S
<1>1. Len(s) \in Nat /\ s = [i \in 1..Len(s) |-> s[i]] /\ \A i \in 1..Len(s) : s[i] \in S
  OBVIOUS
<1> QED
  BY <1>1, FunctionIsSeq

\* What a concatenation holds.
LEMMA ConcatGives ==
  ASSUME NEW s, NEW t, IsSeq(s), IsSeq(t)
  PROVE  /\ IsSeq(s \o t) /\ Len(s \o t) = Len(s) + Len(t)
         /\ \A i \in 1..Len(s) : (s \o t)[i] = s[i]
         /\ \A i \in 1..Len(t) : (s \o t)[Len(s) + i] = t[i]
<1> DEFINE S == ToSet(s) \cup ToSet(t)
           A == ToSet(s)
           B == ToSet(t)
           c == s \o t
<1>1. s \in Seq(S) /\ t \in Seq(S)
  <2>1. s \in Seq(A) /\ A \subseteq S /\ t \in Seq(B) /\ B \subseteq S
    BY DEF IsSeq
  <2> HIDE DEF A, B, S
  <2> QED
    BY <2>1
<1> HIDE DEF S
<1>2. /\ c \in Seq(S) /\ Len(c) = Len(s) + Len(t)
      /\ \A i \in 1..Len(s) : c[i] = s[i]
      /\ \A i \in 1..Len(t) : c[Len(s) + i] = t[i]
  BY <1>1
<1>3. IsSeq(c)
  BY <1>2, SeqOfAny
<1> QED
  BY <1>2, <1>3

\* Sequences of length one.
LEMMA OneIsSeq ==
  ASSUME NEW x
  PROVE  IsSeq(<<x>>) /\ Len(<<x>>) = 1 /\ <<x>>[1] = x
<1>1. Len(<<x>>) = 1 /\ <<x>>[1] = x /\ <<x>> \in Seq({x})
  OBVIOUS
<1> QED
  BY <1>1, SeqOfAny

LEMMA NoneIsSeq == IsSeq(<<>>) /\ Len(<<>>) = 0
<1>1. <<>> \in Seq({}) /\ Len(<<>>) = 0
  OBVIOUS
<1> QED
  BY <1>1, SeqOfAny

\* Two sequences of the same things in the same places are one.
LEMMA SameSeq ==
  ASSUME NEW s, NEW t, IsSeq(s), IsSeq(t), Len(s) = Len(t), \A i \in 1..Len(s) : s[i] = t[i]
  PROVE  s = t
<1>1. Len(s) \in Nat /\ s = [i \in 1..Len(s) |-> s[i]] /\ t = [i \in 1..Len(s) |-> t[i]]
  BY SeqParts
<1> QED
  BY <1>1, Zenon

FlattenOf(u, seqs, n) ==
  u = [i \in 1..n |-> IF i = 1 THEN seqs[i] ELSE u[i - 1] \o seqs[i]]

\* The recursion of FlattenSeq defines a function, however many sequences there are.
LEMMA FlattensExist ==
  ASSUME NEW seqs, NEW n \in Nat, n # 0
  PROVE  \E u : FlattenOf(u, seqs, n)
<1> DEFINE S == {k \in Nat : \E u : FlattenOf(u, seqs, k + 1)}
<1>1. 0 \in S
  <2>1. FlattenOf([i \in {1} |-> seqs[1]], seqs, 0 + 1)
    <3>1. 1..(0 + 1) = {1}
      OBVIOUS
    <3> QED
      BY <3>1 DEF FlattenOf
  <2> QED
    BY <2>1
<1>2. ASSUME NEW k \in Nat, k \in S PROVE k + 1 \in S
  <2> DEFINE m == k + 1
  <2>1. PICK u : FlattenOf(u, seqs, m)
    BY <1>2
  <2> DEFINE v == [j \in 1..(m + 1) |-> IF j = m + 1 THEN u[m] \o seqs[m + 1] ELSE u[j]]
  <2>2. \A j \in 1..m : u[j] = IF j = 1 THEN seqs[j] ELSE u[j - 1] \o seqs[j]
    BY <2>1, Zenon DEF FlattenOf
  <2>3. ASSUME NEW j \in 1..(m + 1)
        PROVE  v[j] = IF j = 1 THEN seqs[j] ELSE v[j - 1] \o seqs[j]
    <3>1. CASE j = m + 1
      <4>1. j # 1 /\ j - 1 = m /\ m \in 1..(m + 1) /\ m # m + 1
        BY <3>1
      <4>2. v[j] = u[m] \o seqs[j]
        <5> HIDE DEF m
        <5> QED
          BY <3>1
      <4>3. v[m] = u[m]
        BY <4>1
      <4> QED
        BY <4>1, <4>2, <4>3
    <3>2. CASE j # m + 1
      <4>1. j \in 1..m
        BY <3>2
      <4>2. v[j] = u[j]
        BY <3>2
      <4>3. j # 1 => j - 1 \in 1..(m + 1) /\ j - 1 # m + 1
        BY <4>1
      <4>4. j # 1 => v[j - 1] = u[j - 1]
        BY <4>3
      <4> HIDE DEF v
      <4> QED
        BY <4>1, <4>2, <4>4, <2>2
    <3> QED
      BY <3>1, <3>2
  <2>4. v = [j \in 1..(m + 1) |-> v[j]]
    OBVIOUS
  <2> HIDE DEF v
  <2>5. FlattenOf(v, seqs, m + 1)
    BY <2>3, <2>4 DEF FlattenOf
  <2> QED
    BY <2>5
<1> HIDE DEF S
<1>3. n - 1 \in S
  <2>1. Nat \subseteq S
    BY <1>1, <1>2, NumberInduction
  <2> QED
    BY <2>1
<1>4. (n - 1) + 1 = n
  OBVIOUS
<1> QED
  BY <1>3, <1>4 DEF S

LEMMA FlattenIsStepwise ==
  ASSUME NEW seqs, Len(seqs) \in Nat, Len(seqs) # 0
  PROVE  \E u : FlattenOf(u, seqs, Len(seqs)) /\ Dep!FlattenSeq(seqs) = u[Len(seqs)]
<1>1. (CHOOSE u : FlattenOf(u, seqs, Len(seqs)))[Len(seqs)] = Dep!FlattenSeq(seqs)
  BY DEF Dep!FlattenSeq, FlattenOf
<1>2. FlattenOf(CHOOSE u : FlattenOf(u, seqs, Len(seqs)), seqs, Len(seqs))
  BY FlattensExist
<1> QED
  BY <1>1, <1>2

-----------------------------------------------------------------------------
(* What the text of a depfile is read as                                   *)

ReadingOf(r, s, t, n) ==
  r = [k \in 0..n |-> IF k = 0 THEN s ELSE Dep!Taken(r[k - 1], t[k])]

\* The recursion of Read defines a function, however long the text is.
LEMMA ReadingsExist ==
  ASSUME NEW s, NEW t, NEW n \in Nat
  PROVE  \E r : ReadingOf(r, s, t, n)
<1> DEFINE S == {k \in Nat : \E r : ReadingOf(r, s, t, k)}
<1>1. 0 \in S
  <2>1. ReadingOf([k \in {0} |-> s], s, t, 0)
    <3>1. 0..0 = {0}
      OBVIOUS
    <3> QED
      BY <3>1 DEF ReadingOf
  <2> QED
    BY <2>1
<1>2. ASSUME NEW k \in Nat, k \in S PROVE k + 1 \in S
  <2>1. PICK r : ReadingOf(r, s, t, k)
    BY <1>2
  <2> DEFINE v == [j \in 0..(k + 1) |-> IF j = k + 1 THEN Dep!Taken(r[k], t[k + 1]) ELSE r[j]]
  <2>2. \A j \in 0..k : r[j] = IF j = 0 THEN s ELSE Dep!Taken(r[j - 1], t[j])
    BY <2>1, Zenon DEF ReadingOf
  <2>3. ASSUME NEW j \in 0..(k + 1)
        PROVE  v[j] = IF j = 0 THEN s ELSE Dep!Taken(v[j - 1], t[j])
    <3>1. CASE j = k + 1
      <4>1. v[j] = Dep!Taken(r[k], t[j]) /\ j # 0 /\ j - 1 = k /\ k \in 0..(k + 1) /\ k # k + 1
        BY <3>1
      <4>2. v[k] = r[k]
        BY <4>1
      <4> QED
        BY <4>1, <4>2
    <3>2. CASE j # k + 1
      <4>1. j \in 0..k
        BY <3>2
      <4>2. v[j] = r[j]
        BY <3>2
      <4>3. j # 0 => j - 1 \in 0..(k + 1) /\ j - 1 # k + 1
        BY <4>1
      <4>4. j # 0 => v[j - 1] = r[j - 1]
        BY <4>3
      <4> HIDE DEF v
      <4> QED
        BY <4>1, <4>2, <4>4, <2>2
    <3> QED
      BY <3>1, <3>2
  <2>4. v = [j \in 0..(k + 1) |-> v[j]]
    OBVIOUS
  <2> HIDE DEF v
  <2>5. ReadingOf(v, s, t, k + 1)
    BY <2>3, <2>4 DEF ReadingOf
  <2> QED
    BY <2>5
<1> HIDE DEF S
<1>3. Nat \subseteq S
  BY <1>1, <1>2, NumberInduction
<1> QED
  BY <1>3 DEF S

\* r is what is known behind each piece.
GoesOver(r, t, n) == \A k \in 1..n : r[k] = Dep!Taken(r[k - 1], t[k])

IsReading(r, s, t) ==
  r[0] = s /\ r[Len(t)] = Dep!Read(s, t) /\ GoesOver(r, t, Len(t))

LEMMA ReadIsStepwise ==
  ASSUME NEW s, NEW t, Len(t) \in Nat
  PROVE  \E r : IsReading(r, s, t)
<1> DEFINE n == Len(t)
           r == CHOOSE q : ReadingOf(q, s, t, n)
<1>1. ReadingOf(r, s, t, n)
  BY ReadingsExist
<1>2. Dep!Read(s, t) = r[n]
  BY DEF Dep!Read, ReadingOf
<1> HIDE DEF r
<1>3. \A k \in 0..n : r[k] = IF k = 0 THEN s ELSE Dep!Taken(r[k - 1], t[k])
  BY <1>1, Zenon DEF ReadingOf
<1> QED
  BY <1>2, <1>3 DEF IsReading, GoesOver

\* Two readings that begin in the same state and go over the same pieces agree.
LEMMA ReadingsAgree ==
  ASSUME NEW r, NEW q, NEW t, NEW m \in Nat,
         r[0] = q[0], GoesOver(r, t, m), GoesOver(q, t, m)
  PROVE  r[m] = q[m]
<1> DEFINE S == {k \in Nat : k <= m => r[k] = q[k]}
<1>1. 0 \in S
  OBVIOUS
<1>2. ASSUME NEW k \in Nat, k \in S PROVE k + 1 \in S
  <2> SUFFICES ASSUME k + 1 <= m PROVE r[k + 1] = q[k + 1]
    OBVIOUS
  <2>1. r[k] = q[k]
    BY <1>2
  <2> DEFINE l == k + 1
  <2>2. l \in 1..m /\ l - 1 = k
    OBVIOUS
  <2> HIDE DEF l
  <2>3. r[l] = Dep!Taken(r[l - 1], t[l]) /\ q[l] = Dep!Taken(q[l - 1], t[l])
    BY <2>2, Zenon DEF GoesOver
  <2>4. r[l] = q[l]
    BY <2>1, <2>2, <2>3, Zenon
  <2> QED
    BY <2>4 DEF l
<1> HIDE DEF S
<1>3. m \in S
  BY <1>1, <1>2, NumberInduction
<1> QED
  BY <1>3 DEF S

\* What is read behind a text goes on from what was known behind it.
LEMMA ReadConcat ==
  ASSUME NEW s, NEW a, NEW b, IsSeq(a), IsSeq(b)
  PROVE  Dep!Read(s, a \o b) = Dep!Read(Dep!Read(s, a), b)
<1> DEFINE c == a \o b
<1>1. /\ IsSeq(c) /\ Len(c) = Len(a) + Len(b)
      /\ \A i \in 1..Len(a) : c[i] = a[i]
      /\ \A i \in 1..Len(b) : c[Len(a) + i] = b[i]
  BY ConcatGives
<1>2. Len(a) \in Nat /\ Len(b) \in Nat /\ Len(c) \in Nat
  BY <1>1, SeqParts
<1> HIDE DEF c
<1>3. PICK r : IsReading(r, s, c)
  BY <1>2, ReadIsStepwise
<1>4. PICK p : IsReading(p, s, a)
  BY <1>2, ReadIsStepwise
<1>5. PICK q : IsReading(q, p[Len(a)], b)
  BY <1>2, ReadIsStepwise
<1>6. r[Len(a)] = p[Len(a)]
  <2>1. ASSUME NEW k \in 1..Len(a) PROVE r[k] = Dep!Taken(r[k - 1], a[k])
    <3>1. k \in 1..Len(c) /\ c[k] = a[k]
      BY <1>1, <1>2
    <3> QED
      BY <1>3, <3>1, Zenon DEF IsReading, GoesOver
  <2>2. GoesOver(r, a, Len(a))
    BY <2>1, Zenon DEF GoesOver
  <2>3. r[0] = p[0] /\ GoesOver(p, a, Len(a))
    BY <1>3, <1>4, Zenon DEF IsReading
  <2> QED
    BY <1>2, <2>2, <2>3, ReadingsAgree
<1>7. r[Len(a) + Len(b)] = q[Len(b)]
  <2> DEFINE g == [k \in 0..Len(b) |-> r[Len(a) + k]]
  <2>1. ASSUME NEW k \in 1..Len(b) PROVE g[k] = Dep!Taken(g[k - 1], b[k])
    <3> DEFINE i == Len(a) + k
    <3>1. i \in 1..Len(c) /\ c[i] = b[k] /\ i - 1 = Len(a) + (k - 1)
      BY <1>1, <1>2
    <3>2. g[k] = r[i] /\ g[k - 1] = r[Len(a) + (k - 1)]
      BY <1>2
    <3> HIDE DEF g, i
    <3>3. r[i] = Dep!Taken(r[i - 1], c[i])
      BY <1>3, <3>1, Zenon DEF IsReading, GoesOver
    <3> QED
      BY <3>1, <3>2, <3>3, Zenon
  <2>2. g[0] = r[Len(a)] /\ g[Len(b)] = r[Len(a) + Len(b)]
    BY <1>2
  <2> HIDE DEF g
  <2>3. GoesOver(g, b, Len(b))
    BY <2>1, Zenon DEF GoesOver
  <2>4. g[0] = q[0] /\ GoesOver(q, b, Len(b))
    BY <1>5, <1>6, <2>2, Zenon DEF IsReading
  <2> QED
    BY <1>2, <2>2, <2>3, <2>4, ReadingsAgree
<1>8. /\ Dep!Read(s, c) = r[Len(a) + Len(b)] /\ Dep!Read(s, a) = p[Len(a)]
      /\ Dep!Read(p[Len(a)], b) = q[Len(b)]
  BY <1>1, <1>3, <1>4, <1>5, Zenon DEF IsReading, GoesOver
<1> QED
  BY <1>7, <1>8, Zenon DEF c

LEMMA ReadOne ==
  ASSUME NEW s, NEW x
  PROVE  Dep!Read(s, <<x>>) = Dep!Taken(s, x)
<1>1. Len(<<x>>) = 1 /\ <<x>>[1] = x
  OBVIOUS
<1> DEFINE t == <<x>>
<1> HIDE DEF t
<1>2. Len(t) = 1 /\ t[1] = x
  BY <1>1 DEF t
<1>3. PICK r : IsReading(r, s, t)
  BY <1>2, ReadIsStepwise, 1 \in Nat
<1>4. r[1] = Dep!Taken(r[0], t[1]) /\ r[0] = s /\ r[1] = Dep!Read(s, t)
  <2>1. 1 \in 1..Len(t) /\ 1 - 1 = 0
    BY <1>2
  <2> QED
    BY <1>2, <1>3, <2>1, Zenon DEF IsReading, GoesOver
<1> QED
  BY <1>2, <1>4, Zenon DEF t

-----------------------------------------------------------------------------
LEMMA KnownHas ==
  \A h, e, c, o :
    LET k == Dep!Known(h, e, c, o)
    IN  k.held = h /\ k.escapes = e /\ k.current = c /\ k.out = o
BY DEF Dep!Known

\* Between the pieces of a name: what is read of it, and the tokens before it.
Ready(name, out) == Dep!Known(0, 0, name, out)

LEMMA PieceIsTaken ==
  ASSUME NEW name, NEW out, NEW x, x \notin {"space", "newline", "backslash"}
  PROVE  Dep!Taken(Ready(name, out), x) = Ready(Append(name, x), out)
BY KnownHas DEF Ready, Dep!Taken, Dep!Tokenized, Dep!Blank

LEMMA BlankIsTaken ==
  ASSUME NEW name, NEW out, NEW x \in {"space", "newline"}
  PROVE  Dep!Taken(Ready(name, out), x)
           = IF name = <<>> THEN Ready(name, out) ELSE Ready(<<>>, Append(out, name))
BY KnownHas DEF Ready, Dep!Taken, Dep!Tokenized, Dep!Blank, Dep!Flush

\* Behind a backslash: a space is a piece of the name, the end of a line goes.
LEMMA EscapeIsTaken ==
  ASSUME NEW name, NEW out
  PROVE  LET held == Dep!Taken(Ready(name, out), "backslash")
         IN  /\ Dep!Taken(held, "space") = Ready(Append(name, "space"), out)
             /\ Dep!Taken(held, "newline") = Ready(name, out)
<1> DEFINE held == Dep!Known(1, 0, name, out)
<1>1. Dep!Taken(Ready(name, out), "backslash") = held
  BY KnownHas DEF Ready, Dep!Taken, Dep!Holding
<1>2. held.held = 1 /\ Dep!Holding(held, 0) = Ready(name, out)
  BY KnownHas DEF Ready, Dep!Holding
<1>3. Dep!Tokenized(Ready(name, out), "backslash") = Dep!Known(0, 1, name, out)
  BY KnownHas DEF Ready, Dep!Tokenized
<1> HIDE DEF held
<1>4. Dep!Taken(held, "newline") = Ready(name, out)
  BY <1>2 DEF Dep!Taken
<1>5. Dep!Taken(held, "space") = Dep!Tokenized(Dep!Known(0, 1, name, out), "space")
  BY <1>2, <1>3 DEF Dep!Taken
<1>6. Dep!Tokenized(Dep!Known(0, 1, name, out), "space") = Ready(Append(name, "space"), out)
  BY KnownHas DEF Ready, Dep!Tokenized
<1> QED
  BY <1>1, <1>4, <1>5, <1>6

LEMMA AppendGives ==
  ASSUME NEW s, IsSeq(s), NEW x
  PROVE  /\ IsSeq(Append(s, x)) /\ Len(Append(s, x)) = Len(s) + 1
         /\ Append(s, x)[Len(s) + 1] = x
         /\ \A i \in 1..Len(s) : Append(s, x)[i] = s[i]
<1> DEFINE S == ToSet(s) \cup {x}
           A == ToSet(s)
<1>1. s \in Seq(S) /\ x \in S
  <2>1. s \in Seq(A) /\ A \subseteq S
    BY DEF IsSeq
  <2> HIDE DEF A, S
  <2> QED
    BY <2>1 DEF S
<1> HIDE DEF S
<1>2. /\ Append(s, x) \in Seq(S) /\ Len(Append(s, x)) = Len(s) + 1
      /\ Append(s, x)[Len(s) + 1] = x
      /\ \A i \in 1..Len(s) : Append(s, x)[i] = s[i]
  BY <1>1
<1> QED
  BY <1>2, SeqOfAny

\* The first k of a sequence.
First(s, k) == [i \in 1..k |-> s[i]]

LEMMA FirstGrows ==
  ASSUME NEW s, IsSeq(s)
  PROVE  /\ First(s, 0) = <<>> /\ First(s, Len(s)) = s
         /\ \A k \in 0..Len(s) : IsSeq(First(s, k)) /\ Len(First(s, k)) = k
         /\ \A k \in 1..Len(s) : First(s, k) = Append(First(s, k - 1), s[k])
<1>1. Len(s) \in Nat /\ s = [i \in 1..Len(s) |-> s[i]]
  BY SeqParts
<1>2. First(s, 0) = <<>> /\ First(s, Len(s)) = s
  BY <1>1 DEF First
<1>3. ASSUME NEW k \in 0..Len(s)
      PROVE  IsSeq(First(s, k)) /\ Len(First(s, k)) = k
  <2>1. k \in Nat /\ First(s, k) = [i \in 1..k |-> First(s, k)[i]]
    BY <1>1 DEF First
  <2> QED
    BY <2>1, FunctionIsSeq
<1>4. ASSUME NEW k \in 1..Len(s)
      PROVE  First(s, k) = Append(First(s, k - 1), s[k])
  <2> DEFINE f == First(s, k)
             g == First(s, k - 1)
             h == Append(g, s[k])
  <2>1. k \in 0..Len(s) /\ k - 1 \in 0..Len(s) /\ (k - 1) + 1 = k
    BY <1>1
  <2>2. IsSeq(f) /\ Len(f) = k /\ IsSeq(g) /\ Len(g) = k - 1
    BY <1>3, <2>1
  <2>3. (\A i \in 1..k : f[i] = s[i]) /\ (\A i \in 1..(k - 1) : g[i] = s[i])
    BY DEF First
  <2> HIDE DEF f, g
  <2>4. IsSeq(h) /\ Len(h) = k /\ h[k] = s[k] /\ \A i \in 1..(k - 1) : h[i] = g[i]
    BY <2>1, <2>2, AppendGives
  <2> HIDE DEF h
  <2>5. \A i \in 1..k : f[i] = h[i]
    <3> SUFFICES ASSUME NEW i \in 1..k PROVE f[i] = h[i]
      OBVIOUS
    <3>1. i = k \/ i \in 1..(k - 1)
      BY <2>1
    <3> QED
      BY <2>3, <2>4, <3>1
  <2>6. f = h
    BY <2>2, <2>4, <2>5, SameSeq
  <2> QED
    BY <2>6 DEF f, g, h
<1> QED
  BY <1>2, <1>3, <1>4

-----------------------------------------------------------------------------
\* A text of two pieces.
LEMMA ReadTwo ==
  ASSUME NEW s, NEW x, NEW y
  PROVE  IsSeq(<<x, y>>) /\ Dep!Read(s, <<x, y>>) = Dep!Taken(Dep!Taken(s, x), y)
<1> DEFINE a == <<x>>
           b == <<y>>
           c == a \o b
<1>1. IsSeq(a) /\ Len(a) = 1 /\ a[1] = x /\ IsSeq(b) /\ Len(b) = 1 /\ b[1] = y
  BY OneIsSeq
<1>2. /\ Dep!Read(s, a) = Dep!Taken(s, x)
      /\ Dep!Read(Dep!Taken(s, x), b) = Dep!Taken(Dep!Taken(s, x), y)
  BY ReadOne
<1> HIDE DEF a, b
<1>3. IsSeq(c) /\ Dep!Read(s, c) = Dep!Taken(Dep!Taken(s, x), y)
  <2>1. IsSeq(c)
    BY <1>1, ConcatGives
  <2>2. Dep!Read(s, c) = Dep!Read(Dep!Read(s, a), b)
    BY <1>1, ReadConcat
  <2> QED
    BY <1>2, <2>1, <2>2
<1>4. <<x, y>> = c
  <2>1. /\ Len(c) = Len(a) + Len(b)
        /\ \A i \in 1..Len(a) : c[i] = a[i]
        /\ \A i \in 1..Len(b) : c[Len(a) + i] = b[i]
    <3>1. IsSeq(a) /\ IsSeq(b)
      BY <1>1
    <3> QED
      BY <3>1, ConcatGives
  <2> HIDE DEF c
  <2>2. Len(c) = 2 /\ c[1] = x /\ c[2] = y
    <3>1. 1 \in 1..Len(a) /\ 1 \in 1..Len(b) /\ Len(a) + 1 = 2 /\ Len(a) + Len(b) = 2
      BY <1>1
    <3> QED
      BY <1>1, <2>1, <3>1
  <2>3. <<x, y>> \in Seq({x, y}) /\ Len(<<x, y>>) = 2
    OBVIOUS
  <2>4. IsSeq(<<x, y>>)
    BY <2>3, SeqOfAny
  <2>5. \A i \in 1..2 : i = 1 \/ i = 2
    OBVIOUS
  <2>6. \A i \in 1..2 : <<x, y>>[i] = c[i]
    BY <2>2, <2>5
  <2> QED
    BY <1>3, <2>2, <2>3, <2>4, <2>6, SameSeq
<1> QED
  BY <1>3, <1>4

\* A name, escaped, is read as it is spelled.
LEMMA ReadEscaped ==
  ASSUME NEW name, IsSeq(name), name # <<>>,
         \A i \in 1..Len(name) : name[i] \notin {"backslash", "newline"},
         NEW out
  PROVE  /\ IsSeq(Dep!Escaped(name))
         /\ Dep!Read(Ready(<<>>, out), Dep!Escaped(name)) = Ready(name, out)
<1> DEFINE n == Len(name)
           pieces == [k \in DOMAIN name |->
                        IF name[k] = "space" THEN <<"backslash", "space">> ELSE <<name[k]>>]
           start == Ready(<<>>, out)
<1>1. n \in Nat /\ DOMAIN name = 1..n
  BY SeqParts
<1>2. n # 0
  <2>1. name = [i \in 1..n |-> name[i]]
    BY SeqParts
  <2>2. CASE n = 0
    <3>1. IsSeq(<<>>) /\ Len(<<>>) = 0
      BY NoneIsSeq
    <3>2. \A i \in 1..Len(name) : name[i] = <<>>[i]
      BY <2>2
    <3>3. name = <<>>
      BY <2>2, <3>1, <3>2, SameSeq
    <3> QED
      BY <3>3
  <2> QED
    BY <2>2
<1>3. Len(pieces) = n /\ DOMAIN pieces = 1..n
  <2>1. pieces = [k \in 1..n |-> pieces[k]]
    BY <1>1
  <2> HIDE DEF pieces
  <2> QED
    BY <1>1, <2>1, FunctionIsSeq
\* What one piece of the name is in the text, and what it is read as.
<1>4. ASSUME NEW k \in 1..n, NEW so
      PROVE  /\ IsSeq(pieces[k])
             /\ Dep!Read(Ready(so, out), pieces[k]) = Ready(Append(so, name[k]), out)
  <2> DEFINE r == Ready(so, out)
  <2>1. CASE name[k] = "space"
    <3>1. pieces[k] = <<"backslash", "space">>
      BY <1>1, <2>1
    <3>2. Dep!Read(r, pieces[k]) = Dep!Taken(Dep!Taken(r, "backslash"), "space")
      BY <3>1, ReadTwo
    <3> QED
      BY <2>1, <3>1, <3>2, ReadTwo, EscapeIsTaken
  <2>2. CASE name[k] # "space"
    <3>1. pieces[k] = <<name[k]>>
      BY <1>1, <2>2
    <3>2. Dep!Read(r, pieces[k]) = Dep!Taken(r, name[k])
      BY <3>1, ReadOne
    <3>3. name[k] \notin {"space", "newline", "backslash"}
      BY <2>2
    <3> QED
      BY <3>1, <3>2, <3>3, PieceIsTaken, OneIsSeq
  <2> QED
    BY <2>1, <2>2
<1>5. PICK u : FlattenOf(u, pieces, n) /\ Dep!FlattenSeq(pieces) = u[n]
  <2> HIDE DEF pieces
  <2> QED
    BY <1>1, <1>2, <1>3, FlattenIsStepwise
<1>6. Dep!Escaped(name) = u[n]
  BY <1>5 DEF Dep!Escaped
<1> HIDE DEF pieces
<1>7. \A i \in 1..n : u[i] = IF i = 1 THEN pieces[i] ELSE u[i - 1] \o pieces[i]
  BY <1>5, Zenon DEF FlattenOf
<1> DEFINE IsRead(k) == IsSeq(u[k]) /\ Dep!Read(start, u[k]) = Ready(First(name, k), out)
           S == {k \in Nat : k + 1 <= n => IsRead(k + 1)}
<1>8. 0 \in S
  <2>1. 1 \in 1..n /\ u[1] = pieces[1]
    BY <1>1, <1>2, <1>7
  <2>2. First(name, 1) = Append(<<>>, name[1])
    <3>1. \A k \in 1..n : First(name, k) = Append(First(name, k - 1), name[k])
      BY FirstGrows
    <3>2. First(name, 0) = <<>> /\ 1 - 1 = 0
      BY FirstGrows
    <3>3. First(name, 1) = Append(First(name, 1 - 1), name[1])
      BY <2>1, <3>1
    <3> QED
      BY <3>2, <3>3
  <2>3. IsSeq(pieces[1]) /\ Dep!Read(start, pieces[1]) = Ready(Append(<<>>, name[1]), out)
    BY <1>4, <2>1
  <2>4. IsRead(1)
    BY <2>1, <2>2, <2>3
  <2>5. 0 + 1 = 1
    OBVIOUS
  <2> HIDE DEF IsRead
  <2> QED
    BY <2>4, <2>5
<1>9. ASSUME NEW k \in Nat, k \in S PROVE k + 1 \in S
  <2> SUFFICES ASSUME (k + 1) + 1 <= n PROVE IsRead((k + 1) + 1)
    OBVIOUS
  <2> DEFINE j == k + 1
             l == j + 1
  <2>1. IsRead(j)
    BY <1>1, <1>9
  <2>2. l \in 1..n /\ l # 1 /\ l - 1 = j
    BY <1>1
  <2> HIDE DEF j, l
  <2>3. u[l] = u[j] \o pieces[l]
    BY <1>7, <2>2
  <2>4. IsSeq(u[j]) /\ IsSeq(pieces[l])
    BY <1>4, <2>1, <2>2
  <2>5. Dep!Read(start, u[l]) = Dep!Read(Dep!Read(start, u[j]), pieces[l])
    BY <2>3, <2>4, ReadConcat
  <2>6. Dep!Read(start, u[l]) = Ready(Append(First(name, j), name[l]), out)
    BY <1>4, <2>1, <2>2, <2>5
  <2>7. First(name, l) = Append(First(name, j), name[l])
    <3>1. First(name, l) = Append(First(name, l - 1), name[l])
      BY <2>2, FirstGrows
    <3> QED
      BY <2>2, <3>1
  <2>8. IsSeq(u[l])
    BY <2>3, <2>4, ConcatGives
  <2> QED
    BY <2>6, <2>7, <2>8 DEF j, l
<1> HIDE DEF S
<1>10. n - 1 \in S
  <2>1. Nat \subseteq S
    BY <1>8, <1>9, NumberInduction
  <2> QED
    BY <1>1, <1>2, <2>1
<1>11. IsRead(n)
  BY <1>1, <1>2, <1>10 DEF S
<1>12. First(name, n) = name
  BY FirstGrows
<1> QED
  BY <1>6, <1>11, <1>12

LEMMA FourIsTwice ==
  ASSUME NEW w, NEW x, NEW y, NEW z
  PROVE  <<w, x, y, z>> = <<w, x>> \o <<y, z>>
<1> DEFINE a == <<w, x>>
           b == <<y, z>>
           c == a \o b
           d == <<w, x, y, z>>
<1>1. /\ Len(a) = 2 /\ a[1] = w /\ a[2] = x /\ Len(b) = 2 /\ b[1] = y /\ b[2] = z
      /\ d \in Seq({w, x, y, z}) /\ Len(d) = 4
      /\ d[1] = w /\ d[2] = x /\ d[3] = y /\ d[4] = z
  OBVIOUS
<1>2. IsSeq(a) /\ IsSeq(b)
  BY ReadTwo
<1>3. IsSeq(d)
  <2> HIDE DEF d
  <2> QED
    BY <1>1, SeqOfAny
<1> HIDE DEF a, b, d
<1>4. /\ IsSeq(c) /\ Len(c) = Len(a) + Len(b)
      /\ \A i \in 1..Len(a) : c[i] = a[i]
      /\ \A i \in 1..Len(b) : c[Len(a) + i] = b[i]
  BY <1>2, ConcatGives
<1> HIDE DEF c
<1>5. Len(c) = 4 /\ c[1] = w /\ c[2] = x /\ c[3] = y /\ c[4] = z
  <2>1. 1 \in 1..Len(a) /\ 2 \in 1..Len(a) /\ 1 \in 1..Len(b) /\ 2 \in 1..Len(b)
        /\ Len(a) + 1 = 3 /\ Len(a) + 2 = 4 /\ Len(a) + Len(b) = 4
    BY <1>1
  <2> QED
    BY <1>1, <1>4, <2>1
<1>6. \A i \in 1..4 : i = 1 \/ i = 2 \/ i = 3 \/ i = 4
  OBVIOUS
<1>7. \A i \in 1..4 : d[i] = c[i]
  BY <1>1, <1>5, <1>6
<1>8. d = c
  BY <1>1, <1>3, <1>4, <1>5, <1>7, SameSeq
<1> QED
  BY <1>8 DEF a, b, c, d

LEMMA ReadNone ==
  ASSUME NEW s
  PROVE  Dep!Read(s, <<>>) = s
<1> DEFINE t == <<>>
<1>1. Len(t) = 0 /\ Len(t) \in Nat
  OBVIOUS
<1> HIDE DEF t
<1>2. PICK r : IsReading(r, s, t)
  BY <1>1, ReadIsStepwise
<1> QED
  BY <1>1, <1>2 DEF IsReading, t

\* What stands between the names, and the name.
LEMMA HeaderIsRead ==
  ASSUME NEW name, IsSeq(name), name # <<>>,
         \A i \in 1..Len(name) : name[i] \notin {"backslash", "newline"},
         NEW last, last # <<>>, NEW out,
         NEW between \in {<<"space">>, <<"space", "backslash", "newline", "space">>}
  PROVE  /\ IsSeq(between \o Dep!Escaped(name))
         /\ Dep!Read(Ready(last, out), between \o Dep!Escaped(name))
              = Ready(name, Append(out, last))
<1> DEFINE r == Ready(last, out)
           next == Ready(<<>>, Append(out, last))
<1>1. Dep!Taken(r, "space") = next /\ Dep!Taken(next, "space") = next
  BY BlankIsTaken
<1>2. IsSeq(between) /\ Dep!Read(r, between) = next
  <2>1. CASE between = <<"space">>
    BY <1>1, <2>1, ReadOne, OneIsSeq
  <2>2. CASE between = <<"space", "backslash", "newline", "space">>
    <3> DEFINE a == <<"space", "backslash">>
               b == <<"newline", "space">>
    <3>1. /\ IsSeq(a) /\ Dep!Read(r, a) = Dep!Taken(Dep!Taken(r, "space"), "backslash")
          /\ IsSeq(b)
          /\ Dep!Read(Dep!Taken(next, "backslash"), b)
               = Dep!Taken(Dep!Taken(Dep!Taken(next, "backslash"), "newline"), "space")
      BY ReadTwo
    <3>2. Dep!Taken(Dep!Taken(next, "backslash"), "newline") = next
      BY EscapeIsTaken
    <3>3. between = a \o b
      BY <2>2, FourIsTwice
    <3> HIDE DEF a, b
    <3>4. Dep!Read(r, between) = Dep!Read(Dep!Read(r, a), b)
      BY <3>1, <3>3, ReadConcat
    <3>5. IsSeq(between)
      BY <3>1, <3>3, ConcatGives
    <3> QED
      BY <1>1, <3>1, <3>2, <3>4, <3>5
  <2> QED
    BY <2>1, <2>2
<1>3. /\ IsSeq(Dep!Escaped(name))
      /\ Dep!Read(next, Dep!Escaped(name)) = Ready(name, Append(out, last))
  BY ReadEscaped

<1>4. Dep!Read(r, between \o Dep!Escaped(name)) = Dep!Read(Dep!Read(r, between), Dep!Escaped(name))
  BY <1>2, <1>3, ReadConcat
<1>5. IsSeq(between \o Dep!Escaped(name))
  BY <1>2, <1>3, ConcatGives
<1> QED
  BY <1>2, <1>3, <1>4, <1>5 DEF r

\* The text of a depfile, read back, is the headers as they are spelled.
LEMMA TextIsRead ==
  ASSUME NEW u, NEW d, IsSeq(d.headers),
         \A j \in DOMAIN d.headers : Dep!IsSpelling(Dep!Spelled(u, d.headers[j]))
  PROVE  Dep!Prerequisites(Dep!Tokens(Dep!DepfileText(u, d)))
           = [j \in DOMAIN d.headers |-> Dep!Spelled(u, d.headers[j])]
<1> DEFINE hs == d.headers
           n == Len(hs)
           spelled == [j \in DOMAIN hs |-> Dep!Spelled(u, hs[j])]
           target == <<"unit", ":">>
           all == [i \in 1..(n + 1) |-> IF i = 1 THEN target ELSE spelled[i - 1]]
           between(k) == IF k = d.break THEN <<"space", "backslash", "newline", "space">>
                         ELSE <<"space">>
           items == [k \in DOMAIN hs |-> between(k) \o Dep!Escaped(Dep!Spelled(u, hs[k]))]
           list == Dep!FlattenSeq(items)
<1>1. n \in Nat /\ DOMAIN hs = 1..n
  BY SeqParts
<1>2. ASSUME NEW k \in 1..n
      PROVE  LET t == spelled[k]
             IN  /\ IsSeq(t) /\ t # <<>>
                 /\ \A i \in 1..Len(t) : t[i] \notin {"backslash", "newline"}
  <2> DEFINE t == spelled[k]
  <2>1. Dep!IsSpelling(t)
    BY <1>1
  <2> HIDE DEF t
  <2>2. t \in Seq(ToSet(t)) /\ t # <<>> /\ ToSet(t) \cap {"backslash", "newline"} = {}
    BY <2>1 DEF Dep!IsSpelling, Dep!ToSet, ToSet
  <2>3. IsSeq(t)
    BY <2>2 DEF IsSeq
  <2>4. \A i \in 1..Len(t) : t[i] \in ToSet(t)
    BY <2>3, SeqParts
  <2>5. \A i \in 1..Len(t) : t[i] \notin {"backslash", "newline"}
    BY <2>2, <2>4
  <2> QED
    BY <2>2, <2>3, <2>5 DEF t
<1>3. IsSeq(all) /\ Len(all) = n + 1 /\ \A i \in 1..(n + 1) : all[i] # <<>>
  <2>1. all = [i \in 1..(n + 1) |-> all[i]] /\ n + 1 \in Nat
    BY <1>1
  <2>2. ASSUME NEW i \in 1..(n + 1) PROVE all[i] # <<>>
    <3>1. target # <<>>
      OBVIOUS
    <3>2. i # 1 => i - 1 \in 1..n
      BY <1>1
    <3>3. all[i] = IF i = 1 THEN target ELSE spelled[i - 1]
      OBVIOUS
    <3> HIDE DEF all, target, spelled
    <3> QED
      BY <1>2, <3>1, <3>2, <3>3
  <2> HIDE DEF all
  <2> QED
    BY <2>1, <2>2, FunctionIsSeq
<1>4. all[1] = target /\ \A k \in 1..n : all[k + 1] = spelled[k]
  BY <1>1
<1>5. IsSeq(items) /\ Len(items) = n
  <2>1. items = [k \in 1..n |-> items[k]]
    BY <1>1
  <2> HIDE DEF items
  <2> QED
    BY <1>1, <2>1, FunctionIsSeq
<1>6. ASSUME NEW k \in 1..n, NEW last, last # <<>>, NEW out
      PROVE  /\ IsSeq(items[k])
             /\ Dep!Read(Ready(last, out), items[k]) = Ready(spelled[k], Append(out, last))
  <2> DEFINE b == between(k)
             t == spelled[k]
  <2>1. items[k] = b \o Dep!Escaped(t)
    BY <1>1
  <2>2. b \in {<<"space">>, <<"space", "backslash", "newline", "space">>}
    OBVIOUS
  <2>3. /\ IsSeq(t) /\ t # <<>>
        /\ \A i \in 1..Len(t) : t[i] \notin {"backslash", "newline"}
    BY <1>2
  <2> HIDE DEF b, t, items
  <2>4. /\ IsSeq(b \o Dep!Escaped(t))
        /\ Dep!Read(Ready(last, out), b \o Dep!Escaped(t)) = Ready(t, Append(out, last))
    BY <1>6, <2>2, <2>3, HeaderIsRead
  <2> QED
    BY <2>1, <2>4 DEF t
<1>7. Dep!DepfileText(u, d) = (target \o list) \o <<"newline">>
  BY DEF Dep!DepfileText
<1> HIDE DEF items, all, spelled, target
\* The list of the headers: the last is read, the others and the target are tokens.
<1>8. IsSeq(list) /\ Dep!Read(Ready(all[1], <<>>), list) = Ready(all[n + 1], First(all, n))
  <2>1. CASE n = 0
    <3>1. list = items
      BY <1>5, <2>1 DEF Dep!FlattenSeq
    <3>2. items = <<>>
      BY <1>5, <2>1, NoneIsSeq, SameSeq
    <3>3. First(all, 0) = <<>>
      BY <1>3, FirstGrows
    <3>4. IsSeq(list)
      BY <1>5, <3>1
    <3> QED
      BY <2>1, <3>1, <3>2, <3>3, <3>4, ReadNone
  <2>2. CASE n # 0
    <3>1. PICK v : FlattenOf(v, items, n) /\ list = v[n]
      BY <1>1, <1>5, <2>2, FlattenIsStepwise
    <3> HIDE DEF list
    <3>2. \A i \in 1..n : v[i] = IF i = 1 THEN items[i] ELSE v[i - 1] \o items[i]
      BY <3>1, Zenon DEF FlattenOf
    <3> DEFINE start == Ready(all[1], <<>>)
               IsRead(k) == /\ IsSeq(v[k])
                            /\ Dep!Read(start, v[k]) = Ready(all[k + 1], First(all, k))
               S == {k \in Nat : k + 1 <= n => IsRead(k + 1)}
    <3>3. \A k \in 1..(n + 1) : First(all, k) = Append(First(all, k - 1), all[k])
      BY <1>3, FirstGrows
    <3>4. 0 \in S
      <4>1. 1 \in 1..n /\ v[1] = items[1] /\ all[1] # <<>> /\ 1 + 1 = 2 /\ 0 + 1 = 1
        BY <1>1, <1>3, <2>2, <3>2
      <4>2. First(all, 1) = Append(<<>>, all[1])
        <5>1. First(all, 1) = Append(First(all, 1 - 1), all[1]) /\ 1 - 1 = 0
          BY <1>1, <3>3
        <5>2. First(all, 0) = <<>>
          BY <1>3, FirstGrows
        <5> QED
          BY <5>1, <5>2
      <4>3. IsSeq(items[1]) /\ Dep!Read(start, items[1]) = Ready(spelled[1], Append(<<>>, all[1]))
        BY <1>6, <4>1
      <4>4. spelled[1] = all[1 + 1]
        BY <1>4, <4>1
      <4>5. IsRead(1)
        BY <4>1, <4>2, <4>3, <4>4
      <4> HIDE DEF IsRead
      <4> QED
        BY <4>1, <4>5
    <3>5. ASSUME NEW k \in Nat, k \in S PROVE k + 1 \in S
      <4> SUFFICES ASSUME (k + 1) + 1 <= n PROVE IsRead((k + 1) + 1)
        OBVIOUS
      <4> DEFINE j == k + 1
                 l == j + 1
      <4>1. IsRead(j)
        BY <1>1, <3>5
      <4>2. j \in 1..n /\ l \in 1..n /\ l \in 1..(n + 1) /\ l # 1 /\ l - 1 = j /\ j + 1 = l
        BY <1>1
      <4> HIDE DEF j, l
      <4>3. v[l] = v[j] \o items[l]
        BY <3>2, <4>2
      <4>4. all[l] # <<>>
        BY <1>3, <4>2
      <4>5. /\ IsSeq(items[l])
            /\ Dep!Read(Ready(all[l], First(all, j)), items[l])
                 = Ready(spelled[l], Append(First(all, j), all[l]))
        BY <1>6, <4>2, <4>4
      <4>6. IsSeq(v[j]) /\ Dep!Read(start, v[j]) = Ready(all[l], First(all, j))
        BY <4>1, <4>2
      <4>7. Dep!Read(start, v[l]) = Dep!Read(Dep!Read(start, v[j]), items[l])
        BY <4>3, <4>5, <4>6, ReadConcat
      <4>8. First(all, l) = Append(First(all, j), all[l]) /\ spelled[l] = all[l + 1]
        <5>1. First(all, l) = Append(First(all, l - 1), all[l])
          BY <3>3, <4>2
        <5> QED
          BY <1>4, <4>2, <5>1
      <4>9. IsSeq(v[l])
        BY <4>3, <4>5, <4>6, ConcatGives
      <4>10. IsRead(l)
        BY <4>5, <4>6, <4>7, <4>8, <4>9
      <4> QED
        BY <4>10 DEF j, l
    <3> HIDE DEF S
    <3>6. n - 1 \in S
      <4>1. Nat \subseteq S
        BY <3>4, <3>5, NumberInduction
      <4> QED
        BY <1>1, <2>2, <4>1
    <3>7. IsRead(n)
      BY <1>1, <2>2, <3>6 DEF S
    <3> QED
      BY <3>1, <3>7
  <2> QED
    BY <2>1, <2>2
<1> HIDE DEF list
\* The whole text.
<1>9. IsSeq(target) /\ Dep!Read(Ready(<<>>, <<>>), target) = Ready(all[1], <<>>)
  <2>1. Dep!Taken(Ready(<<>>, <<>>), "unit") = Ready(Append(<<>>, "unit"), <<>>)
    BY PieceIsTaken
  <2>2. Dep!Taken(Ready(Append(<<>>, "unit"), <<>>), ":")
          = Ready(Append(Append(<<>>, "unit"), ":"), <<>>)
    BY PieceIsTaken
  <2>3. Append(Append(<<>>, "unit"), ":") = target
    <3> DEFINE a == Append(<<>>, "unit")
               b == Append(a, ":")
    <3>1. IsSeq(a) /\ Len(a) = 1 /\ a[1] = "unit"
      <4> DEFINE e == <<>>
      <4>1. IsSeq(e) /\ Len(e) = 0
        BY NoneIsSeq
      <4> HIDE DEF e
      <4>2. /\ IsSeq(Append(e, "unit")) /\ Len(Append(e, "unit")) = Len(e) + 1
            /\ Append(e, "unit")[Len(e) + 1] = "unit"
        BY <4>1, AppendGives
      <4>3. Len(e) + 1 = 1
        BY <4>1
      <4> QED
        BY <4>2, <4>3 DEF e
    <3> HIDE DEF a
    <3>2. IsSeq(b) /\ Len(b) = 2 /\ b[1] = "unit" /\ b[2] = ":"
      <4>1. /\ IsSeq(b) /\ Len(b) = Len(a) + 1 /\ b[Len(a) + 1] = ":"
            /\ \A i \in 1..Len(a) : b[i] = a[i]
        BY <3>1, AppendGives
      <4>2. 1 \in 1..Len(a) /\ Len(a) + 1 = 2
        BY <3>1
      <4> QED
        BY <3>1, <4>1, <4>2
    <3>3. IsSeq(target) /\ Len(target) = 2 /\ target[1] = "unit" /\ target[2] = ":"
      BY ReadTwo DEF target
    <3>4. \A i \in 1..2 : i = 1 \/ i = 2
      OBVIOUS
    <3> HIDE DEF b
    <3>5. b = target
      BY <3>2, <3>3, <3>4, SameSeq
    <3> QED
      BY <3>5 DEF a, b
  <2> DEFINE start == Ready(<<>>, <<>>)
  <2>4. IsSeq(target) /\ Dep!Read(start, target) = Dep!Taken(Dep!Taken(start, "unit"), ":")
    <3> HIDE DEF start
    <3> QED
      BY ReadTwo DEF target
  <2> QED
    BY <1>4, <2>1, <2>2, <2>3, <2>4
<1>10. Dep!Tokens(Dep!DepfileText(u, d)) = all
  <2> DEFINE start == Ready(<<>>, <<>>)
             end == <<"newline">>
             a == target \o list
  <2>1. IsSeq(a) /\ IsSeq(end)
    BY <1>8, <1>9, ConcatGives, OneIsSeq
  <2>2. Dep!Read(start, a) = Dep!Read(Dep!Read(start, target), list)
    BY <1>8, <1>9, ReadConcat
  <2>3. Dep!Read(start, a) = Ready(all[n + 1], First(all, n))
    BY <1>8, <1>9, <2>2
  <2>4. Dep!Read(Ready(all[n + 1], First(all, n)), end)
          = Dep!Taken(Ready(all[n + 1], First(all, n)), "newline")
    BY ReadOne
  <2>5. n + 1 \in 1..(n + 1) /\ (n + 1) - 1 = n
    BY <1>1
  <2>6. Dep!Taken(Ready(all[n + 1], First(all, n)), "newline")
          = Ready(<<>>, Append(First(all, n), all[n + 1]))
    BY <1>3, <2>5, BlankIsTaken
  <2>7. Append(First(all, n), all[n + 1]) = all
    <3>1. First(all, n + 1) = Append(First(all, (n + 1) - 1), all[n + 1])
      BY <1>3, <2>5, FirstGrows
    <3>2. First(all, n + 1) = all
      BY <1>3, FirstGrows
    <3> QED
      BY <2>5, <3>1, <3>2
  <2> HIDE DEF a, end, start
  <2>8. Dep!Read(start, a \o end) = Dep!Read(Dep!Read(start, a), end)
    BY <2>1, ReadConcat
  <2>9. Dep!Read(start, a \o end) = Ready(<<>>, all)
    BY <2>3, <2>4, <2>6, <2>7, <2>8
  <2>10. Dep!Ended(Ready(<<>>, all)) = Ready(<<>>, all)
    BY KnownHas DEF Ready, Dep!Ended
  <2>11. Dep!Flush(Ready(<<>>, all)).out = all
    BY KnownHas DEF Ready, Dep!Flush
  <2> QED
    BY <1>7, <2>9, <2>10, <2>11 DEF Dep!Tokens, Ready, a, end, start
\* The first token ends the targets.
<1>11. Dep!Colon(all) = 1
  <2> DEFINE I == {i \in 1..Len(all) : Dep!EndsRule(all[i])}
  <2>1. 1 \in I
    <3>1. Len(target) = 2 /\ target[2] = ":"
      BY DEF target
    <3>2. Dep!EndsRule(all[1])
      BY <1>4, <3>1 DEF Dep!EndsRule, Dep!Last
    <3> QED
      BY <1>1, <1>3, <3>2
  <2>2. \A i \in I : 1 <= i /\ i \in Int
    BY <1>1, <1>3
  <2>3. Dep!Colon(all) = IF I # {} THEN Dep!Min(I) ELSE 0
    BY DEF Dep!Colon, Dep!SelectInSeq
  <2> HIDE DEF I
  <2>4. Dep!Min(I) = CHOOSE i \in I : \A j \in I : i =< j
    BY DEF Dep!Min
  <2>5. \A i \in I : (\A j \in I : i =< j) => i = 1
    BY <2>1, <2>2
  <2> QED
    BY <2>1, <2>2, <2>3, <2>4, <2>5
<1>12. Dep!Prerequisites(all) = spelled
  <2>1. Dep!Prerequisites(all) = SubSeq(all, 2, n + 1)
    BY <1>3, <1>11 DEF Dep!Prerequisites
  <2>2. SubSeq(all, 2, n + 1) = [i \in 1..n |-> all[i + 1]]
    <3>1. SubSeq(all, 2, n + 1) = [i \in 1..((1 + (n + 1)) - 2) |-> all[(i + 2) - 1]]
      <4> DEFINE S == ToSet(all)
      <4>1. all \in Seq(S) /\ 2 \in Int /\ n + 1 \in Int
        BY <1>1, <1>3 DEF IsSeq
      <4> HIDE DEF S
      <4> QED
        BY <1>1, <1>3, <4>1
    <3>2. (1 + (n + 1)) - 2 = n /\ \A i \in 1..n : (i + 2) - 1 = i + 1
      BY <1>1
    <3> QED
      BY <3>1, <3>2
  <2>3. spelled = [i \in 1..n |-> spelled[i]]
    BY <1>1 DEF spelled
  <2> QED
    BY <1>4, <2>1, <2>2, <2>3
<1> QED
  BY <1>10, <1>12 DEF spelled

-----------------------------------------------------------------------------
(* Depcheck                                                                *)

\* The headers of a depfile, the tokens they give, and the number of depfiles
\* that were taken up.
HeadersOf(k) == unit.depfiles[k].headers
TokensOf(k) == [j \in DOMAIN HeadersOf(k) |-> Dep!Spelled(unit, HeadersOf(k)[j])]
Taken == Len(unit.depfiles) - Len(todo)

PathOf(h) == Dep!Path(unit, Dep!Spelled(unit, h))

\* A header that has been checked, so that its path is recorded if it is denied.
Settled(h) ==
  /\ ~Dep!Contains(PathOf(h), "garbled")
  /\ Dep!IsDenied(PathOf(h)) => PathOf(h) \in ToSet(forbidden)

DepTypeOK ==
  /\ unit \in Units
  /\ todo \in Seq(ToSet(Dep!Contents(unit))) /\ Len(todo) <= Len(unit.depfiles)
  /\ forbidden \in Seq(ToSet(forbidden))
  /\ state \in {"next", "check", "passed", "refused", "fatal"}

\* What is left to do is the end of what there was.
TodoIsRest ==
  \A k \in 1..Len(todo) : todo[k] = Dep!Contents(unit)[k + Taken]

TakenAreRead == state # "fatal" => \A k \in 1..Taken : unit.depfiles[k].readable

TakenAreSettled ==
  \A k \in 1..Taken : (k < Taken \/ state \in {"next", "passed", "refused"}) =>
    \A j \in DOMAIN HeadersOf(k) : Settled(HeadersOf(k)[j])

\* While a depfile is checked, its last headers are left and the first settled.
RestIsLeft ==
  state = "check" =>
    /\ Taken >= 1
    /\ tokens \in Seq(ToSet(TokensOf(Taken))) /\ Len(tokens) <= Len(HeadersOf(Taken))
    /\ LET settled == Len(HeadersOf(Taken)) - Len(tokens)
       IN  /\ \A i \in 1..Len(tokens) : tokens[i] = TokensOf(Taken)[i + settled]
           /\ \A j \in 1..settled : Settled(HeadersOf(Taken)[j])

RecordedIsDenied ==
  \A p \in ToSet(forbidden) : Dep!IsDenied(p) /\ \E h \in Dep!Headers : p = PathOf(h)

VerdictIsLast ==
  /\ state = "passed" => todo = <<>> /\ forbidden = <<>>
  /\ state = "refused" => todo = <<>> /\ forbidden # <<>>

DepInv ==
  /\ DepTypeOK /\ TodoIsRest /\ TakenAreRead /\ TakenAreSettled /\ RestIsLeft
  /\ RecordedIsDenied /\ VerdictIsLast

DepIInv == state # "none" => DepInv

-----------------------------------------------------------------------------
\* The depfiles of a unit, what they contain and their headers are sequences.
LEMMA PartsOfUnit ==
  ASSUME unit \in Units
  PROVE  /\ unit.depfiles \in Seq(ToSet(unit.depfiles))
         /\ DOMAIN unit.depfiles = 1..Len(unit.depfiles) /\ Len(unit.depfiles) \in Nat
         /\ \A k \in DOMAIN unit.depfiles :
              /\ DOMAIN HeadersOf(k) = 1..Len(HeadersOf(k)) /\ Len(HeadersOf(k)) \in Nat
              /\ \A j \in DOMAIN HeadersOf(k) : HeadersOf(k)[j] \in Dep!Headers
<1>1. /\ unit.depfiles \in Seq(ToSet(unit.depfiles))
      /\ \A k \in DOMAIN unit.depfiles : HeadersOf(k) \in Seq(ToSet(HeadersOf(k)))
  BY UnitsAssumption DEF HeadersOf
<1>2. DOMAIN unit.depfiles = 1..Len(unit.depfiles) /\ Len(unit.depfiles) \in Nat
  BY <1>1
<1>3. ASSUME NEW k \in DOMAIN unit.depfiles
      PROVE  DOMAIN HeadersOf(k) = 1..Len(HeadersOf(k)) /\ Len(HeadersOf(k)) \in Nat
  <2> DEFINE hs == HeadersOf(k)
             S == ToSet(hs)
  <2>1. hs \in Seq(S)
    BY <1>1
  <2> HIDE DEF hs, S
  <2>2. DOMAIN hs = 1..Len(hs) /\ Len(hs) \in Nat
    BY <2>1
  <2> QED
    BY <2>2 DEF hs
<1>4. ASSUME NEW k \in DOMAIN unit.depfiles, NEW j \in DOMAIN HeadersOf(k)
      PROVE  HeadersOf(k)[j] \in Dep!Headers
  <2>1. HeadersOf(k)[j] \in Dep!ToSet(unit.depfiles[k].headers)
    BY DEF Dep!ToSet, HeadersOf
  <2> QED
    BY <2>1 DEF Dep!Headers
<1> QED
  BY <1>1, <1>2, <1>3, <1>4

\* The tokens of a depfile are its headers as they are spelled.
LEMMA UnitIsRead ==
  ASSUME unit \in Units, NEW k \in DOMAIN unit.depfiles
  PROVE  /\ Dep!Prerequisites(Dep!Tokens(Dep!Contents(unit)[k].text)) = TokensOf(k)
         /\ \A j \in DOMAIN HeadersOf(k) : TokensOf(k)[j] # <<":">>
<1> DEFINE d == unit.depfiles[k]
<1>1. /\ IsSeq(d.headers)
      /\ \A j \in DOMAIN d.headers : Dep!IsSpelling(Dep!Spelled(unit, d.headers[j]))
  BY UnitsAssumption DEF IsSeq
<1>2. Dep!Contents(unit)[k].text = Dep!DepfileText(unit, d)
  BY DEF Dep!Contents
<1> HIDE DEF d
<1>3. Dep!Prerequisites(Dep!Tokens(Dep!DepfileText(unit, d)))
        = [j \in DOMAIN d.headers |-> Dep!Spelled(unit, d.headers[j])]
  BY <1>1, TextIsRead
<1>4. \A j \in DOMAIN d.headers : Dep!Spelled(unit, d.headers[j]) # <<":">>
  BY <1>1 DEF Dep!IsSpelling
<1> QED
  BY <1>2, <1>3, <1>4 DEF TokensOf, HeadersOf, d

LEMMA InitDep == Dep!Init => DepInv
<1> SUFFICES ASSUME Dep!Init PROVE DepInv
  OBVIOUS
<1> DEFINE all == Dep!Contents(unit)
<1>1. unit \in Units /\ todo = all /\ tokens = <<>> /\ forbidden = <<>> /\ state = "next"
  BY DEF Dep!Init
<1>2. all \in Seq(ToSet(all)) /\ Len(all) = Len(unit.depfiles) /\ Len(all) \in Nat
  <2>1. DOMAIN all = 1..Len(unit.depfiles) /\ Len(unit.depfiles) \in Nat
    BY <1>1, PartsOfUnit DEF Dep!Contents
  <2> DEFINE S == {all[i] : i \in DOMAIN all}
  <2>2. all = [i \in 1..Len(unit.depfiles) |-> all[i]]
    BY <2>1 DEF Dep!Contents
  <2>3. \A i \in 1..Len(unit.depfiles) : all[i] \in S
    BY <2>1
  <2> HIDE DEF S, all
  <2>4. all \in Seq(S) /\ Len(all) = Len(unit.depfiles)
    BY <2>1, <2>2, <2>3
  <2> QED
    BY <2>1, <2>4 DEF S, ToSet
<1> HIDE DEF all
<1>3. Taken = 0
  BY <1>1, <1>2 DEF Taken
<1>4. TodoIsRest
  BY <1>1, <1>2, <1>3 DEF TodoIsRest, all
<1>5. DepTypeOK
  BY <1>1, <1>2 DEF DepTypeOK, all
<1>6. RecordedIsDenied
  <2>1. ToSet(forbidden) = {}
    BY <1>1 DEF ToSet
  <2> QED
    BY <2>1 DEF RecordedIsDenied
<1> QED
  BY <1>1, <1>3, <1>4, <1>5, <1>6
     DEF DepInv, TakenAreRead, TakenAreSettled, RestIsLeft, RecordedIsDenied, VerdictIsLast

\* What has been taken up and settled stays so where the unit stays, nothing is
\* taken up and what was recorded is kept.
LEMMA SettledStays ==
  ASSUME unit' = unit, ToSet(forbidden) \subseteq ToSet(forbidden')
  PROVE  /\ \A k : HeadersOf(k)' = HeadersOf(k) /\ TokensOf(k)' = TokensOf(k)
         /\ \A h : PathOf(h)' = PathOf(h) /\ (Settled(h) => Settled(h)')
         /\ Dep!Headers' = Dep!Headers /\ Dep!Contents(unit)' = Dep!Contents(unit)
<1>1. \A h : PathOf(h)' = PathOf(h)
  BY DEF PathOf
<1>2. \A h : Settled(h) => Settled(h)'
  BY <1>1 DEF Settled
<1> QED
  BY <1>1, <1>2 DEF HeadersOf, TokensOf, Dep!Headers

\* Another depfile is taken up.
LEMMA ReadStep == DepInv /\ Dep!ReadDepfile => DepInv'
<1> SUFFICES ASSUME DepInv, Dep!ReadDepfile PROVE DepInv'
  OBVIOUS
<1> DEFINE S == ToSet(Dep!Contents(unit))
<1>1. /\ unit \in Units /\ todo \in Seq(S) /\ Len(todo) <= Len(unit.depfiles)
      /\ state = "next" /\ todo # <<>> /\ todo' = Tail(todo) /\ UNCHANGED <<unit, forbidden>>
      /\ tokens' = Dep!Prerequisites(Dep!Tokens(Head(todo).text))
      /\ state' \in {"check", "fatal"} /\ (state' = "check" => Head(todo).readable)
  BY DEF DepInv, DepTypeOK, Dep!ReadDepfile
<1>2. Len(unit.depfiles) \in Nat /\ DOMAIN unit.depfiles = 1..Len(unit.depfiles)
  BY <1>1, PartsOfUnit
<1>3. /\ todo' \in Seq(S) /\ Len(todo') = Len(todo) - 1 /\ Len(todo) \in Nat /\ Len(todo) >= 1
      /\ \A k \in 1..Len(todo') : todo'[k] = todo[k + 1]
      /\ Head(todo) = todo[1]
  <2> HIDE DEF S
  <2> QED
    BY <1>1
<1>4. Taken' = Taken + 1 /\ Taken \in Nat /\ Taken' \in DOMAIN unit.depfiles
  BY <1>1, <1>2, <1>3 DEF Taken
<1>5. Head(todo) = Dep!Contents(unit)[Taken']
  <2>1. todo[1] = Dep!Contents(unit)[1 + Taken]
    BY <1>3 DEF DepInv, TodoIsRest
  <2> QED
    BY <1>3, <1>4, <2>1
<1>6. /\ \A k : HeadersOf(k)' = HeadersOf(k) /\ TokensOf(k)' = TokensOf(k)
      /\ \A h : PathOf(h)' = PathOf(h) /\ (Settled(h) => Settled(h)')
      /\ Dep!Headers' = Dep!Headers /\ Dep!Contents(unit)' = Dep!Contents(unit)
  BY <1>1, SettledStays
<1>7. DepTypeOK'
  BY <1>1, <1>2, <1>3, <1>6 DEF DepInv, DepTypeOK
<1>8. TodoIsRest'
  <2>1. ASSUME NEW k \in 1..Len(todo') PROVE todo'[k] = Dep!Contents(unit)[k + Taken']
    <3>1. todo[k + 1] = Dep!Contents(unit)[(k + 1) + Taken]
      BY <1>3 DEF DepInv, TodoIsRest
    <3> QED
      BY <1>3, <1>4, <3>1
  <2> QED
    BY <1>6, <2>1 DEF TodoIsRest
<1>9. TakenAreRead'
  <2>1. state' = "check" => unit.depfiles[Taken'].readable
    BY <1>1, <1>4, <1>5 DEF Dep!Contents
  <2>2. \A k \in 1..Taken : unit.depfiles[k].readable
    BY <1>1 DEF DepInv, TakenAreRead
  <2> QED
    BY <1>1, <1>4, <2>1, <2>2 DEF TakenAreRead
<1>10. TakenAreSettled'
  <2>1. \A k \in 1..Taken : \A j \in DOMAIN HeadersOf(k) : Settled(HeadersOf(k)[j])
    BY <1>1 DEF DepInv, TakenAreSettled
  <2> QED
    BY <1>1, <1>4, <1>6, <2>1 DEF TakenAreSettled
<1>11. RestIsLeft'
  <2>1. tokens' = TokensOf(Taken')
    BY <1>1, <1>4, <1>5, UnitIsRead
  <2> DEFINE hs == HeadersOf(Taken')
             ts == TokensOf(Taken')
             T == ToSet(ts)
  <2>2. DOMAIN hs = 1..Len(hs) /\ Len(hs) \in Nat
    BY <1>1, <1>4, PartsOfUnit
  <2>3. ts = [j \in 1..Len(hs) |-> ts[j]] /\ \A j \in 1..Len(hs) : ts[j] \in T
    BY <2>2 DEF TokensOf, ToSet
  <2>4. ts \in Seq(T) /\ Len(ts) = Len(hs)
    <3> HIDE DEF ts, hs, T
    <3> QED
      BY <2>2, <2>3
  <2>5. HeadersOf(Taken)' = hs /\ TokensOf(Taken)' = ts
    BY <1>6
  <2> HIDE DEF ts, hs
  <2> QED
    BY <1>4, <2>1, <2>2, <2>4, <2>5 DEF RestIsLeft, ts
<1> QED
  BY <1>1, <1>6, <1>7, <1>8, <1>9, <1>10, <1>11
     DEF DepInv, RecordedIsDenied, VerdictIsLast

\* A path of the depfile is checked.
LEMMA CheckStep == DepInv /\ Dep!CheckPath => DepInv'
<1> SUFFICES ASSUME DepInv, Dep!CheckPath PROVE DepInv'
  OBVIOUS
<1> DEFINE hs == HeadersOf(Taken)
           ts == TokensOf(Taken)
           T == ToSet(ts)
           now == Len(hs) - Len(tokens) + 1
           path == Dep!Path(unit, Head(tokens))
<1>1. /\ unit \in Units /\ state = "check" /\ tokens # <<>>
      /\ tokens' = Tail(tokens) /\ UNCHANGED <<unit, todo>>
      /\ todo \in Seq(ToSet(Dep!Contents(unit))) /\ Len(todo) <= Len(unit.depfiles)
      /\ forbidden \in Seq(ToSet(forbidden))
  BY DEF DepInv, DepTypeOK, Dep!CheckPath
<1>2. Len(todo) \in Nat
  <2> DEFINE S == ToSet(Dep!Contents(unit))
  <2>1. todo \in Seq(S)
    BY <1>1
  <2> HIDE DEF S
  <2> QED
    BY <2>1
<1>3. Taken' = Taken /\ Taken >= 1 /\ Taken \in DOMAIN unit.depfiles
  BY <1>1, <1>2, PartsOfUnit DEF Taken, DepInv, RestIsLeft
<1>4. /\ tokens \in Seq(T) /\ Len(tokens) <= Len(hs)
      /\ \A i \in 1..Len(tokens) : tokens[i] = ts[i + (Len(hs) - Len(tokens))]
      /\ \A j \in 1..(Len(hs) - Len(tokens)) : Settled(hs[j])
  BY <1>1 DEF DepInv, RestIsLeft
<1>5. DOMAIN hs = 1..Len(hs) /\ Len(hs) \in Nat
  BY <1>1, <1>3, PartsOfUnit
<1>6. /\ tokens' \in Seq(T) /\ Len(tokens') = Len(tokens) - 1
      /\ Len(tokens) \in Nat /\ Len(tokens) >= 1
      /\ \A i \in 1..Len(tokens') : tokens'[i] = tokens[i + 1]
      /\ Head(tokens) = tokens[1]
  <2> HIDE DEF T
  <2> QED
    BY <1>1, <1>4
<1>7. now \in DOMAIN hs /\ Head(tokens) = ts[now]
  <2> HIDE DEF hs, ts
  <2>1. tokens[1] = ts[1 + (Len(hs) - Len(tokens))]
    BY <1>4, <1>6
  <2> QED
    BY <1>4, <1>5, <1>6, <2>1
<1>8. Head(tokens) # <<":">> /\ path = PathOf(hs[now])
  <2>1. ts[now] # <<":">>
    BY <1>1, <1>3, <1>7, UnitIsRead
  <2>2. ts[now] = Dep!Spelled(unit, hs[now])
    BY <1>7 DEF TokensOf
  <2> QED
    BY <1>7, <2>1, <2>2 DEF PathOf
<1>9. hs[now] \in Dep!Headers
  BY <1>1, <1>3, <1>7, PartsOfUnit
<1> HIDE DEF hs, ts, T, now, path
\* Either the run ends, or the header is settled.
<1>10. \/ state' = "fatal" /\ forbidden' = forbidden
       \/ /\ state' = "check" /\ ~Dep!Contains(path, "garbled")
          /\ forbidden' = IF Dep!IsDenied(path) THEN Append(forbidden, path) ELSE forbidden
  BY <1>1, <1>8 DEF Dep!CheckPath, path
<1>11. /\ IsSeq(forbidden') /\ ToSet(forbidden) \subseteq ToSet(forbidden')
       /\ \A p \in ToSet(forbidden') : p \in ToSet(forbidden) \/ (p = path /\ Dep!IsDenied(path))
       /\ state' = "check" =>
            ~Dep!Contains(path, "garbled") /\ (Dep!IsDenied(path) => path \in ToSet(forbidden'))
  <2>1. IsSeq(forbidden)
    BY <1>1 DEF IsSeq
  <2>2. CASE forbidden' = forbidden /\ (state' = "check" => ~Dep!Contains(path, "garbled") /\ ~Dep!IsDenied(path))
    BY <2>1, <2>2
  <2>3. CASE forbidden' = Append(forbidden, path) /\ Dep!IsDenied(path) /\ ~Dep!Contains(path, "garbled")
    <3>1. /\ IsSeq(forbidden') /\ Len(forbidden') = Len(forbidden) + 1
          /\ forbidden'[Len(forbidden) + 1] = path
          /\ \A i \in 1..Len(forbidden) : forbidden'[i] = forbidden[i]
      BY <2>1, <2>3, AppendGives
    <3>2. ToSet(forbidden') = ToSet(forbidden) \cup {path}
      <4>1. DOMAIN forbidden = 1..Len(forbidden) /\ Len(forbidden) \in Nat
        BY <2>1, SeqParts
      <4>2. DOMAIN forbidden' = 1..(Len(forbidden) + 1)
        BY <3>1, SeqParts
      <4>3. \A i \in 1..(Len(forbidden) + 1) : i \in 1..Len(forbidden) \/ i = Len(forbidden) + 1
        BY <4>1
      <4>4. Len(forbidden) + 1 \in 1..(Len(forbidden) + 1)
            /\ \A i \in 1..Len(forbidden) : i \in 1..(Len(forbidden) + 1)
        BY <4>1
      <4> QED
        BY <3>1, <4>1, <4>2, <4>3, <4>4 DEF ToSet
    <3> QED
      BY <2>3, <3>1, <3>2
  <2> QED
    BY <1>10, <2>2, <2>3
<1>12. /\ \A k : HeadersOf(k)' = HeadersOf(k) /\ TokensOf(k)' = TokensOf(k)
       /\ \A h : PathOf(h)' = PathOf(h) /\ (Settled(h) => Settled(h)')
       /\ Dep!Headers' = Dep!Headers /\ Dep!Contents(unit)' = Dep!Contents(unit)
  BY <1>1, <1>11, SettledStays
<1>13. DepTypeOK'
  BY <1>1, <1>10, <1>11, <1>12 DEF DepInv, DepTypeOK, IsSeq
<1>14. TodoIsRest'
  BY <1>1, <1>3, <1>12 DEF DepInv, TodoIsRest
<1>15. TakenAreRead'
  BY <1>1, <1>3 DEF DepInv, TakenAreRead
<1>16. TakenAreSettled'
  BY <1>1, <1>3, <1>10, <1>12 DEF DepInv, TakenAreSettled
<1>17. RestIsLeft'
  <2> DEFINE settled == Len(hs) - Len(tokens)
  <2>1. /\ Len(hs) \in Nat /\ Len(tokens) \in Nat /\ settled \in Int /\ now = settled + 1
        /\ Len(tokens') = Len(tokens) - 1 /\ Len(tokens) >= 1 /\ Len(tokens) <= Len(hs)
    BY <1>4, <1>5, <1>6 DEF now
  <2>2. Len(hs) - Len(tokens') = now
    BY <2>1
  <2>3. ASSUME state' = "check", NEW j \in 1..now, NEW h, h = hs[j]
        PROVE  Settled(h)'
    <3>1. CASE j = now
      BY <1>8, <1>11, <1>12, <2>3, <3>1 DEF Settled
    <3>2. CASE j # now
      <4>1. j \in 1..(Len(hs) - Len(tokens))
        BY <2>1, <3>2
      <4>2. Settled(h)
        BY <1>4, <2>3, <4>1
      <4> QED
        BY <1>12, <4>2
    <3> QED
      BY <3>1, <3>2
  <2>4. ASSUME NEW i \in 1..Len(tokens')
        PROVE  tokens'[i] = ts[i + now]
    <3>1. i \in Int /\ i + 1 \in 1..Len(tokens)
      BY <2>1
    <3>2. tokens[i + 1] = ts[(i + 1) + (Len(hs) - Len(tokens))]
      BY <1>4, <3>1
    <3>3. (i + 1) + (Len(hs) - Len(tokens)) = i + now
      BY <2>1, <3>1
    <3> QED
      BY <1>6, <3>2, <3>3
  <2>5. HeadersOf(Taken)' = hs /\ TokensOf(Taken)' = ts
    BY <1>3, <1>12 DEF hs, ts
  <2>6. (tokens \in Seq(ToSet(TokensOf(Taken))) /\ Len(tokens) <= Len(HeadersOf(Taken)))'
    <3>1. Len(tokens') <= Len(hs)
      BY <2>1
    <3> QED
      BY <1>6, <2>5, <3>1 DEF T
  <2>7. ASSUME state' = "check", NEW j \in 1..now
        PROVE  Settled(HeadersOf(Taken)[j])'
    <3>1. \A h : h = HeadersOf(Taken)'[j] => Settled(h)'
      BY <2>3, <2>5, <2>7
    <3> QED
      BY <3>1 DEF Settled, PathOf
  <2> QED
    BY <1>3, <2>2, <2>4, <2>5, <2>6, <2>7 DEF RestIsLeft
<1>18. RecordedIsDenied'
  <2>1. ASSUME NEW p \in ToSet(forbidden')
        PROVE  Dep!IsDenied(p) /\ \E h \in Dep!Headers : p = PathOf(h)
    BY <1>8, <1>9, <1>11 DEF DepInv, RecordedIsDenied
  <2> QED
    BY <1>12, <2>1 DEF RecordedIsDenied
<1>19. VerdictIsLast'
  BY <1>10 DEF VerdictIsLast
<1> QED
  BY <1>13, <1>14, <1>15, <1>16, <1>17, <1>18, <1>19 DEF DepInv

\* The depfile has been checked to its end, or the last one has been.
LEMMA EndStep == DepInv /\ (Dep!NextDepfile \/ Dep!Report) => DepInv'
<1> SUFFICES ASSUME DepInv, Dep!NextDepfile \/ Dep!Report PROVE DepInv'
  OBVIOUS
<1>1. /\ unit \in Units /\ UNCHANGED <<unit, todo, tokens, forbidden>>
      /\ \/ state = "check" /\ tokens = <<>> /\ state' = "next"
         \/ /\ state = "next" /\ todo = <<>>
            /\ state' = IF forbidden = <<>> THEN "passed" ELSE "refused"
  BY DEF DepInv, DepTypeOK, Dep!NextDepfile, Dep!Report
<1>2. /\ \A k : HeadersOf(k)' = HeadersOf(k) /\ TokensOf(k)' = TokensOf(k)
      /\ \A h : PathOf(h)' = PathOf(h) /\ (Settled(h) => Settled(h)')
      /\ Dep!Headers' = Dep!Headers /\ Dep!Contents(unit)' = Dep!Contents(unit)
  BY <1>1, SettledStays
<1>3. Taken' = Taken
  BY <1>1 DEF Taken
<1>4. DepTypeOK' /\ TodoIsRest' /\ RestIsLeft' /\ VerdictIsLast'
  BY <1>1, <1>2, <1>3 DEF DepInv, DepTypeOK, TodoIsRest, RestIsLeft, VerdictIsLast
<1>5. TakenAreRead'
  BY <1>1, <1>3 DEF DepInv, TakenAreRead
<1>6. TakenAreSettled'
  <2>1. CASE state = "next"
    BY <1>1, <1>2, <1>3, <2>1 DEF DepInv, TakenAreSettled
  <2>2. CASE state = "check"
    <3>1. Len(todo) \in Nat
      <4> DEFINE S == ToSet(Dep!Contents(unit))
      <4>1. todo \in Seq(S)
        BY DEF DepInv, DepTypeOK
      <4> HIDE DEF S
      <4> QED
        BY <4>1
    <3>2. Taken \in DOMAIN unit.depfiles
      BY <1>1, <2>2, <3>1, PartsOfUnit DEF DepInv, DepTypeOK, RestIsLeft, Taken
    <3>3. DOMAIN HeadersOf(Taken) = 1..Len(HeadersOf(Taken)) /\ Len(HeadersOf(Taken)) \in Nat
      BY <1>1, <3>2, PartsOfUnit
    <3>4. \A j \in 1..(Len(HeadersOf(Taken)) - Len(tokens)) : Settled(HeadersOf(Taken)[j])
      BY <2>2 DEF DepInv, RestIsLeft
    <3>5. Len(tokens) = 0
      BY <1>1, <2>2
    <3>6. \A j \in DOMAIN HeadersOf(Taken) : Settled(HeadersOf(Taken)[j])
      BY <3>3, <3>4, <3>5
    <3>7. \A k \in 1..Taken : k < Taken =>
            \A j \in DOMAIN HeadersOf(k) : Settled(HeadersOf(k)[j])
      BY DEF DepInv, TakenAreSettled
    <3>8. Taken \in Nat
      BY <1>1, <3>2, PartsOfUnit
    <3>9. \A k \in 1..Taken : \A j \in DOMAIN HeadersOf(k) : Settled(HeadersOf(k)[j])
      BY <3>6, <3>7, <3>8
    <3> QED
      BY <1>2, <1>3, <3>9 DEF TakenAreSettled
  <2> QED
    BY <1>1, <2>1, <2>2
<1>7. RecordedIsDenied'
  BY <1>1, <1>2 DEF DepInv, RecordedIsDenied
<1> QED
  BY <1>4, <1>5, <1>6, <1>7 DEF DepInv

LEMMA StepDep == DepInv /\ [Dep!Next]_dep => DepInv'
<1> SUFFICES ASSUME DepInv, [Dep!Next]_dep PROVE DepInv'
  OBVIOUS
<1>1. CASE UNCHANGED dep
  <2>1. UNCHANGED <<unit, todo, tokens, forbidden, state>>
    BY <1>1 DEF dep
  <2>2. /\ \A k : HeadersOf(k)' = HeadersOf(k) /\ TokensOf(k)' = TokensOf(k)
        /\ \A h : PathOf(h)' = PathOf(h) /\ (Settled(h) => Settled(h)')
        /\ Dep!Headers' = Dep!Headers /\ Dep!Contents(unit)' = Dep!Contents(unit)
    BY <2>1, SettledStays
  <2>3. Taken' = Taken
    BY <2>1 DEF Taken
  <2>4. DepTypeOK' /\ TodoIsRest' /\ TakenAreRead' /\ VerdictIsLast' /\ RecordedIsDenied'
    BY <2>1, <2>2, <2>3
       DEF DepInv, DepTypeOK, TodoIsRest, TakenAreRead, VerdictIsLast, RecordedIsDenied
  <2>5. TakenAreSettled' /\ RestIsLeft'
    BY <2>1, <2>2, <2>3 DEF DepInv, TakenAreSettled, RestIsLeft
  <2> QED
    BY <2>4, <2>5 DEF DepInv
<1>2. CASE Dep!Next
  BY <1>2, ReadStep, CheckStep, EndStep DEF Dep!Next
<1> QED
  BY <1>1, <1>2

\* No step of any of the tools breaks it.
LEMMA DepIsInductive ==
  /\ HostInit => DepIInv
  /\ DepIInv /\ [HostNext]_<<vars, dep, apply>> => DepIInv'
<1>1. HostInit => DepIInv
  BY InitDep DEF HostInit, NoUnit, DepIInv
<1>2. ASSUME DepIInv, HostNext \/ UNCHANGED <<vars, dep, apply>>, state' # "none"
      PROVE  DepInv'
  <2>1. Dep!Next \/ UNCHANGED dep
    BY <1>2 DEF HostNext
  <2>2. state # "none"
    BY <1>2, <2>1
       DEF dep, Dep!Next, Dep!ReadDepfile, Dep!CheckPath, Dep!NextDepfile, Dep!Report
  <2> QED
    BY <1>2, <2>1, <2>2, StepDep DEF DepIInv
<1> QED
  BY <1>1, <1>2 DEF DepIInv

\* However many depfiles and headers a unit has, whatever their names, the trees
\* and the prefixes are: a verdict is given only when every depfile was read and
\* no path is garbled, what is reported are the denied paths of the headers, all of
\* them and no other, and the unit passes exactly if there are none.
THEOREM EveryHeaderIsAlwaysJudged == HostSpec => []EveryHeaderIsJudged
<1>1. ASSUME DepInv, state \in {"passed", "refused"}
      PROVE  LET paths == {PathOf(h) : h \in Dep!Headers}
             IN  /\ \A k \in DOMAIN unit.depfiles : unit.depfiles[k].readable
                 /\ \A p \in paths : ~Dep!Contains(p, "garbled")
                 /\ ToSet(forbidden) = {p \in paths : Dep!IsDenied(p)}
                 /\ state = "passed" <=> forbidden = <<>>
  <2>1. unit \in Units /\ todo = <<>> /\ (state = "passed" <=> forbidden = <<>>)
    BY <1>1 DEF DepInv, DepTypeOK, VerdictIsLast
  <2>2. Taken = Len(unit.depfiles) /\ DOMAIN unit.depfiles = 1..Taken
    BY <2>1, PartsOfUnit DEF Taken
  <2>3. \A k \in 1..Taken : unit.depfiles[k].readable
    BY <1>1 DEF DepInv, TakenAreRead
  <2>4. ASSUME NEW h \in Dep!Headers PROVE Settled(h)
    <3>1. PICK k \in 1..Taken : h \in Dep!ToSet(unit.depfiles[k].headers)
      BY <2>2 DEF Dep!Headers
    <3>2. PICK j \in DOMAIN HeadersOf(k) : h = HeadersOf(k)[j]
      BY <3>1 DEF Dep!ToSet, HeadersOf
    <3> QED
      BY <1>1, <3>2 DEF DepInv, TakenAreSettled
  <2>5. RecordedIsDenied
    BY <1>1 DEF DepInv
  <2> QED
    BY <2>1, <2>2, <2>3, <2>4, <2>5 DEF Settled, RecordedIsDenied
<1>2. ASSUME DepIInv, state \in {"passed", "refused"} PROVE Dep!EveryHeaderIsJudged
  <2>1. DepInv
    BY <1>2 DEF DepIInv
  <2> QED
    BY <1>1, <1>2, <2>1 DEF Dep!EveryHeaderIsJudged, PathOf, Dep!ToSet, ToSet
<1>3. DepIInv => EveryHeaderIsJudged
  BY <1>2 DEF EveryHeaderIsJudged, Dep!EveryHeaderIsJudged
<1> QED
  BY <1>3, DepIsInductive, PTL DEF HostSpec

=============================================================================
