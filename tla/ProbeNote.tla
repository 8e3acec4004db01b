------------------------------ MODULE ProbeNote ------------------------------
(***************************************************************************)
(* gen_probe writes the note of a manifest (expand_records, compute_sizes, *)
(* emit_record_bytes, emit_probe_c), the compiler puts it into an object,  *)
(* and layout_parse reads it back: the NoteReader, run on the bytes that   *)
(* gen_probe wrote.                                                        *)
(*                                                                         *)
(* The bytes are a sequence of cells [w, v]: w bytes that hold v.  A read  *)
(* that does not meet a cell of exactly its offset and width gets junk, so *)
(* every size and every padding of the writer has to agree with the        *)
(* reader's.                                                               *)
(***************************************************************************)
EXTENDS Integers, Sequences, FiniteSets, SequencesExt

CONSTANTS
  Manifests,   \* [set, types, constants, enums], each a sequence but the set
  Length,      \* length of every name
  Negative,    \* enumerators with a negative value
  Garbled,
  MaxWord, MaxU32, MaxDescSize, MaxRecordCount, MaxStringLen, MaxSetNameLen, SectionSlack

VARIABLES
  file,   \* the object, with the manifest it was made from
  pc, table, names, nth, sec, off, desc, pos, todo, out, reads

-----------------------------------------------------------------------------
(* expand_records                                                          *)

\* The empty string, and the names that are given.
Empty == ""
Given == DOMAIN Length \ {Empty}

Item(kind, t, f, flags, value) ==
  [kind |-> kind, flags |-> flags, type_name |-> t, field_name |-> f,
   sizeof |-> IF kind \in {"const", "enum"} THEN 0 ELSE 8,
   alignof |-> IF kind \in {"const", "enum"} THEN 0 ELSE 8,
   value |-> value]

(***************************************************************************)
(* An accessor id is a hash of type and name; when the id has been seen,   *)
(* the next alternative is tried.  Hashes of different texts differ.       *)
(***************************************************************************)
AccessorId(m, i, bf) ==
  LET seen == {j \in 1..(i - 1) :
                 /\ m.types[j].policy = "accessor_shim"
                 /\ m.types[j].c_type = m.types[i].c_type
                 /\ Contains(m.types[j].bitfields, bf)}
  IN  <<"id", m.types[i].c_type, bf, Cardinality(seen)>>

TypeItems(m, i) ==
  LET t == m.types[i]
      field(f) == Item("field", t.c_type, f, {}, <<"offsetof", t.c_type, f>>)
      shim(bf) == Item("bitfield", t.c_type, bf, {}, AccessorId(m, i, bf))
  IN  <<Item("type", t.c_type, Empty, {}, 0)>>
        \o [k \in DOMAIN t.fields |-> field(t.fields[k])]
        \o IF t.policy = "accessor_shim"
             THEN [k \in DOMAIN t.bitfields |-> shim(t.bitfields[k])]
             ELSE <<>>

ConstItem(c) == Item("const", c, Empty, {}, <<"const", c>>)

EnumItem(e, v) ==
  Item("enum", e.c_type, v, IF v \in Negative THEN {"signed"} ELSE {}, <<"enum", v>>)

\* Enumerators that are extracted from debug information have no record.
EnumItems(e) ==
  IF e.extract_all THEN <<>> ELSE [k \in DOMAIN e.values |-> EnumItem(e, e.values[k])]

Expand(m) ==
  FlattenSeq([i \in DOMAIN m.types |-> TypeItems(m, i)])
    \o [i \in DOMAIN m.constants |-> ConstItem(m.constants[i])]
    \o FlattenSeq([i \in DOMAIN m.enums |-> EnumItems(m.enums[i])])

-----------------------------------------------------------------------------
(* compute_sizes                                                           *)

Padding(n) == (4 - (n % 4)) % 4

StringLength(r) == Length[r.type_name] + Length[r.field_name]

\* Fault: the record is not padded.
UnpaddedSize(r) == 40 + StringLength(r)

RecordSize(r) == 40 + StringLength(r) + Padding(40 + StringLength(r))

\* Where things begin that lie one after another, and where the last one ends.
Offsets(start, widths) ==
  LET at[k \in 0..Len(widths)] == IF k = 0 THEN start ELSE at[k - 1] + widths[k]
  IN  at

DescSize(m) ==
  LET records == Expand(m)
      sizes == [i \in DOMAIN records |-> RecordSize(records[i])]
  IN  Offsets(32 + Length[m.set] + Padding(Length[m.set]), sizes)[Len(records)]

-----------------------------------------------------------------------------
(* emit_probe_c, and what the compiler makes of its byte expressions       *)

Cell(w, v) == [w |-> w, v |-> v]

NoteHead(m) == [namesz |-> 4, descsz |-> DescSize(m), iro |-> TRUE]

DescHead(m) == [known |-> TRUE, count |-> Len(Expand(m)), set_len |-> Length[m.set]]

\* Fault: enumerators are written without their sign.
RecordHeadUnsigned(r) ==
  [size |-> RecordSize(r), kind |-> r.kind, flags |-> {},
   type_len |-> Length[r.type_name], field_len |-> Length[r.field_name],
   sizeof |-> r.sizeof, alignof |-> r.alignof, reserved0 |-> 0, value |-> r.value]

RecordHead(r) ==
  [size |-> RecordSize(r), kind |-> r.kind, flags |-> r.flags,
   type_len |-> Length[r.type_name], field_len |-> Length[r.field_name],
   sizeof |-> r.sizeof, alignof |-> r.alignof, reserved0 |-> 0, value |-> r.value]

\* emit_record_bytes computes the padding once more.
RecordCells(r) ==
  <<Cell(40, RecordHead(r)), Cell(Length[r.type_name], r.type_name),
    Cell(Length[r.field_name], r.field_name), Cell(Padding(40 + StringLength(r)), 0)>>

NoteCells(m) ==
  <<Cell(12, NoteHead(m)), Cell(4, "IRO"),
    Cell(32, DescHead(m)), Cell(Length[m.set], m.set), Cell(Padding(Length[m.set]), 0)>>
    \o FlattenSeq(LET records == Expand(m) IN [i \in DOMAIN records |-> RecordCells(records[i])])

-----------------------------------------------------------------------------
(* The object: ELF header, three section headers, their names, the note    *)

TableAt == 64
StringsAt == TableAt + 3 * 64
NoteAt == StringsAt + 20

\* Cells placed one after another: at[i] is the one that starts at offset i.
Placed(cells) ==
  LET ends == Offsets(NoteAt, [k \in DOMAIN cells |-> cells[k].w])
      filled == {k \in DOMAIN cells : cells[k].w # 0}
  IN  [size |-> ends[Len(cells)],
       at |-> [i \in {ends[k - 1] : k \in filled} |->
                 cells[CHOOSE k \in filled : ends[k - 1] = i]]]

\* The probe object of a manifest.
Object(m) ==
  LET note == Placed(NoteCells(m)) IN [size |-> note.size, at |-> note.at, manifest |-> m]

Objects == {Object(m) : m \in Manifests}

ObjectSize(o) == o.size

\* What w bytes at an offset hold, and what they hold if no cell is met.
Found(o, at, w, junk) ==
  {IF at \in DOMAIN o.at /\ o.at[at].w = w THEN o.at[at].v ELSE junk}

ElfFound(o) ==
  {[known |-> TRUE, shoff |-> TableAt, entsize |-> 64, num |-> 3, strndx |-> 1]}

SectionsFound(o, at) ==
  CASE at = TableAt       -> {[name |-> 0, note |-> FALSE, at |-> 0, size |-> 0]}
    [] at = TableAt + 64  -> {[name |-> 1, note |-> FALSE, at |-> StringsAt, size |-> 20]}
    [] at = TableAt + 128 -> {[name |-> 2, note |-> TRUE, at |-> NoteAt, size |-> o.size - NoteAt]}
    [] OTHER              -> {}

NoteFound(o, at) == Found(o, at, 12, [namesz |-> 0, descsz |-> 0, iro |-> FALSE])

DescFound(o, at) == Found(o, at, 32, [known |-> FALSE, count |-> 0, set_len |-> 0])

RecordFound(o, at) == Found(o, at, 40, [RecordHead(ConstItem(Empty)) EXCEPT !.size = 0])

NameFound(o, at, len) == IF len = 0 THEN {Empty} ELSE Found(o, at, len, Garbled)

ZerosFound(o, from, to) ==
  {\A i \in DOMAIN o.at : i \in from..(to - 1) => o.at[i].v = 0}

\* The reader's limits: a section may be a note's head longer than the longest
\* descriptor, two strings fit a 32-bit length, the longest object fits a word.
ASSUME LimitsAssumption ==
  /\ {MaxWord, MaxU32, MaxDescSize, MaxRecordCount, MaxStringLen, MaxSetNameLen} \subseteq Nat
  /\ SectionSlack \in Nat /\ SectionSlack >= 16
  /\ 2 * MaxStringLen <= MaxU32 /\ NoteAt + 16 + MaxDescSize <= MaxWord

\* No name is empty, says the manifest, and none is longer than the reader takes:
\* gen_probe does not check that.
ASSUME NamesAssumption ==
  /\ Empty \in DOMAIN Length /\ Length[Empty] = 0 /\ Garbled \notin DOMAIN Length
  /\ \A n \in Given : Length[n] \in 1..MaxStringLen

\* A manifest is made of lists of names.  Its set name is checked to be short
\* enough; that there are not too many records, and that they are not too long
\* together, is not.
ASSUME ManifestsAssumption ==
  \A m \in Manifests :
    /\ m.set \in Given /\ Length[m.set] <= MaxSetNameLen
    /\ m.types \in Seq(ToSet(m.types)) /\ m.enums \in Seq(ToSet(m.enums))
    /\ \A t \in ToSet(m.types) :
         t.c_type \in Given /\ t.fields \in Seq(Given) /\ t.bitfields \in Seq(Given)
    /\ m.constants \in Seq(Given)
    /\ \A e \in ToSet(m.enums) : e.c_type \in Given /\ e.values \in Seq(Given)
    /\ Len(Expand(m)) <= MaxRecordCount /\ DescSize(m) <= MaxDescSize

Reader == INSTANCE NoteReader WITH
  Files <- Objects, Size <- ObjectSize, ElfHeaders <- ElfFound,
  SectionHeaders <- SectionsFound, NoteHeaders <- NoteFound, DescHeaders <- DescFound,
  RecordHeaders <- RecordFound, Names <- NameFound, Zeros <- ZerosFound

Spec == Reader!Spec

-----------------------------------------------------------------------------
(* Properties                                                              *)

\* What layout_parse knows is what gen_probe wrote: the same records, with the
\* same names, flags and values, in the same order.
RoundTrip == pc = "accepted" => out = Expand(file.manifest)

\* Records of one thing that do not say the same: build_model refuses them.
Contradict(r, s) ==
  /\ <<r.kind, r.type_name, r.field_name>> = <<s.kind, s.type_name, s.field_name>>
  /\ r.value # s.value

\* Two sections of one type that ask for the same accessor.
SharesAccessor(m) ==
  \E i, j \in DOMAIN m.types :
    /\ i # j /\ m.types[i].c_type = m.types[j].c_type
    /\ \A k \in {i, j} : m.types[k].policy = "accessor_shim"
    /\ ToSet(m.types[i].bitfields) \cap ToSet(m.types[j].bitfields) # {}

\* A note with a record in it is never rejected, whatever the names' lengths
\* and the paddings they make: sizes and paddings are computed once for the
\* descriptor (compute_sizes), once more for the bytes (emit_record_bytes) and a
\* third time by the reader, and the three agree.  (A manifest that only extracts
\* enumerators yields no record, and is rejected, although the manifest's own
\* rules allow it.)  Nor do its records contradict each other, but for an
\* accessor that two sections ask for: what is meant to resolve collisions of
\* hashes gives it two ids.
WrittenIsAccepted ==
  /\ pc = "rejected" => Expand(file.manifest) = <<>>
  /\ pc = "accepted" =>
       (SharesAccessor(file.manifest) <=> \E i, j \in DOMAIN out : Contradict(out[i], out[j]))
=============================================================================
