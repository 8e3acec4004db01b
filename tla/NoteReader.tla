----------------------------- MODULE NoteReader -----------------------------
(***************************************************************************)
(* How layout_parse finds and reads the IRO note of a probe object: the    *)
(* ELF section table, the notes of section .note.iro.layout, the           *)
(* descriptor, its records.  The object is arbitrary: Size, Sections,      *)
(* Notes, ... give the values that may be found at an offset of it, so one *)
(* specification covers both bytes nobody has checked and the bytes        *)
(* gen_probe writes (module ProbeNote).                                    *)
(*                                                                         *)
(* Offsets are std::size_t and wrap; 32-bit sums wrap at their own width.  *)
(***************************************************************************)
EXTENDS Integers, Sequences

CONSTANTS
  Files,            \* the objects layout_parse may be given
  Size(_),          \* bytes of an object
  ElfHeaders(_),    \* [known, shoff, entsize, num, strndx]
  SectionHeaders(_, _),  \* [name, note, at, size] at an offset
  NoteHeaders(_, _),     \* [namesz, descsz, iro] at an offset
  DescHeaders(_, _),     \* [known, count, set_len] at an offset
  RecordHeaders(_, _),   \* the fields of a record at an offset
  Names(_, _, _),   \* the string at an offset, of a length
  Zeros(_, _, _),   \* may all bytes between two offsets be zero?
  Garbled,          \* a string that is not UTF-8, or not a safe set name
  MaxWord,          \* largest std::size_t
  MaxU32,           \* largest std::uint32_t
  MaxDescSize, MaxRecordCount, MaxStringLen, MaxSetNameLen, SectionSlack

ASSUME WordsAreWide ==
  /\ MaxWord \in Nat /\ MaxU32 \in Nat /\ MaxDescSize \in Nat
  /\ MaxRecordCount \in Nat /\ MaxStringLen \in Nat
  /\ MaxSetNameLen \in Nat /\ SectionSlack \in Nat
  /\ 2 * MaxStringLen <= MaxU32
  /\ MaxU32 + 3 <= MaxWord   \* std::size_t has 64 bits: see Align4
  /\ MaxDescSize + SectionSlack + 64 <= MaxWord

\* What is read is read into integers of these widths.
ASSUME FieldsAreWords ==
  \A f \in Files :
    /\ Size(f) \in 0..MaxWord
    /\ \A h \in ElfHeaders(f) :
         h.shoff \in Nat /\ h.entsize \in Nat /\ h.num \in Nat /\ h.strndx \in Nat
    /\ \A at \in 0..MaxWord :
         /\ \A s \in SectionHeaders(f, at) : s.name \in Nat /\ s.at \in Nat /\ s.size \in Nat
         /\ \A n \in NoteHeaders(f, at) : n.namesz \in 0..MaxU32 /\ n.descsz \in 0..MaxU32
         /\ \A d \in DescHeaders(f, at) : d.count \in 0..MaxU32 /\ d.set_len \in 0..MaxU32
         /\ \A r \in RecordHeaders(f, at) :
              /\ r.size \in 0..MaxU32
              /\ r.type_len \in 0..MaxU32 /\ r.field_len \in 0..MaxU32

EhdrSize == 64
ShdrSize == 64
NoteHeaderSize == 12
DescHeaderSize == 32
RecordHeaderSize == 40

Kinds == {"type", "field", "bitfield", "const", "enum"}
RecordFlags == {"optional", "signed", "reserved"}

VARIABLES
  file,    \* the object
  pc,      \* where the reader is
  table,   \* section header table: [shoff, entsize, num]
  names,   \* shstrtab: [at, size]
  nth,     \* section the search is at
  sec,     \* .note.iro.layout: [at, size]
  off,     \* cursor in sec
  desc,    \* the descriptor: [at, size]
  pos,     \* cursor in desc
  todo,    \* records still to be read
  out,     \* records read
  reads    \* ranges [lo, hi, end] the last step has read; end is the span's

elf == <<table, names, nth>>
cursor == <<sec, off, desc, pos, todo>>
vars == <<file, pc, elf, cursor, out, reads>>

-----------------------------------------------------------------------------
(* Arithmetic                                                              *)

\* a + b on std::size_t and on std::uint32_t.
Plus(a, b) == IF a + b > MaxWord THEN a + b - (MaxWord + 1) ELSE a + b
Plus32(a, b) == IF a + b > MaxU32 THEN a + b - (MaxU32 + 1) ELSE a + b

\* checked_add(at, n) succeeds and the sum is at most len.
Fits(at, n, len) == at + n <= MaxWord /\ at + n <= len

\* Where std::size_t had 32 bits, the largest namesz would be rounded up to 0.
Align4(n) == (Plus(n, 3) \div 4) * 4
Pad4(n) == (4 - (n % 4)) % 4

\* n bytes from offset at of the span s.
Bytes(s, at, n) == [lo |-> s.at + at, hi |-> s.at + at + n, end |-> s.at + s.size]

Whole == [at |-> 0, size |-> Size(file)]

-----------------------------------------------------------------------------
Init ==
  /\ file \in Files
  /\ pc = "elf"
  /\ table = [shoff |-> 0, entsize |-> 0, num |-> 0]
  /\ names = [at |-> 0, size |-> 0]
  /\ nth = 0
  /\ sec = [at |-> 0, size |-> 0]
  /\ off = 0
  /\ desc = [at |-> 0, size |-> 0]
  /\ pos = 0
  /\ todo = 0
  /\ out = <<>>
  /\ reads = {}

\* fatal(): the tool ends without a model.
Reject(ranges) ==
  /\ pc' = "rejected"
  /\ reads' = ranges
  /\ UNCHANGED <<file, elf, cursor, out>>

-----------------------------------------------------------------------------
(* find_note_section                                                       *)

\* get_sh: the offset is checked, read_obj adds the size of the header
\* without a check.
SectionAt(t, i) == t.shoff + i * t.entsize
ReadableSection(t, i) ==
  /\ SectionAt(t, i) <= MaxWord
  /\ Plus(SectionAt(t, i), ShdrSize) <= Size(file)

\* The section header table as a whole lies inside the object.
TableFits(h) ==
  /\ h.known
  /\ h.shoff # 0 /\ h.entsize >= ShdrSize /\ h.num # 0
  /\ h.shoff <= Size(file)
  /\ h.entsize * h.num <= MaxWord
  /\ Fits(h.shoff, h.entsize * h.num, Size(file))
  /\ h.strndx < h.num
  /\ ReadableSection(h, h.strndx)

EhdrBytes == Bytes(Whole, 0, EhdrSize)
ShdrBytes(t, i) == Bytes(Whole, SectionAt(t, i), ShdrSize)

BadTable(h) == ~TableFits(h) /\ Reject({EhdrBytes})

BadStrings(h, s) ==
  /\ TableFits(h) /\ ~Fits(s.at, s.size, Size(file))
  /\ Reject({EhdrBytes, ShdrBytes(h, h.strndx)})

EnterTable(h, s) ==
  /\ TableFits(h) /\ Fits(s.at, s.size, Size(file))
  /\ pc' = "sections"
  /\ table' = [shoff |-> h.shoff, entsize |-> h.entsize, num |-> h.num]
  /\ names' = [at |-> s.at, size |-> s.size]
  /\ nth' = 0
  /\ reads' = {EhdrBytes, ShdrBytes(h, h.strndx)}
  /\ UNCHANGED <<file, cursor, out>>

ReadElf ==
  /\ pc = "elf"
  /\ \/ Size(file) < EhdrSize /\ Reject({})
     \/ /\ Size(file) >= EhdrSize
        /\ \E h \in ElfHeaders(file) :
             \/ BadTable(h)
             \/ \E s \in SectionHeaders(file, SectionAt(h, h.strndx)) :
                  BadStrings(h, s) \/ EnterTable(h, s)

\* The header of the section the search is at, and its name.
SectionReads(s) ==
  {ShdrBytes(table, nth), Bytes(names, s.name, names.size - s.name)}

BadName(s) == s.name >= names.size /\ Reject({ShdrBytes(table, nth)})

\* A section of another name or type.
SkipSection(s) ==
  /\ s.name < names.size /\ ~s.note
  /\ nth' = nth + 1
  /\ reads' = SectionReads(s)
  /\ UNCHANGED <<file, pc, table, names, cursor, out>>

SectionFits(s) == Fits(s.at, s.size, Size(file)) /\ s.size <= MaxDescSize + SectionSlack

BadSection(s) ==
  /\ s.name < names.size /\ s.note /\ ~SectionFits(s)
  /\ Reject(SectionReads(s))

TakeSection(s) ==
  /\ s.name < names.size /\ s.note /\ SectionFits(s)
  /\ pc' = "notes"
  /\ sec' = [at |-> s.at, size |-> s.size]
  /\ off' = 0
  /\ reads' = SectionReads(s)
  /\ UNCHANGED <<file, elf, desc, pos, todo, out>>

ReadSection ==
  /\ pc = "sections" /\ nth < table.num
  /\ \/ ~ReadableSection(table, nth) /\ Reject({})
     \/ /\ ReadableSection(table, nth)
        /\ \E s \in SectionHeaders(file, SectionAt(table, nth)) :
             BadName(s) \/ SkipSection(s) \/ BadSection(s) \/ TakeSection(s)

NoSection == pc = "sections" /\ nth >= table.num /\ Reject({})

-----------------------------------------------------------------------------
(* parse_note                                                              *)

NoteFits(n) ==
  /\ n.namesz # 0 /\ n.descsz # 0
  /\ n.descsz <= MaxDescSize
  /\ Align4(n.namesz) + Align4(n.descsz) <= MaxWord
  /\ Fits(off + NoteHeaderSize, Align4(n.namesz) + Align4(n.descsz), sec.size)

\* The note after its header: its name, then its descriptor.
DescAt(n) == off + NoteHeaderSize + Align4(n.namesz)

NoteReads(n) ==
  {Bytes(sec, off, NoteHeaderSize), Bytes(sec, off + NoteHeaderSize, n.namesz)}

BadNote(n) == ~NoteFits(n) /\ Reject({Bytes(sec, off, NoteHeaderSize)})

\* Fault: the loop continues without moving on.
SkipInPlace(n) ==
  /\ NoteFits(n) /\ ~n.iro
  /\ reads' = NoteReads(n)
  /\ UNCHANGED <<file, pc, elf, cursor, out>>

\* A note of somebody else.
SkipNote(n) ==
  /\ NoteFits(n) /\ ~n.iro
  /\ off' = DescAt(n) + Align4(n.descsz)
  /\ reads' = NoteReads(n)
  /\ UNCHANGED <<file, pc, elf, sec, desc, pos, todo, out>>

\* The first IRO note decides.
TakeNote(n) ==
  /\ NoteFits(n) /\ n.iro
  /\ pc' = "header"
  /\ desc' = [at |-> sec.at + DescAt(n), size |-> n.descsz]
  /\ off' = DescAt(n) + Align4(n.descsz)
  /\ reads' = NoteReads(n)
  /\ UNCHANGED <<file, elf, sec, pos, todo, out>>

ReadNote ==
  /\ pc = "notes" /\ Plus(off, NoteHeaderSize) <= sec.size
  /\ \E n \in NoteHeaders(file, sec.at + off) :
       BadNote(n) \/ SkipNote(n) \/ TakeNote(n)

NoNote == pc = "notes" /\ Plus(off, NoteHeaderSize) > sec.size /\ Reject({})

-----------------------------------------------------------------------------
(* parse_descriptor                                                        *)

\* The set name and its padding, after the fixed header.
SetEnd(d) == DescHeaderSize + d.set_len + Pad4(d.set_len)

\* Fault: the number of records is not bounded.
DescFitsAnyCount(d) ==
  /\ d.known /\ d.count # 0
  /\ d.set_len \in 1..MaxSetNameLen
  /\ Fits(DescHeaderSize, d.set_len, desc.size)
  /\ Fits(DescHeaderSize + d.set_len, Pad4(d.set_len), desc.size)

\* Fault: the padding of the set name is not held against the descriptor.
DescFitsNoPad(d) ==
  /\ d.known /\ d.count \in 1..MaxRecordCount
  /\ d.set_len \in 1..MaxSetNameLen
  /\ Fits(DescHeaderSize, d.set_len, desc.size)

DescFits(d) ==
  /\ d.known
  /\ d.count \in 1..MaxRecordCount
  /\ d.set_len \in 1..MaxSetNameLen
  /\ Fits(DescHeaderSize, d.set_len, desc.size)
  /\ Fits(DescHeaderSize + d.set_len, Pad4(d.set_len), desc.size)

DescHeaderBytes == Bytes(desc, 0, DescHeaderSize)
SetNameBytes(d) == Bytes(desc, DescHeaderSize, d.set_len)

BadHeader(d) == ~DescFits(d) /\ Reject({DescHeaderBytes})

BadSetName(d) == DescFits(d) /\ Reject({DescHeaderBytes, SetNameBytes(d)})

TakeHeader(d) ==
  /\ DescFits(d)
  /\ pc' = "records"
  /\ pos' = SetEnd(d)
  /\ todo' = d.count
  /\ reads' = {DescHeaderBytes, SetNameBytes(d)}
  /\ UNCHANGED <<file, elf, sec, off, desc, out>>

ReadHeader ==
  /\ pc = "header"
  /\ \/ desc.size < DescHeaderSize /\ Reject({})
     \/ /\ desc.size >= DescHeaderSize
        /\ \E d \in DescHeaders(file, desc.at) :
             \/ BadHeader(d)
             \/ \E s \in Names(file, desc.at + DescHeaderSize, d.set_len) :
                  IF s = Garbled THEN BadSetName(d) ELSE TakeHeader(d)

\* Fault: the strings are not held against the size of the record.
RecordFitsNoUnderflow(r) ==
  /\ r.size >= RecordHeaderSize /\ r.size % 4 = 0
  /\ r.reserved0 = 0 /\ "reserved" \notin r.flags /\ r.kind \in Kinds
  /\ r.type_len <= MaxStringLen /\ r.field_len <= MaxStringLen
  /\ Fits(pos + RecordHeaderSize, r.size - RecordHeaderSize, desc.size)

\* The checks made before the strings are read.
RecordFits(r) ==
  /\ r.size >= RecordHeaderSize
  /\ r.size % 4 = 0
  /\ r.reserved0 = 0
  /\ "reserved" \notin r.flags
  /\ r.kind \in Kinds
  /\ r.type_len <= MaxStringLen /\ r.field_len <= MaxStringLen
  /\ Fits(pos + RecordHeaderSize, r.size - RecordHeaderSize, desc.size)
  /\ Plus32(r.type_len, r.field_len) <= r.size - RecordHeaderSize

\* What each kind of record may carry.
KindFits(r) ==
  /\ r.kind \in {"const", "enum"} => r.sizeof = 0 /\ r.alignof = 0
  /\ r.kind \in {"type", "field", "bitfield"} => r.alignof # 0
  /\ (r.field_len = 0) = (r.kind \in {"type", "const"})
  /\ r.kind = "field" => r.flags \subseteq {"optional"}
  /\ r.kind = "enum" => r.flags \subseteq {"signed"}
  /\ r.kind \notin {"field", "enum"} => r.flags = {}
  /\ r.kind = "type" => r.value = 0

Record(r, t, f) ==
  [kind |-> r.kind, flags |-> r.flags, type_name |-> t, field_name |-> f,
   sizeof |-> r.sizeof, alignof |-> r.alignof, value |-> r.value]

\* A record's fixed part, and its strings.
HeaderBytes == Bytes(desc, pos, RecordHeaderSize)
StringBytes(r) == Bytes(desc, pos + RecordHeaderSize, r.type_len + r.field_len)

\* Where the next record starts: after the strings and what pads them.
RecordEnd(r) ==
  LET used == RecordHeaderSize + r.type_len + r.field_len
  IN  pos + used + (IF r.size > used THEN r.size - used ELSE 0)

BadRecord(r) == ~RecordFits(r) /\ Reject({HeaderBytes})

BadContents(r, t, f) ==
  /\ RecordFits(r)
  /\ Garbled \in {t, f} \/ ~KindFits(r)
  /\ Reject({HeaderBytes, StringBytes(r)})

TakeRecord(r, t, f) ==
  /\ RecordFits(r)
  /\ Garbled \notin {t, f} /\ KindFits(r)
  /\ pos' = RecordEnd(r)
  /\ todo' = todo - 1
  /\ out' = Append(out, Record(r, t, f))
  /\ reads' = {HeaderBytes, StringBytes(r)}
  /\ UNCHANGED <<file, pc, elf, sec, off, desc>>

\* The two strings of a record.
TypeNames(r) == Names(file, desc.at + pos + RecordHeaderSize, r.type_len)
FieldNames(r) == Names(file, desc.at + pos + RecordHeaderSize + r.type_len, r.field_len)

ReadRecord ==
  /\ pc = "records" /\ todo > 0
  /\ \/ Plus(pos, RecordHeaderSize) > desc.size /\ Reject({})
     \/ /\ Plus(pos, RecordHeaderSize) <= desc.size
        /\ \E r \in RecordHeaders(file, desc.at + pos) :
             \/ BadRecord(r)
             \/ \E t \in TypeNames(r), f \in FieldNames(r) :
                  BadContents(r, t, f) \/ TakeRecord(r, t, f)

\* What is left of the descriptor must be zero.
ReadTrailing ==
  /\ pc = "records" /\ todo = 0
  /\ \E z \in Zeros(file, desc.at + pos, desc.at + desc.size) :
       pc' = IF z THEN "accepted" ELSE "rejected"
  /\ reads' = IF pos < desc.size THEN {Bytes(desc, pos, desc.size - pos)} ELSE {}
  /\ UNCHANGED <<file, elf, cursor, out>>

Next ==
  \/ ReadElf
  \/ ReadSection
  \/ NoSection
  \/ ReadNote
  \/ NoNote
  \/ ReadHeader
  \/ ReadRecord
  \/ ReadTrailing

Spec == Init /\ [][Next]_vars

\* The reader is one sequential program.
FairSpec == Spec /\ WF_vars(Next)

-----------------------------------------------------------------------------
(* Properties                                                              *)

Span == [at : Nat, size : Nat]

\* Every variable has its type.
TypeOK ==
  /\ file \in Files
  /\ pc \in {"elf", "sections", "notes", "header", "records", "accepted", "rejected"}
  /\ table \in [shoff : Nat, entsize : Nat, num : Nat]
  /\ names \in Span /\ sec \in Span /\ desc \in Span
  /\ nth \in Nat /\ off \in Nat /\ pos \in Nat /\ todo \in 0..MaxRecordCount

\* Whatever the bytes of the object, no step reads outside the span it works
\* on, and no span reaches beyond the object: the unchecked sums in read_obj
\* and in the record loop cannot wrap because of what was checked before them.
ReadsInBounds == \A r \in reads : r.lo <= r.hi /\ r.hi <= r.end /\ r.end <= Size(file)

\* Records stay aligned: the paddings of the set name and of the records keep
\* every record header at a multiple of four, with only record_size to tell.
RecordsAligned == pc = "records" => pos % 4 = 0

\* Every record that is kept is backed by bytes of the descriptor, whatever
\* count its header claims, so memory is bounded by the size of the object.
RecordsBacked == pc = "records" => DescHeaderSize + RecordHeaderSize * Len(out) <= pos /\ pos <= desc.size

\* The reader ends on every object.
Ends == <>(pc \in {"accepted", "rejected"})
=============================================================================
