-------------------------- MODULE NoteReader_proofs --------------------------
(***************************************************************************)
(* For every object, every length of it and every width of the integers:   *)
(* the note reader never reads outside the span it works on.               *)
(***************************************************************************)
EXTENDS NoteReader, TLAPS

\* What the reader keeps, over all objects.
AllHeaders == UNION {RecordHeaders(f, at) : f \in Files, at \in 0..MaxWord}
AllNames == UNION {Names(f, at, n) : f \in Files, at \in 0..MaxWord, n \in 0..MaxWord}
Items == {Record(r, t, f) : r \in AllHeaders, t \in AllNames, f \in AllNames}

\* The section header table lies inside the object.
TableInv ==
  pc = "sections" =>
    /\ table.entsize >= ShdrSize
    /\ table.shoff + table.entsize * table.num <= Size(file)
    /\ names.at + names.size <= Size(file)

\* So does the note section, and its size is far from the largest word.
SectionInv ==
  /\ pc \in {"notes", "header", "records"} =>
       sec.at + sec.size <= Size(file) /\ sec.size <= MaxDescSize + SectionSlack
  /\ pc = "notes" => off <= sec.size

\* So does the descriptor.
DescInv ==
  pc \in {"header", "records"} =>
    desc.at + desc.size <= Size(file) /\ desc.size <= MaxDescSize

\* Nothing is kept before the records are read.
OutInv == out \in Seq(Items) /\ (pc \in {"elf", "sections", "notes", "header"} => out = <<>>)

IInv ==
  /\ TypeOK
  /\ TableInv
  /\ SectionInv
  /\ DescInv
  /\ OutInv
  /\ ReadsInBounds
  /\ RecordsAligned
  /\ RecordsBacked

-----------------------------------------------------------------------------
\* An entry of a table that fits ends inside it, whatever its index: the
\* product in get_sh and the unchecked sum in read_obj stay below its end.
LEMMA EntryFits ==
  ASSUME NEW i \in Nat, NEW n \in Nat, NEW e \in Nat, i < n
  PROVE  i * e + e <= e * n
<1> DEFINE k == n - i - 1
<1>1. k \in Nat
  OBVIOUS
<1>2. k * e \in Nat
  BY <1>1
<1>3. e * n = i * e + e + k * e
  OBVIOUS
<1> QED BY <1>2, <1>3

\* Rounding up to a multiple of four does not wrap for what fits 32 bits.
LEMMA AlignUp ==
  ASSUME NEW n \in 0..MaxU32
  PROVE  Align4(n) \in Nat /\ n <= Align4(n)
<1>1. Plus(n, 3) = n + 3
  BY WordsAreWide DEF Plus
<1> QED BY <1>1, WordsAreWide DEF Align4

LEMMA PadUp ==
  ASSUME NEW n \in Nat
  PROVE  Pad4(n) \in 0..3 /\ (n + Pad4(n)) % 4 = 0
BY DEF Pad4

\* A sum that does not wrap is the sum.
LEMMA PlusIsSum ==
  ASSUME NEW a \in Nat, NEW b \in Nat, NEW m \in Nat, a <= m, m + b <= MaxWord
  PROVE  Plus(a, b) = a + b
BY WordsAreWide DEF Plus

\* A rejection disturbs nothing but the ranges it has read.
LEMMA RejectKeeps ==
  ASSUME IInv, NEW ranges, Reject(ranges),
         \A r \in ranges : r.lo <= r.hi /\ r.hi <= r.end /\ r.end <= Size(file)
  PROVE  IInv'
BY DEF IInv, TypeOK, TableInv, SectionInv, DescInv, OutInv, ReadsInBounds, RecordsAligned,
       RecordsBacked, Reject, elf, cursor

-----------------------------------------------------------------------------
LEMMA InitIInv == Init => IInv
<1> SUFFICES ASSUME Init PROVE IInv
  OBVIOUS
<1>1. out = <<>> /\ out \in Seq(Items)
  BY DEF Init
<1> QED BY <1>1, WordsAreWide DEF Init, IInv, TypeOK, Span, TableInv, SectionInv, DescInv, OutInv,
     ReadsInBounds, RecordsAligned, RecordsBacked

-----------------------------------------------------------------------------
\* The object and its length.
LEMMA FileFacts ==
  ASSUME IInv
  PROVE  file \in Files /\ Size(file) \in 0..MaxWord
BY FieldsAreWords DEF IInv, TypeOK

LEMMA ReadElfKeeps ==
  ASSUME IInv, ReadElf
  PROVE  IInv'
<1>0. file \in Files /\ Size(file) \in 0..MaxWord
  BY FileFacts
<1>1. CASE Size(file) < EhdrSize
  BY <1>0, <1>1, RejectKeeps DEF ReadElf, EhdrSize
<1>2. CASE Size(file) >= EhdrSize
  <2>1. PICK h \in ElfHeaders(file) :
          \/ BadTable(h)
          \/ \E s \in SectionHeaders(file, SectionAt(h, h.strndx)) :
               BadStrings(h, s) \/ EnterTable(h, s)
    BY <1>0, <1>2 DEF ReadElf, EhdrSize
  <2>2. h.shoff \in Nat /\ h.entsize \in Nat /\ h.num \in Nat /\ h.strndx \in Nat
    BY <1>0, FieldsAreWords
  <2>3. EhdrBytes.lo <= EhdrBytes.hi /\ EhdrBytes.hi <= EhdrBytes.end /\ EhdrBytes.end <= Size(file)
    BY <1>0, <1>2 DEF EhdrBytes, Bytes, Whole, EhdrSize
  <2>4. CASE BadTable(h)
    BY <2>3, <2>4, RejectKeeps DEF BadTable
  <2>5. CASE ~BadTable(h)
    <3> DEFINE at == SectionAt(h, h.strndx)
               done == {EhdrBytes, ShdrBytes(h, h.strndx)}
    <3>0. PICK s \in SectionHeaders(file, at) : BadStrings(h, s) \/ EnterTable(h, s)
      BY <2>1, <2>5
    <3>1. TableFits(h)
      BY <3>0 DEF BadStrings, EnterTable
    <3>2. /\ h.entsize >= 64 /\ h.strndx < h.num
          /\ h.shoff + h.entsize * h.num <= Size(file)
      BY <3>1 DEF TableFits, Fits, ShdrSize
    <3>3. h.strndx * h.entsize + h.entsize <= h.entsize * h.num
      BY <2>2, <3>2, EntryFits
    <3>4. h.strndx * h.entsize \in Nat /\ h.entsize * h.num \in Nat
      BY <2>2
    <3>5. at \in Nat /\ at + 64 <= Size(file)
      BY <1>0, <2>2, <3>2, <3>3, <3>4 DEF SectionAt
    <3>6. \A r \in done : r.lo <= r.hi /\ r.hi <= r.end /\ r.end <= Size(file)
      BY <1>0, <2>3, <3>5 DEF ShdrBytes, Bytes, Whole, ShdrSize
    <3>7. s.at \in Nat /\ s.size \in Nat
      <4>1. at \in 0..MaxWord
        BY <1>0, <3>5, WordsAreWide
      <4> HIDE DEF at
      <4> QED BY <1>0, <3>0, <4>1, FieldsAreWords
    <3>8. CASE BadStrings(h, s)
      BY <3>6, <3>8, RejectKeeps DEF BadStrings
    <3>9. CASE EnterTable(h, s)
      <4>1. TypeOK'
        BY <2>2, <3>7, <3>9 DEF IInv, TypeOK, Span, EnterTable, cursor
      <4>2. TableInv'
        BY <3>2, <3>7, <3>9 DEF TableInv, EnterTable, Fits, ShdrSize
      <4>3. SectionInv' /\ DescInv' /\ RecordsAligned' /\ RecordsBacked'
        BY <3>9 DEF EnterTable, SectionInv, DescInv, RecordsAligned, RecordsBacked
      <4>4. OutInv'
        <5>1. pc = "elf"
          BY DEF ReadElf
        <5> QED BY <3>9, <5>1 DEF EnterTable, IInv, OutInv
      <4>5. ReadsInBounds'
        BY <3>6, <3>9 DEF EnterTable, ReadsInBounds
      <4> QED BY <4>1, <4>2, <4>3, <4>4, <4>5 DEF IInv
    <3> QED BY <3>0, <3>8, <3>9
  <2> QED BY <2>4, <2>5
<1> QED BY <1>0, <1>1, <1>2 DEF EhdrSize

-----------------------------------------------------------------------------
LEMMA ReadSectionKeeps ==
  ASSUME IInv, ReadSection
  PROVE  IInv'
<1>0. file \in Files /\ Size(file) \in 0..MaxWord
  BY FileFacts
<1>1. /\ pc = "sections" /\ nth < table.num
      /\ table.shoff \in Nat /\ table.entsize \in Nat /\ table.num \in Nat /\ nth \in Nat
      /\ names.at \in Nat /\ names.size \in Nat
  BY DEF ReadSection, IInv, TypeOK, Span
<1>2. /\ table.entsize >= 64
      /\ table.shoff + table.entsize * table.num <= Size(file)
      /\ names.at + names.size <= Size(file)
  BY <1>1 DEF IInv, TableInv, ShdrSize
<1>3. nth * table.entsize + table.entsize <= table.entsize * table.num
  BY <1>1, EntryFits
<1>4. nth * table.entsize \in Nat /\ table.entsize * table.num \in Nat
  BY <1>1
<1> DEFINE at == SectionAt(table, nth)
<1>5. at \in Nat /\ at + 64 <= Size(file)
  BY <1>0, <1>1, <1>2, <1>3, <1>4 DEF SectionAt
<1>6. CASE ~ReadableSection(table, nth) /\ Reject({})
  BY <1>6, RejectKeeps
<1>7. CASE ~(~ReadableSection(table, nth) /\ Reject({}))
  <2>1. PICK s \in SectionHeaders(file, at) :
          BadName(s) \/ SkipSection(s) \/ BadSection(s) \/ TakeSection(s)
    BY <1>7 DEF ReadSection
  <2>2. s.name \in Nat /\ s.at \in Nat /\ s.size \in Nat
    <3>1. at \in 0..MaxWord
      BY <1>0, <1>5, WordsAreWide
    <3> HIDE DEF at
    <3> QED BY <1>0, <2>1, <3>1, FieldsAreWords
  <2> DEFINE header == ShdrBytes(table, nth)
  <2>3. header.lo <= header.hi /\ header.hi <= header.end /\ header.end <= Size(file)
    BY <1>0, <1>5 DEF ShdrBytes, Bytes, Whole, ShdrSize
  <2>4. s.name < names.size =>
          \A r \in SectionReads(s) : r.lo <= r.hi /\ r.hi <= r.end /\ r.end <= Size(file)
    BY <1>0, <1>1, <1>2, <2>2, <2>3 DEF SectionReads, Bytes
  <2>5. CASE BadName(s)
    BY <2>3, <2>5, RejectKeeps DEF BadName
  <2>6. CASE BadSection(s)
    BY <2>4, <2>6, RejectKeeps DEF BadSection
  <2>7. CASE SkipSection(s)
    <3>1. TypeOK'
      BY <1>1, <2>7 DEF SkipSection, IInv, TypeOK, cursor
    <3>2. TableInv' /\ SectionInv' /\ DescInv' /\ OutInv' /\ RecordsAligned' /\ RecordsBacked'
      BY <2>7 DEF SkipSection, IInv, TableInv, SectionInv, DescInv, OutInv, RecordsAligned,
                  RecordsBacked, cursor
    <3>3. ReadsInBounds'
      BY <2>4, <2>7 DEF SkipSection, ReadsInBounds
    <3> QED BY <3>1, <3>2, <3>3 DEF IInv
  <2>8. CASE TakeSection(s)
    <3>1. TypeOK'
      BY <1>1, <2>2, <2>8 DEF TakeSection, IInv, TypeOK, Span, elf
    <3>2. SectionInv'
      BY <2>2, <2>8 DEF TakeSection, SectionFits, Fits, SectionInv
    <3>3. TableInv' /\ DescInv' /\ RecordsAligned' /\ RecordsBacked'
      BY <2>8 DEF TakeSection, TableInv, DescInv, RecordsAligned, RecordsBacked
    <3>4. OutInv'
      BY <1>1, <2>8 DEF TakeSection, IInv, OutInv
    <3>5. ReadsInBounds'
      BY <2>4, <2>8 DEF TakeSection, ReadsInBounds
    <3> QED BY <3>1, <3>2, <3>3, <3>4, <3>5 DEF IInv
  <2> QED BY <2>1, <2>5, <2>6, <2>7, <2>8
<1> QED BY <1>6, <1>7

-----------------------------------------------------------------------------
LEMMA ReadNoteKeeps ==
  ASSUME IInv, ReadNote
  PROVE  IInv'
<1>0. file \in Files /\ Size(file) \in 0..MaxWord
  BY FileFacts
<1>1. /\ pc = "notes" /\ sec.at \in Nat /\ sec.size \in Nat /\ off \in Nat
      /\ sec.at + sec.size <= Size(file) /\ off <= sec.size
      /\ sec.size <= MaxDescSize + SectionSlack
  BY DEF ReadNote, IInv, TypeOK, Span, SectionInv
<1>2. off + 12 <= sec.size
  <2>1. Plus(off, NoteHeaderSize) <= sec.size
    BY DEF ReadNote
  <2> QED BY <1>1, <2>1, WordsAreWide DEF Plus, NoteHeaderSize
<1>3. PICK n \in NoteHeaders(file, sec.at + off) : BadNote(n) \/ SkipNote(n) \/ TakeNote(n)
  BY DEF ReadNote
<1>4. n.namesz \in 0..MaxU32 /\ n.descsz \in 0..MaxU32
  BY <1>0, <1>1, <1>2, FieldsAreWords, WordsAreWide
<1>5. /\ Align4(n.namesz) \in Nat /\ n.namesz <= Align4(n.namesz)
      /\ Align4(n.descsz) \in Nat /\ n.descsz <= Align4(n.descsz)
  BY <1>4, AlignUp
<1> DEFINE header == Bytes(sec, off, NoteHeaderSize)
<1>6. header.lo <= header.hi /\ header.hi <= header.end /\ header.end <= Size(file)
  BY <1>0, <1>1, <1>2 DEF Bytes, NoteHeaderSize
<1>7. NoteFits(n) =>
        /\ DescAt(n) \in Nat /\ DescAt(n) + Align4(n.descsz) <= sec.size
        /\ n.descsz <= MaxDescSize
        /\ off + 12 + n.namesz <= sec.size
  BY <1>1, <1>4, <1>5, WordsAreWide DEF NoteFits, Fits, DescAt, NoteHeaderSize
<1>8. NoteFits(n) =>
        \A r \in NoteReads(n) : r.lo <= r.hi /\ r.hi <= r.end /\ r.end <= Size(file)
  BY <1>0, <1>1, <1>4, <1>6, <1>7, WordsAreWide DEF NoteReads, Bytes, NoteHeaderSize
<1>9. CASE BadNote(n)
  BY <1>6, <1>9, RejectKeeps DEF BadNote
<1>10. CASE SkipNote(n)
  <2>1. TypeOK'
    BY <1>5, <1>7, <1>10 DEF SkipNote, IInv, TypeOK, elf
  <2>2. SectionInv'
    BY <1>1, <1>7, <1>10 DEF SkipNote, SectionInv
  <2>3. TableInv' /\ DescInv' /\ OutInv' /\ RecordsAligned' /\ RecordsBacked'
    BY <1>1, <1>10 DEF SkipNote, IInv, TableInv, DescInv, OutInv, RecordsAligned, RecordsBacked
  <2>4. ReadsInBounds'
    BY <1>8, <1>10 DEF SkipNote, ReadsInBounds
  <2> QED BY <2>1, <2>2, <2>3, <2>4 DEF IInv
<1>11. CASE TakeNote(n)
  <2>1. TypeOK'
    BY <1>1, <1>4, <1>5, <1>7, <1>11, WordsAreWide DEF TakeNote, IInv, TypeOK, Span, elf
  <2>2. SectionInv'
    BY <1>1, <1>11 DEF TakeNote, SectionInv
  <2>3. DescInv'
    BY <1>0, <1>1, <1>4, <1>5, <1>7, <1>11 DEF TakeNote, DescInv
  <2>4. TableInv' /\ RecordsAligned' /\ RecordsBacked'
    BY <1>11 DEF TakeNote, TableInv, RecordsAligned, RecordsBacked
  <2>5. OutInv'
    BY <1>1, <1>11 DEF TakeNote, IInv, OutInv
  <2>6. ReadsInBounds'
    BY <1>8, <1>11 DEF TakeNote, ReadsInBounds
  <2> QED BY <2>1, <2>2, <2>3, <2>4, <2>5, <2>6 DEF IInv
<1> QED BY <1>3, <1>9, <1>10, <1>11

-----------------------------------------------------------------------------
LEMMA ReadHeaderKeeps ==
  ASSUME IInv, ReadHeader
  PROVE  IInv'
<1>0. file \in Files /\ Size(file) \in 0..MaxWord
  BY FileFacts
<1>1. /\ pc = "header" /\ desc.at \in Nat /\ desc.size \in Nat
      /\ desc.at + desc.size <= Size(file) /\ desc.size <= MaxDescSize
      /\ out = <<>>
  BY DEF ReadHeader, IInv, TypeOK, Span, DescInv, OutInv
<1>2. CASE desc.size < DescHeaderSize
  BY <1>1, <1>2, RejectKeeps DEF ReadHeader, DescHeaderSize
<1>3. CASE desc.size >= DescHeaderSize
  <2>1. PICK d \in DescHeaders(file, desc.at) :
          \/ BadHeader(d)
          \/ \E s \in Names(file, desc.at + DescHeaderSize, d.set_len) :
               IF s = Garbled THEN BadSetName(d) ELSE TakeHeader(d)
    BY <1>1, <1>3 DEF ReadHeader, DescHeaderSize
  <2>2. d.count \in Nat /\ d.set_len \in Nat
    <3>1. desc.at \in 0..MaxWord
      BY <1>0, <1>1, WordsAreWide
    <3>2. d.count \in 0..MaxU32 /\ d.set_len \in 0..MaxU32
      BY <1>0, <2>1, <3>1, FieldsAreWords
    <3> QED BY <3>2, WordsAreWide
  <2>3. /\ DescHeaderBytes.lo <= DescHeaderBytes.hi
        /\ DescHeaderBytes.hi <= DescHeaderBytes.end
        /\ DescHeaderBytes.end <= Size(file)
    BY <1>0, <1>1, <1>3 DEF DescHeaderBytes, Bytes, DescHeaderSize
  <2>4. Pad4(d.set_len) \in 0..3 /\ (d.set_len + Pad4(d.set_len)) % 4 = 0
    BY <2>2, PadUp
  <2>5. DescFits(d) =>
          /\ SetEnd(d) \in Nat /\ SetEnd(d) >= 32 /\ SetEnd(d) <= desc.size
          /\ 32 + d.set_len <= desc.size
          /\ d.count <= MaxRecordCount
    <3>1. SetEnd(d) = 32 + d.set_len + Pad4(d.set_len)
      BY DEF SetEnd, DescHeaderSize
    <3>2. DescFits(d) => /\ 32 + d.set_len <= desc.size
                         /\ 32 + d.set_len + Pad4(d.set_len) <= desc.size
                         /\ d.count <= MaxRecordCount
      <4>1. DescFits(d) => d.count <= MaxRecordCount
        BY <2>2, WordsAreWide DEF DescFits
      <4>2. DescFits(d) => Fits(32, d.set_len, desc.size)
        BY DEF DescFits, DescHeaderSize
      <4>3. DescFits(d) => Fits(32 + d.set_len, Pad4(d.set_len), desc.size)
        BY DEF DescFits, DescHeaderSize
      <4> QED BY <4>1, <4>2, <4>3 DEF Fits
    <3>3. Pad4(d.set_len) \in 0..3
      BY <2>4
    <3>4. SetEnd(d) \in Nat /\ SetEnd(d) >= 32
      BY <2>2, <3>1, <3>3
    <3> QED BY <3>1, <3>2, <3>4
  <2>6. SetEnd(d) % 4 = 0
    BY <2>2, <2>4 DEF SetEnd, DescHeaderSize
  <2> DEFINE done == {DescHeaderBytes, SetNameBytes(d)}
  <2>7. DescFits(d) => \A r \in done : r.lo <= r.hi /\ r.hi <= r.end /\ r.end <= Size(file)
    BY <1>0, <1>1, <2>2, <2>3, <2>5 DEF SetNameBytes, Bytes, DescHeaderSize
  <2>8. CASE BadHeader(d)
    BY <2>3, <2>8, RejectKeeps DEF BadHeader
  <2>9. CASE BadSetName(d)
    BY <2>7, <2>9, RejectKeeps DEF BadSetName
  <2>10. CASE TakeHeader(d)
    <3>1. TypeOK'
      BY <1>1, <2>2, <2>5, <2>10, WordsAreWide DEF TakeHeader, IInv, TypeOK, elf
    <3>2. TableInv' /\ SectionInv' /\ DescInv' /\ OutInv'
      BY <1>1, <2>10 DEF TakeHeader, IInv, TableInv, SectionInv, DescInv, OutInv
    <3>3. RecordsAligned'
      BY <2>6, <2>10 DEF TakeHeader, RecordsAligned
    <3>4. RecordsBacked'
      BY <1>1, <2>5, <2>10 DEF TakeHeader, RecordsBacked, DescHeaderSize, RecordHeaderSize
    <3>5. ReadsInBounds'
      BY <2>7, <2>10 DEF TakeHeader, ReadsInBounds
    <3> QED BY <3>1, <3>2, <3>3, <3>4, <3>5 DEF IInv
  <2> QED BY <2>1, <2>8, <2>9, <2>10
<1> QED BY <1>1, <1>2, <1>3 DEF DescHeaderSize

-----------------------------------------------------------------------------
LEMMA ReadRecordKeeps ==
  ASSUME IInv, ReadRecord
  PROVE  IInv'
<1>0. file \in Files /\ Size(file) \in 0..MaxWord
  BY FileFacts
<1>1. /\ pc = "records" /\ todo \in Nat /\ todo > 0 /\ todo <= MaxRecordCount
      /\ desc.at \in Nat /\ desc.size \in Nat /\ pos \in Nat
      /\ desc.at + desc.size <= Size(file) /\ desc.size <= MaxDescSize
      /\ pos % 4 = 0 /\ pos <= desc.size
  BY WordsAreWide DEF ReadRecord, IInv, TypeOK, Span, DescInv, RecordsAligned, RecordsBacked
<1>2. out \in Seq(Items) /\ Len(out) \in Nat /\ 32 + 40 * Len(out) <= pos
  BY <1>1 DEF IInv, OutInv, RecordsBacked, DescHeaderSize, RecordHeaderSize
<1>3. CASE Plus(pos, RecordHeaderSize) > desc.size /\ Reject({})
  BY <1>3, RejectKeeps
<1>4. CASE ~(Plus(pos, RecordHeaderSize) > desc.size /\ Reject({}))
  <2>1. PICK r \in RecordHeaders(file, desc.at + pos) :
          \/ BadRecord(r)
          \/ \E t \in TypeNames(r), f \in FieldNames(r) :
               BadContents(r, t, f) \/ TakeRecord(r, t, f)
    BY <1>4 DEF ReadRecord
  <2>2. pos + 40 <= desc.size
    <3>1. Plus(pos, RecordHeaderSize) <= desc.size
      BY <1>4 DEF ReadRecord
    <3> QED BY <1>1, <3>1, WordsAreWide DEF Plus, RecordHeaderSize
  <2>3. desc.at + pos \in 0..MaxWord
    BY <1>0, <1>1, WordsAreWide
  <2>4. r.size \in 0..MaxU32 /\ r.type_len \in 0..MaxU32 /\ r.field_len \in 0..MaxU32
    BY <1>0, <2>3, FieldsAreWords
  <2>5. /\ HeaderBytes.lo <= HeaderBytes.hi
        /\ HeaderBytes.hi <= HeaderBytes.end
        /\ HeaderBytes.end <= Size(file)
    BY <1>0, <1>1, <2>2 DEF HeaderBytes, Bytes, RecordHeaderSize
  <2> DEFINE used == 40 + r.type_len + r.field_len
             done == {HeaderBytes, StringBytes(r)}
  <2>6. RecordFits(r) =>
          /\ used <= r.size
          /\ pos + r.size <= desc.size
          /\ r.size % 4 = 0
    <3>1. SUFFICES ASSUME RecordFits(r)
                   PROVE  used <= r.size /\ pos + r.size <= desc.size /\ r.size % 4 = 0
      OBVIOUS
    <3>2. /\ r.size >= 40 /\ r.size % 4 = 0
          /\ r.type_len <= MaxStringLen /\ r.field_len <= MaxStringLen
          /\ pos + 40 + (r.size - 40) <= desc.size
          /\ Plus32(r.type_len, r.field_len) <= r.size - 40
      BY <3>1 DEF RecordFits, Fits, RecordHeaderSize
    <3>3. Plus32(r.type_len, r.field_len) = r.type_len + r.field_len
      BY <2>4, <3>2, WordsAreWide DEF Plus32
    <3> QED BY <1>1, <2>4, <3>2, <3>3, WordsAreWide
  <2>7. RecordFits(r) => \A b \in done : b.lo <= b.hi /\ b.hi <= b.end /\ b.end <= Size(file)
    BY <1>0, <1>1, <2>4, <2>5, <2>6, WordsAreWide DEF StringBytes, Bytes, RecordHeaderSize
  <2>8. RecordFits(r) => RecordEnd(r) = pos + r.size
    BY <1>1, <2>4, <2>6, WordsAreWide DEF RecordEnd, RecordHeaderSize
  <2>9. CASE BadRecord(r)
    BY <2>5, <2>9, RejectKeeps DEF BadRecord
  <2>10. CASE ~BadRecord(r)
    <3>1. PICK t \in TypeNames(r), f \in FieldNames(r) :
            BadContents(r, t, f) \/ TakeRecord(r, t, f)
      BY <2>1, <2>10
    <3>2. RecordFits(r)
      BY <3>1 DEF BadContents, TakeRecord
    <3>3. CASE BadContents(r, t, f)
      BY <2>7, <3>2, <3>3, RejectKeeps DEF BadContents
    <3>4. CASE TakeRecord(r, t, f)
      <4>1. r.size \in Nat /\ r.size >= 40 /\ RecordEnd(r) = pos + r.size
        BY <2>4, <2>6, <2>8, <3>2, WordsAreWide
      <4>2. TypeOK'
        <5>1. pos + r.size \in Nat /\ todo - 1 \in 0..MaxRecordCount
          BY <1>1, <4>1, WordsAreWide
        <5> QED BY <3>4, <4>1, <5>1 DEF TakeRecord, IInv, TypeOK, elf
      <4>3. TableInv' /\ SectionInv' /\ DescInv'
        BY <1>1, <3>4 DEF TakeRecord, IInv, TableInv, SectionInv, DescInv
      <4>4. Record(r, t, f) \in Items
        <5>1. r \in AllHeaders
          BY <1>0, <2>3 DEF AllHeaders
        <5>2. /\ desc.at + pos + RecordHeaderSize \in 0..MaxWord
              /\ desc.at + pos + RecordHeaderSize + r.type_len \in 0..MaxWord
              /\ r.type_len \in 0..MaxWord /\ r.field_len \in 0..MaxWord
          BY <1>0, <1>1, <2>4, <2>6, <3>2, WordsAreWide DEF RecordHeaderSize
        <5>3. t \in AllNames
          BY <1>0, <3>1, <5>2 DEF TypeNames, AllNames
        <5>4. f \in AllNames
          BY <1>0, <3>1, <5>2 DEF FieldNames, AllNames
        <5> QED BY <5>1, <5>3, <5>4 DEF Items
      <4>5. out' = Append(out, Record(r, t, f))
        BY <3>4 DEF TakeRecord
      <4>6. out' \in Seq(Items) /\ Len(out') = Len(out) + 1
        BY <1>2, <4>4, <4>5
      <4>7. OutInv'
        BY <1>1, <3>4, <4>6 DEF TakeRecord, OutInv
      <4>8. RecordsAligned'
        <5>1. (pos + r.size) % 4 = 0
          BY <1>1, <2>4, <2>6, <3>2, WordsAreWide
        <5> QED BY <3>4, <4>1, <5>1 DEF TakeRecord, RecordsAligned
      <4>9. RecordsBacked'
        <5>1. 32 + 40 * (Len(out) + 1) <= pos + r.size /\ pos + r.size <= desc.size
          BY <1>1, <1>2, <2>6, <3>2, <4>1
        <5>2. pos' = pos + r.size /\ desc' = desc
          BY <3>4, <4>1 DEF TakeRecord
        <5> QED BY <4>6, <5>1, <5>2 DEF RecordsBacked, DescHeaderSize, RecordHeaderSize
      <4>10. ReadsInBounds'
        BY <2>7, <3>2, <3>4 DEF TakeRecord, ReadsInBounds
      <4> QED BY <4>2, <4>3, <4>7, <4>8, <4>9, <4>10 DEF IInv
    <3> QED BY <3>1, <3>3, <3>4
  <2> QED BY <2>9, <2>10
<1> QED BY <1>3, <1>4

-----------------------------------------------------------------------------
LEMMA ReadTrailingKeeps ==
  ASSUME IInv, ReadTrailing
  PROVE  IInv'
<1>0. file \in Files /\ Size(file) \in 0..MaxWord
  BY FileFacts
<1>1. /\ desc.at \in Nat /\ desc.size \in Nat /\ pos \in Nat
      /\ desc.at + desc.size <= Size(file) /\ pos <= desc.size
  BY DEF ReadTrailing, IInv, TypeOK, Span, DescInv, RecordsBacked
<1>2. ReadsInBounds'
  BY <1>0, <1>1 DEF ReadTrailing, ReadsInBounds, Bytes
<1>3. pc' \in {"accepted", "rejected"}
  BY DEF ReadTrailing
<1> QED BY <1>2, <1>3 DEF ReadTrailing, IInv, TypeOK, TableInv, SectionInv, DescInv, OutInv,
     RecordsAligned, RecordsBacked, elf, cursor

\* Every step keeps the invariant.
LEMMA StepIInv == IInv /\ [Next]_vars => IInv'
<1> SUFFICES ASSUME IInv, [Next]_vars PROVE IInv'
  OBVIOUS
<1>1. CASE ReadElf
  BY <1>1, ReadElfKeeps
<1>2. CASE ReadSection
  BY <1>2, ReadSectionKeeps
<1>3. CASE NoSection \/ NoNote
  BY <1>3, RejectKeeps DEF NoSection, NoNote
<1>4. CASE ReadNote
  BY <1>4, ReadNoteKeeps
<1>5. CASE ReadHeader
  BY <1>5, ReadHeaderKeeps
<1>6. CASE ReadRecord
  BY <1>6, ReadRecordKeeps
<1>7. CASE ReadTrailing
  BY <1>7, ReadTrailingKeeps
<1>8. CASE UNCHANGED vars
  BY <1>8 DEF vars, elf, cursor, IInv, TypeOK, TableInv, SectionInv, DescInv, OutInv,
              ReadsInBounds, RecordsAligned, RecordsBacked
<1> QED BY <1>1, <1>2, <1>3, <1>4, <1>5, <1>6, <1>7, <1>8 DEF Next

\* The invariant holds in every state.
LEMMA InvariantHolds == Spec => []IInv
BY InitIInv, StepIInv, PTL DEF Spec

\* Every variable has its type, for every object.
THEOREM TypeCorrect == Spec => []TypeOK
<1>1. IInv => TypeOK
  BY DEF IInv
<1> QED BY <1>1, InvariantHolds, PTL

\* No step of find_note_section, parse_note or parse_descriptor reads outside
\* its span, whatever the bytes and the length of the object.
THEOREM NeverReadsOutside == Spec => []ReadsInBounds
<1>1. IInv => ReadsInBounds
  BY DEF IInv
<1> QED BY <1>1, InvariantHolds, PTL

\* Record headers stay at multiples of four.
THEOREM StaysAligned == Spec => []RecordsAligned
<1>1. IInv => RecordsAligned
  BY DEF IInv
<1> QED BY <1>1, InvariantHolds, PTL

\* What is kept is bounded by the bytes that were there, not by the count the
\* header claims.
THEOREM KeepsNoMoreThanBytes == Spec => []RecordsBacked
<1>1. IInv => RecordsBacked
  BY DEF IInv
<1> QED BY <1>1, InvariantHolds, PTL
=============================================================================
