---------------------------- MODULE DwarfProducer ----------------------------
(***************************************************************************)
(* What a compiler writes into the debug information of a small C program, *)
(* and what the program's bit-field and enumerators mean in C.  The        *)
(* program is a structure S with a bit-field b in the innermost of some    *)
(* nested members, a second b in a member nobody asks for, and an enum E:  *)
(* a source is                                                             *)
(*   [by, debug, linked, wraps, pos, size, unit, base, chain, ask,         *)
(*    anonymous, values]                                                   *)
(***************************************************************************)
EXTENDS Integers, Sequences, FiniteSets, SequencesExt

CONSTANTS None, MaxWord

(***************************************************************************)
(* Compilers.  bits: where a bit-field's offset is counted from.  names,   *)
(* location, constant: the forms used.  root: form of the name of a unit.  *)
(***************************************************************************)
Compilers ==
  [gcc2   |-> [bits |-> "msb", names |-> "string", location |-> "block",
               constant |-> "data1", root |-> "strp", enum_encoding |-> TRUE],
   gcc4   |-> [bits |-> "msb", names |-> "string", location |-> "data1",
               constant |-> "data1", root |-> "strp", enum_encoding |-> TRUE],
   clang4 |-> [bits |-> "start", names |-> "strp", location |-> "data1",
               constant |-> "sdata", root |-> "strp", enum_encoding |-> FALSE],
   \* DWARF 5 of a gcc whose assembler has no .debug_line_str
   gcc5   |-> [bits |-> "start", names |-> "string", location |-> "implicit_const",
               constant |-> "implicit_const", root |-> "strp", enum_encoding |-> TRUE],
   \* DWARF 5 as a present gcc and clang write it
   gcc14  |-> [bits |-> "start", names |-> "string", location |-> "implicit_const",
               constant |-> "implicit_const", root |-> "line_strp", enum_encoding |-> TRUE],
   clang18 |-> [bits |-> "start", names |-> "strx", location |-> "data1",
                constant |-> "sdata", root |-> "strx", enum_encoding |-> FALSE]]

By(s) == Compilers[s.by]

-----------------------------------------------------------------------------
(* Entries.  An attribute is [name, form, const, raw]; label is what other *)
(* entries refer to.                                                       *)

Field(name, form, raw) == [name |-> name, form |-> form, const |-> None, raw |-> raw]
Const(name, v) == [name |-> name, form |-> "implicit_const", const |-> v, raw |-> None]

Number(name, form, n) == IF form = "implicit_const" THEN Const(name, n) ELSE Field(name, form, n)

Name(s, n) == Field("name", By(s).names, n)
Type(label) == Field("type", "ref4", label)

Entry(label, tag, attrs, kids) ==
  [label |-> label, up |-> None, tag |-> tag, attrs |-> attrs, kids |-> kids]

Location(s, at) ==
  IF By(s).location = "block"
    THEN Field("data_member_location", "block", <<[op |-> "plus_uconst", n |-> at]>>)
    ELSE Number("data_member_location", By(s).location, at)

\* Where a bit-field's storage unit begins: an aligned one if that holds the
\* field, or the byte of its first bit.
UnitAt(s, pos) ==
  LET aligned == s.unit * (pos \div (8 * s.unit))
  IN  IF pos + s.size <= 8 * (aligned + s.unit) THEN aligned ELSE pos \div 8

\* From the most significant bit of that unit: negative if it is too short.
BitOffset(s, pos) == 8 * s.unit - s.size - (pos - 8 * UnitAt(s, pos))

BitFieldAttrs(s, pos) ==
  <<Field("bit_size", "data1", s.size)>>
    \o IF By(s).bits = "start"
         THEN <<Field("data_bit_offset", "data1", pos)>>
         ELSE <<Field("bit_offset", IF BitOffset(s, pos) < 0 THEN "sdata" ELSE "data1",
                      BitOffset(s, pos)),
                Location(s, UnitAt(s, pos))>>

Member(s, name, type, at) ==
  Entry(None, "member",
        (IF name = "" THEN <<>> ELSE <<Name(s, name)>>)
          \o <<Type(type), Location(s, at)>>, <<>>)

BitField(s, name, pos) ==
  Entry(None, "member", <<Name(s, name), Type("bits")>> \o BitFieldAttrs(s, pos), <<>>)

\* The structure at a depth of nesting: what leads further in, or b.
Nameless == {"anon", "union"}
MemberNames == <<"m1", "m2", "m3">>
EnumeratorNames == <<"e1", "e2">>
StructLabels == <<"s1", "s2", "s3", "s4">>
ArrayLabels == <<"a1", "a2", "a3">>

Inner(s, k) ==
  IF k > Len(s.wraps) THEN BitField(s, "b", s.pos)
  ELSE Member(s, IF s.wraps[k].how \in Nameless THEN "" ELSE MemberNames[k],
              IF s.wraps[k].how = "array" THEN ArrayLabels[k] ELSE StructLabels[k + 1],
              s.wraps[k].at)

Structs(s) ==
  [k \in 1..(Len(s.wraps) + 1) |->
     Entry(StructLabels[k], IF k > 1 /\ s.wraps[k - 1].how = "union" THEN "union" ELSE "struct",
           (IF k = 1 THEN <<Name(s, "S")>> ELSE <<>>) \o <<Field("byte_size", "data1", 4)>>,
           (IF k = 1 THEN <<Member(s, "d", "decoy", 1), Member(s, "i", "int", 0)>> ELSE <<>>)
             \o <<Inner(s, k)>>)]

Arrays(s) ==
  LET of(k) == Entry(ArrayLabels[k], "array", <<Type(StructLabels[k + 1])>>,
                     <<Entry(None, "subrange", <<>>, <<>>)>>)
      ks == SelectSeq([k \in DOMAIN s.wraps |-> k], LAMBDA k : s.wraps[k].how = "array")
  IN  [j \in DOMAIN ks |-> of(ks[j])]

\* The type of b, behind a typedef and a qualifier if chain.
BitsType(s) ==
  LET encoded == <<Field("encoding", "data1", s.base)>>
      size == <<Field("byte_size", "data1", s.unit)>>
  IN  IF s.base = "enum"
        THEN Entry("base", "enum",
                   size \o (IF By(s).enum_encoding THEN <<Field("encoding", "data1", "unsigned")>>
                            ELSE <<>>), <<>>)
        ELSE Entry("base", "base", encoded \o size, <<>>)

BitsChain(s) ==
  IF s.chain
    THEN <<Entry("bits", "typedef", <<Name(s, "bits_t"), Type("const")>>, <<>>),
           Entry("const", "const", <<Type("base")>>, <<>>), BitsType(s)>>
    ELSE <<[BitsType(s) EXCEPT !.label = "bits"]>>

\* Constants that are not negative may have any form of the compiler's.
Enumerator(s, k) ==
  LET v == s.values[k]
  IN  Entry(None, "enumerator",
            <<Name(s, EnumeratorNames[k]),
              Number("const_value", IF v < 0 THEN "sdata" ELSE By(s).constant, v)>>, <<>>)

Declared(s) ==
  <<Entry(None, "struct", <<Name(s, "S"), Field("declaration", "flag_present", None)>>, <<>>),
    Entry(None, "enum", <<Name(s, "E"), Field("declaration", "flag_present", None)>>, <<>>)>>

Defined(s) ==
  Declared(s) \o Structs(s) \o Arrays(s) \o BitsChain(s)
    \o <<Entry("int", "base", <<Field("encoding", "data1", "signed"), Field("byte_size", "data1", 4)>>, <<>>),
         Entry("decoy", "struct", <<Name(s, "D")>>, <<BitField(s, "b", 0)>>),
         Entry("alias", "typedef", <<Name(s, "T"), Type("s1")>>, <<>>),
         Entry("enum", "enum", <<Name(s, "E"), Field("byte_size", "data1", 4)>>,
               [k \in DOMAIN s.values |-> Enumerator(s, k)])>>

-----------------------------------------------------------------------------
(* What the manifest asks, and what C says.                                *)

\* S under its tag, behind a typedef, or by its bare name.
Requests(s) ==
  LET named(kind, name) == [kind |-> kind, name |-> name]
      root == CASE s.ask = "tag" -> named("struct", "S")
                [] s.ask = "typedef" -> named("other", "T")
                [] s.ask = "bare" -> named("other", "S")
      led == SelectSeq([k \in DOMAIN s.wraps |-> k], LAMBDA k : s.wraps[k].how \notin Nameless)
      comps == [j \in DOMAIN led |->
                  [name |-> MemberNames[led[j]],
                   index |-> IF s.wraps[led[j]].how = "array" THEN s.wraps[led[j]].index ELSE None]]
  IN  <<[ask |-> "bitfield", c_type |-> root, anonymous |-> s.anonymous,
         comps |-> Append(comps, [name |-> "b", index |-> None])],
        [ask |-> "enum", anonymous |-> FALSE, comps |-> <<>>,
         c_type |-> named(IF s.ask = "tag" THEN "enum" ELSE "other", "E")]>>

Bit(s) ==
  LET bytes(k) == s.wraps[k].at + (IF s.wraps[k].how = "array" THEN 4 * s.wraps[k].index ELSE 0)
  IN  s.pos + FoldSet(LAMBDA k, sum : sum + 8 * bytes(k), 0, DOMAIN s.wraps)

(***************************************************************************)
(* What can be answered: a bit-field whose offset fits in a word, is not   *)
(* negative and whose type has an encoding, and that is not behind an      *)
(* anonymous member the manifest does not allow.                           *)
(***************************************************************************)
CanBeAnswered(s) ==
  /\ s.debug
  /\ Bit(s) <= MaxWord
  /\ By(s).bits = "msb" => BitOffset(s, s.pos) >= 0
  /\ s.base = "enum" => By(s).enum_encoding
  /\ s.anonymous \/ \A k \in DOMAIN s.wraps : s.wraps[k].how \notin Nameless

Means(s) ==
  <<[supported |-> CanBeAnswered(s), bit |-> Bit(s), size |-> s.size, signed |-> s.base = "signed"],
    [supported |-> s.debug,
     values |-> [n \in {EnumeratorNames[k] : k \in DOMAIN s.values} |->
                   LET v == s.values[CHOOSE k \in DOMAIN s.values : EnumeratorNames[k] = n]
                   IN  [raw |-> v % (MaxWord + 1), is_signed |-> v < 0]]]>>

-----------------------------------------------------------------------------
(* A unit: its root, the entries under it, nulls, and padding if it is not *)
(* the last.  An item of a unit is an entry that knows its parent's label; *)
(* item j has abbreviation j of the unit, and is j cells into it.          *)

Null == Entry(None, "null", <<>>, <<>>)

Root(s) ==
  Entry("root", "unit",
        <<Field("name", By(s).root, "probe.c")>>
          \o (IF By(s).names = "strx" THEN <<Field("str_offsets_base", "sec_offset", 0)>> ELSE <<>>),
        <<"entries">>)

\* Every entry that has children gets a label.
Items(s, entries) ==
  LET label(k) == IF entries[k].label = None THEN ToString(k) ELSE entries[k].label
      tree(k) == <<[entries[k] EXCEPT !.label = label(k), !.up = "root"]>>
                   \o (IF entries[k].kids = <<>> THEN <<>>
                       ELSE [c \in DOMAIN entries[k].kids |->
                               [entries[k].kids[c] EXCEPT !.up = label(k)]]
                              \o <<[Null EXCEPT !.up = label(k)]>>)
  IN  <<Root(s)>> \o FlattenSeq([k \in DOMAIN entries |-> tree(k)])
        \o <<[Null EXCEPT !.up = "root"]>>

Place(items, label) == CHOOSE j \in DOMAIN items : items[j].label = label

(***************************************************************************)
(* Strings and relocations.  A field that is relocated holds 0; a string   *)
(* index holds the place of the string in .debug_str_offsets, whose own    *)
(* entries are relocated, and hold 0.                                      *)
(***************************************************************************)
Strings == <<"probe.c", "S", "D", "T", "E", "d", "i", "b", "m1", "m2", "m3", "e1", "e2", "bits_t">>
StringAt(name) == (CHOOSE k \in DOMAIN Strings : Strings[k] = name) - 1

Raw(items, attr) ==
  CASE attr.form = "ref4" -> Place(items, attr.raw)
    [] attr.form \in {"strp", "line_strp"} -> 0
    [] attr.form = "strx" -> StringAt(attr.raw)
    [] OTHER -> attr.raw

Cell(items, j) ==
  IF items[j].tag = "null" THEN [code |-> 0, values |-> <<>>]
  ELSE [code |-> j, values |-> [k \in DOMAIN items[j].attrs |-> Raw(items, items[j].attrs[k])]]

Abbreviation(items, j) ==
  [code |-> j, tag |-> items[j].tag, has_children |-> items[j].kids # <<>>,
   attrs |-> [k \in DOMAIN items[j].attrs |->
                [name |-> items[j].attrs[k].name, form |-> items[j].attrs[k].form,
                 const |-> items[j].attrs[k].const]]]

EndOfTable == [code |-> 0, tag |-> "null", has_children |-> FALSE, attrs |-> <<>>]

Abbreviations(items) ==
  Append([k \in 1..(Len(items) - 1) |-> Abbreviation(items, k)], EndOfTable)

-----------------------------------------------------------------------------
(* The object: the unit of the probe, and before it, if linked, one that   *)
(* only declares S and E.  levels and parents tell how deep an entry, or   *)
(* the null of a list, lies, and in which entry.                           *)

UnitsOf(s) ==
  LET defined == Items(s, Defined(s))
      declared == Items(s, Declared(s)) \o <<Null, Null>>
  IN  CASE ~s.debug -> <<>>
        [] s.debug /\ s.linked -> <<declared, defined>>
        [] OTHER -> <<defined>>

Compile(s) ==
  LET us == UnitsOf(s)
      start(n) == IF n = 1 THEN 0 ELSE Len(us[1]) + 1
      table(n) == IF n = 1 THEN 0 ELSE Len(us[1])
      Header(n) == [length |-> Len(us[n]) + 1, abbrevs |-> 0, address_size |-> 8]
      items(n) == {j \in DOMAIN us[n] : us[n][j].tag # "null"}
      strings(n) == {<<j, k>> \in items(n) \X (1..4) :
                       k \in DOMAIN us[n][j].attrs /\ us[n][j].attrs[k].form = "strp"}
      relocs(n) == [f \in {<<start(n) + j[1], j[2]>> : j \in strings(n)} |->
                      StringAt(us[n][f[1] - start(n)].attrs[f[2]].raw)]
                     @@ (<<start(n), 1>> :> table(n))
      parents(n) == [o \in {start(n) + j : j \in items(n)} |->
                       LET up == us[n][o - start(n)].up
                       IN  IF up = None THEN 0 ELSE start(n) + Place(us[n], up)]
      levels(n) == [o \in {start(n) + j : j \in DOMAIN us[n]} |->
                      CASE us[n][o - start(n)].up = None -> 0
                        [] us[n][o - start(n)].up = "root" -> 1
                        [] OTHER -> 2]
      ns == DOMAIN us
  IN  [info |-> FlattenSeq([n \in ns |-> <<Header(n)>> \o [j \in DOMAIN us[n] |-> Cell(us[n], j)]]),
       abbrevs |-> FlattenSeq([n \in ns |-> Abbreviations(us[n])]),
       relocs |-> FoldSet(LAMBDA n, f : relocs(n) @@ f, <<>>, ns),
       levels |-> FoldSet(LAMBDA n, f : levels(n) @@ f, <<>>, ns),
       parents |-> FoldSet(LAMBDA n, f : parents(n) @@ f, <<>>, ns),
       str |-> [o \in 0..(Len(Strings) - 1) |-> Strings[o + 1]],
       str_offsets |-> [k \in DOMAIN Strings |-> 0],
       requests |-> Requests(s),
       means |-> Means(s)]
=============================================================================
