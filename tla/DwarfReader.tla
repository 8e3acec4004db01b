----------------------------- MODULE DwarfReader -----------------------------
(***************************************************************************)
(* How layout_parse reads debug information: the units of .debug_info and  *)
(* their entries (DIEs) one after another, then the answers to what the    *)
(* manifest asks: the bits of a bit-field, the enumerators of an enum.     *)
(*                                                                         *)
(* .debug_info is a sequence of cells, and an offset is the place of a     *)
(* cell: a unit header, an entry (an abbreviation code and the raw values  *)
(* of its attributes) or the null that ends a list of children.            *)
(***************************************************************************)
EXTENDS Integers, Sequences, FiniteSets, FiniteSetsExt, SequencesExt

CONSTANTS
  Sources,     \* what was compiled, and what is asked about it
  Object(_),   \* [info, abbrevs, relocs, levels, parents, str, str_offsets, requests, means]
  None,        \* std::nullopt, nullptr
  Fatal,       \* the value of a computation that calls fatal()
  MaxChain,    \* longest chain of typedefs and qualifiers
  MaxWord      \* largest std::uint64_t

ASSUME WordsAndChainsAreNat == MaxWord \in Nat /\ MaxChain \in Nat

CellOf(o, offset) == o.info[offset + 1]

IsHeader(o, offset) == "length" \in DOMAIN CellOf(o, offset)

\* Units lie one after the other, or the section is cut off.
UnitsAdjoin(o) ==
  /\ Len(o.info) \in Nat /\ Len(o.requests) \in Nat
  /\ Len(o.info) > 0 => IsHeader(o, 0)
  /\ \A h \in 0..Len(o.info) - 1 :
       IsHeader(o, h) =>
         LET end == h + CellOf(o, h).length
         IN  /\ CellOf(o, h).length \in Nat
             /\ end < Len(o.info) => IsHeader(o, end)

ASSUME ObjectsHaveUnits == \A s \in Sources : UnitsAdjoin(Object(s))

VARIABLES
  object,   \* the object and the requests of the manifest
  pc,       \* where the reader is
  off,      \* cursor in .debug_info
  units,    \* units read: [offset, end, abbrevs, address_size, base]
  stack,    \* offsets of the entries whose children are being read
  dies,     \* entries read
  out       \* answers to the requests

vars == <<object, pc, off, units, stack, dies, out>>

-----------------------------------------------------------------------------
(* Sections                                                                *)

Size == Len(object.info)
At(offset) == CellOf(object, offset)

\* A relocated field has the value of its relocation.
Located(o, field, raw) == IF field \in DOMAIN o.relocs THEN o.relocs[field] ELSE raw

\* parse_abbrev_table: from an offset to the code 0; the first of a code stays.
AbbrevTable(o, at) ==
  LET rest == {i \in DOMAIN o.abbrevs : i > at}
      ends == {i \in rest : o.abbrevs[i].code = 0}
      decls == {i \in rest : \A e \in ends : i < e}
      codes == {o.abbrevs[i].code : i \in decls}
  IN  [c \in codes |-> o.abbrevs[Min({i \in decls : o.abbrevs[i].code = c})]]

\* The abbreviations of the unit with its header at an offset.
AbbrevsAt(o, at) == AbbrevTable(o, Located(o, <<at, 1>>, CellOf(o, at).abbrevs))

-----------------------------------------------------------------------------
(* Attributes                                                              *)

FormsOf ==
  [unsigned |-> {"data1", "data2", "data4", "data8", "udata", "addr", "sec_offset"},
   signed   |-> {"sdata", "implicit_const"},
   string   |-> {"string", "strp"},
   strx     |-> {"strx"},
   ref      |-> {"ref4", "ref_addr"},
   flag     |-> {"flag", "flag_present"},
   expr     |-> {"exprloc"},
   block    |-> {"block"}]

Forms == UNION {FormsOf[k] : k \in DOMAIN FormsOf}
Relocatable == {"data4", "data8", "addr", "sec_offset", "strp", "ref_addr"}

\* Fault: a reference within a unit is taken for one into the section.
AbsoluteRef(u, raw) == raw

\* "DIE references use absolute .debug_info offsets."
UnitRef(u, raw) == u.offset + raw

\* read_attr_value
AttrValue(u, spec, field, raw) ==
  LET placed == IF spec.form \in Relocatable THEN Located(object, field, raw) ELSE raw
  IN  [kind |-> CHOOSE k \in DOMAIN FormsOf : spec.form \in FormsOf[k],
       v |-> CASE spec.form = "implicit_const" -> spec.const
               [] spec.form = "ref4" -> UnitRef(u, raw)
               [] spec.form = "flag" -> raw # 0
               [] spec.form = "flag_present" -> TRUE
               [] spec.form = "strp" -> object.str[placed]
               [] OTHER -> placed]

\* The attributes of the entry at an offset; the first of a name stays.
Attributes(u, specs, at) ==
  [n \in {specs[k].name : k \in DOMAIN specs} |->
     LET k == Min({j \in DOMAIN specs : specs[j].name = n})
     IN  AttrValue(u, specs[k], <<at, k>>, At(at).values[k])]

-----------------------------------------------------------------------------
(* parse_dwarf                                                             *)

Init ==
  /\ \E s \in Sources : object = Object(s)
  /\ pc = "unit"
  /\ off = 0
  /\ units = <<>>
  /\ stack = <<>>
  /\ dies = <<>>
  /\ out = <<>>

Goto(label) == pc' = label

Reject == Goto("rejected") /\ UNCHANGED <<object, off, units, stack, dies, out>>

NoSections ==
  /\ pc = "unit"
  /\ object.info = <<>> \/ object.abbrevs = <<>>
  /\ Reject

\* A length of zero ends the section.
MoreUnits == off < Size /\ At(off).length # 0

UnitEnd(length) == off + length

\* A unit header, or one that runs past the section.
ReadUnit ==
  /\ pc = "unit" /\ object.abbrevs # <<>> /\ MoreUnits
  /\ IF off + At(off).length > Size
       THEN Reject
       ELSE /\ units' = Append(units,
                 [offset |-> off, end |-> UnitEnd(At(off).length),
                  abbrevs |-> AbbrevsAt(object, off),
                  address_size |-> At(off).address_size, base |-> 0])
            /\ off' = off + 1
            /\ stack' = <<>>
            /\ Goto("dies")
            /\ UNCHANGED <<object, dies, out>>

Unit == Last(units)

\* A null ends the children of an entry; padding at the end of a unit ends
\* nothing.
ReadNull ==
  /\ pc = "dies" /\ off < Unit.end /\ At(off).code = 0
  /\ stack' = IF stack = <<>> THEN stack ELSE Front(stack)
  /\ off' = off + 1
  /\ UNCHANGED <<object, pc, units, dies, out>>

\* Fault: whoever has no children is not told apart.
PushAlways(decl) == Append(stack, off)

PushParent(decl) == IF decl.has_children THEN Append(stack, off) ELSE stack

Die(decl) ==
  [offset |-> off, tag |-> decl.tag, depth |-> Len(stack),
   parent |-> IF stack = <<>> THEN 0 ELSE Last(stack),
   unit |-> Len(units), attrs |-> Attributes(Unit, decl.attrs, off)]

\* The root of a unit says where its string offsets begin.
NoteBase(die) ==
  IF /\ die.depth = 0
     /\ "str_offsets_base" \in DOMAIN die.attrs
     /\ die.attrs["str_offsets_base"].kind = "unsigned"
    THEN [units EXCEPT ![Len(units)].base = die.attrs["str_offsets_base"].v]
    ELSE units

ReadDie ==
  /\ pc = "dies" /\ off < Unit.end /\ At(off).code # 0
  /\ IF \/ At(off).code \notin DOMAIN Unit.abbrevs
        \/ \E k \in DOMAIN Unit.abbrevs[At(off).code].attrs :
             Unit.abbrevs[At(off).code].attrs[k].form \notin Forms
       THEN Reject
       ELSE LET decl == Unit.abbrevs[At(off).code]
                die == Die(decl)
            IN  /\ dies' = Append(dies, die)
                /\ units' = NoteBase(die)
                /\ stack' = PushParent(decl)
                /\ off' = off + 1
                /\ UNCHANGED <<object, pc, out>>

EndUnit ==
  /\ pc = "dies" /\ off >= Unit.end
  /\ off' = Unit.end
  /\ Goto("unit")
  /\ UNCHANGED <<object, units, stack, dies, out>>

EndInfo ==
  /\ pc = "unit" /\ object.info # <<>> /\ object.abbrevs # <<>>
  /\ ~MoreUnits
  /\ Goto("extract")
  /\ UNCHANGED <<object, off, units, stack, dies, out>>

-----------------------------------------------------------------------------
(* Reading the tree: an entry is its place in dies                         *)

\* A computation on x, unless there is no x.
Try(x, Then(_)) == IF x \in {None, Fatal} THEN Fatal ELSE Then(x)

FindDie(offset) ==
  IF offset >= Size THEN Fatal
  ELSE IF \E i \in DOMAIN dies : dies[i].offset = offset
    THEN CHOOSE i \in DOMAIN dies : dies[i].offset = offset
    ELSE None

\* Children are found by the offset of their parent; 0 stands for none.
Children(i, tag) ==
  {c \in DOMAIN dies : dies[c].parent = dies[i].offset /\ dies[c].parent # 0 /\ dies[c].tag = tag}

Has(i, a, kind) == a \in DOMAIN dies[i].attrs /\ dies[i].attrs[a].kind = kind

\* get_attr_string, get_attr_u64, get_attr_s64, get_attr_ref
Str(i, a) ==
  IF Has(i, a, "string") THEN dies[i].attrs[a].v
  ELSE IF ~Has(i, a, "strx") THEN None
  ELSE LET entry == units[dies[i].unit].base + dies[i].attrs[a].v
       IN  IF entry >= Len(object.str_offsets) THEN Fatal
           ELSE object.str[object.str_offsets[entry + 1]]

U64(i, a) ==
  IF Has(i, a, "unsigned") \/ (Has(i, a, "signed") /\ dies[i].attrs[a].v >= 0)
    THEN dies[i].attrs[a].v ELSE None

S64(i, a) == IF Has(i, a, "signed") \/ Has(i, a, "unsigned") THEN dies[i].attrs[a].v ELSE None

Ref(i, a) == IF Has(i, a, "ref") THEN dies[i].attrs[a].v ELSE None

IsDeclaration(i) ==
  \/ Has(i, "declaration", "flag") /\ dies[i].attrs["declaration"].v
  \/ Has(i, "declaration", "unsigned") /\ dies[i].attrs["declaration"].v # 0

\* eval_exprloc: a stack of words.  Sums wrap.
Eval(ops) ==
  LET push(s, v) == Append(s, v % (MaxWord + 1))
      do(s, o) ==
        CASE s = Fatal -> Fatal
          [] o.op = "plus_uconst" /\ s = <<>> -> push(s, o.n)
          [] o.op = "plus_uconst" /\ s # <<>> -> push(Front(s), Last(s) + o.n)
          [] o.op \in {"constu", "consts"} -> IF o.n < 0 THEN Fatal ELSE push(s, o.n)
          [] o.op = "plus" -> IF Len(s) < 2 THEN Fatal
                              ELSE push(Front(Front(s)), Last(s) + Last(Front(s)))
          [] OTHER -> Fatal
      end == FoldLeft(do, <<>>, ops)
  IN  IF end = Fatal THEN Fatal ELSE IF Len(end) = 1 THEN end[1] ELSE Fatal

DataMemberLocation(i) ==
  LET a == "data_member_location"
  IN  CASE a \notin DOMAIN dies[i].attrs -> 0
        [] Has(i, a, "unsigned") \/ Has(i, a, "signed") ->
             IF dies[i].attrs[a].v < 0 THEN Fatal ELSE dies[i].attrs[a].v
        [] Has(i, a, "expr") \/ Has(i, a, "block") -> Eval(dies[i].attrs[a].v)
        [] OTHER -> Fatal

-----------------------------------------------------------------------------
(* Types                                                                   *)

\* Names that are none.
Unnamed == {None, ""}

Modifiers == {"typedef", "const", "volatile", "restrict", "atomic"}

Target(i) == IF Ref(i, "type") = None THEN None ELSE FindDie(Ref(i, "type"))

\* resolve_type: where a chain of typedefs and qualifiers ends.
ResolveType(i) ==
  LET end[depth \in 0..(MaxChain + 1), j \in DOMAIN dies] ==
        IF depth > MaxChain THEN Fatal
        ELSE IF dies[j].tag \notin Modifiers THEN j
        ELSE IF Target(j) \in {None, Fatal} THEN Target(j)
        ELSE end[depth + 1, Target(j)]
  IN  end[0, i]

\* The resolved type of a member or of an array's elements.
TypeOf(i) == IF Target(i) \in {None, Fatal} THEN Target(i) ELSE ResolveType(Target(i))

ByteSize(i) ==
  IF U64(i, "byte_size") # None THEN U64(i, "byte_size")
  ELSE IF dies[i].tag = "pointer" THEN units[dies[i].unit].address_size
  ELSE None

IsSigned(i) ==
  Try(ResolveType(i), LAMBDA base :
    CASE U64(base, "encoding") \in {"signed", "signed_char", "signed_fixed"} -> TRUE
      [] U64(base, "encoding") \in {"unsigned", "unsigned_char", "unsigned_fixed", "boolean"} -> FALSE
      [] OTHER -> Fatal)

Defines(i, name) == Str(i, "name") = name /\ ~IsDeclaration(i)

\* find_named_die: the first definition of that tag and name.
FindNamed(tag, name) ==
  LET stops == {i \in DOMAIN dies :
                  dies[i].tag = tag /\ (Str(i, "name") = Fatal \/ Defines(i, name))}
  IN  CASE stops = {} -> None
        [] stops # {} /\ Str(Min(stops), "name") = Fatal -> Fatal
        [] OTHER -> Min(stops)

\* The first of some tags that has a definition of the name.
FindTagged(tags, name) ==
  LET found == SelectSeq([k \in DOMAIN tags |-> FindNamed(tags[k], name)], LAMBDA i : i # None)
  IN  IF found = <<>> THEN None ELSE Head(found)

\* resolve_c_type: "struct x", or "x", which is looked for among the typedefs
\* first.
ResolveCType(c_type, expect) ==
  IF c_type.kind # "other" THEN FindNamed(c_type.kind, c_type.name)
  ELSE LET alias == FindNamed("typedef", c_type.name)
       IN  IF alias = Fatal THEN Fatal
           ELSE IF alias # None
             THEN Try(TypeOf(alias), LAMBDA base :
                    IF expect \notin {None, dies[base].tag} THEN Fatal ELSE base)
             ELSE IF expect # None THEN FindNamed(expect, c_type.name)
             ELSE FindTagged(<<"struct", "union", "enum", "base">>, c_type.name)

-----------------------------------------------------------------------------
(* Members                                                                 *)

\* A sum of offsets that must not wrap.
Sum(a, b) == IF a + b > MaxWord THEN Fatal ELSE a + b

\* What is found behind an anonymous member lies that much further.
Nested(found, loc) ==
  Try(Sum(found.base, loc), LAMBDA base : [found EXCEPT !.base = base])

Searched(c, anonymous) == anonymous /\ Str(c, "name") \in Unnamed

\* find_member_recursive: [member, base, loc], base being where the structure
\* that holds the member lies in type t.
FindMember(t, name, anonymous) ==
  LET find[u \in DOMAIN dies] ==
        LET hit(c) ==
              LET loc == DataMemberLocation(c)
                  type == TypeOf(c)
              IN  CASE Fatal \in {loc, Str(c, "name")} -> Fatal
                    [] Str(c, "name") = name -> [member |-> c, base |-> 0, loc |-> loc]
                    [] Str(c, "name") # name /\ ~Searched(c, anonymous) -> None
                    [] OTHER ->
                         IF type \in {None, Fatal} THEN type
                         ELSE IF dies[type].tag \notin {"struct", "union"} THEN None
                         ELSE IF find[type] \in {None, Fatal} THEN find[type]
                         ELSE Nested(find[type], loc)
            hits == {c \in Children(u, "member") : hit(c) # None}
        IN  CASE hits = {} -> None
              [] Cardinality(hits) > 1 \/ \E c \in hits : hit(c) = Fatal -> Fatal
              [] OTHER -> hit(CHOOSE c \in hits : TRUE)
  IN  find[t]

\* One component of a designator but the last: the type it leads to, and the
\* bytes up to there.
Descend(at, comp, anonymous) ==
  LET to(bytes, type) ==
        Try(Sum(at.prefix, bytes), LAMBDA prefix : [type |-> type, prefix |-> prefix])
      elements(found, type) ==
        IF dies[type].tag # "array" THEN Fatal
        ELSE Try(TypeOf(type), LAMBDA element :
               Try(ByteSize(element), LAMBDA size :
                 to(found.base + found.loc + comp.index * size, element)))
  IN  Try(FindMember(at.type, comp.name, anonymous), LAMBDA found :
        Try(TypeOf(found.member), LAMBDA type :
          IF comp.index # None THEN elements(found, type)
          ELSE IF dies[type].tag = "array" THEN Fatal
          ELSE to(found.base + found.loc, type)))

\* The last component counts only up to the structure that holds it.
LastPrefix(prefix, found) == Sum(prefix, found.base)

\* resolve_bitfield
ResolveBitfield(root, comps, anonymous) ==
  LET before == FoldLeft(LAMBDA at, c : Try(at, LAMBDA a : Descend(a, c, anonymous)),
                         [type |-> root, prefix |-> 0], Front(comps))
  IN  Try(before, LAMBDA at :
        Try(FindMember(at.type, Last(comps).name, anonymous), LAMBDA found :
          IF Last(comps).index # None THEN Fatal
          ELSE Try(LastPrefix(at.prefix, found), LAMBDA prefix :
                 [member |-> found.member, prefix |-> prefix])))

-----------------------------------------------------------------------------
(* extract_bitfield_geometry                                               *)

\* DWARF 5: from the start of the structure, and DWARF 4 of clang.
FromDataBitOffset(m, prefix) ==
  IF prefix * 8 > MaxWord THEN Fatal ELSE Sum(prefix * 8, U64(m, "data_bit_offset"))

\* Fault: the offset is taken for one from the least significant bit.
FromUnitStart(m, prefix, size) ==
  Sum((prefix + DataMemberLocation(m)) * 8, U64(m, "bit_offset"))

\* DWARF 4 of gcc: from the most significant bit of the storage unit.
FromBitOffset(m, prefix, size) ==
  Try(TypeOf(m), LAMBDA type :
    Try(ByteSize(type), LAMBDA bytes :
      LET last == (U64(m, "bit_offset") + size) % (MaxWord + 1)
          bits == (bytes * 8) % (MaxWord + 1)
          base == (prefix + DataMemberLocation(m)) * 8
      IN  IF last > bits \/ base > MaxWord THEN Fatal ELSE Sum(base, bits - last)))

AbsBitOffset(m, prefix, size) ==
  CASE U64(m, "data_bit_offset") # None -> FromDataBitOffset(m, prefix)
    [] U64(m, "data_bit_offset") = None /\ U64(m, "bit_offset") # None ->
         FromBitOffset(m, prefix, size)
    [] OTHER -> Fatal

Geometry(abs, size, signed) ==
  [abs_bit_offset |-> abs, bit_size |-> size, is_signed |-> signed,
   byte_offset |-> abs \div 8, bit_in_byte |-> abs % 8,
   span_bytes |-> ((abs % 8) + size + 7) \div 8]

ExtractGeometry(request) ==
  Try(ResolveCType(request.c_type, None), LAMBDA root :
    IF dies[root].tag \notin {"struct", "union"} THEN Fatal
    ELSE Try(ResolveBitfield(root, request.comps, request.anonymous), LAMBDA r :
      Try(U64(r.member, "bit_size"), LAMBDA size :
        IF size \notin 1..64 THEN Fatal
        ELSE Try(AbsBitOffset(r.member, r.prefix, size), LAMBDA abs :
          Try(Target(r.member), LAMBDA type :
            Try(IsSigned(type), LAMBDA signed :
              Geometry(abs, size, signed)))))))

-----------------------------------------------------------------------------
(* extract_enum_values                                                     *)

\* Fault: the sign of a constant is lost.
UnsignedOnly(c) ==
  Try(S64(c, "const_value"), LAMBDA v : [raw |-> v % (MaxWord + 1), is_signed |-> FALSE])

\* "Negative signed values are retained as two's-complement payload plus
\* signedness flag."
EnumValue(c) ==
  IF U64(c, "const_value") # None
    THEN [raw |-> U64(c, "const_value"), is_signed |-> FALSE]
    ELSE Try(S64(c, "const_value"), LAMBDA v : [raw |-> v % (MaxWord + 1), is_signed |-> TRUE])

\* As a function of the enumerators' names, which the code sorts.
ExtractEnum(request) ==
  Try(ResolveCType(request.c_type, "enum"), LAMBDA e :
    LET named == {c \in Children(e, "enumerator") : Str(c, "name") \notin Unnamed}
    IN  IF IsDeclaration(e) \/ \E c \in named : Fatal \in {Str(c, "name"), EnumValue(c)} THEN Fatal
        ELSE [n \in {Str(c, "name") : c \in named} |->
                EnumValue(CHOOSE c \in named : Str(c, "name") = n)])

-----------------------------------------------------------------------------
(* extract_dwarf                                                           *)

Request == object.requests[Len(out) + 1]

Answer(request) ==
  IF request.ask = "bitfield" THEN ExtractGeometry(request) ELSE ExtractEnum(request)

Extract ==
  /\ pc = "extract" /\ Len(out) < Len(object.requests)
  /\ IF Answer(Request) = Fatal
       THEN Reject
       ELSE /\ out' = Append(out, Answer(Request))
            /\ UNCHANGED <<object, pc, off, units, stack, dies>>

Finish ==
  /\ pc = "extract" /\ Len(out) = Len(object.requests)
  /\ Goto("done")
  /\ UNCHANGED <<object, off, units, stack, dies, out>>

Next ==
  \/ NoSections
  \/ ReadUnit
  \/ ReadNull
  \/ ReadDie
  \/ EndUnit
  \/ EndInfo
  \/ Extract
  \/ Finish

Spec == Init /\ [][Next]_vars

-----------------------------------------------------------------------------
(* Properties                                                              *)

\* Every variable has its type.
TypeOK ==
  /\ pc \in {"unit", "dies", "extract", "done", "rejected"}
  /\ off \in 0..Size
  /\ \A i \in DOMAIN units : units[i].offset < units[i].end /\ units[i].end <= Size
  /\ \A i \in DOMAIN stack : stack[i] \in 0..(Size - 1)
  /\ \A i \in DOMAIN dies : dies[i].unit \in DOMAIN units /\ dies[i].offset < Size
  /\ Len(out) <= Len(object.requests)

\* Each entry hangs where the compiler put it: the stack of open entries, fed
\* by has_children and the nulls, gives every entry the level and the parent it
\* has in the source, for units with padding, empty lists and several levels.
NestingIsKept ==
  /\ TypeOK
  /\ \A i \in DOMAIN dies :
       /\ dies[i].depth = object.levels[dies[i].offset]
       /\ dies[i].parent = object.parents[dies[i].offset]

(***************************************************************************)
(* What makes a list of entries a tree.  One level deeper after an entry   *)
(* with children, one level up after a null, which at level 0 is padding;  *)
(* the parent is the last entry before it of the level above.              *)
(***************************************************************************)
IsEntry(o, x) == CellOf(o, x).code # 0

OpensLevel(o, h, x) == AbbrevsAt(o, h)[CellOf(o, x).code].has_children

LastOfLevel(o, h, x, p, level) ==
  /\ p \in h + 1..x - 1 /\ IsEntry(o, p) /\ o.levels[p] = level
  /\ \A q \in p + 1..x - 1 : IsEntry(o, q) => o.levels[q] # level

FollowsLevel(o, h, x) ==
  LET now == o.levels[x]
  IN  o.levels[x + 1] =
        IF IsEntry(o, x) THEN (IF OpensLevel(o, h, x) THEN now + 1 ELSE now)
        ELSE IF now = 0 THEN 0 ELSE now - 1

UnitIsTree(o, h) ==
  \A x \in h + 1..h + CellOf(o, h).length - 1 :
    /\ o.levels[x] \in Nat
    /\ x = h + 1 => o.levels[x] = 0
    /\ x < h + CellOf(o, h).length - 1 => FollowsLevel(o, h, x)
    /\ IsEntry(o, x) =>
         IF o.levels[x] = 0 THEN o.parents[x] = 0
         ELSE LastOfLevel(o, h, x, o.parents[x], o.levels[x] - 1)

EntriesAreTrees(o) ==
  \A h \in 0..Len(o.info) - 1 :
    IsHeader(o, h) /\ h + CellOf(o, h).length <= Len(o.info) => UnitIsTree(o, h)

\* No silent corruption of geometry: the bits reported for a bit-field are
\* those the compiler uses, in either encoding, behind typedefs, anonymous
\* members, array elements and chains of members; offsets that do not fit in a
\* word are refused, never wrapped.
GeometryIsTheCompilers ==
  \A k \in DOMAIN out :
    object.requests[k].ask = "bitfield" =>
      /\ out[k].abs_bit_offset = object.means[k].bit
      /\ out[k].bit_size = object.means[k].size
      /\ out[k].is_signed = object.means[k].signed
      /\ 8 * out[k].byte_offset + out[k].bit_in_byte = object.means[k].bit
      /\ 8 * (out[k].span_bytes - 1) < out[k].bit_in_byte + out[k].bit_size
      /\ out[k].bit_in_byte + out[k].bit_size <= 8 * out[k].span_bytes

\* The enumerators with a name that hang in the entry at an offset.
NamedIn(p) ==
  {c \in DOMAIN dies : /\ dies[c].tag = "enumerator" /\ dies[c].parent = p
                       /\ Str(c, "name") \notin Unnamed}

\* A constant, its two's complement in a word.
AsWord(v) == [raw |-> v % (MaxWord + 1), is_signed |-> v < 0]

\* An answer is all named enumerators of one entry, each with its constant.
IsEnumAt(answer, p) ==
  /\ DOMAIN answer = {Str(c, "name") : c \in NamedIn(p)}
  /\ \A n \in DOMAIN answer :
       \E c \in NamedIn(p) :
         Str(c, "name") = n /\ answer[n] = AsWord(dies[c].attrs["const_value"].v)

\* What is answered for an enum are all enumerators of one entry, none left out
\* and none from elsewhere, each with the value its constant has in a word and
\* with the sign of it, whichever form wrote it.
EnumeratorsKeepSign ==
  \A k \in DOMAIN out :
    object.requests[k].ask = "enum" /\ DOMAIN out[k] # {} =>
      \E p \in {dies[i].parent : i \in DOMAIN dies} : IsEnumAt(out[k], p)

\* "Enum extraction preserves signedness": exactly the enumerators of the
\* definition, each with its value and sign, whichever form its constant has.
EnumeratorsAreTheCompilers ==
  /\ EnumeratorsKeepSign
  /\ \A k \in DOMAIN out : object.requests[k].ask = "enum" => out[k] = object.means[k].values

\* Constants of enumerators are read into words, or into integers of that
\* width.
ConstantFits(o, spec, field, raw) ==
  /\ spec.form \in FormsOf.unsigned =>
       (IF spec.form \in Relocatable THEN Located(o, field, raw) ELSE raw) \in 0..MaxWord
  /\ spec.form = "sdata" => raw \in Int /\ raw <= MaxWord
  /\ spec.form = "implicit_const" => spec.const \in Int /\ spec.const <= MaxWord

ConstantsFit(o) ==
  \A h \in 0..Len(o.info) - 1 :
    IsHeader(o, h) /\ h + CellOf(o, h).length <= Len(o.info) =>
      \A x \in h + 1..h + CellOf(o, h).length - 1 :
        CellOf(o, x).code \in DOMAIN AbbrevsAt(o, h) =>
          LET specs == AbbrevsAt(o, h)[CellOf(o, x).code].attrs
          IN  /\ DOMAIN specs \subseteq Nat
              /\ \A k \in DOMAIN specs :
                   specs[k].name = "const_value" =>
                     ConstantFits(o, specs[k], <<x, k>>, CellOf(o, x).values[k])

\* What the compiler can express is read: an object is only refused for a
\* request that cannot be answered (see module DwarfProducer).
SupportedIsAnswered ==
  pc = "rejected" => \E k \in DOMAIN object.means : ~object.means[k].supported
=============================================================================
