----------------------------- MODULE LayoutModel -----------------------------
(***************************************************************************)
(* From the records of the note to the macros of layout_<set>.h, in        *)
(* layout_parse: build_model, the merge of what debug information adds,    *)
(* the check of the input hash, validate_against_manifest,                 *)
(* normalize_requests, check_identifier_collisions, render_header_h and    *)
(* render_header_hpp.                                                      *)
(*                                                                         *)
(* The Model is kept as the set of its entries, [kind, type, name, value]; *)
(* an entry's key is all but its value.  A name is a sequence of pieces:   *)
(* words (letters and digits) and single other characters.                 *)
(***************************************************************************)
EXTENDS Integers, Sequences, FiniteSets, Functions, SequencesExt

CONSTANTS
  Inputs,    \* [manifest, set, hash, records, debug, entries]
  Words,     \* pieces of letters and digits
  Numbers    \* words that begin with a digit

\* Note and debug information hold kinds of entries of their own.
ASSUME InputsAreTwoLists ==
  \A i \in Inputs :
    /\ i.records \in Seq(Range(i.records))
    /\ i.entries \in Seq(Range(i.entries))
    /\ \A e \in Range(i.records) : e.kind \in {"type", "field", "accessor", "const", "enum"}
    /\ \A e \in Range(i.entries) : e.kind \in {"geometry", "enum"}

\* Names are texts, in whichever list they are.
IsText(name) == name \in Seq(Range(name))

ASSUME NamesAreTexts ==
  \A i \in Inputs :
    /\ \A t \in Range(i.manifest.types) :
         IsText(t.c_type) /\ \A f \in Range(t.fields) \cup Range(t.bitfields) : IsText(f)
    /\ \A c \in Range(i.manifest.constants) : IsText(c)
    /\ \A e \in Range(i.manifest.enums) :
         IsText(e.c_type) /\ \A v \in Range(e.values) : IsText(v)
    /\ \A e \in Range(i.records) \cup Range(i.entries) : IsText(e.name)

\* What stands for every other character in an escaped name, and separates.
Under == "_"

ASSUME UnderscoreIsNoWord == Under \notin Words

VARIABLES
  input,     \* manifest, the note's set, hash and records, debug information
  pc,        \* "build", "merge", "check", "render", "done", "rejected" or "internal"
  next,      \* records or entries already taken
  model,     \* entries of the Model
  macros     \* [macro, value], once rendered

vars == <<input, pc, next, model, macros>>

m == input.manifest

-----------------------------------------------------------------------------
(* escape_identifier                                                       *)

\* Fault: several underscores in a row stay several.
EscapeEach(name) ==
  LET start == IF name # <<>> /\ Head(name) \in Numbers THEN <<Under>> ELSE <<>>
      append(out, c) == Append(out, IF c \in Words THEN c ELSE Under)
  IN  IF name = <<>> THEN <<Under>> ELSE FoldLeft(append, start, name)

\* Anything but letters and digits becomes an underscore; of several in a row
\* one is left.
Escape(name) ==
  LET append(out, c) ==
        IF c \in Words THEN Append(out, c)
        ELSE IF out # <<>> /\ Last(out) = Under THEN out
        ELSE Append(out, Under)
      upto[k \in 0..Len(name)] ==
        IF k = 0 THEN (IF Head(name) \in Numbers THEN <<Under>> ELSE <<>>)
        ELSE append(upto[k - 1], name[k])
  IN  IF name = <<>> THEN <<Under>> ELSE upto[Len(name)]

\* The text of a macro's name, and of one with two parts.
One(prefix, a) == <<prefix, Under, Under>> \o Escape(a)
Two(prefix, a, b) == <<prefix, Under, Under>> \o Escape(a) \o <<Under, Under>> \o Escape(b)

-----------------------------------------------------------------------------
(* The requests of a manifest                                              *)

Types == {t.c_type : t \in Range(m.types)}
Entries(type) == {t \in Range(m.types) : t.c_type = type}

\* normalize_requests: sections for one type are merged.
Fields(type) == UNION {Range(t.fields) : t \in Entries(type)}
Bitfields(type) == UNION {Range(t.bitfields) : t \in Entries(type)}
PolicyConflict == \E t, u \in Range(m.types) : t.c_type = u.c_type /\ t.policy # u.policy

NeedsDebug ==
  \/ \E t \in Range(m.types) : t.policy = "geometry" /\ t.bitfields # <<>>
  \/ \E e \in Range(m.enums) : e.extract_all

\* Two names that are one after escaping.
Collide(names) == \E a, b \in names : a # b /\ Escape(a) = Escape(b)

\* check_identifier_collisions.  Two sections for one enum collide.
Collision ==
  \/ Collide(Types)
  \/ \E t \in Types : Collide(Fields(t)) \/ Collide(Bitfields(t))
  \/ Collide(Range(m.constants))
  \/ \E i, j \in DOMAIN m.enums :
       i # j /\ Escape(m.enums[i].c_type) = Escape(m.enums[j].c_type)
  \/ \E e \in Range(m.enums) : Collide(Range(e.values))

-----------------------------------------------------------------------------
(* The Model                                                               *)

Has(es, kind, type, name) ==
  \E e \in es : e.kind = kind /\ e.type = type /\ e.name = name

Value(es, kind, type, name) ==
  (CHOOSE e \in es : e.kind = kind /\ e.type = type /\ e.name = name).value

SameKey(e, f) == e.kind = f.kind /\ e.type = f.type /\ e.name = f.name

Conflicts(e) == \E f \in model : SameKey(e, f) /\ e.value # f.value

\* Types there is an entry for, with or without a TYPE record.
KnownTypes(es) == {e.type : e \in {f \in es : f.kind \in {"type", "field", "accessor"}}}

Enumerators(es, type) == {e.name : e \in {f \in es : f.kind = "enum" /\ f.type = type}}

\* The enumerators a section asks for.
Requested(es, en) == IF en.extract_all THEN Enumerators(es, en.c_type) ELSE Range(en.values)

Init ==
  /\ input \in Inputs
  /\ pc = "build"
  /\ next = 0
  /\ model = {}
  /\ macros = {}

Reject ==
  /\ pc' = "rejected"
  /\ UNCHANGED <<input, next, model, macros>>

\* Fault: std::map::emplace, but without the comparison before it.
TakeBlindly(e) ==
  /\ model' = IF \E f \in model : SameKey(e, f) THEN model ELSE model \cup {e}
  /\ next' = next + 1
  /\ UNCHANGED <<input, pc, macros>>

\* An entry is added unless its key is there, with the same value.
Take(e) ==
  IF Conflicts(e)
    THEN Reject
    ELSE /\ model' = model \cup {e}
         /\ next' = next + 1
         /\ UNCHANGED <<input, pc, macros>>

BuildModel ==
  /\ pc = "build" /\ next < Len(input.records)
  /\ Take(input.records[next + 1])

\* Fault: the index goes on where it was.
FinishModelGoOn ==
  /\ pc = "build" /\ next = Len(input.records)
  /\ pc' = IF ~NeedsDebug THEN "check" ELSE IF input.debug THEN "merge" ELSE "rejected"
  /\ UNCHANGED <<input, next, model, macros>>

\* The records are through: debug information is read if something needs it.
FinishModel ==
  /\ pc = "build" /\ next = Len(input.records)
  /\ pc' = IF ~NeedsDebug THEN "check" ELSE IF input.debug THEN "merge" ELSE "rejected"
  /\ next' = 0
  /\ UNCHANGED <<input, model, macros>>

Merge ==
  /\ pc = "merge" /\ next < Len(input.entries)
  /\ LET e == input.entries[next + 1]
     IN  IF e.kind = "geometry" /\ e.type \notin KnownTypes(model) THEN Reject ELSE Take(e)

FinishMerge ==
  /\ pc = "merge" /\ next = Len(input.entries)
  /\ pc' = "check"
  /\ UNCHANGED <<input, next, model, macros>>

-----------------------------------------------------------------------------
(* validate_against_manifest                                               *)

\* Fault: the TYPE record is not asked for.
CoversUntyped(es, t) ==
  /\ \A f \in Range(t.fields) : Has(es, "field", t.c_type, f)
  /\ \A b \in Range(t.bitfields) :
       /\ t.policy = "accessor_shim" => Has(es, "accessor", t.c_type, b)
       /\ t.policy = "geometry" => Has(es, "geometry", t.c_type, b)

CoversType(es, t) ==
  /\ Has(es, "type", t.c_type, <<>>)
  /\ \A f \in Range(t.fields) : Has(es, "field", t.c_type, f)
  /\ \A b \in Range(t.bitfields) :
       /\ t.policy = "accessor_shim" => Has(es, "accessor", t.c_type, b)
       /\ t.policy = "geometry" => Has(es, "geometry", t.c_type, b)

CoversEnum(es, en) ==
  /\ Enumerators(es, en.c_type) # {}
  /\ ~en.extract_all => Range(en.values) \subseteq Enumerators(es, en.c_type)

Covers(es) ==
  /\ \A t \in Range(m.types) : CoversType(es, t)
  /\ \A c \in Range(m.constants) : Has(es, "const", c, <<>>)
  /\ \A en \in Range(m.enums) : CoversEnum(es, en)

\* The hash, then the set's name, then the requests.
Validate ==
  /\ pc = "check"
  /\ pc' = IF input.hash /\ input.set /\ Covers(model) THEN "render" ELSE "rejected"
  /\ UNCHANGED <<input, next, model, macros>>

-----------------------------------------------------------------------------
(* render_header_h                                                         *)

Macro(text, value) == [macro |-> text, value |-> value]

\* One macro stands for the six of a bitfield's geometry.
BitfieldMacros(type) ==
  {Macro(Two("BF", type, b), Value(model, "geometry", type, b)) :
     b \in {x \in Bitfields(type) : \E t \in Entries(type) : t.policy = "geometry"}}
    \cup
  {Macro(Two("BF_ACCESSOR_ID", type, b), Value(model, "accessor", type, b)) :
     b \in {x \in Bitfields(type) : \E t \in Entries(type) : t.policy = "accessor_shim"}}

TypeMacros(type) ==
  {Macro(One("SIZEOF_ALIGNOF", type), Value(model, "type", type, <<>>))}
    \cup {Macro(Two("OFFSETOF", type, f), Value(model, "field", type, f)) : f \in Fields(type)}
    \cup BitfieldMacros(type)

EnumMacros(en) ==
  {Macro(Two("ENUM", en.c_type, v), Value(model, "enum", en.c_type, v)) : v \in Requested(model, en)}

Rendered ==
  (UNION {TypeMacros(t) : t \in Types})
    \cup {Macro(One("CONST", c), Value(model, "const", c, <<>>)) : c \in Range(m.constants)}
    \cup (UNION {EnumMacros(en) : en \in Range(m.enums)})

\* Every .at() of the rendering finds its entry.
Renderable(es) ==
  /\ \A t \in Types :
       /\ Has(es, "type", t, <<>>)
       /\ \A f \in Fields(t) : Has(es, "field", t, f)
       /\ \A e \in Entries(t), b \in Bitfields(t) :
            /\ e.policy = "geometry" => Has(es, "geometry", t, b)
            /\ e.policy = "accessor_shim" => Has(es, "accessor", t, b)
  /\ \A c \in Range(m.constants) : Has(es, "const", c, <<>>)
  /\ \A en \in Range(m.enums) : \A v \in Requested(es, en) : Has(es, "enum", en.c_type, v)

\* Enumerators found by extract_all are held against each other only here.
ExtractedCollide(es) == \E en \in Range(m.enums) : Collide(Requested(es, en))

\* An .at() that finds nothing throws what only main catches.
Outcome ==
  IF PolicyConflict \/ Collision THEN "rejected"
  ELSE IF ~Renderable(model) THEN "internal"
  ELSE IF ExtractedCollide(model) THEN "rejected"
  ELSE "done"

Render ==
  /\ pc = "render"
  /\ pc' = Outcome
  /\ macros' = IF Outcome = "done" THEN Rendered ELSE {}
  /\ UNCHANGED <<input, next, model>>

-----------------------------------------------------------------------------
(* render_header_hpp: names for the macros, each in a scope                *)

Declared(scope, name, text) == [scope |-> scope, name |-> name, macro |-> text]

\* What is declared of the geometry of a bit-field.
GeometrySuffixes ==
  {<<Under, "abs", Under, "bit", Under, "offset">>, <<Under, "bit", Under, "size">>,
   <<Under, "is", Under, "signed">>, <<Under, "byte", Under, "offset">>,
   <<Under, "bit", Under, "in", Under, "byte">>, <<Under, "span", Under, "bytes">>}

BitfieldNames(b, policy) ==
  IF policy = "geometry" THEN {Escape(b) \o s : s \in GeometrySuffixes}
  ELSE {Escape(b) \o <<Under, "accessor", Under, "id">>}

StructMembers(type) ==
  LET member(name, text) == Declared(<<"struct", Escape(type)>>, name, text)
      bits(prefix, policy) ==
        UNION {{member(n, Two(prefix, type, b)) : n \in BitfieldNames(b, policy)} :
                 b \in {x \in Bitfields(type) : \E t \in Entries(type) : t.policy = policy}}
  IN  {member(n, One("SIZEOF_ALIGNOF", type)) : n \in {<<"size">>, <<"align">>}}
        \cup {member(Escape(f) \o <<Under, "offset">>, Two("OFFSETOF", type, f)) : f \in Fields(type)}
        \cup bits("BF", "geometry") \cup bits("BF_ACCESSOR_ID", "accessor_shim")

EnumDeclarations(en) ==
  {Declared(<<"enums", Escape(en.c_type)>>, Escape(v), Two("ENUM", en.c_type, v)) :
     v \in Requested(model, en)}

Declarations ==
  (UNION {StructMembers(t) : t \in Types})
    \cup {Declared(<<"constants">>, Escape(c), One("CONST", c)) : c \in Range(m.constants)}
    \cup (UNION {EnumDeclarations(en) : en \in Range(m.enums)})

Next ==
  \/ BuildModel
  \/ FinishModel
  \/ Merge
  \/ FinishMerge
  \/ Validate
  \/ Render

Spec == Init /\ [][Next]_vars

-----------------------------------------------------------------------------
(* Properties                                                              *)

\* All entries this run of layout_parse is given.
Given == Range(input.records) \cup IF NeedsDebug THEN Range(input.entries) ELSE {}

\* Every variable has its type; the index stays within what it walks over.
TypeOK ==
  /\ pc \in {"build", "merge", "check", "render", "done", "rejected", "internal"}
  /\ next \in Nat
  /\ pc = "build" => next <= Len(input.records)
  /\ pc = "merge" => next <= Len(input.entries)
  /\ model \subseteq Given

\* What a note and its debug information mean, as a set.
Consistent == \A e, f \in Given : SameKey(e, f) => e.value = f.value

Meaningful ==
  /\ Consistent
  /\ NeedsDebug =>
       /\ input.debug
       /\ \A e \in Range(input.entries) : e.kind = "geometry" =>
             e.type \in KnownTypes(Range(input.records))
  /\ input.hash /\ input.set
  /\ Covers(Given)
  /\ ~PolicyConflict /\ ~Collision /\ ~ExtractedCollide(Given)

\* Whether headers come out depends on the set of records only, not on their
\* order or on records said twice, although build_model looks at one at a time
\* and keeps the first of each key.
OutcomeIsOrderFree ==
  /\ pc = "done" => Meaningful
  /\ pc = "rejected" => ~Meaningful

\* What validate_against_manifest lets through can be rendered: no .at() of the
\* rendering, which merges sections of one type after they were validated one
\* by one, fails with an exception of the library.
NoInternalError == pc # "internal"

Values(text) == {x.value : x \in {y \in macros : y.macro = text}}
Recorded(kind, type, name) ==
  {e.value : e \in {f \in Given : f.kind = kind /\ f.type = type /\ f.name = name}}

\* No escaped type ends in an underscore.  (If one does, its last underscore
\* cannot be told from the first of a field: check_identifier_collisions looks
\* at types and at fields, never at both.)
EdgesApart ==
  \A n \in Types \cup {en.c_type : en \in Range(m.enums)} : Last(Escape(n)) # Under

\* No field is called like a bit-field of its type with "_byte" or "_abs_bit"
\* behind it: both would be declared as x_byte_offset, or x_abs_bit_offset, and
\* the C++ header would not compile.  (Fields and bit-fields are never compared.)
SuffixesApart ==
  \A t \in Types : \A f \in Fields(t), b \in Bitfields(t) :
    Escape(f) \notin {Escape(b) \o <<Under, "byte">>, Escape(b) \o <<Under, "abs", Under, "bit">>}

\* Every macro a manifest asks for is there and has the recorded value, and no
\* other macro has its name: escaping makes no two requests one, across all
\* types, enums and constants.
MacrosMeanRequests ==
  pc = "done" /\ EdgesApart =>
    /\ \A t \in Types :
         /\ Values(One("SIZEOF_ALIGNOF", t)) = Recorded("type", t, <<>>)
         /\ \A f \in Fields(t) : Values(Two("OFFSETOF", t, f)) = Recorded("field", t, f)
         /\ \A s \in Entries(t), b \in Bitfields(t) :
              /\ s.policy = "geometry" => Values(Two("BF", t, b)) = Recorded("geometry", t, b)
              /\ s.policy = "accessor_shim" =>
                   Values(Two("BF_ACCESSOR_ID", t, b)) = Recorded("accessor", t, b)
    /\ \A c \in Range(m.constants) : Values(One("CONST", c)) = Recorded("const", c, <<>>)
    /\ \A en \in Range(m.enums) : \A v \in Requested(Given, en) :
         Values(Two("ENUM", en.c_type, v)) = Recorded("enum", en.c_type, v)

\* Both headers of a run that succeeds mean what was asked for: the C header as
\* above, and the C++ header declares no name twice in a scope and reads only
\* macros the C header defines, although nothing compares fields with bit-fields
\* and each header walks the manifest on its own.
HeadersMeanRequests ==
  /\ MacrosMeanRequests
  /\ pc = "done" /\ EdgesApart /\ SuffixesApart =>
       /\ \A d, e \in Declarations : d.scope = e.scope /\ d.name = e.name => d.macro = e.macro
       /\ {d.macro : d \in Declarations} = {x.macro : x \in macros}
=============================================================================
