------------------------------ MODULE Manifest ------------------------------
(***************************************************************************)
(* The manifest language as iro_manifest.hpp reads it: table headers and   *)
(* keys in any order, tables opened again, and a validation at the end     *)
(* that sees the whole.                                                    *)
(*                                                                         *)
(* A file is [stem, lines]; a line is a header [kind, path], a key [kind,  *)
(* key, value], or an "error" no lexer takes.  A value is [type, v, expr,  *)
(* ctype, more]: v is the strings of a string, a Boolean or an array, and  *)
(* expr, ctype and more (other keys) are those of an inline table.         *)
(***************************************************************************)
EXTENDS Naturals, Sequences, FiniteSets, FiniteSetsExt, SequencesExt

CONSTANTS
  Files,        \* manifests
  Designators,  \* member designators and their components; None if malformed
  SafeNames,    \* set names that are identifiers
  None

\* The path of a table is a sequence of names, a key is a name, and None is none.
ASSUME FilesAssumption ==
  /\ None \notin Seq(STRING)
  /\ \A f \in Files :
       /\ f.lines \in Seq(ToSet(f.lines))
       /\ \A i \in DOMAIN f.lines :
            /\ f.lines[i].kind = "table" => f.lines[i].path \in Seq(STRING)
            /\ f.lines[i].kind = "key" => f.lines[i].key \in STRING

VARIABLES
  file,      \* the manifest that is read
  pos,       \* its next line
  table,     \* current_table
  given,     \* values of the keys read: <<table, key>> to value
  order,     \* types, enums and constants in the order they came up
  unknown,   \* unknown_keys
  pc

vars == <<file, pos, table, given, order, unknown, pc>>

-----------------------------------------------------------------------------
(* Tables and keys                                                         *)

\* The empty string.
Empty == ""

\* The keys of a table and the types of their values.
KeyTypes ==
  [top          |-> [schema_version |-> "string", set |-> "string", includes |-> "strings"],
   target       |-> [arch |-> "strings"],
   options      |-> [bitfield_policy |-> "string", allow_anonymous_members |-> "bool",
                     allow_nested_designators |-> "bool", allow_array_subscripts |-> "bool",
                     strict |-> "bool"],
   types        |-> [c_type |-> "string", fields |-> "strings", bitfields |-> "strings"],
   type_options |-> [bitfield_policy |-> "string"],
   enums        |-> [c_type |-> "string", values |-> "strings", extract_all |-> "bool"],
   unknown      |-> <<>>]

Section(t) ==
  CASE t = <<>> -> "top"
    [] Len(t) = 1 /\ t[1] \in {"target", "options", "constants"} -> t[1]
    [] Len(t) = 2 /\ t[1] \in {"types", "enums"} -> t[1]
    [] Len(t) = 3 /\ t[1] = "types" /\ t[3] = "options" -> "type_options"
    [] OTHER -> "unknown"

\* Where a later value replaces an earlier one.
Overwritten == {"top", "target", "options"}

IsKnown(t, key) == Section(t) # "constants" => key \in DOMAIN KeyTypes[Section(t)]

\* The type, enum or constant a key belongs to.
Entity(t, key) ==
  CASE Section(t) \in {"types", "type_options", "enums"} -> SubSeq(t, 1, 2)
    [] Section(t) = "constants" -> <<"constants", key>>
    [] OTHER -> None

-----------------------------------------------------------------------------
(* Reading                                                                 *)

Init ==
  /\ file \in Files
  /\ pos = 1
  /\ table = <<>>
  /\ given = <<>>
  /\ order = <<>>
  /\ unknown = {}
  /\ pc = "read"

Line == file.lines[pos]
Reading(kind) == pc = "read" /\ pos <= Len(file.lines) /\ Line.kind = kind

Stop(label) == pc' = label /\ UNCHANGED <<file, pos, table, given, order, unknown>>

BadLine == Reading("error") /\ Stop("rejected")

\* ensure_type, ensure_enum, ensure_constant
Ensure(e) == IF e = None \/ e \in ToSet(order) THEN order ELSE Append(order, e)

\* Fault: a header is enough for a type or an enum to exist.
HeaderDeclares ==
  /\ Reading("table")
  /\ table' = Line.path
  /\ pos' = pos + 1
  /\ order' = IF Section(Line.path) = "constants" THEN order
              ELSE Ensure(Entity(Line.path, None))
  /\ UNCHANGED <<file, given, unknown, pc>>

\* A table may be opened again; a header alone creates nothing.
ReadHeader ==
  /\ Reading("table")
  /\ table' = Line.path
  /\ pos' = pos + 1
  /\ UNCHANGED <<file, given, order, unknown, pc>>

\* An unknown key still makes a type of the table it is in.
ReadUnknown ==
  /\ Reading("key") /\ ~IsKnown(table, Line.key)
  /\ unknown' = unknown \cup {<<table, Line.key>>}
  /\ order' = Ensure(Entity(table, Line.key))
  /\ pos' = pos + 1
  /\ UNCHANGED <<file, table, given, pc>>

\* Fault: a table that is opened again starts afresh.
RepeatedSinceHeader(key) ==
  /\ <<table, key>> \in DOMAIN given
  /\ Section(table) \notin Overwritten
  /\ \E i \in 1..(pos - 1) :
       /\ file.lines[i].kind = "key" /\ file.lines[i].key = key
       /\ \A j \in i..pos : file.lines[j].kind # "table"

\* A constant counts as given once it has an expression or a type.
Repeated(key) ==
  /\ <<table, key>> \in DOMAIN given
  /\ Section(table) \notin Overwritten
  /\ Section(table) = "constants" =>
       given[<<table, key>>].expr # Empty \/ given[<<table, key>>].ctype # None

\* expect_string, expect_bool, expect_string_array, expect_inline_table
IsA(value, type) == value.type = type

WellTyped(key, value) ==
  IF Section(table) = "constants"
    THEN IsA(value, "inline") /\ value.expr # None
    ELSE IsA(value, KeyTypes[Section(table)][key])

\* Fault: the first value stays.
Emplaced(place, value) == given @@ (place :> value)

Assigned(place, value) ==
  [p \in DOMAIN given \cup {place} |-> IF p = place THEN value ELSE given[p]]

ReadKey ==
  /\ Reading("key") /\ IsKnown(table, Line.key)
  /\ IF Repeated(Line.key) \/ ~WellTyped(Line.key, Line.value)
       THEN Stop("rejected")
       ELSE /\ given' = Assigned(<<table, Line.key>>, Line.value)
            /\ order' = Ensure(Entity(table, Line.key))
            /\ unknown' = IF Line.value.more THEN unknown \cup {<<table, Line.key>>} ELSE unknown
            /\ pos' = pos + 1
            /\ UNCHANGED <<file, table, pc>>

-----------------------------------------------------------------------------
(* Validation                                                              *)

Policies == {"geometry", "deny", "accessor_shim"}
Archs == {"x86_64", "aarch64"}

Many(t, key) == IF <<t, key>> \in DOMAIN given THEN given[<<t, key>>].v ELSE <<>>
One(t, key, default) == IF <<t, key>> \in DOMAIN given THEN given[<<t, key>>].v[1] ELSE default

Option(key) == One(<<"options">>, key, "true") = "true"
ExtractAll(e) == One(e, "extract_all", "false") = "true"

\* Fault: a type has no policy of its own.
GlobalPolicy(t) == One(<<"options">>, "bitfield_policy", "geometry")

EffectivePolicy(t) ==
  One(Append(t, "options"), "bitfield_policy", One(<<"options">>, "bitfield_policy", "geometry"))

ValidDesignator(s, is_bitfield) ==
  LET comps == Designators[s]
  IN  /\ comps # None
      /\ Option("allow_nested_designators") \/ Len(comps) = 1
      /\ Option("allow_array_subscripts") \/ \A i \in DOMAIN comps : comps[i].index = None
      /\ is_bitfield => Last(comps).index = None

ValidMembers(s, is_bitfield) ==
  IsInjective(s) /\ \A i \in DOMAIN s : ValidDesignator(s[i], is_bitfield)

ValidTop ==
  /\ One(<<>>, "set", Empty) \in SafeNames
  /\ One(<<>>, "schema_version", Empty) = "1.5"
  /\ Many(<<>>, "includes") # <<>> /\ Empty \notin ToSet(Many(<<>>, "includes"))
  /\ ToSet(Many(<<"target">>, "arch")) \subseteq Archs
  /\ One(<<"options">>, "bitfield_policy", "geometry") \in Policies

ValidType(t) ==
  /\ One(t, "c_type", Empty) # Empty
  /\ EffectivePolicy(t) \in Policies
  /\ ValidMembers(Many(t, "fields"), FALSE)
  /\ Many(t, "bitfields") # <<>> =>
       EffectivePolicy(t) # "deny" /\ ValidMembers(Many(t, "bitfields"), TRUE)

ValidEnum(e) ==
  /\ One(e, "c_type", Empty) # Empty
  /\ ExtractAll(e) <=> Many(e, "values") = <<>>
  /\ IsInjective(Many(e, "values")) /\ Empty \notin ToSet(Many(e, "values"))

ValidConstant(c) == given[<<<<"constants">>, c[2]>>].expr # Empty

ValidEntity(e) ==
  CASE e[1] = "types" -> ValidType(e)
    [] e[1] = "enums" -> ValidEnum(e)
    [] e[1] = "constants" -> ValidConstant(e)

ValidKeys == Option("strict") => unknown = {}

\* parse_manifest_file: the file is named after the set.
Validate ==
  /\ pc = "read" /\ pos > Len(file.lines)
  /\ IF /\ ValidTop /\ ValidKeys
        /\ \A i \in DOMAIN order : ValidEntity(order[i])
        /\ file.stem = One(<<>>, "set", Empty)
       THEN Stop("accepted")
       ELSE Stop("rejected")

Next ==
  \/ BadLine
  \/ ReadHeader
  \/ ReadUnknown
  \/ ReadKey
  \/ Validate

Spec == Init /\ [][Next]_vars

-----------------------------------------------------------------------------
(* What a file says, whatever the order it says it in                      *)

Keys == {i \in DOMAIN file.lines : file.lines[i].kind = "key"}

TableOf(i) ==
  LET headers == {j \in 1..i : file.lines[j].kind = "table"}
  IN  IF headers = {} THEN <<>> ELSE file.lines[Max(headers)].path

Place(i) == <<TableOf(i), file.lines[i].key>>
Says(i) == file.lines[i].value
Known(i) == IsKnown(TableOf(i), file.lines[i].key)
Unfamiliar(i) == ~Known(i) \/ Says(i).more
Mention(i) == Entity(TableOf(i), file.lines[i].key)

IsSaid(place) == \E i \in Keys : Place(i) = place

\* The last value a file has for a key, if it has any.
LastSaid(place, default) ==
  LET at == {i \in Keys : Place(i) = place} IN IF at = {} THEN default ELSE Says(Max(at)).v[1]

SaidOption(key, default) == LastSaid(<<<<"options">>, key>>, default)

\* The policy of the type a table is about.
SaidPolicy(t) ==
  LastSaid(<<Append(t, "options"), "bitfield_policy">>, SaidOption("bitfield_policy", "geometry"))

\* A key of a type, an enum or a constant with two values.
SaysTwice ==
  \E i, j \in Keys : i # j /\ Place(i) = Place(j) /\ Known(i) /\ Mention(i) # None

\* Members of a type that an option forbids: those inside another member, those
\* with a subscript, and bit-fields.
ForbiddenMember(comps) ==
  \/ SaidOption("allow_nested_designators", "true") # "true" /\ Len(comps) # 1
  \/ /\ SaidOption("allow_array_subscripts", "true") # "true"
     /\ \E c \in DOMAIN comps : comps[c].index # None

ForbiddenMembers(i) ==
  \/ \E k \in DOMAIN Says(i).v : ForbiddenMember(Designators[Says(i).v[k]])
  \/ /\ file.lines[i].key = "bitfields" /\ Says(i).v # <<>>
     /\ SaidPolicy(TableOf(i)) = "deny"

SaysForbidden ==
  \/ SaidOption("strict", "true") = "true" /\ \E i \in Keys : Unfamiliar(i)
  \/ \E i \in Keys : /\ Section(TableOf(i)) = "types"
                     /\ file.lines[i].key \in {"fields", "bitfields"}
                     /\ ForbiddenMembers(i)

\* What every manifest, type and enum needs and this file does not give.
LeavesOut ==
  \/ \E key \in {"schema_version", "set", "includes"} : ~IsSaid(<<<<>>, key>>)
  \/ \E i \in Keys : /\ Mention(i) # None /\ Mention(i)[1] # "constants"
                     /\ ~IsSaid(<<Mention(i), "c_type">>)

\* Of an enum, either some enumerators are listed or all are extracted.
Lists(e) == \E i \in Keys : Place(i) = <<e, "values">> /\ Says(i).v # <<>>
Extracts(e) == LastSaid(<<e, "extract_all">>, "false") = "true"

MixesEnum ==
  \E i \in Keys : /\ Mention(i) # None /\ Mention(i)[1] = "enums"
                  /\ Lists(Mention(i)) <=> Extracts(Mention(i))

\* A value that no other line can make right or wrong.
GoodMembers(v, is_bitfield) ==
  /\ IsInjective(v)
  /\ \A k \in DOMAIN v : LET comps == Designators[v[k]]
                        IN  comps # None /\ (is_bitfield => Last(comps).index = None)

GoodAs(key, v) ==
  CASE key = "schema_version" -> v[1] = "1.5"
    [] key = "set" -> v[1] \in SafeNames /\ v[1] = file.stem
    [] key = "includes" -> v # <<>> /\ Empty \notin ToSet(v)
    [] key = "arch" -> ToSet(v) \subseteq Archs
    [] key = "bitfield_policy" -> v[1] \in Policies
    [] key = "c_type" -> v[1] # Empty
    [] key \in {"fields", "bitfields"} -> GoodMembers(v, key = "bitfields")
    [] key = "values" -> IsInjective(v) /\ Empty \notin ToSet(v)
    [] OTHER -> TRUE

GoodKey(i) ==
  LET section == Section(TableOf(i))
      key == file.lines[i].key
  IN  IF section = "constants" THEN IsA(Says(i), "inline") /\ Says(i).expr \notin {None, Empty}
      ELSE IsA(Says(i), KeyTypes[section][key]) /\ GoodAs(key, Says(i).v)

GoodLines ==
  /\ \A i \in DOMAIN file.lines : file.lines[i].kind # "error"
  /\ \A i \in Keys : Known(i) => GoodKey(i)

-----------------------------------------------------------------------------
(* Properties                                                              *)

\* An accepted manifest is what its file says, in all its tables, opened once
\* or many times: a type, an enum or a constant has one value for each key, the
\* one written (but a constant whose expression is empty may be given again), a
\* global key has its last, and types, enums and constants come once each, in the
\* order in which the file first mentions them.
MeansWhatItSays ==
  pc = "accepted" =>
    /\ \A i \in Keys : Known(i) =>
         LET others == {j \in Keys \ {i} : Place(j) = Place(i)}
         IN  \/ given[Place(i)] = Says(i) /\ (Mention(i) # None => \A j \in others : Says(j).expr = Empty)
             \/ Mention(i) = None /\ \E j \in others : j > i
             \/ Says(i).expr = Empty
    /\ IsInjective(order)
    /\ \A i \in Keys : Mention(i) # None => Mention(i) \in ToSet(order)
    /\ \A a, b \in DOMAIN order : a < b =>
         Min({i \in Keys : Mention(i) = order[a]}) < Min({i \in Keys : Mention(i) = order[b]})

\* What the options forbid is in no accepted manifest, although they may be
\* given after what they forbid: unknown keys if strict, members inside members
\* or with subscripts, bit-fields of a type whose own policy, or else the global
\* one, is deny.
ForbiddenIsRefused == pc = "accepted" => ~SaysForbidden

\* A value read for a type or an enum is never replaced.
NeverReplaced ==
  [][\A p \in DOMAIN given :
       Section(p[1]) \in {"types", "type_options", "enums"} => given'[p] = given[p]]_vars

\* Splitting, reordering and reopening of tables is no reason to refuse a file:
\* one whose lines are all good on their own is refused only for a key with two
\* values, for what its options forbid, for a key that is needed and missing, or
\* for an enum that does not either list or extract.
OrderIsNoCause ==
  pc = "rejected" /\ GoodLines => SaysTwice \/ SaysForbidden \/ LeavesOut \/ MixesEnum
=============================================================================
