------------------------------- MODULE Format -------------------------------
(***************************************************************************)
(* Format strings: parse_format checks one at compile time and records the *)
(* specifications of its placeholders; format_to scans the same text once  *)
(* more at run time and fills a buffer of fixed size; log() marks with     *)
(* dots what did not fit.                                                  *)
(*                                                                         *)
(* A text is a sequence of characters; "NUL" stands behind its end.  An    *)
(* integer type is its number of hexadecimal digits; Word digits are the   *)
(* widest type, the one signed arguments and addresses are converted to.   *)
(***************************************************************************)
EXTENDS Integers, Sequences, SequencesExt

CONSTANTS
  Texts,      \* the string literals of a program
  Arguments,  \* [kind, digits, val, text]
  Capacities, \* sizes of the buffers given to format_to
  LogSize,    \* kBufSize, room for the dots at least
  Word        \* hexadecimal digits of the widest integer

VARIABLES
  text, arity,    \* the string, and how many arguments its type stands for
  pc,             \* "parse", "ready", "format", "log", "done", "rejected" or "undefined"
  i,              \* the character a scan is at
  specs,          \* specifications of the placeholders parsed
  caller, args,   \* who calls format_to, with what
  out, written,   \* the buffer, and the characters pushed so far
  used            \* arguments consumed

call == <<caller, args, out, written, used>>
fmt == <<text, arity, pc, i, specs, call>>

Cap == Len(out)

At(k) == IF k <= Len(text) THEN text[k] ELSE "NUL"
Braces == {"{", "}"}
IsEscape == At(i) \in Braces /\ At(i + 1) = At(i)

-----------------------------------------------------------------------------
(* parse_format                                                            *)

Letter == [d |-> "dec", x |-> "hex", p |-> "ptr", s |-> "str"]

Parsing == pc = "parse" /\ i <= Len(text)

ParsePlain ==
  /\ Parsing
  /\ \/ IsEscape /\ i' = i + 2
     \/ At(i) \notin Braces /\ i' = i + 1
  /\ UNCHANGED <<text, arity, pc, specs, call>>

IsPlain == At(i + 1) = "}"
IsLettered == At(i + 1) = ":" /\ At(i + 2) \in DOMAIN Letter /\ At(i + 3) = "}"

ParsePlaceholder ==
  /\ Parsing
  /\ At(i) = "{" /\ ~IsEscape
  /\ Len(specs) < arity
  /\ \/ IsPlain /\ specs' = Append(specs, "default") /\ i' = i + 2
     \/ IsLettered /\ specs' = Append(specs, Letter[At(i + 2)]) /\ i' = i + 4
  /\ UNCHANGED <<text, arity, pc, call>>

\* The static_assert of make_format_string: the program does not compile.
Refuse ==
  /\ pc = "parse"
  /\ \/ At(i) = "}" /\ ~IsEscape
     \/ At(i) = "{" /\ ~IsEscape /\ (Len(specs) = arity \/ ~(IsPlain \/ IsLettered))
     \/ i > Len(text) /\ Len(specs) # arity
  /\ pc' = "rejected"
  /\ UNCHANGED <<text, arity, i, specs, call>>

Accept ==
  /\ pc = "parse" /\ i > Len(text) /\ Len(specs) = arity
  /\ pc' = "ready"
  /\ UNCHANGED <<text, arity, i, specs, call>>

-----------------------------------------------------------------------------
(* formatter, emit_unsigned, emit_signed                                   *)

Digit(n) ==
  <<"0", "1", "2", "3", "4", "5", "6", "7", "8", "9", "a", "b", "c", "d", "e", "f">>[n + 1]

\* The loop of emit_unsigned, turned round as it is pushed.
EmitUnsigned(v, base) ==
  LET loop[n \in Nat] == IF n = 0 THEN <<>> ELSE Append(loop[n \div base], Digit(n % base))
  IN  IF v = 0 THEN <<"0">> ELSE loop[v]

\* Converted to a word first, and negated as a word.
EmitSigned(v, hex) ==
  LET u == v % 16^Word
  IN  IF hex THEN EmitUnsigned(u, 16)
      ELSE IF v < 0 THEN <<"-">> \o EmitUnsigned((0 - u) % 16^Word, 10)
      ELSE EmitUnsigned(u, 10)

IsHex(spec) == spec \in {"hex", "ptr"}
Address(v) == <<"0", "x">> \o EmitUnsigned(v, 16)

Formatted(a, spec) ==
  CASE a.kind = "signed" -> EmitSigned(a.val, IsHex(spec))
    [] a.kind = "unsigned" -> EmitUnsigned(a.val, IF IsHex(spec) THEN 16 ELSE 10)
    [] a.kind = "bool" ->
         IF a.val = 1 THEN <<"t", "r", "u", "e">> ELSE <<"f", "a", "l", "s", "e">>
    [] a.kind = "pointer" -> Address(a.val)
    [] a.kind = "chars" -> IF spec = "ptr" THEN Address(a.val) ELSE a.text

\* The local array tmp holds sizeof(Int) * 2 + 1 characters.
Tmp(a) == (IF a.kind = "unsigned" THEN a.digits ELSE Word) + 1

\* Fault: tmp has no room for the odd decimal digit.
OverrunsEven(a, spec) ==
  a.kind \in {"signed", "unsigned"} /\ Len(SelectSeq(Formatted(a, spec), LAMBDA c : c # "-")) > Tmp(a) - 1

Overruns(a, spec) ==
  a.kind \in {"signed", "unsigned"} /\ Len(SelectSeq(Formatted(a, spec), LAMBDA c : c # "-")) > Tmp(a)

-----------------------------------------------------------------------------
(* format_to                                                               *)

Call(as, who, cap) ==
  /\ pc = "ready"
  /\ Len(as) = arity
  /\ pc' = "format" /\ i' = 1
  /\ caller' = who /\ args' = as /\ used' = 0
  /\ out' = [k \in 1..cap |-> "old"] /\ written' = 0
  /\ UNCHANGED <<text, arity, specs>>

\* buffer::push keeps the last place free, and counts what it drops.
Push(chars) ==
  /\ out' = [k \in 1..Cap |->
               IF k - written \in 1..Len(chars) /\ k < Cap THEN chars[k - written] ELSE out[k]]
  /\ written' = written + Len(chars)

Scanning == pc = "format" /\ i <= Len(text)

\* A brace that is alone is skipped.
FormatText ==
  /\ Scanning
  /\ ~(At(i) = "{" /\ ~IsEscape)
  /\ Push(IF At(i) = "}" /\ ~IsEscape THEN <<>> ELSE <<At(i)>>)
  /\ i' = IF IsEscape THEN i + 2 ELSE i + 1
  /\ UNCHANGED <<text, arity, pc, specs, caller, args, used>>

\* Fault: the second scan takes every placeholder to be empty.
SkippedTwo == i + 2

\* The second scan looks for the next closing brace only.
Skipped == i + 1 + SelectInSeq(SubSeq(text, i + 1, Len(text)), LAMBDA c : c = "}")

FormatArgument ==
  /\ Scanning
  /\ At(i) = "{" /\ ~IsEscape
  /\ ~Overruns(args[used + 1], specs[used + 1])
  /\ Push(Formatted(args[used + 1], specs[used + 1]))
  /\ used' = used + 1
  /\ i' = Skipped
  /\ UNCHANGED <<text, arity, pc, specs, caller, args>>

\* More digits than tmp has places: undefined behaviour, and nothing is known
\* of what follows.
Overrun ==
  /\ Scanning
  /\ At(i) = "{" /\ ~IsEscape
  /\ Overruns(args[used + 1], specs[used + 1])
  /\ pc' = "undefined"
  /\ UNCHANGED <<text, arity, i, specs, call>>

Terminate ==
  /\ pc = "format" /\ i > Len(text)
  /\ out' = [k \in 1..Cap |->
               IF k = (IF written < Cap THEN written + 1 ELSE Cap) THEN "NUL" ELSE out[k]]
  /\ pc' = IF caller = "log" THEN "log" ELSE "done"
  /\ UNCHANGED <<text, arity, i, specs, caller, args, written, used>>

\* log() replaces the end of a text that did not fit.
Dots ==
  /\ pc = "log"
  /\ out' = [k \in 1..Cap |->
               IF written < Cap THEN out[k]
               ELSE IF k = Cap THEN "NUL"
               ELSE IF k > Cap - 4 THEN "." ELSE out[k]]
  /\ pc' = "done"
  /\ UNCHANGED <<text, arity, i, specs, caller, args, written, used>>

-----------------------------------------------------------------------------
Init ==
  /\ text \in Texts /\ arity \in 0..2
  /\ pc = "parse" /\ i = 1 /\ specs = <<>>
  /\ caller = "none" /\ args = <<>> /\ used = 0
  /\ out = <<>> /\ written = 0

Parse == ParsePlain \/ ParsePlaceholder \/ Refuse \/ Accept

Next ==
  \/ Parse
  \/ \E as \in UNION {[1..n -> Arguments] : n \in 0..2} :
       Call(as, "log", LogSize) \/ \E cap \in Capacities : Call(as, "format_to", cap)
  \/ FormatText \/ FormatArgument \/ Overrun \/ Terminate \/ Dots

Spec == Init /\ [][Next]_fmt

-----------------------------------------------------------------------------
(* What a format string means, by its spelling alone                       *)

Hole(spelling, spec) == [spelling |-> spelling, shows |-> "argument", spec |-> spec]
Literal(spelling, c) == [spelling |-> spelling, shows |-> c, spec |-> "default"]

Items(t) ==
  {Literal(<<b, b>>, b) : b \in Braces}
    \cup {Literal(<<c>>, c) : c \in ToSet(t) \ Braces}
    \cup {Hole(<<"{", "}">>, "default")}
    \cup {Hole(<<"{", ":", l, "}">>, Letter[l]) : l \in DOMAIN Letter}

\* All ways to spell a text by items.
Readings(t) ==
  LET from[k \in 1..(Len(t) + 1)] ==
        IF k > Len(t) THEN {<<>>}
        ELSE UNION {{<<item>> \o rest : rest \in from[k + Len(item.spelling)]} :
                      item \in {it \in Items(t) :
                                  IsPrefix(it.spelling, SubSeq(t, k, Len(t)))}}
  IN  from[1]

Holes(reading) == SelectSeq(reading, LAMBDA item : item.shows = "argument")

\* A number in positional notation.
Numeral(n, base) ==
  LET width == CHOOSE w \in 1..20 : base^w > n /\ (w > 1 => base^(w - 1) <= n)
  IN  [k \in 1..width |-> Digit((n \div base^(width - k)) % base)]

Meant(a, spec) ==
  CASE a.kind = "bool" -> Formatted(a, spec)
    [] a.kind = "pointer" \/ (a.kind = "chars" /\ spec = "ptr") -> <<"0", "x">> \o Numeral(a.val, 16)
    [] a.kind = "chars" /\ spec # "ptr" -> a.text
    [] a.kind \in {"signed", "unsigned"} /\ IsHex(spec) -> Numeral(a.val % 16^Word, 16)
    [] a.kind \in {"signed", "unsigned"} /\ ~IsHex(spec) ->
         IF a.val < 0 THEN <<"-">> \o Numeral(-a.val, 10) ELSE Numeral(a.val, 10)

Meaning(reading) ==
  LET nth(k) == Len(Holes(SubSeq(reading, 1, k)))
      shown(k) == IF reading[k].shows = "argument" THEN Meant(args[nth(k)], reading[k].spec)
                  ELSE <<reading[k].shows>>
  IN  FlattenSeq([k \in DOMAIN reading |-> shown(k)])

\* What of it is seen in the buffer, terminator included.
Seen(m) ==
  IF Cap = 0 THEN <<>>
  ELSE IF Len(m) < Cap THEN Append(m, "NUL")
  ELSE IF caller = "log" THEN SubSeq(m, 1, Cap - 4) \o <<".", ".", ".", "NUL">>
  ELSE Append(SubSeq(m, 1, Cap - 1), "NUL")

-----------------------------------------------------------------------------
(* Properties                                                              *)

\* The two scans agree.  A string compiles exactly if it can be spelled with as
\* many placeholders as there are arguments; a call then writes what it spells,
\* cut at the buffer's end and terminated inside it, touches nothing behind the
\* terminator, and returns the length of the whole.  ("malformed brace; already
\* rejected at compile time.")
WritesWhatItSpells ==
  LET fitting == {r \in Readings(text) : Len(Holes(r)) = arity}
  IN  /\ pc = "rejected" => fitting = {}
      /\ pc = "done" =>
           \E r \in fitting :
             LET m == Meaning(r)
             IN  /\ written = Len(m)
                 /\ out = Seen(m) \o [k \in 1..(Cap - Len(Seen(m))) |-> "old"]

\* The array for the digits is large enough for every number in hexadecimal and
\* for narrow ones in decimal; what it is too small for is a decimal of more
\* digits than the widest type has in hexadecimal, and one.  (For four bytes:
\* from 10^9 on.)
OnlyWideDecimalsOverrun ==
  pc = "undefined" =>
    LET a == args[used + 1]
    IN  /\ ~IsHex(specs[used + 1])
        /\ a.kind = "unsigned" => a.digits = Word
        /\ a.val >= 10^(Word + 1) \/ a.val <= -(10^(Word + 1))
=============================================================================
