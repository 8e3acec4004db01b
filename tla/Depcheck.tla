------------------------------ MODULE Depcheck ------------------------------
(***************************************************************************)
(* depcheck: which headers did the compiler say a C++ unit was built from, *)
(* and does one of them lie where the kernel's own headers are?            *)
(*                                                                         *)
(* A text is a sequence of pieces: "/", ".", ":", "space", "newline",      *)
(* "backslash", and pieces of names, so a name that begins like another    *)
(* one shares its first piece.  Trees and prefixes are compared as texts.  *)
(***************************************************************************)
EXTENDS Naturals, Sequences, SequencesExt

CONSTANTS
  Units,         \* what was compiled: [srctree, objtree, depfiles]
  Allow, Deny    \* prefixes

VARIABLES
  unit,       \* what is checked
  todo,       \* depfiles not read yet
  tokens,     \* tokens of the one that is read
  forbidden,  \* all_violations
  pc          \* "next", "check", "passed", "refused" or "fatal"

dep == <<unit, todo, tokens, forbidden, pc>>

-----------------------------------------------------------------------------
(* What the compiler writes                                                *)

\* A path that a depfile hands over as it is spelled: compilers escape blanks, but
\* neither backslashes nor ends of lines.
IsSpelling(t) ==
  /\ t \in Seq(ToSet(t)) /\ t # <<>> /\ t # <<":">>
  /\ ToSet(t) \cap {"backslash", "newline"} = {}

\* A header is [tree, by, path]: a path in the source tree, in the object tree
\* or elsewhere, and how the unit came by it.
Root(u, tree) ==
  CASE tree = "src" -> Append(u.srctree, "/")
    [] tree = "obj" -> <<>>
    [] tree = "./obj" -> Append(u.objtree, "/")
    [] tree = "none" -> <<"/">>

Spelled(u, h) == Root(u, h.tree) \o h.by \o h.path

Escaped(t) ==
  FlattenSeq([k \in DOMAIN t |-> IF t[k] = "space" THEN <<"backslash", "space">> ELSE <<t[k]>>])

\* One rule; the list goes on over lines.
DepfileText(u, d) ==
  <<"unit", ":">>
    \o FlattenSeq([k \in DOMAIN d.headers |->
         (IF k = d.break THEN <<"space", "backslash", "newline", "space">> ELSE <<"space">>)
           \o Escaped(Spelled(u, d.headers[k]))])
    \o <<"newline">>

-----------------------------------------------------------------------------
(* parse_dep_tokens                                                        *)

Blank == {"space", "newline"}

\* What is known behind a piece: the backslashes that are held back, none or one,
\* those that escape what comes next, the token that is read and those before it.
Known(held, escapes, current, out) ==
  [held |-> held, escapes |-> escapes, current |-> current, out |-> out]

Flush(s) ==
  IF s.current = <<>> THEN s ELSE Known(s.held, s.escapes, <<>>, Append(s.out, s.current))

\* Fault: a backslash is a piece like any other.
TokenizedRaw(s, c) ==
  IF c \in Blank THEN Flush(s) ELSE Known(s.held, 0, Append(s.current, c), s.out)

Tokenized(s, c) ==
  IF s.escapes = 0 /\ c = "backslash" THEN Known(s.held, 1, s.current, s.out)
  ELSE IF s.escapes = 0 /\ c \in Blank THEN Flush(s)
  ELSE Known(s.held, 0, Append(s.current, c), s.out)

Holding(s, n) == Known(n, s.escapes, s.current, s.out)

\* Lines are joined before they are tokenized: a backslash is held back until it
\* is known that no line ends behind it, and goes with that end.
Taken(s, c) ==
  IF s.held = 1 /\ c = "newline" THEN Holding(s, 0)
  ELSE LET behind == IF s.held = 1 THEN Tokenized(Holding(s, 0), "backslash") ELSE s
       IN  IF c = "backslash" THEN Holding(behind, 1) ELSE Tokenized(behind, c)

\* What is known behind the text, begun with s.
Read(s, t) ==
  LET behind[k \in 0..Len(t)] == IF k = 0 THEN s ELSE Taken(behind[k - 1], t[k])
  IN  behind[Len(t)]

\* A backslash with nothing behind it stands for itself.
Ended(s) == IF s.escapes = 1 THEN Known(s.held, 0, Append(s.current, "backslash"), s.out) ELSE s

Tokens(t) == Flush(Ended(Read(Known(0, 0, <<>>, <<>>), t))).out

-----------------------------------------------------------------------------
(* check_depfile                                                           *)

\* A tree's name at the front goes, as text, and one slash behind it.
Stripped(t, tree) ==
  IF tree = <<>> \/ ~IsPrefix(tree, t) THEN t
  ELSE LET rest == SubSeq(t, Len(tree) + 1, Len(t))
       IN  IF rest # <<>> /\ rest[1] = "/" THEN Tail(rest) ELSE rest

\* normalize_path: the components that are left.
Entered(s) ==
  [comps |-> CASE s.current \in {<<>>, <<".">>} -> s.comps
               [] s.current = <<".", ".">> -> IF s.comps = <<>> THEN <<>> ELSE Front(s.comps)
               [] OTHER -> Append(s.comps, s.current),
   current |-> <<>>]

Slashed(comps) ==
  FlattenSeq([k \in DOMAIN comps |-> IF k = 1 THEN comps[k] ELSE <<"/">> \o comps[k]])

Normalized(t) ==
  LET read(s, c) == IF c = "/" THEN Entered(s) ELSE [s EXCEPT !.current = Append(@, c)]
  IN  Slashed(Entered(FoldLeft(read, [comps |-> <<>>, current |-> <<>>], t)).comps)

Matches(path, prefixes) == \E p \in prefixes : IsPrefix(p, path)

\* Fault: a path is matched as it is spelled.
PathAsSpelled(u, token) == Stripped(Stripped(token, u.srctree), u.objtree)

Path(u, token) == Normalized(Stripped(Stripped(token, u.srctree), u.objtree))

EndsRule(token) == Last(token) = ":"

\* The first token that ends the targets of a rule, and those behind it.
Colon(all) == SelectInSeq(all, EndsRule)
Prerequisites(all) == SubSeq(all, Colon(all) + 1, Len(all))

\* A depfile that is empty has nothing to check.
ReadDepfile ==
  /\ pc = "next" /\ todo # <<>>
  /\ LET d == Head(todo)
         all == Tokens(d.text)
     IN  /\ tokens' = Prerequisites(all)
         /\ pc' = IF ~d.readable \/ (all # <<>> /\ Colon(all) = 0) THEN "fatal" ELSE "check"
  /\ todo' = Tail(todo)
  /\ UNCHANGED <<unit, forbidden>>

\* Allowed comes before denied; nothing is left of the path to the tree itself.
IsDenied(path) == path # <<>> /\ ~Matches(path, Allow) /\ Matches(path, Deny)

\* A path that is no UTF-8 ends the run.
CheckPath ==
  /\ pc = "check" /\ tokens # <<>>
  /\ tokens' = Tail(tokens)
  /\ LET path == Path(unit, Head(tokens))
         checked == Head(tokens) # <<":">>
     IN  IF checked /\ Contains(path, "garbled")
         THEN pc' = "fatal" /\ UNCHANGED forbidden
         ELSE /\ forbidden' = IF checked /\ IsDenied(path) THEN Append(forbidden, path) ELSE forbidden
              /\ UNCHANGED pc
  /\ UNCHANGED <<unit, todo>>

NextDepfile ==
  /\ pc = "check" /\ tokens = <<>>
  /\ pc' = "next"
  /\ UNCHANGED <<unit, todo, tokens, forbidden>>

Report ==
  /\ pc = "next" /\ todo = <<>>
  /\ pc' = IF forbidden = <<>> THEN "passed" ELSE "refused"
  /\ UNCHANGED <<unit, todo, tokens, forbidden>>

Contents(u) ==
  [k \in DOMAIN u.depfiles |->
     [readable |-> u.depfiles[k].readable, text |-> DepfileText(u, u.depfiles[k])]]

Init ==
  /\ unit \in Units
  /\ todo = Contents(unit)
  /\ tokens = <<>> /\ forbidden = <<>> /\ pc = "next"

Next == ReadDepfile \/ CheckPath \/ NextDepfile \/ Report

Spec == Init /\ [][Next]_dep

-----------------------------------------------------------------------------
(* Properties                                                              *)

Headers == UNION {ToSet(unit.depfiles[k].headers) : k \in DOMAIN unit.depfiles}

\* Where a header lies in its tree decides, not how its path is spelled.
IsForbidden(h) == h.tree # "none" /\ Matches(h.path, Deny) /\ ~Matches(h.path, Allow)

\* The boundary is kept: a unit passes only if every depfile was read and no
\* header of it lies behind the boundary, through whichever directories and
\* spellings the compiler came to it, and is refused only for such a header.
BoundaryIsKept ==
  /\ pc = "passed" =>
       /\ \A k \in DOMAIN unit.depfiles : unit.depfiles[k].readable
       /\ ~\E h \in Headers : IsForbidden(h)
  /\ pc = "refused" => \E h \in Headers : IsForbidden(h)

\* Every header of every depfile is put to the prefixes, and nothing else is,
\* however names are escaped, lines are broken and headers are spread over
\* depfiles: a verdict is given only when every depfile was read and no path is
\* garbled, what is reported are the denied paths of the headers, all of them, and
\* the unit passes exactly if there are none.
EveryHeaderIsJudged ==
  LET paths == {Path(unit, Spelled(unit, h)) : h \in Headers}
  IN  pc \in {"passed", "refused"} =>
        /\ \A k \in DOMAIN unit.depfiles : unit.depfiles[k].readable
        /\ \A p \in paths : ~Contains(p, "garbled")
        /\ ToSet(forbidden) = {p \in paths : IsDenied(p)}
        /\ pc = "passed" <=> forbidden = <<>>
=============================================================================
