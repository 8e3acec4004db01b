---------------------------- MODULE MCDwarfReader ----------------------------
(***************************************************************************)
(* What compilers write, read back.                                        *)
(***************************************************************************)
EXTENDS DwarfReader, TLC

INSTANCE DwarfProducer

CONSTANT MCCompilers   \* the compilers used

Plain ==
  [debug |-> TRUE, linked |-> FALSE, wraps |-> <<>>, pos |-> 3, size |-> 2, unit |-> 1, base |-> "signed",
   chain |-> FALSE, ask |-> "tag", anonymous |-> TRUE, values |-> <<0, 5>>]

With(s, c) == [by |-> c] @@ s

Wrap(how, at, index) == [how |-> how, at |-> at, index |-> index]
Named == Wrap("named", 3, None)
Anon == Wrap("anon", 2, None)
Union == Wrap("union", 2, None)
Elements(index) == Wrap("array", 1, index)

Nests ==
  {<<>>, <<Named>>, <<Anon>>, <<Union>>, <<Anon, Union>>, <<Named, Anon>>, <<Anon, Named>>,
   <<Elements(0)>>, <<Elements(2), Anon>>, <<Elements(2), Elements(1)>>,
   <<Elements(7)>>, <<Elements(6), Named>>, <<Elements(100)>>}

\* [pos, size, unit]
Shapes ==
  {<<0, 1, 1>>, <<0, 8, 1>>, <<7, 1, 1>>, <<8, 8, 1>>, <<5, 7, 1>>,
   <<0, 16, 2>>, <<5, 7, 2>>, <<12, 4, 2>>, <<12, 6, 2>>, <<17, 15, 2>>}

Shaped(s, shape) == [s EXCEPT !.pos = shape[1], !.size = shape[2], !.unit = shape[3]]

Geometries == {[Shaped(Plain, shape) EXCEPT !.wraps = w] : shape \in Shapes, w \in Nests}

Typings ==
  {[Plain EXCEPT !.wraps = w, !.base = b, !.chain = c, !.ask = a, !.anonymous = n, !.linked = l] :
     w \in {<<Named>>, <<Anon>>}, b \in {"signed", "unsigned", "boolean", "enum"}, c \in BOOLEAN,
     a \in {"tag", "typedef", "bare"}, n \in BOOLEAN, l \in BOOLEAN}

Enumerations ==
  {[Plain EXCEPT !.values = <<v, w>>, !.linked = l] :
     v \in {-128, -1, 0}, w \in {1, 127, 128, 255}, l \in BOOLEAN}

MCSources ==
  {With(s, c) : s \in Geometries \union Typings \union Enumerations, c \in MCCompilers}
    \union {With([Plain EXCEPT !.debug = FALSE], c) : c \in MCCompilers}

\* What the compilers write are trees: the hypothesis of the theorem about
\* NestingIsKept.
ASSUME CompiledAreTrees == \A s \in MCSources : EntriesAreTrees(Compile(s))

\* Enumerators have values that fit: the hypothesis of the theorem about
\* EnumeratorsKeepSign.
ASSUME CompiledConstantsFit == \A s \in MCSources : ConstantsFit(Compile(s))
=============================================================================
