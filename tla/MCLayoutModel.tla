---- MODULE MCLayoutModel ----
EXTENDS LayoutModel

MCWords == {"struct", "a", "b", "x", "y", "1", "byte", "bit"}
MCNumbers == {"1"}

A == <<"struct", " ", "a">>
A_ == <<"struct", " ", "a", " ">>
AA == <<"struct", " ", " ", "a">>
X == <<"x">>
UX == <<"_", "x">>
X1 == <<"x", "[", "1", "]">>
A__B == <<"a", "_", "_", "b">>
PlainA == <<"a">>
B__X == <<"b", "_", "_", "x">>
XDot == <<"x", ".", "y">>
XUnder == <<"x", "_", "y">>
XByte == <<"x", ".", "byte">>
XBit == <<"x", "_", "bit">>

Type(n, p, fs, bs) == [c_type |-> n, policy |-> p, fields |-> fs, bitfields |-> bs]
Enum(n, vs) == [c_type |-> n, values |-> vs, extract_all |-> vs = <<>>]
Manifest(ts, cs, es) == [types |-> ts, constants |-> cs, enums |-> es]

MCManifests ==
  {Manifest(<<Type(A, "geometry", <<X>>, <<>>)>>, <<>>, <<>>),
   Manifest(<<Type(A, "geometry", <<UX>>, <<>>), Type(A_, "geometry", <<X>>, <<>>)>>, <<>>, <<>>),
   Manifest(<<Type(A__B, "geometry", <<X>>, <<>>), Type(PlainA, "geometry", <<B__X>>, <<>>)>>, <<>>, <<>>),
   Manifest(<<Type(A, "geometry", <<XDot, XUnder>>, <<>>)>>, <<>>, <<>>),
   Manifest(<<Type(A, "geometry", <<X>>, <<>>), Type(AA, "geometry", <<>>, <<>>)>>, <<>>, <<>>),
   Manifest(<<Type(A, "geometry", <<X>>, <<>>), Type(A, "geometry", <<X1>>, <<>>)>>, <<>>, <<>>),
   Manifest(<<Type(A, "geometry", <<X>>, <<>>), Type(A, "accessor_shim", <<>>, <<X>>)>>, <<>>, <<>>),
   Manifest(<<Type(A, "geometry", <<>>, <<X>>)>>, <<>>, <<>>),
   Manifest(<<Type(A, "geometry", <<X, XBit>>, <<X>>)>>, <<>>, <<>>),
   Manifest(<<Type(A, "geometry", <<XByte>>, <<X>>)>>, <<>>, <<>>),
   Manifest(<<Type(A, "accessor_shim", <<X>>, <<X>>)>>, <<>>, <<>>),
   Manifest(<<>>, <<X, UX>>, <<>>),
   Manifest(<<>>, <<X>>, <<Enum(A, <<X>>)>>),
   Manifest(<<>>, <<>>, <<Enum(A, <<X>>), Enum(A_, <<X>>)>>),
   Manifest(<<>>, <<>>, <<Enum(A, <<X>>), Enum(A, <<>>)>>),
   Manifest(<<>>, <<X>>, <<Enum(A, <<>>)>>)}

Entry(k, t, n, v) == [kind |-> k, type |-> t, name |-> n, value |-> v]

\* What the probe of a manifest records, with a value.
Wanted(man, v) ==
  {Entry("type", t.c_type, <<>>, v) : t \in Range(man.types)}
    \cup UNION {{Entry("field", t.c_type, f, v) : f \in Range(t.fields)} : t \in Range(man.types)}
    \cup UNION {{Entry("accessor", t.c_type, f, v) : f \in Range(t.bitfields)} :
                  t \in {u \in Range(man.types) : u.policy = "accessor_shim"}}
    \cup {Entry("const", c, <<>>, v) : c \in Range(man.constants)}
    \cup UNION {{Entry("enum", e.c_type, n, v) : n \in Range(e.values)} : e \in Range(man.enums)}

\* All of it, or all but one, in any order; and one of it said again, or
\* contradicted, first.
Records(man) ==
  LET all == Wanted(man, 1)
      orders == UNION {SetToSeqs(es) : es \in {all} \cup {all \ {e} : e \in all}}
  IN  orders \cup {<<e>> \o s : e \in all \cup Wanted(man, 2), s \in orders}

\* What its debug information may hold.
Found(man) ==
  LET bits == {<<t.c_type, b>> : t \in {u \in Range(man.types) : u.bitfields # <<>>}, b \in {X}}
      enums == {e.c_type : e \in {x \in Range(man.enums) : x.extract_all}}
  IN  {<<>>}
        \cup {<<Entry("geometry", p[1], p[2], 1)>> : p \in bits}
        \cup {<<Entry("enum", n, X, 1)>> : n \in enums}
        \cup {<<Entry("enum", n, XDot, 1), Entry("enum", n, XUnder, 2)>> : n \in enums}

MCInputs ==
  UNION {[manifest : {man}, set : {TRUE}, hash : {TRUE}, debug : {TRUE},
          records : Records(man), entries : Found(man)] : man \in MCManifests}
    \cup [manifest : {Manifest(<<>>, <<X>>, <<Enum(A, <<>>)>>)}, set : BOOLEAN, hash : BOOLEAN,
          debug : BOOLEAN, records : {<<Entry("const", X, <<>>, 1)>>},
          entries : {<<Entry("enum", A, X, 1)>>}]
====
