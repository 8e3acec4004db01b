---- MODULE MCProbeNote ----
EXTENDS ProbeNote

\* Names of every length modulo four.
MCLength ==
  [n \in {"", "s1", "s2", "s3", "s4", "t5", "t8", "f1", "f2", "b3", "c4", "e6", "v7", "v9"} |->
     CASE n = "" -> 0
       [] n \in {"s1", "f1"} -> 1
       [] n \in {"s2", "f2"} -> 2
       [] n \in {"s3", "b3"} -> 3
       [] n \in {"s4", "c4"} -> 4
       [] n = "t5" -> 5
       [] n = "e6" -> 6
       [] n = "v7" -> 7
       [] n = "t8" -> 8
       [] n = "v9" -> 9]

Types ==
  [c_type : {"t5", "t8"}, fields : {<<>>, <<"f1">>, <<"f2", "f1">>},
   bitfields : {<<>>, <<"b3">>}, policy : {"geometry", "accessor_shim"}]

Shims == {t \in Types : t.policy = "accessor_shim" /\ t.bitfields # <<>>}

Enums ==
  {[c_type |-> "e6", values |-> <<"v7", "v9">>, extract_all |-> FALSE],
   [c_type |-> "e6", values |-> <<>>, extract_all |-> TRUE]}

MCManifests ==
  [set : {"s1", "s2", "s3", "s4"}, types : {<<>>} \cup {<<t>> : t \in Types},
   constants : {<<>>, <<"c4">>}, enums : {<<>>} \cup {<<e>> : e \in Enums}]
    \cup [set : {"s3"}, types : {<<t, u>> : t, u \in Shims}, constants : {<<"c4">>}, enums : {<<>>}]
====
