----------------------------- MODULE MCManifest -----------------------------
(***************************************************************************)
(* Files of up to three blocks, each a header and the keys under it, in    *)
(* any order and with repetitions, around one preamble.                    *)
(***************************************************************************)
EXTENDS Manifest

Table(path) == [kind |-> "table", path |-> path]
Error == [kind |-> "error"]

Value(type, v) == [type |-> type, v |-> v, expr |-> None, ctype |-> None, more |-> FALSE]
Inline(expr, ctype, more) ==
  [type |-> "inline", v |-> <<>>, expr |-> expr, ctype |-> ctype, more |-> more]

Key(key, value) == [kind |-> "key", key |-> key, value |-> value]
String(key, s) == Key(key, Value("string", <<s>>))
Bool(key, s) == Key(key, Value("bool", <<s>>))
Strings(key, s) == Key(key, Value("strings", s))

MCDesignators ==
  [s \in {"a", "b", "a.b", "a[1]", "", "->"} |->
     LET plain(n) == [name |-> n, index |-> None]
     IN  CASE s = "a" -> <<plain("a")>>
           [] s = "b" -> <<plain("b")>>
           [] s = "a.b" -> <<plain("a"), plain("b")>>
           [] s = "a[1]" -> <<[name |-> "a", index |-> 1]>>
           [] OTHER -> None]

Preamble == <<String("schema_version", "1.5"), String("set", "s"), Strings("includes", <<"h">>)>>

Preambles ==
  {Preamble, Tail(Preamble), <<Preamble[1], Preamble[3]>>, Front(Preamble),
   Append(Preamble, String("set", "t")), Append(Preamble, String("author", "me")),
   Append(Preamble, Bool("set", "true"))}

Under(path, keys) == {<<Table(path)>> \o k : k \in keys}

T1 == <<"types", "t1">>
E1 == <<"enums", "e1">>

\* Blocks whose values are good on their own.
GoodBlocks ==
  Under(T1, {<<>>, <<String("c_type", "struct t")>>, <<Strings("fields", <<"a">>)>>,
             <<Strings("bitfields", <<"b">>)>>,
             <<String("c_type", "struct t"), Strings("bitfields", <<"b">>)>>,
             <<String("author", "me")>>})
  \cup Under(Append(T1, "options"), {<<String("bitfield_policy", "geometry")>>,
                                     <<String("bitfield_policy", "accessor_shim")>>})
  \cup Under(<<"types", "t2">>, {<<String("c_type", "t2_t")>>})
  \cup Under(E1, {<<String("c_type", "enum e")>>, <<Strings("values", <<"v", "w">>)>>,
                  <<String("c_type", "enum e"), Bool("extract_all", "true")>>})
  \cup Under(<<"constants">>, {<<Key("c", Inline("1", None, FALSE))>>,
                               <<Key("c", Inline("1", "int", TRUE))>>})
  \cup Under(<<"options">>, {<<Bool("strict", "false")>>, <<Bool("strict", "true")>>})
  \cup Under(<<"else">>, {<<String("author", "me")>>})

\* Blocks with what may be wrong with a value, or forbidden by an option.
OtherBlocks ==
  Under(<<"options">>, {<<String("bitfield_policy", "deny")>>, <<String("bitfield_policy", "x")>>,
                        <<Bool("allow_nested_designators", "false")>>,
                        <<Bool("allow_array_subscripts", "false")>>})
  \cup Under(Append(T1, "options"), {<<String("bitfield_policy", "deny")>>})
  \cup Under(<<"types", "t2">>,
             {<<String("c_type", "t2_t"), Strings("fields", f)>> :
                f \in {<<"a", "a">>, <<"a.b">>, <<"a[1]">>, <<"->">>, <<"">>}}
             \cup {<<String("c_type", "t2_t"), Strings("bitfields", <<"a[1]">>)>>})
  \cup Under(E1, {<<String("c_type", "enum e"), Strings("values", <<"v">>),
                    Bool("extract_all", "true")>>,
                  <<String("c_type", ""), Strings("values", <<"v", "v">>)>>})
  \cup Under(<<"constants">>, {<<Key("c", Inline("", None, FALSE))>>,
                               <<Key("c", Inline(None, "int", FALSE))>>})
  \cup Under(<<"target">>, {<<Strings("arch", <<"riscv">>)>>})
  \cup {<<Error>>}

File(preamble, blocks, stem) == [stem |-> stem, lines |-> preamble \o FlattenSeq(blocks)]

Plain == <<Table(T1), String("c_type", "struct t"), Strings("bitfields", <<"b">>)>>

MCFiles ==
  {File(Preamble, <<a, b, c>>, "s") : a, b, c \in GoodBlocks}
    \cup {File(Preamble, <<a, b>>, "s") : a, b \in GoodBlocks \cup OtherBlocks}
    \cup {File(Preamble, <<a, b, Plain>>, "s") : a, b \in OtherBlocks}
    \cup {File(p, <<Plain>>, stem) : p \in Preambles, stem \in {"s", "t"}}
=============================================================================
