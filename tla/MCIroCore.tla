----------------------------- MODULE MCIroCore -----------------------------
(***************************************************************************)
(* Two parts of iro-core that have nothing in common but their size: the   *)
(* owning types and the format strings.  A behaviour exercises one of the  *)
(* two.                                                                    *)
(***************************************************************************)
EXTENDS OwningTypes, TLC

VARIABLES text, arity, pc, i, specs, caller, args, out, written, used

formatting == <<text, arity, pc, i, specs, caller, args, out, written, used>>

\* Owners and blocks are only compared; values are only passed on.
Perms == Permutations(Owners) \cup Permutations(Blocks)

-----------------------------------------------------------------------------
(* Short texts of all kinds, and numbers at the limits of their types.  A  *)
(* word of seven hexadecimal digits has, like one of eight or sixteen,     *)
(* decimals of more digits than that and one.                              *)

MCWord == 7

Argument(kind, digits, val, t) == [kind |-> kind, digits |-> digits, val |-> val, text |-> t]

MCTexts ==
  SeqOf({"{", "}", ":", "x", "q"}, 4)
    \cup {<<"{", ":", l, "}">> : l \in {"d", "p", "s"}}
    \cup {<<"{", "}", "q", "{", ":", "x", "}">>, <<"{", "{", "{", "}", "}", "}">>,
          <<"}", "}", "{", "}", "}", "}">>, <<"{", "}", "{", "}", "}">>, <<"{", ":", "x", "q", "}">>}

MCArguments ==
  {Argument("signed", MCWord, v, <<>>) :
     v \in {-1, 99999999, -100000000, -(16^MCWord \div 2)}}
    \cup {Argument("unsigned", 2, v, <<>>) : v \in {0, 255}}
    \cup {Argument("unsigned", 4, 65535, <<>>)}
    \cup {Argument("unsigned", MCWord, v, <<>>) : v \in {99999999, 100000000, 16^MCWord - 1}}
    \cup {Argument("bool", 2, 1, <<>>), Argument("pointer", MCWord, 4096, <<>>)}
    \cup {Argument("chars", MCWord, 0, <<>>), Argument("chars", MCWord, 4096, <<"q", "{">>)}

Fmt == INSTANCE Format WITH
  Texts <- MCTexts, Arguments <- MCArguments, Capacities <- {0, 1, 5, 12},
  LogSize <- 7, Word <- MCWord

NoText ==
  /\ text = <<>> /\ arity = 0 /\ pc = "none" /\ i = 1 /\ specs = <<>>
  /\ caller = "none" /\ args = <<>> /\ out = <<>> /\ written = 0 /\ used = 0

\* Of the owning types' initial states, one that is left alone.
MCInit == Init /\ (NoText \/ (class = "optional" /\ Fmt!Init))

MCNext ==
  \/ pc = "none" /\ Next /\ UNCHANGED formatting
  \/ Fmt!Next /\ UNCHANGED vars

MCSpec == MCInit /\ [][MCNext]_<<vars, formatting>>

\* See Format: the scans at compile time and at run time agree, and what is
\* written is what the text spells, cut and terminated inside the buffer.
WritesWhatItSpells == Fmt!WritesWhatItSpells

\* See Format: only decimals of the widest types overrun the array of digits.
OnlyWideDecimalsOverrun == Fmt!OnlyWideDecimalsOverrun
=============================================================================
