---- MODULE MCLayoutEmit ----
EXTENDS LayoutEmit

\* Inputs that differ in one thing each: a change of the kernel headers gives a
\* new layout under the old hash, and new names where an enum has one more
\* enumerator; a constant's expression comes with a new hash.
MCGens == {[hash |-> "a", consts |-> "p", names |-> "n", layout |-> "x"],
           [hash |-> "a", consts |-> "p", names |-> "n", layout |-> "y"],
           [hash |-> "a", consts |-> "p", names |-> "m", layout |-> "z"],
           [hash |-> "b", consts |-> "q", names |-> "n", layout |-> "y"]}
====
