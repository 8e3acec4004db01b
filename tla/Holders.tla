------------------------------- MODULE Holders -------------------------------
(***************************************************************************)
(* What the owning types of iro-core promise their callers: each call      *)
(* changes, all at once, what the owners hold, or fails and leaves what    *)
(* PRIMITIVES_SPEC.md says it leaves.  An owner holds a sequence of        *)
(* objects: one for expected, at most one for optional, unique_ptr and     *)
(* box.                                                                    *)
(***************************************************************************)
EXTENDS Naturals, Sequences, SequencesExt

CONSTANTS Owners, Values, Moved, None, MaxCount

VARIABLES
  class,    \* the type of the owners
  held,     \* what an owner holds, or None when it does not exist
  loose,    \* what release() has handed to the caller
  request,  \* the call in progress, or NoCall
  result    \* how the last call ended

vars == <<class, held, loose, request, result>>

Classes == {"expected", "optional", "inplace_vector", "unique_ptr", "boxed_slice"}
OnHeap == class \in {"unique_ptr", "boxed_slice"}

Constructors ==
  CASE class = "expected" -> {"value", "error", "copy", "move"}
    [] class = "optional" -> {"empty", "value", "copy", "move"}
    [] class = "inplace_vector" -> {"empty"}
    [] OTHER -> {"empty", "make", "move"}

Methods ==
  CASE class = "expected" -> {"destroy", "copy_assign", "move_assign", "emplace", "emplace_self"}
    [] class = "optional" -> {"destroy", "copy_assign", "move_assign", "emplace", "reset"}
    [] class = "inplace_vector" ->
         {"destroy", "try_push_back", "push_back", "push_self", "pop_back", "clear"}
    [] class = "unique_ptr" ->
         {"destroy", "move_assign", "release", "reset", "reset_to", "swap", "drop"}
    [] OTHER -> {"destroy", "move_assign", "release", "reset", "drop"}

NoCall == None
Counts == IF class = "unique_ptr" THEN {1} ELSE 0..MaxCount
Requests == [op : Constructors \cup Methods, o : Owners, x : Owners, v : Values, n : Counts]

Full(o) == Len(held[o]) = MaxCount

\* What the caller sees to: objects are constructed once, arguments exist,
\* pop_back finds an element.  Operands that do not matter have one form.
Callable(r) ==
  /\ (held[r.o] = None) = (r.op \in Constructors)
  /\ IF r.op \in {"copy", "move", "copy_assign", "move_assign", "swap"}
       THEN held[r.x] # None
       ELSE r.x = r.o
  /\ r.op = "emplace_self" => held[r.o][1].arm = "value"
  /\ r.op \in {"pop_back", "push_self"} => held[r.o] # <<>>
  /\ r.op \in {"reset_to", "drop"} => loose # <<>>
  /\ r.op = "release" => loose = <<>>
  /\ r.op \notin {"value", "error", "emplace", "make", "try_push_back", "push_back"} =>
       r.v = CHOOSE v \in Values : TRUE
  /\ r.op # "make" => r.n = CHOOSE n \in Counts : TRUE

-----------------------------------------------------------------------------
(* Success                                                                 *)

Thing(arm, v) == [arm |-> arm, val |-> v]

\* Of a move, the source keeps objects of no particular value, or no block.
Residue(c) == IF OnHeap THEN <<>> ELSE [i \in DOMAIN c |-> Thing(c[i].arm, Moved)]

\* What the owner holds after the call.
Becomes(r) ==
  LET c == held[r.o]
  IN  CASE r.op \in {"value", "error"} -> <<Thing(r.op, r.v)>>
        [] r.op = "emplace" -> <<Thing("value", r.v)>>
        [] r.op = "make" -> [i \in 1..r.n |-> Thing("value", r.v)]
        [] r.op \in {"empty", "reset", "clear", "release"} -> <<>>
        [] r.op \in {"copy", "move", "copy_assign", "move_assign", "swap"} -> held[r.x]
        [] r.op = "destroy" -> None
        [] r.op \in {"try_push_back", "push_back"} ->
             IF Full(r.o) THEN c ELSE Append(c, Thing("value", r.v))
        [] r.op = "push_self" -> IF Full(r.o) THEN c ELSE Append(c, c[1])
        [] r.op = "pop_back" -> Front(c)
        [] r.op = "reset_to" -> loose
        [] OTHER -> c

After(r) ==
  LET other == CASE r.op \in {"move", "move_assign"} -> Residue(held[r.x])
                 [] r.op = "swap" -> held[r.o]
                 [] OTHER -> held[r.x]
  IN  [held EXCEPT ![r.x] = IF r.x = r.o THEN @ ELSE other, ![r.o] = Becomes(r)]

LooseAfter(r) ==
  CASE r.op = "release" -> held[r.o]
    [] r.op \in {"reset_to", "drop"} -> <<>>
    [] OTHER -> loose

-----------------------------------------------------------------------------
(* Failure                                                                 *)

MayThrow(r) ==
  \/ r.op \in {"value", "error", "copy", "emplace", "emplace_self", "make", "try_push_back",
               "push_back", "push_self"}
  \/ r.op = "move" /\ class = "optional"
  \/ r.op \in {"copy_assign", "move_assign"} /\ ~OnHeap /\ r.o # r.x

\* An assignment from object to object leaves a failure to their type.
SameArm(r) ==
  /\ r.op \in {"copy_assign", "move_assign"}
  /\ held[r.o] # <<>> /\ held[r.x] # <<>>
  /\ held[r.o][1].arm = held[r.x][1].arm

\* "expected: emplace keeps prior state if argument construction fails", and so
\* does cross-arm assignment; "optional: failed emplace leaves object
\* disengaged".
Kept(r) ==
  IF SameArm(r) THEN {held[r.o], Residue(held[r.o])}
  ELSE IF class = "optional" /\ r.op \notin Constructors THEN {<<>>}
  ELSE {held[r.o]}

Source(r) ==
  IF r.op \in {"move", "move_assign"} THEN {held[r.x], Residue(held[r.x])} ELSE {held[r.x]}

Failed(r) ==
  {[held EXCEPT ![r.x] = IF r.x = r.o THEN @ ELSE d, ![r.o] = c] : c \in Kept(r), d \in Source(r)}

-----------------------------------------------------------------------------

Init ==
  /\ class \in Classes
  /\ held = [o \in Owners |-> None]
  /\ loose = <<>>
  /\ request = NoCall
  /\ result = "ok"

Ask(r) ==
  /\ request = NoCall /\ result # "trapped"
  /\ Callable(r)
  /\ request' = r
  /\ result' = "pending"
  /\ UNCHANGED <<class, held, loose>>

Succeed(r) ==
  /\ result' = "ok"
  /\ held' = After(r)
  /\ loose' = LooseAfter(r)

Fail(r) ==
  /\ result' = "failed"
  /\ MayThrow(r)
  /\ held' \in Failed(r)
  /\ UNCHANGED loose

\* push_back on a full vector, in a debug build.
Trap(r) ==
  /\ result' = "trapped"
  /\ r.op \in {"push_back", "push_self"} /\ Full(r.o)
  /\ UNCHANGED <<held, loose>>

Answer ==
  /\ request # NoCall
  /\ request' = NoCall
  /\ Succeed(request) \/ Fail(request) \/ Trap(request)
  /\ UNCHANGED class

Next == (\E r \in Requests : Ask(r)) \/ Answer

Spec == Init /\ [][Next]_vars
=============================================================================
