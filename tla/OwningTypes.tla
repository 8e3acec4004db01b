----------------------------- MODULE OwningTypes -----------------------------
(***************************************************************************)
(* expected, optional, inplace_vector, unique_ptr (box) and boxed_slice:   *)
(* each method as the steps it makes, in the order of the code.  A call    *)
(* runs to its end or to the first exception; step by step it does what    *)
(* Holders promises at once.                                               *)
(***************************************************************************)
EXTENDS RawStorage

CONSTANT None   \* no call, and what an owner holds that does not exist

\* What can be asked of an owner, of whatever class.
Operations ==
  {"value", "error", "copy", "move", "empty", "make", "destroy", "copy_assign", "move_assign",
   "emplace", "emplace_self", "reset", "release", "reset_to", "swap", "drop",
   "try_push_back", "push_back", "push_self", "pop_back", "clear"}

ASSUME NoneIsNothing ==
  /\ None \notin Seq(Things \cup {Dead})
  /\ None \notin [op : Operations, o : Owners, x : Owners, v : Values, n : Nat]

VARIABLES
  class,    \* the type of the owners
  loose,    \* what release() has handed to the caller
  request,  \* the call in progress
  status,   \* how it has gone so far
  before    \* what was held, and loose, when it began

vars == <<raw, class, loose, request, status, before>>

Null == [arm |-> "value", at |-> Nowhere, n |-> 0]
Holds(o, arm, n) == [arm |-> arm, at |-> o, n |-> n]

Living(m) == [i \in 1..m.n |-> cell[<<m.at, i - 1>>]]
Contents == [o \in Owners |-> IF mark[o] = Absent THEN None ELSE Living(mark[o])]

AtRest == request = None

\* During a call callers see what was there before it.
Promise == INSTANCE Holders WITH
  held <- IF AtRest THEN Contents ELSE before.held,
  loose <- IF AtRest THEN Living(loose) ELSE before.loose,
  result <- IF AtRest THEN status ELSE "pending"

-----------------------------------------------------------------------------
(* Steps the methods share                                                 *)

\* Destruction of all that a mark says is alive, first to last.
Ends(m) == [i \in 1..m.n |-> End(<<m.at, i - 1>>, m.arm)]

Only(o) == <<o, 0>>

\* A constructor that throws leaves no object behind.
Born(o, arm, from) ==
  <<Mark(o, Holds(o, arm, 1)), NewOr(<<Mark(o, Absent)>>, Only(o), arm, from)>>

-----------------------------------------------------------------------------
(* expected                                                                *)

Local == Only(Tmp)

\* Fault: the new object is built before the old one is destroyed.
StageOver(o, first, arm) ==
  <<first, New(Only(o), arm, Move(Local))>> \o Ends(mark[o])
    \o <<Mark(o, Holds(o, arm, 1)), End(Local, arm)>>

\* Construct-before-destroy: only the local variable's constructor may throw.
Stage(o, first, arm) ==
  <<first>> \o Ends(mark[o])
    \o <<New(Only(o), arm, Move(Local)), Mark(o, Holds(o, arm, 1)), End(Local, arm)>>

\* Fault: the copy assignment moves.
CopyOfMoves(x) == Move(Only(x))
CopyOf(x) == Copy(Only(x))

ExpectedSteps(r) ==
  LET o == r.o
      x == r.x
      same == mark[o].arm = mark[x].arm
      its == mark[x].arm
  IN  CASE r.op \in {"value", "error"} -> Born(o, r.op, Arg(r.v))
        [] r.op = "copy" -> Born(o, its, CopyOf(x))
        [] r.op = "move" -> <<Mark(o, Holds(o, its, 1)), New(Only(o), its, Move(Only(x)))>>
        [] r.op = "destroy" -> Ends(mark[o]) \o <<Mark(o, Absent)>>
        [] r.op \in {"copy_assign", "move_assign"} /\ o = x -> <<>>
        [] r.op = "copy_assign" /\ o # x ->
             IF same THEN <<Assign(Only(o), its, CopyOf(x))>>
             ELSE Stage(o, NewOr(<<>>, Local, its, CopyOf(x)), its)
        [] r.op = "move_assign" /\ o # x ->
             IF same THEN <<Assign(Only(o), its, Move(Only(x)))>>
             ELSE Stage(o, New(Local, its, Move(Only(x))), its)
        [] r.op = "emplace" -> Stage(o, NewOr(<<>>, Local, "value", Arg(r.v)), "value")
        [] r.op = "emplace_self" -> Stage(o, NewOr(<<>>, Local, "value", CopyOf(o)), "value")

-----------------------------------------------------------------------------
(* optional                                                                *)

Disengage(o) ==
  IF mark[o].n = 0 THEN <<>> ELSE Ends(mark[o]) \o <<Mark(o, Holds(o, "value", 0))>>

Emplace(o, from) ==
  Disengage(o)
    \o <<NewOr(<<>>, Only(o), "value", from), Mark(o, Holds(o, "value", 1))>>

OptionalSteps(r) ==
  LET o == r.o
      x == r.x
      from == IF r.op \in {"copy", "copy_assign"} THEN Copy(Only(x)) ELSE Move(Only(x))
      full == mark[x].n = 1
  IN  CASE r.op = "empty" -> <<Mark(o, Holds(o, "value", 0))>>
        [] r.op = "value" -> Born(o, "value", Arg(r.v))
        [] r.op \in {"copy", "move"} ->
             IF full THEN Born(o, "value", from) ELSE <<Mark(o, Holds(o, "value", 0))>>
        [] r.op = "destroy" -> Disengage(o) \o <<Mark(o, Absent)>>
        [] r.op = "reset" -> Disengage(o)
        [] r.op = "emplace" -> Emplace(o, Arg(r.v))
        [] r.op \in {"copy_assign", "move_assign"} ->
             IF o = x THEN <<>>
             ELSE IF ~full THEN Disengage(o)
             ELSE IF mark[o].n = 1 THEN <<Assign(Only(o), "value", from)>>
             ELSE Emplace(o, from)

-----------------------------------------------------------------------------
(* inplace_vector                                                          *)

Push(o, from) ==
  IF mark[o].n >= MaxCount THEN <<>>
  ELSE <<NewOr(<<>>, <<o, mark[o].n>>, "value", from),
         Mark(o, Holds(o, "value", mark[o].n + 1))>>

VectorSteps(r) ==
  LET o == r.o
  IN  CASE r.op = "empty" -> <<Mark(o, Holds(o, "value", 0))>>
        [] r.op \in {"try_push_back", "push_back"} -> Push(o, Arg(r.v))
        [] r.op = "push_self" -> Push(o, Copy(Only(o)))
        [] r.op = "pop_back" ->
             <<Mark(o, Holds(o, "value", mark[o].n - 1)), End(<<o, mark[o].n - 1>>, "value")>>
        [] r.op \in {"clear", "destroy"} ->
             Ends(mark[o])
               \o <<Mark(o, IF r.op = "clear" THEN Holds(o, "value", 0) ELSE Absent)>>

-----------------------------------------------------------------------------
(* unique_ptr, box                                                         *)

\* iro_delete
Delete(m) == IF m.at = Nowhere THEN <<>> ELSE Ends(m) \o <<Free(m.at)>>

\* reset(p): the new pointer is in place before the old object goes.
Replace(o, m) == <<Mark(o, m)>> \o Delete(mark[o])

UniquePtrSteps(r, block) ==
  LET o == r.o
      x == r.x
  IN  CASE r.op = "empty" -> <<Mark(o, Null)>>
        [] r.op = "make" ->
             <<Alloc(block), NewOr(<<Free(block)>>, Only(block), "value", Arg(r.v)),
               Mark(o, Holds(block, "value", 1))>>
        [] r.op = "move" -> <<Mark(x, Null), Mark(o, mark[x])>>
        [] r.op = "move_assign" ->
             IF o = x THEN <<>> ELSE <<Mark(x, Null)>> \o Replace(o, mark[x])
        [] r.op = "release" -> <<Mark(o, Null)>>
        [] r.op = "reset" -> Replace(o, Null)
        [] r.op = "reset_to" -> Replace(o, loose)
        [] r.op = "swap" -> <<Mark(o, mark[x]), Mark(x, mark[o])>>
        [] r.op = "destroy" -> Replace(o, Null) \o <<Mark(o, Absent)>>
        [] r.op = "drop" -> Delete(loose)

-----------------------------------------------------------------------------
(* boxed_slice                                                             *)

\* Fault: the block is not freed when a constructor throws.
UndoLeaks(block, made) == [j \in 1..made |-> End(<<block, made - j>>, "value")]

\* The elements made so far go last to first, then the block.
Undo(block, made) == [j \in 1..made |-> End(<<block, made - j>>, "value")] \o <<Free(block)>>

Dispose(o) ==
  IF mark[o].at = Nowhere THEN <<>>
  ELSE Ends(mark[o]) \o <<Free(mark[o].at), Mark(o, Null)>>

BoxedSliceSteps(r, block) ==
  LET o == r.o
      x == r.x
  IN  CASE r.op = "empty" \/ (r.op = "make" /\ r.n = 0) -> <<Mark(o, Null)>>
        [] r.op = "make" /\ r.n > 0 ->
             <<Alloc(block)>>
               \o [i \in 1..r.n |-> NewOr(Undo(block, i - 1), <<block, i - 1>>, "value", Arg(r.v))]
               \o <<Mark(o, Holds(block, "value", r.n))>>
        [] r.op = "move" -> <<Mark(o, mark[x]), Mark(x, Null)>>
        [] r.op = "move_assign" ->
             IF o = x THEN <<>> ELSE Dispose(o) \o <<Mark(o, mark[x]), Mark(x, Null)>>
        [] r.op = "release" -> <<Mark(o, Null)>>
        [] r.op = "reset" -> Dispose(o)
        [] r.op = "destroy" -> Dispose(o) \o <<Mark(o, Absent)>>
        [] r.op = "drop" -> Delete(loose)

-----------------------------------------------------------------------------
(* Calls                                                                   *)

Steps(r, block) ==
  CASE class = "expected" -> ExpectedSteps(r)
    [] class = "optional" -> OptionalSteps(r)
    [] class = "inplace_vector" -> VectorSteps(r)
    [] class = "unique_ptr" -> UniquePtrSteps(r, block)
    [] class = "boxed_slice" -> BoxedSliceSteps(r, block)

Init ==
  /\ class \in Promise!Classes
  /\ cell = [p \in Places |-> Dead]
  /\ mark = [o \in Owners |-> Absent]
  /\ heap = {}
  /\ todo = <<>>
  /\ loose = Null
  /\ request = None
  /\ status = "ok"
  /\ before = [held |-> Contents, loose |-> <<>>]

\* The caller keeps what release() returns, and gives up what it hands over.
Call(r, block) ==
  /\ AtRest /\ status # "trapped"
  /\ Promise!Callable(r)
  /\ request' = r
  /\ status' = "ok"
  /\ before' = [held |-> Contents, loose |-> Living(loose)]
  /\ todo' = Steps(r, block)
  /\ loose' = CASE r.op = "release" -> mark[r.o]
                [] r.op \in {"reset_to", "drop"} -> Null
                [] OTHER -> loose
  /\ UNCHANGED <<cell, mark, heap, class>>

InCall == UNCHANGED <<class, loose, request, before>>

Step == (Construct \/ Destroy \/ SetMark \/ Allocate \/ Release) /\ InCall /\ UNCHANGED status

GiveUp == (Throw \/ OutOfMemory) /\ InCall /\ status' = "failed"

\* debug_assert(try_push_back(...)) traps in a debug build only.
Dropped == request.op \in {"push_back", "push_self"} /\ Len(before.held[request.o]) = MaxCount

Return ==
  /\ ~AtRest /\ todo = <<>>
  /\ request' = None
  /\ status' \in IF Dropped THEN {status, "trapped"} ELSE {status}
  /\ before' = [held |-> Contents, loose |-> Living(loose)]
  /\ UNCHANGED <<raw, class, loose>>

Next ==
  \/ \E r \in Promise!Requests :
       IF r.op = "make" THEN \E block \in Blocks \ heap : Call(r, block) ELSE Call(r, Nowhere)
  \/ Step
  \/ GiveUp
  \/ Return

Spec == Init /\ [][Next]_vars

-----------------------------------------------------------------------------
(* Properties                                                              *)

\* Every variable has its type.
TypeOK ==
  /\ class \in Promise!Classes
  /\ cell \in [Places -> Things \cup {Dead}]
  /\ mark \in [Owners -> Marks \cup {Absent}]
  /\ loose \in Marks
  /\ heap \subseteq Blocks
  /\ status \in {"ok", "failed", "trapped"}
  /\ AtRest => todo = <<>>

\* No step of any sequence of calls, whichever constructors throw, builds an
\* object over a living one, destroys, copies or assigns a dead one or one of
\* the other arm, touches a block that is not allocated, or frees a block in
\* which objects live.
StepsAreLegal == Legal

\* Between calls every discriminator tells the truth: exactly the objects it
\* names are alive, every block allocated has one owner, and nothing is left
\* behind by a call that failed.
EverythingOwnedOnce ==
  AtRest =>
    LET owned(p) == {o \in Owners : mark[o].at = p[1] /\ p[2] < mark[o].n}
        freed(p) == loose.at = p[1] /\ p[2] < loose.n
        blocks == {mark[o].at : o \in Owners} \cup {loose.at}
    IN  /\ \A p \in Places :
             /\ cell[p] # Dead <=> owned(p) # {} \/ freed(p)
             /\ \A o \in owned(p) : cell[p].arm = mark[o].arm
        /\ heap = blocks \cap Blocks
        /\ \A o, x \in Owners : o # x /\ mark[o].at # Nowhere => mark[o].at # mark[x].at
        /\ loose.at # Nowhere => \A o \in Owners : mark[o].at # loose.at

\* A call changes what its owners hold as documented, all at once, or fails as
\* documented: expected keeps its prior state, optional is left disengaged, a
\* vector keeps its elements, an allocation leaves nothing.
KeepsPromise == Promise!Spec
=============================================================================
