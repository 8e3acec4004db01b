------------------------------ MODULE RawStorage ------------------------------
(***************************************************************************)
(* What the owning types of iro-core do to memory, step by step: placement *)
(* new, assignment and destruction of objects in raw storage, kmalloc and  *)
(* kfree, and writes of the discriminator of an owner.  A constructor or   *)
(* an assignment of the user's type may throw; what is unwound then is     *)
(* part of the step.  The compiler checks none of this: the storage is a   *)
(* union or an array of bytes.                                             *)
(***************************************************************************)
EXTENDS Naturals, Sequences, FiniteSets, Functions, SequencesExt

CONSTANTS
  Owners,    \* objects of an owning type
  Blocks,    \* what kmalloc may return
  Values,    \* values of the objects owned
  Moved,     \* the value of an object moved from, or that failed to be assigned
  Nowhere,   \* nullptr
  MaxCount   \* bound on the objects one owner owns

ASSUME OwnersHoldSomething == MaxCount \in Nat \ {0}

VARIABLES
  cell,   \* the object living at a place, or Dead
  mark,   \* the discriminator of an owner: what lives where, or Absent
  heap,   \* blocks allocated
  todo    \* steps left of the call in progress

raw == <<cell, mark, heap, todo>>

Tmp == "tmp"   \* a local variable

ASSUME PlacesAreDistinct ==
  /\ Owners \cap Blocks = {}
  /\ {Tmp, Nowhere} \cap (Owners \cup Blocks) = {} /\ Tmp # Nowhere

Places == (Owners \cup Blocks \cup {Tmp}) \X (0..MaxCount - 1)

Dead == [arm |-> "dead", val |-> Moved]
Things == [arm : {"value", "error"}, val : Values \cup {Moved}]

\* `n' objects of kind `arm' live from place `at' on.  m_has_value is arm,
\* m_has and m_size are n, m_ptr is at.
Marks == [arm : {"value", "error"}, at : Owners \cup Blocks \cup {Nowhere}, n : 0..MaxCount]
Absent == [arm |-> "absent", at |-> Nowhere, n |-> 0]

-----------------------------------------------------------------------------
(* Steps                                                                   *)

\* Where a value comes from: an argument, an object copied, an object moved.
Arg(v) == [by |-> "arg", val |-> v]
Copy(p) == [by |-> "copy", of |-> p]
Move(p) == [by |-> "move", of |-> p]

\* May throw: `unwind' is what runs then.
NewOr(unwind, p, arm, from) ==
  [do |-> "new", at |-> p, arm |-> arm, from |-> from, throws |-> TRUE, unwind |-> unwind]
New(p, arm, from) ==
  [do |-> "new", at |-> p, arm |-> arm, from |-> from, throws |-> FALSE, unwind |-> <<>>]
Assign(p, arm, from) ==
  [do |-> "assign", at |-> p, arm |-> arm, from |-> from, throws |-> TRUE, unwind |-> <<>>]
End(p, arm) == [do |-> "end", at |-> p, arm |-> arm]
Mark(o, m) == [do |-> "mark", owner |-> o, to |-> m]
Alloc(b) == [do |-> "alloc", block |-> b]
Free(b) == [do |-> "free", block |-> b]

Read(from) == IF from.by = "arg" THEN from.val ELSE cell[from.of].val

\* An object moved from goes on living.
Left(from) == IF from.by = "move" THEN [cell EXCEPT ![from.of].val = Moved] ELSE cell

Do(step) == todo # <<>> /\ Head(todo).do = step

Construct ==
  /\ Do("new") \/ Do("assign")
  /\ LET s == Head(todo)
     IN  cell' = [Left(s.from) EXCEPT ![s.at] = [arm |-> s.arm, val |-> Read(s.from)]]
  /\ todo' = Tail(todo)
  /\ UNCHANGED <<mark, heap>>

\* The rest of the call is left out.  An object whose assignment failed, or
\* that was to be moved from, may have lost its value.
Throw ==
  /\ Do("new") \/ Do("assign")
  /\ LET s == Head(todo)
         lost == (IF s.do = "assign" THEN {s.at} ELSE {})
                   \cup (IF s.from.by = "move" THEN {s.from.of} ELSE {})
     IN  /\ s.throws
         /\ \E some \in SUBSET lost :
              cell' = [p \in Places |->
                         IF p \in some THEN [cell[p] EXCEPT !.val = Moved] ELSE cell[p]]
         /\ todo' = s.unwind
  /\ UNCHANGED <<mark, heap>>

Destroy ==
  /\ Do("end")
  /\ cell' = [cell EXCEPT ![Head(todo).at] = Dead]
  /\ todo' = Tail(todo)
  /\ UNCHANGED <<mark, heap>>

SetMark ==
  /\ Do("mark")
  /\ mark' = [mark EXCEPT ![Head(todo).owner] = Head(todo).to]
  /\ todo' = Tail(todo)
  /\ UNCHANGED <<cell, heap>>

Allocate ==
  /\ Do("alloc")
  /\ heap' = heap \cup {Head(todo).block}
  /\ todo' = Tail(todo)
  /\ UNCHANGED <<cell, mark>>

\* Fault: the result of kmalloc is not looked at.
OutOfMemoryUnchecked ==
  /\ Do("alloc")
  /\ heap' = heap \cup {Nowhere}
  /\ todo' = Tail(todo)
  /\ UNCHANGED <<cell, mark>>

\* kmalloc returns nullptr: nothing has been done yet.
OutOfMemory ==
  /\ Do("alloc")
  /\ todo' = <<>>
  /\ UNCHANGED <<cell, mark, heap>>

Release ==
  /\ Do("free")
  /\ heap' = heap \ {Head(todo).block}
  /\ todo' = Tail(todo)
  /\ UNCHANGED <<cell, mark>>

\* The next step is one C++ gives a meaning to.
Legal ==
  todo # <<>> =>
    LET s == Head(todo)
        Lives(p) == cell[p] # Dead
        Usable(p) == p[1] \in Blocks => p[1] \in heap
    IN  CASE s.do = "new" ->
               /\ ~Lives(s.at) /\ Usable(s.at)
               /\ s.from.by # "arg" => Lives(s.from.of) /\ cell[s.from.of].arm = s.arm
          [] s.do = "assign" ->
               /\ Lives(s.at) /\ Lives(s.from.of)
               /\ cell[s.at].arm = s.arm /\ cell[s.from.of].arm = s.arm
          [] s.do = "end" -> Lives(s.at) /\ cell[s.at].arm = s.arm
          [] s.do = "mark" -> TRUE
          [] s.do = "alloc" -> s.block \notin heap
          [] s.do = "free" -> s.block \in heap /\ \A i \in 0..MaxCount - 1 : ~Lives(<<s.block, i>>)
=============================================================================
