----------------------------- MODULE OutputSet -----------------------------
(***************************************************************************)
(* What one run of "layout_parse --emit" promises about the four files it  *)
(* keeps under include/generated/iro: each file holds a whole rendering or *)
(* is missing, files are replaced in the order h, hpp, meta, stamp, and a  *)
(* run reports success only when the four of them render its own inputs.   *)
(*                                                                         *)
(* LayoutEmit is the detailed specification (temporary files, stream       *)
(* buffers, renames, crashes) and implements this one.                     *)
(***************************************************************************)
CONSTANTS
  Gens,    \* what a run can be asked to render: records
           \* [hash, consts, names, layout]
  Absent,  \* content of a file that does not exist
  Torn,    \* content of a file that holds only part of what was written
  Edited   \* content nobody rendered (a hand edit)

Outputs == {"h", "hpp", "meta", "stamp"}

\* The outputs that are compared before they are replaced.
Compared == Outputs \ {"stamp"}

(***************************************************************************)
(* What an output is rendered from.  The header prints the input hash, the *)
(* names the manifest asks for (of an enum it asks for as a whole, those   *)
(* found in the headers), and their values: constants and layout.  The hpp *)
(* prints the names, and the header's macros for their values.  The meta   *)
(* file holds only the hash, and the stamp is the same text for every run. *)
(***************************************************************************)
Text(o, g) ==
  [file   |-> o,
   hash   |-> IF o \in {"h", "meta"} THEN g.hash ELSE "none",
   consts |-> IF o = "h" THEN g.consts ELSE "none",
   names  |-> IF o \in {"h", "hpp"} THEN g.names ELSE "none",
   layout |-> IF o = "h" THEN g.layout ELSE "none"]

\* The outputs a run has dealt with before it comes to o.
Earlier(o) ==
  CASE o = "h"     -> {}
    [] o = "hpp"   -> {"h"}
    [] o = "meta"  -> {"h", "hpp"}
    [] o = "stamp" -> Compared

VARIABLES
  disk,    \* content of each output
  gen,     \* what the current or the last run renders
  rc       \* "running", or how the last run ended

vars == <<disk, gen, rc>>

Outcomes == {"none", "running", "ok", "failed", "verified", "drift"}

Current(o, g) == disk[o] = Text(o, g)

Init ==
  /\ disk = [o \in Outputs |-> Absent]
  /\ gen \in Gens
  /\ rc = "none"

Begin(g) ==
  /\ rc # "running"
  /\ gen' = g
  /\ rc' = "running"
  /\ UNCHANGED disk

\* One output becomes what the run renders, all at once and in order.
Publish(o) ==
  /\ rc = "running"
  /\ \A p \in Earlier(o) : Current(p, gen)
  /\ disk' = [disk EXCEPT ![o] = Text(o, gen)]
  /\ UNCHANGED gen

PublishAndGoOn(o) == Publish(o) /\ UNCHANGED rc

\* The stamp is the last file: replacing it ends the run.
PublishStamp == Publish("stamp") /\ rc' = "ok"

\* A run with nothing to change ends at once.
NothingToDo ==
  /\ rc = "running"
  /\ \A o \in Outputs : Current(o, gen)
  /\ rc' = "ok"
  /\ UNCHANGED <<disk, gen>>

\* A run may stop anywhere; what it has published stays.
Stop ==
  /\ rc = "running"
  /\ rc' = "failed"
  /\ UNCHANGED <<disk, gen>>

Verify(g) ==
  /\ rc # "running"
  /\ gen' = g
  /\ rc' = IF \A o \in Outputs : Current(o, g) THEN "verified" ELSE "drift"
  /\ UNCHANGED disk

\* Between runs anybody may edit or delete an output.
Edit(o) ==
  /\ rc # "running"
  /\ disk' \in {[disk EXCEPT ![o] = c] : c \in {Absent, Edited}}
  /\ rc' = "none"
  /\ UNCHANGED gen

Next ==
  \/ \E g \in Gens : Begin(g) \/ Verify(g)
  \/ \E o \in Compared : PublishAndGoOn(o)
  \/ PublishStamp
  \/ NothingToDo
  \/ Stop
  \/ \E o \in Outputs : Edit(o)

Spec == Init /\ [][Next]_vars
=============================================================================
