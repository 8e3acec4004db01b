----------------------------- MODULE LayoutEmit -----------------------------
(***************************************************************************)
(* "layout_parse --emit" and "--verify" at the level of the file system:   *)
(* emit_outputs compares four renderings with the files on disk, replaces  *)
(* what differs through write_if_changed and atomic_write (temporary file, *)
(* buffered stream, rename), and always rewrites the stamp last.  The      *)
(* process may be killed between any two system calls, any call may fail,  *)
(* and the error of the flush done when the stream goes out of scope is    *)
(* not looked at.                                                          *)
(***************************************************************************)
CONSTANTS
  Gens, Absent, Torn, Edited,
  FlushMayFail  \* TRUE: the disk may fill up between write and close

ASSUME FlushMayFailIsBool == FlushMayFail \in BOOLEAN

VARIABLES
  disk,   \* [Outputs -> content]: what other programs see
  draft,  \* content of the temporary file of the output the run is at
  gen,    \* what the current or the last run renders
  rc,     \* "running", or how the last run ended
  step,   \* program counter of the run
  cur,    \* the output the run is at
  need    \* need_h, need_hpp, need_meta, need_stamp: outputs found different

vars == <<disk, draft, gen, rc, step, cur, need>>

\* The promise this module implements, over the variables it shares.
Promise == INSTANCE OutputSet

Outputs == Promise!Outputs
Compared == Promise!Compared
Text(o, g) == Promise!Text(o, g)
Current(o, g) == disk[o] = Text(o, g)

FileSteps == {"check", "open", "write", "close", "rename"}
Steps == {"idle", "compare"} \cup FileSteps

Content == {Text(o, g) : o \in Outputs, g \in Gens} \cup {Absent, Torn, Edited}

ASSUME MarkersAreNoText ==
  \A o \in Outputs, g \in Gens : Text(o, g) \notin {Absent, Torn, Edited}
ASSUME MarkersDiffer == Absent # Torn /\ Torn # Edited /\ Edited # Absent

\* Fault: the meta file is written before the hpp.
FollowingMetaFirst(o) ==
  CASE o = "h"    -> "meta"
    [] o = "meta" -> "hpp"
    [] o \in {"hpp", "stamp"} -> "stamp"

Following(o) ==
  CASE o = "h"    -> "hpp"
    [] o = "hpp"  -> "meta"
    [] o = "meta" -> "stamp"
    [] o = "stamp" -> "stamp"

\* The stamp is not compared again: it goes straight to atomic_write.
FirstStep(o) == IF o = "stamp" THEN "open" ELSE "check"

Init ==
  /\ disk = [o \in Outputs |-> Absent]
  /\ draft = Absent
  /\ gen \in Gens
  /\ rc = "none"
  /\ step = "idle"
  /\ cur = "h"
  /\ need = {}

-----------------------------------------------------------------------------
(* emit_outputs                                                            *)

\* real_main has parsed and validated its inputs and calls emit_outputs.
Begin(g) ==
  /\ step = "idle"
  /\ gen' = g
  /\ rc' = "running"
  /\ step' = "compare"
  /\ UNCHANGED <<disk, draft, cur, need>>

\* Fault: any_changed looks at the stamp alone.
CompareStampOnly ==
  /\ step = "compare"
  /\ need' = {o \in {"stamp"} : ~Current(o, gen)}
  /\ IF need' = {}
       THEN step' = "idle" /\ rc' = "ok" /\ UNCHANGED cur
       ELSE step' = "check" /\ cur' = "h" /\ UNCHANGED rc
  /\ UNCHANGED <<disk, draft, gen>>

\* The four comparisons; nothing to do returns before the stamp is written.
Compare ==
  /\ step = "compare"
  /\ need' = {o \in Outputs : ~Current(o, gen)}
  /\ IF need' = {}
       THEN /\ step' = "idle"
            /\ rc' = "ok"
            /\ UNCHANGED cur
       ELSE /\ step' = "check"
            /\ cur' = "h"
            /\ UNCHANGED rc
  /\ UNCHANGED <<disk, draft, gen>>

\* Fault: every output is rewritten as soon as one has changed.
CheckNothing ==
  /\ step = "check"
  /\ step' = "open"
  /\ UNCHANGED <<disk, draft, gen, rc, cur, need>>

\* if (need_x) write_if_changed(...), which compares once more.
Check ==
  /\ step = "check"
  /\ IF cur \in need /\ ~Current(cur, gen)
       THEN step' = "open" /\ UNCHANGED cur
       ELSE cur' = Following(cur) /\ step' = FirstStep(cur')
  /\ UNCHANGED <<disk, draft, gen, rc, need>>

-----------------------------------------------------------------------------
(* atomic_write                                                            *)

\* Fault: the output itself is opened and truncated.
OpenInPlace ==
  /\ step = "open"
  /\ disk' = [disk EXCEPT ![cur] = Torn]
  /\ draft' = Torn
  /\ step' = "write"
  /\ UNCHANGED <<gen, rc, cur, need>>

Open ==
  /\ step = "open"
  /\ draft' = Torn
  /\ step' = "write"
  /\ UNCHANGED <<disk, gen, rc, cur, need>>

\* Part of the text may stay in the stream's buffer.
Write ==
  /\ step = "write"
  /\ draft' \in {Torn, Text(cur, gen)}
  /\ step' = "close"
  /\ UNCHANGED <<disk, gen, rc, cur, need>>

\* Fault: the rename is moved into the scope of the stream.
CloseAfterRename ==
  /\ step = "close"
  /\ step' = "rename"
  /\ UNCHANGED <<disk, draft, gen, rc, cur, need>>

\* The destructor flushes the buffer and swallows the error, if any.
Close ==
  /\ step = "close"
  /\ \/ draft' = Text(cur, gen)
     \/ FlushMayFail /\ UNCHANGED draft
  /\ step' = "rename"
  /\ UNCHANGED <<disk, gen, rc, cur, need>>

Rename ==
  /\ step = "rename"
  /\ disk' = [disk EXCEPT ![cur] = draft]
  /\ draft' = Absent
  /\ cur' = Following(cur)
  /\ IF cur = "stamp"
       THEN step' = "idle" /\ rc' = "ok"
       ELSE step' = FirstStep(cur') /\ UNCHANGED rc
  /\ UNCHANGED <<gen, need>>

-----------------------------------------------------------------------------
(* Endings, verification and the outside world                             *)

\* Fault: a failed run is still taken for a running one.
StopSilently ==
  /\ step # "idle"
  /\ step' = "idle"
  /\ draft' = Absent
  /\ UNCHANGED <<disk, gen, rc, cur, need>>

\* A failing call ends the run through fatal(), a signal ends it anywhere.
\* The temporary file it leaves behind is truncated before any later use.
Stop ==
  /\ step # "idle"
  /\ step' = "idle"
  /\ rc' = "failed"
  /\ draft' = Absent
  /\ UNCHANGED <<disk, gen, cur, need>>

\* verify_outputs: the same renderings, compared with the files on disk.
Verify(g) ==
  /\ step = "idle"
  /\ gen' = g
  /\ rc' = IF \A o \in Outputs : Current(o, g) THEN "verified" ELSE "drift"
  /\ UNCHANGED <<disk, draft, step, cur, need>>

\* A developer edits or removes an output while no run is in progress.
Edit(o) ==
  /\ step = "idle"
  /\ \E c \in {Absent, Edited} : disk' = [disk EXCEPT ![o] = c]
  /\ rc' = "none"
  /\ UNCHANGED <<draft, gen, step, cur, need>>

Next ==
  \/ \E g \in Gens : Begin(g) \/ Verify(g)
  \/ Compare
  \/ Check
  \/ Open
  \/ Write
  \/ Close
  \/ Rename
  \/ Stop
  \/ \E o \in Outputs : Edit(o)

Spec == Init /\ [][Next]_vars

-----------------------------------------------------------------------------
(* Properties                                                              *)

\* Every variable has its type.
TypeOK ==
  /\ disk \in [Outputs -> Content]
  /\ draft \in Content
  /\ gen \in Gens
  /\ rc \in Promise!Outcomes
  /\ step \in Steps
  /\ cur \in Outputs
  /\ need \in SUBSET Outputs
  /\ (step = "idle") = (rc # "running")

\* No program ever sees half a file: whatever the moment of a crash, each
\* output is missing, edited by hand, or a whole rendering ("no silent
\* corruption").
OutputsAreWhole == \A o \in Outputs : disk[o] # Torn

\* The part of the proof that carries the order of the writes: an output the
\* run has passed, or has found unchanged, is what the run renders.
PassedIsCurrent ==
  step \in FileSteps =>
    \A o \in Compared :
      o \in Promise!Earlier(cur) \/ o \notin need => Current(o, gen)

\* A run reports success only when the four files on disk render its inputs,
\* those it did not touch included.
OkMeansCurrent ==
  [][(rc = "running" /\ rc' = "ok") => \A o \in Outputs : Current(o, gen)']_vars

\* --verify accepts what --emit has just written for the same inputs.
VerifyAcceptsEmit ==
  [][(rc = "ok" /\ rc' = "drift") => gen' # gen]_vars

\* Compare and replace: a header or the meta file is renamed into place only
\* when its content changes, so an unchanged one keeps its time stamp.
ReplacedOnlyIfChanged ==
  [][\A o \in Compared :
       (step = "rename" /\ cur = o /\ step' # "idle") => disk'[o] # disk[o]]_vars

\* The detailed specification implements the promise.
KeepsPromise == Promise!Spec
=============================================================================
