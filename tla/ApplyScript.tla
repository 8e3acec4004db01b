----------------------------- MODULE ApplyScript -----------------------------
(***************************************************************************)
(* iro-apply.sh puts the overlay into a kernel tree and a hook at the end  *)
(* of its Makefile and of its Kconfig.  The tree lives on: it is upgraded, *)
(* cleaned and restored from the backups, and the script is run again,     *)
(* after runs that were stopped at any point.                              *)
(*                                                                         *)
(* A file of the kernel is [version, whole, tail]: the kernel's own lines, *)
(* all of them or only some, and what the script has appended.             *)
(***************************************************************************)
EXTENDS Naturals, Sequences, SequencesExt

CONSTANTS
  Versions,   \* of the kernel
  None,
  MaxStops, MaxChores   \* bounds: runs stopped, and things done to the tree

VARIABLES
  overlay,  \* "none", "part" or "whole", in the kernel tree
  tree,     \* Makefile and Kconfig
  bak,      \* their backups
  config,   \* .config: "none", "plain", "asked" or "settled"
  enable,   \* IRO_ENABLE_CONFIG of this run
  at,       \* where the script is
  file,     \* which file it is at
  unread,   \* a file of the overlay could not be read
  stops, chores

apply == <<overlay, tree, bak, config, enable, at, file, unread, stops, chores>>

Patched == {"Makefile", "Kconfig"}
Pristine(v) == [version |-> v, whole |-> TRUE, tail |-> <<>>]

Init ==
  /\ overlay = "none"
  /\ \E v \in Versions : tree = [f \in Patched |-> Pristine(v)]
  /\ bak = [f \in Patched |-> None]
  /\ config \in {"none", "plain"}
  /\ enable = FALSE /\ at = "idle" /\ file = "Makefile" /\ unread = FALSE
  /\ stops = 0 /\ chores = 0

-----------------------------------------------------------------------------
(* The script                                                              *)

\* What is looked for in a kernel tree is always there, if not always whole.
Start ==
  /\ at \in {"idle", "done"}
  /\ enable' \in BOOLEAN
  /\ at' = "copy" /\ unread' = FALSE
  /\ UNCHANGED <<overlay, tree, bak, config, file, stops, chores>>

\* tar | tar: that the first one skipped a file is not seen by the second.
CopyOverlay ==
  /\ at = "copy"
  /\ \/ overlay' = "whole" /\ UNCHANGED unread
     \/ overlay' = (IF overlay = "whole" THEN "whole" ELSE "part") /\ unread' = TRUE
  /\ at' = "grep" /\ file' = "Makefile"
  /\ UNCHANGED <<tree, bak, config, enable, stops, chores>>

\* Fault: the marker is looked for.
HasMarker(f) == Contains(tree[f].tail, "begin")

Hooked(f) == Contains(tree[f].tail, "hook")

NextFile ==
  IF file = "Makefile" THEN at' = "grep" /\ file' = "Kconfig" ELSE at' = "config" /\ UNCHANGED file

GrepHook ==
  /\ at = "grep"
  /\ IF Hooked(file) THEN NextFile
     ELSE at' = (IF bak[file] = None THEN "backup" ELSE "append") /\ UNCHANGED file
  /\ UNCHANGED <<overlay, tree, bak, config, enable, unread, stops, chores>>

\* cp opens the backup, then fills it.
OpenBackup ==
  /\ at = "backup"
  /\ bak' = [bak EXCEPT ![file] = [tree[file] EXCEPT !.whole = FALSE, !.tail = <<>>]]
  /\ at' = "fill"
  /\ UNCHANGED <<overlay, tree, config, enable, file, unread, stops, chores>>

FillBackup ==
  /\ at = "fill"
  /\ bak' = [bak EXCEPT ![file] = tree[file]]
  /\ at' = "append"
  /\ UNCHANGED <<overlay, tree, config, enable, file, unread, stops, chores>>

Echoes == [append |-> "", begin |-> "begin", hook |-> "hook", end |-> "end"]
After == [append |-> "begin", begin |-> "hook", hook |-> "end"]

\* One line by each echo.
AppendLine ==
  /\ at \in DOMAIN Echoes
  /\ tree' = [tree EXCEPT ![file].tail = Append(@, Echoes[at])]
  /\ IF at = "end" THEN NextFile ELSE at' = After[at] /\ UNCHANGED file
  /\ UNCHANGED <<overlay, bak, config, enable, unread, stops, chores>>

\* Symbols that no Kconfig file declares do not survive olddefconfig.
Declared == Hooked("Kconfig") /\ overlay = "whole"

EnableConfig ==
  /\ at = "config"
  /\ IF enable /\ config # "none"
       THEN config' = "asked" /\ at' = "settle"
       ELSE at' = "done" /\ UNCHANGED config
  /\ UNCHANGED <<overlay, tree, bak, enable, file, unread, stops, chores>>

\* Without make nothing is settled.
SettleConfig ==
  /\ at = "settle"
  /\ config' \in {"asked", IF Declared THEN "settled" ELSE "plain"}
  /\ at' = "done"
  /\ UNCHANGED <<overlay, tree, bak, enable, file, unread, stops, chores>>

\* A signal, or a command that fails under set -e.
Stop ==
  /\ at \notin {"idle", "done"} /\ stops < MaxStops
  /\ stops' = stops + 1
  /\ at' = "idle"
  /\ overlay' \in {overlay} \cup (IF at = "copy" THEN {"part"} ELSE {})
  /\ UNCHANGED <<tree, bak, config, enable, file, unread, chores>>

-----------------------------------------------------------------------------
(* The tree between runs                                                   *)

Chore ==
  /\ at \in {"idle", "done"} /\ chores < MaxChores
  /\ chores' = chores + 1
  /\ at' = "idle"
  /\ UNCHANGED <<enable, file, unread, stops>>

\* The kernel's own files are those of a version again; the others stay.
CheckOut ==
  /\ Chore
  /\ \E v \in Versions : tree' = [f \in Patched |-> Pristine(v)]
  /\ UNCHANGED <<overlay, bak, config>>

\* Everything that is not the kernel's goes.
Clean ==
  /\ Chore
  /\ overlay' = "none" /\ bak' = [f \in Patched |-> None] /\ config' = "none"
  /\ UNCHANGED tree

Restore ==
  /\ Chore
  /\ \E f \in Patched : bak[f] # None /\ tree' = [tree EXCEPT ![f] = bak[f]]
  /\ UNCHANGED <<overlay, bak, config>>

Run ==
  Start \/ CopyOverlay \/ GrepHook \/ OpenBackup \/ FillBackup \/ AppendLine
    \/ EnableConfig \/ SettleConfig

Next == Run \/ Stop \/ CheckOut \/ Clean \/ Restore

Spec == Init /\ [][Next]_apply

-----------------------------------------------------------------------------
(* Properties                                                              *)

\* Where in a file there is a hook.
Hooks(contents) == {i \in DOMAIN contents.tail : contents.tail[i] = "hook"}

\* However often the script is run on a tree, whatever stopped the runs before
\* and was done to the tree between them: no file is hooked twice; a run that
\* ends well leaves both files hooked and the overlay complete, unless the
\* overlay could not be read, and the options, if it was to set them, set; and no
\* backup is hooked, so restoring it takes the hook out.
HookedOnce ==
  /\ \A f \in Patched : \A i, j \in Hooks(tree[f]) : i = j
  /\ at = "done" =>
       /\ \A f \in Patched : Hooks(tree[f]) # {}
       /\ overlay = "whole" \/ unread
       /\ config = "plain" => ~enable \/ unread
  /\ \A f \in Patched : bak[f] # None => Hooks(bak[f]) = {}
=============================================================================
