----------------------------- MODULE HostTools -----------------------------
(***************************************************************************)
(* Three small parts of the host tools that have nothing in common: the    *)
(* manifest language, depcheck, and the script that installs the overlay.  *)
(* A behaviour is one of the three.                                        *)
(***************************************************************************)
EXTENDS Manifest

CONSTANTS
  Units, Allow, Deny,              \* of depcheck
  Versions, MaxStops, MaxChores    \* of the script

VARIABLES unit, todo, tokens, forbidden, state

dep == <<unit, todo, tokens, forbidden, state>>

Dep == INSTANCE Depcheck WITH pc <- state

\* Depfiles and their headers come in an order, and are files with names that a
\* depfile can hold.
ASSUME UnitsAssumption ==
  \A u \in Units :
    /\ u.depfiles \in Seq(ToSet(u.depfiles))
    /\ \A k \in DOMAIN u.depfiles :
         LET headers == u.depfiles[k].headers
         IN  /\ headers \in Seq(ToSet(headers))
             /\ \A j \in DOMAIN headers : Dep!IsSpelling(Dep!Spelled(u, headers[j]))

VARIABLES overlay, tree, bak, config, enable, at, patched, unread, stops, chores

apply == <<overlay, tree, bak, config, enable, at, patched, unread, stops, chores>>

Script == INSTANCE ApplyScript WITH file <- patched

-----------------------------------------------------------------------------
NoFile ==
  /\ file = None /\ pos = 1 /\ table = <<>>
  /\ given = <<>> /\ order = <<>> /\ unknown = {} /\ pc = "none"
NoUnit == unit = None /\ todo = <<>> /\ tokens = <<>> /\ forbidden = <<>> /\ state = "none"
NoTree ==
  /\ overlay = "none" /\ tree = <<>> /\ bak = <<>> /\ config = "none" /\ enable = FALSE
  /\ at = "none" /\ patched = None /\ unread = FALSE /\ stops = 0 /\ chores = 0

HostInit ==
  \/ Init /\ NoUnit /\ NoTree
  \/ NoFile /\ Dep!Init /\ NoTree
  \/ NoFile /\ NoUnit /\ Script!Init

HostNext ==
  \/ Next /\ UNCHANGED <<dep, apply>>
  \/ Dep!Next /\ UNCHANGED <<vars, apply>>
  \/ at # "none" /\ Script!Next /\ UNCHANGED <<vars, dep>>

HostSpec == HostInit /\ [][HostNext]_<<vars, dep, apply>>

-----------------------------------------------------------------------------
(* Properties of the parts                                                 *)

\* See BoundaryIsKept of Depcheck: where a header lies decides, not how its path
\* is spelled.
BoundaryIsKept == Dep!BoundaryIsKept

\* See EveryHeaderIsJudged of Depcheck: what is reported are the denied paths of
\* the headers of all depfiles, no more and no fewer.
EveryHeaderIsJudged == state # "none" => Dep!EveryHeaderIsJudged

\* See HookedOnce of ApplyScript: whatever happened to the tree and to earlier
\* runs, a run that ends well leaves both files hooked exactly once.
HookedOnce == at # "none" => Script!HookedOnce
=============================================================================
