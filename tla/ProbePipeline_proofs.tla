----------------------- MODULE ProbePipeline_proofs -----------------------
(***************************************************************************)
(* Proofs about ProbePipeline, for every set of contents and every number  *)
(* of edits and interruptions.  Type correctness needs to know which files *)
(* a build has by which of its steps (Progress).  The other results are    *)
(* about inputs that stand still while a build runs.                       *)
(***************************************************************************)
EXTENDS ProbePipeline, FiniteSetTheorems, TLAPS

\* The inputs stand still while a build runs: the hypothesis of all results
\* but type correctness.  Between builds anything may be edited.
InputsStandStill == EditDuringBuild = FALSE

-----------------------------------------------------------------------------
(* The inductive invariant                                                 *)

\* A file with a time stamp is there; what a running build has read or written
\* is there from the step that needs it on.
Progress ==
  /\ mt["probeC"] # 0 => probeC \in Consts
  /\ mt["hashH"] # 0 => hashH \in Hashes
  /\ mt["probeO"] # 0 => Job(probeO) \in Jobs
  /\ pc # "idle" => \A t \in Targets \ stale : mt[t] # 0
  /\ pc = "write_c" => seen \in Consts
  /\ pc = "write_hash" => seen \in Hashes
  /\ pc = "write_o" => Job(seen) \in Jobs
  /\ pc \in {"recipe", "hash64", "write_hash", "cc"} => probeC \in Consts
  /\ pc \in {"hash64", "write_hash", "cc", "write_o"} => probeCmd = src.cmd
  /\ pc \in {"hash64", "write_hash", "cc"} /\ ~compile => mt["probeO"] # 0
  /\ pc = "cc" => hashH \in Hashes
  /\ pc \in {"stamp", "emit", "verify"} => Job(probeO) \in Jobs
  /\ rc = "running" <=> pc = "emit"

\* The test make does when a build starts.
Old(t) == mt[t] = 0 \/ \E s \in SourcesOf(t) : Newer(s, t)

WantedSource == ProbeSource(src.toml, src.tool)
WantedHash == InputHash(src.toml, src.cmd, src.tool)
ObjectFor(cmd) ==
  ProbeObject(WantedSource, src.hdr, cmd, InputHash(src.toml, cmd, src.tool))
WantedObject == ObjectFor(src.cmd)

\* What the time stamps say of the contents, builds running or not: a file no
\* input is newer than is what the tool would make of the inputs again.  (For
\* the object: with the command it was made with.)
StampsTellContents ==
  /\ ~Old("probeC") => probeC = WantedSource
  /\ ~HashIsOld => hashH = InputHash(src.toml, probeCmd, src.tool)
  /\ ~Old("probeO") => probeO = ObjectFor(probeO.cmd)
  /\ mt["probeO"] # 0 /\ ~Newer("hashH", "probeO") => probeO.hash = hashH

\* A stamp at least as new as the object vouches for the outputs nobody edited.
StampVouches ==
  /\ disk["stamp"] \in {None, Edited, Out!Text("stamp", Wanted)}
  /\ /\ mt["stamp"] # 0 /\ disk["stamp"] \notin {None, Edited}
     /\ mt["probeO"] # 0 /\ ~Newer("probeO", "stamp")
     => \A o \in Out!Compared :
          disk[o] \in {None, Edited} \/ Out!Current(o, Job(probeO))

\* The object is the wanted one and make sees no reason to build it again.
ObjectDone ==
  /\ probeO = WantedObject
  /\ ~Old("probeO") /\ ~Newer("probeC", "probeO") /\ ~Newer("hashH", "probeO")

MidsDone ==
  /\ probeC = WantedSource /\ probeCmd = src.cmd /\ hashH = WantedHash
  /\ ObjectDone

\* How far a running build has brought the intermediate files.
BuildGoesRight ==
  /\ pc # "idle" => \A t \in Targets \ stale : ~Old(t)
  /\ pc = "write_c" => seen = WantedSource
  /\ pc \in {"recipe", "hash64", "write_hash", "cc", "write_o"} => probeC = WantedSource
  /\ pc \in {"hash64", "write_hash", "cc", "write_o"} => probeCmd = src.cmd
  /\ pc \in {"hash64", "write_hash", "cc"} /\ ~compile => ObjectDone /\ hashH = WantedHash
  /\ pc = "write_hash" => seen = WantedHash
  /\ pc \in {"cc", "write_o"} => hashH = WantedHash
  /\ pc = "write_o" => seen = WantedObject
  /\ pc \in {"stamp", "emit", "verify"} => MidsDone
  /\ pc = "emit" => gen = Wanted /\ StampIsOld

\* Make sees no reason to emit again.
StampDone == ~Old("stamp") /\ ~Newer("probeO", "stamp") /\ ~Newer("probeC", "stamp")

\* What a build that came to its end leaves, until the next edit.
Finished == pc = "verify" \/ built \in {"ok", "verified", "drift"}

FinishedIsSettled ==
  /\ Finished => MidsDone /\ (StampDone \/ Fresh)
  /\ built = "ok" /\ Untampered => Fresh
  /\ built = "verified" => Fresh
  /\ built = "drift" => ~Fresh

\* The next build after a finished one finds nothing to do.
NothingToRedo ==
  built \in {"ok", "verified", "drift"} /\ pc # "idle" =>
    /\ "probeO" \notin stale
    /\ "stamp" \in stale => Fresh
    /\ pc \in {"hash64", "write_hash", "cc"} => ~compile
    /\ pc # "write_o"
    /\ pc = "emit" => ~changed

\* The part of the invariant that is about inputs that stand still.
Safe ==
  /\ StampsTellContents /\ StampVouches
  /\ BuildGoesRight
  /\ FinishedIsSettled /\ NothingToRedo /\ NoMismatchAtRest
-----------------------------------------------------------------------------
(* Time stamps                                                             *)

N == Cardinality(Files)
Stamps == [Files -> 0..N]

\* The stamps n order the files as m does, and miss the same ones.
SameOrder(m, n, fs) ==
  \A g \in fs :
    /\ n[g] = 0 <=> m[g] = 0
    /\ \A h \in fs : n[g] > n[h] <=> m[g] > m[h]

\* The files are finitely many.
LEMMA FilesAreFinite == IsFiniteSet(Files) /\ N \in Nat /\ N > 0
<1> DEFINE f == <<"toml", "hdr", "tool", "probeC", "probeO", "stamp", "probeCmd", "hashH">>
<1>1. f \in Surjection(1..8, Files)
  <2>1. f \in [1..8 -> Files]
    BY DEF Files, Sources, Targets
  <2>2. ASSUME NEW x \in Files PROVE \E n \in 1..8 : f[n] = x
    <3>1. f[1] = "toml" /\ f[2] = "hdr" /\ f[3] = "tool" /\ f[4] = "probeC"
          /\ f[5] = "probeO" /\ f[6] = "stamp" /\ f[7] = "probeCmd" /\ f[8] = "hashH"
      OBVIOUS
    <3> HIDE DEF f
    <3> QED
      BY <3>1 DEF Files, Sources, Targets
  <2> QED
    BY <2>1, <2>2 DEF Surjection
<1>2. IsFiniteSet(1..8)
  <2> 1..8 \in SUBSET Nat /\ \A n \in 1..8 : n <= 8
    OBVIOUS
  <2> QED
    BY FS_BoundedSetOfNaturals
<1>3. IsFiniteSet(Files)
  BY <1>1, <1>2, FS_Surjection
<1>4. Files # {}
  BY DEF Files, Sources
<1> QED
  BY <1>3, <1>4, FS_CardinalityType, FS_EmptySet DEF N

\* Ranks keep the order of the stamps and the missing files, and are bounded by
\* the number of the files.
LEMMA RanksKeepOrder ==
  ASSUME NEW m \in [Files -> Nat]
  PROVE  Ranks(m) \in Stamps /\ SameOrder(m, Ranks(m), Files)
<1> DEFINE image == {m[f] : f \in Files}
           used == image \ {0}
           upTo(f) == {u \in used : u <= m[f]}
<1>1. IsFiniteSet(image) /\ Cardinality(image) <= N
  <2>1. m \in Surjection(Files, image)
    BY DEF Surjection
  <2> QED
    BY <2>1, FilesAreFinite, FS_Surjection DEF N
<1>2. IsFiniteSet(used) /\ Cardinality(used) <= N
  BY <1>1, FilesAreFinite, FS_Subset, FS_CardinalityType
<1>3. \A f \in Files : IsFiniteSet(upTo(f)) /\ Cardinality(upTo(f)) \in 0..N
  <2> TAKE f \in Files
  <2>1. upTo(f) \in SUBSET used
    OBVIOUS
  <2>2. IsFiniteSet(upTo(f)) /\ Cardinality(upTo(f)) <= Cardinality(used)
    BY <1>2, <2>1, FS_Subset
  <2>3. Cardinality(upTo(f)) \in Nat /\ Cardinality(used) \in Nat
    BY <1>2, <2>2, FS_CardinalityType
  <2> QED
    BY <1>2, <2>2, <2>3, FilesAreFinite
<1>4. \A f \in Files : Ranks(m)[f] = Cardinality(upTo(f))
  BY DEF Ranks
<1>5. Ranks(m) \in Stamps
  BY <1>3 DEF Ranks, Stamps
<1>6. \A f \in Files : Ranks(m)[f] = 0 <=> m[f] = 0
  <2> TAKE f \in Files
  <2>1. m[f] = 0 <=> upTo(f) = {}
    <3>1. CASE m[f] = 0
      BY <3>1
    <3>2. CASE m[f] # 0
      <4>1. m[f] \in upTo(f)
        BY <3>2
      <4> QED
        BY <4>1, <3>2
    <3> QED
      BY <3>1, <3>2
  <2> QED
    BY <1>3, <1>4, <2>1, FS_EmptySet
<1>7. \A f, g \in Files : m[f] <= m[g] => Ranks(m)[f] <= Ranks(m)[g]
  <2> SUFFICES ASSUME NEW f \in Files, NEW g \in Files, m[f] <= m[g]
               PROVE  Cardinality(upTo(f)) <= Cardinality(upTo(g))
    BY <1>4
  <2>1. upTo(f) \in SUBSET upTo(g)
    OBVIOUS
  <2> QED
    BY <1>3, <2>1, FS_Subset
<1>8. \A f, g \in Files : m[f] > m[g] => Ranks(m)[f] > Ranks(m)[g]
  <2> SUFFICES ASSUME NEW f \in Files, NEW g \in Files, m[f] > m[g]
               PROVE  Cardinality(upTo(f)) > Cardinality(upTo(g))
    BY <1>4
  <2>1. upTo(g) \in SUBSET upTo(f)
    OBVIOUS
  <2>2. m[f] \in upTo(f) /\ m[f] \notin upTo(g)
    OBVIOUS
  <2> HIDE DEF upTo
  <2>3. Cardinality(upTo(g)) # Cardinality(upTo(f)) /\ Cardinality(upTo(g)) <= Cardinality(upTo(f))
    BY <1>3, <2>1, <2>2, FS_Subset
  <2> QED
    BY <1>3, <2>3
<1>9. \A f, g \in Files : Ranks(m)[f] > Ranks(m)[g] <=> m[f] > m[g]
  <2> TAKE f, g \in Files
  <2>1. Ranks(m)[f] \in Nat /\ Ranks(m)[g] \in Nat
    BY <1>5, FilesAreFinite DEF Stamps
  <2>2. m[f] \in Nat /\ m[g] \in Nat
    OBVIOUS
  <2> QED
    BY <2>1, <2>2, <1>7, <1>8
<1> QED
  BY <1>5, <1>6, <1>9 DEF SameOrder

\* A file that is written becomes newer than all others, whose order stays.
LEMMA TouchedIsNewest ==
  ASSUME mt \in Stamps, NEW f \in Files
  PROVE  /\ Touched(f) \in Stamps
         /\ SameOrder(mt, Touched(f), Files \ {f})
         /\ Touched(f)[f] # 0
         /\ \A g \in Files \ {f} : Touched(f)[f] > Touched(f)[g]
<1> DEFINE m == [mt EXCEPT ![f] = 1 + N]
<1>1. m \in [Files -> Nat] /\ \A g \in Files \ {f} : m[f] > m[g] /\ m[g] = mt[g]
  BY FilesAreFinite DEF Stamps
<1>2. m[f] # 0
  BY FilesAreFinite DEF Stamps
<1>3. Touched(f) = Ranks(m)
  BY DEF Touched, N
<1>4. Ranks(m) \in Stamps /\ SameOrder(m, Ranks(m), Files)
  BY <1>1, RanksKeepOrder
<1> HIDE DEF m
<1> QED
  BY <1>1, <1>2, <1>3, <1>4 DEF SameOrder

\* A file that is removed has no stamp; the order of the others stays.
LEMMA RemovedIsMissing ==
  ASSUME mt \in Stamps, NEW f \in Files
  PROVE  /\ Removed(f) \in Stamps
         /\ SameOrder(mt, Removed(f), Files \ {f})
         /\ Removed(f)[f] = 0
<1> DEFINE m == [mt EXCEPT ![f] = 0]
<1>1. m \in [Files -> Nat] /\ m[f] = 0 /\ \A g \in Files \ {f} : m[g] = mt[g]
  BY FilesAreFinite DEF Stamps
<1>2. Removed(f) = Ranks(m)
  BY DEF Removed
<1>3. Ranks(m) \in Stamps /\ SameOrder(m, Ranks(m), Files)
  BY <1>1, RanksKeepOrder
<1> HIDE DEF m
<1> QED
  BY <1>1, <1>2, <1>3 DEF SameOrder

\* A step writes file f, and no other.
Writes(f) ==
  /\ mt' \in Stamps
  /\ SameOrder(mt, mt', Files \ {f})
  /\ mt'[f] # 0
  /\ \A g \in Files \ {f} : mt'[f] > mt'[g]

\* A file whose content is the same is left alone, and so are all stamps.
LEMMA WriteIfWrites ==
  ASSUME mt \in Stamps, NEW f \in Files, NEW cond, WriteIf(cond, f)
  PROVE  IF cond THEN Writes(f) ELSE mt' = mt
  BY TouchedIsNewest DEF WriteIf, Writes

-----------------------------------------------------------------------------
(* Type correctness                                                        *)

TypeInv == TypeOK /\ Progress

\* The outputs the inputs demand, and what a build makes of its inputs, have
\* their types.
LEMMA WantedTypes ==
  ASSUME TypeOK
  PROVE  /\ ProbeSource(src.toml, src.tool) \in Consts
         /\ \A c \in Commands : InputHash(src.toml, c, src.tool) \in Hashes
         /\ \A c \in Consts, h \in Hashes : Job(ProbeObject(c, src.hdr, src.cmd, h)) \in Jobs
         /\ Wanted \in Jobs
<1>1. /\ src.toml \in Manifests /\ src.hdr \in Headers /\ src.cmd \in Commands
      /\ src.tool \in Tools
  BY DEF TypeOK
<1>2. /\ ProbeSource(src.toml, src.tool) \in Consts
      /\ \A c \in Commands : InputHash(src.toml, c, src.tool) \in Hashes
  BY <1>1 DEF Consts, Hashes
<1>3. ASSUME NEW c \in Consts, NEW h \in Hashes
      PROVE  Job(ProbeObject(c, src.hdr, src.cmd, h)) \in Jobs
  <2>1. h.toml \in Manifests
    BY DEF Hashes, InputHash
  <2>2. Names(h.toml, src.hdr) \in {Names(t, k) : t \in Manifests, k \in Headers}
    BY <1>1, <2>1
  <2>3. [hdr |-> src.hdr, cmd |-> src.cmd] \in Layouts
    BY <1>1 DEF Layouts
  <2> QED
    BY <2>2, <2>3 DEF Job, ProbeObject, Jobs
<1>4. Wanted \in Jobs
  <2>1. Names(src.toml, src.hdr) \in {Names(t, k) : t \in Manifests, k \in Headers}
    BY <1>1
  <2>2. [hdr |-> src.hdr, cmd |-> src.cmd] \in Layouts
    BY <1>1 DEF Layouts
  <2> QED
    BY <1>1, <1>2, <2>1, <2>2 DEF Wanted, Jobs
<1> QED
  BY <1>2, <1>3, <1>4

\* An output that is published holds a content of its own.
LEMMA PublishKeepsContents ==
  ASSUME TypeOK, NEW o \in Out!Outputs, Out!Publish(o)
  PROVE  /\ DOMAIN disk' = Out!Outputs
         /\ \A p \in Out!Outputs : disk'[p] \in Contents[p]
  BY DEF TypeOK, Out!Publish, Contents

\* The first state has its types.
LEMMA InitTypes == Init => TypeInv
<1> SUFFICES ASSUME Init PROVE TypeInv
  OBVIOUS
<1>1. mt \in Stamps
  BY FilesAreFinite DEF Init, Stamps
<1>2. Wanted \in Jobs
  BY DEF Init, Wanted, Jobs, Hashes, Consts, Layouts
<1>3. Progress
  BY DEF Init, Progress, Files, Sources, Targets
<1>4. DOMAIN disk = Out!Outputs /\ \A o \in Out!Outputs : disk[o] \in Contents[o]
  BY DEF Init, Contents
<1>5. edits \in 0..MaxEdits /\ stops \in 0..MaxStops
  BY BoundsAreNat DEF Init
<1>6. TypeOK
  BY <1>1, <1>2, <1>4, <1>5 DEF Init, TypeOK, Stamps, N, Out!Outcomes
<1> QED
  BY <1>3, <1>6 DEF TypeInv

\* Every step keeps the types, and what Progress says of a running build.
LEMMA StepTypes == TypeInv /\ [Next]_vars => TypeInv'
<1> SUFFICES ASSUME TypeOK, Progress, [Next]_vars PROVE TypeOK' /\ Progress'
  BY DEF TypeInv
<1> mt \in Stamps
  BY DEF TypeOK, Stamps, N
<1> USE DEF inputs, mids, outs, locals, history, Goto
<1>1. CASE UNCHANGED vars
  BY <1>1 DEF vars, TypeOK, Progress
<1>2. ASSUME NEW target \in {"all", "iro-verify"}, StartBuild(target)
      PROVE  TypeOK' /\ Progress'
  BY <1>2 DEF StartBuild, TypeOK, Progress, Targets
<1>3. CASE GenProbe
  BY <1>3, WantedTypes DEF GenProbe, TypeOK, Progress, Targets
<1>4. CASE WriteProbeC
  <2>1. mt' = mt \/ Writes("probeC")
    BY <1>4, WriteIfWrites DEF WriteProbeC, Files, Targets
  <2>2. TypeOK'
    BY <1>4, <2>1 DEF WriteProbeC, Writes, Stamps, N, TypeOK, Progress
  <2>3. Progress'
    BY <1>4, <2>1 DEF WriteProbeC, Writes, SameOrder, Files, Targets, TypeOK, Progress
  <2> QED
    BY <2>2, <2>3
<1>5. CASE CaptureCmd
  <2>1. mt' = mt \/ Writes("probeCmd")
    BY <1>5, WriteIfWrites DEF CaptureCmd, Files
  <2>2. TypeOK'
    BY <1>5, <2>1 DEF CaptureCmd, Writes, Stamps, N, TypeOK
  <2>3. Progress'
    BY <1>5, <2>1 DEF CaptureCmd, Writes, SameOrder, Files, Targets, TypeOK, Progress
  <2> QED
    BY <2>2, <2>3
<1>6. CASE ComputeHash
  <2>1. InputHash(src.toml, probeCmd, src.tool) \in Hashes
    BY <1>6, WantedTypes DEF ComputeHash, TypeOK, Progress
  <2>2. mt["hashH"] # 0 \/ HashIsOld
    BY DEF HashIsOld
  <2>3. TypeOK'
    BY <1>6, <2>1 DEF ComputeHash, TypeOK
  <2>4. Progress'
    BY <1>6, <2>1, <2>2 DEF ComputeHash, Progress
  <2> QED
    BY <2>3, <2>4
<1>7. CASE WriteHash
  <2>1. mt' = mt \/ Writes("hashH")
    BY <1>7, WriteIfWrites DEF WriteHash, Files
  <2>2. TypeOK'
    BY <1>7, <2>1 DEF WriteHash, Writes, Stamps, N, TypeOK, Progress
  <2>3. Progress'
    BY <1>7, <2>1 DEF WriteHash, Writes, SameOrder, Files, Targets, TypeOK, Progress
  <2> QED
    BY <2>2, <2>3
<1>8. CASE Compile
  <2>1. compile => Job(seen') \in Jobs
    BY <1>8, WantedTypes DEF Compile, Progress
  <2>2. TypeOK'
    BY <1>8, <2>1 DEF Compile, TypeOK
  <2>3. Progress'
    BY <1>8, <2>1 DEF Compile, Targets, TypeOK, Progress
  <2> QED
    BY <2>2, <2>3
<1>22. CASE WriteProbeO
  <2>1. Writes("probeO")
    BY <1>22, TouchedIsNewest DEF WriteProbeO, Writes, Files, Targets
  <2>2. Job(probeO') \in Jobs
    BY <1>22 DEF WriteProbeO, Progress
  <2>3. TypeOK'
    BY <1>22, <2>1, <2>2 DEF WriteProbeO, Writes, Stamps, N, TypeOK
  <2>4. Progress'
    BY <1>22, <2>1, <2>2 DEF WriteProbeO, Writes, SameOrder, Files, Targets, TypeOK, Progress
  <2> QED
    BY <2>3, <2>4
<1>9. CASE CompileFails
  <2>1. mt' \in Stamps /\ mt'["probeO"] = 0 /\ SameOrder(mt, mt', Files \ {"probeO"})
    BY <1>9, RemovedIsMissing DEF CompileFails, Files, Targets
  <2>2. stops' \in 0..MaxStops
    BY <1>9, BoundsAreNat DEF CompileFails, TypeOK
  <2>3. TypeOK'
    BY <1>9, <2>1, <2>2 DEF CompileFails, Stamps, N, TypeOK
  <2>4. Progress'
    BY <1>9, <2>1 DEF CompileFails, SameOrder, Files, Targets, TypeOK, Progress
  <2> QED
    BY <2>3, <2>4
<1>10. CASE SkipStamp
  BY <1>10 DEF SkipStamp, AfterStamp, TypeOK, Progress
<1>11. CASE HashMismatch
  BY <1>11 DEF HashMismatch, TypeOK, Progress
<1>12. CASE BeginEmit
  BY <1>12 DEF BeginEmit, Out!Begin, Out!Outcomes, TypeOK, Progress
<1>13. ASSUME NEW o \in Out!Compared, EmitFile(o) PROVE TypeOK' /\ Progress'
  <2>1. DOMAIN disk' = Out!Outputs /\ \A p \in Out!Outputs : disk'[p] \in Contents[p]
    BY <1>13, PublishKeepsContents DEF EmitFile, Out!PublishAndGoOn, Out!Compared
  <2> QED
    BY <1>13, <2>1 DEF EmitFile, Out!PublishAndGoOn, Out!Publish, TypeOK, Progress
<1>14. CASE EmitStamp
  <2>1. DOMAIN disk' = Out!Outputs /\ \A p \in Out!Outputs : disk'[p] \in Contents[p]
    BY <1>14, PublishKeepsContents DEF EmitStamp, Out!PublishStamp, Out!Outputs
  <2>2. Writes("stamp")
    BY <1>14, TouchedIsNewest DEF EmitStamp, Writes, Files, Targets
  <2>3. TypeOK'
    BY <1>14, <2>1, <2>2 DEF EmitStamp, AfterStamp, Out!PublishStamp, Out!Publish, Out!Outcomes,
       Writes, Stamps, N, TypeOK
  <2>4. Progress'
    BY <1>14, <2>2 DEF EmitStamp, AfterStamp, Out!PublishStamp, Writes, SameOrder, Files,
       Targets, TypeOK, Progress
  <2> QED
    BY <2>3, <2>4
<1>15. CASE EmitNothing
  BY <1>15 DEF EmitNothing, AfterStamp, Out!NothingToDo, Out!Outcomes, TypeOK, Progress
<1>16. CASE Verify
  BY <1>16 DEF Verify, Out!Verify, Out!Outcomes, TypeOK, Progress
<1>17. CASE StopBuild
  <2>1. stops' \in 0..MaxStops
    BY <1>17, BoundsAreNat DEF StopBuild, TypeOK
  <2> QED
    BY <1>17, <2>1 DEF StopBuild, Out!Stop, Out!Outcomes, TypeOK, Progress
<1>18. ASSUME NEW f \in {"toml", "hdr"}, NEW contents,
              EditSource(f, contents),
              contents = IF f = "toml" THEN Manifests ELSE Headers
       PROVE  TypeOK' /\ Progress'
  <2>1. Writes(f)
    BY <1>18, TouchedIsNewest DEF EditSource, Writes, Files, Sources
  <2>2. src' \in [toml : Manifests, hdr : Headers, cmd : Commands, tool : Tools]
        /\ src'.cmd = src.cmd
    BY <1>18 DEF EditSource, TypeOK
  <2>3. edits' \in 0..MaxEdits
    BY <1>18, BoundsAreNat DEF EditSource, Edit, TypeOK
  <2>4. TypeOK'
    <3>1. quiet' \in BOOLEAN /\ steady' \in BOOLEAN /\ overtaken' \in BOOLEAN
      BY <1>18 DEF EditSource, Edit, TypeOK
    <3>2. Edit /\ UNCHANGED outs
      BY <1>18 DEF EditSource
    <3>3. mt' \in [Files -> 0..Cardinality(Files)]
      BY <2>1 DEF Writes, Stamps, N
    <3>4. built' = "none" /\ UNCHANGED <<mids, outs, pc, locals, stops>> /\ Job(seen)' = Job(seen)
      BY <3>2 DEF Edit, Job
    <3> QED
      BY <2>2, <2>3, <3>1, <3>3, <3>4 DEF TypeOK
  <2>5. \A t \in Targets \cup {"hashH"} : mt'[t] = 0 <=> mt[t] = 0
    BY <1>18, <2>1 DEF Writes, SameOrder, Files, Sources, Targets
  <2>6. Progress'
    BY <1>18, <2>2, <2>5 DEF EditSource, Edit, Targets, Progress
  <2> QED
    BY <2>4, <2>6
<1>19. CASE RebuildTools
  <2>1. Writes("tool")
    BY <1>19, TouchedIsNewest DEF RebuildTools, Writes, Files, Sources
  <2>2. src' \in [toml : Manifests, hdr : Headers, cmd : Commands, tool : Tools]
        /\ src'.cmd = src.cmd
    BY <1>19 DEF RebuildTools, TypeOK
  <2>3. edits' \in 0..MaxEdits
    BY <1>19, BoundsAreNat DEF RebuildTools, Edit, TypeOK
  <2>4. TypeOK'
    <3>1. quiet' \in BOOLEAN /\ steady' \in BOOLEAN /\ overtaken' \in BOOLEAN
      BY <1>19 DEF RebuildTools, Edit, TypeOK
    <3>2. mt' \in [Files -> 0..Cardinality(Files)]
      BY <2>1 DEF Writes, Stamps, N
    <3>3. built' = "none" /\ UNCHANGED <<mids, outs, pc, locals, stops>> /\ Job(seen)' = Job(seen)
      BY <1>19 DEF RebuildTools, Edit, Job
    <3> QED
      BY <2>2, <2>3, <3>1, <3>2, <3>3 DEF TypeOK
  <2>5. Progress'
    BY <1>19, <2>1, <2>2 DEF RebuildTools, Edit, Writes, SameOrder, Files, Targets, TypeOK, Progress
  <2> QED
    BY <2>4, <2>5
<1>20. CASE ChangeCommand
  <2>1. src' \in [toml : Manifests, hdr : Headers, cmd : Commands, tool : Tools]
    BY <1>20 DEF ChangeCommand, TypeOK
  <2>2. edits' \in 0..MaxEdits
    BY <1>20, BoundsAreNat DEF ChangeCommand, Edit, TypeOK
  <2>3. quiet' = FALSE /\ built' = "none"
        /\ UNCHANGED <<steady, overtaken, mt, mids, outs, pc, locals, stops>>
    BY <1>20 DEF ChangeCommand, Edit
  <2>4. TypeOK'
    <3>1. quiet' \in BOOLEAN /\ steady' \in BOOLEAN /\ overtaken' \in BOOLEAN
      BY <2>3 DEF TypeOK
    <3>2. built' = "none" /\ UNCHANGED <<mt, mids, outs, pc, locals, stops>>
          /\ Job(seen)' = Job(seen)
      BY <2>3 DEF Job
    <3> QED
      BY <2>1, <2>2, <3>1, <3>2 DEF TypeOK
  <2>5. Progress'
    BY <1>20, <2>3 DEF ChangeCommand, Progress
  <2> QED
    BY <2>4, <2>5
<1>21. ASSUME NEW o \in Out!Outputs, TamperOutput(o) PROVE TypeOK' /\ Progress'
  <2>1. DOMAIN disk' = Out!Outputs /\ \A p \in Out!Outputs : disk'[p] \in Contents[p]
    BY <1>21 DEF TamperOutput, Out!Edit, Contents, TypeOK
  <2>2. /\ mt' \in Stamps
        /\ SameOrder(mt, mt', Files \ {"stamp"})
    BY <1>21, TouchedIsNewest, RemovedIsMissing
       DEF TamperOutput, SameOrder, Files, Targets
  <2>3. edits' \in 0..MaxEdits
    BY <1>21, BoundsAreNat DEF TamperOutput, Edit, TypeOK
  <2>4. TypeOK'
    <3>1. quiet' \in BOOLEAN /\ steady' \in BOOLEAN /\ overtaken' \in BOOLEAN
      BY <1>21 DEF TamperOutput, Edit, TypeOK
    <3>2. mt' \in [Files -> 0..Cardinality(Files)]
      BY <2>2 DEF Stamps, N
    <3>3. gen' = gen /\ rc' \in Out!Outcomes
      BY <1>21 DEF TamperOutput, Out!Edit, Out!Outcomes
    <3>4. built' = "none" /\ UNCHANGED <<src, mids, pc, locals, stops>> /\ Job(seen)' = Job(seen)
      BY <1>21 DEF TamperOutput, Edit, Job
    <3> QED
      BY <2>1, <2>3, <3>1, <3>2, <3>3, <3>4 DEF TypeOK
  <2>5. Progress'
    BY <1>21, <2>2 DEF TamperOutput, Edit, Out!Edit, SameOrder, Files, Targets, TypeOK, Progress
  <2> QED
    BY <2>4, <2>5
<1> QED
  BY <1>1, <1>2, <1>3, <1>4, <1>5, <1>6, <1>7, <1>8, <1>9, <1>10, <1>11, <1>12, <1>13,
     <1>14, <1>15, <1>16, <1>17, <1>18, <1>19, <1>20, <1>21, <1>22
     DEF Next, BuildStep

\* Every variable keeps its type: in particular no tool ever works on a file
\* that is not there, edits in the middle of builds, compiler errors and
\* interruptions included.
THEOREM TypeCorrect == Spec => []TypeOK
<1>1. TypeInv => TypeOK
  BY DEF TypeInv
<1> QED
  BY <1>1, InitTypes, StepTypes, PTL DEF Spec

-----------------------------------------------------------------------------
(* What the writing of each file does to make's tests                      *)

\* A new probe.c: the object and the stamp are to be made again.
LEMMA WritesProbeC ==
  ASSUME mt \in Stamps, Writes("probeC")
  PROVE  /\ Newer("probeC", "probeO")' /\ Newer("probeC", "stamp")' /\ ~Old("probeC")'
         /\ Old("probeO")' <=> Old("probeO")
         /\ Old("stamp")' <=> Old("stamp")
         /\ HashIsOld' <=> HashIsOld
         /\ Newer("hashH", "probeO")' <=> Newer("hashH", "probeO")
         /\ Newer("probeO", "stamp")' <=> Newer("probeO", "stamp")
         /\ mt'["probeC"] # 0
         /\ \A g \in {"hashH", "probeO", "stamp"} : mt'[g] = 0 <=> mt[g] = 0
<1>1. \A g, h \in Files : mt'[g] > mt'[h] => ~(mt'[h] > mt'[g])
  BY FilesAreFinite DEF Writes, Stamps
<1>2. /\ mt'["probeC"] # 0
      /\ \A g \in Files \ {"probeC"} : /\ mt'["probeC"] > mt'[g] /\ (mt'[g] = 0 <=> mt[g] = 0)
                               /\ \A h \in Files \ {"probeC"} : mt'[g] > mt'[h] <=> mt[g] > mt[h]
  BY DEF Writes, SameOrder
<1>3. Newer("probeC", "probeO")' /\ Newer("probeC", "stamp")' /\ ~Old("probeC")'
  BY <1>1, <1>2 DEF Old, SourcesOf, Newer, Files, Sources, Targets
<1>4. /\ (Old("probeO")' <=> Old("probeO"))
      /\ (Old("stamp")' <=> Old("stamp"))
  BY <1>1, <1>2 DEF Old, SourcesOf, Newer, Files, Sources, Targets
<1>5. HashIsOld' <=> HashIsOld
  BY <1>1, <1>2 DEF HashIsOld, Newer, Files, Sources, Targets
<1> QED
  BY <1>1, <1>2, <1>3, <1>4, <1>5 DEF Newer, Files, Sources, Targets

\* A new command: the hash is to be computed again.
LEMMA WritesProbeCmd ==
  ASSUME mt \in Stamps, Writes("probeCmd")
  PROVE  /\ HashIsOld'
         /\ Old("probeC")' <=> Old("probeC")
         /\ Old("probeO")' <=> Old("probeO")
         /\ Old("stamp")' <=> Old("stamp")
         /\ Newer("probeC", "probeO")' <=> Newer("probeC", "probeO")
         /\ Newer("hashH", "probeO")' <=> Newer("hashH", "probeO")
         /\ Newer("probeO", "stamp")' <=> Newer("probeO", "stamp")
         /\ Newer("probeC", "stamp")' <=> Newer("probeC", "stamp")
         /\ \A g \in {"probeC", "hashH", "probeO", "stamp"} : mt'[g] = 0 <=> mt[g] = 0
<1>1. \A g, h \in Files : mt'[g] > mt'[h] => ~(mt'[h] > mt'[g])
  BY FilesAreFinite DEF Writes, Stamps
<1>2. /\ mt'["probeCmd"] # 0
      /\ \A g \in Files \ {"probeCmd"} : /\ mt'["probeCmd"] > mt'[g] /\ (mt'[g] = 0 <=> mt[g] = 0)
                               /\ \A h \in Files \ {"probeCmd"} : mt'[g] > mt'[h] <=> mt[g] > mt[h]
  BY DEF Writes, SameOrder
<1>3. HashIsOld'
  BY <1>1, <1>2 DEF HashIsOld, Newer, Files, Sources, Targets
<1>4. /\ (Old("probeC")' <=> Old("probeC"))
      /\ (Old("probeO")' <=> Old("probeO"))
      /\ (Old("stamp")' <=> Old("stamp"))
  BY <1>1, <1>2 DEF Old, SourcesOf, Newer, Files, Sources, Targets
<1> QED
  BY <1>1, <1>2, <1>3, <1>4 DEF Newer, Files, Sources, Targets

\* A new hash: the object is to be made again.
LEMMA WritesHashH ==
  ASSUME mt \in Stamps, Writes("hashH")
  PROVE  /\ Newer("hashH", "probeO")' /\ ~HashIsOld'
         /\ Old("probeC")' <=> Old("probeC")
         /\ Old("probeO")' <=> Old("probeO")
         /\ Old("stamp")' <=> Old("stamp")
         /\ Newer("probeC", "probeO")' <=> Newer("probeC", "probeO")
         /\ Newer("probeO", "stamp")' <=> Newer("probeO", "stamp")
         /\ Newer("probeC", "stamp")' <=> Newer("probeC", "stamp")
         /\ mt'["hashH"] # 0
         /\ \A g \in {"probeC", "probeO", "stamp"} : mt'[g] = 0 <=> mt[g] = 0
<1>1. \A g, h \in Files : mt'[g] > mt'[h] => ~(mt'[h] > mt'[g])
  BY FilesAreFinite DEF Writes, Stamps
<1>2. /\ mt'["hashH"] # 0
      /\ \A g \in Files \ {"hashH"} : /\ mt'["hashH"] > mt'[g] /\ (mt'[g] = 0 <=> mt[g] = 0)
                               /\ \A h \in Files \ {"hashH"} : mt'[g] > mt'[h] <=> mt[g] > mt[h]
  BY DEF Writes, SameOrder
<1>3. Newer("hashH", "probeO")' /\ ~HashIsOld'
  BY <1>1, <1>2 DEF HashIsOld, Newer, Files, Sources, Targets
<1>4. /\ (Old("probeC")' <=> Old("probeC"))
      /\ (Old("probeO")' <=> Old("probeO"))
      /\ (Old("stamp")' <=> Old("stamp"))
  BY <1>1, <1>2 DEF Old, SourcesOf, Newer, Files, Sources, Targets
<1> QED
  BY <1>1, <1>2, <1>3, <1>4 DEF Newer, Files, Sources, Targets

\* A new object: the stamp is to be made again.
LEMMA WritesProbeO ==
  ASSUME mt \in Stamps, Writes("probeO")
  PROVE  /\ Newer("probeO", "stamp")' /\ ~Old("probeO")' /\ ~Newer("probeC", "probeO")'
         /\ ~Newer("hashH", "probeO")'
         /\ Old("probeC")' <=> Old("probeC")
         /\ Old("stamp")' <=> Old("stamp")
         /\ HashIsOld' <=> HashIsOld
         /\ Newer("probeC", "stamp")' <=> Newer("probeC", "stamp")
         /\ mt'["probeO"] # 0
         /\ \A g \in {"probeC", "hashH", "stamp"} : mt'[g] = 0 <=> mt[g] = 0
<1>1. \A g, h \in Files : mt'[g] > mt'[h] => ~(mt'[h] > mt'[g])
  BY FilesAreFinite DEF Writes, Stamps
<1>2. /\ mt'["probeO"] # 0
      /\ \A g \in Files \ {"probeO"} : /\ mt'["probeO"] > mt'[g] /\ (mt'[g] = 0 <=> mt[g] = 0)
                               /\ \A h \in Files \ {"probeO"} : mt'[g] > mt'[h] <=> mt[g] > mt[h]
  BY DEF Writes, SameOrder
<1>3. /\ Newer("probeO", "stamp")' /\ ~Old("probeO")' /\ ~Newer("probeC", "probeO")'
      /\ ~Newer("hashH", "probeO")'
  BY <1>1, <1>2 DEF Old, SourcesOf, Newer, Files, Sources, Targets
<1>4. /\ (Old("probeC")' <=> Old("probeC"))
      /\ (Old("stamp")' <=> Old("stamp"))
  BY <1>1, <1>2 DEF Old, SourcesOf, Newer, Files, Sources, Targets
<1>5. HashIsOld' <=> HashIsOld
  BY <1>1, <1>2 DEF HashIsOld, Newer, Files, Sources, Targets
<1> QED
  BY <1>1, <1>2, <1>3, <1>4, <1>5 DEF Newer, Files, Sources, Targets

\* A new stamp: nothing is to be made again for it.
LEMMA WritesStamp ==
  ASSUME mt \in Stamps, Writes("stamp")
  PROVE  /\ ~Old("stamp")' /\ ~Newer("probeO", "stamp")' /\ ~Newer("probeC", "stamp")'
         /\ Old("probeC")' <=> Old("probeC")
         /\ Old("probeO")' <=> Old("probeO")
         /\ HashIsOld' <=> HashIsOld
         /\ Newer("probeC", "probeO")' <=> Newer("probeC", "probeO")
         /\ Newer("hashH", "probeO")' <=> Newer("hashH", "probeO")
         /\ mt'["stamp"] # 0
         /\ \A g \in {"probeC", "hashH", "probeO"} : mt'[g] = 0 <=> mt[g] = 0
<1>1. \A g, h \in Files : mt'[g] > mt'[h] => ~(mt'[h] > mt'[g])
  BY FilesAreFinite DEF Writes, Stamps
<1>2. /\ mt'["stamp"] # 0
      /\ \A g \in Files \ {"stamp"} : /\ mt'["stamp"] > mt'[g] /\ (mt'[g] = 0 <=> mt[g] = 0)
                               /\ \A h \in Files \ {"stamp"} : mt'[g] > mt'[h] <=> mt[g] > mt[h]
  BY DEF Writes, SameOrder
<1>3. ~Old("stamp")' /\ ~Newer("probeO", "stamp")' /\ ~Newer("probeC", "stamp")'
  BY <1>1, <1>2 DEF Old, SourcesOf, Newer, Files, Sources, Targets
<1>4. /\ (Old("probeC")' <=> Old("probeC"))
      /\ (Old("probeO")' <=> Old("probeO"))
  BY <1>1, <1>2 DEF Old, SourcesOf, Newer, Files, Sources, Targets
<1>5. HashIsOld' <=> HashIsOld
  BY <1>1, <1>2 DEF HashIsOld, Newer, Files, Sources, Targets
<1> QED
  BY <1>1, <1>2, <1>3, <1>4, <1>5 DEF Newer, Files, Sources, Targets

\* A new manifest or tool: everything is to be made again.
LEMMA WritesInput ==
  ASSUME mt \in Stamps, NEW f \in {"toml", "tool"}, Writes(f)
  PROVE  /\ Old("probeC")' /\ Old("probeO")' /\ Old("stamp")' /\ HashIsOld'
         /\ Newer("hashH", "probeO")' <=> Newer("hashH", "probeO")
         /\ Newer("probeO", "stamp")' <=> Newer("probeO", "stamp")
         /\ \A g \in {"hashH", "probeO", "stamp"} : mt'[g] = 0 <=> mt[g] = 0
<1>1. \A g, h \in Files : mt'[g] > mt'[h] => ~(mt'[h] > mt'[g])
  BY FilesAreFinite DEF Writes, Stamps
<1>2. /\ mt'[f] # 0
      /\ \A g \in Files \ {f} : /\ mt'[f] > mt'[g] /\ (mt'[g] = 0 <=> mt[g] = 0)
                               /\ \A h \in Files \ {f} : mt'[g] > mt'[h] <=> mt[g] > mt[h]
  BY DEF Writes, SameOrder
<1>3. Old("probeC")' /\ Old("probeO")' /\ Old("stamp")' /\ HashIsOld'
  BY <1>1, <1>2 DEF HashIsOld, Old, SourcesOf, Newer, Files, Sources, Targets
<1> QED
  BY <1>1, <1>2, <1>3 DEF Newer, Files, Sources, Targets

\* A new kernel header: the object is to be made again.
LEMMA WritesHeader ==
  ASSUME mt \in Stamps, Writes("hdr")
  PROVE  /\ Old("probeO")'
         /\ Old("probeC")' <=> Old("probeC")
         /\ Old("stamp")' <=> Old("stamp")
         /\ HashIsOld' <=> HashIsOld
         /\ Newer("probeC", "probeO")' <=> Newer("probeC", "probeO")
         /\ Newer("hashH", "probeO")' <=> Newer("hashH", "probeO")
         /\ Newer("probeO", "stamp")' <=> Newer("probeO", "stamp")
         /\ Newer("probeC", "stamp")' <=> Newer("probeC", "stamp")
         /\ \A g \in {"hashH", "probeO", "stamp"} : mt'[g] = 0 <=> mt[g] = 0
<1>1. \A g, h \in Files : mt'[g] > mt'[h] => ~(mt'[h] > mt'[g])
  BY FilesAreFinite DEF Writes, Stamps
<1>2. /\ mt'["hdr"] # 0
      /\ \A g \in Files \ {"hdr"} : /\ mt'["hdr"] > mt'[g] /\ (mt'[g] = 0 <=> mt[g] = 0)
                               /\ \A h \in Files \ {"hdr"} : mt'[g] > mt'[h] <=> mt[g] > mt[h]
  BY DEF Writes, SameOrder
<1>3. Old("probeO")'
  BY <1>1, <1>2 DEF Old, SourcesOf, Newer, Files, Sources, Targets
<1>4. /\ (Old("probeC")' <=> Old("probeC"))
      /\ (Old("stamp")' <=> Old("stamp"))
  BY <1>1, <1>2 DEF Old, SourcesOf, Newer, Files, Sources, Targets
<1>5. HashIsOld' <=> HashIsOld
  BY <1>1, <1>2 DEF HashIsOld, Newer, Files, Sources, Targets
<1> QED
  BY <1>1, <1>2, <1>3, <1>4, <1>5 DEF Newer, Files, Sources, Targets

\* Whatever happens to the stamp says nothing of the other files.
LEMMA MovesStamp ==
  ASSUME mt \in Stamps, SameOrder(mt, mt', Files \ {"stamp"})
  PROVE  /\ Old("probeC")' <=> Old("probeC")
         /\ Old("probeO")' <=> Old("probeO")
         /\ HashIsOld' <=> HashIsOld
         /\ Newer("probeC", "probeO")' <=> Newer("probeC", "probeO")
         /\ Newer("hashH", "probeO")' <=> Newer("hashH", "probeO")
         /\ \A g \in {"hashH", "probeO"} : mt'[g] = 0 <=> mt[g] = 0
<1>1. \A g \in Files \ {"stamp"} : /\ mt'[g] = 0 <=> mt[g] = 0
                               /\ \A h \in Files \ {"stamp"} : mt'[g] > mt'[h] <=> mt[g] > mt[h]
  BY DEF SameOrder
<1>2. /\ (Old("probeC")' <=> Old("probeC"))
      /\ (Old("probeO")' <=> Old("probeO"))
  BY <1>1 DEF Old, SourcesOf, Newer, Files, Sources, Targets
<1>3. HashIsOld' <=> HashIsOld
  BY <1>1 DEF HashIsOld, Newer, Files, Sources, Targets
<1> QED
  BY <1>1, <1>2, <1>3 DEF Newer, Files, Sources, Targets

\* Without an object there is one to be made.
LEMMA RemovesProbeO ==
  ASSUME mt \in Stamps, mt'["probeO"] = 0, SameOrder(mt, mt', Files \ {"probeO"})
  PROVE  /\ Old("probeO")'
         /\ Old("probeC")' <=> Old("probeC")
         /\ Old("stamp")' <=> Old("stamp")
         /\ HashIsOld' <=> HashIsOld
         /\ Newer("probeC", "stamp")' <=> Newer("probeC", "stamp")
         /\ \A g \in {"hashH", "stamp"} : mt'[g] = 0 <=> mt[g] = 0
<1>1. \A g \in Files \ {"probeO"} : /\ mt'[g] = 0 <=> mt[g] = 0
                               /\ \A h \in Files \ {"probeO"} : mt'[g] > mt'[h] <=> mt[g] > mt[h]
  BY DEF SameOrder
<1>2. Old("probeO")'
  BY DEF Old, SourcesOf, Newer, Files, Sources, Targets
<1>3. /\ (Old("probeC")' <=> Old("probeC"))
      /\ (Old("stamp")' <=> Old("stamp"))
  BY <1>1 DEF Old, SourcesOf, Newer, Files, Sources, Targets
<1>4. HashIsOld' <=> HashIsOld
  BY <1>1 DEF HashIsOld, Newer, Files, Sources, Targets
<1> QED
  BY <1>1, <1>2, <1>3, <1>4 DEF Newer, Files, Sources, Targets

-----------------------------------------------------------------------------
(* The safety of builds whose inputs stand still                           *)

\* The wanted object is one for the wanted outputs.
LEMMA WantedObjectFits ==
  /\ Job(WantedObject) = Wanted
  /\ WantedObject.hash = WantedHash /\ WantedObject.cmd = src.cmd
  BY DEF Job, WantedObject, ObjectFor, ProbeObject, Wanted, WantedHash, WantedSource, InputHash

\* With the same inputs the same is wanted.
LEMMA SameInputs ==
  ASSUME UNCHANGED src
  PROVE  /\ UNCHANGED <<WantedSource, WantedHash, WantedObject, Wanted>>
         /\ \A c : ObjectFor(c)' = ObjectFor(c)
  BY DEF WantedSource, WantedHash, WantedObject, ObjectFor, Wanted

\* The tests only look at the stamps.
LEMMA SameStamps ==
  ASSUME UNCHANGED mt
  PROVE  /\ \A t : Old(t)' <=> Old(t)
         /\ \A f, g : Newer(f, g)' <=> Newer(f, g)
         /\ HashIsOld' <=> HashIsOld
  BY DEF Old, Newer, HashIsOld

\* Where outputs stay, so does what the stamp vouches for.
LEMMA SameOutputs ==
  ASSUME UNCHANGED <<src, disk>>
  PROVE  (Fresh' <=> Fresh) /\ (Untampered' <=> Untampered)
  BY SameInputs DEF Fresh, Untampered, Out!Current

\* A step that writes nothing leaves the invariant's parts about files alone.
LEMMA NothingWritten ==
  ASSUME UNCHANGED <<src, mt, mids, disk>>
  PROVE  /\ StampsTellContents => StampsTellContents'
         /\ StampVouches => StampVouches'
         /\ MidsDone' <=> MidsDone
         /\ ObjectDone' <=> ObjectDone
         /\ StampDone' <=> StampDone
         /\ Fresh' <=> Fresh
         /\ Untampered' <=> Untampered
<1> USE SameInputs, SameStamps DEF mids
<1>1. StampsTellContents => StampsTellContents'
  BY DEF StampsTellContents
<1>2. StampVouches => StampVouches'
  BY DEF StampVouches, Out!Current
<1>3. ObjectDone' <=> ObjectDone
  BY DEF ObjectDone
<1>4. MidsDone' <=> MidsDone
  BY <1>3 DEF MidsDone
<1>5. StampDone' <=> StampDone
  BY DEF StampDone
<1> QED
  BY <1>1, <1>2, <1>3, <1>4, <1>5, SameOutputs

\* Before the first build nothing is there that could be old.
LEMMA InitSafe == Init => Safe
<1> SUFFICES ASSUME Init PROVE Safe
  OBVIOUS
<1>1. Old("probeC") /\ Old("probeO") /\ HashIsOld /\ mt["probeO"] = 0
  BY DEF Init, Old, HashIsOld, Files, Sources, Targets
<1>2. StampsTellContents /\ StampVouches
  BY <1>1 DEF Init, StampsTellContents, StampVouches, Out!Outputs
<1> QED
  BY <1>2 DEF Init, Safe, BuildGoesRight, FinishedIsSettled, Finished, NothingToRedo,
     NoMismatchAtRest

\* Every step keeps the invariant, if the inputs stand still.
LEMMA StepSafe ==
  ASSUME InputsStandStill, TypeInv, Safe, [Next]_vars
  PROVE  Safe'
<1> TypeOK /\ Progress
  BY DEF TypeInv
<1>0. mt \in Stamps
  BY DEF TypeOK, Stamps, N
<1> USE DEF inputs, mids, outs, locals, history, Goto
<1>1. CASE UNCHANGED vars
  <2>1. StampIsOld' <=> StampIsOld
    BY <1>1 DEF vars, StampIsOld, Newer
  <2>2. \A t : Old(t)' <=> Old(t)
    BY <1>1, SameStamps DEF vars
  <2> QED
    BY <1>1, <2>1, <2>2, NothingWritten, SameInputs DEF vars, Safe, BuildGoesRight,
       FinishedIsSettled, Finished, NothingToRedo, NoMismatchAtRest
<1>2. ASSUME NEW target \in {"all", "iro-verify"}, StartBuild(target) PROVE Safe'
  <2>1. stale' = {t \in Targets : Old(t)} /\ \A t : Old(t)' <=> Old(t)
    BY <1>2, SameStamps DEF StartBuild, Old
  <2>2. MidsDone /\ (StampDone \/ Fresh) => "probeO" \notin stale' /\ ("stamp" \in stale' => Fresh)
    BY <2>1 DEF MidsDone, ObjectDone, StampDone
  <2> QED
    BY <1>2, <2>1, <2>2, NothingWritten DEF StartBuild, Safe, BuildGoesRight,
       FinishedIsSettled, Finished, NothingToRedo, NoMismatchAtRest
<1>3. CASE GenProbe
  <2>1. \A t : Old(t)' <=> Old(t)
    BY <1>3, SameStamps DEF GenProbe
  <2>2. "probeC" \notin stale => probeC = WantedSource
    BY <1>3 DEF GenProbe, Safe, BuildGoesRight, StampsTellContents, Targets
  <2> QED
    BY <1>3, <2>1, <2>2, NothingWritten, SameInputs DEF GenProbe, WantedSource, Safe,
       BuildGoesRight, FinishedIsSettled, Finished, NothingToRedo, NoMismatchAtRest
<1>4. CASE WriteProbeC
  <2>1. IF probeC # seen THEN Writes("probeC") ELSE mt' = mt
    BY <1>0, <1>4, WriteIfWrites DEF WriteProbeC, Files, Targets
  <2>2. seen = WantedSource /\ UNCHANGED <<WantedSource, WantedHash, WantedObject, Wanted>>
    BY <1>4, SameInputs DEF WriteProbeC, Safe, BuildGoesRight
  <2>3. /\ ~Old("probeC")' <=> (probeC # seen \/ ~Old("probeC"))
        /\ Old("probeO")' <=> Old("probeO")
        /\ Old("stamp")' <=> Old("stamp")
        /\ HashIsOld' <=> HashIsOld
        /\ Newer("hashH", "probeO")' <=> Newer("hashH", "probeO")
        /\ Newer("probeO", "stamp")' <=> Newer("probeO", "stamp")
        /\ \A f \in {"probeO", "stamp"} : mt'[f] = 0 <=> mt[f] = 0
    BY <1>0, <2>1, WritesProbeC, SameStamps
  <2>4. StampsTellContents'
    BY <1>4, <2>2, <2>3, SameInputs DEF WriteProbeC, Safe, StampsTellContents
  <2>5. StampVouches'
    BY <1>4, <2>2, <2>3 DEF WriteProbeC, Safe, StampVouches, Out!Current
  <2>6. BuildGoesRight'
    BY <1>4, <2>2, <2>3 DEF WriteProbeC, Safe, BuildGoesRight, Targets
  <2>7. Finished => probeC = seen
    BY <1>4, <2>2 DEF WriteProbeC, Finished, Safe, FinishedIsSettled, MidsDone
  <2>8. FinishedIsSettled' /\ NothingToRedo' /\ NoMismatchAtRest'
    <3>1. CASE Finished
      BY <1>4, <2>1, <2>7, <3>1, NothingWritten DEF WriteProbeC, Safe, FinishedIsSettled,
         Finished, NothingToRedo, NoMismatchAtRest
    <3>2. CASE ~Finished
      BY <1>4, <3>2 DEF WriteProbeC, Safe, FinishedIsSettled, Finished, NothingToRedo,
         NoMismatchAtRest
    <3> QED
      BY <3>1, <3>2
  <2> QED
    BY <2>4, <2>5, <2>6, <2>8 DEF Safe
<1>5. CASE CaptureCmd
  <2>1. IF probeCmd # src.cmd THEN Writes("probeCmd") ELSE mt' = mt
    BY <1>0, <1>5, WriteIfWrites DEF CaptureCmd, Files
  <2>2. /\ UNCHANGED <<WantedSource, WantedHash, WantedObject, Wanted>>
        /\ \A c : ObjectFor(c)' = ObjectFor(c)
    BY <1>5, SameInputs DEF CaptureCmd
  <2>3. /\ Old("probeC")' <=> Old("probeC")
        /\ Old("probeO")' <=> Old("probeO")
        /\ Old("stamp")' <=> Old("stamp")
        /\ HashIsOld' <=> (HashIsOld \/ probeCmd # src.cmd)
        /\ Newer("probeC", "probeO")' <=> Newer("probeC", "probeO")
        /\ Newer("hashH", "probeO")' <=> Newer("hashH", "probeO")
        /\ Newer("probeO", "stamp")' <=> Newer("probeO", "stamp")
        /\ \A f \in {"probeO", "stamp"} : mt'[f] = 0 <=> mt[f] = 0
    BY <1>0, <2>1, WritesProbeCmd, SameStamps
  <2>4. StampsTellContents'
    BY <1>5, <2>2, <2>3 DEF CaptureCmd, Safe, StampsTellContents
  <2>5. StampVouches'
    BY <1>5, <2>2, <2>3 DEF CaptureCmd, Safe, StampVouches, Out!Current
  <2>6. ~compile' => ObjectDone' /\ hashH' = WantedHash
    <3>1. ~compile' => ~Old("probeO") /\ ~Newer("probeC", "probeO")
                       /\ ~Newer("hashH", "probeO") /\ probeO.cmd = src.cmd
      BY <1>5 DEF CaptureCmd, Safe, BuildGoesRight, Targets
    <3>2. ~compile' => probeO = WantedObject /\ probeO.hash = hashH
      BY <3>1 DEF Safe, StampsTellContents, WantedObject, Old
    <3> QED
      BY <1>5, <2>2, <2>3, <3>1, <3>2, WantedObjectFits DEF CaptureCmd, ObjectDone
  <2>7. BuildGoesRight'
    BY <1>5, <2>2, <2>3, <2>6 DEF CaptureCmd, Safe, BuildGoesRight, Targets
  <2>8. FinishedIsSettled' /\ NothingToRedo' /\ NoMismatchAtRest'
    <3>1. CASE Finished
      <4>1. MidsDone /\ "probeO" \notin stale
        BY <1>5, <3>1 DEF CaptureCmd, Safe, FinishedIsSettled, Finished, NothingToRedo
      <4>2. ~compile' /\ UNCHANGED mt /\ UNCHANGED probeCmd
        BY <1>5, <2>1, <4>1, WantedObjectFits DEF CaptureCmd, MidsDone, ObjectDone
      <4> QED
        BY <1>5, <3>1, <4>2, NothingWritten DEF CaptureCmd, Safe, FinishedIsSettled,
           Finished, NothingToRedo, NoMismatchAtRest
    <3>2. CASE ~Finished
      BY <1>5, <3>2 DEF CaptureCmd, Safe, FinishedIsSettled, Finished, NothingToRedo,
         NoMismatchAtRest
    <3> QED
      BY <3>1, <3>2
  <2> QED
    BY <2>4, <2>5, <2>7, <2>8 DEF Safe
<1>6. CASE ComputeHash
  <2>1. \A t : Old(t)' <=> Old(t)
    BY <1>6, SameStamps DEF ComputeHash
  <2>2. InputHash(src.toml, probeCmd, src.tool) = WantedHash
    BY <1>6 DEF ComputeHash, Safe, BuildGoesRight, WantedHash
  <2>3. ~HashIsOld => hashH = WantedHash
    BY <2>2 DEF Safe, StampsTellContents
  <2> QED
    BY <1>6, <2>1, <2>2, <2>3, NothingWritten, SameInputs DEF ComputeHash, Safe,
       BuildGoesRight, FinishedIsSettled, Finished, NothingToRedo, NoMismatchAtRest
<1>7. CASE WriteHash
  <2>1. IF hashH # seen THEN Writes("hashH") ELSE mt' = mt
    BY <1>0, <1>7, WriteIfWrites DEF WriteHash, Files
  <2>2. /\ UNCHANGED <<WantedSource, WantedHash, WantedObject, Wanted>>
        /\ \A c : ObjectFor(c)' = ObjectFor(c)
        /\ seen = WantedHash /\ WantedHash = InputHash(src.toml, probeCmd, src.tool)
    BY <1>7, SameInputs DEF WriteHash, Safe, BuildGoesRight, WantedHash
  <2>3. /\ Old("probeC")' <=> Old("probeC")
        /\ Old("probeO")' <=> Old("probeO")
        /\ Old("stamp")' <=> Old("stamp")
        /\ Newer("hashH", "probeO")' <=> (hashH # seen \/ Newer("hashH", "probeO"))
        /\ Newer("probeO", "stamp")' <=> Newer("probeO", "stamp")
        /\ \A f \in {"probeO", "stamp"} : mt'[f] = 0 <=> mt[f] = 0
    BY <1>0, <2>1, WritesHashH, SameStamps
  <2>4. StampsTellContents'
    BY <1>7, <2>2, <2>3 DEF WriteHash, Safe, StampsTellContents
  <2>5. StampVouches'
    BY <1>7, <2>2, <2>3 DEF WriteHash, Safe, StampVouches, Out!Current
  <2>6. Finished \/ ~compile => hashH = seen
    BY <1>7, <2>2 DEF WriteHash, Finished, Safe, FinishedIsSettled, MidsDone, BuildGoesRight
  <2>7. BuildGoesRight'
    <3>1. ~compile => ObjectDone'
      BY <1>7, <2>1, <2>6, NothingWritten DEF WriteHash, Safe, BuildGoesRight
    <3> QED
      BY <1>7, <2>2, <2>3, <3>1 DEF WriteHash, Safe, BuildGoesRight, Targets
  <2>8. FinishedIsSettled' /\ NothingToRedo' /\ NoMismatchAtRest'
    <3>1. CASE Finished
      BY <1>7, <2>1, <2>6, <3>1, NothingWritten DEF WriteHash, Safe, FinishedIsSettled,
         Finished, NothingToRedo, NoMismatchAtRest
    <3>2. CASE ~Finished
      BY <1>7, <3>2 DEF WriteHash, Safe, FinishedIsSettled, Finished, NothingToRedo,
         NoMismatchAtRest
    <3> QED
      BY <3>1, <3>2
  <2> QED
    BY <2>4, <2>5, <2>7, <2>8 DEF Safe
<1>8. CASE Compile
  <2>1. UNCHANGED <<src, mt, mids, disk>> /\ (\A t : Old(t)' <=> Old(t))
    BY <1>8, SameStamps DEF Compile
  <2>2. CASE ~compile
    <3>1. MidsDone'
      BY <1>8, <2>1, <2>2, NothingWritten DEF Compile, Safe, BuildGoesRight, MidsDone
    <3> QED
      BY <1>8, <2>1, <2>2, <3>1, NothingWritten, SameInputs DEF Compile, Safe, BuildGoesRight,
         FinishedIsSettled, Finished, NothingToRedo, NoMismatchAtRest
  <2>3. CASE compile
    <3>1. seen' = WantedObject
      BY <1>8, <2>3 DEF Compile, Safe, BuildGoesRight, WantedObject, ObjectFor, WantedHash
    <3>2. ~Finished
      BY <1>8, <2>3 DEF Compile, Finished, Safe, NothingToRedo
    <3> QED
      BY <1>8, <2>1, <2>3, <3>1, <3>2, NothingWritten, SameInputs DEF Compile, Safe,
         BuildGoesRight, FinishedIsSettled, Finished, NothingToRedo, NoMismatchAtRest
  <2> QED
    BY <2>2, <2>3
<1>24. CASE WriteProbeO
  <2>1. Writes("probeO")
    BY <1>0, <1>24, TouchedIsNewest DEF WriteProbeO, Writes, Files, Targets
  <2>2. /\ UNCHANGED <<WantedSource, WantedHash, WantedObject, Wanted>>
        /\ \A c : ObjectFor(c)' = ObjectFor(c)
    BY <1>24, SameInputs DEF WriteProbeO
  <2>3. probeO' = WantedObject /\ probeC = WantedSource /\ hashH = WantedHash
        /\ probeCmd = src.cmd
    BY <1>24 DEF WriteProbeO, Safe, BuildGoesRight
  <2>4. MidsDone'
    BY <1>0, <1>24, <2>1, <2>2, <2>3, WritesProbeO DEF WriteProbeO, MidsDone, ObjectDone
  <2>5. StampsTellContents'
    <3>1. probeO'.cmd = src.cmd /\ probeO'.hash = hashH'
      BY <1>24, <2>3, WantedObjectFits DEF WriteProbeO
    <3>2. (probeO = ObjectFor(probeO.cmd))'
      BY <2>2, <2>3, <3>1 DEF WantedObject
    <3> QED
      BY <1>0, <1>24, <2>1, <2>2, <3>1, <3>2, WritesProbeO DEF WriteProbeO, Safe, StampsTellContents
  <2>6. StampVouches'
    BY <1>0, <1>24, <2>1, <2>2, WritesProbeO DEF WriteProbeO, Safe, StampVouches
  <2>7. ~Finished
    BY <1>24 DEF WriteProbeO, Finished, Safe, NothingToRedo
  <2> QED
    BY <1>0, <1>24, <2>1, <2>4, <2>5, <2>6, <2>7, WritesProbeO DEF WriteProbeO, Safe,
       BuildGoesRight, FinishedIsSettled, Finished, NothingToRedo, NoMismatchAtRest, Targets
<1>9. CASE CompileFails
  <2>1. mt'["probeO"] = 0 /\ SameOrder(mt, mt', Files \ {"probeO"})
    BY <1>0, <1>9, RemovedIsMissing DEF CompileFails, Files, Targets
  <2>2. /\ UNCHANGED <<WantedSource, WantedHash, WantedObject, Wanted>>
        /\ \A c : ObjectFor(c)' = ObjectFor(c)
    BY <1>9, SameInputs DEF CompileFails
  <2>3. StampsTellContents'
    BY <1>0, <1>9, <2>1, <2>2, RemovesProbeO DEF CompileFails, Safe, StampsTellContents
  <2>4. StampVouches'
    BY <1>9, <2>1, <2>2 DEF CompileFails, Safe, StampVouches
  <2> QED
    BY <1>9, <2>3, <2>4 DEF CompileFails, Safe, BuildGoesRight, FinishedIsSettled, Finished,
       NothingToRedo, NoMismatchAtRest
<1>10. CASE SkipStamp
  <2>1. UNCHANGED <<src, mt, mids, disk>> /\ (\A t : Old(t)' <=> Old(t))
    BY <1>10, SameStamps DEF SkipStamp
  <2>2. StampDone /\ MidsDone
    BY <1>10 DEF SkipStamp, StampIsOld, StampDone, Safe, BuildGoesRight, Targets
  <2>3. Untampered => Fresh
    <3>1. /\ mt["stamp"] # 0 /\ mt["probeO"] # 0 /\ ~Newer("probeO", "stamp")
          /\ Job(probeO) = Wanted
      BY <2>2, WantedObjectFits DEF StampDone, MidsDone, ObjectDone, Old
    <3>2. ASSUME Untampered, NEW o \in Out!Outputs PROVE Out!Current(o, Wanted)
      BY <3>1, <3>2 DEF Untampered, Safe, StampVouches, Out!Outputs, Out!Compared, Out!Current
    <3> QED
      BY <3>2 DEF Fresh
  <2> QED
    BY <1>10, <2>1, <2>2, <2>3, NothingWritten DEF SkipStamp, AfterStamp, Safe,
       BuildGoesRight, FinishedIsSettled, Finished, NothingToRedo, NoMismatchAtRest
<1>11. CASE HashMismatch
  <2>1. HashMatches
    BY <1>11, WantedObjectFits DEF HashMismatch, HashMatches, Safe, BuildGoesRight, MidsDone,
       ObjectDone, WantedHash
  <2> QED
    BY <1>11, <2>1 DEF HashMismatch
<1>12. CASE BeginEmit
  <2>1. UNCHANGED <<src, mt, mids, disk>> /\ (\A t : Old(t)' <=> Old(t))
    BY <1>12, SameStamps DEF BeginEmit, Out!Begin
  <2>2. gen' = Wanted' /\ StampIsOld'
    <3>1. gen' = Wanted
      BY <1>12, WantedObjectFits DEF BeginEmit, Out!Begin, Safe, BuildGoesRight, MidsDone,
         ObjectDone
    <3>2. StampIsOld'
      BY <1>12, <2>1, SameStamps DEF BeginEmit, StampIsOld
    <3> QED
      BY <2>1, <3>1, <3>2, SameInputs
  <2>3. Finished => Fresh /\ ~changed'
    <3>1. Finished => Fresh
      BY <1>12 DEF BeginEmit, Safe, FinishedIsSettled, Finished, NothingToRedo, StampIsOld,
         StampDone
    <3>2. Job(probeO) = Wanted
      BY <1>12, WantedObjectFits DEF BeginEmit, Safe, BuildGoesRight, MidsDone, ObjectDone
    <3> QED
      BY <1>12, <3>1, <3>2 DEF BeginEmit, Fresh
  <2> QED
    BY <1>12, <2>1, <2>2, <2>3, NothingWritten DEF BeginEmit, Safe, BuildGoesRight,
       FinishedIsSettled, Finished, NothingToRedo, NoMismatchAtRest
<1>13. pc = "emit" => /\ MidsDone /\ gen = Wanted /\ Job(probeO) = gen
                      /\ Finished => Fresh
  <2>1. pc = "emit" /\ Finished => Fresh
    BY DEF Safe, BuildGoesRight, FinishedIsSettled, Finished, NothingToRedo, StampIsOld, StampDone
  <2> QED
    BY <2>1, WantedObjectFits DEF Safe, BuildGoesRight, MidsDone, ObjectDone
<1>14. ASSUME NEW o \in Out!Compared, EmitFile(o) PROVE Safe'
  <2>1. pc = "emit" /\ ~Finished
    BY <1>13, <1>14 DEF EmitFile, Fresh, Out!Compared
  <2>2. disk' = [disk EXCEPT ![o] = Out!Text(o, gen)] /\ UNCHANGED <<src, mt, mids, gen>>
    BY <1>14 DEF EmitFile, Out!PublishAndGoOn, Out!Publish
  <2>3. /\ \A t : Old(t)' <=> Old(t)
        /\ \A f, g : Newer(f, g)' <=> Newer(f, g)
        /\ HashIsOld' <=> HashIsOld
        /\ UNCHANGED <<WantedSource, WantedHash, WantedObject, Wanted>>
    BY <2>2, SameStamps, SameInputs
  <2>4. StampsTellContents'
    BY <2>2, <2>3, SameInputs DEF Safe, StampsTellContents
  <2>5. StampVouches'
    <3>1. DOMAIN disk = Out!Outputs /\ o # "stamp"
      BY DEF TypeOK, Out!Compared
    <3>2. disk'["stamp"] = disk["stamp"]
      BY <2>2, <3>1 DEF Out!Outputs
    <3>3. ASSUME NEW q \in Out!Compared,
                 disk[q] \in {None, Edited} \/ Out!Current(q, Job(probeO))
          PROVE  disk'[q] \in {None, Edited} \/ Out!Current(q, Job(probeO))'
      BY <1>13, <2>1, <2>2, <3>1, <3>3 DEF Out!Current, Out!Compared
    <3> QED
      BY <2>2, <2>3, <3>2, <3>3 DEF Safe, StampVouches
  <2>6. BuildGoesRight'
    BY <1>14, <2>1, <2>2, <2>3 DEF EmitFile, Safe, BuildGoesRight, MidsDone, ObjectDone,
       StampIsOld
  <2> QED
    BY <1>14, <2>1, <2>4, <2>5, <2>6 DEF EmitFile, Safe, FinishedIsSettled, Finished,
       NothingToRedo, NoMismatchAtRest
<1>15. CASE EmitStamp
  <2>1. Writes("stamp") /\ UNCHANGED <<src, mids, gen>>
    BY <1>0, <1>15, TouchedIsNewest DEF EmitStamp, Out!PublishStamp, Out!Publish, Writes,
       Files, Targets
  <2>2. UNCHANGED <<WantedSource, WantedHash, WantedObject, Wanted>>
    BY <2>1, SameInputs
  <2>3. \A q \in Out!Outputs : disk'[q] = Out!Text(q, gen)
    BY <1>15 DEF EmitStamp, Out!PublishStamp, Out!Publish, Out!Earlier, Out!Current,
       Out!Outputs, Out!Compared, TypeOK
  <2>4. Fresh'
    BY <1>13, <1>15, <2>1, <2>2, <2>3 DEF EmitStamp, Fresh, Out!Current
  <2>5. StampsTellContents'
    BY <1>0, <2>1, <2>2, SameInputs, WritesStamp DEF Safe, StampsTellContents
  <2>6. StampVouches'
    <3>1. disk'["stamp"] = Out!Text("stamp", Wanted)' /\ Job(probeO)' = gen'
      BY <1>13, <1>15, <2>1, <2>2, <2>3 DEF EmitStamp, Out!Outputs
    <3>2. \A q \in Out!Compared : Out!Current(q, Job(probeO))'
      BY <2>1, <2>3, <3>1 DEF Out!Current, Out!Compared
    <3> QED
      BY <3>1, <3>2 DEF StampVouches
  <2>7. MidsDone'
    BY <1>0, <1>13, <1>15, <2>1, <2>2, WritesStamp DEF EmitStamp, MidsDone, ObjectDone
  <2>8. \A t \in Targets \ stale' : ~Old(t)'
    BY <1>0, <1>15, <2>1, WritesStamp DEF EmitStamp, Safe, BuildGoesRight, Targets
  <2>9. built # "drift"
    BY <1>13, <1>15 DEF EmitStamp, Safe, FinishedIsSettled, Finished
  <2> QED
    BY <1>15, <2>4, <2>5, <2>6, <2>7, <2>8, <2>9 DEF EmitStamp, AfterStamp, Safe,
       BuildGoesRight, FinishedIsSettled, Finished, NothingToRedo, NoMismatchAtRest
<1>16. CASE EmitNothing
  <2>1. UNCHANGED <<src, mt, mids, disk>> /\ (\A t : Old(t)' <=> Old(t))
    BY <1>16, SameStamps DEF EmitNothing, Out!NothingToDo
  <2>2. MidsDone /\ Fresh
    BY <1>13, <1>16 DEF EmitNothing, Out!NothingToDo, Fresh
  <2>3. built # "drift"
    BY <2>2 DEF Safe, FinishedIsSettled
  <2> QED
    BY <1>16, <2>1, <2>2, <2>3, NothingWritten DEF EmitNothing, AfterStamp, Safe,
       BuildGoesRight, FinishedIsSettled, Finished, NothingToRedo, NoMismatchAtRest
<1>17. CASE Verify
  <2>1. UNCHANGED <<src, mt, mids, disk>>
    BY <1>17 DEF Verify, Out!Verify
  <2>2. Job(probeO) = Wanted
    BY <1>17, WantedObjectFits DEF Verify, Safe, BuildGoesRight, MidsDone, ObjectDone
  <2>3. built' = IF Fresh THEN "verified" ELSE "drift"
    BY <1>17, <2>2 DEF Verify, Out!Verify, Fresh
  <2>4. MidsDone /\ (StampDone \/ Fresh)
    BY <1>17 DEF Verify, Safe, FinishedIsSettled, Finished
  <2> QED
    BY <1>17, <2>1, <2>3, <2>4, NothingWritten DEF Verify, Safe, BuildGoesRight,
       FinishedIsSettled, Finished, NothingToRedo, NoMismatchAtRest
<1>18. CASE StopBuild
  <2>1. UNCHANGED <<src, mt, mids, disk>>
    BY <1>18 DEF StopBuild, Out!Stop
  <2> QED
    BY <1>18, <2>1, NothingWritten DEF StopBuild, Safe, BuildGoesRight, FinishedIsSettled,
       Finished, NothingToRedo, NoMismatchAtRest
<1>19. ASSUME pc' = "idle", built' = "none", StampsTellContents', StampVouches' PROVE Safe'
  BY <1>19 DEF Safe, BuildGoesRight, FinishedIsSettled, Finished, NothingToRedo,
     NoMismatchAtRest
<1>20. ASSUME NEW f \in {"toml", "hdr"}, NEW contents, EditSource(f, contents) PROVE Safe'
  <2>1. pc = "idle"
    BY <1>20 DEF EditSource, InputsStandStill
  <2>2. Writes(f) /\ UNCHANGED <<mids, disk>> /\ pc' = "idle" /\ built' = "none"
    BY <1>0, <1>20, <2>1, TouchedIsNewest DEF EditSource, Edit, Writes, Files, Sources
  <2>3. \E c : src' = [src EXCEPT ![f] = c]
    BY <1>20 DEF EditSource
  <2>4. f = "hdr" => /\ UNCHANGED WantedSource
                     /\ InputHash(src.toml, probeCmd, src.tool)'
                          = InputHash(src.toml, probeCmd, src.tool)
    BY <2>2, <2>3 DEF WantedSource, TypeOK
  <2>5. StampsTellContents'
    <3>1. CASE f = "toml"
      BY <1>0, <2>2, <3>1, WritesInput DEF Safe, StampsTellContents
    <3>2. CASE f = "hdr"
      BY <1>0, <2>2, <2>4, <3>2, WritesHeader DEF Safe, StampsTellContents
    <3> QED
      BY <3>1, <3>2
  <2>6. StampVouches'
    <3>1. /\ Newer("probeO", "stamp")' <=> Newer("probeO", "stamp")
          /\ \A g \in {"probeO", "stamp"} : mt'[g] = 0 <=> mt[g] = 0
      BY <1>0, <2>2, WritesInput, WritesHeader
    <3>2. Out!Text("stamp", Wanted)' = Out!Text("stamp", Wanted)
      BY DEF Out!Text
    <3> QED
      BY <2>2, <3>1, <3>2 DEF Safe, StampVouches, Out!Current
  <2> QED
    BY <1>19, <2>2, <2>5, <2>6
<1>21. CASE RebuildTools
  <2>1. Writes("tool") /\ UNCHANGED <<mids, disk>> /\ pc' = "idle" /\ built' = "none"
    BY <1>0, <1>21, TouchedIsNewest DEF RebuildTools, Edit, Writes, Files, Sources
  <2>2. StampsTellContents'
    BY <1>0, <2>1, WritesInput DEF Safe, StampsTellContents
  <2>3. Out!Text("stamp", Wanted)' = Out!Text("stamp", Wanted)
    BY DEF Out!Text
  <2>4. StampVouches'
    BY <1>0, <2>1, <2>3, WritesInput DEF Safe, StampVouches, Out!Current
  <2> QED
    BY <1>19, <2>1, <2>2, <2>4
<1>22. CASE ChangeCommand
  <2>1. UNCHANGED <<mt, mids, disk>> /\ pc' = "idle" /\ built' = "none"
    BY <1>22 DEF ChangeCommand, Edit
  <2>2. src'.toml = src.toml /\ src'.hdr = src.hdr /\ src'.tool = src.tool
    BY <1>22 DEF ChangeCommand, TypeOK
  <2>3. WantedSource' = WantedSource /\ \A c : ObjectFor(c)' = ObjectFor(c)
    BY <2>2 DEF WantedSource, ObjectFor
  <2>4. StampsTellContents'
    BY <2>1, <2>2, <2>3, SameStamps DEF Safe, StampsTellContents
  <2>5. Out!Text("stamp", Wanted)' = Out!Text("stamp", Wanted)
    BY DEF Out!Text
  <2>6. StampVouches'
    BY <2>1, <2>5, SameStamps DEF Safe, StampVouches, Out!Current
  <2> QED
    BY <1>19, <2>1, <2>4, <2>6
<1>23. ASSUME NEW o \in Out!Outputs, TamperOutput(o) PROVE Safe'
  <2>1. SameOrder(mt, mt', Files \ {"stamp"}) /\ (o # "stamp" => UNCHANGED mt)
    BY <1>0, <1>23, TouchedIsNewest, RemovedIsMissing DEF TamperOutput, SameOrder, Files, Targets
  <2>2. UNCHANGED <<src, mids>> /\ pc' = "idle" /\ built' = "none"
    BY <1>23 DEF TamperOutput, Edit
  <2>3. /\ UNCHANGED <<WantedSource, WantedHash, WantedObject, Wanted>>
        /\ \A c : ObjectFor(c)' = ObjectFor(c)
    BY <2>2, SameInputs
  <2>4. StampsTellContents'
    BY <1>0, <2>1, <2>2, <2>3, MovesStamp DEF Safe, StampsTellContents
  <2>5. /\ disk'[o] \in {None, Edited}
        /\ \A q \in Out!Outputs \ {o} : disk'[q] = disk[q]
    BY <1>23 DEF TamperOutput, Out!Edit, TypeOK
  <2>6. StampVouches'
    <3>1. CASE o = "stamp"
      BY <2>5, <3>1 DEF StampVouches
    <3>2. CASE o # "stamp"
      <4>1. ASSUME NEW q \in Out!Compared,
                   disk[q] \in {None, Edited} \/ Out!Current(q, Job(probeO))
            PROVE  disk'[q] \in {None, Edited} \/ Out!Current(q, Job(probeO))'
        BY <2>2, <2>5, <4>1 DEF Out!Current, Out!Compared
      <4> QED
        BY <2>1, <2>2, <2>3, <2>5, <3>2, <4>1, SameStamps DEF Safe, StampVouches, Out!Outputs
    <3> QED
      BY <3>1, <3>2
  <2> QED
    BY <1>19, <2>2, <2>4, <2>6
<1> QED
  BY <1>1, <1>2, <1>3, <1>4, <1>5, <1>6, <1>7, <1>8, <1>9, <1>10, <1>11, <1>12, <1>14,
     <1>15, <1>16, <1>17, <1>18, <1>20, <1>21, <1>22, <1>23, <1>24
     DEF Next, BuildStep

\* The whole invariant.
LEMMA InvariantHolds ==
  ASSUME InputsStandStill PROVE Spec => [](TypeInv /\ Safe)
<1>1. Init => TypeInv /\ Safe
  BY InitTypes, InitSafe
<1>2. TypeInv /\ Safe /\ [Next]_vars => (TypeInv /\ Safe)'
  BY StepTypes, StepSafe
<1> QED
  BY <1>1, <1>2, PTL DEF Spec

\* Whatever was edited, reverted, touched or interrupted before it, and however
\* often, a build that succeeds leaves the outputs the present inputs demand,
\* unless somebody edited an output by hand: the time stamps iro.probe.mk looks
\* at never hide a change.
THEOREM BuildsAreFresh ==
  ASSUME InputsStandStill PROVE Spec => []BuiltIsFresh
<1>1. Safe => BuiltIsFresh
  BY DEF Safe, FinishedIsSettled, BuiltIsFresh
<1> QED
  BY <1>1, InvariantHolds, PTL

\* layout_parse never finds a hash in probe.o other than the one it computes.
THEOREM HashesAgree ==
  ASSUME InputsStandStill PROVE Spec => []NoMismatchAtRest
<1>1. Safe => NoMismatchAtRest
  BY DEF Safe
<1> QED
  BY <1>1, InvariantHolds, PTL

\* iro-verify accepts the outputs exactly when the inputs demand them, hand
\* edits included.
THEOREM VerifyIsExact ==
  ASSUME InputsStandStill PROVE Spec => []VerifyFindsDrift
<1>1. Safe => VerifyFindsDrift
  BY DEF Safe, FinishedIsSettled, VerifyFindsDrift
<1> QED
  BY <1>1, InvariantHolds, PTL

\* After a finished build nothing but an edit makes a step write a file: make
\* runs its recipes again and every one of them leaves its target alone.
LEMMA StepWritesNothing ==
  TypeInv /\ Safe /\ [Next]_vars =>
    ({built, built'} \subseteq {"ok", "verified"} => UNCHANGED <<mt, mids, disk>>)
<1> SUFFICES ASSUME TypeOK, Safe, [Next]_vars, built \in {"ok", "verified"},
                    built' \in {"ok", "verified"}
             PROVE  UNCHANGED <<mt, mids, disk>>
  BY DEF TypeInv
<1> USE DEF inputs, mids, outs, locals, history
<1>1. /\ MidsDone /\ NothingToRedo
      /\ pc = "emit" => Fresh
  BY DEF Safe, BuildGoesRight, FinishedIsSettled, Finished, NothingToRedo, StampIsOld, StampDone
<1>2. CASE UNCHANGED vars
  BY <1>2 DEF vars
<1>3. CASE WriteProbeC
  BY <1>1, <1>3 DEF WriteProbeC, WriteIf, Safe, BuildGoesRight, MidsDone
<1>4. CASE CaptureCmd
  BY <1>1, <1>4 DEF CaptureCmd, WriteIf, MidsDone
<1>5. CASE WriteHash
  BY <1>1, <1>5 DEF WriteHash, WriteIf, Safe, BuildGoesRight, MidsDone
<1>6. CASE WriteProbeO
  BY <1>1, <1>6 DEF WriteProbeO, NothingToRedo
<1>7. ASSUME NEW o \in Out!Compared, EmitFile(o) PROVE FALSE
  BY <1>1, <1>7 DEF EmitFile, Safe, BuildGoesRight, Fresh, Out!Compared
<1>8. CASE EmitStamp
  BY <1>1, <1>8 DEF EmitStamp, NothingToRedo
<1>9. CASE GenProbe \/ ComputeHash \/ Compile \/ SkipStamp \/ HashMismatch \/ BeginEmit
           \/ EmitNothing \/ Verify
  BY <1>9 DEF GenProbe, ComputeHash, Compile, SkipStamp, HashMismatch, BeginEmit, Out!Begin,
     EmitNothing, Out!NothingToDo, Verify, Out!Verify
<1>10. CASE CompileFails \/ StopBuild
  BY <1>10 DEF CompileFails, StopBuild
<1>11. ASSUME NEW target \in {"all", "iro-verify"}, StartBuild(target)
       PROVE  UNCHANGED <<mt, mids, disk>>
  BY <1>11 DEF StartBuild
<1>12. ~Edit
  BY DEF Edit
<1> QED
  BY <1>2, <1>3, <1>4, <1>5, <1>6, <1>7, <1>8, <1>9, <1>10, <1>11, <1>12
     DEF Next, BuildStep, EditSource, RebuildTools, ChangeCommand, TamperOutput

\* After a successful build and until the next edit, make writes nothing at all:
\* "no-op rebuild does not regenerate outputs".
THEOREM RebuildsWriteNothing ==
  ASSUME InputsStandStill PROVE Spec => NoOpRebuildWritesNothing
<1>1. TypeInv /\ Safe /\ [Next]_vars =>
        [{built, built'} \subseteq {"ok", "verified"} => UNCHANGED <<mt, mids, disk>>]_vars
  BY StepWritesNothing
<1> QED
  BY <1>1, InvariantHolds, PTL DEF Spec, NoOpRebuildWritesNothing

-----------------------------------------------------------------------------
(* Builds during which the inputs change                                   *)

\* The outputs are left to the tools: the hypothesis of the result below.
NobodyEditsOutputs == Tampering = FALSE

HashOfObject == InputHash(src.toml, probeO.cmd, src.tool)

\* What the time stamps say whenever the inputs are edited: an object no input
\* is newer than has the layout of the present headers, unless one of them was
\* saved while cc ran; and if the stamp is not older than the object, then its
\* hash was checked and the outputs are made from it.
StampsTellLabels ==
  ~Old("probeO") =>
    /\ Job(probeO) \in Jobs
    /\ probeO.layout.cmd = probeO.cmd
    /\ overtaken \/ probeO.layout.hdr = src.hdr
    /\ mt["stamp"] # 0 /\ ~Newer("probeO", "stamp") =>
         /\ probeO.hash = HashOfObject
         /\ \A o \in Out!Compared : Out!Current(o, Job(probeO))

\* How far a running build has come, and what is known if nobody has edited an
\* input since it began.
BuildGoesOn ==
  /\ quiet /\ pc # "idle" => \A t \in Targets \ stale : ~Old(t)
  /\ pc \in {"hash64", "write_hash", "cc", "write_o", "stamp", "emit", "verify"} =>
       probeCmd = src.cmd
  /\ pc = "write_o" => seen.layout.cmd = seen.cmd /\ seen.cmd = src.cmd
  /\ \/ pc \in {"hash64", "write_hash", "cc"} /\ ~compile
     \/ pc \in {"stamp", "emit", "verify"}
     => probeO.cmd = src.cmd /\ (quiet => ~Old("probeO"))
  /\ pc = "emit" => gen = Job(probeO) /\ (~Old("probeO") => probeO.hash = HashOfObject)

Labels == StampsTellLabels /\ BuildGoesOn /\ QuietBuildIsLabelled

\* A step that leaves the object, its tests and the outputs alone.
LEMMA ObjectUntouched ==
  ASSUME UNCHANGED <<src, probeO, disk, overtaken>>,
         Old("probeO")' <=> Old("probeO"),
         Newer("probeO", "stamp")' <=> Newer("probeO", "stamp"),
         mt'["stamp"] = 0 <=> mt["stamp"] = 0,
         StampsTellLabels
  PROVE  StampsTellLabels'
<1>1. Job(probeO)' = Job(probeO)
  BY DEF Job
<1> QED
  BY <1>1 DEF StampsTellLabels, HashOfObject, Out!Current

\* Before the first build nothing is labelled.
LEMMA InitLabels == Init => Labels
<1> SUFFICES ASSUME Init PROVE Labels
  OBVIOUS
<1>1. Old("probeO")
  BY DEF Init, Old, Files, Sources, Targets
<1> QED
  BY <1>1 DEF Init, Labels, StampsTellLabels, BuildGoesOn, QuietBuildIsLabelled

\* What the outputs made from the object would be labelled with.
ObjectIsLabelled ==
  /\ Job(probeO).hash = Wanted.hash
  /\ Job(probeO).layout.cmd = Wanted.layout.cmd
  /\ overtaken \/ /\ Job(probeO).layout = Wanted.layout
                  /\ Job(probeO).names = Wanted.names

\* An object that is not old and whose hash was checked has the right labels.
LEMMA ObjectHasLabels ==
  ASSUME ~Old("probeO"), probeO.cmd = src.cmd, StampsTellLabels, probeO.hash = HashOfObject
  PROVE  ObjectIsLabelled
<1>1. Job(probeO) \in Jobs /\ Job(probeO).layout = probeO.layout /\ Job(probeO).hash = probeO.hash
      /\ Job(probeO).names = Names(probeO.hash.toml, probeO.layout.hdr)
  BY DEF StampsTellLabels, Job
<1>2. probeO.layout \in Layouts
  BY <1>1 DEF Jobs
<1>3. probeO.layout = [hdr |-> probeO.layout.hdr, cmd |-> probeO.layout.cmd]
  BY <1>2 DEF Layouts
<1>4. probeO.hash = WantedHash /\ probeO.hash.toml = src.toml
  BY DEF HashOfObject, WantedHash, InputHash
<1> QED
  BY <1>1, <1>3, <1>4 DEF StampsTellLabels, ObjectIsLabelled, Wanted, WantedHash

\* A build that ends well without edits has checked or kept what the label says.
LEMMA LabelsAreRight ==
  ASSUME TypeOK, ~Old("probeO"), probeO.cmd = src.cmd, StampsTellLabels,
         probeO.hash = HashOfObject,
         \A o \in Out!Compared : Out!Current(o, Job(probeO))
  PROVE  /\ disk["h"].hash = Wanted.hash /\ disk["meta"].hash = Wanted.hash
         /\ disk["h"].layout.cmd = Wanted.layout.cmd
         /\ overtaken \/ /\ disk["h"].layout = Wanted.layout
                         /\ disk["h"].names = Wanted.names
                         /\ disk["hpp"].names = Wanted.names
<1>1. ObjectIsLabelled
  BY ObjectHasLabels
<1>2. /\ disk["h"] = Out!Text("h", Job(probeO))
      /\ disk["hpp"] = Out!Text("hpp", Job(probeO))
      /\ disk["meta"] = Out!Text("meta", Job(probeO))
  BY DEF Out!Current, Out!Compared, Out!Outputs
<1> QED
  BY <1>1, <1>2 DEF Out!Text, ObjectIsLabelled

\* Every step keeps the labels right.
LEMMA StepLabels ==
  ASSUME NobodyEditsOutputs, TypeInv, Labels, [Next]_vars
  PROVE  Labels'
<1> TypeOK /\ Progress
  BY DEF TypeInv
<1>0. mt \in Stamps
  BY DEF TypeOK, Stamps, N
<1> USE DEF inputs, mids, outs, locals, history, Goto
<1>1. ASSUME UNCHANGED <<src, mt, probeO, disk, overtaken>>
      PROVE  StampsTellLabels' /\ (\A t : Old(t)' <=> Old(t)) /\ HashOfObject' = HashOfObject
  BY <1>1, ObjectUntouched, SameStamps DEF Labels, HashOfObject
<1>2. CASE UNCHANGED vars
  BY <1>1, <1>2 DEF vars, Labels, BuildGoesOn, QuietBuildIsLabelled, Wanted
<1>3. ASSUME NEW target \in {"all", "iro-verify"}, StartBuild(target) PROVE Labels'
  <2>1. stale' = {t \in Targets : Old(t)}
    BY <1>3 DEF StartBuild, Old
  <2> QED
    BY <1>1, <1>3, <2>1 DEF StartBuild, Labels, BuildGoesOn, QuietBuildIsLabelled
<1>4. CASE GenProbe
  BY <1>1, <1>4 DEF GenProbe, Labels, BuildGoesOn, QuietBuildIsLabelled
<1>5. CASE WriteProbeC
  <2>1. mt' = mt \/ Writes("probeC")
    BY <1>0, <1>5, WriteIfWrites DEF WriteProbeC, Files, Targets
  <2>2. /\ \A t \in {"probeO", "stamp"} : (Old(t)' <=> Old(t)) /\ (mt'[t] = 0 <=> mt[t] = 0)
        /\ ~Old("probeC") => ~Old("probeC")'
        /\ Newer("probeO", "stamp")' <=> Newer("probeO", "stamp")
    BY <1>0, <2>1, WritesProbeC, SameStamps
  <2>3. StampsTellLabels'
    BY <1>5, <2>2, ObjectUntouched DEF WriteProbeC, Labels
  <2> QED
    BY <1>5, <2>2, <2>3 DEF WriteProbeC, Labels, BuildGoesOn, QuietBuildIsLabelled, Targets
<1>6. CASE CaptureCmd
  <2>1. mt' = mt \/ Writes("probeCmd")
    BY <1>0, <1>6, WriteIfWrites DEF CaptureCmd, Files
  <2>2. /\ \A t \in Targets : (Old(t)' <=> Old(t)) /\ (mt'[t] = 0 <=> mt[t] = 0)
        /\ Newer("probeO", "stamp")' <=> Newer("probeO", "stamp")
    BY <1>0, <2>1, WritesProbeCmd, SameStamps DEF Targets
  <2>3. StampsTellLabels'
    BY <1>6, <2>2, ObjectUntouched DEF CaptureCmd, Labels, Targets
  <2> QED
    BY <1>6, <2>2, <2>3 DEF CaptureCmd, Labels, BuildGoesOn, QuietBuildIsLabelled, Targets
<1>7. CASE ComputeHash
  BY <1>1, <1>7 DEF ComputeHash, Labels, BuildGoesOn, QuietBuildIsLabelled
<1>8. CASE WriteHash
  <2>1. mt' = mt \/ Writes("hashH")
    BY <1>0, <1>8, WriteIfWrites DEF WriteHash, Files
  <2>2. /\ \A t \in Targets : (Old(t)' <=> Old(t)) /\ (mt'[t] = 0 <=> mt[t] = 0)
        /\ Newer("probeO", "stamp")' <=> Newer("probeO", "stamp")
    BY <1>0, <2>1, WritesHashH, SameStamps DEF Targets
  <2>3. StampsTellLabels'
    BY <1>8, <2>2, ObjectUntouched DEF WriteHash, Labels, Targets
  <2> QED
    BY <1>8, <2>2, <2>3 DEF WriteHash, Labels, BuildGoesOn, QuietBuildIsLabelled, Targets
<1>9. CASE Compile
  <2>1. compile => seen'.layout.cmd = seen'.cmd /\ seen'.cmd = src.cmd
    BY <1>9 DEF Compile, ProbeObject
  <2> QED
    BY <1>1, <1>9, <2>1 DEF Compile, Labels, BuildGoesOn, QuietBuildIsLabelled
<1>25. CASE WriteProbeO
  <2>1. Writes("probeO")
    BY <1>0, <1>25, TouchedIsNewest DEF WriteProbeO, Writes, Files, Targets
  <2>2. /\ probeO'.layout.cmd = probeO'.cmd /\ probeO'.cmd = src.cmd
        /\ overtaken' \/ probeO'.layout.hdr = src.hdr
        /\ UNCHANGED src /\ Job(probeO)' \in Jobs
    BY <1>25 DEF WriteProbeO, Labels, BuildGoesOn, Progress, Job
  <2>3. /\ ~Old("probeO")' /\ Newer("probeO", "stamp")'
        /\ Old("probeC")' <=> Old("probeC")
        /\ Old("stamp")' <=> Old("stamp")
    BY <1>0, <2>1, WritesProbeO
  <2>4. StampsTellLabels'
    BY <2>2, <2>3 DEF StampsTellLabels
  <2> QED
    BY <1>25, <2>2, <2>3, <2>4 DEF WriteProbeO, Labels, BuildGoesOn, QuietBuildIsLabelled, Targets
<1>10. CASE CompileFails
  <2>1. Old("probeO")'
    BY <1>0, <1>10, RemovedIsMissing DEF CompileFails, Old, Files, Targets
  <2> QED
    BY <1>10, <2>1 DEF CompileFails, Labels, StampsTellLabels, BuildGoesOn, QuietBuildIsLabelled
<1>11. CASE SkipStamp
  <2>1. QuietBuildIsLabelled'
    <3> SUFFICES ASSUME quiet, goal = "all" PROVE QuietBuildIsLabelled'
      BY <1>11 DEF SkipStamp, AfterStamp, QuietBuildIsLabelled, TypeOK
    <3>1. mt["stamp"] # 0 /\ ~Newer("probeO", "stamp")
      BY <1>11 DEF SkipStamp, StampIsOld, Progress, Targets
    <3>2. ~Old("probeO") /\ probeO.cmd = src.cmd
      BY <1>11 DEF SkipStamp, Labels, BuildGoesOn
    <3>3. probeO.hash = HashOfObject /\ \A o \in Out!Compared : Out!Current(o, Job(probeO))
      BY <3>1, <3>2 DEF Labels, StampsTellLabels
    <3> QED
      BY <1>11, <3>2, <3>3, LabelsAreRight DEF SkipStamp, Labels, QuietBuildIsLabelled, Wanted
  <2> QED
    BY <1>1, <1>11, <2>1 DEF SkipStamp, AfterStamp, Labels, BuildGoesOn
<1>12. CASE HashMismatch
  BY <1>1, <1>12 DEF HashMismatch, Labels, BuildGoesOn, QuietBuildIsLabelled
<1>13. CASE BeginEmit
  <2>1. probeO.hash = HashOfObject
    BY <1>13 DEF BeginEmit, HashMatches, HashOfObject, Labels, BuildGoesOn
  <2>2. UNCHANGED <<src, mt, probeO, disk>> /\ gen' = Job(probeO)
    BY <1>13 DEF BeginEmit, Out!Begin
  <2>3. gen' = Job(probeO)'
    BY <2>2 DEF Job
  <2> QED
    BY <1>1, <1>13, <2>1, <2>2, <2>3 DEF BeginEmit, Labels, BuildGoesOn, QuietBuildIsLabelled
<1>14. ASSUME NEW o \in Out!Compared, EmitFile(o) PROVE Labels'
  <2>1. disk' = [disk EXCEPT ![o] = Out!Text(o, gen)] /\ UNCHANGED <<src, mt, mids, gen>>
    BY <1>14 DEF EmitFile, Out!PublishAndGoOn, Out!Publish
  <2>2. /\ \A t : Old(t)' <=> Old(t)
        /\ \A f, g : Newer(f, g)' <=> Newer(f, g)
        /\ HashOfObject' = HashOfObject
    BY <2>1, SameStamps DEF HashOfObject
  <2>3. \A q \in Out!Compared : Out!Current(q, Job(probeO)) => Out!Current(q, Job(probeO))'
    BY <1>14, <2>1 DEF EmitFile, Labels, BuildGoesOn, Out!Current, Out!Compared, TypeOK
  <2>4. StampsTellLabels'
    BY <1>14, <2>1, <2>2, <2>3 DEF EmitFile, Job, Labels, StampsTellLabels
  <2> QED
    BY <1>14, <2>1, <2>2, <2>4 DEF EmitFile, Labels, BuildGoesOn, QuietBuildIsLabelled
<1>15. CASE EmitStamp
  <2>1. Writes("stamp") /\ UNCHANGED <<src, mids, gen>>
    BY <1>0, <1>15, TouchedIsNewest DEF EmitStamp, Out!PublishStamp, Out!Publish, Writes,
       Files, Targets
  <2>2. \A q \in Out!Outputs : disk'[q] = Out!Text(q, gen)
    BY <1>15 DEF EmitStamp, Out!PublishStamp, Out!Publish, Out!Earlier, Out!Current,
       Out!Outputs, Out!Compared, TypeOK
  <2>3. \A q \in Out!Compared : Out!Current(q, Job(probeO))'
    BY <1>15, <2>1, <2>2 DEF EmitStamp, Labels, BuildGoesOn, Out!Current, Out!Compared
  <2>4. /\ Old("probeO")' <=> Old("probeO")
        /\ Old("probeC")' <=> Old("probeC")
        /\ ~Old("stamp")'
    BY <1>0, <2>1, WritesStamp
  <2>5. HashOfObject' = HashOfObject /\ (~Old("probeO") => probeO.hash = HashOfObject)
    BY <1>15, <2>1 DEF EmitStamp, HashOfObject, Labels, BuildGoesOn
  <2>6. StampsTellLabels'
    BY <1>15, <2>1, <2>3, <2>4, <2>5 DEF EmitStamp, Job, Labels, StampsTellLabels
  <2>7. BuildGoesOn'
    BY <1>15, <2>1, <2>4 DEF EmitStamp, AfterStamp, Labels, BuildGoesOn, Targets
  <2>8. QuietBuildIsLabelled'
    <3> SUFFICES ASSUME quiet PROVE QuietBuildIsLabelled'
      BY <1>15 DEF EmitStamp, QuietBuildIsLabelled
    <3>1. ~Old("probeO") /\ probeO.cmd = src.cmd
      BY <1>15 DEF EmitStamp, Labels, BuildGoesOn
    <3>2. ObjectIsLabelled /\ overtaken' = overtaken
      BY <1>15, <2>5, <3>1, ObjectHasLabels DEF EmitStamp, Labels
    <3>3. Wanted' = Wanted /\ gen = Job(probeO)
      BY <1>15, <2>1, SameInputs DEF EmitStamp, Labels, BuildGoesOn
    <3> QED
      BY <2>2, <3>2, <3>3 DEF QuietBuildIsLabelled, ObjectIsLabelled, Out!Text, Out!Outputs
  <2> QED
    BY <2>6, <2>7, <2>8 DEF Labels
<1>16. ASSUME pc \in {"emit", "verify"}, UNCHANGED <<src, mt, mids, disk, quiet, overtaken>>,
              \A o \in Out!Outputs : Out!Current(o, Job(probeO)),
              ~Old("probeO") => probeO.hash = HashOfObject
       PROVE  QuietBuildIsLabelled'
  <2> SUFFICES ASSUME quiet PROVE QuietBuildIsLabelled'
    BY <1>16 DEF QuietBuildIsLabelled
  <2>1. ~Old("probeO") /\ probeO.cmd = src.cmd
    BY <1>16 DEF Labels, BuildGoesOn
  <2>2. \A o \in Out!Compared : Out!Current(o, Job(probeO))
    BY <1>16 DEF Out!Compared
  <2> QED
    BY <1>16, <2>1, <2>2, LabelsAreRight, SameInputs DEF Labels, QuietBuildIsLabelled
<1>17. CASE EmitNothing
  <2>1. QuietBuildIsLabelled'
    BY <1>16, <1>17 DEF EmitNothing, Out!NothingToDo, Labels, BuildGoesOn
  <2> QED
    BY <1>1, <1>17, <2>1 DEF EmitNothing, Out!NothingToDo, AfterStamp, Labels, BuildGoesOn
<1>18. CASE Verify
  <2>1. probeO.hash = HashOfObject
    BY <1>18 DEF Verify, HashMatches, HashOfObject, Labels, BuildGoesOn
  <2>2. CASE built' = "verified"
    <3>1. \A o \in Out!Outputs : Out!Current(o, Job(probeO))
      BY <1>18, <2>2 DEF Verify, Out!Verify
    <3> QED
      BY <1>1, <1>16, <1>18, <2>1, <3>1 DEF Verify, Out!Verify, Labels, BuildGoesOn
  <2>3. CASE built' = "drift"
    BY <1>1, <1>18, <2>3 DEF Verify, Out!Verify, Labels, BuildGoesOn, QuietBuildIsLabelled
  <2> QED
    BY <1>18, <2>2, <2>3 DEF Verify, Out!Verify
<1>19. CASE StopBuild
  BY <1>1, <1>19 DEF StopBuild, Out!Stop, Labels, BuildGoesOn, QuietBuildIsLabelled
<1>20. ASSUME NEW f \in {"toml", "hdr", "tool"}, NEW c, src' = [src EXCEPT ![f] = c],
              Writes(f), UNCHANGED outs, Edit
       PROVE  Labels'
  <2>1. UNCHANGED <<mids, outs, pc, locals>> /\ ~quiet' /\ built' = "none"
    BY <1>20 DEF Edit
  <2>2. Old("probeO")'
    BY <1>0, <1>20, WritesInput, WritesHeader
  <2>3. src'.cmd = src.cmd
    BY <1>20 DEF TypeOK
  <2> QED
    BY <2>1, <2>2, <2>3 DEF Labels, StampsTellLabels, BuildGoesOn, QuietBuildIsLabelled
<1>21. ASSUME NEW f \in {"toml", "hdr"}, NEW contents, EditSource(f, contents) PROVE Labels'
  <2>1. Writes(f)
    BY <1>0, <1>21, TouchedIsNewest DEF EditSource, Writes, Files, Sources
  <2> QED
    BY <1>20, <1>21, <2>1 DEF EditSource
<1>22. CASE RebuildTools
  <2>1. Writes("tool")
    BY <1>0, <1>22, TouchedIsNewest DEF RebuildTools, Writes, Files, Sources
  <2>2. PICK c \in Tools : src' = [src EXCEPT !["tool"] = c]
    BY <1>22 DEF RebuildTools
  <2> QED
    BY <1>20, <1>22, <2>1, <2>2 DEF RebuildTools
<1>23. CASE ChangeCommand
  <2>1. UNCHANGED <<mt, mids, disk>> /\ pc' = "idle" /\ built' = "none"
    BY <1>23 DEF ChangeCommand, Edit
  <2>2. src'.toml = src.toml /\ src'.hdr = src.hdr /\ src'.tool = src.tool
    BY <1>23 DEF ChangeCommand, TypeOK
  <2>3. HashOfObject' = HashOfObject
    BY <2>1, <2>2 DEF HashOfObject
  <2>4. StampsTellLabels'
    BY <1>23, <2>1, <2>2, <2>3, SameStamps DEF ChangeCommand, Job, Labels, StampsTellLabels,
       Out!Current
  <2> QED
    BY <2>1, <2>4 DEF Labels, BuildGoesOn, QuietBuildIsLabelled
<1>24. ~\E o \in Out!Outputs : TamperOutput(o)
  BY DEF TamperOutput, NobodyEditsOutputs
<1> QED
  BY <1>2, <1>3, <1>4, <1>5, <1>6, <1>7, <1>8, <1>9, <1>10, <1>11, <1>12, <1>13, <1>14,
     <1>15, <1>17, <1>18, <1>19, <1>21, <1>22, <1>23, <1>24, <1>25
     DEF Next, BuildStep

\* Wherever inputs were edited, in the middle of any step of any earlier build
\* included, a build during which nobody edits an input labels its outputs with
\* the hash of the present inputs and, unless a header was saved in the middle of
\* the compilation of the object it renders, with the layout of the present
\* headers, if it ends well.
THEOREM QuietBuildsAreLabelled ==
  ASSUME NobodyEditsOutputs PROVE Spec => []QuietBuildIsLabelled
<1>1. Init => TypeInv /\ Labels
  BY InitTypes, InitLabels
<1>2. TypeInv /\ Labels /\ [Next]_vars => (TypeInv /\ Labels)'
  BY StepTypes, StepLabels
<1>3. Labels => QuietBuildIsLabelled
  BY DEF Labels
<1> QED
  BY <1>1, <1>2, <1>3, PTL DEF Spec
=============================================================================
