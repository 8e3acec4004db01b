--------------------------- MODULE ProbePipeline ---------------------------
(***************************************************************************)
(* The build of one layout set as iro.probe.mk drives it:                  *)
(*                                                                         *)
(*   manifest --gen_probe--> probe.c --cc--> probe.o --layout_parse--> set *)
(*                                                                         *)
(* with probe.cmd and probe.hash.h written on the side.  make decides by   *)
(* time stamps and saved commands what to run again; every file is written *)
(* only when its content changes, so time stamps and contents move apart.  *)
(* The four outputs are an OutputSet, which LayoutEmit implements.  Input  *)
(* files are edited between builds and, if EditDuringBuild, during them; a *)
(* build may stop at any step.                                             *)
(*                                                                         *)
(* make and cc are modelled from how iro.probe.mk uses them.  make looks   *)
(* at a source file once, when the build starts, and expands the whole     *)
(* recipe of probe.o, the decision to compile included, before it runs its *)
(* first line.                                                             *)
(***************************************************************************)
EXTENDS Naturals, FiniteSets

CONSTANTS
  Manifests,        \* contents of the .toml file
  Headers,          \* contents of the kernel headers the probe includes
  Commands,         \* compile commands ($(cmd_cc_o_c))
  Tools,            \* versions of gen_probe and layout_parse
  None, Torn, Edited,
  Names(_, _),      \* the names a manifest asks to emit, those of enumerators
                    \* it asks for as a whole looked up in the headers
  EditDuringBuild,  \* may the manifest and the headers change during a build
  Tampering,        \* may outputs be edited by hand
  MaxEdits,         \* bound on edits of any kind
  MaxStops          \* bound on interrupted builds

ASSUME BoundsAreNat == MaxEdits \in Nat /\ MaxStops \in Nat
ASSUME SwitchesAreBool == EditDuringBuild \in BOOLEAN /\ Tampering \in BOOLEAN

VARIABLES
  src,        \* the inputs: [toml, hdr, cmd, tool]
  mt,         \* time stamp of each file, as a rank; 0 for a missing file
  probeC,     \* layout_<set>.probe.c
  probeCmd,   \* layout_<set>.probe.cmd
  hashH,      \* layout_<set>.probe.hash.h
  probeO,     \* layout_<set>.probe.o with its saved command
  disk, gen, rc,  \* the OutputSet
  pc,         \* where the build is
  goal,       \* what make was asked for: "all" or "iro-verify"
  stale,      \* targets with a source newer than them when the build started
  seen,       \* what a tool has read and not yet written
  compile,    \* if_changed_dep's decision, taken when the recipe is expanded
  changed,    \* any_changed of emit_outputs
  quiet,      \* no edit since the last build started
  steady,     \* no edit of the manifest while a build ran, ever
  overtaken,  \* a header changed between cc's reading of it and the writing
              \* of the probe.o there is
  built,      \* how the last build ended, "none" after an edit
  edits, stops

inputs == <<src, edits>>
mids == <<probeC, probeCmd, hashH, probeO>>
outs == <<disk, gen, rc>>
locals == <<goal, stale, seen, compile, changed>>
history == <<quiet, steady, overtaken>>
vars == <<inputs, mt, mids, outs, pc, locals, history, built, stops>>

-----------------------------------------------------------------------------
(* Contents                                                                *)

\* compute_input_hash: manifest bytes, probe.cmd bytes, tool identity.
InputHash(toml, cmd, tool) == [toml |-> toml, cmd |-> cmd, tool |-> tool]

\* gen_probe's translation of a manifest: its constants' expressions.
ProbeSource(toml, tool) == [toml |-> toml, tool |-> tool]

\* What the compiler makes of a probe: the values of the constants, the
\* layout under the headers and the command, the hash it includes.
ProbeObject(c, hdr, cmd, hash) ==
  [consts |-> c, layout |-> [hdr |-> hdr, cmd |-> cmd], hash |-> hash, cmd |-> cmd]

\* What layout_parse renders from a probe object whose hash it has checked: the
\* names come from the manifest it has read itself, which is the hashed one.
Job(o) ==
  [hash |-> o.hash, consts |-> o.consts, layout |-> o.layout,
   names |-> Names(o.hash.toml, o.layout.hdr)]

Hashes == {InputHash(t, c, v) : t \in Manifests, c \in Commands, v \in Tools}
Consts == {ProbeSource(t, v) : t \in Manifests, v \in Tools}
Layouts == [hdr : Headers, cmd : Commands]
Jobs ==
  [hash : Hashes, consts : Consts, layout : Layouts,
   names : {Names(t, h) : t \in Manifests, h \in Headers}]

Out == INSTANCE OutputSet WITH Gens <- Jobs, Absent <- None

\* What may be found in each output.
Contents == [o \in Out!Outputs |-> {None, Edited} \cup {Out!Text(o, g) : g \in Jobs}]

\* The outputs the present inputs demand.
Wanted ==
  [hash   |-> InputHash(src.toml, src.cmd, src.tool),
   consts |-> ProbeSource(src.toml, src.tool),
   layout |-> [hdr |-> src.hdr, cmd |-> src.cmd],
   names  |-> Names(src.toml, src.hdr)]

-----------------------------------------------------------------------------
(* Time stamps                                                             *)

Sources == {"toml", "hdr", "tool"}
Targets == {"probeC", "probeO", "stamp"}
Files == Sources \cup Targets \cup {"probeCmd", "hashH"}

Newer(f, g) == mt[f] > mt[g]

\* Fault in the bounding of time stamps: they grow with every write.
NoRanks(m) == m

\* Ranks keep the order of the writes and nothing else.
Ranks(m) ==
  LET used == {m[f] : f \in Files} \ {0}
  IN  [f \in Files |-> Cardinality({u \in used : u <= m[f]})]

\* No file has a rank above the number of files.
Touched(f) == Ranks([mt EXCEPT ![f] = 1 + Cardinality(Files)])

Removed(f) == Ranks([mt EXCEPT ![f] = 0])

\* The sources among the prerequisites of a target.
SourcesOf(t) == IF t = "probeO" THEN Sources ELSE {"toml", "tool"}

-----------------------------------------------------------------------------
Init ==
  /\ src \in [toml : Manifests, hdr : Headers, cmd : Commands, tool : Tools]
  /\ mt = [f \in Files |-> IF f \in Sources THEN 1 ELSE 0]
  /\ probeC = None /\ probeCmd = None /\ hashH = None /\ probeO = None
  /\ disk = [o \in Out!Outputs |-> None]
  /\ gen = Wanted
  /\ rc = "none"
  /\ pc = "idle"
  /\ goal = "all"
  /\ stale = {}
  /\ seen = None
  /\ compile = FALSE
  /\ changed = FALSE
  /\ quiet = TRUE
  /\ steady = TRUE
  /\ overtaken = FALSE
  /\ built = "none"
  /\ edits = 0
  /\ stops = 0

Goto(label) == pc' = label

\* Fault: a file is replaced even if its content is the same.
WriteAlways(cond, f) == mt' = Touched(f)

\* The rank of f moves only when f is written.
WriteIf(cond, f) == mt' = IF cond THEN Touched(f) ELSE mt

-----------------------------------------------------------------------------
(* The build                                                               *)

StartBuild(target) ==
  /\ pc = "idle"
  /\ goal' = target
  /\ stale' = {t \in Targets : mt[t] = 0 \/ \E s \in SourcesOf(t) : Newer(s, t)}
  /\ quiet' = TRUE
  /\ Goto("gen_probe")
  /\ UNCHANGED <<steady, overtaken, inputs, mt, mids, outs, seen, compile, changed, built, stops>>

\* probe.c: the rule runs if the manifest or the tool is newer.
GenProbe ==
  /\ pc = "gen_probe"
  /\ IF "probeC" \in stale
       THEN seen' = ProbeSource(src.toml, src.tool) /\ Goto("write_c")
       ELSE UNCHANGED seen /\ Goto("recipe")
  /\ UNCHANGED <<history, inputs, mt, mids, outs, goal, stale, compile, changed, built, stops>>

\* write_if_changed(probe.c)
WriteProbeC ==
  /\ pc = "write_c"
  /\ WriteIf(probeC # seen, "probeC")
  /\ probeC' = seen
  /\ Goto("recipe")
  /\ UNCHANGED <<history, inputs, probeCmd, hashH, probeO, outs, locals, built, stops>>

\* The recipe of probe.o always runs (FORCE).  It decides whether to compile,
\* then captures the command with cmp/mv.
CaptureCmd ==
  /\ pc = "recipe"
  /\ compile' = \/ "probeO" \in stale
                \/ Newer("probeC", "probeO")
                \/ Newer("hashH", "probeO")
                \/ probeO.cmd # src.cmd
  /\ WriteIf(probeCmd # src.cmd, "probeCmd")
  /\ probeCmd' = src.cmd
  /\ Goto("hash64")
  /\ UNCHANGED <<history, inputs, probeC, hashH, probeO, outs, goal, stale, seen, changed,
                 built, stops>>

\* Fault: a new manifest does not renew the hash.
HashIgnoresToml == mt["hashH"] = 0 \/ \E f \in {"tool", "probeCmd"} : Newer(f, "hashH")

\* The shell's -nt tests, at the time the line runs.
HashIsOld ==
  mt["hashH"] = 0 \/ \E f \in {"probeCmd", "tool", "toml"} : Newer(f, "hashH")

ComputeHash ==
  /\ pc = "hash64"
  /\ IF HashIsOld
       THEN seen' = InputHash(src.toml, probeCmd, src.tool) /\ Goto("write_hash")
       ELSE UNCHANGED seen /\ Goto("cc")
  /\ UNCHANGED <<history, inputs, mt, mids, outs, goal, stale, compile, changed, built, stops>>

WriteHash ==
  /\ pc = "write_hash"
  /\ WriteIf(hashH # seen, "hashH")
  /\ hashH' = seen
  /\ Goto("cc")
  /\ UNCHANGED <<history, inputs, probeC, probeCmd, probeO, outs, locals, built, stops>>

\* cc reads the probe and everything it includes.  (The headers stand for one
\* content, which cc reads at one moment.)
Compile ==
  /\ pc = "cc"
  /\ IF compile
       THEN seen' = ProbeObject(probeC, src.hdr, src.cmd, hashH) /\ Goto("write_o")
       ELSE UNCHANGED seen /\ Goto("stamp")
  /\ UNCHANGED <<history, inputs, mt, mids, outs, goal, stale, compile, changed, built, stops>>

\* The object and its saved command are written, newer than a header that was
\* saved since cc read it.
WriteProbeO ==
  /\ pc = "write_o"
  /\ mt' = Touched("probeO")
  /\ probeO' = seen
  /\ overtaken' = (seen.layout.hdr # src.hdr)
  /\ Goto("stamp")
  /\ UNCHANGED <<quiet, steady, inputs, probeC, probeCmd, hashH, outs, locals, built, stops>>

\* A compiler error, or an interrupt make hears of, removes the object and ends
\* the build.
CompileFails ==
  /\ pc = "write_o" /\ stops < MaxStops
  /\ mt' = Removed("probeO")
  /\ probeO' = None
  /\ stops' = stops + 1
  /\ built' = "failed"
  /\ Goto("idle")
  /\ UNCHANGED <<history, inputs, probeC, probeCmd, hashH, outs, locals>>

-----------------------------------------------------------------------------
(* The stamp: layout_parse --emit                                          *)

\* Fault: the stamp does not depend on the probe object.
StampIgnoresObject == "stamp" \in stale \/ Newer("probeC", "stamp")

StampIsOld == "stamp" \in stale \/ Newer("probeO", "stamp") \/ Newer("probeC", "stamp")

\* Fault: --emit trusts the object.
HashUnchecked == TRUE

HashMatches == probeO.hash = InputHash(src.toml, probeCmd, src.tool)

\* What remains after the stamp: iro-verify, or nothing.
AfterStamp ==
  IF goal = "iro-verify"
    THEN Goto("verify") /\ UNCHANGED built
    ELSE Goto("idle") /\ built' = "ok"

SkipStamp ==
  /\ pc = "stamp"
  /\ ~StampIsOld
  /\ AfterStamp
  /\ UNCHANGED <<history, inputs, mt, mids, outs, locals, stops>>

\* "input_hash64 mismatch": the object was not built from these inputs.
HashMismatch ==
  /\ (pc = "stamp" /\ StampIsOld) \/ pc = "verify"
  /\ ~HashMatches
  /\ built' = "mismatch"
  /\ Goto("idle")
  /\ UNCHANGED <<history, inputs, mt, mids, outs, locals, stops>>

BeginEmit ==
  /\ pc = "stamp" /\ StampIsOld
  /\ HashMatches
  /\ Out!Begin(Job(probeO))
  /\ changed' = \E o \in Out!Outputs : ~Out!Current(o, Job(probeO))
  /\ Goto("emit")
  /\ UNCHANGED <<history, inputs, mt, mids, goal, stale, seen, compile, built, stops>>

EmitFile(o) ==
  /\ pc = "emit"
  /\ ~Out!Current(o, gen)
  /\ Out!PublishAndGoOn(o)
  /\ UNCHANGED <<history, inputs, mt, mids, pc, locals, built, stops>>

EmitStamp ==
  /\ pc = "emit" /\ changed
  /\ Out!PublishStamp
  /\ mt' = Touched("stamp")
  /\ AfterStamp
  /\ UNCHANGED <<history, inputs, mids, locals, stops>>

\* Nothing changed: emit_outputs returns before it comes to the stamp.
EmitNothing ==
  /\ pc = "emit" /\ ~changed
  /\ Out!NothingToDo
  /\ AfterStamp
  /\ UNCHANGED <<history, inputs, mt, mids, locals, stops>>

\* Fault: only the header is compared.
VerifyHeaderOnly ==
  /\ pc = "verify"
  /\ HashMatches
  /\ built' = IF Out!Current("h", Job(probeO)) THEN "verified" ELSE "drift"
  /\ Goto("idle")
  /\ UNCHANGED <<history, inputs, mt, mids, outs, locals, stops>>

Verify ==
  /\ pc = "verify"
  /\ HashMatches
  /\ Out!Verify(Job(probeO))
  /\ built' = rc'
  /\ Goto("idle")
  /\ UNCHANGED <<history, inputs, mt, mids, locals, stops>>

\* A tool fails or the build is interrupted; whatever was written stays.
StopBuild ==
  /\ pc # "idle" /\ stops < MaxStops
  /\ stops' = stops + 1
  /\ IF rc = "running" THEN Out!Stop ELSE UNCHANGED outs
  /\ built' = "failed"
  /\ Goto("idle")
  /\ UNCHANGED <<history, inputs, mt, mids, locals>>

-----------------------------------------------------------------------------
(* The outside world                                                       *)

\* An edit ends what the last build said about its inputs.
Edit ==
  /\ edits < MaxEdits
  /\ edits' = edits + 1
  /\ quiet' = FALSE
  /\ built' = "none"
  /\ UNCHANGED <<mids, pc, locals, stops>>

\* The manifest or a header is saved, changed or not.
EditSource(f, contents) ==
  /\ pc = "idle" \/ EditDuringBuild
  /\ \E c \in contents : src' = [src EXCEPT ![f] = c]
  /\ mt' = Touched(f)
  /\ steady' = (steady /\ (pc = "idle" \/ f # "toml"))
  /\ UNCHANGED <<overtaken, outs>>
  /\ Edit

\* A change of the tools is built before make comes to this set.
RebuildTools ==
  /\ pc = "idle"
  /\ \E v \in Tools : src' = [src EXCEPT !.tool = v]
  /\ mt' = Touched("tool")
  /\ UNCHANGED <<steady, overtaken, outs>>
  /\ Edit

\* A build uses the command make had when it started.
ChangeCommand ==
  /\ pc = "idle"
  /\ \E c \in Commands \ {src.cmd} : src' = [src EXCEPT !.cmd = c]
  /\ UNCHANGED <<steady, overtaken, mt, outs>>
  /\ Edit

TamperOutput(o) ==
  /\ Tampering /\ pc = "idle"
  /\ Out!Edit(o)
  /\ mt' = IF o # "stamp" THEN mt
           ELSE IF disk'[o] = None THEN Removed(o) ELSE Touched(o)
  /\ UNCHANGED <<steady, overtaken, src>>
  /\ Edit

BuildStep ==
  \/ GenProbe
  \/ WriteProbeC
  \/ CaptureCmd
  \/ ComputeHash
  \/ WriteHash
  \/ Compile
  \/ WriteProbeO
  \/ SkipStamp
  \/ HashMismatch
  \/ BeginEmit
  \/ \E o \in Out!Compared : EmitFile(o)
  \/ EmitStamp
  \/ EmitNothing
  \/ Verify

Next ==
  \/ \E target \in {"all", "iro-verify"} : StartBuild(target)
  \/ BuildStep
  \/ CompileFails
  \/ StopBuild
  \/ EditSource("toml", Manifests)
  \/ EditSource("hdr", Headers)
  \/ RebuildTools
  \/ ChangeCommand
  \/ \E o \in Out!Outputs : TamperOutput(o)

Spec == Init /\ [][Next]_vars

\* The developer keeps building; a build that has started goes on.
FairSpec == Spec /\ WF_vars(BuildStep) /\ WF_vars(StartBuild("all"))

-----------------------------------------------------------------------------
(* Properties                                                              *)

\* Every variable has its type.
TypeOK ==
  /\ src \in [toml : Manifests, hdr : Headers, cmd : Commands, tool : Tools]
  /\ mt \in [Files -> 0..Cardinality(Files)]
  /\ probeC \in Consts \cup {None}
  /\ probeCmd \in Commands \cup {None}
  /\ hashH \in Hashes \cup {None}
  /\ probeO = None \/ Job(probeO) \in Jobs
  /\ DOMAIN disk = Out!Outputs
  /\ \A o \in Out!Outputs : disk[o] \in Contents[o]
  /\ gen \in Jobs
  /\ rc \in Out!Outcomes
  /\ pc \in {"idle", "gen_probe", "write_c", "recipe", "hash64", "write_hash", "cc",
             "write_o", "stamp", "emit", "verify"}
  /\ goal \in {"all", "iro-verify"}
  /\ stale \subseteq Targets
  /\ seen \in Consts \cup Hashes \cup {None} \/ Job(seen) \in Jobs
  /\ quiet \in BOOLEAN /\ steady \in BOOLEAN /\ overtaken \in BOOLEAN
  /\ compile \in BOOLEAN /\ changed \in BOOLEAN
  /\ built \in {"none", "ok", "failed", "mismatch", "verified", "drift"}
  /\ edits \in 0..MaxEdits /\ stops \in 0..MaxStops

Fresh == \A o \in Out!Outputs : Out!Current(o, Wanted)

Untampered == \A o \in Out!Outputs : disk[o] \notin {Edited, None}

\* A build that succeeds leaves the outputs the present manifest, headers,
\* command and tools demand, whatever was edited, reverted, touched or
\* interrupted before it.  (No edit during a build.)  Outputs edited by hand are
\* only found by iro-verify: a build looks at the stamp's time.
BuiltIsFresh == built = "ok" /\ Untampered => Fresh

\* The hash check never fires for inputs that stand still during a build:
\* probe.o always carries the hash layout_parse computes again.
NoMismatchAtRest == built # "mismatch"

\* iro-verify accepts exactly the outputs the inputs demand, edited by hand or
\* not.
VerifyFindsDrift ==
  /\ built = "verified" => Fresh
  /\ built = "drift" => ~Fresh

\* After a successful build and no edit since, a build writes nothing at all:
\* "no-op rebuild does not regenerate outputs".
NoOpRebuildWritesNothing ==
  [][{built, built'} \subseteq {"ok", "verified"} => UNCHANGED <<mt, mids, disk>>]_vars

\* Interruptions and edits are finitely many: from some point on the outputs
\* are right for good, as long as somebody keeps running make, with two
\* exceptions.  A manifest that changes while a build runs may leave a hash
\* header newer than itself, which no later build renews; a header saved while
\* cc runs may leave an object newer than itself, which no later build compiles
\* again (until a header, the manifest, the command or the tools change).
Converges == <>[](~steady \/ overtaken \/ (Fresh /\ built \in {"ok", "verified"}))

\* Even with edits during earlier builds (an edit may hit between any two steps
\* of a build), a build during which nobody edits anything either fails or
\* leaves a header with the hash of the present inputs and, unless a header was
\* saved in the middle of the compilation of the object it was made from, the
\* layout of the present headers; and an hpp with the names that belong to it.
\* (Not its constants: see ConstantsMatchHash.)
QuietBuildIsLabelled ==
  pc = "idle" /\ quiet /\ built \in {"ok", "verified"} =>
    /\ disk["h"].hash = Wanted.hash /\ disk["meta"].hash = Wanted.hash
    /\ disk["h"].layout.cmd = Wanted.layout.cmd
    /\ overtaken \/ /\ disk["h"].layout = Wanted.layout
                    /\ disk["h"].names = Wanted.names
                    /\ disk["hpp"].names = Wanted.names

\* A claim of the source that the build does not live up to.

\* "No silent corruption": the constants in an emitted header are those of the
\* manifest whose hash the header carries.
ConstantsMatchHash == built = "ok" => gen.hash.toml = gen.consts.toml
=============================================================================
