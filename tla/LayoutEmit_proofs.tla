------------------------- MODULE LayoutEmit_proofs -------------------------
(***************************************************************************)
(* Proofs about LayoutEmit, for every set of inputs and every content.     *)
(* The inductive invariant adds to the types the order of the writes       *)
(* (PassedIsCurrent) and what the temporary file holds when it is renamed. *)
(***************************************************************************)
EXTENDS LayoutEmit, TLAPS

\* No flush fails behind the tool's back: the hypothesis of all results but
\* type correctness.
FlushesSucceed == FlushMayFail = FALSE

DraftIsWhole == step = "rename" => draft = Text(cur, gen)

IInv == TypeOK /\ PassedIsCurrent /\ DraftIsWhole /\ OutputsAreWhole

\* A rendering is a content of a file.
LEMMA TextIsContent == \A o \in Outputs, g \in Gens : Text(o, g) \in Content
  BY DEF Content

\* The order of the outputs, as the transitions use it.
LEMMA OrderOfOutputs ==
  \A o \in Outputs :
    /\ Following(o) \in Outputs
    /\ FirstStep(o) \in {"check", "open"}
    /\ o # "stamp" => Promise!Earlier(Following(o)) = Promise!Earlier(o) \cup {o}
    /\ Promise!Earlier(o) \subseteq Compared
    /\ o \notin Promise!Earlier(o)
  BY DEF Outputs, Promise!Outputs, Compared, Promise!Compared, Following,
         FirstStep, Promise!Earlier

\* Every variable keeps its type, whatever fails: rc is "running" exactly
\* while emit_outputs is in progress.
THEOREM TypeCorrect == Spec => []TypeOK
<1>1. Init => TypeOK
  BY DEF Init, TypeOK, Content, Steps, FileSteps, Promise!Outcomes, Outputs,
         Promise!Outputs
<1>2. TypeOK /\ [Next]_vars => TypeOK'
  <2> SUFFICES ASSUME TypeOK, [Next]_vars PROVE TypeOK'
    OBVIOUS
  <2> USE TextIsContent, OrderOfOutputs
      DEF TypeOK, Steps, FileSteps, Promise!Outcomes
  <2>1. CASE UNCHANGED vars
    BY <2>1 DEF vars
  <2>2. ASSUME NEW g \in Gens, Begin(g) PROVE TypeOK'
    BY <2>2 DEF Begin
  <2>3. ASSUME NEW g \in Gens, Verify(g) PROVE TypeOK'
    BY <2>3 DEF Verify
  <2>4. CASE Compare
    BY <2>4 DEF Compare, Outputs, Promise!Outputs
  <2>5. CASE Check
    BY <2>5 DEF Check
  <2>6. CASE Open
    BY <2>6 DEF Open, Content
  <2>7. CASE Write
    BY <2>7 DEF Write, Content
  <2>8. CASE Close
    BY <2>8 DEF Close
  <2>9. CASE Rename
    BY <2>9 DEF Rename, Content
  <2>10. CASE Stop
    BY <2>10 DEF Stop, Content
  <2>11. ASSUME NEW o \in Outputs, Edit(o) PROVE TypeOK'
    BY <2>11 DEF Edit, Content
  <2>12. QED
    BY <2>1, <2>2, <2>3, <2>4, <2>5, <2>6, <2>7, <2>8, <2>9, <2>10, <2>11
       DEF Next
<1>3. QED
  BY <1>1, <1>2, PTL DEF Spec

-----------------------------------------------------------------------------
(* The inductive invariant                                                 *)

LEMMA InitIInv == Init => IInv
<1> SUFFICES ASSUME Init PROVE IInv
  OBVIOUS
<1>1. TypeOK
  BY DEF Init, TypeOK, Content, Steps, FileSteps, Promise!Outcomes, Outputs,
         Promise!Outputs
<1>2. PassedIsCurrent /\ DraftIsWhole
  BY DEF Init, PassedIsCurrent, DraftIsWhole, FileSteps
<1>3. OutputsAreWhole
  BY MarkersDiffer DEF Init, OutputsAreWhole
<1>4. QED
  BY <1>1, <1>2, <1>3 DEF IInv

\* One step of the program or of its environment keeps the invariant.
LEMMA StepIInv ==
  ASSUME FlushesSucceed, TypeOK, TypeOK', IInv, [Next]_vars
  PROVE  IInv'
<1> USE DEF IInv, TypeOK
<1> USE OrderOfOutputs
<1>1. CASE UNCHANGED vars
  BY <1>1 DEF vars, PassedIsCurrent, DraftIsWhole, OutputsAreWhole, Current
<1>2. ASSUME NEW g \in Gens, Begin(g) \/ Verify(g) PROVE IInv'
  BY <1>2 DEF Begin, Verify, PassedIsCurrent, DraftIsWhole, OutputsAreWhole,
              FileSteps
<1>3. CASE Compare
  <2>1. PassedIsCurrent'
    <3> SUFFICES ASSUME step' \in FileSteps, NEW o \in Compared,
                        o \in Promise!Earlier(cur') \/ o \notin need'
                 PROVE  Current(o, gen)'
      BY DEF PassedIsCurrent
    <3>1. cur' = "h" /\ step' = "check"
      BY <1>3 DEF Compare, FileSteps
    <3>2. o \in Outputs /\ o \notin need'
      BY <3>1 DEF Promise!Earlier, Compared, Promise!Compared, Outputs
    <3>3. QED
      BY <1>3, <3>2 DEF Compare, Current
  <2>2. DraftIsWhole' /\ OutputsAreWhole'
    BY <1>3 DEF Compare, DraftIsWhole, OutputsAreWhole
  <2>3. QED
    BY <2>1, <2>2
<1>4. CASE Check
  <2>1. PassedIsCurrent'
    <3> SUFFICES ASSUME NEW o \in Compared,
                        o \in Promise!Earlier(cur') \/ o \notin need'
                 PROVE  Current(o, gen)'
      BY DEF PassedIsCurrent
    <3>1. step \in FileSteps /\ cur # "stamp" => Current(o, gen) \/ o = cur
      BY <1>4 DEF Check, PassedIsCurrent, FileSteps
    <3>2. CASE cur \in need /\ ~Current(cur, gen)
      BY <1>4, <3>2 DEF Check, PassedIsCurrent, FileSteps, Current
    <3>3. CASE ~(cur \in need /\ ~Current(cur, gen)) /\ cur # "stamp"
      <4>1. Current(cur, gen) \/ cur \notin need
        BY <3>3
      <4>2. cur \in Compared
        BY <3>3 DEF Compared, Promise!Compared, Outputs
      <4>3. Current(cur, gen)
        BY <1>4, <4>1, <4>2 DEF Check, PassedIsCurrent, FileSteps
      <4>4. Current(o, gen)
        BY <1>4, <3>1, <3>3, <4>3 DEF Check, FileSteps
      <4>5. QED
        BY <1>4, <4>4 DEF Check, Current
    <3>4. CASE ~(cur \in need /\ ~Current(cur, gen)) /\ cur = "stamp"
      BY <1>4, <3>4 DEF Check, PassedIsCurrent, FileSteps, Current, Following
    <3>5. QED
      BY <3>2, <3>3, <3>4
  <2>2. DraftIsWhole' /\ OutputsAreWhole'
    BY <1>4 DEF Check, DraftIsWhole, OutputsAreWhole, FirstStep
  <2>3. QED
    BY <2>1, <2>2
<1>5. CASE Open \/ Write
  BY <1>5 DEF Open, Write, PassedIsCurrent, DraftIsWhole, OutputsAreWhole,
              FileSteps, Current
<1>6. CASE Close
  BY <1>6 DEF Close, FlushesSucceed, PassedIsCurrent, DraftIsWhole,
              OutputsAreWhole, FileSteps, Current
<1>7. CASE Rename
  <2>1. draft = Text(cur, gen)
    BY <1>7 DEF Rename, DraftIsWhole
  <2>2. \A o \in Outputs : Current(o, gen) => Current(o, gen)'
    BY <1>7, <2>1 DEF Rename, Current
  <2>3. disk'[cur] = Text(cur, gen) /\ gen' = gen
    BY <1>7, <2>1 DEF Rename
  <2>4. PassedIsCurrent'
    <3> SUFFICES ASSUME step' \in FileSteps, NEW o \in Compared,
                        o \in Promise!Earlier(cur') \/ o \notin need'
                 PROVE  Current(o, gen)'
      BY DEF PassedIsCurrent
    <3>1. cur # "stamp" /\ cur' = Following(cur) /\ need' = need
      BY <1>7 DEF Rename, FileSteps
    <3>2. o = cur \/ o \in Promise!Earlier(cur) \/ o \notin need
      BY <3>1
    <3>3. o \in Outputs /\ (o = cur \/ Current(o, gen))
      BY <1>7, <3>2 DEF Rename, PassedIsCurrent, FileSteps, Compared,
                        Promise!Compared, Outputs
    <3>4. QED
      BY <2>2, <2>3, <3>3 DEF Current
  <2>5. DraftIsWhole'
    BY <1>7 DEF Rename, DraftIsWhole, FirstStep
  <2>6. OutputsAreWhole'
    BY <1>7, <2>1, MarkersAreNoText DEF Rename, OutputsAreWhole
  <2>7. QED
    BY <2>4, <2>5, <2>6
<1>8. CASE Stop
  BY <1>8 DEF Stop, PassedIsCurrent, DraftIsWhole, OutputsAreWhole, FileSteps
<1>9. ASSUME NEW o \in Outputs, Edit(o) PROVE IInv'
  BY <1>9, MarkersDiffer DEF Edit, PassedIsCurrent, DraftIsWhole,
                             OutputsAreWhole, FileSteps
<1>10. QED
  BY <1>1, <1>2, <1>3, <1>4, <1>5, <1>6, <1>7, <1>8, <1>9 DEF Next

LEMMA InvariantHolds == ASSUME FlushesSucceed PROVE Spec => []IInv
<1>1. Init => IInv
  BY InitIInv
<1>2. TypeOK /\ TypeOK' /\ IInv /\ [Next]_vars => IInv'
  BY StepIInv
<1>3. QED
  BY <1>1, <1>2, TypeCorrect, PTL DEF Spec

\* No output is ever half written, whatever the moment of a crash, provided
\* the flush at the end of atomic_write's stream does not fail unnoticed.
THEOREM OutputsStayWhole ==
  ASSUME FlushesSucceed PROVE Spec => []OutputsAreWhole
<1>1. IInv => OutputsAreWhole
  BY DEF IInv
<1>2. QED
  BY <1>1, InvariantHolds, PTL

-----------------------------------------------------------------------------
(* What a successful run leaves behind                                     *)

LEMMA StepOk ==
  ASSUME FlushesSucceed, IInv, [Next]_vars, rc = "running", rc' = "ok"
  PROVE  \A o \in Outputs : Current(o, gen)'
<1> USE DEF IInv, TypeOK
<1>1. CASE Compare
  BY <1>1 DEF Compare, Current
<1>2. CASE Rename
  <2>1. cur = "stamp" /\ gen' = gen
    BY <1>2 DEF Rename
  <2>2. \A o \in Compared : Current(o, gen)
    BY <1>2, <2>1 DEF Rename, PassedIsCurrent, FileSteps, Promise!Earlier,
                      Compared
  <2>3. \A o \in Compared : disk'[o] = disk[o] /\ o # "stamp"
    BY <1>2, <2>1 DEF Rename, Compared, Promise!Compared, Outputs
  <2>4. disk'["stamp"] = Text("stamp", gen)
    BY <1>2, <2>1 DEF Rename, DraftIsWhole, Outputs, Promise!Outputs
  <2>5. QED
    BY <2>1, <2>2, <2>3, <2>4 DEF Current, Outputs, Compared, Promise!Compared
<1>3. Compare \/ Rename
  BY DEF Next, vars, Begin, Verify, Check, Open, Write, Close, Stop, Edit
<1>4. QED
  BY <1>1, <1>2, <1>3

\* A run that reports success leaves the four outputs as its inputs demand,
\* those it did not touch included.
THEOREM SuccessMeansCurrent ==
  ASSUME FlushesSucceed PROVE Spec => OkMeansCurrent
<1>1. IInv /\ [Next]_vars =>
        [(rc = "running" /\ rc' = "ok") => \A o \in Outputs : Current(o, gen)']_vars
  BY StepOk
<1>2. QED
  BY <1>1, InvariantHolds, PTL DEF Spec, OkMeansCurrent

-----------------------------------------------------------------------------
(* Refinement                                                              *)

\* Every step of the detailed specification is a step of the promise, or
\* leaves its variables alone.
LEMMA StepRefines ==
  ASSUME FlushesSucceed, IInv, IInv', [Next]_vars
  PROVE  [Promise!Next]_(Promise!vars)
<1> USE DEF IInv, TypeOK
<1>1. CASE UNCHANGED vars
  BY <1>1 DEF vars, Promise!vars
<1>2. ASSUME NEW g \in Gens, Begin(g) PROVE Promise!Next
  BY <1>2 DEF Begin, Promise!Next, Promise!Begin
<1>3. ASSUME NEW g \in Gens, Verify(g) PROVE Promise!Next
  BY <1>3 DEF Verify, Current, Text, Outputs, Promise!Current, Promise!Next,
              Promise!Verify
<1>4. CASE Compare
  <2>1. CASE need' = {}
    BY <1>4, <2>1 DEF Compare, Current, Text, Outputs, Promise!Current,
                      Promise!Next, Promise!NothingToDo
  <2>2. CASE need' # {}
    BY <1>4, <2>2 DEF Compare, Promise!vars
  <2>3. QED
    BY <2>1, <2>2
<1>5. CASE Check \/ Open \/ Write \/ Close
  BY <1>5 DEF Check, Open, Write, Close, Promise!vars
<1>6. CASE Rename
  <2>1. disk' = [disk EXCEPT ![cur] = Text(cur, gen)] /\ gen' = gen
    BY <1>6 DEF Rename, DraftIsWhole
  <2>2. \A p \in Promise!Earlier(cur) : Current(p, gen)
    BY <1>6, OrderOfOutputs DEF Rename, PassedIsCurrent, FileSteps
  <2>3. rc = "running"
    BY <1>6 DEF Rename
  <2>4. Promise!Publish(cur)
    BY <2>1, <2>2, <2>3 DEF Promise!Publish, Promise!Current, Current, Text
  <2>5. CASE cur = "stamp"
    BY <1>6, <2>4, <2>5 DEF Rename, Promise!Next, Promise!PublishStamp
  <2>6. CASE cur # "stamp"
    <3>1. cur \in Promise!Compared /\ rc' = rc
      BY <1>6, <2>6 DEF Rename, Outputs, Promise!Compared
    <3>2. QED
      BY <2>4, <3>1 DEF Promise!Next, Promise!PublishAndGoOn
  <2>7. QED
    BY <2>5, <2>6
<1>7. CASE Stop
  BY <1>7 DEF Stop, Promise!Next, Promise!Stop
<1>8. ASSUME NEW o \in Outputs, Edit(o) PROVE Promise!Next
  BY <1>8 DEF Edit, Outputs, Promise!Next, Promise!Edit
<1>9. QED
  BY <1>1, <1>2, <1>3, <1>4, <1>5, <1>6, <1>7, <1>8 DEF Next

\* The emitter, temporary files, buffers and renames included, implements the
\* abstract OutputSet.
THEOREM EmitterKeepsPromise ==
  ASSUME FlushesSucceed PROVE Spec => KeepsPromise
<1>1. Init => Promise!Init
  BY DEF Init, Promise!Init, Outputs
<1>2. IInv /\ IInv' /\ [Next]_vars => [Promise!Next]_(Promise!vars)
  BY StepRefines
<1>3. QED
  BY <1>1, <1>2, InvariantHolds, PTL DEF Spec, KeepsPromise, Promise!Spec

-----------------------------------------------------------------------------
(* What a run replaces, and what the verifier says of it                   *)

\* As long as nobody edits them, the outputs of a successful run are current.
OkStays == rc = "ok" => \A o \in Outputs : Current(o, gen)

\* An output that is being written differs from what it will be.
WrittenDiffers ==
  step \in FileSteps \ {"check"} /\ cur \in Compared => ~Current(cur, gen)

LEMMA StepStays ==
  ASSUME FlushesSucceed, IInv, OkStays /\ WrittenDiffers, [Next]_vars
  PROVE  (OkStays /\ WrittenDiffers)'
<1> USE DEF IInv, TypeOK, FileSteps
<1>1. CASE UNCHANGED vars
  BY <1>1 DEF vars, OkStays, WrittenDiffers, Current
<1>2. ASSUME NEW g \in Gens, Begin(g) \/ Verify(g) PROVE (OkStays /\ WrittenDiffers)'
  BY <1>2 DEF Begin, Verify, OkStays, WrittenDiffers
<1>3. CASE Compare
  BY <1>3 DEF Compare, OkStays, WrittenDiffers, Current
<1>4. CASE Check
  <2>1. OkStays'
    BY <1>4 DEF Check, OkStays
  <2>2. CASE cur \in need /\ ~Current(cur, gen)
    BY <1>4, <2>1, <2>2 DEF Check, WrittenDiffers, Current
  <2>3. CASE ~(cur \in need /\ ~Current(cur, gen))
    <3>1. cur' \in Compared => step' = "check"
      BY <1>4, <2>3 DEF Check, FirstStep, Compared, Promise!Compared
    <3> QED
      BY <2>1, <3>1 DEF WrittenDiffers
  <2> QED
    BY <2>2, <2>3
<1>5. CASE Open \/ Write \/ Close
  BY <1>5 DEF Open, Write, Close, OkStays, WrittenDiffers, Current
<1>6. CASE Rename
  <2>1. OkStays'
    BY <1>6, StepOk DEF OkStays, Rename
  <2>2. cur' \in Compared /\ step' # "idle" => step' = "check"
    BY <1>6 DEF Rename, FirstStep, Compared, Promise!Compared
  <2> QED
    BY <2>1, <2>2 DEF WrittenDiffers
<1>7. CASE Stop
  BY <1>7 DEF Stop, OkStays, WrittenDiffers
<1>8. ASSUME NEW o \in Outputs, Edit(o) PROVE (OkStays /\ WrittenDiffers)'
  BY <1>8 DEF Edit, OkStays, WrittenDiffers
<1> QED
  BY <1>1, <1>2, <1>3, <1>4, <1>5, <1>6, <1>7, <1>8 DEF Next

LEMMA StaysAlways == ASSUME FlushesSucceed PROVE Spec => [](OkStays /\ WrittenDiffers)
<1>1. Init => OkStays /\ WrittenDiffers
  BY DEF Init, OkStays, WrittenDiffers, FileSteps
<1>2. IInv /\ (OkStays /\ WrittenDiffers) /\ [Next]_vars => (OkStays /\ WrittenDiffers)'
  BY StepStays
<1> QED
  BY <1>1, <1>2, InvariantHolds, PTL DEF Spec

\* What a run has written, a verification of the same inputs accepts, unless
\* somebody has edited an output in between.
THEOREM VerifyAcceptsWhatEmitWrote ==
  ASSUME FlushesSucceed PROVE Spec => VerifyAcceptsEmit
<1>1. IInv /\ OkStays /\ [Next]_vars => [(rc = "ok" /\ rc' = "drift") => gen' # gen]_vars
  <2> SUFFICES ASSUME IInv, OkStays, Next, rc = "ok", rc' = "drift" PROVE gen' # gen
    BY DEF vars
  <2>1. PICK g \in Gens : Verify(g)
    BY DEF Next, Begin, Compare, Check, Open, Write, Close, Rename, Stop, Edit
  <2>2. ~(\A o \in Outputs : Current(o, g)) /\ gen' = g
    BY <2>1 DEF Verify
  <2> QED
    BY <2>2 DEF OkStays
<1> QED
  BY <1>1, InvariantHolds, StaysAlways, PTL DEF Spec, VerifyAcceptsEmit

\* A file that is renamed into place over a header or the meta file has another
\* content: what is unchanged keeps its time stamp, and nothing that includes
\* it is compiled again.
THEOREM UnchangedIsKept ==
  ASSUME FlushesSucceed PROVE Spec => ReplacedOnlyIfChanged
<1>1. IInv /\ WrittenDiffers /\ [Next]_vars =>
        [\A o \in Compared :
           (step = "rename" /\ cur = o /\ step' # "idle") => disk'[o] # disk[o]]_vars
  <2> SUFFICES ASSUME IInv, WrittenDiffers, Next, NEW o \in Compared,
                      step = "rename", cur = o, step' # "idle"
               PROVE  disk'[o] # disk[o]
    BY DEF vars
  <2>1. Rename
    BY DEF Next, Begin, Verify, Compare, Check, Open, Write, Close, Stop, Edit
  <2>2. disk'[o] = Text(o, gen)
    BY <2>1 DEF Rename, DraftIsWhole, IInv, TypeOK
  <2>3. disk[o] # Text(o, gen)
    BY DEF WrittenDiffers, FileSteps, Current
  <2> QED
    BY <2>2, <2>3
<1> QED
  BY <1>1, InvariantHolds, StaysAlways, PTL DEF Spec, ReplacedOnlyIfChanged
=============================================================================
