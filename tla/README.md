# TLA+ models of iro-linux

## 1. The system

`iro-tool` derives the layout of kernel structures at build time. `gen_probe`
turns a manifest (which types, fields, bit-fields, constants and enumerators a
C++ unit needs) into a C probe; the kernel's compiler turns the probe into an
object that carries an ELF note and debug information; `layout_parse` reads
both and keeps four generated files under `include/generated/iro`. `depcheck`
refuses C++ units that include kernel headers. `iro-core` is the freestanding
C++ library the kernel's C++ units are written with.

| Component | State it keeps | Operations | Talks to |
|---|---|---|---|
| Output emission (`layout_parse.cc`, `iro_common.hpp`) | the four generated files, their temporary files | `emit_outputs`, `write_if_changed`, `atomic_write`, `verify_outputs` | file system; make looks at the time stamps |
| Probe pipeline (`iro.probe.mk`) | `probe.c`, `probe.cmd`, `probe.hash.h`, `probe.o`, the stamp, their time stamps | the make rules, `--hash64`, `--emit`, `iro-verify` | manifest, kernel headers, compile command, tools |
| Note reader (`layout_parse.cc`) | cursor into the object's bytes | `find_note_section`, `parse_note`, `parse_descriptor` | bytes written by the compiler |
| Note writer (`gen_probe.cc`) | the list of records | `expand_records`, `compute_sizes`, `emit_record_bytes`, `emit_probe_c` | its bytes are what the note reader reads |
| Layout model and rendering (`layout_parse.cc`) | maps of types, constants, enumerators | `build_model`, `validate_against_manifest`, `normalize_requests`, `check_identifier_collisions`, `render_*` | records of the note reader, geometry of the DWARF reader |
| DWARF reader (`dwarf_reader.cc`) | DIE tree, abbreviations, string tables | relocation, DIE parsing, member lookup, bit-field geometry, enum extraction | debug information of the probe |
| Manifest language (`iro_manifest.hpp`) | cursor, sections, keys seen | parsing and validation | all tools read the same file |
| Dependency check (`depcheck.cc`, `iro.depcheck.mk`) | none | prefix rules over a depfile | replaces Kbuild's C++ compile rule |
| Overlay installer (`iro-apply.sh`) | a kernel tree, backups, hooks | copy, patch, restore | makefiles of the kernel |
| Owning types (`expected`, `optional`, `unique_ptr`, `Box`, `BoxedSlice`, `inplace_vector`) | a discriminator or pointer and the objects alive in their storage | construct, assign, emplace, reset, destroy | user constructors, the kernel's allocator |
| Formatting and logging (`fmt/`, `io/log.hpp`) | a bounded buffer | format-string parsing, emission | `printk` |

### What is hard about it

* **Staleness.** Five intermediate files are renewed by three different tests:
  make's time stamps, Kbuild's saved commands, and comparison of contents. A
  revert after an interrupted build leaves newer files with older contents.
* **Crashes.** A run may be killed between any two renames, and a stream error
  may surface only in a destructor.
* **Unlocked inputs.** The manifest is read at three moments of one build.
* **Hand-made binary formats.** Sizes, paddings and offsets computed by one
  program are recomputed by another, in unsigned arithmetic that may wrap.
* **Object lifetimes without a runtime.** `iro-core` moves, destroys and
  replaces objects in raw storage, with constructors that may call back into
  the container they are stored in.

### What makes each component correct

* Output emission: an output is always whole; success means the four files
  render the inputs; an unchanged file keeps its time stamp.
* Probe pipeline: a build that succeeds leaves the outputs of the present
  inputs; a rebuild with nothing to do writes nothing; after interruptions the
  build converges.
* Note reader: no byte outside the object is ever read and the reader always
  ends. Note writer: what it writes is accepted and read back unchanged.
* Layout model: records and requests agree, and no two requests are given the
  same macro name. DWARF reader: both encodings of a bit-field give the same
  bits, and these are the bits the compiler uses.
* Manifest language: what is accepted was written down once and means one thing.
* Dependency check: a forbidden header never passes, however its path is spelled.
* Overlay installer: run any number of times, after any interruption, it hooks each file once.
* Formatting: the compile-time and the run-time scan of a format string agree, and no byte is written outside a buffer.
* Owning types: every object constructed is destroyed exactly once, the
  discriminator always says what is alive, and a failed operation keeps what
  `PRIMITIVES_SPEC.md` says it keeps.
## 2. Modules

### OutputSet, LayoutEmit, LayoutEmit_proofs (output emission)

`OutputSet` is the promise of one run: whole files, replaced in the order h,
hpp, meta, stamp, success only when all four render the inputs. `LayoutEmit`
is the code: `Compare` is the four `need_*` tests of `emit_outputs` with the
early return at line 1258, `Check` the second comparison in
`write_if_changed`, `Open`/`Write`/`Close`/`Rename` the system calls of
`atomic_write`, `Stop` both `fatal` and a signal between any two calls, `Edit`
somebody touching the generated files between runs. Texts are abstracted to
what they are rendered from: the header prints hash, names and values (constants
and layout), the hpp only the names (its values are the header's macros), the
meta file only the hash, and the stamp nothing. That is why `need_*` can differ
from file to file.

| Run | Shows |
|---|---|
| `emit` | `OutputsAreWhole`, `OkMeansCurrent`, `VerifyAcceptsEmit`, `ReplacedOnlyIfChanged`, and that `LayoutEmit` implements `OutputSet` (`KeepsPromise`), with flushes that succeed |
| `emit_flush` | violated: the destructor's flush error is not looked at (`iro_common.hpp:618`), so a full disk publishes half a file with exit code 0 |

Three inputs are enough: a pair that differs only in the layout and a pair that
differs in hash and constants make every subset of `need_*` that can arise.
Contents need no bound, since files only hold what one of the inputs renders.

**Proved for all inputs** (`LayoutEmit_proofs`, assuming only that the markers
are no rendering; `FlushesSucceed` where it is named): `TypeCorrect`,
`OutputsStayWhole`, `SuccessMeansCurrent`, `EmitterKeepsPromise`,
`VerifyAcceptsWhatEmitWrote` and `UnchangedIsKept`. The
inductive invariant `IInv` joins the type invariant with `OutputsAreWhole`,
`PassedIsCurrent` (what the run has passed, or found equal, is current; without
it the final rename says nothing about the three other files) and the state of
the temporary file (whole once it is closed; without it `Rename` could publish
a torn one). The last two theorems need that an output keeps its difference
from the comparison to the rename (`WrittenDiffers`) and that what a successful
run leaves stays as it is (`OkStays`). The refinement maps every variable to itself: `Rename` is
`Publish`, an early return of `Compare` is `NothingToDo`, the rest stutters.

### ProbePipeline (the make rules of one layout set)

One action per tool invocation: `GenProbe`/`WriteProbeC`, `CaptureCmd` (the
`FORCE`d recipe of `probe.o`: `cmp`/`mv` of `probe.cmd` and the decision of
`if_changed_dep`, which make takes when it expands the recipe, before the hash
header is renewed), `ComputeHash`/`WriteHash` (two steps, since the manifest
may change between them), `Compile` and `WriteProbeO` (cc reads the headers at one
moment, and the object is written and gets its time stamp at a later one; in
between headers may be saved), the stamp rule (`SkipStamp`,
`HashMismatch`, `BeginEmit`, `EmitFile`, `EmitStamp`, `EmitNothing`) and
`Verify`. Output steps are the actions of `OutputSet`, so the refinement proved
for `LayoutEmit` is what justifies them. The outside world edits, reverts and
touches the manifest and the headers (`EditSource`), rebuilds the tools,
changes the command, tampers with outputs, and interrupts (`StopBuild`,
`CompileFails`). `StartBuild` takes make's snapshot of the time stamps of the
sources (`stale`).

Time stamps are kept as ranks (`Ranks`): only their order matters, and ranks
keep the state space finite without bounding the number of writes.

| Run | Bounds | Shows |
|---|---|---|
| `pipeline` | 2 values of manifest, headers and command, 3 edits or tamperings, 2 stops | `BuiltIsFresh`, `NoMismatchAtRest`, `NoOpRebuildWritesNothing`, `VerifyFindsDrift`, `TypeOK` |
| `pipeline_live` | 2 values of manifest and headers, 2 edits, also between any two steps of a build, 1 stop | `QuietBuildIsLabelled`, and `Converges` under `MCFairSpec` (`FairSpec` from one choice of inputs) |
| `pipeline_label` | 1 edit during a build | violated: "no silent corruption" |

Liveness is checked without symmetry; `MCFairSpec` starts from one choice of
the inputs instead, which is the same up to a renaming of contents.

`Names` says which names a manifest asks for under which headers. It is a
parameter, since enumerators extracted as a whole come from the headers:
`pipeline` runs with names given by the manifest alone (`GivenNames`),
`pipeline_live` with names that also depend on the headers (`EnumNames`),
`pipeline_label` with the same names everywhere (`SameNames`).

`Converges` has two exceptions, both races the code does not protect against.
One are behaviours in which the manifest changed while a build ran
(`steady` is false): when the manifest is saved after
`--hash64` has read it and before `probe.hash.h` is written, the header is
newer than the manifest, the `-nt` tests of `iro.probe.mk:81` never renew it,
and every later build ends in "input_hash64 mismatch", whose advice (rebuild
the probe, `layout_parse.cc:1435`) does not help until something else changes.
The other is an object that was overtaken (`overtaken`): a header was saved
after cc had read it and before `probe.o` was written (`iro.probe.mk:89`), so
that the object is newer than the header and has its old content. No later build
compiles it again until a header, the manifest, the command or the tools change,
and every build reports success. `QuietBuildIsLabelled` excepts the layout, and
the names, of such objects; the hash and the command are right in any case.
`overtaken` is a history variable, set when an object is written and cleared
when the next one is; a header saved at any other moment of a build, before cc
reads it or behind `probe.o`, is not excepted and is caught by its time stamp.
The headers stand for one content, read at one moment: that cc may read two
headers at two moments adds nothing, as an object made of both is overtaken.

Three edits are enough for the worst histories: edit, interrupted build,
revert, build (an old content with a new time stamp at each of the five files),
with one more change of another input. The tools keep one version and are only
rebuilt (their version enters the hash as the manifest does). Symmetry over the contents is sound
because contents are only compared for equality.

*Fairness.* `FairSpec` asks for weak fairness of the build steps (make and the
tools are sequential programs that go on unless stopped) and of
`StartBuild("all")` (somebody keeps building). Nothing is assumed of the
outside world except that edits and stops are bounded.

**Proved for all contents and any number of edits, touches, interruptions and
builds** (`ProbePipeline_proofs`): `TypeCorrect` without a hypothesis;
`BuildsAreFresh`, `HashesAgree`, `VerifyIsExact` and `RebuildsWriteNothing` for
inputs that stand still while a build runs (`InputsStandStill`, that is
`EditDuringBuild = FALSE`; `pipeline_label` shows that the first is false
without it); `QuietBuildsAreLabelled` for inputs edited at any moment, except the
layout and the names of overtaken objects, if only the tools write outputs (`Tampering = FALSE`; `VerifyIsExact` is the theorem
about outputs edited by hand).

The invariant has three layers. `Progress` says which files are there by which
step of a build. `Safe` says what time stamps tell of contents, builds running
or not (`StampsTellContents`: a file no input is newer than is what the tool
would make again; `StampVouches`: a stamp no older than the object vouches for
the outputs), how far a running build has come (`BuildGoesRight`,
`FinishedIsSettled`) and that a second build finds nothing to do
(`NothingToRedo`). `BuiltIsFresh` alone is far from inductive: after an edit, a
stopped build and a revert every file may be from another history, and only
the order of the stamps says which can be trusted. `Labels` is the weaker
version that survives edits during a build: stamps then tell the hash that is
in the object, no longer all that it was made from, and the headers only of an
object that was not overtaken. All three were checked by
TLC on the instance of the `pipeline` run first. The lemmas `Writes...` say
once, for each file, what a new version of it does to all tests of make;
`RanksKeepOrder` and `TouchedIsNewest` justify the ranks: they keep the order
of time stamps, and are bounded by the number of files.

### NoteReader, NoteReader_proofs, MCNoteReader

`NoteReader` is `find_note_section`, `parse_note` and `parse_descriptor` of layout_parse.cc as one state machine: ELF
header and section table (`ReadElf`), the search for `.note.iro.layout` (`ReadSection`, `NoSection`), the loop over
notes (`ReadNote`, `NoNote`), the descriptor's header (`ReadHeader`), its records (`ReadRecord`), its tail
(`ReadTrailing`). `fatal()` is `Reject`. The object is arbitrary: constant operators (`ElfHeaders`, `NoteHeaders`,
`RecordHeaders`, ...) say which values may be found at an offset. Magic numbers, schema and machine are one Boolean
(`known`, `iro`); everything else that guards a later read is kept, with `std::size_t` and 32-bit sums wrapping at
`MaxWord` and `MaxU32`. `reads` holds the byte ranges the last step has read, with the end of the span it was allowed
to read from.

| run | what it shows | bounds |
|---|---|---|
| note_reader | no read outside its span or the object; records kept are backed by bytes; the reader ends | words of 511 and 255, five object sizes around the ELF header and the section table, values just below, at and above each limit and at the largest word |

Fairness: the reader is one sequential program, so `WF_vars(Next)` only says that it is run.

Proved for every word size, limit and object (`NoteReader_proofs`): `TypeCorrect`, `NeverReadsOutside`, `StaysAligned`
(records keep every record header at a multiple of four; not among the run's properties, since the proof covers it),
`KeepsNoMoreThanBytes`. The inductive invariant adds where each span lies: the section table inside the object, the
section inside the object, the note inside the section, the descriptor inside the note, the cursor inside the
descriptor and at a multiple of four. The assumption `WordsAreWide` says what the code's constants satisfy by a wide
margin: twice the longest string fits 32 bits, the largest section fits `std::size_t` with 64 bytes to spare, and
`std::size_t` is wider than the 32-bit sizes of a note by at least three bytes' worth, as on every 64-bit host.
Without the first the comparison at layout_parse.cc:290 would wrap; without the second the sums in `read_obj` and
`while (off + 12 <= ...)` would; without the third `Align4`, whose rounding is unsigned arithmetic that wraps as in
layout_parse.cc:466, would take a size next to the word limit for zero.

### ProbeNote, ProbeNote_proofs, MCProbeNote

`ProbeNote` is the writer, `gen_probe`: `expand_records`, `compute_sizes`, `emit_record_bytes` and the byte order of
`emit_probe_c`, as a sequence of cells (width, value). It instantiates `NoteReader` on the object that holds those
cells; a read that does not meet a cell of exactly its offset and width gets junk.

| run | what it shows | bounds |
|---|---|---|
| probe_note | every record written is read back with its names, flags and values, in order; no note with a record is rejected | all manifests with at most two types, one constant, one enum and names of every length modulo four |

A manifest that only extracts enumerators (`extract_all = true`, which `iro_manifest.hpp:811` offers as the alternative
to `values`) yields a note without records, and `layout_parse.cc:237` rejects it: `WrittenIsAccepted` makes that one
exception.

Proved for every set of manifests (`ProbeNote_proofs`): `RecordsSurvive` (`RoundTrip`) and `NoNoteIsLost`
(`WrittenIsAccepted`). Where a record begins is a sum over the records before it (`Offsets`), and the bytes of a note
are a concatenation over its records (`FlattenSeq`), so the argument begins with induction over sequences:
`OffsetsAdjoin` (each thing begins where the one before it ends), `FlattenGathers` and `FlattenFours` (what a
concatenation holds, and where). From these follow what `Expand` yields (`ExpandHolds`, `ComesSound`: every record comes
from an item of the manifest and meets what the reader asks of its kind), where it is written (`DescLayout`,
`NotePlaces`: the fourth cell of each record ends where `compute_sizes` puts the next record) and what is found there
(`HeadIsFound`, `RecordIsFound`; no two cells that hold something begin at one place). The invariant `NoteInv` then says
for each state of the reader what it has read and where its cursor is: after `k` records at `Begins(m)[k]`. It is needed
because both properties speak of the end only. That the records contradict each other only where two sections share an
accessor (`ContradictionsAreShared`) goes by what a value follows from (`ComesSays`); that they do contradict each other
there, by the number of sections that asked before (`LaterIdDiffers`).

What is assumed, and TLC evaluates for the run's manifests: `LimitsAssumption` (what the code's constants satisfy),
`NamesAssumption` and `ManifestsAssumption`. The rules of the manifest make names non-empty and set names short enough.
That other names have at most 4096 bytes, and that a manifest yields at most 200000 records in at most 4 MiB, no one
checks when the note is written; layout_parse then rejects what gen_probe wrote (`layout_parse.cc:210`, `:282`, `:477`).
The theorems say that these limits, and a note without records, are the only reasons.

### LayoutModel, LayoutModel_proofs, MCLayoutModel

`LayoutModel` follows one run of `layout_parse` from the records of the note to the macros of `layout_<set>.h` and the
constants of `layout_<set>.hpp`. `BuildModel` takes one record at a time (`build_model`), `Merge` one geometry or
enumerator of the debug information; `Take` is the `emplace` into the maps of `Model` with the comparison before it,
`Reject` is `fatal()`. `Validate` is the check of hash and set name and `validate_against_manifest`; `Render` is
`normalize_requests`, `check_identifier_collisions` and `render_header_h`; `Declarations` is what `render_header_hpp`
declares in each structure. `Model` is the set of its entries `[kind, type, name, value]`: the maps' keys are all fields
but the value. A name is a sequence of pieces (words and single other characters), which is all `escape_identifier`
tells apart, and `Escape` is that function. `pc = "internal"` stands for an `.at()` that finds nothing: the library's
exception, which only `main` catches.

| run | what it shows | bounds |
|---|---|---|
| layout_model | `OutcomeIsOrderFree`, `NoInternalError`, `HeadersMeanRequests` | 16 manifests: each collision, two sections for one type with equal and with different policies, both policies, named and extracted enumerators; records in every order, one missing, one said twice, one contradicted; debug information with nothing, with what is wanted, with two enumerators that collide; wrong hash, set or no debug information |

The manifests are chosen one for each test in `check_identifier_collisions` and each branch of the rendering; a
conflict or a missing record needs only one other record, so short lists are enough.
In the C header `HeadersMeanRequests` has the precondition `EdgesApart`: no escaped type ends in an underscore. Without it
`OFFSETOF` of a type `a_` and of a field `_x` of `a` have one name, which `check_identifier_collisions` does not see
since it compares types with types and the fields of one type with each other.

**Proved for all manifests, notes and debug information** (`LayoutModel_proofs`): `TypeCorrect`, `OrderFree`,
`NeverInternal`, `HeadersAreRight`. The assumptions are `InputsAreTwoLists` (records and entries are sequences of the
kinds that the note and the debug information have), `NamesAreTexts` (every name is a finite sequence of pieces) and
`UnderscoreIsNoWord` (the underscore is not a word of letters and digits); TLC evaluates them on the run. The invariant
`IInv` says that `model` is exactly what has been taken so far and that it is functional: with it, "no conflict was met"
turns into "the whole input is consistent" when the loop ends, in whatever order it ran. `NeverInternal` joins it with
`RenderInv`: what was validated section by section covers what is looked up after sections of a type are merged, because
sections that disagree on the policy are rejected first.

`HeadersAreRight` (`Spec => []HeadersMeanRequests`) is shown in five parts.

1. `Escape`, for a name of any length, gives a text of words and underscores, never empty, with no two underscores in a
   row (`EscapeIsEscaped`). `Escape` is written as a recursive function; that the recursion defines one
   (`EscapesExist`) and what it computes are shown by `NumberInduction`, which is itself derived from the theorem that
   proper inclusion of finite sets is well-founded.
2. Since a part has no two underscores in a row and, by `EdgesApart`, no type ends in one, the first two in a row behind
   the prefix separate the parts: from the macro one reads prefix, escaped type and escaped name (`TwoIsRead`,
   `OneIsRead`).
3. A run that ends well has passed `check_identifier_collisions`, so escaped names tell the names: a macro tells its
   request (`RequestIsRead`), across types, fields, bit-fields, constants and enums.
4. `Rendered` is one macro for each request, with the one entry that the Model has for it (`RenderedAreRequests`,
   `RequestIsRecorded`); `DoneInv` says that a run ends well with nothing else.
5. The declarations of the C++ header are those of the same requests (`DeclarationsAreRequests`), and a scope and a name
   tell the request (`NameIsRead`): an escaped name and a suffix end in different words for different suffixes, except
   for the three that end in `offset`, of which two differ two pieces earlier and the third is what `SuffixesApart` is
   about.

In the C++ header the names of one structure must differ, and a bit-field `x` declares `x_byte_offset` while a field
`x_byte` declares `x_byte_offset` too, which nothing checks; such a header does not compile. `SuffixesApart` is the
precondition that leaves that case out, and it is needed: without it TLC reports the two. That a type is not called
`constants` or `enums`, the names of the other structures of that header, is not asked and not modelled.

The text of the meta file is not modelled (which input it depends on is in `OutputSet`).

### RawStorage, OwningTypes, OwningTypes_proofs, Holders

`expected`, `optional`, `inplace_vector`, `unique_ptr`/`Box` and `BoxedSlice` place objects in raw storage, and a
discriminator (`m_has_value`, `m_has`, `m_size`, `m_ptr`) says what is alive. `RawStorage` has the steps: `Construct`
(placement new or assignment), `Throw` (the same, when the user's constructor throws; `unwind` is the `catch` block),
`Destroy`, `SetMark`, `Allocate`, `OutOfMemory`, `Release`. `OwningTypes` writes every method as the sequence of steps
the code makes, in its order: `Stage` is the local variable, destruction and move of `expected`, `Born` a constructor,
`Emplace` that of `optional`, `Undo` the loop that destroys the elements made when a later one throws, `Replace` and
`Dispose` the two ways to `reset` a pointer. `Call` puts the steps of a method into `todo`; `Return` ends it.

`Holders` is what callers see: a call changes what the owners hold at once, or fails and leaves what
`PRIMITIVES_SPEC.md` says (`Kept`: `expected` keeps its prior state, `optional` is left disengaged). `KeepsPromise`
refines it: between calls `held` is the contents that the discriminator names, during a call it is what was held
before; steps of a call stutter, `Call` is `Ask` and `Return` is `Answer`.

| run | what it shows | bounds |
|---|---|---|
| iro_core | `StepsAreLegal`, `EverythingOwnedOnce`, `KeepsPromise` | all sequences of calls on two owners of one type; three blocks, two values, at most two objects per owner |

**Proof** (`OwningTypes_proofs`). `TypeCorrect`, `NoStepIsIllegal`, `NothingIsLost` and `CallsKeepPromise` say `TypeOK`,
`StepsAreLegal`, `EverythingOwnedOnce` and `KeepsPromise` for any owners, blocks, values and `MaxCount`. The assumptions:
an owner has place for an object (`OwnersHoldSomething`; this leaves out `inplace_vector<T, 0>`, which never has an
element), owners, blocks, locals and `nullptr` are at different addresses (`PlacesAreDistinct`), and `None` is not
confused with a content or a call (`NoneIsNothing`).

None of them is inductive, for in the middle of a call discriminators lie and what is legal, or held, depends on the
steps still to come. The invariant `IInv` is about the steps left. `Goes(st, seq, failed, end)` says that `seq` leads
from `st` to `end`, that each step of it may be taken where it is taken (`MayDo`), and that wherever a step may throw the
steps of its `unwind`, which may not throw, lead to one of the states `failed` (`Safe`, `Unwinds`) although the operands
may have lost their values (`WithLoss`). `Runs` says there is such an end in a set of states. `IInv` is that between
calls the state is settled (`AllSettled`: discriminators tell the truth), and during a call what is left in `todo` runs
to a state that is `Due`: as long as nothing was thrown one in `OkEnds`, settled and with what Holders says is there
after the call, or if a step throws one in `FailEnds`, settled and with what Holders allows after a failure. A step, a
throw and a return keep this by what `Runs` is (`FirstStep`, `EndsSettle`). All the rest of the module is about `Call`:
for each method of each type, from any settled state, the steps that `OwningTypes` gives it run (`ExpectedRuns`,
`OptionalRuns`, `VectorRuns`, `UniquePtrRuns`, `BoxedSliceRuns`, joined in `StepsRun`). Sequences of steps are put
together by `GoOn`, as the code puts methods together: what `DoStage`, `DoBorn`, `DoEnds`, `DoReplace`, `DoDispose`,
`DoBuilds` (the loop of `make_boxed_slice`, with `UndoUndoes` for what its exception undoes) and `DoDelete` lead to is
stated once, of the values as well as of what is alive.

The refinement then follows from the same invariant. `held` of Holders is, during a call, what was held when it began,
and what a call promises depends only on that (`PromiseIsKept`). So `Call` is `Ask` (`CallAsks`), a step or a throw
stutters, and `Return`, which finds `todo` empty and therefore the state itself in `Due`, is `Answer`
(`ReturnAnswers`).

An owner that keeps objects in itself is settled when what lives in its places is what its discriminator says
(`SettledInPlace`). Owners of blocks need more, since a block changes hands: the owners, the caller, who has what
`release()` returned, and the call itself, which has what it is about to delete, are all `Keepers`, and a state is
settled when each block allocated has exactly one keeper whose discriminator says what lives in it (`SettledOnHeap`). A
move, a swap or `release` exchanges what two keepers have (`Exchange`). `reset` of a `unique_ptr` gives the old block to
the call before it deletes it (`DoReplace`); that of a `boxed_slice` deletes it while the pointer still names it
(`DoDispose`). Either way a keeper and its block go together (`PutAway`). What a block holds is left as it is when the
block changes hands (`EndsOnHeap`), so that what the owners hold afterwards is what their keepers exchanged.

Two owners are the most any method relates; two owners and a released pointer hold at most three blocks at once when one
is allocated for a third; two objects make a first and a last one, and an array constructor that fails after one
success. The state space needs no other bound. Owners and blocks are only compared, so symmetry over them is sound.
A trap stops the program, hence `CHECK_DEADLOCK FALSE`.

Not modelled: accessors, which change nothing; destructors that call back into their owner; arguments of
`optional::emplace` that refer to the object it holds (the caller must not, since it is destroyed first; the same call
on `expected`, which stages, is modelled as `emplace_self`); several types at once, which share no state.

### Format, MCIroCore

`Format` is fmt/ and io/log.hpp: `parse_format` at compile time (`ParsePlain`, `ParsePlaceholder`, `Refuse`, `Accept`),
the second scan of the same text at run time (`FormatText`, `FormatArgument`, `Terminate`), the bounded buffer (`Push`),
the formatters (`Formatted`) and the dots of `log()` (`Dots`). What a text means is stated apart from either scan: all
ways to spell it by literals, doubled braces and placeholders (`Readings`), and positional notation for numbers
(`Numeral`).

`OnlyWideDecimalsOverrun` describes what is there. The array `tmp` of `emit_unsigned` has two places per byte and one,
which is right for hexadecimal; a decimal from 10^9 on in four bytes, or of 18 and more digits in eight, has more digits
and is written past the end. The model goes to `"undefined"` there and says nothing of what follows; the property says
that nothing else gets there. No document promises otherwise, so this is listed as a hazard. A negative number in
hexadecimal is its two's complement at the widest type, as `EmitSigned` does it.

Bounds: all texts of up to four of the characters `{ } : x q` and some longer ones; a word of seven hexadecimal digits,
which like words of eight and sixteen has decimals longer than its array; arguments at the limits of each type; buffers
of 0, 1, 5 and 12 characters and a `log` buffer of seven, so that texts end before, at and behind the last place.

| run | what it shows | bounds |
|---|---|---|
| iro_core | `WritesWhatItSpells`, `OnlyWideDecimalsOverrun` | the texts, arguments and buffers above, no, one or two arguments |

The owning types and the format strings share the run `iro_core` (`MCIroCore`), as both are small and neither touches
the other's state.

### DwarfReader, DwarfProducer, MCDwarfReader

`DwarfReader` is dwarf_reader.cc. `ReadUnit`, `ReadDie`, `ReadNull`, `EndUnit` and `EndInfo` are the loops of
`parse_dwarf` over `.debug_info`; `AbbrevTable`, `AttrValue` and `Located` are the abbreviation table, `read_attr_value`
and the relocations. `Extract` then answers the requests one after another: `ResolveCType`, `FindMember`, `Descend` and
`ResolveBitfield` find the member a designator means, `FromDataBitOffset` and `FromBitOffset` turn the two encodings of
a bit-field into bits, `EnumValue` and the operators around it read enumerators. `Fatal` is the value of a computation
that calls `fatal()`, `None` is `std::nullopt`. `.debug_info` is a sequence of cells and an offset is the place of a
cell: LEB128 and the widths of forms are left out, sums that may wrap (`MaxWord`) are not.

`DwarfProducer` is the other side: a small C program (a structure `S` with a bit-field `b` behind nested, anonymous,
union and array members, a second `b` nobody asks for, an enum `E`), what a compiler writes for it, and `Means`, what C
says of it: the bit where `b` begins, its size and sign, the values of the enumerators. It is external: written from the
DWARF standard and from what the compilers of the time write, one record of habits per compiler. `MCDwarfReader` joins
the two.

| run | what it shows | bounds |
|---|---|---|
| dwarf | `NestingIsKept` (every entry has the level and the parent the compiler gave it, through several units, nulls and padding), `GeometryIsTheCompilers`, `EnumeratorsAreTheCompilers` (answers are what C says), `SupportedIsAnswered` (what can be answered is) | gcc with DWARF 2, 4 and 5, clang with DWARF 4; 13 nestings up to two deep, 10 shapes of storage units, all ways to ask, one and two units |
| dwarf_default | violated: `SupportedIsAnswered` for the DWARF 5 that present compilers write by default | the same programs, `gcc14` and `clang18` |

`MaxWord` 255 and indices up to 100 make sums of offsets reach the largest word and pass it. `MaxChain` 4 is shorter
than the code's limit (32) and longer than the typedef-and-const chain of the program, so both sides of the limit are
reached only from below; a chain beyond the limit would need a program that no compiler writes.

What is refused, and says so in `CanBeAnswered`: a bit-field whose DWARF 4 `bit_offset` is negative (packed fields that
straddle their storage unit), an enum-typed bit-field of clang (whose enums carry no encoding), an anonymous member the
manifest does not allow, an offset beyond a word. A refusal there is right or at least safe; a wrong number never is.
gcc does not describe types that nothing uses, so a probe has to mention them, which the producer assumes.

**Proof** (`DwarfReader_proofs`). `TreesAreKept` says `NestingIsKept` for every set of sources whose entries form trees.
What a tree is, `EntriesAreTrees` says without a stack: each cell has a level, one more after an entry with children,
one less after a null, and the parent of an entry is the last entry before it of the level above. The invariant
`StackIsPath` is what links the two: in a unit the stack is as high as the next cell is deep, and its element `i` is the
last entry of level `i - 1`; nothing that follows can disturb it but an entry of that level, which only comes after the
element is gone. The hypothesis is not empty: `MCDwarfReader` has TLC evaluate it for every program and compiler of the
runs (`CompiledAreTrees`). `ReaderStaysInSection` is `TypeOK`, for any object whose units lie one after the other
(`ObjectsHaveUnits`), be its entries a tree or not.

`SignsAreKept` says `EnumeratorsKeepSign`, the part of `EnumeratorsAreTheCompilers` that does not need to know the
source: an answer to a request for an enum is all named enumerators of one entry (`NamedIn`), which by `TreesAreKept` are
those that hang there in the tree, each with its constant as a word and with its sign (`AsWord`). The invariant
`EnumInv` says of every entry read that its constant fits, and that nothing is answered before all entries have been
read, so that an answer stays right. The hypothesis `ConstantsFit` is that raw values of constants are within the widths
the code reads them with; TLC evaluates it for every program and compiler (`CompiledConstantsFit`).

`EncodingsAgree` is about the operators alone: for a bit-field of any width, in a storage unit that holds it, at any
place of a structure that lies anywhere (`prefix`), `FromBitOffset` on what DWARF 4 says of it (`CountedFromEnd`, which
is what `BitOffset` of `DwarfProducer` computes) and `FromDataBitOffset` on what DWARF 5 says are the same number, or
both are refused; nothing wraps. What is left to TLC is which member a designator means and what `prefix` comes to:
`FindMember` recurses over the types of members, which for an arbitrary object need not end, and `Descend` is a fold.

`dwarf_default` is the one finding here. `iro.probe.mk:34` adds plain `-g`, which is DWARF 5 with gcc 11 and clang 14 or
later. gcc names the unit by `DW_FORM_line_strp` (0x1f), which `read_attr_value` does not know and refuses; clang names
everything by `DW_FORM_strx`, whose `.debug_str_offsets` has relocations of its own that are never applied, so that
every name is the string at offset 0.

### Manifest, MCManifest (manifest language)

`Manifest` is `parse_manifest` and `parse_manifest_file`. A file is a sequence of lines: a table header, a key with its
value, or an error of the lexer, which is all that is kept of strings, numbers and comments. `ReadHeader`, `ReadKey`
and `ReadUnknown` are one turn of the parser's loop with the whole of `set_value` (`Section`, `KeyTypes`, `Repeated`,
`WellTyped`, `Ensure`), `Validate` is everything after the loop. `given` are the values, `order` the order in which
`ensure_type`, `ensure_enum` and `ensure_constant` have made types, enums and constants.

Files have up to three blocks, each a header with the keys under it, in any order and with repetitions: a table opened
again, split in two, or after the option that forbids it. Three blocks are enough, since every rule relates at most
two mentions and an option.

What the properties say and the reader may not expect: in the top table, `target` and `options`, a key given twice is
not an error, and the last value counts; a constant whose expression is empty may be given again; a header alone makes
no type, an unknown key under it does. Designators are names of a small set with their components (`Designators`); the
characters they are parsed from are not modelled.

**Proved for every set of manifests** (`HostTools_proofs`, first part): `ManifestMeansWhatItSays`, `ForbiddenIsAlwaysRefused`,
`OrderIsNeverTheCause` and `ValuesOfTypesStay`. The only assumption (`FilesAssumption`) is that lines and table paths
are sequences of names, that keys are names, and that `None` is no path. The invariant restates what the parser has
recorded in terms of the lines before `pos`: `TableIsCurrent`, `GivenIsSaid` (every known key read is recorded, each
record is the last value given, and only global keys and constants without an expression were given before),
`UnknownIsSaid` and `OrderIsMentions` (the order is that of the first mentions). The properties are about complete
files, so that nothing of this can be read off them: they say nothing before `pc` is `accepted` or `rejected`. `Min` and
`Max` are `CHOOSE` expressions; the invariant names the line that is the first or last one, so that no induction over
the lines is needed.

`OrderIsNoCause` is stated without a second parse. `GoodLines` says that each line is good on its own (`GoodKey`: a
value of the right type, a designator that exists, an architecture that is known); `SaysTwice`, `SaysForbidden`,
`LeavesOut` and `MixesEnum` are the only things that two lines, or a line and none, can do wrong, each a set of lines in
which no order occurs. The proof goes through every refusal of the parser, those in the loop (`Overwritten`, `BadLine`,
`WellTyped`) and those of `Validate`, and finds its cause among the four. `ForbiddenIsRefused` uses the same
`SaysForbidden`, so that both together say that an option forbids the same wherever it stands.

### Depcheck (dependency check)

A depfile is written by the compiler (`DepfileText`, external: headers in the source tree, in the object tree or
elsewhere, spelled straight, through `./`, through a sibling directory and `..`, or with a slash too many) and read by
depcheck: `Tokens` is `parse_dep_tokens`, which joins lines (`Taken`) and undoes escapes (`Tokenized`) in one pass, with
the backslash that is held back until it is known whether a line ends behind it; `Stripped` the two prefixes cut off as
text, `Normalized` is `normalize_path`, `CheckPath` the rules. A text is a sequence of pieces, so that a name may begin like another one
(`include/asm-generic` and the prefix `include/asm`).

Two properties divide the promise. `EveryHeaderIsJudged` is about control and text: every header of every depfile, and
nothing else, is put to the prefixes, exactly the denied paths are reported, and there is a verdict only when every
depfile could be read. It says nothing of what a path means. `BoundaryIsKept` is about that: where a
header lies decides, not how its path is spelled. It holds for the trees that Kbuild passes: an object tree `.` and a source tree `.`, `..` or absolute. It does not hold for every pair of names: with an
absolute object tree inside the source tree (`/s` and `/s/out`), the source prefix is cut off first and the object
prefix is then not found, so that `/s/out/include/generated/asm/h` is checked as `out/include/generated/asm/h`; and a
name that begins with a dot loses it to the prefix `.`. Kbuild passes `.` for the object tree, and no header of the
kernel begins with a dot. An empty depfile passes, as `ReadDepfile` says.

**Proved for any number of depfiles and headers** (`HostTools_proofs`): `EveryHeaderIsAlwaysJudged`, for all prefixes,
trees and spellings. The only assumption (`UnitsAssumption`) is lexical: depfiles and headers come in an order, and a
path is not empty, is no lone colon and holds neither a backslash nor the end of a line (`IsSpelling`; compilers escape
blanks but not these two, so that such a name cannot be read back by anybody).

The lemma under it is `TextIsRead`: reading the text of a depfile gives the headers as they are spelled, wherever the
line is broken and however many blanks names have. It is shown by induction over a text (`ReadConcat`: a text is read
piece by piece) and over the list of headers. The invariant then says that `todo` is the end of the depfiles
(`TodoIsRest`), that those taken up could be read (`TakenAreRead`), that the headers of these and the first ones of the depfile at hand
are settled (`TakenAreSettled`, `RestIsLeft`: recorded if denied, and not garbled), and that nothing is recorded that is not the denied path
of a header (`RecordedIsDenied`). What `Path` makes of a spelling is not opened: the theorem holds for whatever
`Stripped` and `Normalized` do, and `BoundaryIsKept`, which depends on it, is model-checked.

### ApplyScript (overlay installer)

One action per command of `iro-apply.sh` that changes the kernel tree: the `tar` pipeline (the status of the first `tar`
is not seen), `grep`, `cp` in two steps, each `echo`, `scripts/config`, `make olddefconfig`. `Stop` is a signal, or a
command that fails under `set -e`, anywhere. Between runs the tree is checked out in another version, cleaned or
restored from its backups.

`HookedOnce` is the installer's promise. It does not include that a backup is whole or of the present kernel: it is made
once, so one that a signal cut short stays (`FillBackup` is never run again), and after an upgrade of the kernel it is
the older kernel's file.

**Proved for any versions and any number of stops and chores** (`HostTools_proofs`): `AlwaysHookedOnce`. The invariant
adds what a run knows at each command (`ScriptKnows`): from `grep` to the `echo` of the hook the file at hand has no
hook, when the script turns to `Kconfig` the `Makefile` has one, at the end both have. It holds although a stopped run
may have left a marker, half a block or an unfilled backup, because `grep` looks for the hook line itself.

| run | what it shows | bounds |
|---|---|---|
| host_tools | `MeansWhatItSays`, `ForbiddenIsRefused`, `OrderIsNoCause`, `NeverReplaced` (manifest); `BoundaryIsKept`, `EveryHeaderIsJudged` (depcheck); `HookedOnce` (installer) | manifests of three blocks out of 17 good ones, two with a bad one; units of two headers out of 34, in one or two depfiles, three source trees; two kernel versions, two stopped runs, two chores between runs |

The three share a run because each is small and they share nothing else: `HostTools` starts a behaviour in one of them
and leaves the variables of the others alone, `MCHostTools` gives the values. The theorems about depcheck and the script
are theorems of this specification.

## 3. What is proved and what is model-checked

| Component | Proved for all constants | Model-checked only |
|---|---|---|
| Output emission | types, whole outputs, success means current, verification accepts, unchanged files kept, refinement of `OutputSet` | - |
| Probe pipeline | types; fresh builds, hashes agree, exact verification, no-op rebuilds (inputs edited between builds); labels of quiet builds (outputs not edited by hand; layout and names unless the object was overtaken) | `Converges` |
| Note reader | types, reads in bounds, alignment, records backed by bytes | `Ends` |
| Note writer | `RoundTrip`, `WrittenIsAccepted`, within the reader's limits | - |
| Layout model | types, order freedom, no internal error, `HeadersMeanRequests` | - |
| DWARF reader | types, nesting of any trees, `EnumeratorsKeepSign`, both encodings of a bit-field agree | the rest of `GeometryIsTheCompilers` and `EnumeratorsAreTheCompilers` (which member, which enum), `SupportedIsAnswered` |
| Manifest language | `MeansWhatItSays`, `ForbiddenIsRefused`, `OrderIsNoCause`, `NeverReplaced` | - |
| Dependency check | `EveryHeaderIsJudged`, from the texts of the depfiles on | `BoundaryIsKept` (which spellings come to the same path) |
| Overlay installer | `HookedOnce` | - |
| Owning types | types, legality of steps, ownership, refinement of `Holders` | - |
| Formatting and logging | - | `WritesWhatItSpells`, `OnlyWideDecimalsOverrun` |

Liveness under fairness (`Ends`, `Converges`) is out of reach of the proof system and stays with TLC. What a recursion
over data computes is proved where it is written as a recursive function, by `NumberInduction` (`LayoutModel_proofs`,
`ProbeNote_proofs`) or by a least number where it fails (`LeastNumber` of `HostTools_proofs`); the definitions that are
folds of the community modules (`Normalized`, `FindMember`, `EmitUnsigned`) cannot be reasoned about in that way, since a
fold takes an operator as a parameter. `WritesWhatItSpells` and `OnlyWideDecimalsOverrun` are about the computation
itself: digits of numbers, where the provers know nothing of powers.

## 4. Plan

Every component that keeps state has its module. What is left:

1. The rest of `GeometryIsTheCompilers`: the walk over the types of members (`FindMember`, `ResolveType`) under the
   hypothesis that types do not contain themselves, and induction over their depth as for `Escape`; the chain of a
   designator as a recursive function instead of a fold.

## 5. Not modelled

* **SHA-256 and UTF-8 helpers.** Pure functions of bytes with a self test (`verify_sha256_implementation`) that every
  tool runs first. What the system needs of the hash is that it depends on all inputs, which `ProbePipeline` models.
* **Host tool build rules.** Compiler flags; their state is the time stamp of the tools, `RebuildTools` of
  `ProbePipeline`.
* **The make rule of the dependency check** (`iro.depcheck.mk`). It redefines `rule_cc_o_cxx`, which is not in the
  repository; whether a refused object is compiled again is up to make's removal of targets whose recipe failed.
* **Views and arrays** (`span`, `array`, `string_view`), **error codes and errptr**, **shadow types.** Conversions and
  compile-time comparisons without state of their own.
* **Integration test harness.** A specification of tests; no program.
