# SwiftFIX in TLA+

SwiftFIX finds the field boundaries of a FIX message before QuickFIX parses it. A
*scanner* turns a byte buffer into a *field index*; a *session shim* hands the index
to a patched QuickFIX, or falls back to QuickFIX's own parser.  This directory models
the scanners and the code around them, model-checks them with TLC on small instances
and proves facts about them with TLAPS for every instance.

Paths below are relative to the repository.

## 1. The system

| Component | Code | State | Operations | Modelled by |
|---|---|---|---|---|
| Scalar scanner | `preparser/src/scanner_scalar.cpp` | none between calls; in a call the cursor, one 32-bit accumulator, the end of the declared body | `scan`, `scan_one_field` | `FixHeader`, `ScalarScanner` |
| AVX2 scanner | `preparser/src/scanner_avx2.cpp` | the same, and on the stack the vector mask and an array of at most `kMaxFields` `<SOH>` offsets | `scan` (pass 1, pass 2) | `FixHeader`, `Avx2Scanner` |
| Field index, status | `preparser/include/swiftfix/{field_index,status}.hpp` | four slots, two lengths, a count and a table of `kMaxFields` entries that the *caller* owns and reuses | `reset`, the stores into it | `FixFrame` |
| Scanner interface | `preparser/include/swiftfix/scanner.hpp` | - | the promise of `scan` | `ScannerContract`, `RetryingCaller` |
| Equivalence tests | `preparser/tests/test_scanner_corpus.cpp` | two indices; position in the stream | both scanners on one buffer, compared; the same on every frame of a stream | `ScannerPair`, `StreamSplit` |
| Stream splitter | `bench/src/harness.cpp` | position in the stream, message count, one index | `run_swiftfix_split` | `StreamSplit` |
| Bench harness, replay | `bench/src/{harness,replay,main}.cpp` | per process the registered benchmarks and the corpus, cached in a function-local static; per repetition the counters | `register_benchmarks`, the four benchmarks, `load_corpus`, `load_stream` | `BenchHarness` |
| Corpus generator | `corpus/generate.py` | the stream file | `render`, `write_bulk` | `StreamSplit` (`Render`, `RenderAll`), `BenchHarness` (`Open`, `Write`, `EndWrite`) |
| Dispatch | `preparser/src/dispatch.cpp`, the instances at the end of both scanners | three function-local statics, each with the guard the compiler gives it | `default_scanner`, `scanner_for`, the CPU probe | `Dispatch` |
| Session shim | `integration/shim/` | per session: index, scratch array, statistics; one global atomic flag | `parse_into`, `set_preparse_enabled`, `reset_stats` | `SessionShim`, `ParseService` |
| QuickFIX patch | `integration/patches/0001-*.patch` | the header, body and trailer of a `FIX::Message` | `setFromPreScan` | `PreScanMessage` |
| Patch application | `integration/patches/apply.sh` | the files of the QuickFIX tree | the script's loop, `git apply` | `PatchSeries` |
| Other scripts, build files | `scripts/`, `CMakeLists.txt` | - | build steps | not modelled |

How they meet: a caller owns a buffer and a `FieldIndex` and calls `Scanner::scan`.
The index holds offsets into the buffer, is reused for the next call, and is reset but
not cleared.  `Truncated` tells the caller to come back with more bytes; `Ok` and
`frame_length` tell it where the next frame starts. `SessionShim` takes the same route
for one frame and falls back to `FIX::Message::setString` on any other verdict.

What is hard here:

* *Arithmetic at a boundary.* Two accumulators of 32 bits with a guard of their own,
  32-bit offsets, a fixed table checked at two places per scanner, and pointer
  comparisons against an end that the input itself declares.
* *Two implementations of one grammar.* One parses forwards, the other finds all the
  `<SOH>`s first; verdicts may drift apart.
* *Reuse.* One index and one scratch array serve every call: what an earlier frame
  left must never show.
* *Sequences of calls.* A retrying caller relies on verdicts that later bytes do not
  change; the splitter relies on `frame_length`.
* *Progress.* Nested loops, each of which must advance, and a caller that waits for
  bytes as long as the answer is `Truncated`.
* *Threads* only in dispatch (a magic static) and in the shim's flag.
* *Files that outlive a process.* The patch script works again and again on a tree
  that a killed run may have left half-patched; the benchmark looks at a stream file
  twice while the generator may be rewriting it, or may have died over it.

`PROJECT.json` lists each hazard at its line with the properties that cover it.

## 2. The model

### Bytes

The scanners tell apart the ten digits, `=`, `<SOH>` and everything else, so a byte is
one of thirteen values (`FixFrame!Byte`).  A buffer is a sequence of them, and every
offset is zero-based as in the code.  `std::uint32_t` is `0 .. UINT32_MAX` with a
constant maximum; sums and casts wrap (`U32`, `Accumulate`).

### Modules

* **`FixFrame`**: the data. `FieldEntry`, `FieldIndex`, `Reset`, the stores
  (`PushBeginString`, ...), the accumulator and its guard `Saturated`; and the meaning
  of an index, written without reference to how it is computed: `DelimitsFrame` (the
  live fields tile the frame, each is well formed, order and slots are right, the
  declared length is the measured one, the checksum has three digits) and
  `ExactIndex`, which adds that the numbers are those in the digits.
* **`FixHeader`**: the code both scanners have word for word (the call itself, tags 8,
  9 and 35, the length check).  `pc` names the next statement.  Each round of a digit
  loop is an action, because it can fail and carries the accumulator; the loop that
  skips to the next `<SOH>` can do neither and is one step with its stop (`StopsAt`).
  An early return is `Return(verdict)`.  It also says how an answer compares with the
  reference's frames, for the bytes at hand (`AcceptsExactly`) and for the bytes that
  may still come (`Continues`, `AnswersFor`), and it holds the refinement mapping
  `Contract`.
* **`ScalarScanner`**: the body loop, `scan_one_field` and the trailer.  Its frames
  are all frames of the reference (`AcceptsExactlyFrames`, `FramesAreAwaited`).
* **`Avx2Scanner`**: pass 1 (`LoadLane`, `TakeLowestBit`, `NextLane`, `TailByte`,
  `EndPass1`) and pass 2 (`NextField`, `TagDigit`, `TagEnd`, `CheckTrailer`), with
  `Lane` bytes to a vector.  The scalar `p` stands for the code's `tp` and
  `field_start_off`, which are never live at once.  Its frames are those whose trailer
  is spelled `10=` (`PlainTrailer`).
* **`ScannerContract`**: the abstract specification of `scan`: a call is entered and
  ends in one verdict; with `Ok` there is an exact index to read, otherwise none. Both
  scanners implement it (`ImplementsContract`), through a refinement mapping that
  shows of `out` only what `scanner.hpp` lets a caller read.
* **`FrameReference`**: a second, independent definition of a frame (cut at the
  `<SOH>`s, split at the first `=`), against which acceptance is compared.  The list
  of the `<SOH>`s is a filter written as a recursive function (`ElementsAt`), which
  can be proved about.
* **`RetryingCaller`**: the callers of `scan`, with one index for all calls.  One
  offers a growing prefix of a stream (`Offer`), as `status.hpp` describes; one has
  whole buffers and passes them in any order (`Hand`).  **`ScalarCaller`** and
  **`Avx2Caller`** compose it with a scanner.
* **`ScannerPair`**: the scalar and the AVX2 scanner as two instances side by side,
  and the comparison of the tests (`Compare`, `EndCompare`).
* **`StreamSplit`**: the two loops that cut a stream by calling `scan` on what is left
  of it: the benchmark's, which is given either scanner and keeps one index for all
  passes, and the test's, which compares both on every frame and, in the model, stops
  at a difference that the code only reports (`EXPECT_EQ`).  Streams are built by
  `render` out of messages, which are sequences of a tag and a value (`Template`);
  the digits of a tag and of a body length are written out (`Decimals`).  The test is
  also given other bytes.
* **`BenchHarness`**: the benchmark process around that loop.  A corpus is a file of
  frames, perhaps with a torn one at the end, or a directory; a frame is only what a
  benchmark may give up on (`FrameKind`).  The generator may rewrite the file at any
  moment (`Open` truncates, `Write` flushes up to any byte, `EndWrite` closes or is
  the kill).  A process registers, loads on first use, runs repetition after
  repetition and reports.  A file is read in one step, though `replay.cpp` reads it in
  chunks: a mix of old and new content is not covered.  QuickFIX's split loop never
  gives up here; that `harness.cpp:112` would skip the benchmark if `readFixMessage`
  threw is left out, as what makes it throw is QuickFIX's own affair.
* **`PatchSeries`**: `apply.sh` on a tree whose files hold upstream's text or a
  version of their patch.  `git apply` is external: it removes the files of a patch,
  then writes them in the patch's order, each in one step, and may be killed between
  any two.  Nothing else touches the tree but a reset of all of it; patches are edited
  between runs.
* **`Dispatch`**: `default_scanner` and `scanner_for` as threads run them.  A
  function-local static is a guard (`unset`, `running`, `set`): the first thread to
  reach it initialises it, the others wait.  `chosen` is such a static, and its
  initialiser calls a function with a static of its own.  Whether AVX2 was compiled in
  and whether the CPU has it are chosen in `Init`.
* **`PreScanMessage`**: a `FIX::Message` as the patch fills it, one field after the
  other (`AppendField`), and as stock QuickFIX fills it, defined without a loop
  (`Parsed`, of the fields `Gathered` into sections).  The patch is in the repository;
  QuickFIX is not, so what the patch relies on of it is external in the map.
* **`SessionShim`**: `parse_into`, one action per statement that another session's
  thread or an exception can come between.  A scanner is what the scanners' theorems
  say of it (`Scan`): it delivers the index of the frame that the buffer begins with,
  and refuses everything else; only a trailer not spelled `10=` is left open, for
  there the two scanners differ.  This is exact up to `UINT32_MAX` bytes, which
  `ShimAssumption` asks of the buffers.  What a refusing scanner leaves in the index is
  left out, since nobody reads it.  Memory runs out and comes back at any moment
  (`exhausted`, `HeapChanges`).  While it is out, each round of `setFromPreScan`, which
  allocates, may throw, and stock QuickFIX may throw before or after it has cleared the
  message.
* **`ParseService`**: the abstract specification of `parse_into`.  A call consults the
  flag (`Consult`).  Off: the answer is stock QuickFIX's for the whole buffer, a message
  or `false`.  On: it is the message of the frame the buffer begins with if there is one
  without a group (`Find`, `AnswerFrame`), unless memory runs out (`Forgo`); otherwise,
  again, the one for the whole buffer.  So a frame with more bytes behind it is answered
  for the frame alone with the flag on, and for all the bytes, which QuickFIX may
  refuse, with the flag off.  The service has no index, no scratch array, no statistics
  and no half-filled message, and its parsers are single steps.  `SessionShim`
  implements it.
* **`FrameSamples`**, **`MC*`**: sample streams and the instances for TLC.
* **`FixFrame_proofs`, `FixHeader_proofs`, `ScalarScanner_proofs`,
  `Avx2Scanner_proofs`, `SessionShim_proofs`, `Bench_proofs`, `Dispatch_proofs`,
  `PatchSeries_proofs`**: the theorems.  Both scanners' modules extend
  `FixHeader_proofs`, which is about the header and its caller and extends
  `FixFrame_proofs`; so does the shim's.  `Bench_proofs` is about `BenchHarness` and
  about `StreamSplit`; it takes the two scanners' modules as instances, for
  `StreamSplit` has both scanners at once.

A definition whose name says that something is late, early, in place or any is the
same definition with a plausible bug (`SaturatedLate` beside `Saturated`); the
`mutants` of `PROJECT.json` name the property that detects it.

## 3. What TLC checks

The scanner runs use `UINT32_MAX = 127`, so that three digits overflow (119 is the
largest number an accumulator takes, 120 the first it refuses, and 128 would wrap),
and `kMaxFields = 6`, so that a table fills in the body, at the trailer or not at all.
`Lane` is 4: frames of 24 to 35 bytes then have up to seven vectors and a tail of zero
to three bytes, and a `<SOH>` falls on every position of a lane.

| Run | Question | Shows |
|---|---|---|
| `scalar` | every prefix of each sample stream in order, and unlike buffers in any order, all with one index | types, soundness of `Ok`, final verdicts, exactly the reference's frames accepted as soon as they are whole, no wrap-around, the contract, each call returns |
| `avx2` | the same for AVX2 | the same, and pass 1 collects every `<SOH>` in order and loads nothing past the buffer; a frame is awaited while it arrives (`StreamIsAwaited`) |
| `stream_split` | up to three messages in a row, either scanner or both; both on all sample buffers | cuts fall between messages, tags and values are recovered, the loop gives up only on what is left to QuickFIX, and ends; where the scanners agree, and that AVX2 never answers `Truncated` when scalar has a verdict |
| `dispatch` | three threads, both builds, both CPUs | one constructed scanner for all, none beyond the CPU, no static initialised twice, nobody waits for ever |
| `session_shim` | one session, any two calls on six unlike buffers between resets, the flag switched and memory exhausted at any moment | the statistics add up at every moment; `true` means the message is that of the bytes; no pointer into an earlier buffer; the whole implements `ParseService`, so that nothing but the flag as read, the buffer and the heap decides the answer; every call returns |
| `patch_series` | two patches, three versions of each, any history of runs, kills, resets and edits | exit code 0 means that every patch is whole; a patched file is never touched |
| `bench_harness` | every corpus of up to two frames, two rewrites, two repetitions of two iterations | one corpus for all benchmarks of a process; reported items were processed; no scanner reports a torn stream; a rewrite kills no process; every process ends |
| `pair_equivalence`, `offset_cap`, `truncated_in_progress`, `group_counter`, `edited_patch` | a sentence of a test or comment each | the sentence does not hold of the code (section 5) |

The samples (`FrameSamples`) combine six good fields and eight fields wrong in one way
each, seven trailers, body lengths off by -2 to +1, and header variants: one instance
of each branch of the code in every position where it can be reached.  The byte
classes make the buffers of an unbounded alphabet finite; longer bodies repeat the
same loop round, which the proofs cover for every length.

`dispatch` has three threads because the property is about one that initialises, one
that waits and one that comes later.  `session_shim` uses `UINT32_MAX = 255` and
`kMaxFields = 6`; its buffers are a frame with a tag above `INT_MAX` and a header field
behind it, a frame with a body field behind a trailer field and more bytes at the end,
a frame with a group, one with the trailer `010=`, one with a wrong length, and
garbage.  So every path is taken and follows every other one in the reused index,
scratch array and message.  `MaxCalls = 2` bounds the counters between two resets; the
session's other state is carried over any number of resets.  There is one session in
the run, so it says nothing of several; the theorems of section 4 do, for any number.
What one session could see of another is the flag and the heap, which change at any
moment in the run too.

`patch_series` has the patch of the repository, with its three files in order, and a
second one of two files, so that a run can die before, in and after each; three
versions let a patch be edited before and after it was applied.  In `bench_harness`
two repetitions, two iterations and two rewrites are the least that let a count or a
corpus differ between two of them; one frame of each kind in front of or behind
another covers what ends a loop.

`CHECK_DEADLOCK FALSE` stands where a run really ends: a stream that has been
delivered, a comparison made, a pass completed.

### Fairness

`scan` is straight-line code of one thread that neither blocks nor waits; once entered
it is only a matter of being scheduled.  So `ScanStep` is weakly fair, and the caller
is not: nobody has to call.  `StreamSplit` and a started benchmark process are weakly
fair for the same reason; starting, killing and writing are not fair.  `PatchSeries`
has no fairness, for it has no liveness property: the script is a loop over a list of
files.  In `Dispatch` each thread is weakly fair once it
is inside a function: it waits only for a static that another thread is initialising,
and that thread waits for nothing of its waiters.  In `SessionShim` each session has a
thread of its own and `parse_into` never blocks; switching the flag, the heap,
resetting and calling are not fair.  No property assumes that bytes arrive.

## 4. What is proved

Every theorem holds for all buffers, integer widths, table sizes, lane widths,
sessions, threads, patches and corpora that the named assumptions of the modules
admit.  Theorems about offsets have one hypothesis more: no buffer is longer than
`UINT32_MAX`.  Without it they are false (run `offset_cap`), and the code leaves it to
its callers.  The theorems about the splitter have the same hypothesis for the streams
it is given (`StreamsFit`), which the instances of the runs meet.

### The scanners

`FixFrame_proofs` has the lemmas about the data, `FixHeader_proofs` carries them
through the shared header, and the two scanners' modules cite both.  For the scalar
and for the AVX2 scanner:

* **`TypeCorrect`** (`[]TypeOK`), and **`LoadsAreInBounds`**: no vector load passes
  the end of the buffer.  `TypeOK` is not inductive, for the table's bound needs to
  know how many fields each place in the code has stored.  `TypeInv` adds that count,
  that a body field is read only when the table has room, and the order of the cursors
  (`Inside` for the two passes).
* **`NumbersNeverWrap`**: an accepted digit always yields the number written so far.
* **`OkIsSound`** (scalar), **`PassOneIsComplete`** (AVX2),
  **`ScalarImplementsContract`**, **`Avx2ImplementsContract`**: with `Ok` the index
  delimits a frame and its numbers are those in the digits, so either scanner refines
  `ScannerContract`.  `OkDelimitsFrame` and the contract speak only of a finished
  call.  `SoundInv` says what a running call has established, by place: `Stored` (the
  fields so far tile the buffer up to the cursor, are well formed, in the right slots
  and carry the number of their digits, `NumberRead`), `BodyReached`, `ReadingTag`,
  `ReadingValue`; in AVX2 also `Collected` (pass 1 has listed the `<SOH>`s it has gone
  past, a lane's taken bits included) and `Parsed` (pass 2 stands behind the i-th of
  them).
* **`AcceptsTheFrames`** (`[]AcceptsExactlyFrames`): a scanner accepts a buffer if and
  only if it begins with a frame of the independent definition, and with that
  definition's index. AVX2 does so for the frames whose trailer is spelled `10=`.
* **`AwaitsTheFrames`** (`[]FramesAreAwaited(Seq(Byte))`): the same for a frame of
  which only some bytes have arrived: whatever the rest will be, the answer is
  `Truncated` until the frame is whole.  So a caller that gives up on any other
  verdict gives up no frame.
* **`AwaitsTheStream`** (`[]StreamIsAwaited`): AVX2 with its caller, whose stream is one
  of those.
* **`VerdictsAreFinal`** (`[]VerdictStands`), of the scanner composed with its caller:
  any verdict but `Truncated` is the verdict on every longer prefix of the stream, and
  an `Ok` comes with the same index.

That acceptance implies a frame follows from `SoundInv`: the accepted index is what
the reference cuts out of the buffer (`ReadableIsFrame`), because the ends of its
fields are exactly the first `<SOH>`s and the tags hold no `=` (`LeadingSohs`,
`FirstEquals`).  The converse needs the call to be followed through the frame it is
about to find.  `Ahead(x, o)` says that `x` continues the buffer and begins with the
frame `o`, which may hold raw data or more fields than the table (`Whole`; the frames
`Deferred` to QuickFIX); `Follows(o)` says of each place that the call stands where a
field of `o` begins, or inside its tag or value, and has stored what `o` has.
`CompleteInv` is `Follows(o)` for all such `x` and `o`, and is inductive: a digit finds
room because the frame's number is representable, a field finds room or the frame is
`Deferred`, and the end of the buffer is met only inside a frame that is not yet whole,
where the answer is `Truncated`.  At the end the verdict is `Settled`: `Ok` for a frame
that fits, `FallbackRequested` or `TableFull` for a deferred one, and never another.
`FrameIsUnique` (a buffer begins with at most one frame, and so do two buffers that
agree on it) turns this into equality with the reference.  In AVX2 the trailer is looked for before the fields are read, and not at
all in a buffer that is too short; `ArrivedWhole` says that past the header's length
check the whole frame is there.

`VerdictStands` compares two calls, and no invariant of one call implies it.  The
argument is that `scan` is deterministic: what a statement does to the locals
(`Locals`, `AllLocals`) is a relation on the buffer and the locals, `Moves`, whatever
the reused index holds (`StepMoves`).  `RunInv` keeps the set of the locals that the
running call has gone through; after a verdict, `PriorInv` says that the current call
is at one of those of the call before.  `Lockstep` is the step: a statement that did
not run out of bytes when fewer had arrived does the same now.  It holds in the header
because each statement asks for more before it looks past what there is, and in the
passes of AVX2 because the header's length check has established that the earlier
buffer held the whole frame (`WithinReach`).

### The session shim

* **`StatisticsAddUp`** and **`NoStalePointer`**, as in section 3: the equations are
  inductive with the counters' types; an index a scanner delivered fits the array, and
  what lies below its count is what the last translation wrote.
* **`FastPathParsesAsQuickFix`** (`[]TrueMeansParsed`).  `AnswerInv` says that after
  `k` rounds of `setFromPreScan` the message is `Gathered` of the first `k` fields
  handed over, where `Gathered` is defined without a loop (which section each field
  belongs to, the first field out of place); `AppendGathers` is the step of that
  argument, and `FrameExtracts` says that QuickFIX's `extractField` cuts the same
  fields off a frame as an exact index names.
* **`ShimImplementsService`**: `parse_into` refines `ParseService`, each step being a
  step of it or a stutter, for any number of sessions.  The mapping (`Phase`) puts a
  call into the service's `whole` as soon as it is bound for stock QuickFIX, and the
  cases that matter are that it gets there from the fast path only for a buffer that
  not every scanner takes, for a group, or while memory is out, and that the message of
  a fast path that failed is not part of any answer.

### The benchmark

`Bench_proofs`, of the harness: **`TypeCorrect`**, **`ReportsAreComparable`**
(`SameMessages`), **`ItemsAreHonest`**, **`WholeStreams`**.  `Inv` adds to the types that nothing is
counted or reported before the corpus is cached (`CacheInv`), what the running
counters count (`CountersInv`: the iterations done times the messages of the corpus,
plus those of this one) and that each report is of the corpus that is cached
(`ReportsInv`). **`RewritingIsHarmless`** has an invariant of its own, `QueueInv`: a
benchmark of the stream waits only where there is a stream to load.

### The stream splitter and the pair of scanners

`Bench_proofs`, of the loops, for any messages and any passes:

* **`CutsAtMessages`** (`CutsBetweenMessages`): a cut falls where a message ends, and a
  pass that is over has counted them all.
* **`ReadsTheMessages`** (`IndexNamesMessage`): tags and values come back as they were
  rendered, in order.
* **`GivesUpOnFallbackOnly`** (`GivesUpOnlyOnFallback`): the loop's error is about a
  message with raw data or with too many fields.
* **`ScannersAgree`** (`AgreeOnAcceptance`) and **`NeverWaitsAlone`**
  (`Avx2NeverWaitsAlone`): the comparison of the tests, on any buffers.

The argument has three parts.

*Rendering.*  `Layout(m)` is the index that a message ought to get: field `k` stands
where the rendered fields before it end (`Offset`, `StartsAre`), and its entry is read
off the lengths of its digits and its value.  `LayoutWhole` says that this is a frame
of the rendered bytes: the digits written for a tag say that tag (`DecimalsSay`), the
declared length is the measured one because the body keeps its length inside the
envelope (`StartsShift`), and no value holds an `<SOH>`.  `RestBegins` carries this to
the middle of a stream: what is left of it at a message's offset begins with that
message.  Nothing here mentions a scanner.

*The scanners.*  `ScannerPair` has its scanners as instances with variables of their
own.  `Bench_proofs` instantiates `ScalarScanner_proofs` and `Avx2Scanner_proofs` in
the same way (`S`, `A`) and shows the actions to be the same (`ScalarIsScalar`,
`Avx2IsAvx2`).  Each of those modules ends with `ScanInv`, the conjunction of its
invariants, which any call of any buffer preserves and in which no caller occurs; what
it says of a call that has returned is `ScanAnswers`.  A buffer begins with at most one
frame, so where both scanners have accepted, both have the index of that frame; and
where one has, the other has met the same frame (`PairAgrees`).  The exception is a
trailer that is not spelled `10=`, which only the scalar scanner reads.  For
`Avx2NeverWaitsAlone` the two calls are compared statement by statement: AVX2 asks for
more bytes in the header only (`OnlyHeaderWaits`), the header is one code in both, and
`WaitInv` says that AVX2, which runs second, is there at one of the places the scalar
call has gone through, at none of which it stopped for lack of bytes.

*The loop.*  `SplitInv` is the invariant: the scanners' own (`PairInv`), the stream is
the rendered one (`StreamOK`), and the position is the sum of the lengths of the
messages counted (`LoopInv`, whose clauses also say that the scanners look at what is
left of the stream from there, and how the loop came to stand where it does).  The step
that needs all of it is `TakeFrameKeeps`: the index that was accepted is the layout of
the next message (`FrameIsMessage`), so its `frame_length` leads to the message after
it.  TLC has evaluated `LoopInv` on the instance of `stream_split`.

### Dispatch and patches

`Dispatch_proofs` proves for any number of threads that all get one constructed
scanner (**`OneScannerForAll`**) and that a static stays once it is set
(**`StaticsStay`**).  The properties speak of answers; the invariant adds who is
inside an initialiser (`OneInitialiser`: the guard says `running` and there is one
such thread) and that an answer was cached before it was handed out (`HandedOut`). It
also proves that neither function hands out AVX2 beyond the CPU
(**`ScannerSuitsCpu`**: what is wanted, cached or handed out was probed first).

`PatchSeries_proofs` proves for any series of patches that success means a patched
tree (**`SuccessMeansPatched`**) and that a run leaves patched files alone
(**`RunsKeepPatches`**).  The property speaks of the end of a run; the invariant adds
that the files `git apply` has not yet written do not carry the patch (`HalfApplied`),
that what the loop has passed is patched (`LoopInv`), and the reason why the grep in
`apply.sh` is right at all: the marker's file is the last one that patch 0001 writes,
so whoever finds the marker finds the whole patch (`MarkerTells`).  `MarkerAssumption`
states that order of the patch's files.

### How recursion is dealt with

`Decimal`, `SohOffsets`, `Gathered`, `Decimals` and the concatenations of `render`
(`FlattenSeq`) are about sequences or numbers of any size.  The
library's induction theorems take an operator, which no installed prover instantiates;
`FixFrame_proofs` derives a first-order principle instead, from the well-foundedness
of the naturals (`LeastNatural`; `Induction`: a set that holds 0 and, with each
natural, the next, holds them all). A recursive function is then shown to exist and to
be unique as a function that satisfies its equation (`ValueExists`, `ValueUnique`;
`ListingExists`, `ListingsAgree`; `FlatExists`, `FlatsAgree`; `WritingExists`), and only those facts are used of it.

### What the proofs changed in the model

The reference once took any bytes that add up to the right number for a body length.
No scanner accepts a letter there; completeness failed on it, and the reference now
asks for a `Numeral`.  In `PreScanMessage`, a field out of place whose tag is 0 leaves
no mark, for 0 is what an unmarked message holds; `Parsed` once made it one.

Completeness was once stated of the frames that fit the table and hold no raw data, and
could then not say what a scanner answers to the others.  The splitter gives up on just
those, so the argument now covers every frame and tells the `Deferred` ones apart at
its end.  The messages of `StreamSplit` were once rendered with digits already spelled;
a tag is a number now, as in `render`, and `Decimals` writes it.

### Only model-checked

Liveness (`EveryCallReturns`, `EveryPassEnds`, `EveryProcessEnds`), which is outside
TLAPS.  Every other property of a passing run is a theorem.

## 5. Disagreements between code and text

* `pair_equivalence`: `test_scanner_corpus.cpp:66` asserts equal verdicts; a trailer
  spelled `010=` is `Ok` for scalar and `BadBodyLength` for AVX2, which looks for its
  `<SOH>` in the seven bytes behind the body and finds none (`scanner_avx2.cpp:127`).
* `offset_cap`: `field_index.hpp:13` speaks of a cap of 4 GiB per message; nothing
  enforces it.  The band is narrow: the frame's end must lie beyond 2^32 and the value
  of its trailer start below.  In a longer frame `value_start` wraps as well, and the
  digits of the CheckSum are read at the wrapped place (`scanner_scalar.cpp:110`), where
  the samples have no digits: `Malformed`.  `TrailerVerdict` reads the stored, wrapped
  offsets as the code does.
* `truncated_in_progress`: `status.hpp:15` says when the answer is `Truncated`; the
  scalar scanner also gives it when a field runs over the declared end of the body.
* `group_counter`: the patch asks its callers to keep repeating groups from it; the
  shim's list of counters has 135 where its comment says NoMiscFees, which is 136.
* `edited_patch`: `CMakeLists.txt:65` says that editing a patch and re-configuring
  picks up the new version; `apply.sh` skips an edited patch 0001 on a tree that has
  the old one, and succeeds.

Four more are plain to see and have no run.  `generate.py:410` builds the frames in
memory "so a partial write can't leave a torn file"; the file is still truncated and
then written through a buffer, and `BenchHarness` relies on the torn file being
possible (no scanner reports one, `ScannersReportWholeStreams`; QuickFIX's own loop
does). `bench.sh:54` takes an empty list of benchmarks for a wrong corpus path;
`register_benchmarks` never registers none (`Registered`), it takes a missing path for
a directory.  `status.hpp:22` gives an input without `8=` as an example of
`Malformed`; the code answers `BadHeader`.  `scanner.hpp:48` and `dispatch.cpp:5` say
that `scanner_for` does not depend on the CPU; it asks the probe before it returns the
AVX2 scanner (`CallFor`).

## 6. Not modelled, and what is left

QuickFIX is a submodule; only its use by the shim, the patch and the benchmarks can be
modelled.  The other scripts and the build files run commands in order and keep no
state.

In the shim and the patch: validation and data dictionaries, which the shim never
passes; how stock QuickFIX converts a tag that does not fit an `int`, which its own
code decides (`Extracted` assumes the conversion of the shim, so the runs show that
the fast path keeps such a field, its place and its value, and not that QuickFIX
agrees on its number); and the expansion of groups, which `setFromPreScan` leaves out
and stock QuickFIX does when it has a dictionary.

In the benchmarks: the percentiles `p50` and `p99`, functions of timings; bytes per
second, which is the loaded stream's size whatever was scanned; google benchmark,
which decides how often a loop runs.  `main` ends with an error on unknown arguments
before it runs anything.

In the generator: the message templates and the random choice among them are data;
`write_canonical` writes the files of `corpus/valid` one by one, and `BenchHarness`
has a directory only as it is when nobody writes it.

What is left to say is on the other side of these boundaries: a source of QuickFIX
would let `Parsed` be translated instead of inferred from the patch, and `p50` and
`p99` be compared with a definition of a percentile.
