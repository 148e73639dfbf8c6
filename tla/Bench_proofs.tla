---------------------------- MODULE Bench_proofs ----------------------------
(***************************************************************************)
(* Proofs about the benchmark.  First the harness: what a process reports    *)
(* can be compared, by one inductive invariant on the cached corpus, the     *)
(* counters of the repetition that runs and the reports so far, and a second *)
(* one on the file, which stays a file however it is rewritten.              *)
(*                                                                           *)
(* Then the loops of StreamSplit, and the test that compares both scanners:  *)
(*   - what the corpus generator renders is a whole frame of FixFrame, whose *)
(*     index names the fields of the message;                                *)
(*   - the scanners of the pair are the scanners of ScalarScanner_proofs and *)
(*     Avx2Scanner_proofs, so that their invariants may be cited;            *)
(*   - SplitInv, the inductive invariant of the loops, joins these two.      *)
(***************************************************************************)
EXTENDS BenchHarness, StreamSplit, FixFrame_proofs, TLAPS

-----------------------------------------------------------------------------
(* The harness.                                                              *)
StreamNames == SwiftFIX \cup {"QuickFIX_StreamSplit", "QuickFIX_StreamParse"}

Names == StreamNames \cup {"QuickFIX_SetString"}

Counters == [name : Names \cup {"none"}, pos : Nat, iter_count : Nat, msg_count : Nat,
             iterations : Nat, processed : Nat]

(* The cache and the counters of the repetition that runs.                   *)
CacheInv ==
    /\ disk \in Corpus /\ plan \in Seq(FrameKind) /\ plan \in Generated \cup {<< >>}
    /\ loaded \in Corpus \cup {NotLoaded}
    /\ loaded = NotLoaded => reports = {} /\ bm = NoRepetition
    /\ proc \in {"none", "running", "exited", "died"}
    /\ queue \in Seq(Names)

CountersInv ==
    /\ bm \in Counters
    /\ bm.pos <= Len(loaded.frames) /\ bm.iter_count = bm.pos
    /\ bm.processed = bm.iterations * Len(loaded.frames) + bm.pos
    /\ bm.iterations > 0 =>
          /\ bm.msg_count = Len(loaded.frames)
          /\ bm.name \in SwiftFIX => ~loaded.torn

ReportOK(r) ==
    /\ r.corpus = loaded
    /\ r.perIteration = Len(loaded.frames)
    /\ r.iterations * r.perIteration = r.processed
    /\ r.name \in SwiftFIX => ~loaded.torn

ReportsInv == \A r \in reports : ReportOK(r)

Inv == CacheInv /\ CountersInv /\ ReportsInv

(* What is registered after a look at a file needs a file when it starts.    *)
QueueInv ==
    /\ (\E k \in DOMAIN queue : queue[k] \in StreamNames) => LoadedCorpus.kind = "file"
    /\ proc = "died" => queue # << >> /\ Head(queue) = "QuickFIX_SetString"

-----------------------------------------------------------------------------
LEMMA Quotient ==
    ASSUME NEW r \in Nat \ {0}, NEW n \in Nat, NEW k \in 1 .. r * n
    PROVE  1 + (k - 1) \div r \in 1 .. n
<1> DEFINE q == (k - 1) \div r
<1>1. r * n \in Nat
  OBVIOUS
<1>2. q \in Nat /\ r * q <= k - 1
  BY <1>1
<1>3. ASSUME n <= q PROVE FALSE
  <2>1. r * n <= r * q
    BY <1>2, <1>3
  <2> QED BY <1>1, <1>2, <2>1
<1> QED BY <1>2, <1>3

LEMMA RepeatedNames ==
    ASSUME NEW S, NEW names \in Seq(S)
    PROVE  Repeated(names) \in Seq(S)
<1>1. Len(names) \in Nat /\ Repetitions \in Nat \ {0} /\ Repetitions * Len(names) \in Nat
  BY CorpusAssumption
<1>2. \A k \in 1 .. Repetitions * Len(names) : names[1 + (k - 1) \div Repetitions] \in S
  BY <1>1, Quotient
<1> QED BY <1>1, <1>2 DEF Repeated

(* What is registered: for a file the benchmarks of a stream, else the other. *)
RegisterFor(kind) == IF kind = "file" THEN StreamNames ELSE {"QuickFIX_SetString"}

LEMMA RegisteredNames == Registered \in Seq(RegisterFor(disk.kind))
<1>1. CASE disk.kind = "file"
  <2> DEFINE S == StreamNames
             three == <<"QuickFIX_StreamSplit", "QuickFIX_StreamParse", "SwiftFIX_ScalarSplit">>
             rest == IF avx2 THEN <<"SwiftFIX_Avx2Split">> ELSE << >>
  <2>1. /\ "QuickFIX_StreamSplit" \in S /\ "QuickFIX_StreamParse" \in S
        /\ "SwiftFIX_ScalarSplit" \in S /\ "SwiftFIX_Avx2Split" \in S
    BY DEF StreamNames, SwiftFIX
  <2> HIDE DEF S
  <2>2. three \in Seq(S)
    BY <2>1
  <2>3. rest \in Seq(S)
    BY <2>1
  <2> HIDE DEF three, rest
  <2>4. three \o rest \in Seq(S)
    BY <2>2, <2>3
  <2> USE DEF three, rest, S
  <2> QED BY <1>1, <2>4 DEF Registered, RegisterFor
<1>2. CASE disk.kind # "file"
  BY <1>2 DEF Registered, RegisterFor
<1> QED BY <1>1, <1>2

LEMMA StartNames ==
    ASSUME Start
    PROVE  queue' \in Seq(RegisterFor(disk.kind)) /\ queue' \in Seq(Names)
<1>1. PICK names \in {Registered} \cup {<<Registered[k]>> : k \in DOMAIN Registered} :
         queue' = Repeated(names)
  BY DEF Start
<1>2. names \in Seq(RegisterFor(disk.kind))
  <2> DEFINE S == RegisterFor(disk.kind)
  <2>1. Registered \in Seq(S)
    BY RegisteredNames
  <2> HIDE DEF S
  <2>2. ASSUME NEW k \in DOMAIN Registered
        PROVE  <<Registered[k]>> \in Seq(S)
    BY <2>1
  <2> QED BY <1>1, <2>1, <2>2 DEF S
<1>3. queue' \in Seq(RegisterFor(disk.kind))
  BY <1>1, <1>2, RepeatedNames
<1>4. RegisterFor(disk.kind) \subseteq Names
  BY DEF RegisterFor, Names
<1> QED BY <1>3, <1>4

-----------------------------------------------------------------------------
(* Reports and counters are about the cached corpus, which a step that only  *)
(* touches the file leaves alone.                                            *)
LEMMA FileStep ==
    ASSUME Inv, UNCHANGED procVars,
           disk' \in Corpus, plan' \in Seq(FrameKind), plan' \in Generated \cup {<< >>}
    PROVE  Inv'
<1>1. UNCHANGED <<proc, queue, loaded, bm, reports>>
  BY DEF procVars
<1>2. CacheInv'
  BY <1>1 DEF Inv, CacheInv
<1>3. CountersInv'
  BY <1>1 DEF Inv, CountersInv
<1>4. ReportsInv'
  BY <1>1 DEF Inv, ReportsInv, ReportOK
<1> QED BY <1>2, <1>3, <1>4 DEF Inv

LEMMA FileType ==
    ASSUME NEW frames \in Seq(FrameKind), NEW torn \in BOOLEAN
    PROVE  File(frames, torn) \in Corpus
  BY DEF File, Corpus

LEMMA WriteType ==
    ASSUME CacheInv, Write
    PROVE  disk' \in Corpus
<1>1. PICK n \in Len(disk.frames) .. Len(plan), torn \in BOOLEAN :
         disk' = File(SubSeq(plan, 1, n), torn)
  BY DEF Write
<1>2. disk.frames \in Seq(FrameKind)
  BY DEF CacheInv, Corpus
<1>3. SubSeq(plan, 1, n) \in Seq(FrameKind)
  BY <1>2 DEF CacheInv
<1> QED BY <1>1, <1>3, FileType

(* What is cached has frames, in number a natural.                           *)
LEMMA LoadedType ==
    ASSUME CacheInv
    PROVE  loaded.frames \in Seq(FrameKind) /\ Len(loaded.frames) \in Nat
<1>1. CASE loaded \in Corpus
  BY <1>1 DEF Corpus
<1>2. CASE loaded = NotLoaded
  BY <1>2 DEF NotLoaded
<1> QED BY <1>1, <1>2 DEF CacheInv

(* A repetition that has not begun satisfies what the counters promise of    *)
(* any corpus.                                                               *)
LEMMA FreshCounters ==
    ASSUME NEW name \in Names \cup {"none"}, bm' = Repetition(name),
           Len(loaded'.frames) \in Nat
    PROVE  CountersInv'
<1> DEFINE N == Names
<1> HIDE DEF N
<1>1. bm' \in Counters
  BY DEF N, Counters, Repetition
<1> QED BY <1>1 DEF CountersInv, Repetition

LEMMA EnterStep ==
    ASSUME Inv, Enter
    PROVE  Inv'
<1>1. LoadedCorpus \in Corpus /\ LoadedCorpus # NotLoaded
  <2>1. disk \in Corpus /\ loaded \in Corpus \cup {NotLoaded} /\ disk # NotLoaded
    BY DEF Inv, CacheInv, Corpus, NotLoaded
  <2> QED BY <2>1 DEF LoadedCorpus
<1>2. Head(queue) \in Names /\ Tail(queue) \in Seq(Names)
  BY DEF Inv, CacheInv, Enter, Entering
<1>3. UNCHANGED <<avx2, proc, reports, disk, plan>> /\ loaded' = LoadedCorpus /\ queue' = Tail(queue)
  BY DEF Enter, fileVars
<1>4. PICK name \in Names \cup {"none"} : bm' = Repetition(name)
  BY <1>2 DEF Enter, NoRepetition
<1>5. CacheInv'
  BY <1>1, <1>2, <1>3 DEF Inv, CacheInv
<1>6. CountersInv'
  <2>1. Len(loaded'.frames) \in Nat
    BY <1>1, <1>3 DEF Corpus
  <2> QED BY <1>4, <2>1, FreshCounters
<1>7. ReportsInv'
  <2>1. CASE loaded = NotLoaded
    BY <2>1, <1>3 DEF Inv, CacheInv, ReportsInv
  <2>2. CASE loaded # NotLoaded
    BY <2>2, <1>3 DEF Inv, LoadedCorpus, ReportsInv, ReportOK
  <2> QED BY <2>1, <2>2
<1> QED BY <1>5, <1>6, <1>7 DEF Inv

(* The steps of a repetition leave the cache and the reports alone.          *)
LEMMA RepetitionStep ==
    ASSUME Inv, UNCHANGED <<proc, queue, loaded, reports, fileVars>>,
           bm # NoRepetition \/ bm' = NoRepetition, CountersInv'
    PROVE  Inv'
<1>1. UNCHANGED <<proc, queue, loaded, reports, disk, plan>>
  BY DEF fileVars
<1>2. CacheInv'
  BY <1>1 DEF Inv, CacheInv
<1>3. ReportsInv'
  BY <1>1 DEF Inv, ReportsInv, ReportOK
<1> QED BY <1>2, <1>3 DEF Inv

LEMMA SkipWithErrorStep ==
    ASSUME Inv, SkipWithError
    PROVE  Inv'
<1>1. CountersInv'
  <2>1. Len(loaded'.frames) \in Nat
    BY LoadedType DEF Inv, SkipWithError
  <2> QED BY <2>1, FreshCounters DEF SkipWithError, NoRepetition
<1> QED BY <1>1, RepetitionStep DEF SkipWithError

LEMMA TakeFrameStep ==
    ASSUME Inv, ProcessFrame
    PROVE  Inv'
<1>1. /\ bm' = [bm EXCEPT !.pos = bm.pos + 1, !.iter_count = bm.iter_count + 1,
                         !.processed = bm.processed + 1]
      /\ loaded' = loaded /\ bm.pos # Len(loaded.frames)
  BY DEF ProcessFrame, AtEnd
<1>2. bm \in Counters /\ Len(loaded.frames) \in Nat
  BY LoadedType DEF Inv, CountersInv
<1>3. bm' \in Counters
  <2>1. bm.pos + 1 \in Nat /\ bm.iter_count + 1 \in Nat /\ bm.processed + 1 \in Nat
    BY <1>2 DEF Counters
  <2> QED BY <1>1, <1>2, <2>1, Zenon DEF Counters
<1>4. /\ bm'.pos = bm.pos + 1 /\ bm'.iter_count = bm.iter_count + 1
      /\ bm'.processed = bm.processed + 1
      /\ bm'.name = bm.name /\ bm'.msg_count = bm.msg_count
      /\ bm'.iterations = bm.iterations
  BY <1>1, <1>2 DEF Counters
<1>5. CountersInv'
  <2>1. bm.pos \in Nat /\ bm.processed \in Nat /\ bm.iterations * Len(loaded.frames) \in Nat
    BY <1>2 DEF Counters
  <2>2. bm'.processed = bm'.iterations * Len(loaded'.frames) + bm'.pos
    BY <1>1, <1>4, <2>1 DEF Inv, CountersInv
  <2>3. bm'.pos <= Len(loaded'.frames) /\ bm'.iter_count = bm'.pos
    BY <1>1, <1>2, <1>4, <2>1 DEF Inv, CountersInv
  <2> QED BY <1>1, <1>3, <1>4, <2>2, <2>3 DEF Inv, CountersInv
<1> QED BY <1>5, RepetitionStep DEF ProcessFrame, Iterating

(* An iteration ends at the end of the stream, which a scanner only reaches  *)
(* when the stream is whole.                                                 *)
LEMMA EndIterationStep ==
    ASSUME Inv, EndIteration
    PROVE  Inv'
<1>1. /\ bm' = [bm EXCEPT !.pos = 0, !.iter_count = 0, !.msg_count = bm.iter_count,
                         !.iterations = bm.iterations + 1]
      /\ loaded' = loaded /\ bm.pos = Len(loaded.frames)
      /\ bm.name \in SwiftFIX => ~loaded.torn
  BY DEF EndIteration, AtEnd, Refused
<1>2. bm \in Counters /\ Len(loaded.frames) \in Nat
  BY LoadedType DEF Inv, CountersInv
<1>3. bm' \in Counters
  <2>1. 0 \in Nat /\ bm.iter_count \in Nat /\ bm.iterations + 1 \in Nat
    BY <1>2 DEF Counters
  <2> QED BY <1>1, <1>2, <2>1, Zenon DEF Counters
<1>4. /\ bm'.pos = 0 /\ bm'.iter_count = 0 /\ bm'.msg_count = bm.iter_count
      /\ bm'.iterations = bm.iterations + 1
      /\ bm'.name = bm.name /\ bm'.processed = bm.processed
  BY <1>1, <1>2 DEF Counters
<1>5. CountersInv'
  <2> DEFINE len == Len(loaded.frames)
             n == bm.iterations
  <2>1. bm.processed = n * len + len
    BY <1>1 DEF Inv, CountersInv
  <2>2. n \in Nat /\ len \in Nat
    BY <1>2 DEF Counters
  <2>3. bm'.processed = bm'.iterations * Len(loaded'.frames) + bm'.pos
    <3>1. loaded'.frames = loaded.frames
      BY <1>1
    <3> HIDE DEF len, n
    <3>2. n * len + len = (n + 1) * len + 0
      BY <2>2
    <3> QED BY <1>4, <2>1, <3>1, <3>2 DEF len, n
  <2> QED BY <1>1, <1>2, <1>3, <1>4, <2>3 DEF Inv, CountersInv
<1> QED BY <1>5, RepetitionStep DEF EndIteration, Iterating

LEMMA ReportStep ==
    ASSUME Inv, Report
    PROVE  Inv'
<1> DEFINE r == [name |-> bm.name, iterations |-> bm.iterations,
                 perIteration |-> bm.msg_count, processed |-> bm.processed, corpus |-> loaded]
<1>1. /\ reports' = reports \cup {r} /\ bm' = NoRepetition /\ loaded' = loaded
      /\ UNCHANGED <<proc, queue, disk, plan>> /\ bm.iterations > 0 /\ bm.pos = 0
  BY DEF Report, fileVars
<1>2. Len(loaded.frames) \in Nat
  BY LoadedType DEF Inv
<1>3. CacheInv'
  <2>1. bm # NoRepetition
    BY <1>1 DEF NoRepetition, Repetition
  <2> QED BY <1>1, <2>1 DEF Inv, CacheInv
<1>4. CountersInv'
  BY <1>1, <1>2, FreshCounters DEF NoRepetition
<1>5. ReportOK(r)
  <2>1. bm.processed = bm.iterations * Len(loaded.frames)
    <3>1. bm.iterations * Len(loaded.frames) \in Nat
      BY <1>2 DEF Inv, CountersInv, Counters
    <3> QED BY <1>1, <3>1 DEF Inv, CountersInv
  <2> QED BY <1>1, <2>1 DEF Inv, CountersInv, ReportOK
<1>6. ReportsInv'
  <2> HIDE DEF r
  <2> QED BY <1>1, <1>5 DEF Inv, ReportsInv, ReportOK
<1> QED BY <1>3, <1>4, <1>6 DEF Inv

LEMMA StartStep ==
    ASSUME Inv, Start
    PROVE  Inv'
<1>1. /\ proc' = "running" /\ loaded' = NotLoaded /\ bm' = NoRepetition /\ reports' = {}
      /\ UNCHANGED <<disk, plan>> /\ queue' \in Seq(Names)
  BY StartNames DEF Start, fileVars
<1>2. CacheInv'
  BY <1>1 DEF Inv, CacheInv
<1>3. CountersInv'
  <2>1. Len(loaded'.frames) \in Nat
    BY <1>1 DEF NotLoaded
  <2> QED BY <1>1, <2>1, FreshCounters DEF NoRepetition
<1>4. ReportsInv'
  BY <1>1 DEF ReportsInv
<1> QED BY <1>2, <1>3, <1>4 DEF Inv

(* Neither the end of a process nor its death changes what it has reported.  *)
LEMMA EndStep ==
    ASSUME Inv, proc' \in {"exited", "died"}, UNCHANGED <<queue, loaded, bm, reports, fileVars>>
    PROVE  Inv'
<1>1. UNCHANGED <<queue, loaded, bm, reports, disk, plan>>
  BY DEF fileVars
<1>2. CacheInv'
  BY <1>1 DEF Inv, CacheInv
<1>3. CountersInv'
  BY <1>1 DEF Inv, CountersInv
<1>4. ReportsInv'
  BY <1>1 DEF Inv, ReportsInv, ReportOK
<1> QED BY <1>2, <1>3, <1>4 DEF Inv

LEMMA InvInit == Init => Inv
<1> SUFFICES ASSUME Init PROVE Inv
  OBVIOUS
<1>1. CacheInv
  BY CorpusAssumption DEF Init, CacheInv
<1>2. CountersInv
  BY DEF Init, CountersInv, Counters, NoRepetition, Repetition, NotLoaded
<1>3. ReportsInv
  BY DEF Init, ReportsInv
<1> QED BY <1>1, <1>2, <1>3 DEF Inv

LEMMA InvStep ==
    ASSUME Inv, [Next]_vars
    PROVE  Inv'
<1>1. ASSUME NEW frames \in Generated, Open(frames) PROVE Inv'
  <2>1. frames \in Seq(FrameKind)
    BY CorpusAssumption
  <2>2. disk' = File(<< >>, FALSE) /\ plan' = frames /\ UNCHANGED procVars
    BY <1>1 DEF Open
  <2>3. disk' \in Corpus
    BY <2>2 DEF File, Corpus
  <2> QED BY <2>1, <2>2, <2>3, FileStep
<1>2. CASE Write
  <2>1. disk' \in Corpus
    BY <1>2, WriteType DEF Inv
  <2> QED BY <1>2, <2>1, FileStep DEF Write, Inv, CacheInv
<1>3. CASE EndWrite
  BY <1>3, FileStep DEF EndWrite, Inv, CacheInv
<1>4. CASE Start
  BY <1>4, StartStep
<1>5. CASE Die
  BY <1>5, EndStep DEF Die
<1>6. CASE Enter
  BY <1>6, EnterStep
<1>7. CASE SkipWithError
  BY <1>7, SkipWithErrorStep
<1>8. CASE ProcessFrame
  BY <1>8, TakeFrameStep
<1>9. CASE EndIteration
  BY <1>9, EndIterationStep
<1>10. CASE Report
  BY <1>10, ReportStep
<1>11. CASE Finish
  BY <1>11, EndStep DEF Finish
<1>12. CASE UNCHANGED vars
  BY <1>12, FileStep DEF vars, fileVars, Inv, CacheInv
<1> QED
  BY <1>1, <1>2, <1>3, <1>4, <1>5, <1>6, <1>7, <1>8, <1>9, <1>10, <1>11, <1>12
  DEF Next, BenchStep

LEMMA InvHolds == Spec => []Inv
  BY InvInit, InvStep, PTL DEF Spec

(* Every conjunct of TypeOK, for any corpus and any number of rewrites.      *)
THEOREM TypeCorrect == Spec => []TypeOK
<1>1. Inv => TypeOK
  <2> SUFFICES ASSUME Inv PROVE TypeOK
    OBVIOUS
  <2>1. Len(loaded.frames) \in Nat
    BY LoadedType DEF Inv
  <2>2. bm.pos \in Nat
    BY DEF Inv, CountersInv, Counters
  <2> QED BY <2>1, <2>2 DEF Inv, CacheInv, CountersInv, TypeOK
<1> QED BY <1>1, InvHolds, PTL

(* Apples to apples (SameMessages): all that one process reports is about one *)
(* corpus, whatever is written to the file between its repetitions.          *)
THEOREM ReportsAreComparable == Spec => []SameMessages
<1>1. Inv => SameMessages
  BY DEF Inv, ReportsInv, ReportOK, SameMessages
<1> QED BY <1>1, InvHolds, PTL

(* The items that SetItemsProcessed is told, the last iteration's count times *)
(* the iterations, are the messages that went through the loop.              *)
THEOREM ItemsAreHonest == Spec => []ItemsWereProcessed
<1>1. Inv => ItemsWereProcessed
  BY DEF Inv, ReportsInv, ReportOK, ItemsWereProcessed
<1> QED BY <1>1, InvHolds, PTL

(* A scanner reports on the whole stream or not at all.                      *)
THEOREM WholeStreams == Spec => []ScannersReportWholeStreams
<1>1. Inv => ScannersReportWholeStreams
  BY DEF Inv, ReportsInv, ReportOK, ScannersReportWholeStreams
<1> QED BY <1>1, InvHolds, PTL

-----------------------------------------------------------------------------
LEMMA QueueInit == Init => QueueInv
  BY DEF Init, QueueInv

(* The writer leaves a file where a file was.                                *)
LEMMA QueueFileStep ==
    ASSUME QueueInv, UNCHANGED procVars, disk.kind = "file" => disk'.kind = "file"
    PROVE  QueueInv'
  BY DEF QueueInv, procVars, LoadedCorpus

LEMMA QueueStartStep ==
    ASSUME Inv, Start
    PROVE  QueueInv'
<1>1. loaded' = NotLoaded /\ disk' = disk /\ proc' = "running"
  BY DEF Start, fileVars
<1>2. queue' \in Seq(RegisterFor(disk.kind))
  BY StartNames
<1>3. CASE disk.kind = "file"
  BY <1>1, <1>3 DEF QueueInv, LoadedCorpus
<1>4. CASE disk.kind # "file"
  <2>1. \A k \in DOMAIN queue' : queue'[k] \in RegisterFor(disk.kind)
    BY <1>2
  <2>2. \A k \in DOMAIN queue' : queue'[k] \notin StreamNames
    BY <1>4, <2>1 DEF RegisterFor, StreamNames, SwiftFIX
  <2> QED BY <1>1, <2>2 DEF QueueInv
<1> QED BY <1>3, <1>4

(* The first benchmark of a process that enters loads what the others find.  *)
LEMMA QueueEnterStep ==
    ASSUME Inv, QueueInv, Enter
    PROVE  QueueInv'
<1>1. /\ loaded' = LoadedCorpus /\ queue' = Tail(queue) /\ proc' = "running" /\ queue # << >>
  BY DEF Enter, Entering
<1>2. LoadedCorpus' = LoadedCorpus
  <2>1. LoadedCorpus # NotLoaded
    BY DEF Enter, Expected, NotLoaded
  <2> QED BY <1>1, <2>1 DEF LoadedCorpus
<1>3. ASSUME NEW k \in DOMAIN queue' PROVE \E j \in DOMAIN queue : queue'[k] = queue[j]
  <2>1. queue \in Seq(Names)
    BY DEF Inv, CacheInv
  <2>2. k + 1 \in DOMAIN queue /\ queue'[k] = queue[k + 1]
    BY <1>1, <2>1
  <2> QED BY <2>2
<1> QED BY <1>1, <1>2, <1>3 DEF QueueInv

(* Who finds a corpus of the wrong kind was registered without a file.       *)
LEMMA QueueDieStep ==
    ASSUME Inv, QueueInv, Die
    PROVE  QueueInv'
<1>1. UNCHANGED <<queue, loaded, disk>> /\ queue # << >> /\ queue \in Seq(Names)
  BY DEF Die, Entering, fileVars, Inv, CacheInv
<1>2. LoadedCorpus.kind # Expected(Head(queue))
  BY DEF Die
<1>3. Head(queue) = queue[1] /\ 1 \in DOMAIN queue /\ Head(queue) \in Names
  BY <1>1
<1>4. Head(queue) = "QuickFIX_SetString"
  BY <1>2, <1>3 DEF QueueInv, Expected, Names
<1> QED BY <1>1, <1>4 DEF QueueInv, LoadedCorpus

LEMMA QueueStep ==
    ASSUME Inv, QueueInv, [Next]_vars
    PROVE  QueueInv'
<1>1. ASSUME NEW frames \in Generated, Open(frames) PROVE QueueInv'
  BY <1>1, QueueFileStep DEF Open, File
<1>2. CASE Write
  BY <1>2, QueueFileStep DEF Write, File
<1>3. CASE EndWrite
  BY <1>3, QueueFileStep DEF EndWrite
<1>4. CASE Start
  BY <1>4, QueueStartStep
<1>5. CASE Die
  BY <1>5, QueueDieStep
<1>6. CASE Enter
  BY <1>6, QueueEnterStep
<1>7. CASE SkipWithError \/ ProcessFrame \/ EndIteration \/ Report
  <2>1. UNCHANGED <<proc, queue, loaded, disk>>
    BY <1>7 DEF SkipWithError, ProcessFrame, EndIteration, Report, fileVars
  <2> QED BY <2>1 DEF QueueInv, LoadedCorpus
<1>8. CASE Finish
  <2>1. UNCHANGED <<queue, loaded, disk>> /\ proc' = "exited"
    BY <1>8 DEF Finish, fileVars
  <2> QED BY <2>1 DEF QueueInv, LoadedCorpus
<1>9. CASE UNCHANGED vars
  BY <1>9, QueueFileStep DEF vars, fileVars
<1> QED
  BY <1>1, <1>2, <1>3, <1>4, <1>5, <1>6, <1>7, <1>8, <1>9 DEF Next, BenchStep

(* Only a process that was started without a corpus file dies: however often *)
(* and whenever the stream is rewritten, no benchmark of it loses its file.  *)
THEOREM RewritingIsHarmless == Spec => []RewritingKillsNobody
<1>1. Spec => []QueueInv
  BY QueueInit, QueueStep, InvHolds, PTL DEF Spec
<1>2. QueueInv => RewritingKillsNobody
  BY DEF QueueInv, RewritingKillsNobody
<1> QED BY <1>1, <1>2, PTL

-----------------------------------------------------------------------------
(* Concatenation: the recursive function in FlattenSeq exists, and is the    *)
(* same on a common beginning.                                               *)
IsFlat(f, ss, n) == f = [i \in 1 .. n |-> IF i = 1 THEN ss[i] ELSE f[i - 1] \o ss[i]]

LEMMA FlatExists ==
    ASSUME NEW ss, NEW n \in Nat
    PROVE  \E f : IsFlat(f, ss, n)
<1> DEFINE S == {m \in Nat : \E f : IsFlat(f, ss, m)}
<1>1. 0 \in S
  <2> DEFINE f == [i \in 1 .. 0 |-> << >>]
  <2>1. IsFlat(f, ss, 0)
    BY DEF IsFlat
  <2> QED BY <2>1
<1>2. ASSUME NEW m \in Nat, m \in S PROVE m + 1 \in S
  <2>1. PICK f : IsFlat(f, ss, m)
    BY <1>2
  <2> DEFINE top == IF m = 0 THEN ss[1] ELSE f[m] \o ss[m + 1]
             g == [i \in 1 .. (m + 1) |-> IF i <= m THEN f[i] ELSE top]
  <2>2. ASSUME NEW i \in 1 .. (m + 1)
        PROVE  g[i] = IF i = 1 THEN ss[i] ELSE g[i - 1] \o ss[i]
    <3>1. CASE i = m + 1
      <4>1. g[i] = top /\ (i # 1 => m # 0 /\ i - 1 = m /\ g[i - 1] = f[m])
        BY <3>1
      <4> QED BY <3>1, <4>1
    <3>2. CASE i # m + 1
      <4>1. i \in 1 .. m /\ (i # 1 => i - 1 \in 1 .. m)
        BY <3>2
      <4>2. f[i] = IF i = 1 THEN ss[i] ELSE f[i - 1] \o ss[i]
        BY <2>1, <4>1 DEF IsFlat
      <4>3. g[i] = f[i] /\ (i # 1 => g[i - 1] = f[i - 1])
        BY <4>1
      <4> HIDE DEF g
      <4> QED BY <4>2, <4>3
    <3> QED BY <3>1, <3>2
  <2>3. IsFlat(g, ss, m + 1)
    <3>1. g = [i \in 1 .. (m + 1) |-> g[i]]
      OBVIOUS
    <3> HIDE DEF g
    <3> QED BY <2>2, <3>1 DEF IsFlat
  <2> QED BY <2>3
<1>3. \A m \in Nat : m \in S
  <2> HIDE DEF S
  <2> QED BY <1>1, <1>2, Induction
<1> QED BY <1>3

(* Two of them agree as far as the sequences they concatenate do.            *)
LEMMA FlatsAgree ==
    ASSUME NEW ss, NEW m \in Nat, NEW f, IsFlat(f, ss, m),
           NEW tt, NEW l \in Nat, NEW g, IsFlat(g, tt, l),
           NEW n \in Nat, n <= m, n <= l, \A k \in 1 .. n : ss[k] = tt[k]
    PROVE  n # 0 => f[n] = g[n]
<1> DEFINE S == {k \in Nat : k # 0 /\ k <= n => f[k] = g[k]}
<1>1. 0 \in S
  OBVIOUS
<1>2. ASSUME NEW k \in Nat, k \in S PROVE k + 1 \in S
  <2> SUFFICES ASSUME k + 1 <= n PROVE f[k + 1] = g[k + 1]
    OBVIOUS
  <2>1. k + 1 \in 1 .. m /\ k + 1 \in 1 .. l /\ k + 1 \in 1 .. n /\ (k + 1) - 1 = k
        /\ (k + 1 = 1 <=> k = 0)
    OBVIOUS
  <2>2. /\ f[k + 1] = IF k = 0 THEN ss[k + 1] ELSE f[k] \o ss[k + 1]
        /\ g[k + 1] = IF k = 0 THEN tt[k + 1] ELSE g[k] \o tt[k + 1]
    BY <2>1 DEF IsFlat
  <2>3. ss[k + 1] = tt[k + 1] /\ (k # 0 => f[k] = g[k])
    BY <1>2, <2>1
  <2> QED BY <2>2, <2>3
<1>3. \A k \in Nat : k \in S
  <2> HIDE DEF S
  <2> QED BY <1>1, <1>2, Induction
<1> QED BY <1>3

(* FlattenSeq is such a function, applied to the last index.                 *)
LEMMA FlattenIsFlat ==
    ASSUME NEW ss, Len(ss) \in Nat
    PROVE  /\ Len(ss) = 0 => Sequence!FlattenSeq(ss) = ss
           /\ Len(ss) # 0 => \E f : /\ IsFlat(f, ss, Len(ss))
                                    /\ Sequence!FlattenSeq(ss) = f[Len(ss)]
<1> DEFINE f == CHOOSE g : IsFlat(g, ss, Len(ss))
<1>1. IsFlat(f, ss, Len(ss))
  BY FlatExists
<1>2. Len(ss) # 0 => Sequence!FlattenSeq(ss) = f[Len(ss)]
  BY DEF Sequence!FlattenSeq, IsFlat
<1>3. Len(ss) = 0 => Sequence!FlattenSeq(ss) = ss
  BY DEF Sequence!FlattenSeq
<1> QED BY <1>1, <1>2, <1>3

(* One more sequence is appended to the concatenation.                       *)
LEMMA FlattenNext ==
    ASSUME NEW T, NEW ss \in Seq(Seq(T)), NEW s \in Seq(T)
    PROVE  Sequence!FlattenSeq(Append(ss, s)) = Sequence!FlattenSeq(ss) \o s
<1> DEFINE n == Len(ss)
           tt == Append(ss, s)
<1>1. n \in Nat /\ Len(tt) = n + 1 /\ tt[n + 1] = s /\ \A k \in 1 .. n : ss[k] = tt[k]
  OBVIOUS
<1> HIDE DEF tt
<1>2. PICK g : IsFlat(g, tt, n + 1) /\ Sequence!FlattenSeq(tt) = g[n + 1]
  BY <1>1, FlattenIsFlat
<1>3. g[n + 1] = IF n = 0 THEN s ELSE g[n] \o s
  <2>1. n + 1 \in 1 .. (n + 1) /\ (n + 1) - 1 = n /\ (n + 1 = 1 <=> n = 0)
    BY <1>1
  <2> HIDE DEF n
  <2> QED BY <1>1, <1>2, <2>1 DEF IsFlat
<1>4. CASE n = 0
  <2>1. ss = << >> /\ Sequence!FlattenSeq(ss) = << >>
    BY <1>4, FlattenIsFlat
  <2>2. << >> \o s = s
    OBVIOUS
  <2> QED BY <1>2, <1>3, <1>4, <2>1, <2>2 DEF tt
<1>5. CASE n # 0
  <2>1. PICK f : IsFlat(f, ss, n) /\ Sequence!FlattenSeq(ss) = f[n]
    BY <1>1, <1>5, FlattenIsFlat
  <2>2. f[n] = g[n]
    <3>1. n + 1 \in Nat /\ n <= n /\ n <= n + 1
      BY <1>1
    <3> HIDE DEF n
    <3> QED BY <1>1, <1>2, <1>5, <2>1, <3>1, FlatsAgree
  <2> QED BY <1>2, <1>3, <1>5, <2>1, <2>2 DEF tt
<1> QED BY <1>4, <1>5

(* The concatenation of the first n sequences of ss.                         *)
Joined(ss, n) == Sequence!FlattenSeq(SubSeq(ss, 1, n))

(* Joined grows by one sequence at a time, up to the whole concatenation.    *)
LEMMA JoinedNext ==
    ASSUME NEW T, NEW ss \in Seq(Seq(T))
    PROVE  /\ Joined(ss, 0) = << >>
           /\ \A n \in 0 .. (Len(ss) - 1) : Joined(ss, n + 1) = Joined(ss, n) \o ss[n + 1]
           /\ Joined(ss, Len(ss)) = Sequence!FlattenSeq(ss)
           /\ \A n \in 0 .. Len(ss) : Joined(ss, n) \in Seq(T)
<1>1. Joined(ss, 0) = << >>
  <2>1. SubSeq(ss, 1, 0) = << >> /\ Len(<< >>) = 0
    OBVIOUS
  <2> QED BY <2>1, FlattenIsFlat DEF Joined
<1>2. ASSUME NEW n \in 0 .. (Len(ss) - 1)
      PROVE  Joined(ss, n + 1) = Joined(ss, n) \o ss[n + 1]
  <2>1. SubSeq(ss, 1, n) \in Seq(Seq(T)) /\ ss[n + 1] \in Seq(T)
    OBVIOUS
  <2>2. SubSeq(ss, 1, n + 1) = Append(SubSeq(ss, 1, n), ss[n + 1])
    OBVIOUS
  <2> QED BY <2>1, <2>2, FlattenNext DEF Joined
<1>3. Joined(ss, Len(ss)) = Sequence!FlattenSeq(ss)
  <2>1. SubSeq(ss, 1, Len(ss)) = ss
    OBVIOUS
  <2> QED BY <2>1 DEF Joined
<1>4. \A n \in 0 .. Len(ss) : Joined(ss, n) \in Seq(T)
  <2> DEFINE S == {n \in Nat : n <= Len(ss) => Joined(ss, n) \in Seq(T)}
  <2>1. 0 \in S
    BY <1>1, EmptySeq
  <2>2. ASSUME NEW n \in Nat, n \in S PROVE n + 1 \in S
    <3> SUFFICES ASSUME n + 1 <= Len(ss) PROVE Joined(ss, n + 1) \in Seq(T)
      OBVIOUS
    <3>1. n \in 0 .. (Len(ss) - 1) /\ n + 1 \in 1 .. Len(ss)
      OBVIOUS
    <3>2. ss[n + 1] \in Seq(T) /\ Joined(ss, n) \in Seq(T)
      BY <2>2, <3>1, ElementOfSeq
    <3>3. Joined(ss, n + 1) = Joined(ss, n) \o ss[n + 1]
      BY <1>2, <3>1
    <3> QED BY <3>2, <3>3, ConcatProperties
  <2>3. \A n \in Nat : n \in S
    <3> HIDE DEF S
    <3> QED BY <2>1, <2>2, Induction
  <2> QED BY <2>3
<1> QED BY <1>1, <1>2, <1>3, <1>4

(* The k-th sequence stands where the ones before it end.                    *)
LEMMA JoinedHolds ==
    ASSUME NEW T, NEW ss \in Seq(Seq(T)), NEW n \in 0 .. Len(ss), NEW k \in 1 .. n
    PROVE  /\ Len(Joined(ss, k - 1)) + Len(ss[k]) = Len(Joined(ss, k))
           /\ Len(Joined(ss, k)) <= Len(Joined(ss, n))
           /\ \A j \in 1 .. Len(ss[k]) : Joined(ss, n)[Len(Joined(ss, k - 1)) + j] = ss[k][j]
<1> DEFINE s == ss[k]
           before == Joined(ss, k - 1)
           at == Len(before)
           Holds(m) == /\ at + Len(s) <= Len(Joined(ss, m))
                       /\ \A j \in 1 .. Len(s) : Joined(ss, m)[at + j] = s[j]
           S == {m \in Nat : k <= m /\ m <= Len(ss) => Holds(m)}
<1>1. k \in 1 .. Len(ss) /\ k - 1 \in 0 .. (Len(ss) - 1) /\ k - 1 \in 0 .. Len(ss)
      /\ (k - 1) + 1 = k
  OBVIOUS
<1>2. s \in Seq(T) /\ before \in Seq(T) /\ Joined(ss, k) = before \o s
  BY <1>1, JoinedNext, ElementOfSeq
<1> HIDE DEF s, before
<1>3. /\ at \in Nat /\ Len(s) \in Nat /\ at + Len(s) = Len(Joined(ss, k))
      /\ \A j \in 1 .. Len(s) : Joined(ss, k)[at + j] = s[j]
  <2>1. at \in Nat /\ Len(s) \in Nat /\ Len(before \o s) = at + Len(s)
    BY <1>2, LenProperties, ConcatProperties
  <2>2. ASSUME NEW j \in 1 .. Len(s) PROVE (before \o s)[at + j] = s[j]
    <3>1. at + j \in 1 .. (at + Len(s)) /\ ~ (at + j <= at) /\ (at + j) - at = j
      BY <2>1
    <3> QED BY <1>2, <3>1, ConcatProperties
  <2> QED BY <1>2, <2>1, <2>2
<1>4. ASSUME NEW m \in Nat, k <= m, m + 1 <= Len(ss), Holds(m) PROVE Holds(m + 1)
  <2> DEFINE u == Joined(ss, m)
             v == ss[m + 1]
  <2>1. m \in 0 .. (Len(ss) - 1) /\ m \in 0 .. Len(ss) /\ m + 1 \in 1 .. Len(ss)
    BY <1>4
  <2>2. u \in Seq(T) /\ v \in Seq(T) /\ Joined(ss, m + 1) = u \o v
    BY <2>1, JoinedNext, ElementOfSeq
  <2>3. at + Len(s) <= Len(u) /\ \A j \in 1 .. Len(s) : u[at + j] = s[j]
    BY <1>4
  <2> HIDE DEF u, v, at
  <2>4. Len(u) \in Nat /\ Len(v) \in Nat /\ Len(u \o v) = Len(u) + Len(v)
    BY <2>2, LenProperties, ConcatProperties
  <2>5. ASSUME NEW j \in 1 .. Len(s) PROVE (u \o v)[at + j] = s[j]
    <3>1. at + j \in 1 .. (Len(u) + Len(v)) /\ at + j <= Len(u)
      BY <1>3, <2>3, <2>4
    <3> QED BY <2>2, <2>3, <3>1, ConcatProperties
  <2> QED BY <1>3, <2>2, <2>3, <2>4, <2>5 DEF at
<1> HIDE DEF Holds, at
<1>5. Holds(k)
  BY <1>3 DEF Holds
<1>6. 0 \in S
  OBVIOUS
<1>7. ASSUME NEW m \in Nat, m \in S PROVE m + 1 \in S
  <2> SUFFICES ASSUME k <= m + 1, m + 1 <= Len(ss) PROVE Holds(m + 1)
    OBVIOUS
  <2>1. CASE k = m + 1
    BY <1>5, <2>1
  <2>2. CASE k # m + 1
    <3>1. k <= m
      BY <2>2
    <3> QED BY <1>4, <1>7, <3>1
  <2> QED BY <2>1, <2>2
<1>8. \A m \in Nat : m \in S
  <2> HIDE DEF S
  <2> QED BY <1>6, <1>7, Induction
<1>9. Holds(n)
  BY <1>8
<1> QED BY <1>3, <1>9 DEF Holds, at, s, before

-----------------------------------------------------------------------------
(* The digits of a number.                                                   *)
IsWriting(f, n) ==
    f = [k \in 0 .. n |-> IF k < 10 THEN <<k>> ELSE Append(f[k \div 10], k % 10)]

(* The recursive function in Decimals exists.                                *)
LEMMA WritingExists ==
    ASSUME NEW n \in Nat
    PROVE  \E f : IsWriting(f, n)
<1> DEFINE S == {m \in Nat : \E f : IsWriting(f, m)}
<1>1. 0 \in S
  <2> DEFINE f == [k \in 0 .. 0 |-> <<k>>]
  <2>1. IsWriting(f, 0)
    BY DEF IsWriting
  <2> QED BY <2>1
<1>2. ASSUME NEW m \in Nat, m \in S PROVE m + 1 \in S
  <2>1. PICK f : IsWriting(f, m)
    BY <1>2
  <2> DEFINE top == IF m + 1 < 10 THEN <<m + 1>> ELSE Append(f[(m + 1) \div 10], (m + 1) % 10)
             g == [k \in 0 .. (m + 1) |-> IF k <= m THEN f[k] ELSE top]
  <2>2. ASSUME NEW k \in 0 .. (m + 1)
        PROVE  g[k] = IF k < 10 THEN <<k>> ELSE Append(g[k \div 10], k % 10)
    <3>0. k >= 10 => k \div 10 \in 0 .. m
      OBVIOUS
    <3>1. CASE k = m + 1
      <4>1. g[k] = top /\ (k >= 10 => g[k \div 10] = f[k \div 10])
        BY <3>0, <3>1
      <4> HIDE DEF g
      <4> QED BY <3>1, <4>1
    <3>2. CASE k # m + 1
      <4>1. k \in 0 .. m
        BY <3>2
      <4>2. f[k] = IF k < 10 THEN <<k>> ELSE Append(f[k \div 10], k % 10)
        BY <2>1, <4>1 DEF IsWriting
      <4>3. g[k] = f[k] /\ (k >= 10 => g[k \div 10] = f[k \div 10])
        BY <3>0, <4>1
      <4> HIDE DEF g
      <4> QED BY <4>1, <4>2, <4>3
    <3> QED BY <3>1, <3>2
  <2>3. IsWriting(g, m + 1)
    <3>1. g = [k \in 0 .. (m + 1) |-> g[k]]
      OBVIOUS
    <3> HIDE DEF g
    <3> QED BY <2>2, <3>1 DEF IsWriting
  <2> QED BY <2>3
<1>3. \A m \in Nat : m \in S
  <2> HIDE DEF S
  <2> QED BY <1>1, <1>2, Induction
<1> QED BY <1>3

(* Decimals is such a function, applied to the number.                       *)
LEMMA DecimalsIsWriting ==
    ASSUME NEW n \in Nat
    PROVE  \E f : IsWriting(f, n) /\ Decimals(n) = f[n]
<1> DEFINE f == CHOOSE g : IsWriting(g, n)
<1>1. IsWriting(f, n)
  BY WritingExists
<1>2. Decimals(n) = f[n]
  BY DEF Decimals, IsWriting
<1> QED BY <1>1, <1>2

(* They are digits, and what they say is the number.                         *)
Says(s, n) ==
    /\ s \in Seq(Digit) /\ Len(s) >= 1
    /\ \A b : \A i \in Nat :
          (\A j \in 1 .. Len(s) : ByteAt(b, i + j - 1) = s[j]) => Decimal(b, i, i + Len(s)) = n

(* A digit says its number.                                                  *)
LEMMA OneDigitSays ==
    ASSUME NEW n \in Digit
    PROVE  Says(<<n>>, n)
<1> DEFINE s == <<n>>
<1>1. s \in Seq(Digit) /\ Len(s) = 1 /\ s[1] = n /\ n \in Nat
  BY DEF Digit
<1> HIDE DEF s
<1>2. ASSUME NEW b, NEW i \in Nat, \A j \in 1 .. Len(s) : ByteAt(b, i + j - 1) = s[j]
      PROVE  Decimal(b, i, i + Len(s)) = n
  <2>1. 1 \in 1 .. Len(s) /\ i + 1 - 1 = i
    BY <1>1
  <2>2. ByteAt(b, i) = n
    <3>1. ByteAt(b, i + 1 - 1) = s[1]
      BY <1>2, <2>1
    <3> QED BY <1>1, <2>1, <3>1
  <2>3. Decimal(b, i, i + 1) = Decimal(b, i, i) * 10 + ByteAt(b, i)
    BY DecimalNext
  <2>4. Decimal(b, i, i) = 0
    BY DecimalEmpty
  <2> QED BY <1>1, <2>2, <2>3, <2>4
<1>3. Len(s) >= 1
  BY <1>1
<1>4. Says(s, n)
  BY <1>1, <1>2, <1>3, Zenon DEF Says
<1> QED BY <1>4 DEF s

(* A number is its last digit and, if it has more than one, a smaller number *)
(* before it.                                                                *)
LEMMA LastDigit ==
    ASSUME NEW n \in Nat
    PROVE  /\ n % 10 \in Digit /\ n \div 10 \in Nat /\ n = (n \div 10) * 10 + (n % 10)
           /\ n >= 10 => n \div 10 < n
<1>1. n \div 10 \in Nat /\ n % 10 \in 0 .. 9
  OBVIOUS
<1>2. n = 10 * (n \div 10) + (n % 10)
  OBVIOUS
<1>3. n >= 10 => n \div 10 < n
  BY <1>1, <1>2
<1>4. \A q, r \in Nat : 10 * q + r = q * 10 + r
  OBVIOUS
<1>5. n = (n \div 10) * 10 + (n % 10)
  BY <1>1, <1>2, <1>4
<1> QED BY <1>1, <1>3, <1>5 DEF Digit

(* Digits that say a number, and one more, say ten times the number and the  *)
(* digit.                                                                    *)
LEMMA NextDigitSays ==
    ASSUME NEW n \in Nat, NEW s, Says(s, n \div 10)
    PROVE  Says(Append(s, n % 10), n)
<1> DEFINE t == Append(s, n % 10)
<1>1. n % 10 \in Digit /\ n = (n \div 10) * 10 + (n % 10) /\ n \div 10 \in Nat
  BY LastDigit
<1>2. /\ s \in Seq(Digit) /\ Len(s) \in Nat /\ t \in Seq(Digit) /\ Len(t) = Len(s) + 1
      /\ t[Len(s) + 1] = n % 10 /\ \A j \in 1 .. Len(s) : t[j] = s[j]
  BY <1>1 DEF Says
<1> HIDE DEF t
<1>3. ASSUME NEW b, NEW i \in Nat, \A j \in 1 .. Len(t) : ByteAt(b, i + j - 1) = t[j]
      PROVE  Decimal(b, i, i + Len(t)) = n
  <2> DEFINE l == Len(s)
  <2>1. l \in Nat /\ Len(t) = l + 1 /\ i + l \in Nat /\ i + (l + 1) = (i + l) + 1 /\ i <= i + l
    BY <1>2
  <2>2. \A j \in 1 .. l : ByteAt(b, i + j - 1) = s[j]
    BY <1>2, <1>3
  <2>3. Decimal(b, i, i + l) = n \div 10
    <3>1. \A c : \A h \in Nat :
            (\A j \in 1 .. Len(s) : ByteAt(c, h + j - 1) = s[j])
               => Decimal(c, h, h + Len(s)) = n \div 10
      BY DEF Says
    <3> QED BY <2>2, <3>1
  <2>4. ByteAt(b, i + l) = n % 10
    <3>1. l + 1 \in 1 .. Len(t) /\ i + (l + 1) - 1 = i + l
      BY <2>1
    <3>2. ByteAt(b, i + (l + 1) - 1) = t[l + 1]
      BY <1>3, <3>1
    <3> QED BY <1>2, <3>1, <3>2
  <2>5. Decimal(b, i, (i + l) + 1) = Decimal(b, i, i + l) * 10 + ByteAt(b, i + l)
    BY <2>1, DecimalNext
  <2> HIDE DEF l
  <2> QED BY <1>1, <2>1, <2>3, <2>4, <2>5
<1>4. Len(t) >= 1
  BY <1>2
<1>5. Says(t, n)
  BY <1>2, <1>3, <1>4, Zenon DEF Says
<1> QED BY <1>5 DEF t

(* What an f-string writes for an integer says that integer.                 *)
LEMMA DecimalsSay ==
    ASSUME NEW n \in Nat
    PROVE  Says(Decimals(n), n)
<1>1. PICK f : IsWriting(f, n) /\ Decimals(n) = f[n]
  BY DecimalsIsWriting
<1> DEFINE T == {k \in 0 .. n : ~Says(f[k], k)}
<1> SUFFICES ASSUME T # {} PROVE FALSE
  BY <1>1
<1>2. PICK k \in T : \A m \in T : k <= m
  <2>1. T \in SUBSET Nat
    OBVIOUS
  <2> HIDE DEF T
  <2> QED BY <2>1, LeastNatural
<1>3. k \in 0 .. n /\ f[k] = IF k < 10 THEN <<k>> ELSE Append(f[k \div 10], k % 10)
  BY <1>1 DEF IsWriting
<1>4. CASE k < 10
  <2>1. k \in Digit
    BY <1>3, <1>4 DEF Digit
  <2> QED BY <1>2, <1>3, <1>4, <2>1, OneDigitSays
<1>5. CASE ~ (k < 10)
  <2>1. k \div 10 \in 0 .. n /\ ~ (k <= k \div 10) /\ k \in Nat
    <3>1. k \in Nat /\ k >= 10 /\ k <= n
      BY <1>3, <1>5
    <3> QED BY <3>1, LastDigit
  <2>2. Says(f[k \div 10], k \div 10)
    BY <1>2, <2>1
  <2> QED BY <1>2, <1>3, <1>5, <2>1, <2>2, NextDigitSays
<1> QED BY <1>4, <1>5

(* The tags 8 and 9 are written with one digit.                              *)
LEMMA OneDigit ==
    ASSUME NEW n \in 0 .. 9
    PROVE  Decimals(n) = <<n>>
<1>1. PICK f : IsWriting(f, n) /\ Decimals(n) = f[n]
  BY DecimalsIsWriting
<1> QED BY <1>1 DEF IsWriting

(* The tags 10 and 35 are written with two digits.                           *)
LEMMA TwoDigits ==
    ASSUME NEW n \in 10 .. 99
    PROVE  Decimals(n) = <<n \div 10, n % 10>>
<1>1. PICK f : IsWriting(f, n) /\ Decimals(n) = f[n]
  BY DecimalsIsWriting
<1>2. n \in 0 .. n /\ ~ (n < 10) /\ n \div 10 \in 0 .. n /\ n \div 10 < 10
  OBVIOUS
<1>3. f[n] = Append(f[n \div 10], n % 10) /\ f[n \div 10] = <<n \div 10>>
  BY <1>1, <1>2 DEF IsWriting
<1>4. Append(<<n \div 10>>, n % 10) = <<n \div 10, n % 10>>
  <2>1. n \div 10 \in Nat /\ n % 10 \in Nat
    OBVIOUS
  <2>2. ASSUME NEW x \in Nat, NEW y \in Nat PROVE Append(<<x>>, y) = <<x, y>>
    <3> DEFINE u == Append(<<x>>, y)
               v == <<x, y>>
    <3>1. /\ u \in Seq(Nat) /\ v \in Seq(Nat) /\ Len(u) = 2 /\ Len(v) = 2
          /\ u[1] = x /\ u[2] = y /\ v[1] = x /\ v[2] = y
      OBVIOUS
    <3> HIDE DEF u, v
    <3>2. \A k \in 1 .. 2 : u[k] = v[k]
      BY <3>1
    <3>3. u = v
      BY <3>1, <3>2, SeqEqual
    <3> QED BY <3>3 DEF u, v
  <2> QED BY <2>1, <2>2
<1> QED BY <1>1, <1>3, <1>4

-----------------------------------------------------------------------------
(* A rendered field: the digits of its tag, '=', its value and <SOH>.        *)
LEMMA FieldParts ==
    ASSUME NEW f \in Field
    PROVE  /\ f.tag \in Nat /\ f.tag \in UInt32 /\ f.tag # 0 /\ Representable(f.tag)
           /\ f.value \in Seq(Byte) /\ Len(f.value) \in Nat
           /\ \A j \in 1 .. Len(f.value) : f.value[j] \in Byte /\ f.value[j] # Soh
           /\ Says(Decimals(f.tag), f.tag)
           /\ Decimals(f.tag) \in Seq(Byte) /\ Len(Decimals(f.tag)) \in Nat
           /\ Len(Decimals(f.tag)) >= 1
           /\ \A j \in 1 .. Len(Decimals(f.tag)) : Decimals(f.tag)[j] \in Digit
<1>1. f.tag \in Nat /\ f.tag \in UInt32 /\ f.tag # 0 /\ Representable(f.tag)
  BY DEF Field, UInt32
<1>2. f.value \in Seq(Byte \ {Soh})
  BY DEF Field
<1>3. f.value \in Seq(Byte) /\ Len(f.value) \in Nat
  BY <1>2
<1>4. \A j \in 1 .. Len(f.value) : f.value[j] \in Byte \ {Soh}
  BY <1>2
<1>5. Says(Decimals(f.tag), f.tag)
  BY <1>1, DecimalsSay
<1> DEFINE d == Decimals(f.tag)
<1>6. d \in Seq(Digit) /\ Len(d) >= 1
  BY <1>5 DEF Says
<1> HIDE DEF d
<1>7. d \in Seq(Byte) /\ Len(d) \in Nat /\ \A j \in 1 .. Len(d) : d[j] \in Digit
  <2>1. Digit \subseteq Byte
    BY DEF Digit, Byte
  <2>2. d \in Seq(Byte)
    BY <1>6, <2>1, SeqMonotonic
  <2> QED BY <1>6, <2>2
<1> QED BY <1>1, <1>3, <1>4, <1>5, <1>6, <1>7 DEF d

(* The bytes of a rendered field, one part after the other.                  *)
LEMMA FieldBytes ==
    ASSUME NEW f \in Field
    PROVE  LET d == Decimals(f.tag)
               l == Len(f.value)
               r == RenderField(f)
           IN  /\ r \in Seq(Byte) /\ Len(r) = Len(d) + l + 2
               /\ \A j \in 1 .. Len(d) : r[j] = d[j]
               /\ r[Len(d) + 1] = Equals
               /\ \A j \in 1 .. l : r[Len(d) + 1 + j] = f.value[j]
               /\ r[Len(d) + l + 2] = Soh
<1> DEFINE d == Decimals(f.tag)
           v == f.value
           n == Len(d)
           l == Len(v)
           x == d \o <<Equals>>
           y == x \o v
           r == y \o <<Soh>>
<1>1. d \in Seq(Byte) /\ v \in Seq(Byte) /\ n \in Nat /\ l \in Nat
  BY FieldParts
<1>2. /\ <<Equals>> \in Seq(Byte) /\ <<Soh>> \in Seq(Byte)
      /\ Len(<<Equals>>) = 1 /\ Len(<<Soh>>) = 1
      /\ <<Equals>>[1] = Equals /\ <<Soh>>[1] = Soh
  BY DEF Byte, Equals, Soh
<1> HIDE DEF d, v
<1>3. /\ x \in Seq(Byte) /\ Len(x) = n + 1
      /\ \A j \in 1 .. n : x[j] = d[j]
      /\ x[n + 1] = Equals
  <2>1. /\ x \in Seq(Byte) /\ Len(x) = n + 1
        /\ \A j \in 1 .. (n + 1) : x[j] = IF j <= n THEN d[j] ELSE <<Equals>>[j - n]
    BY <1>1, <1>2, ConcatProperties
  <2>2. n + 1 \in 1 .. (n + 1) /\ ~ (n + 1 <= n) /\ (n + 1) - n = 1
    BY <1>1
  <2> HIDE DEF x
  <2> QED BY <1>1, <1>2, <2>1, <2>2
<1> HIDE DEF x
<1>4. /\ y \in Seq(Byte) /\ Len(y) = n + 1 + l
      /\ \A j \in 1 .. (n + 1) : y[j] = x[j]
      /\ \A j \in 1 .. l : y[n + 1 + j] = v[j]
  <2>1. /\ y \in Seq(Byte) /\ Len(y) = n + 1 + l
        /\ \A j \in 1 .. (n + 1 + l) : y[j] = IF j <= n + 1 THEN x[j] ELSE v[j - (n + 1)]
    BY <1>1, <1>3, ConcatProperties
  <2>2. \A j \in 1 .. l : n + 1 + j \in 1 .. (n + 1 + l) /\ ~ (n + 1 + j <= n + 1)
                          /\ (n + 1 + j) - (n + 1) = j
    BY <1>1
  <2>3. \A j \in 1 .. (n + 1) : j \in 1 .. (n + 1 + l) /\ j <= n + 1
    BY <1>1
  <2> HIDE DEF y
  <2>4. \A j \in 1 .. l : y[n + 1 + j] = v[j]
    BY <2>1, <2>2
  <2>5. \A j \in 1 .. (n + 1) : y[j] = x[j]
    BY <2>1, <2>3
  <2> QED BY <2>1, <2>4, <2>5
<1> HIDE DEF y
<1>5. /\ r \in Seq(Byte) /\ Len(r) = n + l + 2
      /\ \A j \in 1 .. (n + 1 + l) : r[j] = y[j]
      /\ r[n + l + 2] = Soh
  <2>1. /\ r \in Seq(Byte) /\ Len(r) = (n + 1 + l) + 1
        /\ \A j \in 1 .. ((n + 1 + l) + 1) :
              r[j] = IF j <= n + 1 + l THEN y[j] ELSE <<Soh>>[j - (n + 1 + l)]
    BY <1>2, <1>4, ConcatProperties
  <2>2. /\ (n + 1 + l) + 1 = n + l + 2 /\ n + l + 2 \in 1 .. ((n + 1 + l) + 1)
        /\ ~ (n + l + 2 <= n + 1 + l) /\ (n + l + 2) - (n + 1 + l) = 1
    BY <1>1
  <2>3. \A j \in 1 .. (n + 1 + l) : j \in 1 .. ((n + 1 + l) + 1) /\ j <= n + 1 + l
    BY <1>1
  <2> HIDE DEF r
  <2>4. \A j \in 1 .. (n + 1 + l) : r[j] = y[j]
    BY <2>1, <2>3
  <2>5. r[n + l + 2] = Soh
    BY <1>2, <2>1, <2>2
  <2> QED BY <2>1, <2>2, <2>4, <2>5
<1> HIDE DEF r
<1>6. /\ \A j \in 1 .. n : j \in 1 .. (n + 1) /\ j \in 1 .. (n + 1 + l)
      /\ n + 1 \in 1 .. (n + 1) /\ n + 1 \in 1 .. (n + 1 + l)
      /\ \A j \in 1 .. l : n + 1 + j \in 1 .. (n + 1 + l)
  BY <1>1
<1>7. /\ \A j \in 1 .. n : r[j] = d[j]
      /\ r[n + 1] = Equals
      /\ \A j \in 1 .. l : r[n + 1 + j] = v[j]
  BY <1>3, <1>4, <1>5, <1>6
<1>8. RenderField(f) = r
  BY DEF RenderField, r, y, x, d, v
<1> HIDE DEF n, l
<1>9. r \in Seq(Byte) /\ Len(r) = n + l + 2 /\ r[n + l + 2] = Soh
  BY <1>5
<1> QED BY <1>7, <1>8, <1>9 DEF n, l, d, v

(* The entry of a field that stands at offset s.                             *)
EntryAt(s, f) ==
    LET v == s + Len(Decimals(f.tag)) + 1
    IN  [tag_start |-> s, value_start |-> v, value_end |-> v + Len(f.value), tag_number |-> f.tag]

StandsAt(b, s, r) == s + Len(r) <= Len(b) /\ \A j \in 1 .. Len(r) : b[s + j] = r[j]

(* Wherever a rendered field stands in a buffer, its entry is well formed,   *)
(* and tag and value are read back from the bytes.                           *)
LEMMA FieldStands ==
    ASSUME NEW b \in Seq(Byte), NEW s \in Nat, NEW f \in Field, StandsAt(b, s, RenderField(f))
    PROVE  LET e == EntryAt(s, f)
               d == Decimals(f.tag)
           IN  /\ e.tag_start = s /\ e.value_start \in Nat /\ e.value_end \in Nat
               /\ e.tag_number = f.tag
               /\ e.value_start = s + Len(d) + 1
               /\ e.value_end = e.value_start + Len(f.value)
               /\ e.value_end + 1 = s + Len(RenderField(f))
               /\ WellFormedField(b, e) /\ TagRead(b, e)
               /\ \A j \in 1 .. Len(d) : ByteAt(b, s + j - 1) = d[j]
               /\ ByteAt(b, s + Len(d)) = Equals
               /\ \A j \in 1 .. Len(f.value) : ByteAt(b, e.value_start + j - 1) = f.value[j]
<1> DEFINE e == EntryAt(s, f)
           d == Decimals(f.tag)
           n == Len(d)
           l == Len(f.value)
           r == RenderField(f)
<1>1. /\ f.tag \in Nat /\ Representable(f.tag) /\ n \in Nat /\ n >= 1 /\ l \in Nat
      /\ Says(d, f.tag) /\ \A j \in 1 .. n : d[j] \in Digit
      /\ \A j \in 1 .. l : f.value[j] # Soh
  BY FieldParts
<1>2. /\ r \in Seq(Byte) /\ Len(r) = n + l + 2
      /\ \A j \in 1 .. n : r[j] = d[j]
      /\ r[n + 1] = Equals
      /\ \A j \in 1 .. l : r[n + 1 + j] = f.value[j]
      /\ r[n + l + 2] = Soh
  BY FieldBytes
<1>3. /\ e.tag_start = s /\ e.value_start = s + n + 1 /\ e.value_end = s + n + 1 + l
      /\ e.tag_number = f.tag
  BY DEF EntryAt
<1> HIDE DEF e, d, r, n, l
<1>4. s + (n + l + 2) <= Len(b) /\ Len(b) \in Nat /\ \A j \in 1 .. (n + l + 2) : b[s + j] = r[j]
  <2>1. s + Len(r) <= Len(b) /\ \A j \in 1 .. Len(r) : b[s + j] = r[j]
    BY DEF StandsAt, r
  <2> QED BY <1>2, <2>1
<1>5. ASSUME NEW j \in 1 .. n PROVE ByteAt(b, s + j - 1) = d[j]
  <2>1. j \in 1 .. (n + l + 2) /\ (s + j - 1) + 1 = s + j
    BY <1>1
  <2> QED BY <1>2, <1>4, <2>1 DEF ByteAt
<1>6. ByteAt(b, s + n) = Equals
  <2>1. n + 1 \in 1 .. (n + l + 2) /\ (s + n) + 1 = s + (n + 1)
    BY <1>1
  <2> QED BY <1>2, <1>4, <2>1 DEF ByteAt
<1>7. ASSUME NEW j \in 1 .. l PROVE ByteAt(b, s + n + 1 + j - 1) = f.value[j]
  <2>1. n + 1 + j \in 1 .. (n + l + 2) /\ (s + n + 1 + j - 1) + 1 = s + (n + 1 + j)
    BY <1>1
  <2> QED BY <1>2, <1>4, <2>1 DEF ByteAt
<1>8. ByteAt(b, s + n + 1 + l) = Soh
  <2>1. n + l + 2 \in 1 .. (n + l + 2) /\ (s + n + 1 + l) + 1 = s + (n + l + 2)
    BY <1>1
  <2> QED BY <1>2, <1>4, <2>1 DEF ByteAt
<1>9. ASSUME NEW k \in s .. (s + n - 1) PROVE IsDigit(ByteAt(b, k))
  <2>1. k - s + 1 \in 1 .. n /\ s + (k - s + 1) - 1 = k
    BY <1>1
  <2> QED BY <1>1, <1>5, <2>1 DEF IsDigit
<1>10. ASSUME NEW k \in (s + n + 1) .. (s + n + 1 + l - 1) PROVE ByteAt(b, k) # Soh
  <2>1. k - (s + n) \in 1 .. l /\ s + n + 1 + (k - (s + n)) - 1 = k
    BY <1>1
  <2> QED BY <1>1, <1>7, <2>1
<1>11. WellFormedField(b, e)
  <2>1. /\ s < (s + n + 1) - 1 /\ s + n + 1 <= s + n + 1 + l /\ s + n + 1 + l < Len(b)
        /\ (s + n + 1) - 1 = s + n /\ (s + n + 1) - 2 = s + n - 1
    BY <1>1, <1>4
  <2>2. /\ e.tag_start < e.value_start - 1 /\ e.value_start <= e.value_end
        /\ e.value_end < Len(b)
    BY <1>3, <2>1
  <2>3. \A k \in e.tag_start .. (e.value_start - 2) : IsDigit(ByteAt(b, k))
    BY <1>3, <1>9, <2>1
  <2>4. ByteAt(b, e.value_start - 1) = Equals
    BY <1>3, <1>6, <2>1
  <2>5. \A k \in e.value_start .. (e.value_end - 1) : ByteAt(b, k) # Soh
    <3>1. e.value_start = s + n + 1 /\ e.value_end - 1 = s + n + 1 + l - 1
      BY <1>1, <1>3
    <3> QED BY <1>10, <3>1, Zenon
  <2>6. ByteAt(b, e.value_end) = Soh
    BY <1>3, <1>8
  <2> QED BY <2>2, <2>3, <2>4, <2>5, <2>6 DEF WellFormedField
<1>12. TagRead(b, e)
  <2>1. Decimal(b, s, s + n) = f.tag
    <3>1. \A c : \A h \in Nat :
            (\A j \in 1 .. Len(d) : ByteAt(c, h + j - 1) = d[j])
               => Decimal(c, h, h + Len(d)) = f.tag
      BY <1>1 DEF Says
    <3>2. \A j \in 1 .. Len(d) : ByteAt(b, s + j - 1) = d[j]
      BY <1>5 DEF n
    <3>3. Decimal(b, s, s + Len(d)) = f.tag
      BY <3>1, <3>2
    <3> QED BY <3>3 DEF n
  <2>2. (s + n + 1) - 1 = s + n
    BY <1>1
  <2> QED BY <1>1, <1>3, <2>1, <2>2 DEF TagRead, NumberRead
<1>13. /\ e.value_start \in Nat /\ e.value_end \in Nat /\ e.value_end = e.value_start + l
       /\ e.value_end + 1 = s + Len(r)
  BY <1>1, <1>2, <1>3
<1> QED BY <1>3, <1>5, <1>6, <1>7, <1>11, <1>12, <1>13 DEF e, d, r, n, l

-----------------------------------------------------------------------------
(* Rendered fields stand one after the other.                                *)
Rendering(fs) == [n \in 1 .. Len(fs) |-> RenderField(fs[n])]

Offset(fs, k) == Len(Joined(Rendering(fs), k))

(* The rendered fields, one by one and joined.                               *)
LEMMA RenderingIs ==
    ASSUME NEW fs \in Seq(Field)
    PROVE  /\ Rendering(fs) \in Seq(Seq(Byte)) /\ Len(Rendering(fs)) = Len(fs)
           /\ Len(fs) \in Nat
           /\ \A k \in 1 .. Len(fs) : fs[k] \in Field /\ Rendering(fs)[k] = RenderField(fs[k])
           /\ RenderFields(fs) = Joined(Rendering(fs), Len(fs))
           /\ RenderFields(fs) \in Seq(Byte)
<1> DEFINE R == Rendering(fs)
<1>1. Len(fs) \in Nat /\ \A k \in 1 .. Len(fs) : fs[k] \in Field
  OBVIOUS
<1>2. \A k \in 1 .. Len(fs) : RenderField(fs[k]) \in Seq(Byte)
  BY <1>1, FieldBytes
<1>3. /\ R \in Seq(Seq(Byte)) /\ Len(R) = Len(fs)
      /\ \A k \in 1 .. Len(fs) : R[k] = RenderField(fs[k])
  BY <1>1, <1>2 DEF Rendering
<1>4. RenderFields(fs) = Joined(R, Len(fs))
  <2>1. RenderFields(fs) = Sequence!FlattenSeq(R)
    BY DEF RenderFields, Rendering
  <2> HIDE DEF R
  <2> QED BY <1>3, <2>1, JoinedNext
<1>5. Joined(R, Len(fs)) \in Seq(Byte)
  <2>1. Len(R) \in 0 .. Len(R)
    BY <1>1, <1>3
  <2> HIDE DEF R
  <2> QED BY <1>3, <2>1, JoinedNext
<1> QED BY <1>1, <1>3, <1>4, <1>5

(* Field k stands where the fields before it end.                            *)
LEMMA StartsAre ==
    ASSUME NEW fs \in Seq(Field)
    PROVE  /\ Offset(fs, 0) = 0 /\ Offset(fs, Len(fs)) = Len(RenderFields(fs))
           /\ \A k \in 0 .. Len(fs) : Offset(fs, k) \in Nat
           /\ \A k \in 1 .. Len(fs) :
                 /\ Offset(fs, k) = Offset(fs, k - 1) + Len(RenderField(fs[k]))
                 /\ Offset(fs, k) <= Len(RenderFields(fs))
                 /\ StandsAt(RenderFields(fs), Offset(fs, k - 1), RenderField(fs[k]))
<1> DEFINE R == Rendering(fs)
           n == Len(fs)
           b == RenderFields(fs)
<1>1. /\ R \in Seq(Seq(Byte)) /\ Len(R) = n /\ n \in Nat
      /\ \A k \in 1 .. n : R[k] = RenderField(fs[k])
      /\ b = Joined(R, n) /\ b \in Seq(Byte)
  BY RenderingIs
<1>2. Offset(fs, 0) = 0
  <2>1. Joined(R, 0) = << >>
    <3> HIDE DEF R
    <3> QED BY <1>1, JoinedNext
  <2> QED BY <2>1 DEF Offset
<1>3. Offset(fs, n) = Len(b)
  BY <1>1 DEF Offset
<1>4. ASSUME NEW k \in 0 .. n PROVE Offset(fs, k) \in Nat
  <2>1. Joined(R, k) \in Seq(Byte)
    <3> HIDE DEF R
    <3> QED BY <1>1, JoinedNext
  <2> QED BY <2>1 DEF Offset
<1>5. ASSUME NEW k \in 1 .. n
      PROVE  /\ Offset(fs, k) = Offset(fs, k - 1) + Len(RenderField(fs[k]))
             /\ Offset(fs, k) <= Len(b)
             /\ StandsAt(b, Offset(fs, k - 1), RenderField(fs[k]))
  <2>1. n \in 0 .. Len(R) /\ k \in 1 .. n
    BY <1>1
  <2>2. /\ Len(Joined(R, k - 1)) + Len(R[k]) = Len(Joined(R, k))
        /\ Len(Joined(R, k)) <= Len(Joined(R, n))
        /\ \A j \in 1 .. Len(R[k]) : Joined(R, n)[Len(Joined(R, k - 1)) + j] = R[k][j]
    <3> HIDE DEF R, n
    <3> QED BY <1>1, <2>1, JoinedHolds
  <2>3. R[k] = RenderField(fs[k])
    BY <1>1
  <2>4. /\ Offset(fs, k - 1) + Len(RenderField(fs[k])) = Offset(fs, k)
        /\ Offset(fs, k) <= Len(b)
        /\ \A j \in 1 .. Len(RenderField(fs[k])) : b[Offset(fs, k - 1) + j] = RenderField(fs[k])[j]
    <3> HIDE DEF b, n
    <3> QED BY <1>1, <2>2, <2>3 DEF Offset
  <2> QED BY <2>4 DEF StandsAt
<1> QED BY <1>2, <1>3, <1>4, <1>5

(* The fields of a message keep their distances inside another one.          *)
LEMMA StartsShift ==
    ASSUME NEW fs \in Seq(Field), NEW gs \in Seq(Field), NEW a \in Nat,
           a + Len(gs) <= Len(fs), \A k \in 1 .. Len(gs) : fs[a + k] = gs[k]
    PROVE  \A k \in 0 .. Len(gs) : Offset(fs, a + k) = Offset(fs, a) + Offset(gs, k)
<1> DEFINE S == {k \in Nat : k <= Len(gs) => Offset(fs, a + k) = Offset(fs, a) + Offset(gs, k)}
<1>0. Len(fs) \in Nat /\ Len(gs) \in Nat
  OBVIOUS
<1>1. 0 \in S
  <2>1. Offset(gs, 0) = 0 /\ Offset(fs, a) \in Nat /\ a + 0 = a
    <3>1. a \in 0 .. Len(fs)
      BY <1>0
    <3> QED BY <3>1, StartsAre
  <2> QED BY <2>1
<1>2. ASSUME NEW k \in Nat, k \in S PROVE k + 1 \in S
  <2> SUFFICES ASSUME k + 1 <= Len(gs)
               PROVE  Offset(fs, a + (k + 1)) = Offset(fs, a) + Offset(gs, k + 1)
    OBVIOUS
  <2>1. /\ k + 1 \in 1 .. Len(gs) /\ a + (k + 1) \in 1 .. Len(fs) /\ (k + 1) - 1 = k
        /\ (a + (k + 1)) - 1 = a + k /\ k \in 0 .. Len(gs) /\ a + k \in 0 .. Len(fs)
        /\ a \in 0 .. Len(fs) /\ k <= Len(gs)
    BY <1>0
  <2>2. Offset(gs, k + 1) = Offset(gs, (k + 1) - 1) + Len(RenderField(gs[k + 1]))
    BY <2>1, StartsAre
  <2>3. Offset(fs, a + (k + 1)) = Offset(fs, (a + (k + 1)) - 1) + Len(RenderField(fs[a + (k + 1)]))
    BY <2>1, StartsAre
  <2>4. fs[a + (k + 1)] = gs[k + 1]
    BY <2>1
  <2>5. Offset(fs, a + k) = Offset(fs, a) + Offset(gs, k)
    BY <1>2, <2>1
  <2>6. Offset(fs, a) \in Nat /\ Offset(gs, k) \in Nat
    BY <2>1, StartsAre
  <2>7. Len(RenderField(gs[k + 1])) \in Nat
    <3>1. gs[k + 1] \in Field
      BY <2>1
    <3>2. RenderField(gs[k + 1]) \in Seq(Byte)
      BY <3>1, FieldBytes
    <3> QED BY <3>2
  <2> QED BY <2>1, <2>2, <2>3, <2>4, <2>5, <2>6, <2>7
<1>3. \A k \in Nat : k \in S
  <2> HIDE DEF S
  <2> QED BY <1>1, <1>2, Induction
<1> QED BY <1>0, <1>3

(* The fields of a rendered message.                                         *)
LEMMA EnvelopeIs ==
    ASSUME NEW m \in Template, NEW F, F = Envelope(m)
    PROVE  /\ m \in Seq(Field) /\ Len(m) \in Nat /\ Len(m) >= 1
           /\ F \in Seq(Field) /\ Len(F) = Len(m) + 3
           /\ F[1] = [tag |-> 8, value |-> <<Other>>]
           /\ F[2] = [tag |-> 9, value |-> Decimals(Len(RenderFields(m)))]
           /\ \A k \in 1 .. Len(m) : F[2 + k] = m[k]
           /\ F[3].tag = 35
           /\ F[Len(m) + 3] = [tag |-> 10, value |-> <<0, 0, 0>>]
<1> DEFINE x == [tag |-> 8, value |-> <<Other>>]
           y == [tag |-> 9, value |-> Decimals(Len(RenderFields(m)))]
           z == [tag |-> 10, value |-> <<0, 0, 0>>]
           n == Len(m)
<1>1. m \in Seq(Field) /\ m # << >> /\ m[1].tag = 35
  BY DEF Template
<1>2. n \in Nat /\ n >= 1
  BY <1>1, EmptySeq
<1>3. \A t \in {8, 9, 10} : t \in UInt32 \ {0} /\ Representable(t)
  <2>1. \A t \in {8, 9, 10} : t \in 0 .. 99 /\ t \in UInt32 \ {0}
    BY WidthAssumption DEF UInt32
  <2> QED BY <2>1, SmallIsRepresentable
<1>4. x \in Field /\ z \in Field
  <2>1. <<Other>> \in Seq(Byte \ {Soh}) /\ <<0, 0, 0>> \in Seq(Byte \ {Soh})
    BY DEF Byte, Other, Soh
  <2> QED BY <1>3, <2>1 DEF Field
<1>5. y \in Field
  <2>1. Len(RenderFields(m)) \in Nat
    BY <1>1, RenderingIs
  <2>2. Decimals(Len(RenderFields(m))) \in Seq(Digit)
    BY <2>1, DecimalsSay DEF Says
  <2>3. Digit \subseteq Byte \ {Soh}
    BY DEF Digit, Byte, Soh
  <2>4. Decimals(Len(RenderFields(m))) \in Seq(Byte \ {Soh})
    BY <2>2, <2>3, SeqMonotonic
  <2> QED BY <1>3, <2>4 DEF Field
<1>6. F = (<<x, y>> \o m) \o <<z>>
  BY DEF Envelope
<1> HIDE DEF x, y, z
<1>7. /\ <<x, y>> \in Seq(Field) /\ Len(<<x, y>>) = 2 /\ <<x, y>>[1] = x /\ <<x, y>>[2] = y
      /\ <<z>> \in Seq(Field) /\ Len(<<z>>) = 1 /\ <<z>>[1] = z
  BY <1>4, <1>5
<1> DEFINE u == <<x, y>> \o m
<1>8. /\ u \in Seq(Field) /\ Len(u) = 2 + n
      /\ \A k \in 1 .. (2 + n) : u[k] = IF k <= 2 THEN <<x, y>>[k] ELSE m[k - 2]
  BY <1>1, <1>7, ConcatProperties
<1> HIDE DEF u
<1>9. /\ F \in Seq(Field) /\ Len(F) = 2 + n + 1
      /\ \A k \in 1 .. (2 + n + 1) : F[k] = IF k <= 2 + n THEN u[k] ELSE <<z>>[k - (2 + n)]
  BY <1>6, <1>7, <1>8, ConcatProperties DEF u
<1>10. F[1] = x /\ F[2] = y
  <2>1. \A k \in {1, 2} : k \in 1 .. (2 + n) /\ k \in 1 .. (2 + n + 1) /\ k <= 2 + n /\ k <= 2
    BY <1>2
  <2> QED BY <1>7, <1>8, <1>9, <2>1
<1>11. ASSUME NEW k \in 1 .. n PROVE F[2 + k] = m[k]
  <2>1. /\ 2 + k \in 1 .. (2 + n) /\ 2 + k \in 1 .. (2 + n + 1) /\ 2 + k <= 2 + n
        /\ ~ (2 + k <= 2) /\ (2 + k) - 2 = k
    BY <1>2
  <2> QED BY <1>8, <1>9, <2>1
<1>12. F[n + 3] = z
  <2>1. /\ n + 3 \in 1 .. (2 + n + 1) /\ ~ (n + 3 <= 2 + n) /\ (n + 3) - (2 + n) = 1
    BY <1>2
  <2> QED BY <1>7, <1>9, <2>1
<1>13. F[3].tag = 35
  <2>1. 1 \in 1 .. n /\ 2 + 1 = 3
    BY <1>2
  <2> QED BY <1>1, <1>11, <2>1
<1>14. 2 + n + 1 = n + 3
  BY <1>2
<1> QED BY <1>1, <1>2, <1>9, <1>10, <1>11, <1>12, <1>13, <1>14 DEF x, y, z

-----------------------------------------------------------------------------
(* The index of a rendered message.                                          *)
Layout(m) ==
    LET F == Envelope(m)
        n == Len(m) + 3
    IN  [begin_string_idx |-> 0, body_length_idx |-> 1, msg_type_idx |-> 2,
         checksum_idx |-> n - 1, declared_body_length |-> Len(RenderFields(m)),
         frame_length |-> Len(Render(m)), field_count |-> n,
         fields |-> [k \in 0 .. (n - 1) |-> EntryAt(Offset(F, k), F[k + 1])]]

(* The length of a body inside a buffer of 32-bit offsets is representable.  *)
LEMMA BodyIsRepresentable ==
    ASSUME NEW n \in Nat, n + 15 <= UINT32_MAX
    PROVE  Representable(n)
<1>1. n \div 10 <= (UINT32_MAX - 9) \div 10 /\ n \div 10 \in Int
      /\ (UINT32_MAX - 9) \div 10 \in Int
  BY WidthAssumption
<1> QED BY <1>1 DEF Representable, Saturated

(* Each entry of the layout is that of a field which stands at its offset.   *)
LEMMA LayoutFields ==
    ASSUME NEW m \in Template
    PROVE  LET F == Envelope(m)
               n == Len(m) + 3
               b == Render(m)
               o == Layout(m)
           IN  /\ b \in Seq(Byte) /\ n \in Nat /\ n >= 4
               /\ o.field_count = n /\ o.frame_length = Len(b) /\ o.checksum_idx = n - 1
               /\ o.declared_body_length = Len(RenderFields(m))
               /\ FrameShape(o)
               /\ Offset(F, n - 1) = Offset(F, 2) + Len(RenderFields(m))
               /\ \A k \in 0 .. (n - 1) :
                     /\ F[k + 1] \in Field
                     /\ Offset(F, k) \in Nat
                     /\ o.fields[k] = EntryAt(Offset(F, k), F[k + 1])
                     /\ StandsAt(b, Offset(F, k), RenderField(F[k + 1]))
                     /\ Offset(F, k + 1) = Offset(F, k) + Len(RenderField(F[k + 1]))
               /\ Offset(F, 0) = 0 /\ Offset(F, n) = Len(b)
<1> DEFINE F == Envelope(m)
           n == Len(m) + 3
           b == Render(m)
           o == Layout(m)
           e(k) == EntryAt(Offset(F, k), F[k + 1])
<1>1. /\ m \in Seq(Field) /\ Len(m) \in Nat /\ Len(m) >= 1
      /\ F \in Seq(Field) /\ Len(F) = n
      /\ \A k \in 1 .. Len(m) : F[2 + k] = m[k]
  BY EnvelopeIs
<1>2. b = RenderFields(F)
  BY DEF Render
<1>3. /\ o.field_count = n /\ o.frame_length = Len(b) /\ o.checksum_idx = n - 1
      /\ o.declared_body_length = Len(RenderFields(m))
      /\ o.fields = [k \in 0 .. (n - 1) |-> e(k)]
      /\ o.begin_string_idx = 0 /\ o.body_length_idx = 1 /\ o.msg_type_idx = 2
      /\ o = [begin_string_idx |-> 0, body_length_idx |-> 1, msg_type_idx |-> 2,
              checksum_idx |-> n - 1, declared_body_length |-> o.declared_body_length,
              frame_length |-> o.frame_length, field_count |-> n, fields |-> o.fields]
  BY DEF Layout
<1> HIDE DEF F, o
<1>4. n \in Nat /\ n >= 4
  BY <1>1
<1>5. b \in Seq(Byte)
  BY <1>1, <1>2, RenderingIs
<1>6. /\ Offset(F, 0) = 0 /\ Offset(F, n) = Len(b)
      /\ \A k \in 0 .. n : Offset(F, k) \in Nat
      /\ \A k \in 1 .. n : /\ Offset(F, k) = Offset(F, k - 1) + Len(RenderField(F[k]))
                           /\ StandsAt(b, Offset(F, k - 1), RenderField(F[k]))
  BY <1>1, <1>2, StartsAre
<1> HIDE DEF n, b
<1>7. ASSUME NEW k \in 0 .. (n - 1)
      PROVE  /\ F[k + 1] \in Field /\ Offset(F, k) \in Nat
             /\ o.fields[k] = e(k)
             /\ StandsAt(b, Offset(F, k), RenderField(F[k + 1]))
             /\ Offset(F, k + 1) = Offset(F, k) + Len(RenderField(F[k + 1]))
  <2>1. k + 1 \in 1 .. n /\ k \in 0 .. n /\ (k + 1) - 1 = k
    BY <1>4
  <2>2. F[k + 1] \in Field
    BY <1>1, <2>1, RenderingIs
  <2>3. o.fields[k] = e(k)
    <3> HIDE DEF e
    <3> QED BY <1>3
  <2>4. /\ Offset(F, k + 1) = Offset(F, (k + 1) - 1) + Len(RenderField(F[k + 1]))
        /\ StandsAt(b, Offset(F, (k + 1) - 1), RenderField(F[k + 1]))
    BY <1>6, <2>1
  <2> QED BY <1>6, <2>1, <2>2, <2>3, <2>4
<1>8. FrameShape(o)
  <2>1. \A k \in 0 .. (n - 1) : e(k) = [tag_start |-> e(k).tag_start, value_start |-> e(k).value_start,
                                        value_end |-> e(k).value_end, tag_number |-> e(k).tag_number]
    BY DEF EntryAt
  <2> HIDE DEF e
  <2>2. o.fields = [k \in 0 .. (n - 1) |->
                      [tag_start |-> o.fields[k].tag_start, value_start |-> o.fields[k].value_start,
                       value_end |-> o.fields[k].value_end, tag_number |-> o.fields[k].tag_number]]
    BY <1>3, <2>1
  <2> QED BY <1>3, <2>2 DEF FrameShape
<1>9. Offset(F, n - 1) = Offset(F, 2) + Len(RenderFields(m))
  <2>1. 2 + Len(m) <= Len(F) /\ 2 \in Nat /\ Len(m) \in 0 .. Len(m) /\ 2 + Len(m) = n - 1
    BY <1>1 DEF n
  <2>2. Offset(F, 2 + Len(m)) = Offset(F, 2) + Offset(m, Len(m))
    BY <1>1, <2>1, StartsShift
  <2>3. Offset(m, Len(m)) = Len(RenderFields(m))
    BY <1>1, StartsAre
  <2> QED BY <2>1, <2>2, <2>3
<1>10. o.declared_body_length = Len(RenderFields(m)) /\ o.field_count = n
       /\ o.frame_length = Len(b) /\ o.checksum_idx = n - 1
  BY <1>3
<1> HIDE DEF e
<1>11. \A k \in 0 .. (n - 1) :
         /\ F[k + 1] \in Field /\ Offset(F, k) \in Nat
         /\ o.fields[k] = EntryAt(Offset(F, k), F[k + 1])
         /\ StandsAt(b, Offset(F, k), RenderField(F[k + 1]))
         /\ Offset(F, k + 1) = Offset(F, k) + Len(RenderField(F[k + 1]))
  BY <1>7 DEF e
<1> QED BY <1>4, <1>5, <1>6, <1>8, <1>9, <1>10, <1>11 DEF F, n, b, o

(* Two bytes spell a literal of two bytes.                                   *)
LEMMA LiteralOf2 ==
    ASSUME NEW b, NEW i \in Nat, NEW x, NEW y, i + 2 <= Len(b),
           ByteAt(b, i) = x, ByteAt(b, i + 1) = y
    PROVE  HasLiteral(b, i, <<x, y>>)
<1>1. Len(<<x, y>>) = 2 /\ <<x, y>>[1] = x /\ <<x, y>>[2] = y
  OBVIOUS
<1>2. b[i + 1] = x /\ b[i + 2] = y
  <2>1. (i + 1) + 1 = i + 2
    OBVIOUS
  <2> QED BY <2>1 DEF ByteAt
<1> QED BY <1>1, <1>2 DEF HasLiteral

(* What is written at entry e of b: the field f.                             *)
WrittenAt(b, e, f) ==
    /\ e.tag_number = f.tag
    /\ e.tag_start \in Nat /\ e.value_start \in Nat /\ e.value_end \in Nat
    /\ e.value_start = e.tag_start + Len(Decimals(f.tag)) + 1
    /\ e.value_end = e.value_start + Len(f.value)
    /\ WellFormedField(b, e) /\ TagRead(b, e)
    /\ \A j \in 1 .. Len(Decimals(f.tag)) : ByteAt(b, e.tag_start + j - 1) = Decimals(f.tag)[j]
    /\ ByteAt(b, e.tag_start + Len(Decimals(f.tag))) = Equals
    /\ \A j \in 1 .. Len(f.value) : ByteAt(b, e.value_start + j - 1) = f.value[j]

(* Every entry of the layout is that of a written field, and the entries     *)
(* meet.                                                                     *)
LEMMA LayoutWritten ==
    ASSUME NEW m \in Template
    PROVE  LET F == Envelope(m)
               n == Len(m) + 3
               b == Render(m)
               o == Layout(m)
           IN  /\ \A k \in 0 .. (n - 1) : /\ WrittenAt(b, o.fields[k], F[k + 1])
                                          /\ o.fields[k].tag_start = Offset(F, k)
                                          /\ o.fields[k].value_end + 1 = Offset(F, k + 1)
               /\ Piecewise(b, o)
<1> DEFINE F == Envelope(m)
           n == Len(m) + 3
           b == Render(m)
           o == Layout(m)
<1>1. /\ b \in Seq(Byte) /\ n \in Nat /\ n >= 4
      /\ o.field_count = n /\ o.frame_length = Len(b)
      /\ \A k \in 0 .. (n - 1) :
            /\ F[k + 1] \in Field
            /\ Offset(F, k) \in Nat
            /\ o.fields[k] = EntryAt(Offset(F, k), F[k + 1])
            /\ StandsAt(b, Offset(F, k), RenderField(F[k + 1]))
            /\ Offset(F, k + 1) = Offset(F, k) + Len(RenderField(F[k + 1]))
      /\ Offset(F, 0) = 0 /\ Offset(F, n) = Len(b)
  BY LayoutFields
<1> HIDE DEF F, n, b, o
<1>2. ASSUME NEW k \in 0 .. (n - 1)
      PROVE  /\ WrittenAt(b, o.fields[k], F[k + 1])
             /\ o.fields[k].tag_start = Offset(F, k)
             /\ o.fields[k].value_end + 1 = Offset(F, k + 1)
  <2> DEFINE s == Offset(F, k)
             f == F[k + 1]
             e == EntryAt(s, f)
             d == Decimals(f.tag)
  <2>1. s \in Nat /\ f \in Field /\ StandsAt(b, s, RenderField(f)) /\ o.fields[k] = e
        /\ Offset(F, k + 1) = s + Len(RenderField(f)) /\ b \in Seq(Byte)
    BY <1>1
  <2> HIDE DEF s, f
  <2>2. /\ e.tag_start = s /\ e.value_start \in Nat /\ e.value_end \in Nat
        /\ e.tag_number = f.tag
        /\ e.value_start = s + Len(d) + 1
        /\ e.value_end = e.value_start + Len(f.value)
        /\ e.value_end + 1 = s + Len(RenderField(f))
        /\ WellFormedField(b, e) /\ TagRead(b, e)
        /\ \A j \in 1 .. Len(d) : ByteAt(b, s + j - 1) = d[j]
        /\ ByteAt(b, s + Len(d)) = Equals
        /\ \A j \in 1 .. Len(f.value) : ByteAt(b, e.value_start + j - 1) = f.value[j]
    BY <2>1, FieldStands, Zenon
  <2> HIDE DEF e
  <2>3. WrittenAt(b, e, f)
    <3> HIDE DEF d
    <3> QED BY <2>1, <2>2 DEF WrittenAt, d
  <2> QED BY <2>1, <2>2, <2>3 DEF s, f
<1>3. Piecewise(b, o)
  <2>1. 0 \in 0 .. (n - 1) /\ n - 1 \in 0 .. (n - 1) /\ (n - 1) + 1 = n
    BY <1>1
  <2>2. o.fields[0].tag_start = 0
    BY <1>1, <1>2, <2>1
  <2>3. Len(b) = o.fields[n - 1].value_end + 1
    BY <1>1, <1>2, <2>1
  <2>4. ASSUME NEW k \in 1 .. (n - 1)
        PROVE  o.fields[k].tag_start = o.fields[k - 1].value_end + 1
    <3>1. k \in 0 .. (n - 1) /\ k - 1 \in 0 .. (n - 1) /\ (k - 1) + 1 = k
      BY <1>1
    <3> QED BY <1>2, <3>1
  <2>5. \A k \in 0 .. (n - 1) :
          /\ o.fields[k].tag_start \in Nat /\ o.fields[k].value_start \in Nat
          /\ o.fields[k].value_end \in Nat
          /\ WellFormedField(b, o.fields[k])
    BY <1>2 DEF WrittenAt
  <2> QED BY <1>1, <2>2, <2>3, <2>4, <2>5 DEF Piecewise
<1> QED BY <1>2, <1>3 DEF F, n, b, o

(* A rendered message is a whole frame.                                      *)
LEMMA LayoutWhole ==
    ASSUME NEW m \in Template, Representable(Len(RenderFields(m)))
    PROVE  /\ Whole(Render(m), Layout(m)) /\ FrameShape(Layout(m))
           /\ LET trailer == Layout(m).fields[Layout(m).checksum_idx]
              IN  trailer.value_start = trailer.tag_start + 3
           /\ Deferred(Layout(m)) <=> LeftToQuickFIX(m)
<1> DEFINE F == Envelope(m)
           n == Len(m) + 3
           b == Render(m)
           o == Layout(m)
           e(k) == o.fields[k]
           L == Len(RenderFields(m))
<1>1. /\ b \in Seq(Byte) /\ n \in Nat /\ n >= 4
      /\ o.field_count = n /\ o.frame_length = Len(b) /\ o.checksum_idx = n - 1
      /\ o.declared_body_length = L
      /\ FrameShape(o)
      /\ Offset(F, n - 1) = Offset(F, 2) + L
      /\ \A k \in 0 .. (n - 1) : F[k + 1] \in Field
  BY LayoutFields
<1>2. /\ \A k \in 0 .. (n - 1) : /\ WrittenAt(b, e(k), F[k + 1])
                                 /\ e(k).tag_start = Offset(F, k)
                                 /\ e(k).value_end + 1 = Offset(F, k + 1)
      /\ Piecewise(b, o)
  BY LayoutWritten
<1>3. /\ m \in Seq(Field) /\ Len(m) \in Nat /\ Len(m) >= 1
      /\ F[1] = [tag |-> 8, value |-> <<Other>>]
      /\ F[2] = [tag |-> 9, value |-> Decimals(L)]
      /\ \A k \in 1 .. Len(m) : F[2 + k] = m[k]
      /\ F[3].tag = 35
      /\ F[n] = [tag |-> 10, value |-> <<0, 0, 0>>]
  BY EnvelopeIs
<1> HIDE DEF F, b, o
<1>4. L \in Nat
  BY <1>3, RenderingIs
<1>5. 0 \in 0 .. (n - 1) /\ 1 \in 0 .. (n - 1) /\ 2 \in 0 .. (n - 1) /\ n - 1 \in 0 .. (n - 1)
      /\ 0 + 1 = 1 /\ 1 + 1 = 2 /\ 2 + 1 = 3 /\ (n - 1) + 1 = n
  BY <1>1
<1>6. Decimals(8) = <<8>> /\ Decimals(9) = <<9>> /\ Decimals(35) = <<3, 5>> /\ Decimals(10) = <<1, 0>>
  <2>1. 8 \in 0 .. 9 /\ 9 \in 0 .. 9 /\ 35 \in 10 .. 99 /\ 10 \in 10 .. 99
        /\ 35 \div 10 = 3 /\ 35 % 10 = 5 /\ 10 \div 10 = 1 /\ 10 % 10 = 0
    OBVIOUS
  <2>2. Decimals(35) = <<35 \div 10, 35 % 10>> /\ Decimals(10) = <<10 \div 10, 10 % 10>>
    BY <2>1, TwoDigits
  <2>3. Decimals(8) = <<8>> /\ Decimals(9) = <<9>>
    BY <2>1, OneDigit
  <2> QED BY <2>1, <2>2, <2>3
<1> HIDE DEF n
<1>7. WrittenAt(b, e(0), [tag |-> 8, value |-> <<Other>>])
      /\ WrittenAt(b, e(1), [tag |-> 9, value |-> Decimals(L)])
      /\ WrittenAt(b, e(2), F[3]) /\ F[3].tag = 35
      /\ WrittenAt(b, e(n - 1), [tag |-> 10, value |-> <<0, 0, 0>>])
  <2> HIDE DEF e, L
  <2> QED BY <1>2, <1>3, <1>5
<1> HIDE DEF e, L
<1>8. ASSUME NEW t \in Digit, NEW x, NEW f, WrittenAt(b, x, f), f.tag = t, Decimals(t) = <<t>>
      PROVE  x.value_start = x.tag_start + 2 /\ HasLiteral(b, x.tag_start, <<t, Equals>>)
             /\ x.value_end < Len(b)
  <2> DEFINE d == <<t>>
  <2>1. Len(d) = 1 /\ d[1] = t
    OBVIOUS
  <2> HIDE DEF d
  <2>2. /\ x.tag_start \in Nat /\ x.value_start = x.tag_start + Len(d) + 1
        /\ x.value_start \in Nat /\ x.value_end \in Nat
        /\ \A j \in 1 .. Len(d) : ByteAt(b, x.tag_start + j - 1) = d[j]
        /\ ByteAt(b, x.tag_start + Len(d)) = Equals /\ WellFormedField(b, x)
    BY <1>8 DEF WrittenAt, d
  <2>3. 1 \in 1 .. Len(d) /\ x.tag_start + 1 - 1 = x.tag_start
    BY <2>1, <2>2
  <2>4. ByteAt(b, x.tag_start) = t
    BY <2>1, <2>2, <2>3
  <2>5. x.value_start <= x.value_end /\ x.value_end < Len(b) /\ Len(b) \in Nat
    BY <1>1, <2>2 DEF WellFormedField
  <2>6. x.tag_start + 2 <= Len(b)
    BY <2>1, <2>2, <2>5
  <2>7. HasLiteral(b, x.tag_start, <<t, Equals>>)
    BY <2>1, <2>2, <2>4, <2>6, LiteralOf2
  <2> QED BY <2>1, <2>2, <2>5, <2>7
<1>9. ASSUME NEW t, NEW u, NEW w, NEW x, NEW f, WrittenAt(b, x, f), f.tag = w, Decimals(w) = <<t, u>>
      PROVE  x.value_start = x.tag_start + 3 /\ HasLiteral(b, x.tag_start, <<t, u, Equals>>)
  <2> DEFINE d == <<t, u>>
  <2>1. Len(d) = 2 /\ d[1] = t /\ d[2] = u
    OBVIOUS
  <2> HIDE DEF d
  <2>2. /\ x.tag_start \in Nat /\ x.value_start = x.tag_start + Len(d) + 1
        /\ x.value_start \in Nat /\ x.value_end \in Nat
        /\ \A j \in 1 .. Len(d) : ByteAt(b, x.tag_start + j - 1) = d[j]
        /\ ByteAt(b, x.tag_start + Len(d)) = Equals /\ WellFormedField(b, x)
    BY <1>9 DEF WrittenAt, d
  <2>3. 1 \in 1 .. Len(d) /\ x.tag_start + 1 - 1 = x.tag_start
        /\ 2 \in 1 .. Len(d) /\ x.tag_start + 2 - 1 = x.tag_start + 1
    BY <2>1, <2>2
  <2>4. ByteAt(b, x.tag_start) = t /\ ByteAt(b, x.tag_start + 1) = u
        /\ ByteAt(b, x.tag_start + 2) = Equals
    BY <2>1, <2>2, <2>3
  <2>5. x.value_start <= x.value_end /\ x.value_end < Len(b) /\ Len(b) \in Nat
    BY <1>1, <2>2 DEF WellFormedField
  <2>6. x.tag_start + 3 <= Len(b)
    BY <2>1, <2>2, <2>5
  <2>7. HasLiteral(b, x.tag_start, <<t, u, Equals>>)
    BY <2>2, <2>4, <2>6, LiteralOf3
  <2> QED BY <2>1, <2>2, <2>7
<1>10. e(0).tag_start = 0
  BY <1>2 DEF Piecewise, e
<1>11. /\ e(0).value_start = e(0).tag_start + 2 /\ HasLiteral(b, 0, <<8, Equals>>)
       /\ e(1).value_start = e(1).tag_start + 2 /\ HasLiteral(b, e(1).tag_start, <<9, Equals>>)
       /\ e(2).value_start = e(2).tag_start + 3 /\ HasLiteral(b, e(2).tag_start, <<3, 5, Equals>>)
       /\ e(n - 1).value_start = e(n - 1).tag_start + 3
  <2>1. 8 \in Digit /\ 9 \in Digit
    BY DEF Digit
  <2> DEFINE f0 == [tag |-> 8, value |-> <<Other>>]
             f1 == [tag |-> 9, value |-> Decimals(L)]
             z == [tag |-> 10, value |-> <<0, 0, 0>>]
  <2>2. f0.tag = 8 /\ f1.tag = 9 /\ z.tag = 10
    OBVIOUS
  <2> HIDE DEF f0, f1, z
  <2>3. /\ WrittenAt(b, e(0), f0) /\ WrittenAt(b, e(1), f1) /\ WrittenAt(b, e(2), F[3])
        /\ WrittenAt(b, e(n - 1), z)
    BY <1>7 DEF f0, f1, z
  <2>4. e(0).value_start = e(0).tag_start + 2 /\ HasLiteral(b, e(0).tag_start, <<8, Equals>>)
    BY <1>6, <1>8, <2>1, <2>2, <2>3
  <2>5. e(1).value_start = e(1).tag_start + 2 /\ HasLiteral(b, e(1).tag_start, <<9, Equals>>)
    BY <1>6, <1>8, <2>1, <2>2, <2>3
  <2>6. e(2).value_start = e(2).tag_start + 3 /\ HasLiteral(b, e(2).tag_start, <<3, 5, Equals>>)
    BY <1>6, <1>7, <1>9, <2>3
  <2>7. /\ e(n - 1).value_start = e(n - 1).tag_start + 3
        /\ HasLiteral(b, e(n - 1).tag_start, <<1, 0, Equals>>)
    BY <1>6, <1>9, <2>2, <2>3
  <2> QED BY <1>10, <2>4, <2>5, <2>6, <2>7
<1>12. LengthRead(b, o)
  <2> DEFINE d == Decimals(L)
             v == e(1).value_start
  <2>1. v \in Nat /\ e(1).value_end = v + Len(d)
        /\ \A j \in 1 .. Len(d) : ByteAt(b, v + j - 1) = d[j]
    BY <1>7 DEF WrittenAt
  <2>2. Says(d, L)
    BY <1>4, DecimalsSay
  <2>3. d \in Seq(Digit) /\ Len(d) >= 1 /\ Len(d) \in Nat /\ \A j \in 1 .. Len(d) : d[j] \in Digit
    BY <2>2 DEF Says
  <2>4. \A c : \A h \in Nat : (\A j \in 1 .. Len(d) : ByteAt(c, h + j - 1) = d[j])
                                 => Decimal(c, h, h + Len(d)) = L
    BY <2>2 DEF Says
  <2> HIDE DEF d, v
  <2>5. Decimal(b, v, v + Len(d)) = L
    BY <2>1, <2>4
  <2>6. ASSUME NEW k \in v .. (v + Len(d) - 1) PROVE IsDigit(ByteAt(b, k))
    <3>1. k - v + 1 \in 1 .. Len(d) /\ v + (k - v + 1) - 1 = k
      BY <2>1, <2>3
    <3>2. ByteAt(b, v + (k - v + 1) - 1) = d[k - v + 1] /\ d[k - v + 1] \in Digit
      BY <2>1, <2>3, <3>1
    <3> QED BY <3>1, <3>2 DEF IsDigit
  <2>7. v < v + Len(d) /\ (v + Len(d)) - 1 = v + Len(d) - 1
    BY <2>1, <2>3
  <2>8. Numeral(b, v, v + Len(d))
    BY <2>6, <2>7, Zenon DEF Numeral
  <2>9. Numeral(b, v, e(1).value_end) /\ o.declared_body_length = Decimal(b, v, e(1).value_end)
        /\ Representable(o.declared_body_length)
    BY <1>1, <2>1, <2>5, <2>8 DEF L
  <2> QED BY <2>9 DEF LengthRead, NumberRead, v, e
<1>13. e(n - 1).tag_start = e(1).value_end + 1 + o.declared_body_length
  <2>1. e(n - 1).tag_start = Offset(F, n - 1) /\ e(1).value_end + 1 = Offset(F, 1 + 1)
    BY <1>2, <1>5 DEF e
  <2>2. Offset(F, n - 1) = Offset(F, 2) + L /\ o.declared_body_length = L
    BY <1>1 DEF L
  <2>3. e(1).value_end \in Nat
    BY <1>7 DEF WrittenAt
  <2> QED BY <1>4, <2>1, <2>2, <2>3
<1>14. /\ e(n - 1).tag_number = 10 /\ e(n - 1).value_end = e(n - 1).value_start + 3
       /\ \A k \in e(n - 1).value_start .. (e(n - 1).value_end - 1) : IsDigit(ByteAt(b, k))
  <2> DEFINE z == <<0, 0, 0>>
             v == e(n - 1).value_start
  <2>1. Len(z) = 3 /\ \A j \in 1 .. 3 : z[j] = 0
    OBVIOUS
  <2>2. /\ e(n - 1).tag_number = 10 /\ v \in Nat /\ e(n - 1).value_end = v + Len(z)
        /\ \A j \in 1 .. Len(z) : ByteAt(b, v + j - 1) = z[j]
    BY <1>7 DEF WrittenAt
  <2> HIDE DEF z, v
  <2>3. ASSUME NEW k \in v .. (v + 2) PROVE IsDigit(ByteAt(b, k))
    <3>1. k - v + 1 \in 1 .. 3 /\ v + (k - v + 1) - 1 = k
      BY <2>2
    <3>2. ByteAt(b, v + (k - v + 1) - 1) = 0
      BY <2>1, <2>2, <3>1
    <3> QED BY <3>1, <3>2 DEF IsDigit, Digit
  <2>4. e(n - 1).value_end = v + 3 /\ e(n - 1).value_end - 1 = v + 2
    BY <2>1, <2>2
  <2>5. \A k \in v .. (e(n - 1).value_end - 1) : IsDigit(ByteAt(b, k))
    BY <2>3, <2>4
  <2> QED BY <2>2, <2>4, <2>5 DEF v
<1>15. \A k \in 0 .. (n - 1) : TagRead(b, e(k)) /\ e(k).tag_number = F[k + 1].tag
  BY <1>2 DEF WrittenAt, e
<1>16. \A k \in 3 .. (n - 2) : e(k).tag_number # 0
  <2> TAKE k \in 3 .. (n - 2)
  <2>1. k \in 0 .. (n - 1)
    BY <1>1
  <2>2. F[k + 1].tag # 0
    BY <1>1, <2>1, FieldParts
  <2> QED BY <1>15, <2>1, <2>2
<1>17. Spelled(o)
  BY <1>11 DEF Spelled, e
<1>18. Whole(b, o)
  <2>1. 0 .. (o.field_count - 1) = 0 .. (n - 1) /\ 3 .. (o.field_count - 2) = 3 .. (n - 2)
        /\ o.field_count - 1 = n - 1
    BY <1>1
  <2>2. o.declared_body_length \in Nat
    BY <1>1, <1>4 DEF L
  <2> QED BY <1>1, <1>2, <1>11, <1>12, <1>13, <1>14, <1>15, <1>16, <1>17, <2>1, <2>2 DEF Whole, e
<1>19. Deferred(o) <=> LeftToQuickFIX(m)
  <2>1. ASSUME NEW k \in 3 .. (n - 2), e(k).tag_number \in {95, 96}
        PROVE  \E j \in 1 .. Len(m) : m[j].tag \in {95, 96}
    <3>1. k - 1 \in 1 .. Len(m) /\ 2 + (k - 1) = k + 1 /\ k \in 0 .. (n - 1)
      BY <1>3 DEF n
    <3>2. F[k + 1] = m[k - 1]
      BY <1>3, <3>1
    <3> QED BY <1>15, <2>1, <3>1, <3>2
  <2>2. ASSUME NEW j \in 1 .. Len(m), m[j].tag \in {95, 96}
        PROVE  \E k \in 3 .. (n - 2) : e(k).tag_number \in {95, 96}
    <3>1. F[2 + j] = m[j]
      BY <1>3
    <3>2. j # 1
      <4> SUFFICES ASSUME j = 1 PROVE FALSE
        OBVIOUS
      <4>1. 2 + j = 3
        OBVIOUS
      <4> QED BY <1>3, <2>2, <3>1, <4>1
    <3>3. j + 1 \in 3 .. (n - 2) /\ j + 1 \in 0 .. (n - 1) /\ (j + 1) + 1 = 2 + j
      BY <1>3, <3>2 DEF n
    <3>4. e(j + 1).tag_number = F[(j + 1) + 1].tag
      BY <1>15, <3>3
    <3> QED BY <2>2, <3>1, <3>3, <3>4
  <2>3. o.field_count = Len(m) + 3 /\ o.field_count - 2 = n - 2
    BY <1>1 DEF n
  <2> QED BY <2>1, <2>2, <2>3 DEF Deferred, LeftToQuickFIX, e
<1>20. o.checksum_idx = n - 1
  BY <1>1
<1> QED BY <1>1, <1>11, <1>18, <1>19, <1>20 DEF b, o, e

-----------------------------------------------------------------------------
(* Every message is rendered with fifteen bytes at least around its body.    *)
LEMMA RenderIsLong ==
    ASSUME NEW m \in Template
    PROVE  /\ Render(m) \in Seq(Byte) /\ RenderFields(m) \in Seq(Byte)
           /\ Len(RenderFields(m)) + 15 <= Len(Render(m))
<1> DEFINE F == Envelope(m)
           n == Len(m) + 3
           b == Render(m)
           L == Len(RenderFields(m))
<1>1. /\ b \in Seq(Byte) /\ n \in Nat /\ n >= 4
      /\ Offset(F, n - 1) = Offset(F, 2) + L
      /\ \A k \in 0 .. (n - 1) : /\ F[k + 1] \in Field
                                 /\ Offset(F, k + 1) = Offset(F, k) + Len(RenderField(F[k + 1]))
      /\ Offset(F, 0) = 0 /\ Offset(F, n) = Len(b)
  BY LayoutFields
<1>2. /\ m \in Seq(Field)
      /\ F[1] = [tag |-> 8, value |-> <<Other>>]
      /\ F[2] = [tag |-> 9, value |-> Decimals(L)]
      /\ F[n] = [tag |-> 10, value |-> <<0, 0, 0>>]
  BY EnvelopeIs
<1>3. RenderFields(m) \in Seq(Byte) /\ L \in Nat
  BY <1>2, RenderingIs
<1> HIDE DEF F, b
<1>4. /\ 0 \in 0 .. (n - 1) /\ 1 \in 0 .. (n - 1) /\ n - 1 \in 0 .. (n - 1)
      /\ 0 + 1 = 1 /\ 1 + 1 = 2 /\ (n - 1) + 1 = n
  BY <1>1
<1> HIDE DEF n, L
<1>5. F[1] \in Field /\ F[2] \in Field /\ F[n] \in Field
  BY <1>1, <1>4
<1>6. /\ Offset(F, 1) = Len(RenderField(F[1]))
      /\ Offset(F, 2) = Offset(F, 1) + Len(RenderField(F[2]))
      /\ Len(b) = Offset(F, 2) + L + Len(RenderField(F[n]))
  <2>1. \A f \in Field : Len(RenderField(f)) \in Nat
    BY FieldBytes
  <2>2. /\ Offset(F, 0 + 1) = Offset(F, 0) + Len(RenderField(F[0 + 1]))
        /\ Offset(F, 1 + 1) = Offset(F, 1) + Len(RenderField(F[1 + 1]))
        /\ Offset(F, (n - 1) + 1) = Offset(F, n - 1) + Len(RenderField(F[(n - 1) + 1]))
    BY <1>1, <1>4
  <2> QED BY <1>1, <1>4, <1>5, <2>1, <2>2
<1>7. \A f \in Field : /\ Len(RenderField(f)) = Len(Decimals(f.tag)) + Len(f.value) + 2
                       /\ Len(Decimals(f.tag)) \in Nat /\ Len(Decimals(f.tag)) >= 1
                       /\ Len(f.value) \in Nat
  BY FieldBytes, FieldParts
<1>8. Len(F[1].value) = 1
  BY <1>2
<1>9. Len(F[2].value) >= 1
  <2>1. Says(Decimals(L), L)
    BY <1>3, DecimalsSay
  <2> QED BY <1>2, <2>1 DEF Says
<1>10. Len(F[n].value) = 3 /\ Len(Decimals(F[n].tag)) = 2
  <2>1. 10 \in 10 .. 99
    OBVIOUS
  <2>2. Len(Decimals(10)) = 2
    BY <2>1, TwoDigits
  <2> QED BY <1>2, <2>2
<1>11. Len(RenderField(F[1])) >= 4 /\ Len(RenderField(F[2])) >= 4 /\ Len(RenderField(F[n])) = 7
       /\ Len(RenderField(F[1])) \in Nat /\ Len(RenderField(F[2])) \in Nat
  <2>1. ASSUME NEW f \in Field, Len(f.value) >= 1
        PROVE  Len(RenderField(f)) >= 4 /\ Len(RenderField(f)) \in Nat
    <3>1. /\ Len(RenderField(f)) = Len(Decimals(f.tag)) + Len(f.value) + 2
          /\ Len(Decimals(f.tag)) \in Nat /\ Len(Decimals(f.tag)) >= 1
          /\ Len(f.value) \in Nat
      BY <1>7
    <3> DEFINE d == Len(Decimals(f.tag))
               v == Len(f.value)
    <3>2. d \in Nat /\ d >= 1 /\ v \in Nat /\ v >= 1 /\ Len(RenderField(f)) = d + v + 2
      BY <2>1, <3>1
    <3> HIDE DEF d, v
    <3> QED BY <3>2
  <2>2. Len(RenderField(F[n])) = 2 + 3 + 2
    BY <1>5, <1>7, <1>10
  <2>3. Len(F[1].value) >= 1
    BY <1>8
  <2> QED BY <1>5, <1>9, <2>1, <2>2, <2>3
<1>12. L + 15 <= Len(b)
  BY <1>3, <1>6, <1>11
<1> QED BY <1>1, <1>3, <1>12 DEF b, L

(* Rendered messages stand one after the other.                              *)
RenderedMessages(ms) == [k \in 1 .. Len(ms) |-> Render(ms[k])]

Lengths(ms, n) == Len(RenderAll(SubSeq(ms, 1, n)))

(* Each message stands in the stream where the messages before it end.       *)
LEMMA CorpusStarts ==
    ASSUME NEW ms \in Seq(Template), NEW b, b = RenderAll(ms)
    PROVE  /\ b \in Seq(Byte) /\ Len(ms) \in Nat
           /\ Lengths(ms, 0) = 0 /\ Lengths(ms, Len(ms)) = Len(b)
           /\ \A n \in 0 .. Len(ms) : Lengths(ms, n) \in Nat
           /\ \A n \in 0 .. (Len(ms) - 1) :
                 /\ ms[n + 1] \in Template
                 /\ Lengths(ms, n + 1) = Lengths(ms, n) + Len(Render(ms[n + 1]))
                 /\ Lengths(ms, n + 1) <= Len(b)
                 /\ StandsAt(b, Lengths(ms, n), Render(ms[n + 1]))
<1> DEFINE R == RenderedMessages(ms)
           l == Len(ms)
<1>1. l \in Nat /\ \A k \in 1 .. l : ms[k] \in Template
  OBVIOUS
<1>2. \A k \in 1 .. l : Render(ms[k]) \in Seq(Byte)
  BY <1>1, RenderIsLong
<1>3. R \in Seq(Seq(Byte)) /\ Len(R) = l /\ \A k \in 1 .. l : R[k] = Render(ms[k])
  BY <1>1, <1>2 DEF RenderedMessages
<1>4. ASSUME NEW n \in 0 .. l PROVE Lengths(ms, n) = Len(Joined(R, n))
  <2>1. SubSeq(ms, 1, n) \in Seq(Template) /\ Len(SubSeq(ms, 1, n)) = n
        /\ \A k \in 1 .. n : SubSeq(ms, 1, n)[k] = ms[k]
    BY <1>1
  <2>2. SubSeq(R, 1, n) \in Seq(Seq(Byte)) /\ Len(SubSeq(R, 1, n)) = n
        /\ \A k \in 1 .. n : SubSeq(R, 1, n)[k] = R[k]
    <3> HIDE DEF R
    <3> QED BY <1>1, <1>3
  <2> DEFINE T == RenderedMessages(SubSeq(ms, 1, n))
  <2>3. T = [k \in 1 .. n |-> Render(SubSeq(ms, 1, n)[k])]
    BY <2>1 DEF RenderedMessages
  <2>4. \A k \in 1 .. n : k \in 1 .. l /\ Render(SubSeq(ms, 1, n)[k]) \in Seq(Byte)
                          /\ Render(SubSeq(ms, 1, n)[k]) = R[k]
    BY <1>1, <1>2, <1>3, <2>1
  <2> HIDE DEF R, T
  <2>5. T \in Seq(Seq(Byte)) /\ Len(T) = n /\ \A k \in 1 .. n : T[k] = R[k]
    <3>1. n \in Nat
      BY <1>1
    <3>2. \A k \in 1 .. n : T[k] = R[k] /\ T[k] \in Seq(Byte)
      BY <2>3, <2>4
    <3>3. DOMAIN T = 1 .. n /\ T = [k \in 1 .. n |-> T[k]]
      BY <2>3
    <3>4. T \in [1 .. n -> Seq(Byte)]
      BY <3>2, <3>3
    <3> QED BY <3>1, <3>2, <3>3, <3>4, LenProperties, SeqDef
  <2>6. T = SubSeq(R, 1, n)
    BY <2>2, <2>5, SeqEqual
  <2> QED BY <2>6 DEF Lengths, RenderAll, Joined, T, RenderedMessages
<1>5. b = Joined(R, l) /\ b \in Seq(Byte)
  <2>1. b = Sequence!FlattenSeq(R)
    BY DEF RenderAll, RenderedMessages
  <2>2. l \in 0 .. l
    BY <1>1
  <2> HIDE DEF R, l
  <2> QED BY <1>3, <2>1, <2>2, JoinedNext
<1>6. ASSUME NEW n \in 0 .. l PROVE Joined(R, n) \in Seq(Byte)
  <2> HIDE DEF R
  <2> QED BY <1>3, JoinedNext
<1>7. Lengths(ms, 0) = 0 /\ Lengths(ms, l) = Len(b)
  <2>1. 0 \in 0 .. l /\ l \in 0 .. l
    BY <1>1
  <2>2. Joined(R, 0) = << >>
    <3> HIDE DEF R
    <3> QED BY <1>3, JoinedNext
  <2> HIDE DEF R, l
  <2> QED BY <1>4, <1>5, <2>1, <2>2
<1>8. \A n \in 0 .. l : Lengths(ms, n) \in Nat
  <2> HIDE DEF R, l
  <2>1. \A n \in 0 .. l : Len(Joined(R, n)) \in Nat
    BY <1>6, LenProperties
  <2> QED BY <1>4, <2>1
<1>9. ASSUME NEW n \in 0 .. (l - 1)
      PROVE  /\ ms[n + 1] \in Template
             /\ Lengths(ms, n + 1) = Lengths(ms, n) + Len(Render(ms[n + 1]))
             /\ Lengths(ms, n + 1) <= Len(b)
             /\ StandsAt(b, Lengths(ms, n), Render(ms[n + 1]))
  <2>1. l \in 0 .. Len(R) /\ n + 1 \in 1 .. l /\ (n + 1) - 1 = n
        /\ n \in 0 .. l /\ n + 1 \in 0 .. l
    BY <1>1, <1>3
  <2>2. /\ Len(Joined(R, (n + 1) - 1)) + Len(R[n + 1]) = Len(Joined(R, n + 1))
        /\ Len(Joined(R, n + 1)) <= Len(Joined(R, l))
        /\ \A j \in 1 .. Len(R[n + 1]) :
              Joined(R, l)[Len(Joined(R, (n + 1) - 1)) + j] = R[n + 1][j]
    <3> HIDE DEF R, l
    <3> QED BY <1>3, <2>1, JoinedHolds
  <2>3. R[n + 1] = Render(ms[n + 1]) /\ ms[n + 1] \in Template
    BY <1>1, <1>3, <2>1
  <2>4. Lengths(ms, n) = Len(Joined(R, n)) /\ Lengths(ms, n + 1) = Len(Joined(R, n + 1))
    BY <1>4, <2>1
  <2> HIDE DEF R, l
  <2>5. /\ Lengths(ms, n + 1) = Lengths(ms, n) + Len(Render(ms[n + 1]))
        /\ Lengths(ms, n + 1) <= Len(b)
        /\ \A j \in 1 .. Len(Render(ms[n + 1])) : b[Lengths(ms, n) + j] = Render(ms[n + 1])[j]
    BY <1>5, <2>1, <2>2, <2>3, <2>4
  <2> QED BY <2>3, <2>5 DEF StandsAt
<1> QED BY <1>1, <1>5, <1>7, <1>8, <1>9

(* The bytes from offset i up to offset j.                                   *)
Span(s, i, j) == SubSeq(s, i + 1, j)

(* The bytes of a part of a sequence.                                        *)
LEMMA SpanIs ==
    ASSUME NEW s \in Seq(Byte), NEW i \in Nat, NEW j \in Nat, i <= j, j <= Len(s)
    PROVE  /\ Span(s, i, j) \in Seq(Byte) /\ Len(Span(s, i, j)) = j - i
           /\ \A x \in 1 .. (j - i) : Span(s, i, j)[x] = s[i + x]
<1> DEFINE r == Span(s, i, j)
<1>1. i + 1 \in Int /\ j \in Int /\ (j - (i + 1)) + 1 = j - i
      /\ \A x \in 1 .. (j - i) : ((i + 1) + x) - 1 = i + x
  OBVIOUS
<1>0. \A x \in (i + 1) .. j : s[x] \in Byte
  OBVIOUS
<1>2. /\ r \in Seq(Byte)
      /\ Len(r) = IF i + 1 <= j THEN (j - (i + 1)) + 1 ELSE 0
      /\ \A x \in 1 .. ((j - (i + 1)) + 1) : r[x] = s[((i + 1) + x) - 1]
  BY <1>0, <1>1, SubSeqProperties DEF Span
<1> HIDE DEF r
<1>3. Len(r) = j - i
  <2>1. ~ (i + 1 <= j) => j - i = 0
    OBVIOUS
  <2> QED BY <1>1, <1>2, <2>1
<1>4. \A x \in 1 .. (j - i) : r[x] = s[i + x]
  BY <1>1, <1>2
<1> QED BY <1>2, <1>3, <1>4 DEF r

(* What is left of a stream where a message begins: a whole frame, which the *)
(* layout of the message is the index of, and from which it can be read.     *)
LEMMA RestBegins ==
    ASSUME NEW b \in Seq(Byte), Len(b) <= UINT32_MAX, NEW m \in Template, NEW at \in Nat,
           at + Len(Render(m)) <= Len(b), StandsAt(b, at, Render(m)),
           NEW rest, rest = Span(b, at, Len(b))
    PROVE  /\ rest \in Seq(Byte)
           /\ Whole(rest, Layout(m)) /\ FrameShape(Layout(m))
           /\ LET trailer == Layout(m).fields[Layout(m).checksum_idx]
              IN  trailer.value_start = trailer.tag_start + 3
           /\ Deferred(Layout(m)) <=> LeftToQuickFIX(m)
           /\ Layout(m).field_count = Len(m) + 3
           /\ Layout(m).frame_length = Len(Render(m))
           /\ \A k \in 1 .. Len(m) :
                 LET e == Layout(m).fields[k + 1]
                 IN  [tag |-> e.tag_number, value |-> SubSeq(rest, e.value_start + 1, e.value_end)]
                        = m[k]
<1> DEFINE r == Render(m)
           o == Layout(m)
<1>1. /\ b \in Seq(Byte) /\ Len(b) \in Nat /\ m \in Template /\ at \in Nat
      /\ at + Len(r) <= Len(b) /\ StandsAt(b, at, r)
  OBVIOUS
<1>2. r \in Seq(Byte) /\ Len(r) \in Nat /\ Len(RenderFields(m)) \in Nat
      /\ Len(RenderFields(m)) + 15 <= Len(r)
  BY <1>1, RenderIsLong, LenProperties
<1>3. Representable(Len(RenderFields(m)))
  <2>1. Len(RenderFields(m)) + 15 <= UINT32_MAX
    BY <1>1, <1>2, WidthAssumption
  <2> QED BY <1>2, <2>1, BodyIsRepresentable
<1>4. /\ Whole(r, o) /\ FrameShape(o)
      /\ LET trailer == o.fields[o.checksum_idx]
         IN  trailer.value_start = trailer.tag_start + 3
      /\ Deferred(o) <=> LeftToQuickFIX(m)
  BY <1>1, <1>3, LayoutWhole
<1>5. /\ o.field_count = Len(m) + 3 /\ o.frame_length = Len(r)
      /\ m \in Seq(Field) /\ Len(m) \in Nat
      /\ \A k \in 0 .. ((Len(m) + 3) - 1) : WrittenAt(r, o.fields[k], Envelope(m)[k + 1])
      /\ \A k \in 1 .. Len(m) : Envelope(m)[2 + k] = m[k]
  <2>1. /\ o.field_count = Len(m) + 3 /\ o.frame_length = Len(r)
    BY <1>1, LayoutFields
  <2>2. \A k \in 0 .. ((Len(m) + 3) - 1) : WrittenAt(r, o.fields[k], Envelope(m)[k + 1])
    BY <1>1, LayoutWritten
  <2>3. /\ m \in Seq(Field) /\ Len(m) \in Nat /\ \A k \in 1 .. Len(m) : Envelope(m)[2 + k] = m[k]
    BY <1>1, EnvelopeIs
  <2> QED BY <2>1, <2>2, <2>3
<1> HIDE DEF r, o
<1>6. /\ rest \in Seq(Byte) /\ Len(rest) = Len(b) - at
      /\ \A j \in 1 .. (Len(b) - at) : rest[j] = b[at + j]
  <2>1. at \in Nat /\ Len(b) \in Nat /\ at + 1 <= Len(b)
    BY <1>1, <1>2
  <2>2. Span(b, at, Len(b)) = rest
    OBVIOUS
  <2>3. at <= Len(b) /\ Len(b) <= Len(b)
    BY <2>1
  <2>4. rest \in Seq(Byte)
    BY <2>1, <2>3, SpanIs
  <2>5. Len(rest) = Len(b) - at
    BY <2>1, <2>3, SpanIs
  <2>6. ASSUME NEW j \in 1 .. (Len(b) - at) PROVE rest[j] = b[at + j]
    BY <2>1, <2>3, SpanIs
  <2> QED BY <2>4, <2>5, <2>6
<1>7. Alike(r, rest, Len(r))
  <2>1. Len(r) <= Len(rest)
    BY <1>1, <1>2, <1>6
  <2>2. ASSUME NEW k \in 0 .. (Len(r) - 1) PROVE ByteAt(r, k) = ByteAt(rest, k)
    <3>1. k + 1 \in 1 .. Len(r) /\ k + 1 \in 1 .. (Len(b) - at)
      BY <1>1, <1>2
    <3> QED BY <1>1, <1>6, <3>1 DEF StandsAt, ByteAt
  <2>3. Len(r) <= Len(r)
    BY <1>2
  <2> QED BY <1>2, <2>1, <2>2, <2>3 DEF Alike
<1>8. Whole(rest, o)
  BY <1>2, <1>4, <1>5, <1>6, <1>7, AlikeFrame
<1>9. ASSUME NEW k \in 1 .. Len(m)
      PROVE  LET e == o.fields[k + 1]
             IN  [tag |-> e.tag_number, value |-> SubSeq(rest, e.value_start + 1, e.value_end)]
                    = m[k]
  <2> DEFINE e == o.fields[k + 1]
             f == m[k]
             v == e.value_start
             l == Len(f.value)
  <2>1. k + 1 \in 0 .. ((Len(m) + 3) - 1) /\ (k + 1) + 1 = 2 + k
    BY <1>5
  <2>2. WrittenAt(r, e, f) /\ f \in Field
    BY <1>5, <2>1
  <2> HIDE DEF e, f
  <2>3. f.value \in Seq(Byte) /\ l \in Nat /\ f = [tag |-> f.tag, value |-> f.value]
    BY <2>2, FieldParts DEF Field
  <2>4. /\ e.tag_number = f.tag /\ v \in Nat /\ e.value_end = v + l
        /\ \A j \in 1 .. l : ByteAt(r, v + j - 1) = f.value[j]
        /\ e.value_end < Len(r)
    BY <2>2 DEF WrittenAt, WellFormedField
  <2> HIDE DEF v, l
  <2>41. v \in Nat /\ l \in Nat /\ v + l < Len(r)
    BY <2>3, <2>4
  <2>5. ASSUME NEW j \in 1 .. l PROVE rest[v + j] = f.value[j] /\ f.value[j] \in Byte
    <3>1. v + j - 1 \in 0 .. (Len(r) - 1) /\ (v + j - 1) + 1 = v + j
      BY <1>2, <2>41
    <3>2. ByteAt(rest, v + j - 1) = f.value[j]
      BY <1>7, <2>4, <3>1 DEF Alike
    <3>3. rest[v + j] = f.value[j]
      BY <3>1, <3>2 DEF ByteAt
    <3>4. f.value[j] \in Byte
      BY <2>3 DEF l
    <3> QED BY <3>3, <3>4
  <2> DEFINE s == Span(rest, v, v + l)
  <2>6. /\ s \in Seq(Byte) /\ Len(s) = l /\ \A j \in 1 .. l : s[j] = f.value[j]
    <3>3. v + l \in Nat /\ v <= v + l /\ (v + l) - v = l /\ v + l <= Len(rest)
      BY <1>1, <1>2, <1>6, <2>41
    <3>4. /\ s \in Seq(Byte) /\ Len(s) = (v + l) - v
          /\ \A j \in 1 .. ((v + l) - v) : s[j] = rest[v + j]
      BY <1>6, <2>41, <3>3, SpanIs
    <3> HIDE DEF s
    <3> QED BY <2>5, <3>3, <3>4
  <2>7. s = f.value
    <3> HIDE DEF s
    <3>1. Len(f.value) = l
      BY DEF l
    <3> QED BY <2>3, <2>6, <3>1, SeqEqual
  <2> QED BY <2>3, <2>4, <2>7 DEF e, f, v, l, Span
<1> QED BY <1>4, <1>5, <1>6, <1>8, <1>9 DEF o, r

-----------------------------------------------------------------------------
(* The scanners of the pair, with what was proved of each.  Nothing of the   *)
(* caller in those modules is used.                                          *)
S == INSTANCE ScalarScanner_proofs
    WITH out <- sOut, status <- sStatus, pc <- sPc, p <- sP, tagStart <- sTagStart,
         valueStart <- sValueStart, num <- sNum, bodyEnd <- sBodyEnd,
         prior <- 0, Streams <- {}, Handed <- {}, Chunk <- 1

A == INSTANCE Avx2Scanner_proofs
    WITH out <- aOut, status <- aStatus, pc <- aPc, p <- aP, tagStart <- aTagStart,
         valueStart <- aValueStart, num <- aNum, bodyEnd <- aBodyEnd,
         q <- aQ, mask <- aMask, sohs <- aSohs, i <- aI,
         prior <- 0, Streams <- {}, Handed <- {}, Chunk <- 1

(* The scanners of the pair are the scanners of the proofs.                  *)
LEMMA ScalarIsScalar ==
    /\ Scalar!Init <=> S!Init
    /\ \A b : Scalar!Call(b) <=> S!Call(b)
    /\ Scalar!ScanStep <=> S!ScanStep
    /\ Scalar!Finished <=> S!Finished
<1>1. Scalar!Init <=> S!Init
  BY Zenon DEF Scalar!Init, S!Init, Scalar!HeaderInit, S!HeaderInit, Scalar!NewIndex,
     S!NewIndex, Scalar!Entry, S!Entry, Scalar!U32, S!U32
<1>2. ASSUME NEW b PROVE Scalar!Call(b) <=> S!Call(b)
  BY Zenon DEF Scalar!Call, S!Call, Scalar!Reset, S!Reset
<1>3. Scalar!Finished <=> S!Finished
  BY Zenon DEF Scalar!Finished, S!Finished
<1>4. Scalar!HeaderStep <=> S!HeaderStep
  <2>1. Scalar!ScanBeginString <=> S!ScanBeginString
    BY Zenon DEF Scalar!ScanBeginString, S!ScanBeginString, Scalar!kMinScan, S!kMinScan,
       Scalar!Return, S!Return, Scalar!HasLiteral, S!HasLiteral, Scalar!Equals, S!Equals,
       Scalar!StopsAt, S!StopsAt, Scalar!Advance, S!Advance, Scalar!PushBeginString,
       S!PushBeginString, Scalar!Entry, S!Entry, Scalar!ByteAt, S!ByteAt, Scalar!Soh, S!Soh,
       Scalar!Push, S!Push, Scalar!U32, S!U32
  <2>2. Scalar!ScanBodyLengthTag <=> S!ScanBodyLengthTag
    BY Zenon DEF Scalar!ScanBodyLengthTag, S!ScanBodyLengthTag, Scalar!Return, S!Return,
       Scalar!HasLiteral, S!HasLiteral, Scalar!Equals, S!Equals, Scalar!BeginNumber,
       S!BeginNumber
  <2>3. Scalar!BodyLengthDigit <=> S!BodyLengthDigit
    BY Zenon DEF Scalar!BodyLengthDigit, S!BodyLengthDigit, Scalar!ByteAt, S!ByteAt,
       Scalar!Soh, S!Soh, Scalar!TakeDigit, S!TakeDigit, Scalar!IsDigit, S!IsDigit,
       Scalar!Saturated, S!Saturated, Scalar!Return, S!Return, Scalar!Accumulate,
       S!Accumulate, Scalar!Digit, S!Digit, Scalar!U32, S!U32
  <2>4. Scalar!BodyLengthEnd <=> S!BodyLengthEnd
    BY Zenon DEF Scalar!BodyLengthEnd, S!BodyLengthEnd, Scalar!Return, S!Return,
       Scalar!ByteAt, S!ByteAt, Scalar!Soh, S!Soh, Scalar!Advance, S!Advance,
       Scalar!PushBodyLength, S!PushBodyLength, Scalar!Entry, S!Entry, Scalar!Push, S!Push,
       Scalar!U32, S!U32
  <2>5. Scalar!ScanMsgType <=> S!ScanMsgType
    BY Zenon DEF Scalar!ScanMsgType, S!ScanMsgType, Scalar!BodyFits, S!BodyFits,
       Scalar!Return, S!Return, Scalar!HasLiteral, S!HasLiteral, Scalar!Equals, S!Equals,
       Scalar!StopsAt, S!StopsAt, Scalar!Advance, S!Advance, Scalar!PushMsgType,
       S!PushMsgType, Scalar!Entry, S!Entry, Scalar!kTrailer, S!kTrailer, Scalar!ByteAt,
       S!ByteAt, Scalar!Soh, S!Soh, Scalar!Push, S!Push, Scalar!U32, S!U32
  <2> QED
    BY <2>1, <2>2, <2>3, <2>4, <2>5 DEF Scalar!HeaderStep, S!HeaderStep
<1>5. Scalar!ScanTrailerValue <=> S!ScanTrailerValue
  <2>1. ASSUME NEW j PROVE Scalar!TrailerVerdict(j) = S!TrailerVerdict(j)
    BY Zenon DEF Scalar!TrailerVerdict, S!TrailerVerdict, Scalar!IsDigit, S!IsDigit,
       Scalar!ByteAt, S!ByteAt, Scalar!TableIsFull, S!TableIsFull, Scalar!Digit, S!Digit,
       Scalar!Entry, S!Entry, Scalar!U32, S!U32
  <2> QED BY Zenon, <2>1 DEF Scalar!ScanTrailerValue, S!ScanTrailerValue, Scalar!AtTrailer,
      S!AtTrailer, Scalar!StopsAt, S!StopsAt, Scalar!Return, S!Return, Scalar!PushCheckSum,
      S!PushCheckSum, Scalar!Entry, S!Entry, Scalar!ByteAt, S!ByteAt, Scalar!Soh, S!Soh,
      Scalar!IsDigit, S!IsDigit, Scalar!TableIsFull, S!TableIsFull, Scalar!Push, S!Push,
      Scalar!U32, S!U32, Scalar!Digit, S!Digit
<1>6. Scalar!ScanStep <=> S!ScanStep
  <2>1. Scalar!NextField <=> S!NextField
    BY Zenon DEF Scalar!NextField, S!NextField, Scalar!TableIsFull, S!TableIsFull,
       Scalar!Return, S!Return, Scalar!BeginNumber, S!BeginNumber
  <2>2. Scalar!TagDigit <=> S!TagDigit
    BY Zenon DEF Scalar!TagDigit, S!TagDigit, Scalar!ByteAt, S!ByteAt, Scalar!Equals,
       S!Equals, Scalar!TakeDigit, S!TakeDigit, Scalar!IsDigit, S!IsDigit, Scalar!Saturated,
       S!Saturated, Scalar!Return, S!Return, Scalar!Accumulate, S!Accumulate, Scalar!Digit,
       S!Digit, Scalar!U32, S!U32
  <2>3. Scalar!TagEnd <=> S!TagEnd
    BY Zenon DEF Scalar!TagEnd, S!TagEnd, Scalar!Return, S!Return, Scalar!ByteAt, S!ByteAt,
       Scalar!Equals, S!Equals
  <2>4. Scalar!ScanBodyValue <=> S!ScanBodyValue
    BY Zenon DEF Scalar!ScanBodyValue, S!ScanBodyValue, Scalar!AtTrailer, S!AtTrailer,
       Scalar!StopsAt, S!StopsAt, Scalar!Return, S!Return, Scalar!NeedsFallback,
       S!NeedsFallback, Scalar!Advance, S!Advance, Scalar!Push, S!Push, Scalar!Entry, S!Entry,
       Scalar!ByteAt, S!ByteAt, Scalar!Soh, S!Soh, Scalar!U32, S!U32
  <2> QED
    BY <1>4, <1>5, <2>1, <2>2, <2>3, <2>4 DEF Scalar!ScanStep, S!ScanStep
<1> QED BY <1>1, <1>2, <1>3, <1>6

(* The same of the AVX2 scanner.                                             *)
LEMMA Avx2IsAvx2 ==
    /\ Avx2!Init <=> A!Init
    /\ \A b : Avx2!Enter(b) <=> A!Enter(b)
    /\ Avx2!ScanStep <=> A!ScanStep
    /\ Avx2!Finished <=> A!Finished
<1>1. Avx2!Init <=> A!Init
  BY Zenon DEF Avx2!Init, A!Init, Avx2!HeaderInit, A!HeaderInit, Avx2!NewIndex, A!NewIndex,
     Avx2!Entry, A!Entry, Avx2!U32, A!U32
<1>2. ASSUME NEW b PROVE Avx2!Enter(b) <=> A!Enter(b)
  BY Zenon DEF Avx2!Enter, A!Enter, Avx2!Call, A!Call, Avx2!EnterPasses, A!EnterPasses,
     Avx2!Reset, A!Reset
<1>3. Avx2!Finished <=> A!Finished
  BY Zenon DEF Avx2!Finished, A!Finished
<1>4. Avx2!ScanStep <=> A!ScanStep
  <2>1. Avx2!Header <=> A!Header
    BY Zenon DEF Avx2!Header, A!Header, Avx2!HeaderStep, A!HeaderStep, Avx2!passVars,
       A!passVars, Avx2!ScanBeginString, A!ScanBeginString, Avx2!ScanBodyLengthTag,
       A!ScanBodyLengthTag, Avx2!BodyLengthDigit, A!BodyLengthDigit, Avx2!BodyLengthEnd,
       A!BodyLengthEnd, Avx2!ScanMsgType, A!ScanMsgType, Avx2!kMinScan, A!kMinScan,
       Avx2!Return, A!Return, Avx2!HasLiteral, A!HasLiteral, Avx2!Equals, A!Equals,
       Avx2!StopsAt, A!StopsAt, Avx2!Advance, A!Advance, Avx2!PushBeginString,
       A!PushBeginString, Avx2!Entry, A!Entry, Avx2!BeginNumber, A!BeginNumber, Avx2!ByteAt,
       A!ByteAt, Avx2!Soh, A!Soh, Avx2!TakeDigit, A!TakeDigit, Avx2!PushBodyLength,
       A!PushBodyLength, Avx2!BodyFits, A!BodyFits, Avx2!PushMsgType, A!PushMsgType,
       Avx2!Push, A!Push, Avx2!U32, A!U32, Avx2!IsDigit, A!IsDigit, Avx2!Saturated,
       A!Saturated, Avx2!Accumulate, A!Accumulate, Avx2!kTrailer, A!kTrailer, Avx2!Digit,
       A!Digit
  <2>2. Avx2!StartPass1 <=> A!StartPass1
    BY Zenon DEF Avx2!StartPass1, A!StartPass1
  <2>3. Avx2!LoadLane <=> A!LoadLane
    BY Zenon DEF Avx2!LoadLane, A!LoadLane, Avx2!MoreLanes, A!MoreLanes, Avx2!LaneMask,
       A!LaneMask, Avx2!ScanEnd, A!ScanEnd, Avx2!ByteAt, A!ByteAt, Avx2!Soh, A!Soh,
       Avx2!kTrailer, A!kTrailer
  <2>4. Avx2!TakeLowestBit <=> A!TakeLowestBit
    BY Zenon DEF Avx2!TakeLowestBit, A!TakeLowestBit, Avx2!SohsAreFull, A!SohsAreFull,
       Avx2!ReturnInPass, A!ReturnInPass, Avx2!U32, A!U32, Avx2!Lowest, A!Lowest, Avx2!vars,
       A!vars, Avx2!Return, A!Return, Avx2!passVars, A!passVars
  <2>5. Avx2!NextLane <=> A!NextLane
    BY Zenon DEF Avx2!NextLane, A!NextLane
  <2>6. Avx2!TailByte <=> A!TailByte
    BY Zenon DEF Avx2!TailByte, A!TailByte, Avx2!MoreLanes, A!MoreLanes, Avx2!ScanEnd,
       A!ScanEnd, Avx2!ByteAt, A!ByteAt, Avx2!Soh, A!Soh, Avx2!SohsAreFull, A!SohsAreFull,
       Avx2!ReturnInPass, A!ReturnInPass, Avx2!U32, A!U32, Avx2!vars, A!vars, Avx2!kTrailer,
       A!kTrailer, Avx2!Return, A!Return, Avx2!passVars, A!passVars
  <2>7. Avx2!EndPass1 <=> A!EndPass1
    BY Zenon DEF Avx2!EndPass1, A!EndPass1, Avx2!MoreLanes, A!MoreLanes, Avx2!ScanEnd,
       A!ScanEnd, Avx2!ReturnInPass, A!ReturnInPass, Avx2!Advance, A!Advance, Avx2!U32, A!U32,
       Avx2!passVars, A!passVars, Avx2!kTrailer, A!kTrailer, Avx2!Return, A!Return
  <2>8. Avx2!NextField <=> A!NextField
    BY Zenon DEF Avx2!NextField, A!NextField, Avx2!MoreFields, A!MoreFields, Avx2!TableIsFull,
       A!TableIsFull, Avx2!ReturnInPass, A!ReturnInPass, Avx2!BeginNumber, A!BeginNumber,
       Avx2!passVars, A!passVars, Avx2!Return, A!Return
  <2>9. Avx2!TagDigit <=> A!TagDigit
    BY Zenon DEF Avx2!TagDigit, A!TagDigit, Avx2!FieldSoh, A!FieldSoh, Avx2!ByteAt, A!ByteAt,
       Avx2!Equals, A!Equals, Avx2!TakeDigit, A!TakeDigit, Avx2!passVars, A!passVars,
       Avx2!IsDigit, A!IsDigit, Avx2!Saturated, A!Saturated, Avx2!Return, A!Return,
       Avx2!Accumulate, A!Accumulate, Avx2!Digit, A!Digit, Avx2!U32, A!U32
  <2>10. Avx2!TagEnd <=> A!TagEnd
    BY Zenon DEF Avx2!TagEnd, A!TagEnd, Avx2!FieldSoh, A!FieldSoh, Avx2!ByteAt, A!ByteAt,
       Avx2!Equals, A!Equals, Avx2!ReturnInPass, A!ReturnInPass, Avx2!NeedsFallback,
       A!NeedsFallback, Avx2!Advance, A!Advance, Avx2!U32, A!U32, Avx2!Push, A!Push,
       Avx2!Entry, A!Entry, Avx2!Return, A!Return, Avx2!passVars, A!passVars
  <2>11. Avx2!CheckTrailer <=> A!CheckTrailer
    BY Zenon DEF Avx2!CheckTrailer, A!CheckTrailer, Avx2!MoreFields, A!MoreFields,
       Avx2!TrailerVerdict, A!TrailerVerdict, Avx2!ReturnInPass, A!ReturnInPass,
       Avx2!PushCheckSum, A!PushCheckSum, Avx2!Entry, A!Entry, Avx2!passVars, A!passVars,
       Avx2!U32, A!U32, Avx2!HasLiteral, A!HasLiteral, Avx2!Equals, A!Equals, Avx2!IsDigit,
       A!IsDigit, Avx2!ByteAt, A!ByteAt, Avx2!TableIsFull, A!TableIsFull, Avx2!Return,
       A!Return, Avx2!Push, A!Push, Avx2!Digit, A!Digit
  <2> QED
    BY <2>1, <2>2, <2>3, <2>4, <2>5, <2>6, <2>7, <2>8, <2>9, <2>10, <2>11 DEF Avx2!ScanStep, A!ScanStep
<1> QED BY <1>1, <1>2, <1>3, <1>4

(* Frames mean the same to the pair and to the proofs of the scalar scanner. *)
LEMMA ScalarFrames ==
    /\ \A o : Readable(o) = S!Readable(o) /\ (Deferred(o) <=> S!Deferred(o))
    /\ \A b, o : Whole(b, o) <=> S!Whole(b, o)
    /\ \A o : FrameShape(o) <=> S!FrameShape(o)
<1>1. ASSUME NEW o PROVE Readable(o) = S!Readable(o)
  BY Zenon DEF Readable, S!Readable
<1>2. ASSUME NEW o PROVE Deferred(o) <=> S!Deferred(o)
  BY Zenon DEF Deferred, S!Deferred
<1>3. ASSUME NEW b, NEW o PROVE Whole(b, o) <=> S!Whole(b, o)
  BY Zenon DEF Whole, S!Whole, Piecewise, S!Piecewise, Spelled, S!Spelled, LengthRead,
     S!LengthRead, TagRead, S!TagRead, HasLiteral, S!HasLiteral, Equals, S!Equals, IsDigit,
     S!IsDigit, ByteAt, S!ByteAt, WellFormedField, S!WellFormedField, Numeral, S!Numeral,
     NumberRead, S!NumberRead, Digit, S!Digit, Soh, S!Soh, Decimal, S!Decimal, Representable,
     S!Representable, Saturated, S!Saturated
<1>4. ASSUME NEW o PROVE FrameShape(o) <=> S!FrameShape(o)
  BY Zenon DEF FrameShape, S!FrameShape
<1> QED BY <1>1, <1>2, <1>3, <1>4

(* And to those of the AVX2 scanner.                                         *)
LEMMA Avx2Frames ==
    /\ \A o : Readable(o) = A!Readable(o) /\ (Deferred(o) <=> A!Deferred(o))
    /\ \A b, o : Whole(b, o) <=> A!Whole(b, o)
    /\ \A o : FrameShape(o) <=> A!FrameShape(o)
<1>1. ASSUME NEW o PROVE Readable(o) = A!Readable(o)
  BY Zenon DEF Readable, A!Readable
<1>2. ASSUME NEW o PROVE Deferred(o) <=> A!Deferred(o)
  BY Zenon DEF Deferred, A!Deferred
<1>3. ASSUME NEW b, NEW o PROVE Whole(b, o) <=> A!Whole(b, o)
  BY Zenon DEF Whole, A!Whole, Piecewise, A!Piecewise, Spelled, A!Spelled, LengthRead,
     A!LengthRead, TagRead, A!TagRead, HasLiteral, A!HasLiteral, Equals, A!Equals, IsDigit,
     A!IsDigit, ByteAt, A!ByteAt, WellFormedField, A!WellFormedField, Numeral, A!Numeral,
     NumberRead, A!NumberRead, Digit, A!Digit, Soh, A!Soh, Decimal, A!Decimal, Representable,
     A!Representable, Saturated, A!Saturated
<1>4. ASSUME NEW o PROVE FrameShape(o) <=> A!FrameShape(o)
  BY Zenon DEF FrameShape, A!FrameShape
<1> QED BY <1>1, <1>2, <1>3, <1>4

(* Both scanners begin at the same place, and move through the header alike. *)
LEMMA SameStart ==
    /\ S!AtStart = A!AtStart
    /\ \A b, s, t : S!HeaderMoves(b, s, t) <=> A!HeaderMoves(b, s, t)
<1>1. S!AtStart = A!AtStart
  BY Zenon DEF S!AtStart, A!AtStart
<1>2. ASSUME NEW b, NEW s, NEW t
      PROVE  S!HeaderMoves(b, s, t) <=> A!HeaderMoves(b, s, t)
  BY Zenon DEF S!HeaderMoves, A!HeaderMoves, S!kMinScan, A!kMinScan, S!Returns, A!Returns,
     S!HasLiteral, A!HasLiteral, S!Equals, A!Equals, S!StopsAt, A!StopsAt, S!Stores, A!Stores,
     S!Begins, A!Begins, S!ByteAt, A!ByteAt, S!Soh, A!Soh, S!Takes, A!Takes, S!kTrailer,
     A!kTrailer, S!IsDigit, A!IsDigit, S!Saturated, A!Saturated, S!Accumulate, A!Accumulate,
     S!Digit, A!Digit, S!U32, A!U32
<1> QED BY <1>1, <1>2

(* What the scanners' proofs assume.                                         *)
LEMMA ScalarMayRun ==
    /\ S!Byte = Byte /\ S!Verdict = Verdict /\ S!FieldIndex = FieldIndex
    /\ Buffers \subseteq Seq(S!Byte) /\ {} \subseteq Seq(S!Byte) /\ 1 \in Nat \ {0}
<1>1. S!Byte = Byte
  BY DEF S!Byte, Byte
<1>2. S!Verdict = Verdict
  BY DEF S!Verdict, Verdict
<1>3. S!FieldIndex = FieldIndex
  BY Zenon DEF S!FieldIndex, FieldIndex, S!Slot, Slot, S!UInt32, UInt32, S!FieldEntry, FieldEntry
<1> QED BY <1>1, <1>2, <1>3, PairAssumption

(* And those of the AVX2 scanner.                                            *)
LEMMA Avx2MayRun ==
    /\ A!Byte = Byte /\ A!Verdict = Verdict /\ A!FieldIndex = FieldIndex
    /\ Buffers \subseteq Seq(A!Byte) /\ {} \subseteq Seq(A!Byte) /\ 1 \in Nat \ {0}
    /\ Lane \in Nat \ {0}
<1>1. A!Byte = Byte
  BY DEF A!Byte, Byte
<1>2. A!Verdict = Verdict
  BY DEF A!Verdict, Verdict
<1>3. A!FieldIndex = FieldIndex
  BY Zenon DEF A!FieldIndex, FieldIndex, A!Slot, Slot, A!UInt32, UInt32, A!FieldEntry, FieldEntry
<1> QED BY <1>1, <1>2, <1>3, PairAssumption

(* What a scanner says of a frame that begins the buffer.                    *)
Answers(verdict, o) ==
    IF Deferred(o) THEN verdict \in {"FallbackRequested", "TableFull"} ELSE verdict = "Ok"

(* The last field of an index, and whether its tag has two bytes.            *)
Trailer(o) == o.fields[o.field_count - 1]

Plain(o) == Trailer(o).value_start = Trailer(o).tag_start + 3

(* The index o is the one of a frame that begins the buffer.                 *)
Delimits(o) == Whole(buf, o) /\ FrameShape(o) /\ ~Deferred(o)

(* A whole frame lies in the buffer, and its trailer is its last field.      *)
LEMMA WholeFits ==
    ASSUME NEW b \in Seq(Byte), NEW o, Whole(b, o)
    PROVE  /\ o.frame_length \in Nat /\ o.frame_length <= Len(b) /\ Len(b) \in Nat
           /\ o.checksum_idx = o.field_count - 1
           /\ o.frame_length > 0
<1>1. Piecewise(b, o)
  BY DEF Whole
<1>2. o.frame_length \in Nat /\ o.frame_length <= Len(b)
  BY <1>1, FrameBytes
<1>3. o.frame_length > 0
  <2>1. o.field_count - 1 \in 0 .. (o.field_count - 1)
    BY <1>1 DEF Piecewise
  <2> QED BY <1>1, <2>1 DEF Piecewise
<1> QED BY <1>2, <1>3 DEF Whole

(* The scalar scanner accepts no buffer but one that begins with a frame,    *)
(* and every buffer that begins with a whole frame, unless the frame is left *)
(* to QuickFIX.                                                              *)
LEMMA ScalarAnswers ==
    ASSUME S!ScanInv, Scalar!Finished
    PROVE  /\ buf \in Seq(Byte) /\ sStatus \in Verdict
           /\ sStatus = "Ok" => Delimits(Readable(sOut))
                                /\ Trailer(Readable(sOut)).tag_start = sBodyEnd
           /\ \A o : Whole(buf, o) => Answers(sStatus, o)
<1>1. S!Finished
  BY ScalarIsScalar
<1>2. /\ buf \in Seq(S!Byte) /\ sStatus \in S!Verdict
      /\ sStatus = "Ok" => S!Readable(sOut) \in S!FrameIndices(buf)
      /\ \A o : S!Whole(buf, o) => S!Settled(o)
  BY <1>1, ScalarMayRun, S!ScanAnswers, WidthAssumption, CapacityAssumption
<1>3. buf \in Seq(Byte) /\ sStatus \in Verdict
  BY <1>2, ScalarMayRun
<1>4. ASSUME sStatus = "Ok"
      PROVE  Delimits(Readable(sOut)) /\ Trailer(Readable(sOut)).tag_start = sBodyEnd
  <2> DEFINE o == S!Readable(sOut)
  <2>1. o \in S!FrameIndices(buf)
    BY <1>2, <1>4
  <2> HIDE DEF o
  <2>2. S!Whole(buf, o) /\ ~S!Deferred(o)
    BY <1>2, <2>1, ScalarMayRun, S!FrameIsWhole, WidthAssumption, CapacityAssumption
  <2>3. S!FrameShape(o)
    BY <2>1, ScalarMayRun, S!FrameHasShape, WidthAssumption, CapacityAssumption
  <2>4. Delimits(o)
    BY <2>2, <2>3, ScalarFrames DEF Delimits
  <2>5. S!TrailerAtBodyEnd
    BY DEF S!ScanInv
  <2>6. o.fields[o.checksum_idx].tag_start = sBodyEnd
    BY <1>1, <1>4, <2>5 DEF S!TrailerAtBodyEnd, o
  <2>7. o.checksum_idx = o.field_count - 1
    BY <1>3, <2>4, WholeFits DEF Delimits
  <2>8. o = Readable(sOut)
    BY ScalarFrames DEF o
  <2> QED BY <2>4, <2>6, <2>7, <2>8 DEF Trailer
<1>5. ASSUME NEW o, Whole(buf, o) PROVE Answers(sStatus, o)
  <2>1. S!Settled(o)
    BY <1>2, <1>5, ScalarFrames
  <2>2. o.frame_length <= Len(buf) /\ o.frame_length \in Nat /\ Len(buf) \in Nat
    BY <1>3, <1>5, WholeFits
  <2> QED BY <2>1, <2>2, ScalarFrames DEF S!Settled, Answers
<1> QED BY <1>3, <1>4, <1>5

(* So does the AVX2 scanner, of the frames whose trailer is spelled "10=".   *)
LEMMA Avx2Answers ==
    ASSUME A!ScanInv, Avx2!Finished
    PROVE  /\ buf \in Seq(Byte) /\ aStatus \in Verdict
           /\ aStatus = "Ok" => Delimits(Readable(aOut)) /\ Plain(Readable(aOut))
           /\ \A o : Whole(buf, o) /\ Plain(o) => Answers(aStatus, o)
<1>1. A!Finished
  BY Avx2IsAvx2
<1>2. /\ buf \in Seq(A!Byte) /\ aStatus \in A!Verdict
      /\ aStatus = "Ok" => A!Readable(aOut) \in A!FrameIndices(buf)
                           /\ A!PlainTrailer(A!Readable(aOut))
      /\ \A o : A!Whole(buf, o) /\ A!PlainTrailer(o) => A!Settled(o)
  BY <1>1, Avx2MayRun, A!ScanAnswers, WidthAssumption, CapacityAssumption
<1>3. buf \in Seq(Byte) /\ aStatus \in Verdict
  BY <1>2, Avx2MayRun
<1>4. ASSUME NEW o, Whole(buf, o) PROVE A!PlainTrailer(o) <=> Plain(o)
  BY <1>3, <1>4, WholeFits DEF A!PlainTrailer, Plain, Trailer
<1>5. ASSUME aStatus = "Ok" PROVE Delimits(Readable(aOut)) /\ Plain(Readable(aOut))
  <2> DEFINE o == A!Readable(aOut)
  <2>1. o \in A!FrameIndices(buf) /\ A!PlainTrailer(o)
    BY <1>2, <1>5
  <2> HIDE DEF o
  <2>2. A!Whole(buf, o) /\ ~A!Deferred(o)
    BY <1>2, <2>1, Avx2MayRun, A!FrameIsWhole, WidthAssumption, CapacityAssumption
  <2>3. A!FrameShape(o)
    BY <2>1, Avx2MayRun, A!FrameHasShape, WidthAssumption, CapacityAssumption
  <2>4. Delimits(o)
    BY <2>2, <2>3, Avx2Frames DEF Delimits
  <2>5. Plain(o)
    BY <1>4, <2>1, <2>4 DEF Delimits
  <2>6. o = Readable(aOut)
    BY Avx2Frames DEF o
  <2> QED BY <2>4, <2>5, <2>6
<1>6. ASSUME NEW o, Whole(buf, o), Plain(o) PROVE Answers(aStatus, o)
  <2>1. A!Settled(o)
    BY <1>2, <1>4, <1>6, Avx2Frames
  <2>2. o.frame_length <= Len(buf) /\ o.frame_length \in Nat /\ Len(buf) \in Nat
    BY <1>3, <1>6, WholeFits
  <2> QED BY <2>1, <2>2, Avx2Frames DEF A!Settled, Answers
<1> QED BY <1>3, <1>5, <1>6

(* A trailer is plain if the buffer spells its tag "10=".                    *)
LEMMA PlainIsSpelled ==
    ASSUME NEW b \in Seq(Byte), NEW o, Whole(b, o)
    PROVE  Plain(o) <=> HasLiteral(b, Trailer(o).tag_start, <<1, 0, Equals>>)
<1> DEFINE e == Trailer(o)
           s == e.tag_start
<1>1. /\ WellFormedField(b, e) /\ TagRead(b, e) /\ e.tag_number = 10 /\ Len(b) \in Nat
      /\ e.tag_start \in Nat /\ e.value_start \in Nat /\ e.value_end \in Nat
  <2>1. o.field_count - 1 \in 0 .. (o.field_count - 1) /\ Piecewise(b, o)
    BY DEF Whole, Piecewise
  <2>2. e = o.fields[o.field_count - 1]
    BY DEF Trailer
  <2> HIDE DEF e
  <2>3. TagRead(b, e) /\ e.tag_number = 10
    BY <2>1, <2>2 DEF Whole
  <2>4. /\ WellFormedField(b, e)
        /\ e.tag_start \in Nat /\ e.value_start \in Nat /\ e.value_end \in Nat
    <3>1. \A k \in 0 .. (o.field_count - 1) :
             /\ o.fields[k].tag_start \in Nat /\ o.fields[k].value_start \in Nat
             /\ o.fields[k].value_end \in Nat
             /\ WellFormedField(b, o.fields[k])
      BY <2>1, Zenon DEF Piecewise
    <3> QED BY <2>1, <2>2, <3>1, Zenon
  <2>5. Len(b) \in Nat
    OBVIOUS
  <2> QED BY <2>3, <2>4, <2>5
<1> HIDE DEF e
<1>2. ASSUME e.value_start = e.tag_start + 3 PROVE HasLiteral(b, s, <<1, 0, Equals>>)
  <2>1. e.tag_number = 1 * 10 + 0 /\ 1 \in 0 .. 9 /\ 0 \in 0 .. 9
    BY <1>1
  <2> QED BY <1>1, <1>2, <2>1, SpelledTwo
<1>3. ASSUME HasLiteral(b, s, <<1, 0, Equals>>) PROVE e.value_start = e.tag_start + 3
  <2>1. ByteAt(b, s) = 1 /\ ByteAt(b, s + 1) = 0 /\ ByteAt(b, s + 2) = Equals
    BY <1>1, <1>3, Literal3
  <2>2. \A k \in s .. ((s + 2) - 1) : IsDigit(ByteAt(b, k))
    <3>1. \A k \in s .. ((s + 2) - 1) : k = s \/ k = s + 1
      BY <1>1
    <3> QED BY <2>1, <3>1 DEF IsDigit, Digit
  <2>3. e.value_start = (s + 2) + 1
    BY <1>1, <2>1, <2>2, TagStops
  <2> QED BY <1>1, <2>3
<1> QED BY <1>2, <1>3 DEF Plain, e

(* Both accept the same buffers, but for the trailers that only the scalar   *)
(* scanner reads as tag 10.                                                  *)
LEMMA PairAgrees ==
    ASSUME S!ScanInv, A!ScanInv, Compared
    PROVE  AgreeOnAcceptance
<1>1. /\ buf \in Seq(Byte)
      /\ sStatus = "Ok" => Delimits(Readable(sOut))
                           /\ Trailer(Readable(sOut)).tag_start = sBodyEnd
      /\ \A o : Whole(buf, o) => Answers(sStatus, o)
  BY ScalarAnswers DEF Compared
<1>2. /\ aStatus = "Ok" => Delimits(Readable(aOut)) /\ Plain(Readable(aOut))
      /\ \A o : Whole(buf, o) /\ Plain(o) => Answers(aStatus, o)
  BY Avx2Answers DEF Compared
<1>3. ASSUME aStatus = "Ok"
      PROVE  sStatus = "Ok" /\ HasLiteral(buf, sBodyEnd, <<1, 0, Equals>>) /\ SameIndex
  <2>1. sStatus = "Ok"
    BY <1>1, <1>2, <1>3 DEF Delimits, Answers
  <2>2. Readable(sOut) = Readable(aOut)
    BY <1>1, <1>2, <1>3, <2>1, FrameIsUnique DEF Delimits
  <2>3. HasLiteral(buf, sBodyEnd, <<1, 0, Equals>>)
    BY <1>1, <1>2, <1>3, <2>1, <2>2, PlainIsSpelled DEF Delimits
  <2> QED BY <2>1, <2>2, <2>3 DEF SameIndex
<1>4. ASSUME sStatus = "Ok", HasLiteral(buf, sBodyEnd, <<1, 0, Equals>>)
      PROVE  aStatus = "Ok"
  <2>1. Plain(Readable(sOut))
    BY <1>1, <1>4, PlainIsSpelled DEF Delimits
  <2> QED BY <1>1, <1>2, <1>4, <2>1 DEF Delimits, Answers
<1> QED BY <1>3, <1>4 DEF AgreeOnAcceptance

(* Steps of the pair keep the scanners' invariants.                          *)
LEMMA ScalarBegins ==
    ASSUME S!ScanInv, NEW b \in Seq(Byte), Len(b) <= UINT32_MAX, Scalar!Call(b)
    PROVE  S!ScanInv' /\ sPc' = "tag8" /\ buf' = b
<1>1. S!Call(b)
  BY ScalarIsScalar
<1>2. S!ScanInv'
  BY <1>1, ScalarMayRun, S!ScanInvCall, WidthAssumption, CapacityAssumption
<1> QED BY <1>1, <1>2 DEF S!Call

(* A call of the AVX2 scanner.                                               *)
LEMMA Avx2Begins ==
    ASSUME A!ScanInv, NEW b \in Seq(Byte), Len(b) <= UINT32_MAX, Avx2!Enter(b)
    PROVE  A!ScanInv' /\ A!Locals' = A!AtStart /\ buf' = b
<1>1. A!Enter(b)
  BY Avx2IsAvx2
<1>2. A!ScanInv' /\ A!Locals' = A!AtStart
  BY <1>1, Avx2MayRun, A!ScanInvEnter, WidthAssumption, CapacityAssumption
<1> QED BY <1>1, <1>2 DEF A!Enter, A!Call

(* A statement of the scalar scanner.                                        *)
LEMMA ScalarGoesOn ==
    ASSUME S!ScanInv, Scalar!ScanStep
    PROVE  S!ScanInv' /\ sPc # "idle" /\ buf' = buf
<1>1. S!ScanStep
  BY ScalarIsScalar
<1>2. S!ScanInv'
  BY <1>1, ScalarMayRun, S!ScanInvStep, WidthAssumption, CapacityAssumption
<1>3. sPc # "idle" /\ buf' = buf
  BY <1>1, ScalarMayRun, S!StepOutcome, WidthAssumption, CapacityAssumption DEF S!ScanInv
<1> QED BY <1>2, <1>3

(* A statement of the AVX2 scanner.                                          *)
LEMMA Avx2GoesOn ==
    ASSUME A!ScanInv, Avx2!ScanStep
    PROVE  A!ScanInv' /\ A!ScanStep /\ aPc # "idle" /\ buf' = buf
<1>1. A!ScanStep
  BY Avx2IsAvx2
<1>2. A!ScanInv'
  BY <1>1, Avx2MayRun, A!ScanInvStep, WidthAssumption, CapacityAssumption
<1>3. aPc # "idle" /\ buf' = buf
  BY <1>1, Avx2MayRun, A!StepOutcome, WidthAssumption, CapacityAssumption DEF A!ScanInv
<1> QED BY <1>1, <1>2, <1>3

(* A step of the other scanner.                                              *)
LEMMA ScalarRests ==
    ASSUME S!ScanInv, UNCHANGED <<buf, scalarVars>>
    PROVE  S!ScanInv'
<1>1. UNCHANGED S!vars
  BY DEF S!vars, scalarVars
<1> QED BY <1>1, ScalarMayRun, S!ScanInvStutter, WidthAssumption, CapacityAssumption

(* A step of the other scanner.                                              *)
LEMMA Avx2Rests ==
    ASSUME A!ScanInv, UNCHANGED <<buf, avx2Vars>>
    PROVE  A!ScanInv'
<1>1. UNCHANGED <<A!vars, A!passVars>>
  BY DEF A!vars, A!passVars, avx2Vars
<1> QED BY <1>1, Avx2MayRun, A!ScanInvStutter, WidthAssumption, CapacityAssumption

(* Both indices are new ones.                                                *)
LEMMA PairIsRenewed ==
    ASSUME S!ScanInv, A!ScanInv, EndCompare
    PROVE  S!ScanInv' /\ A!ScanInv' /\ sStatus' = "None" /\ aStatus' = "None"
<1>1. sPc = "idle" /\ aPc = "idle"
  BY DEF EndCompare, Scalar!Finished, Avx2!Finished
<1>2. S!NewIndex = NewIndex /\ A!NewIndex = NewIndex
  BY Zenon DEF S!NewIndex, A!NewIndex, NewIndex, S!Entry, A!Entry, Entry, S!U32, A!U32, U32
<1>3. S!ScanInv'
  BY <1>1, <1>2, ScalarMayRun, S!ScanInvFresh, WidthAssumption, CapacityAssumption DEF EndCompare
<1>4. A!ScanInv'
  BY <1>1, <1>2, Avx2MayRun, A!ScanInvFresh, WidthAssumption, CapacityAssumption
     DEF EndCompare, A!passVars
<1> QED BY <1>3, <1>4 DEF EndCompare

-----------------------------------------------------------------------------
(* The AVX2 scanner, which runs after the scalar one, passes the header      *)
(* where the scalar one has passed it, if that had a final verdict.          *)
WaitInv ==
    /\ sPc # "idle" => A!Locals = A!AtStart
    /\ sPc = "idle" /\ sStatus \notin {"None", "Truncated"} =>
          /\ \E T : S!Visited(buf, T, S!Locals) /\ (aPc \in A!InHeader => A!Locals \in T)
          /\ aPc = "idle" => aStatus # "Truncated"

(* The call of both scanners establishes WaitInv.                            *)
LEMMA WaitBegins ==
    ASSUME S!ScanInv, A!ScanInv, NEW b \in Seq(Byte), Len(b) <= UINT32_MAX, Compare(b)
    PROVE  S!ScanInv' /\ A!ScanInv' /\ WaitInv'
BY ScalarBegins, Avx2Begins DEF Compare, WaitInv

(* A statement of the scalar scanner preserves it.                           *)
LEMMA WaitScalar ==
    ASSUME S!ScanInv, WaitInv, RunScalar
    PROVE  S!ScanInv' /\ WaitInv'
<1>1. S!ScanInv' /\ sPc # "idle" /\ buf' = buf
  BY ScalarGoesOn DEF RunScalar
<1>2. A!Locals' = A!Locals /\ aPc' = aPc
  BY DEF RunScalar, avx2Vars, A!Locals
<1>3. A!Locals = A!AtStart /\ A!Locals.pc = aPc /\ A!AtStart.pc = "tag8"
  BY <1>1 DEF WaitInv, A!Locals, A!AtStart
<1>4. ASSUME sPc' = "idle", sStatus' # "None"
      PROVE  \E T : (S!Visited(buf, T, S!Locals))' /\ A!Locals' \in T
  <2>1. \E T : (S!Visited(buf, T, S!Locals))'
    BY <1>1, <1>4 DEF S!ScanInv, S!RunInv
  <2>2. \A T : (S!Visited(buf, T, S!Locals))' => S!AtStart \in T
    BY DEF S!Visited
  <2> QED BY <1>2, <1>3, <2>1, <2>2, SameStart
<1> QED BY <1>1, <1>2, <1>3, <1>4 DEF WaitInv

(* A statement of the AVX2 scanner preserves it.                             *)
LEMMA WaitAvx2 ==
    ASSUME S!ScanInv, A!ScanInv, WaitInv, RunAvx2
    PROVE  S!ScanInv' /\ A!ScanInv' /\ WaitInv'
<1>1. A!ScanInv' /\ A!ScanStep /\ buf' = buf /\ aPc # "idle"
  BY Avx2GoesOn DEF RunAvx2
<1>2. S!ScanInv' /\ sPc' = sPc /\ sPc = "idle" /\ sStatus' = sStatus /\ S!Locals' = S!Locals
  BY <1>1, ScalarRests DEF RunAvx2, scalarVars, S!Locals
<1>3. SUFFICES ASSUME sStatus \notin {"None", "Truncated"}
               PROVE  /\ \E T : (S!Visited(buf, T, S!Locals))'
                                /\ (aPc' \in A!InHeader => A!Locals' \in T)
                      /\ aPc' = "idle" => aStatus' # "Truncated"
  BY <1>1, <1>2 DEF WaitInv
<1>4. PICK T : S!Visited(buf, T, S!Locals) /\ (aPc \in A!InHeader => A!Locals \in T)
  BY <1>2, <1>3 DEF WaitInv
<1>5. (S!Visited(buf, T, S!Locals))'
  BY <1>1, <1>2, <1>4 DEF S!Visited
<1>6. IF aPc \in A!InHeader THEN A!HeaderMoves(buf, A!Locals, A!Locals')
      ELSE aPc' \notin A!InHeader /\ (aPc' = "idle" => aStatus' # "Truncated")
  BY <1>1, Avx2MayRun, A!OnlyHeaderWaits, WidthAssumption, CapacityAssumption
<1>7. CASE aPc \in A!InHeader
  <2>1. S!Decides(buf, T, sStatus)
    BY <1>2, <1>3, <1>4, ScalarMayRun, S!EndDecides, WidthAssumption, CapacityAssumption
       DEF S!Finished
  <2>2. PICK t \in T : S!Moves(buf, A!Locals, t)
    BY <1>4, <1>7, <2>1 DEF S!Decides, A!InHeader, A!Locals
  <2>3. A!HeaderMoves(buf, A!Locals, t)
    <3>1. A!Locals.pc = aPc
      BY DEF A!Locals
    <3>2. S!HeaderMoves(buf, A!Locals, t)
      BY <1>7, <2>2, <3>1 DEF A!InHeader, S!Moves, S!NextFieldMoves, S!TagMoves, S!ValueMoves
    <3> QED BY <3>2, SameStart
  <2>4. t.status # "Truncated"
    BY <1>3, <2>1 DEF S!Decides
  <2>5. A!Locals' = t
    <3>1. A!HeaderTypeInv /\ aP <= Len(buf) /\ buf \in Seq(A!Byte)
      BY DEF A!ScanInv, A!TypeInv, A!HeaderTypeInv, A!HeaderTypeOK
    <3>2. A!Alike(buf, buf, Len(buf))
      BY <3>1 DEF A!Alike
    <3> QED BY <1>6, <1>7, <2>3, <2>4, <3>1, <3>2, Avx2MayRun, A!HeaderLockstep,
               WidthAssumption, CapacityAssumption
  <2>6. A!Locals'.pc = aPc' /\ A!Locals'.status = aStatus'
    BY DEF A!Locals
  <2> QED BY <1>5, <2>4, <2>5, <2>6
<1>8. CASE aPc \notin A!InHeader
  BY <1>5, <1>6, <1>8
<1> QED BY <1>7, <1>8

(* So the AVX2 scanner waits for no byte which the scalar one does not wait  *)
(* for.                                                                      *)
LEMMA PairWaits ==
    ASSUME WaitInv, Compared
    PROVE  Avx2NeverWaitsAlone
BY DEF WaitInv, Compared, Avx2NeverWaitsAlone, Scalar!Finished, Avx2!Finished

-----------------------------------------------------------------------------
(* The inductive invariant of the loops.                                     *)
PairInv ==
    /\ scanner # "Avx2" => S!ScanInv
    /\ scanner # "Scalar" => A!ScanInv
    /\ scanner = "Both" => WaitInv
    /\ scanner = "Avx2" => sPc = "idle" /\ sStatus = "None"
    /\ scanner = "Scalar" => aPc = "idle" /\ aStatus = "None"

(* The stream is the one it was at the start.                                *)
StreamOK ==
    /\ scanner \in {"Scalar", "Avx2", "Both"}
    /\ messages \in Seq(Template) /\ stream \in Seq(Byte) /\ Len(stream) <= UINT32_MAX
    /\ Rendered => stream = RenderAll(messages)

(* The scanners look, or have looked, at what is left of the stream.         *)
AtRest ==
    /\ pos < Len(stream)
    /\ buf = Span(stream, pos, Len(stream))
    /\ scanner # "Avx2" /\ sPc = "idle" => sStatus # "None"
    /\ scanner # "Scalar" /\ aPc = "idle" => aStatus # "None"

(* What the loop asks of the verdicts.                                       *)
Agreed == Verdicts = {"Ok"} /\ (scanner = "Both" => SameIndex)

(* While the stream is a rendered one, the loop stands between messages.     *)
LoopInv ==
    /\ loop \in {"head", "scan", "done", "failed"}
    /\ pos \in Nat /\ count \in Nat
    /\ Rendered => count <= Len(messages) /\ pos = FrameLengths(count)
    /\ loop # "scan" => sPc = "idle" /\ aPc = "idle"
    /\ loop \in {"scan", "failed"} => AtRest
    /\ loop = "done" => pos >= Len(stream)
    /\ loop = "failed" => ~Agreed

SplitInv == PairInv /\ StreamOK /\ LoopInv

(* The offset of a message, as the property and as the lemmas name it.       *)
LEMMA LengthsAreFrameLengths ==
    ASSUME NEW n
    PROVE  FrameLengths(n) = Lengths(messages, n)
BY DEF FrameLengths, Lengths

(* What the loop scans of a generated stream begins with a message, whose    *)
(* layout is the index the frame has.                                        *)
LEMMA AtMessage ==
    ASSUME StreamOK, Rendered, pos \in Nat, count \in Nat, count <= Len(messages),
           pos = FrameLengths(count), pos < Len(stream), buf = Span(stream, pos, Len(stream))
    PROVE  LET m == messages[count + 1]
               o == Layout(m)
           IN  /\ count + 1 <= Len(messages) /\ FrameLengths(count + 1) = pos + o.frame_length
               /\ buf \in Seq(Byte) /\ Whole(buf, o) /\ FrameShape(o) /\ Plain(o)
               /\ Deferred(o) <=> LeftToQuickFIX(m)
               /\ Len(m) \in Nat /\ o.field_count = Len(m) + 3
               /\ \A k \in 1 .. Len(m) :
                     LET e == o.fields[k + 1]
                     IN  [tag |-> e.tag_number,
                          value |-> SubSeq(buf, e.value_start + 1, e.value_end)] = m[k]
<1> DEFINE m == messages[count + 1]
           o == Layout(m)
           at == Lengths(messages, count)
           next == Lengths(messages, count + 1)
<1>1. /\ stream \in Seq(Byte) /\ Len(messages) \in Nat /\ Len(stream) \in Nat
      /\ Lengths(messages, Len(messages)) = Len(stream)
      /\ \A n \in 0 .. (Len(messages) - 1) :
            /\ messages[n + 1] \in Template
            /\ Lengths(messages, n + 1) = Lengths(messages, n) + Len(Render(messages[n + 1]))
            /\ Lengths(messages, n + 1) <= Len(stream)
            /\ StandsAt(stream, Lengths(messages, n), Render(messages[n + 1]))
  BY CorpusStarts DEF StreamOK
<1>2. pos = at
  BY LengthsAreFrameLengths
<1>3. count \in 0 .. (Len(messages) - 1)
  BY <1>1, <1>2
<1>4. /\ m \in Template /\ next = at + Len(Render(m)) /\ next <= Len(stream)
      /\ StandsAt(stream, at, Render(m))
  BY <1>1, <1>3
<1> HIDE DEF at, next
<1>5. /\ buf \in Seq(Byte) /\ Whole(buf, o) /\ FrameShape(o)
      /\ o.fields[o.checksum_idx].value_start = o.fields[o.checksum_idx].tag_start + 3
      /\ Deferred(o) <=> LeftToQuickFIX(m)
      /\ o.field_count = Len(m) + 3 /\ o.frame_length = Len(Render(m))
      /\ \A k \in 1 .. Len(m) :
            LET e == o.fields[k + 1]
            IN  [tag |-> e.tag_number, value |-> SubSeq(buf, e.value_start + 1, e.value_end)]
                  = m[k]
  <2> HIDE DEF m
  <2>1. Len(stream) <= UINT32_MAX /\ pos + Len(Render(m)) <= Len(stream)
        /\ StandsAt(stream, pos, Render(m))
    BY <1>2, <1>4 DEF StreamOK
  <2>2. /\ stream \in Seq(Byte) /\ Len(stream) <= UINT32_MAX /\ m \in Template /\ pos \in Nat
        /\ pos + Len(Render(m)) <= Len(stream) /\ StandsAt(stream, pos, Render(m))
        /\ buf = Span(stream, pos, Len(stream))
    BY <1>1, <1>4, <2>1
  <2>3. /\ buf \in Seq(Byte) /\ Whole(buf, o) /\ FrameShape(o)
        /\ o.fields[o.checksum_idx].value_start = o.fields[o.checksum_idx].tag_start + 3
    BY <2>2, RestBegins
  <2>4. (Deferred(o) <=> LeftToQuickFIX(m)) /\ o.field_count = Len(m) + 3
        /\ o.frame_length = Len(Render(m))
    BY <2>2, RestBegins
  <2>5. ASSUME NEW k \in 1 .. Len(m)
        PROVE  LET e == o.fields[k + 1]
               IN  [tag |-> e.tag_number,
                    value |-> SubSeq(buf, e.value_start + 1, e.value_end)] = m[k]
    BY <2>2, RestBegins
  <2> HIDE DEF o
  <2> QED BY Zenon, <2>3, <2>4, <2>5
<1>6. Plain(o)
  BY <1>5, WholeFits DEF Plain, Trailer
<1>7. Len(m) \in Nat
  BY <1>4 DEF Template
<1>8. FrameLengths(count + 1) = pos + o.frame_length
  BY <1>2, <1>4, <1>5, LengthsAreFrameLengths DEF next
<1>9. count + 1 <= Len(messages)
  BY <1>1, <1>3
<1> QED BY <1>5, <1>6, <1>7, <1>8, <1>9, Zenon

(* The index the loop reads is an index.                                     *)
LEMMA IndexIsTyped ==
    ASSUME SplitInv
    PROVE  Index \in FieldIndex
<1>1. CASE scanner = "Avx2"
  <2>1. A!ScanInv
    BY <1>1 DEF SplitInv, PairInv
  <2>2. aOut \in A!FieldIndex
    BY <2>1 DEF A!ScanInv, A!TypeInv, A!HeaderTypeInv, A!HeaderTypeOK
  <2> QED BY <1>1, <2>2, Avx2MayRun DEF Index
<1>2. CASE scanner # "Avx2"
  <2>1. S!ScanInv
    BY <1>2 DEF SplitInv, PairInv
  <2>2. sOut \in S!FieldIndex
    BY <2>1 DEF S!ScanInv, S!TypeInv, S!HeaderTypeInv, S!HeaderTypeOK
  <2> QED BY <1>2, <2>2, ScalarMayRun DEF Index
<1> QED BY <1>1, <1>2

(* When the scanners have returned, the loop knows all there is to know of   *)
(* the frames that begin what it has scanned.                                *)
LEMMA LoopAnswers ==
    ASSUME SplitInv, loop \in {"scan", "failed"}, sPc = "idle", aPc = "idle"
    PROVE  /\ Verdicts = {"Ok"} => Delimits(Readable(Index))
           /\ \A o : Whole(buf, o) /\ Plain(o) => \A v \in Verdicts : Answers(v, o)
           /\ Verdicts # {}
           /\ scanner = "Both" /\ Verdicts = {"Ok"} => SameIndex
<1>1. AtRest /\ scanner \in {"Scalar", "Avx2", "Both"}
  BY DEF SplitInv, LoopInv, StreamOK
<1>2. scanner # "Avx2" => S!ScanInv /\ Scalar!Finished
  BY <1>1 DEF SplitInv, PairInv, AtRest, Scalar!Finished
<1>3. scanner # "Scalar" => A!ScanInv /\ Avx2!Finished
  BY <1>1 DEF SplitInv, PairInv, AtRest, Avx2!Finished
<1>4. /\ scanner = "Scalar" => Verdicts = {sStatus}
      /\ scanner = "Avx2" => Verdicts = {aStatus}
      /\ scanner = "Both" => Verdicts = {sStatus, aStatus}
  BY <1>1 DEF Verdicts
<1>5. CASE scanner = "Avx2"
  BY <1>3, <1>4, <1>5, Avx2Answers DEF Index
<1>6. CASE scanner = "Scalar"
  BY <1>2, <1>4, <1>6, ScalarAnswers DEF Index
<1>7. CASE scanner = "Both"
  <2>1. AgreeOnAcceptance /\ Compared
    BY <1>2, <1>3, <1>7, PairAgrees DEF Compared
  <2>2. /\ Verdicts = {"Ok"} => sStatus = "Ok" /\ aStatus = "Ok"
        /\ \A v \in Verdicts : v = sStatus \/ v = aStatus
    BY <1>4, <1>7
  <2> QED BY <1>2, <1>3, <1>4, <1>7, <2>1, <2>2, ScalarAnswers, Avx2Answers
          DEF AgreeOnAcceptance, Index
<1> QED BY <1>1, <1>5, <1>6, <1>7

(* Where a loop scans a generated stream, a message begins.                  *)
LEMMA FrameAtMessage ==
    ASSUME SplitInv, Rendered, loop \in {"scan", "failed"}
    PROVE  LET m == messages[count + 1]
               o == Layout(m)
           IN  /\ count + 1 <= Len(messages) /\ FrameLengths(count + 1) = pos + o.frame_length
               /\ buf \in Seq(Byte) /\ Whole(buf, o) /\ FrameShape(o) /\ Plain(o)
               /\ Deferred(o) <=> LeftToQuickFIX(m)
               /\ Len(m) \in Nat /\ o.field_count = Len(m) + 3
               /\ \A k \in 1 .. Len(m) :
                     LET e == o.fields[k + 1]
                     IN  [tag |-> e.tag_number,
                          value |-> SubSeq(buf, e.value_start + 1, e.value_end)] = m[k]
<1>1. /\ StreamOK /\ pos \in Nat /\ count \in Nat /\ count <= Len(messages)
      /\ pos = FrameLengths(count) /\ pos < Len(stream)
      /\ buf = Span(stream, pos, Len(stream))
  BY DEF SplitInv, LoopInv, AtRest
<1> QED BY Zenon, <1>1, AtMessage

(* The index it accepts there is the layout of the message: no buffer begins *)
(* with two frames.                                                          *)
LEMMA FrameIsMessage ==
    ASSUME SplitInv, Rendered, Accepted
    PROVE  LET o == Layout(messages[count + 1])
           IN  /\ Readable(Index) = o
               /\ Index.frame_length = o.frame_length /\ Index.field_count = o.field_count
               /\ \A k \in 0 .. (o.field_count - 1) : Index.fields[k] = o.fields[k]
<1> DEFINE o == Layout(messages[count + 1])
<1>1. loop = "scan" /\ sPc = "idle" /\ aPc = "idle" /\ Verdicts = {"Ok"}
  BY DEF Accepted, Returned
<1>2. Delimits(Readable(Index))
  BY <1>1, LoopAnswers
<1>3. buf \in Seq(Byte) /\ Whole(buf, o) /\ FrameShape(o)
  BY <1>1, FrameAtMessage
<1> HIDE DEF o
<1>4. Readable(Index) = o
  BY <1>2, <1>3, FrameIsUnique DEF Delimits
<1>5. Index \in FieldIndex
  BY IndexIsTyped
<1>6. /\ Readable(Index).frame_length = Index.frame_length
      /\ Readable(Index).field_count = Index.field_count
      /\ \A k \in 0 .. (Index.field_count - 1) : Readable(Index).fields[k] = Index.fields[k]
  BY <1>5 DEF Readable, FieldIndex
<1> QED BY <1>4, <1>6 DEF o

-----------------------------------------------------------------------------
(* The loop invariant implies that the cuts are between messages.            *)
LEMMA LoopCuts ==
    ASSUME SplitInv
    PROVE  CutsBetweenMessages
<1> SUFFICES ASSUME Rendered, loop = "done", count # Len(messages)
             PROVE  FALSE
  BY DEF CutsBetweenMessages, SplitInv, LoopInv
<1>1. /\ messages \in Seq(Template) /\ stream = RenderAll(messages)
      /\ count \in Nat /\ count <= Len(messages) /\ pos = Lengths(messages, count)
      /\ pos >= Len(stream)
  BY LengthsAreFrameLengths DEF SplitInv, StreamOK, LoopInv
<1>2. /\ stream \in Seq(Byte) /\ Len(messages) \in Nat /\ Len(stream) \in Nat
      /\ \A n \in 0 .. (Len(messages) - 1) :
            /\ messages[n + 1] \in Template
            /\ Lengths(messages, n + 1) = Lengths(messages, n) + Len(Render(messages[n + 1]))
            /\ Lengths(messages, n + 1) <= Len(stream)
  <2>1. /\ stream \in Seq(Byte) /\ Len(messages) \in Nat
        /\ Lengths(messages, 0) = 0 /\ Lengths(messages, Len(messages)) = Len(stream)
        /\ \A n \in 0 .. Len(messages) : Lengths(messages, n) \in Nat
        /\ \A n \in 0 .. (Len(messages) - 1) :
              /\ messages[n + 1] \in Template
              /\ Lengths(messages, n + 1) = Lengths(messages, n) + Len(Render(messages[n + 1]))
              /\ Lengths(messages, n + 1) <= Len(stream)
              /\ StandsAt(stream, Lengths(messages, n), Render(messages[n + 1]))
    BY <1>1, CorpusStarts, Zenon
  <2>2. Len(stream) \in Nat
    BY <2>1, LenProperties
  <2> QED BY <2>1, <2>2
<1>3. count \in 0 .. (Len(messages) - 1)
  BY <1>1, <1>2
<1>4. /\ messages[count + 1] \in Template
      /\ pos + Len(Render(messages[count + 1])) <= Len(stream)
  BY <1>1, <1>2, <1>3
<1>5. Len(Render(messages[count + 1])) \in Nat /\ Len(Render(messages[count + 1])) >= 15
  <2>1. /\ Render(messages[count + 1]) \in Seq(Byte)
        /\ RenderFields(messages[count + 1]) \in Seq(Byte)
        /\ Len(RenderFields(messages[count + 1])) + 15 <= Len(Render(messages[count + 1]))
    BY <1>4, RenderIsLong
  <2> QED BY <2>1, LenProperties
<1>6. pos \in Nat
  BY DEF SplitInv, LoopInv
<1> QED BY <1>1, <1>2, <1>4, <1>5, <1>6

(* It implies that an accepted index names the message.                      *)
LEMMA LoopReadsMessages ==
    ASSUME SplitInv
    PROVE  IndexNamesMessage
<1> SUFFICES ASSUME Rendered, Accepted
             PROVE  LET message == messages[count + 1]
                    IN  /\ Index.field_count = Len(message) + 3
                        /\ \A n \in 1 .. Len(message) : Written(n + 1) = message[n]
  BY DEF IndexNamesMessage
<1> DEFINE m == messages[count + 1]
           o == Layout(m)
<1>1. loop = "scan"
  BY DEF Accepted, Returned
<1>2. /\ Len(m) \in Nat /\ o.field_count = Len(m) + 3
      /\ \A k \in 1 .. Len(m) :
            [tag |-> o.fields[k + 1].tag_number,
             value |-> SubSeq(buf, o.fields[k + 1].value_start + 1, o.fields[k + 1].value_end)]
                = m[k]
  BY Zenon, <1>1, FrameAtMessage
<1>3. /\ Index.field_count = o.field_count
      /\ \A k \in 0 .. (o.field_count - 1) : Index.fields[k] = o.fields[k]
  BY Zenon, FrameIsMessage
<1> HIDE DEF o, m
<1>4. ASSUME NEW n \in 1 .. Len(m) PROVE Written(n + 1) = m[n]
  <2>1. n + 1 \in 0 .. (o.field_count - 1)
    BY <1>2
  <2>2. Index.fields[n + 1] = o.fields[n + 1]
    BY <1>3, <2>1
  <2> QED BY Zenon, <1>2, <2>2 DEF Written
<1>5. Index.field_count = Len(m) + 3
  BY <1>2, <1>3
<1> QED BY <1>4, <1>5 DEF m

(* It implies that only a frame left to QuickFIX is given up.                *)
LEMMA LoopGivesUp ==
    ASSUME SplitInv
    PROVE  GivesUpOnlyOnFallback
<1> SUFFICES ASSUME Rendered, loop = "failed"
             PROVE  /\ LeftToQuickFIX(messages[count + 1])
                    /\ Verdicts \subseteq {"FallbackRequested", "TableFull"}
  BY DEF GivesUpOnlyOnFallback
<1> DEFINE m == messages[count + 1]
           o == Layout(m)
<1>1. sPc = "idle" /\ aPc = "idle" /\ ~Agreed
  BY DEF SplitInv, LoopInv
<1>2. Whole(buf, o) /\ Plain(o) /\ (Deferred(o) <=> LeftToQuickFIX(m))
  BY FrameAtMessage
<1>3. /\ \A v \in Verdicts : Answers(v, o)
      /\ Verdicts # {}
      /\ scanner = "Both" /\ Verdicts = {"Ok"} => SameIndex
  BY <1>1, <1>2, LoopAnswers
<1> HIDE DEF o
<1>4. Deferred(o)
  BY <1>1, <1>3 DEF Agreed, Answers
<1> QED BY <1>2, <1>3, <1>4 DEF Answers

-----------------------------------------------------------------------------
(* The loops keep the invariant.                                             *)
StreamsFit ==
    /\ \A b \in Buffers : Len(b) <= UINT32_MAX
    /\ \A c \in Corpora : Len(RenderAll(c)) <= UINT32_MAX

(* An empty corpus is an empty stream.                                       *)
LEMMA NothingToRender == RenderAll(<< >>) = << >> /\ << >> \in Seq(Template)
<1> DEFINE none == << >>
<1>1. none \in Seq(Template) /\ Len(none) = 0
  OBVIOUS
<1> HIDE DEF none
<1>2. RenderAll(none) \in Seq(Byte) /\ Len(RenderAll(none)) = 0
  BY <1>1, CorpusStarts
<1>3. RenderAll(none) = << >>
  BY <1>2
<1> QED BY <1>1, <1>3 DEF none

(* The invariant holds where the loops begin.                                *)
LEMMA SplitBegins ==
    ASSUME SplitInit, StreamsFit
    PROVE  SplitInv
<1>1. S!ScanInv /\ A!ScanInv
  BY ScalarIsScalar, Avx2IsAvx2, ScalarMayRun, Avx2MayRun, S!ScanInvInit, A!ScanInvInit,
     WidthAssumption, CapacityAssumption DEF SplitInit, PairInit
<1>2. sPc = "idle" /\ sStatus = "None" /\ aPc = "idle" /\ aStatus = "None"
  BY DEF SplitInit, PairInit, Scalar!Init, Scalar!HeaderInit, Avx2!Init, Avx2!HeaderInit
<1>3. PairInv
  BY <1>1, <1>2 DEF PairInv, WaitInv
<1>4. StreamOK
  <2>1. CASE messages \in Corpora /\ stream = RenderAll(messages)
    <3>1. messages \in Seq(Template)
      BY <2>1, CorporaAssumption
    <3>2. stream \in Seq(Byte)
      BY <2>1, <3>1, CorpusStarts
    <3> QED BY <2>1, <3>1, <3>2 DEF StreamOK, SplitInit, StreamsFit
  <2>2. CASE scanner = "Both" /\ messages = << >> /\ stream \in Buffers
    BY <2>2, PairAssumption, NothingToRender DEF StreamOK, SplitInit, StreamsFit, Rendered
  <2> QED BY <2>1, <2>2 DEF SplitInit
<1>5. LoopInv
  <2>1. FrameLengths(0) = 0 /\ 0 <= Len(messages)
    <3>1. messages \in Seq(Template)
      BY <1>4 DEF StreamOK
    <3> QED BY <3>1, CorpusStarts, LengthsAreFrameLengths
  <2> QED BY <1>2, <2>1 DEF LoopInv, SplitInit
<1> QED BY <1>3, <1>4, <1>5 DEF SplitInv

(* What is left of a stream has 32-bit offsets as well.                      *)
LEMMA RestFits ==
    ASSUME SplitInv, pos < Len(stream)
    PROVE  Span(stream, pos, Len(stream)) \in Seq(Byte)
           /\ Len(Span(stream, pos, Len(stream))) <= UINT32_MAX
<1>1. /\ stream \in Seq(Byte) /\ pos \in Nat /\ Len(stream) \in Nat
      /\ Len(stream) <= UINT32_MAX /\ UINT32_MAX \in Nat
  BY WidthAssumption DEF SplitInv, StreamOK, LoopInv
<1>2. /\ Span(stream, pos, Len(stream)) \in Seq(Byte)
      /\ Len(Span(stream, pos, Len(stream))) = Len(stream) - pos
  <2>1. pos <= Len(stream) /\ Len(stream) <= Len(stream)
    BY <1>1
  <2> QED BY <1>1, <2>1, SpanIs
<1> QED BY <1>1, <1>2

(* No step changes the stream.                                               *)
LEMMA StreamStays ==
    ASSUME StreamOK, UNCHANGED <<scanner, messages, stream>>
    PROVE  StreamOK' /\ (Rendered' <=> Rendered) /\ \A n : FrameLengths(n)' = FrameLengths(n)
BY DEF StreamOK, Rendered, FrameLengths

(* Nothing of the pair changes.                                              *)
LEMMA PairStays ==
    ASSUME PairInv, UNCHANGED <<pairVars, scanner>>
    PROVE  PairInv'
<1>1. UNCHANGED <<buf, scalarVars>> /\ UNCHANGED <<buf, avx2Vars>>
  BY DEF pairVars
<1>2. scanner # "Avx2" => S!ScanInv'
  BY <1>1, ScalarRests DEF PairInv
<1>3. scanner # "Scalar" => A!ScanInv'
  BY <1>1, Avx2Rests DEF PairInv
<1>4. scanner = "Both" => WaitInv'
  BY <1>1 DEF PairInv, WaitInv, S!Visited, S!Locals, A!Locals, scalarVars, avx2Vars
<1> QED BY <1>1, <1>2, <1>3, <1>4 DEF PairInv, scalarVars, avx2Vars

(* The call of the scanners on what is left.                                 *)
LEMMA ScanRestKeeps ==
    ASSUME SplitInv, ScanRest
    PROVE  SplitInv'
<1> DEFINE rest == Span(stream, pos, Len(stream))
<1>1. /\ loop = "head" /\ pos < Len(stream) /\ loop' = "scan"
      /\ UNCHANGED <<scanner, messages, stream, pos, count>>
      /\ \/ scanner = "Scalar" /\ CallScalar(rest)
         \/ scanner = "Avx2" /\ CallAvx2(rest)
         \/ scanner = "Both" /\ Compare(rest)
  BY DEF ScanRest, Span
<1>2. rest \in Seq(Byte) /\ Len(rest) <= UINT32_MAX
  BY <1>1, RestFits
<1> HIDE DEF rest
<1>3. PairInv' /\ buf' = rest /\ (scanner # "Avx2" => sPc' # "idle")
      /\ (scanner # "Scalar" => aPc' # "idle")
  <2>1. CASE scanner = "Scalar"
    <3>1. S!ScanInv' /\ sPc' = "tag8" /\ buf' = rest /\ UNCHANGED avx2Vars
      BY <1>1, <1>2, <2>1, ScalarBegins DEF CallScalar, SplitInv, PairInv
    <3> QED BY <1>1, <2>1, <3>1 DEF PairInv, SplitInv, avx2Vars
  <2>2. CASE scanner = "Avx2"
    <3>1. /\ A!ScanInv' /\ A!Locals' = A!AtStart /\ buf' = rest /\ UNCHANGED scalarVars
      BY <1>1, <1>2, <2>2, Avx2Begins DEF CallAvx2, SplitInv, PairInv
    <3>2. aPc' = "tag8"
      BY <3>1 DEF A!Locals, A!AtStart
    <3> QED BY <1>1, <2>2, <3>1, <3>2 DEF PairInv, SplitInv, scalarVars
  <2>3. CASE scanner = "Both"
    <3>1. S!ScanInv' /\ A!ScanInv' /\ WaitInv'
      BY <1>1, <1>2, <2>3, WaitBegins DEF SplitInv, PairInv
    <3>2. sPc' = "tag8" /\ buf' = rest /\ A!Locals' = A!AtStart
      BY <1>1, <1>2, <2>3, ScalarBegins, Avx2Begins DEF Compare, SplitInv, PairInv
    <3>3. aPc' = "tag8"
      BY <3>2 DEF A!Locals, A!AtStart
    <3> QED BY <1>1, <2>3, <3>1, <3>2, <3>3 DEF PairInv
  <2> QED BY <1>1, <2>1, <2>2, <2>3
<1>4. StreamOK' /\ (Rendered' <=> Rendered) /\ \A n : FrameLengths(n)' = FrameLengths(n)
  BY <1>1, StreamStays DEF SplitInv
<1>5. LoopInv'
  BY <1>1, <1>3, <1>4 DEF SplitInv, LoopInv, AtRest, rest
<1> QED BY <1>3, <1>4, <1>5 DEF SplitInv

(* A scanner that returns has a verdict.                                     *)
LEMMA PairMoves ==
    /\ Scalar!ScanStep => /\ sPc # "idle" /\ buf' = buf
                          /\ sPc' = "idle" => sStatus' # "None"
    /\ Avx2!ScanStep => /\ aPc # "idle" /\ buf' = buf
                        /\ aPc' = "idle" => aStatus' # "None"
<1>1. "None" \notin S!Verdict /\ "None" \notin A!Verdict
  BY DEF S!Verdict, A!Verdict
<1>2. ASSUME S!ScanStep
      PROVE  sPc # "idle" /\ buf' = buf /\ (sPc' = "idle" => sStatus' \in S!Verdict)
  BY <1>2, ScalarMayRun, S!StepOutcome, WidthAssumption, CapacityAssumption
<1>3. ASSUME A!ScanStep
      PROVE  aPc # "idle" /\ buf' = buf /\ (aPc' = "idle" => aStatus' \in A!Verdict)
  BY <1>3, Avx2MayRun, A!StepOutcome, WidthAssumption, CapacityAssumption
<1> QED BY <1>1, <1>2, <1>3, ScalarIsScalar, Avx2IsAvx2

(* A statement of a scanner.                                                 *)
LEMMA ScanningKeeps ==
    ASSUME SplitInv, Scanning
    PROVE  SplitInv'
<1>1. /\ loop = "scan" /\ (RunScalar \/ RunAvx2)
      /\ UNCHANGED <<scanner, messages, stream, pos, count, loop>>
  BY DEF Scanning, loopVars
<1>2. PairInv /\ AtRest
  BY <1>1 DEF SplitInv, LoopInv
<1>3. ASSUME RunScalar PROVE PairInv' /\ AtRest'
  <2>1. /\ sPc # "idle" /\ buf' = buf /\ (sPc' = "idle" => sStatus' # "None")
        /\ aPc' = aPc /\ aStatus' = aStatus /\ UNCHANGED <<buf, avx2Vars>>
    BY <1>3, PairMoves DEF RunScalar, avx2Vars
  <2>2. scanner # "Avx2" /\ S!ScanInv
    BY <1>2, <2>1 DEF PairInv
  <2>3. S!ScanInv' /\ (scanner = "Both" => WaitInv')
    BY <1>2, <1>3, <2>2, ScalarGoesOn, WaitScalar DEF PairInv, RunScalar
  <2>4. scanner = "Both" => A!ScanInv'
    BY <1>2, <2>1, Avx2Rests DEF PairInv
  <2>5. scanner \in {"Scalar", "Both"}
    BY <2>2 DEF SplitInv, StreamOK
  <2>6. PairInv'
    BY <1>1, <1>2, <2>1, <2>2, <2>3, <2>4, <2>5 DEF PairInv
  <2>7. AtRest'
    BY <1>1, <1>2, <2>1 DEF AtRest
  <2> QED BY <2>6, <2>7
<1>4. ASSUME RunAvx2 PROVE PairInv' /\ AtRest'
  <2>1. /\ aPc # "idle" /\ buf' = buf /\ (aPc' = "idle" => aStatus' # "None")
        /\ sPc' = sPc /\ sStatus' = sStatus /\ UNCHANGED <<buf, scalarVars>>
    BY <1>4, PairMoves DEF RunAvx2, scalarVars
  <2>2. scanner # "Scalar" /\ A!ScanInv
    BY <1>2, <2>1 DEF PairInv
  <2>3. A!ScanInv' /\ (scanner = "Both" => WaitInv')
    BY <1>2, <1>4, <2>2, Avx2GoesOn, WaitAvx2 DEF PairInv, RunAvx2
  <2>4. scanner = "Both" => S!ScanInv'
    BY <1>2, <2>1, ScalarRests DEF PairInv
  <2>5. scanner \in {"Avx2", "Both"}
    BY <2>2 DEF SplitInv, StreamOK
  <2>6. PairInv'
    BY <1>1, <1>2, <2>1, <2>2, <2>3, <2>4, <2>5 DEF PairInv
  <2>7. AtRest'
    BY <1>1, <1>2, <2>1 DEF AtRest
  <2> QED BY <2>6, <2>7
<1>5. PairInv' /\ AtRest'
  BY <1>1, <1>3, <1>4
<1>6. StreamOK' /\ (Rendered' <=> Rendered) /\ \A n : FrameLengths(n)' = FrameLengths(n)
  BY <1>1, StreamStays DEF SplitInv
<1>7. LoopInv'
  BY <1>1, <1>5, <1>6 DEF SplitInv, LoopInv
<1> QED BY <1>5, <1>6, <1>7 DEF SplitInv

(* The frame is taken: its length is that of the message, so that the next   *)
(* message begins where the loop goes on.                                    *)
LEMMA TakeFrameKeeps ==
    ASSUME SplitInv, TakeFrame
    PROVE  SplitInv'
<1>1. /\ Accepted /\ loop' = "head" /\ pos' = pos + Index.frame_length /\ count' = count + 1
      /\ UNCHANGED <<scanner, messages, stream>>
      /\ scanner = "Both" => EndCompare
      /\ scanner # "Both" => UNCHANGED pairVars
  BY DEF TakeFrame
<1>2. loop = "scan" /\ sPc = "idle" /\ aPc = "idle"
  BY <1>1 DEF Accepted, Returned
<1>3. PairInv' /\ sPc' = "idle" /\ aPc' = "idle"
  <2>1. CASE scanner = "Both"
    <3>1. S!ScanInv' /\ A!ScanInv' /\ sStatus' = "None" /\ aStatus' = "None"
      BY <1>1, <2>1, PairIsRenewed DEF SplitInv, PairInv
    <3>2. sPc' = "idle" /\ aPc' = "idle"
      BY <1>1, <1>2, <2>1 DEF EndCompare
    <3>3. WaitInv'
      BY <3>1, <3>2 DEF WaitInv
    <3> QED BY <1>1, <2>1, <3>1, <3>2, <3>3 DEF PairInv
  <2>2. CASE scanner # "Both"
    BY <1>1, <1>2, <2>2, PairStays DEF SplitInv, pairVars, scalarVars, avx2Vars
  <2> QED BY <2>1, <2>2
<1>4. StreamOK' /\ (Rendered' <=> Rendered) /\ \A n : FrameLengths(n)' = FrameLengths(n)
  BY <1>1, StreamStays DEF SplitInv
<1>5. pos' \in Nat /\ count' \in Nat
  <2>1. Index.frame_length \in Nat
    BY IndexIsTyped DEF FieldIndex, UInt32
  <2> QED BY <1>1, <2>1 DEF SplitInv, LoopInv
<1>6. ASSUME Rendered PROVE count' <= Len(messages) /\ pos' = FrameLengths(count')
  <2>1. /\ count + 1 <= Len(messages)
        /\ FrameLengths(count + 1) = pos + Layout(messages[count + 1]).frame_length
    BY <1>2, <1>6, FrameAtMessage
  <2>2. Index.frame_length = Layout(messages[count + 1]).frame_length
    BY <1>1, <1>6, FrameIsMessage
  <2> QED BY <1>1, <2>1, <2>2
<1>7. LoopInv'
  <2>1. (Rendered => count <= Len(messages) /\ pos = FrameLengths(count))'
    BY <1>1, <1>4, <1>6 DEF FrameLengths
  <2> QED BY <1>1, <1>3, <1>5, <2>1 DEF LoopInv
<1> QED BY <1>3, <1>4, <1>7 DEF SplitInv

(* What both scanners accept is not empty, so that the test accepts it.       *)
LEMMA AgreedIsAccepted ==
    ASSUME SplitInv, Returned, Agreed
    PROVE  Accepted
<1>1. loop = "scan" /\ sPc = "idle" /\ aPc = "idle" /\ Verdicts = {"Ok"}
  BY DEF Returned, Agreed
<1>2. Delimits(Readable(Index))
  BY <1>1, LoopAnswers
<1>3. CASE scanner = "Both"
  <2>1. S!ScanInv /\ Scalar!Finished
    BY <1>1, <1>3 DEF SplitInv, PairInv, LoopInv, AtRest, Scalar!Finished
  <2>2. buf \in Seq(Byte)
    BY <2>1, ScalarAnswers
  <2>3. Readable(Index).frame_length > 0
    BY <1>2, <2>2, WholeFits DEF Delimits
  <2>4. Readable(Index).frame_length = Index.frame_length
    BY IndexIsTyped DEF Readable, FieldIndex
  <2> QED BY <1>1, <2>3, <2>4 DEF Agreed, Accepted, Returned
<1> QED BY <1>3 DEF Agreed, Accepted

(* The frame is refused.                                                     *)
LEMMA GiveUpKeeps ==
    ASSUME SplitInv, GiveUp
    PROVE  SplitInv'
<1>1. /\ loop = "scan" /\ sPc = "idle" /\ aPc = "idle" /\ ~Agreed /\ loop' = "failed"
      /\ UNCHANGED <<pairVars, scanner, messages, stream, pos, count>>
  BY AgreedIsAccepted DEF GiveUp, Returned
<1>2. PairInv'
  BY <1>1, PairStays DEF SplitInv
<1>3. StreamOK' /\ (Rendered' <=> Rendered) /\ \A n : FrameLengths(n)' = FrameLengths(n)
  BY <1>1, StreamStays DEF SplitInv
<1>4. ~Agreed' /\ sPc' = "idle" /\ aPc' = "idle"
  BY <1>1 DEF Agreed, Verdicts, SameIndex, pairVars, scalarVars, avx2Vars
<1>5. AtRest'
  BY <1>1 DEF AtRest, SplitInv, LoopInv, pairVars, scalarVars, avx2Vars
<1>6. LoopInv'
  BY <1>1, <1>3, <1>4, <1>5 DEF SplitInv, LoopInv
<1> QED BY <1>2, <1>3, <1>6 DEF SplitInv

(* The pass ends.                                                            *)
LEMMA EndPassKeeps ==
    ASSUME SplitInv, EndPass
    PROVE  SplitInv'
<1>1. /\ loop = "head" /\ pos >= Len(stream) /\ loop' = "done"
      /\ UNCHANGED <<pairVars, scanner, messages, stream, pos, count>>
  BY DEF EndPass
<1>2. PairInv'
  BY <1>1, PairStays DEF SplitInv
<1>3. StreamOK' /\ (Rendered' <=> Rendered) /\ \A n : FrameLengths(n)' = FrameLengths(n)
  BY <1>1, StreamStays DEF SplitInv
<1>4. LoopInv'
  BY <1>1, <1>3 DEF SplitInv, LoopInv, pairVars, scalarVars, avx2Vars
<1> QED BY <1>2, <1>3, <1>4 DEF SplitInv

(* The next pass begins.                                                     *)
LEMMA NextPassKeeps ==
    ASSUME SplitInv, NextPass
    PROVE  SplitInv'
<1>1. /\ loop = "done" /\ loop' = "head" /\ pos' = 0 /\ count' = 0
      /\ UNCHANGED <<pairVars, scanner, messages, stream>>
  BY DEF NextPass
<1>2. PairInv'
  BY <1>1, PairStays DEF SplitInv
<1>3. StreamOK' /\ (Rendered' <=> Rendered) /\ \A n : FrameLengths(n)' = FrameLengths(n)
  BY <1>1, StreamStays DEF SplitInv
<1>4. FrameLengths(0) = 0 /\ 0 <= Len(messages)
  BY CorpusStarts, LengthsAreFrameLengths DEF SplitInv, StreamOK
<1>5. LoopInv'
  BY <1>1, <1>3, <1>4 DEF SplitInv, LoopInv, pairVars, scalarVars, avx2Vars
<1> QED BY <1>2, <1>3, <1>5 DEF SplitInv

(* Nothing happens.                                                          *)
LEMMA NothingKeeps ==
    ASSUME SplitInv, UNCHANGED splitVars
    PROVE  SplitInv'
<1>1. UNCHANGED <<pairVars, scanner, messages, stream, pos, count, loop>>
  BY DEF splitVars, loopVars
<1>2. PairInv'
  BY <1>1, PairStays DEF SplitInv
<1>3. StreamOK' /\ (Rendered' <=> Rendered) /\ \A n : FrameLengths(n)' = FrameLengths(n)
  BY <1>1, StreamStays DEF SplitInv
<1>4. (Agreed' <=> Agreed) /\ (AtRest' <=> AtRest)
  BY <1>1 DEF Agreed, Verdicts, SameIndex, AtRest, pairVars, scalarVars, avx2Vars
<1>5. LoopInv'
  BY <1>1, <1>3, <1>4 DEF SplitInv, LoopInv, pairVars, scalarVars, avx2Vars
<1> QED BY <1>2, <1>3, <1>5 DEF SplitInv

(* SplitInv is an invariant of the loops.                                    *)
LEMMA SplitInvariance == StreamsFit => (SplitSpec => []SplitInv)
<1>1. StreamsFit /\ SplitInit => SplitInv
  BY SplitBegins
<1>2. SplitInv /\ [SplitNext]_splitVars => SplitInv'
  BY ScanRestKeeps, ScanningKeeps, TakeFrameKeeps, GiveUpKeeps, EndPassKeeps, NextPassKeeps,
     NothingKeeps DEF SplitNext, SplitStep
<1> QED BY <1>1, <1>2, PTL DEF SplitSpec

(* It implies what the pair of scanners promises whenever both have          *)
(* returned.                                                                 *)
LEMMA PairInLoop ==
    ASSUME SplitInv
    PROVE  AgreeOnAcceptance /\ Avx2NeverWaitsAlone
<1> SUFFICES ASSUME Compared PROVE AgreeOnAcceptance /\ Avx2NeverWaitsAlone
  BY DEF AgreeOnAcceptance, Avx2NeverWaitsAlone
<1>1. S!ScanInv /\ A!ScanInv /\ WaitInv
  BY DEF SplitInv, PairInv, StreamOK, Compared, Scalar!Finished, Avx2!Finished
<1> QED BY <1>1, PairAgrees, PairWaits

-----------------------------------------------------------------------------
(* The theorems.  Offsets have 32 bits: a stream of the generator, and a     *)
(* buffer of the test, is no longer than they reach.                         *)

(* The loop cuts a stream where its messages end, with either scanner and    *)
(* whatever the passes before have left in the index: no message is skipped, *)
(* split or counted twice.                                                   *)
THEOREM CutsAtMessages ==
    ASSUME StreamsFit
    PROVE  SplitSpec => []CutsBetweenMessages
BY SplitInvariance, LoopCuts, PTL

(* Round trip: the index of each frame names the tags and the values that    *)
(* the generator rendered, in their order.                                   *)
THEOREM ReadsTheMessages ==
    ASSUME StreamsFit
    PROVE  SplitSpec => []IndexNamesMessage
BY SplitInvariance, LoopReadsMessages, PTL

(* The error "on valid stream" is raised of no message but those the scanner *)
(* leaves to QuickFIX, and of these with the verdict that says so.           *)
THEOREM GivesUpOnFallbackOnly ==
    ASSUME StreamsFit
    PROVE  SplitSpec => []GivesUpOnlyOnFallback
BY SplitInvariance, LoopGivesUp, PTL

(* Whenever both scanners have returned, on any buffer and after any frames, *)
(* they accept alike and with the same index, but for a trailer that is not  *)
(* spelled "10=".                                                            *)
THEOREM ScannersAgree ==
    ASSUME StreamsFit
    PROVE  SplitSpec => []AgreeOnAcceptance
BY SplitInvariance, PairInLoop, PTL

(* A buffer the scalar scanner has decided is not Truncated to the AVX2 one: *)
(* no caller waits for bytes because of the scanner it was given.            *)
THEOREM NeverWaitsAlone ==
    ASSUME StreamsFit
    PROVE  SplitSpec => []Avx2NeverWaitsAlone
BY SplitInvariance, PairInLoop, PTL
=============================================================================
