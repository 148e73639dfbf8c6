---------------------------- MODULE BenchHarness ----------------------------
(***************************************************************************)
(* The benchmark process (bench/src/harness.cpp, replay.cpp, main.cpp) and   *)
(* the file it reads, which write_bulk (corpus/generate.py) may rewrite at   *)
(* any time, and may leave torn when it is killed.  Each process registers    *)
(* benchmarks for what it finds, loads the corpus once, and times one         *)
(* benchmark after the other over the loaded bytes.  FIX::Parser and          *)
(* FIX::Message are external.                                               *)
(***************************************************************************)
EXTENDS Integers, Sequences

CONSTANTS
    Contents,       \* what the corpus path holds at first
    Generated,      \* the streams write_bulk may be asked for
    MaxWrites,      \* bound on how often it is asked
    Repetitions,    \* how often a benchmark is repeated, 10 in the code
    MaxIterations   \* bound on the iterations of a repetition

(* A frame is plain, or one that only the scanners refuse (raw data, too many *)
(* fields), or one that only setString refuses.                              *)
FrameKind == {"plain", "deferred", "rejected"}

(* A corpus: a file of whole frames, perhaps with the beginning of one more;   *)
(* or a directory with a frame in each file.                                *)
Corpus == [kind : {"file", "dir", "missing"}, frames : Seq(FrameKind), torn : BOOLEAN]

File(frames, torn) == [kind |-> "file", frames |-> frames, torn |-> torn]

ASSUME CorpusAssumption ==
    /\ Contents \subseteq Corpus /\ Generated \subseteq Seq(FrameKind)
    /\ MaxWrites \in Nat /\ Repetitions \in Nat \ {0} /\ MaxIterations \in Nat \ {0}

VARIABLES
    disk,      \* what is at the corpus path
    plan,      \* the frames write_bulk has in memory
    writing,   \* its output file is open
    writes,    \* how often it was started
    avx2,      \* the AVX2 scanner exists and may run on this machine
    proc,      \* "none", "running", "exited" or "died"
    queue,     \* repetitions still to run
    loaded,    \* the function-local static of split_corpus or stream_corpus
    bm,        \* the repetition that runs, and its locals
    reports    \* what the repetitions of this process have reported

fileVars == <<disk, plan, writing, writes>>
procVars == <<avx2, proc, queue, loaded, bm, reports>>
vars == <<fileVars, procVars>>

NotLoaded == [kind |-> "none", frames |-> << >>, torn |-> FALSE]

Repetition(name) ==
    [name |-> name, pos |-> 0, iter_count |-> 0, msg_count |-> 0,
     iterations |-> 0, processed |-> 0]

NoRepetition == Repetition("none")

Init ==
    /\ disk \in Contents
    /\ plan = << >> /\ writing = FALSE /\ writes = 0
    /\ avx2 \in BOOLEAN
    /\ proc = "none" /\ queue = << >> /\ loaded = NotLoaded
    /\ bm = NoRepetition /\ reports = {}

-----------------------------------------------------------------------------
(* A faulty writer, which removes the file first.                            *)
RemoveAndOpen(frames) ==
    /\ ~writing /\ writes < MaxWrites /\ disk.kind # "dir"
    /\ writing' = TRUE /\ plan' = frames /\ writes' = writes + 1
    /\ disk' = [kind |-> "missing", frames |-> << >>, torn |-> FALSE]
    /\ UNCHANGED procVars

(* All frames are built in memory; then open("wb") truncates.                *)
Open(frames) ==
    /\ ~writing /\ writes < MaxWrites /\ disk.kind # "dir"
    /\ writing' = TRUE /\ plan' = frames /\ writes' = writes + 1
    /\ disk' = File(<< >>, FALSE)
    /\ UNCHANGED procVars

(* f.write: buffered bytes reach the file, up to any of them.                *)
Write ==
    /\ writing
    /\ \E n \in Len(disk.frames) .. Len(plan), torn \in BOOLEAN :
          /\ n = Len(disk.frames) => torn /\ ~disk.torn
          /\ torn => n < Len(plan)
          /\ disk' = File(SubSeq(plan, 1, n), torn)
    /\ UNCHANGED <<plan, writing, writes, procVars>>

(* The file is closed, or the writer was killed before.                      *)
EndWrite ==
    /\ writing
    /\ writing' = FALSE
    /\ UNCHANGED <<disk, plan, writes, procVars>>

-----------------------------------------------------------------------------
SwiftFIX == {"SwiftFIX_ScalarSplit", "SwiftFIX_Avx2Split"}

(* register_benchmarks: a file is a stream; anything else, even nothing, is   *)
(* taken for a directory.                                                   *)
Registered ==
    IF disk.kind = "file"
    THEN <<"QuickFIX_StreamSplit", "QuickFIX_StreamParse", "SwiftFIX_ScalarSplit">>
         \o (IF avx2 THEN <<"SwiftFIX_Avx2Split">> ELSE << >>)
    ELSE <<"QuickFIX_SetString">>

(* The framework runs all repetitions of a benchmark before the next one.    *)
Repeated(names) ==
    [k \in 1 .. Repetitions * Len(names) |-> names[1 + (k - 1) \div Repetitions]]

(* A process runs all benchmarks, or, started by bench.sh, one.              *)
Start ==
    /\ proc # "running"
    /\ proc' = "running"
    /\ \E names \in {Registered} \cup {<<Registered[k]>> : k \in DOMAIN Registered} :
          queue' = Repeated(names)
    /\ loaded' = NotLoaded /\ bm' = NoRepetition /\ reports' = {}
    /\ UNCHANGED <<avx2, fileVars>>

(* A faulty cache, which loads the corpus for each repetition.               *)
ReloadedCorpus == disk

(* split_corpus, stream_corpus: the first call loads what is there.          *)
LoadedCorpus == IF loaded = NotLoaded THEN disk ELSE loaded

Expected(name) == IF name = "QuickFIX_SetString" THEN "dir" ELSE "file"

Entering == proc = "running" /\ bm = NoRepetition /\ queue # << >>

IsEmpty(corpus) == corpus.frames = << >> /\ ~corpus.torn

(* load_corpus and load_stream throw, and nobody catches.                    *)
Die ==
    /\ Entering /\ LoadedCorpus.kind # Expected(Head(queue))
    /\ proc' = "died"
    /\ UNCHANGED <<avx2, queue, loaded, bm, reports, fileVars>>

(* An empty corpus is skipped with an error.                                *)
Enter ==
    /\ Entering /\ LoadedCorpus.kind = Expected(Head(queue))
    /\ loaded' = LoadedCorpus
    /\ queue' = Tail(queue)
    /\ bm' = IF IsEmpty(LoadedCorpus) THEN NoRepetition ELSE Repetition(Head(queue))
    /\ UNCHANGED <<avx2, proc, reports, fileVars>>

Iterating == bm # NoRepetition /\ bm.iterations < MaxIterations

(* What a benchmark gives up on: scanner.scan is not Ok, or setString throws. *)
(* That readFixMessage throws is left out: which bytes it refuses is not here. *)
GivesUpOn(name) ==
    CASE name \in SwiftFIX -> {"deferred"}
      [] name \in {"QuickFIX_StreamParse", "QuickFIX_SetString"} -> {"rejected"}
      [] name = "QuickFIX_StreamSplit" -> {}

AtEnd == bm.pos = Len(loaded.frames)

(* A faulty split loop, which takes a torn frame for the end of the stream.  *)
RefusedWhole == ~AtEnd /\ loaded.frames[bm.pos + 1] \in GivesUpOn(bm.name)

(* readFixMessage ends the loop at a torn frame, a scanner refuses it.       *)
Refused ==
    \/ ~AtEnd /\ loaded.frames[bm.pos + 1] \in GivesUpOn(bm.name)
    \/ AtEnd /\ loaded.torn /\ bm.name \in SwiftFIX

SkipWithError ==
    /\ Iterating /\ Refused
    /\ bm' = NoRepetition
    /\ UNCHANGED <<avx2, proc, queue, loaded, reports, fileVars>>

(* A faulty split loop, which does not advance.                              *)
ProcessFrameInPlace ==
    /\ Iterating /\ ~AtEnd /\ ~Refused
    /\ UNCHANGED vars

ProcessFrame ==
    /\ Iterating /\ ~AtEnd /\ ~Refused
    /\ bm' = [bm EXCEPT !.pos = @ + 1, !.iter_count = @ + 1, !.processed = @ + 1]
    /\ UNCHANGED <<avx2, proc, queue, loaded, reports, fileVars>>

(* A faulty loop, whose count is not local to the iteration.                 *)
EndIterationCounting ==
    /\ Iterating /\ AtEnd /\ ~Refused
    /\ bm' = [bm EXCEPT !.pos = 0, !.msg_count = bm.iter_count, !.iterations = @ + 1]
    /\ UNCHANGED <<avx2, proc, queue, loaded, reports, fileVars>>

EndIteration ==
    /\ Iterating /\ AtEnd /\ ~Refused
    /\ bm' = [bm EXCEPT !.pos = 0, !.iter_count = 0, !.msg_count = bm.iter_count,
                        !.iterations = @ + 1]
    /\ UNCHANGED <<avx2, proc, queue, loaded, reports, fileVars>>

(* SetItemsProcessed and SetBytesProcessed, when the framework has had enough *)
(* iterations.  Bytes are those of the whole corpus.                        *)
Report ==
    /\ bm.iterations > 0 /\ bm.pos = 0
    /\ reports' = reports \cup
          {[name |-> bm.name, iterations |-> bm.iterations, perIteration |-> bm.msg_count,
            processed |-> bm.processed, corpus |-> loaded]}
    /\ bm' = NoRepetition
    /\ UNCHANGED <<avx2, proc, queue, loaded, fileVars>>

Finish ==
    /\ proc = "running" /\ bm = NoRepetition /\ queue = << >>
    /\ proc' = "exited"
    /\ UNCHANGED <<avx2, queue, loaded, bm, reports, fileVars>>

BenchStep ==
    Die \/ Enter \/ SkipWithError \/ ProcessFrame \/ EndIteration \/ Report \/ Finish

Next == (\E frames \in Generated : Open(frames)) \/ Write \/ EndWrite \/ Start \/ BenchStep

(* A process that was started runs; nobody has to start one, or to write.    *)
Spec == Init /\ [][Next]_vars /\ WF_vars(BenchStep)

-----------------------------------------------------------------------------
TypeOK ==
    /\ disk \in Corpus /\ plan \in Generated \cup {<< >>}
    /\ loaded \in Corpus \cup {NotLoaded}
    /\ proc \in {"none", "running", "exited", "died"}
    /\ bm.pos \in 0 .. Len(loaded.frames)
    /\ bm.iter_count \in 0 .. Len(loaded.frames)

(* Apples to apples: whatever is written to the corpus meanwhile, all the     *)
(* benchmarks one process reports on have gone through the same messages.    *)
SameMessages ==
    \A r, s \in reports : r.corpus = s.corpus /\ r.perIteration = s.perIteration

(* Items per second is computed from the last iteration's count: it must be   *)
(* what all the iterations together have processed.                          *)
ItemsWereProcessed == \A r \in reports : r.iterations * r.perIteration = r.processed

(* A scanner benchmark reports only if every byte of the stream was scanned,  *)
(* since it reports all of them as processed.                               *)
ScannersReportWholeStreams ==
    \A r \in reports : r.name \in SwiftFIX =>
        ~r.corpus.torn /\ r.perIteration = Len(r.corpus.frames)

(* Rewriting the stream, at whatever moment, kills no benchmark process: only *)
(* one that was started without a corpus dies.                              *)
RewritingKillsNobody == proc = "died" => Head(queue) = "QuickFIX_SetString"

(* A process comes to its end.                                              *)
EveryProcessEnds == proc = "running" ~> proc \in {"exited", "died"}
=============================================================================
