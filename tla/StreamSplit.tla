---------------------------- MODULE StreamSplit ----------------------------
(***************************************************************************)
(* The two loops that cut a byte stream into frames by calling scan() on     *)
(* what is left of it and advancing by frame_length: run_swiftfix_split      *)
(* (bench/src/harness.cpp) with either scanner, where one FieldIndex serves  *)
(* every frame of every pass, and the test BulkStreamScansFrameByFrame       *)
(* (preparser/tests/test_scanner_corpus.cpp), which compares both scanners   *)
(* on every frame.                                                          *)
(***************************************************************************)
EXTENDS ScannerPair, FrameReference

Sequence == INSTANCE SequencesExt

CONSTANT Corpora    \* the sequences of messages a stream may be generated from

(* A message is a sequence of tags and values, of which MsgType is the first. *)
Field == [tag : {t \in UInt32 \ {0} : Representable(t)}, value : Seq(Byte \ {Soh})]

Template == {m \in Seq(Field) : m # << >> /\ m[1].tag = 35}

ASSUME CorporaAssumption == Corpora \subseteq Seq(Template)

VARIABLES
    scanner,    \* the scanner the loop is given, or "Both" for the test
    messages,   \* what the stream was generated from, if it was
    stream,
    pos,        \* offset of the frame being scanned
    count,      \* frames cut off in this pass
    loop        \* where the loop stands: "head", "scan", "done" or "failed"

loopVars == <<scanner, messages, stream, pos, count, loop>>
splitVars == <<pairVars, loopVars>>

-----------------------------------------------------------------------------
(* An integer in an f-string.                                               *)
Decimals(n) ==
    LET digits[k \in 0 .. n] ==
            IF k < 10 THEN <<k>> ELSE Append(digits[k \div 10], k % 10)
    IN  digits[n]

RenderField(f) == Decimals(f.tag) \o <<Equals>> \o f.value \o <<Soh>>

RenderFields(fields) ==
    Sequence!FlattenSeq([n \in 1 .. Len(fields) |-> RenderField(fields[n])])

(* BodyLength is computed, and CheckSum, which always has three digits.      *)
Envelope(message) ==
    LET body_length == Len(RenderFields(message))
    IN  <<[tag |-> 8, value |-> <<Other>>], [tag |-> 9, value |-> Decimals(body_length)]>>
        \o message \o <<[tag |-> 10, value |-> <<0, 0, 0>>]>>

Render(message) == RenderFields(Envelope(message))

RenderAll(corpus) ==
    Sequence!FlattenSeq([k \in 1 .. Len(corpus) |-> Render(corpus[k])])

-----------------------------------------------------------------------------
(* A loop is given a generated stream; the test, also any other bytes.       *)
SplitInit ==
    /\ PairInit
    /\ scanner \in {"Scalar", "Avx2", "Both"}
    /\ \/ messages \in Corpora /\ stream = RenderAll(messages)
       \/ scanner = "Both" /\ messages = << >> /\ stream \in Buffers
    /\ pos = 0 /\ count = 0 /\ loop = "head"

ScanRest ==
    /\ loop = "head" /\ pos < Len(stream)
    /\ LET rest == SubSeq(stream, pos + 1, Len(stream))
       IN  \/ scanner = "Scalar" /\ CallScalar(rest)
           \/ scanner = "Avx2" /\ CallAvx2(rest)
           \/ scanner = "Both" /\ Compare(rest)
    /\ loop' = "scan"
    /\ UNCHANGED <<scanner, messages, stream, pos, count>>

Scanning == loop = "scan" /\ (RunScalar \/ RunAvx2) /\ UNCHANGED loopVars

(* The index the loop reads, and the verdicts it asks for.                   *)
Index == IF scanner = "Avx2" THEN aOut ELSE sOut

Verdicts ==
    CASE scanner = "Scalar" -> {sStatus}
      [] scanner = "Avx2" -> {aStatus}
      [] scanner = "Both" -> {sStatus, aStatus}

Returned == loop = "scan" /\ sPc = "idle" /\ aPc = "idle"

(* The test also asserts that the frame is not empty and that both scanners    *)
(* give the same index.  The first is fatal; the second only reports, but a    *)
(* test that has failed is modelled no further.                             *)
Accepted ==
    /\ Returned
    /\ Verdicts = {"Ok"}
    /\ scanner = "Both" => Index.frame_length > 0 /\ SameIndex

(* A faulty loop body, which forgets to advance and scans the frame again.     *)
TakeFrameInPlace ==
    /\ Accepted
    /\ IF scanner = "Both" THEN EndCompare ELSE UNCHANGED pairVars
    /\ loop' = "head"
    /\ UNCHANGED <<scanner, messages, stream, pos, count>>

TakeFrame ==
    /\ Accepted
    /\ IF scanner = "Both" THEN EndCompare ELSE UNCHANGED pairVars
    /\ pos' = pos + Index.frame_length
    /\ count' = count + 1
    /\ loop' = "head"
    /\ UNCHANGED <<scanner, messages, stream>>

GiveUp ==
    /\ Returned /\ ~Accepted
    /\ loop' = "failed"
    /\ UNCHANGED <<pairVars, scanner, messages, stream, pos, count>>

EndPass ==
    /\ loop = "head" /\ pos >= Len(stream)
    /\ loop' = "done"
    /\ UNCHANGED <<pairVars, scanner, messages, stream, pos, count>>

(* The benchmark framework asks for another iteration.                       *)
NextPass ==
    /\ loop = "done" /\ scanner # "Both"
    /\ loop' = "head" /\ pos' = 0 /\ count' = 0
    /\ UNCHANGED <<pairVars, scanner, messages, stream>>

SplitStep == ScanRest \/ Scanning \/ TakeFrame \/ GiveUp \/ EndPass

SplitNext == SplitStep \/ NextPass

(* The loop is one thread's code, which nothing blocks.                      *)
SplitSpec == SplitInit /\ [][SplitNext]_splitVars /\ WF_splitVars(SplitStep)

-----------------------------------------------------------------------------
Rendered == messages # << >> \/ stream = << >>

FrameLengths(n) == Len(RenderAll(SubSeq(messages, 1, n)))

(* The loop cuts the stream exactly where one rendered message ends and the   *)
(* next begins, and a pass ends with every message counted.                  *)
CutsBetweenMessages ==
    Rendered =>
        /\ count <= Len(messages)
        /\ pos = FrameLengths(count)
        /\ loop = "done" => count = Len(messages)

(* Field k as a reader of the index sees it.                                 *)
Written(k) ==
    LET e == Index.fields[k]
    IN  [tag |-> e.tag_number, value |-> SubSeq(buf, e.value_start + 1, e.value_end)]

(* Round trip: the index of a frame names the tags and the values of the      *)
(* message it was rendered from, in order, between BodyLength and CheckSum,  *)
(* although index and buffer are those of every frame before.                *)
IndexNamesMessage ==
    Rendered /\ Accepted =>
        LET message == messages[count + 1]
        IN  /\ Index.field_count = Len(message) + 3
            /\ \A n \in 1 .. Len(message) : Written(n + 1) = message[n]

(* The loop's error text calls every refusal one "on valid stream".  It gives *)
(* up on no rendered message but those that the scanner leaves to QuickFIX:  *)
(* raw data, or more fields than the table holds.                            *)
LeftToQuickFIX(message) ==
    \/ Len(message) + 3 > kMaxFields
    \/ \E n \in 1 .. Len(message) : message[n].tag \in {95, 96}

GivesUpOnlyOnFallback ==
    Rendered /\ loop = "failed" =>
        /\ LeftToQuickFIX(messages[count + 1])
        /\ Verdicts \subseteq {"FallbackRequested", "TableFull"}

(* Every pass over a stream comes to an end.                                *)
EveryPassEnds == loop = "head" ~> loop \in {"done", "failed"}
=============================================================================
