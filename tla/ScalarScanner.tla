--------------------------- MODULE ScalarScanner ---------------------------
(***************************************************************************)
(* ScalarScanner::scan (preparser/src/scanner_scalar.cpp): after the shared *)
(* header, one field after the other up to the declared end of the body,   *)
(* then the CheckSum field.                                                 *)
(***************************************************************************)
EXTENDS FixHeader

CONSTANT Buffers    \* the buffers a caller may pass

ASSUME BuffersAssumption == Buffers \subseteq Seq(Byte)

(* The field that starts where the body ends is the trailer.                *)
AtTrailer == tagStart = bodyEnd

(* The main loop's condition, its table check, and the check after it.      *)
NextField ==
    /\ pc = "body"
    /\ \/ p < bodyEnd /\ TableIsFull(out) /\ Return("TableFull")
       \/ p < bodyEnd /\ ~TableIsFull(out) /\ BeginNumber("tag", 0)
       \/ p = bodyEnd /\ BeginNumber("tag", 0)
       \/ p > bodyEnd /\ Return("BadBodyLength")

(* scan_one_field: the tag, which runs to the end of the buffer if it must.  *)
TagDigit ==
    /\ pc = "tag"
    /\ p < Len(buf)
    /\ ByteAt(buf, p) # Equals
    /\ TakeDigit

TagEnd ==
    /\ pc = "tag"
    /\ \/ p = Len(buf) /\ Return("Truncated")
       \/ /\ p < Len(buf) /\ ByteAt(buf, p) = Equals
          /\ IF p = tagStart \/ num = 0
             THEN Return("Malformed")
             ELSE /\ pc' = "value"
                  /\ p' = p + 1
                  /\ valueStart' = p + 1
                  /\ UNCHANGED <<buf, out, status, tagStart, num, bodyEnd>>

(* A faulty list of raw data tags.                                          *)
NeedsFallbackForData(tag) == tag = 96

NeedsFallback(tag) == tag \in {95, 96}

(* scan_one_field: the value; then the body loop stores the field.          *)
ScanBodyValue ==
    /\ pc = "value" /\ ~AtTrailer
    /\ \E j \in p .. Len(buf) :
          /\ StopsAt(buf, p, j)
          /\ IF j = Len(buf) THEN Return("Truncated")
             ELSE IF NeedsFallback(num) THEN Return("FallbackRequested")
             ELSE /\ Advance("body", j + 1,
                             Push(out, Entry(tagStart, valueStart, j, num)))
                  /\ UNCHANGED bodyEnd

(* A faulty trailer check, which takes any three bytes for a checksum.       *)
TrailerVerdictAnyBytes(j) ==
    LET entry == Entry(tagStart, valueStart, j, num)
    IN  IF entry.tag_number # 10 THEN "BadBodyLength"
        ELSE IF U32(entry.value_end - entry.value_start) # 3 THEN "Malformed"
        ELSE IF TableIsFull(out) THEN "TableFull"
        ELSE "Ok"

(* What the code says of a complete trailer whose <SOH> is at j.  It measures  *)
(* and reads the value by the offsets of the entry, once they are 32 bits.    *)
TrailerVerdict(j) ==
    LET entry == Entry(tagStart, valueStart, j, num)
    IN  IF entry.tag_number # 10 THEN "BadBodyLength"
        ELSE IF \/ U32(entry.value_end - entry.value_start) # 3
                \/ \E k \in entry.value_start .. (entry.value_start + 2) :
                       ~IsDigit(ByteAt(buf, k))
             THEN "Malformed"
        ELSE IF TableIsFull(out) THEN "TableFull"
        ELSE "Ok"

ScanTrailerValue ==
    /\ pc = "value" /\ AtTrailer
    /\ \E j \in p .. Len(buf) :
          /\ StopsAt(buf, p, j)
          /\ IF j = Len(buf) THEN Return("Truncated")
             ELSE IF TrailerVerdict(j) # "Ok" THEN Return(TrailerVerdict(j))
             ELSE /\ out' = PushCheckSum(out, Entry(tagStart, valueStart, j, num))
                  /\ status' = "Ok"
                  /\ pc' = "idle"
                  /\ p' = j + 1
                  /\ UNCHANGED <<buf, tagStart, valueStart, num, bodyEnd>>

ScanStep ==
    \/ HeaderStep
    \/ NextField
    \/ TagDigit
    \/ TagEnd
    \/ ScanBodyValue
    \/ ScanTrailerValue

Init == HeaderInit

Next == (\E b \in Buffers : Call(b)) \/ ScanStep

(* scan() neither blocks nor waits: a call that was entered keeps running.  *)
Spec == Init /\ [][Next]_vars /\ WF_vars(ScanStep)

-----------------------------------------------------------------------------
Label == {"idle", "tag8", "tag9", "length", "tag35", "body", "tag", "value"}

(* Type invariant: every offset stays inside the buffer, every counter in    *)
(* its unsigned type, the field table within kMaxFields.                    *)
TypeOK == HeaderTypeOK /\ pc \in Label

(* scanner.hpp: on Ok `out` is fully populated.  Its fields tile the frame,  *)
(* each is well formed, header and trailer are where the slots say, the      *)
(* declared length is the measured one.  Nothing of an earlier call shows    *)
(* through the reused index, whose table reset() does not clear.            *)
OkDelimitsFrame == Finished /\ status = "Ok" => DelimitsFrame(buf, out)

(* The scanner accepts exactly the buffers that begin with a frame: none is  *)
(* refused, none is waited for once it is whole, nothing else is accepted,   *)
(* and the index is the one the reference definition gives.                  *)
AcceptsExactlyFrames == AcceptsExactly(FrameIndices(buf))

(* A frame is never refused while it arrives, whichever of its bytes have:     *)
(* a caller that gives up on any verdict but Truncated gives up no frame.     *)
FramesAreAwaited(inputs) ==
    Finished => \A x \in inputs : Continues(x) =>
                    \A o \in FrameIndices(x) : AnswersFor(o)

(* Neither the body length nor a tag ever wraps around its std::uint32_t:   *)
(* each accepted digit yields the number written so far.                    *)
NumberNeverWraps ==
    [][(pc \in {"length", "tag"} /\ pc' = pc /\ p' = p + 1)
          => num' = num * 10 + ByteAt(buf, p)]_vars

(* Every call returns, whatever the bytes are.                              *)
EveryCallReturns == pc # "idle" ~> pc = "idle"
=============================================================================
