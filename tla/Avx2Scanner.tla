---------------------------- MODULE Avx2Scanner ----------------------------
(***************************************************************************)
(* Avx2Scanner::scan (preparser/src/scanner_avx2.cpp): the shared header,   *)
(* then pass 1, which collects the offsets of every <SOH> of the body and  *)
(* the trailer a vector at a time, then pass 2, which parses the fields     *)
(* between them.                                                            *)
(***************************************************************************)
EXTENDS FixHeader

CONSTANTS
    Buffers,    \* the buffers a caller may pass
    Lane        \* bytes of a vector register, 32 in the code

ASSUME BuffersAssumption == Buffers \subseteq Seq(Byte)
ASSUME LaneAssumption == Lane \in Nat \ {0}

VARIABLES
    q,      \* cursor of pass 1
    mask,   \* positions in the lane at q whose <SOH> is not yet collected
    sohs,   \* collected offsets
    i       \* number of fields pass 2 has parsed

passVars == <<q, mask, sohs, i>>

(* A faulty end of pass 1: the end of the buffer.                            *)
ScanEndOfBuffer == Len(buf)

(* scan_end_ptr: pass 1 ends with the trailer.                               *)
ScanEnd == bodyEnd + kTrailer

ReturnInPass(verdict) == Return(verdict) /\ UNCHANGED passVars

(* Everything before pass 1 is the scalar code once more.                   *)
Header == HeaderStep /\ UNCHANGED passVars

-----------------------------------------------------------------------------
(* Pass 1.                                                                  *)

StartPass1 ==
    /\ pc = "body"
    /\ pc' = "lanes"
    /\ q' = p
    /\ mask' = {}
    /\ sohs' = << >>
    /\ i' = 0
    /\ UNCHANGED <<buf, out, status, p, tagStart, valueStart, num, bodyEnd>>

(* A faulty loop condition, which loads a last, partial lane.                *)
MoreLanesPartial == q < ScanEnd

MoreLanes == ScanEnd - q >= Lane

(* _mm256_loadu_si256, _mm256_cmpeq_epi8, _mm256_movemask_epi8               *)
LaneMask == {k \in 0 .. (Lane - 1) : q + k < Len(buf) /\ ByteAt(buf, q + k) = Soh}

LoadLane ==
    /\ pc = "lanes" /\ MoreLanes
    /\ mask' = LaneMask
    /\ pc' = "mask"
    /\ UNCHANGED <<buf, out, status, p, tagStart, valueStart, num, bodyEnd,
                   q, sohs, i>>

(* A faulty choice of the bit: the latest <SOH> of the lane.                 *)
Highest(S) == CHOOSE k \in S : \A m \in S : k >= m

(* std::countr_zero: the earliest <SOH> of the lane that is left.            *)
Lowest(S) == CHOOSE k \in S : \A m \in S : k <= m

(* A faulty capacity check, one offset too late.                             *)
SohsAreFullLate == Len(sohs) > kMaxFields

SohsAreFull == Len(sohs) >= kMaxFields

TakeLowestBit ==
    /\ pc = "mask" /\ mask # {}
    /\ \/ SohsAreFull /\ ReturnInPass("TableFull")
       \/ /\ ~SohsAreFull
          /\ sohs' = Append(sohs, U32(U32(q) + Lowest(mask)))
          /\ mask' = mask \ {Lowest(mask)}
          /\ UNCHANGED <<vars, q, i>>

(* A faulty lane loop, which does not advance.                               *)
NextLaneInPlace ==
    /\ pc = "mask" /\ mask = {}
    /\ pc' = "lanes"
    /\ UNCHANGED <<buf, out, status, p, tagStart, valueStart, num, bodyEnd, passVars>>

NextLane ==
    /\ pc = "mask" /\ mask = {}
    /\ pc' = "lanes"
    /\ q' = q + Lane
    /\ UNCHANGED <<buf, out, status, p, tagStart, valueStart, num, bodyEnd,
                   mask, sohs, i>>

TailByte ==
    /\ pc = "lanes" /\ ~MoreLanes /\ q < ScanEnd
    /\ \/ ByteAt(buf, q) = Soh /\ SohsAreFull /\ ReturnInPass("TableFull")
       \/ /\ ByteAt(buf, q) = Soh => ~SohsAreFull
          /\ sohs' = IF ByteAt(buf, q) = Soh THEN Append(sohs, U32(q)) ELSE sohs
          /\ q' = q + 1
          /\ UNCHANGED <<vars, mask, i>>

(* A faulty end of pass 1, which waits for a <SOH> that cannot come.         *)
EndPass1Waiting ==
    /\ pc = "lanes" /\ ~MoreLanes /\ q >= ScanEnd
    /\ IF sohs = << >>
       THEN ReturnInPass("Truncated")
       ELSE /\ Advance("fields", U32(p), out)
            /\ UNCHANGED <<bodyEnd, passVars>>

(* From here on the code keeps 32-bit offsets: p is field_start_off.         *)
EndPass1 ==
    /\ pc = "lanes" /\ ~MoreLanes /\ q >= ScanEnd
    /\ IF sohs = << >>
       THEN ReturnInPass("BadBodyLength")
       ELSE /\ Advance("fields", U32(p), out)
            /\ UNCHANGED <<bodyEnd, passVars>>

-----------------------------------------------------------------------------
(* Pass 2.                                                                  *)

FieldSoh == sohs[i + 1]

(* A faulty bound of pass 2, which skips the last body field.                *)
MoreFieldsShort == i + 2 < Len(sohs)

MoreFields == i + 1 < Len(sohs)

NextField ==
    /\ pc = "fields" /\ MoreFields
    /\ IF TableIsFull(out)
       THEN ReturnInPass("TableFull")
       ELSE BeginNumber("tag", 0) /\ UNCHANGED passVars

TagDigit ==
    /\ pc = "tag"
    /\ p < FieldSoh
    /\ ByteAt(buf, p) # Equals
    /\ TakeDigit
    /\ UNCHANGED passVars

(* A faulty list of raw data tags.                                          *)
NeedsFallbackForLength(tag) == tag = 95

NeedsFallback(tag) == tag \in {95, 96}

TagEnd ==
    /\ pc = "tag"
    /\ p < FieldSoh => ByteAt(buf, p) = Equals
    /\ IF p = FieldSoh \/ p = tagStart \/ num = 0 THEN ReturnInPass("Malformed")
       ELSE IF NeedsFallback(num) THEN ReturnInPass("FallbackRequested")
       ELSE /\ Advance("fields", U32(FieldSoh + 1),
                       Push(out, Entry(tagStart, p + 1, FieldSoh, num)))
            /\ i' = i + 1
            /\ UNCHANGED <<bodyEnd, q, mask, sohs>>

(* A faulty trailer check, which does not ask where the last field began.    *)
TrailerVerdictAnyStart ==
    IF \/ sohs[Len(sohs)] # U32(bodyEnd + 6)
       \/ ~HasLiteral(buf, bodyEnd, <<1, 0, Equals>>)
    THEN "BadBodyLength"
    ELSE IF \E k \in 3 .. 5 : ~IsDigit(ByteAt(buf, bodyEnd + k)) THEN "Malformed"
    ELSE IF TableIsFull(out) THEN "TableFull"
    ELSE "Ok"

(* The trailer is exactly "10=NNN<SOH>" at the declared end of the body.     *)
TrailerVerdict ==
    IF \/ p # U32(bodyEnd)
       \/ sohs[Len(sohs)] # U32(bodyEnd + 6)
       \/ ~HasLiteral(buf, bodyEnd, <<1, 0, Equals>>)
    THEN "BadBodyLength"
    ELSE IF \E k \in 3 .. 5 : ~IsDigit(ByteAt(buf, bodyEnd + k)) THEN "Malformed"
    ELSE IF TableIsFull(out) THEN "TableFull"
    ELSE "Ok"

CheckTrailer ==
    /\ pc = "fields" /\ ~MoreFields
    /\ IF TrailerVerdict # "Ok"
       THEN ReturnInPass(TrailerVerdict)
       ELSE /\ out' = PushCheckSum(out, Entry(bodyEnd, bodyEnd + 3, sohs[Len(sohs)], 10))
            /\ status' = "Ok"
            /\ pc' = "idle"
            /\ UNCHANGED <<buf, p, tagStart, valueStart, num, bodyEnd, passVars>>

-----------------------------------------------------------------------------
ScanStep ==
    \/ Header
    \/ StartPass1 \/ LoadLane \/ TakeLowestBit \/ NextLane \/ TailByte \/ EndPass1
    \/ NextField \/ TagDigit \/ TagEnd \/ CheckTrailer

Init ==
    /\ HeaderInit
    /\ q = 0 /\ mask = {} /\ sohs = << >> /\ i = 0

(* The locals of the passes are dead until the header has been scanned.     *)
EnterPasses == q' = 0 /\ mask' = {} /\ sohs' = << >> /\ i' = 0

Enter(b) == Call(b) /\ EnterPasses

Next == (\E b \in Buffers : Enter(b)) \/ ScanStep

(* scan() neither blocks nor waits: a call that was entered keeps running.  *)
Spec == Init /\ [][Next]_<<vars, passVars>> /\ WF_<<vars, passVars>>(ScanStep)

-----------------------------------------------------------------------------
Label == {"idle", "tag8", "tag9", "length", "tag35", "body", "lanes", "mask",
          "fields", "tag"}

(* Type invariant: cursors inside the buffer, at most kMaxFields collected   *)
(* offsets, bit positions inside the lane.                                  *)
TypeOK ==
    /\ HeaderTypeOK
    /\ pc \in Label
    /\ q \in 0 .. Len(buf)
    /\ mask \subseteq 0 .. (Lane - 1)
    /\ sohs \in Seq(UInt32) /\ Len(sohs) <= kMaxFields
    /\ i \in 0 .. kMaxFields

(* No vector load reads past the end of the caller's buffer.                *)
LoadsStayInBuffer ==
    [][(pc = "lanes" /\ pc' = "mask") => q + Lane <= Len(buf)]_<<vars, passVars>>

(* Where pass 1 begins: behind the <SOH> of MsgType.                         *)
BodyStart == out.fields[out.msg_type_idx].value_end + 1

SohsFrom(first, end) == {k \in first .. (end - 1) : ByteAt(buf, k) = Soh}

(* The sequence s lists the numbers of S, once each and in order.            *)
Lists(s, S) ==
    /\ \A m, n \in 1 .. Len(s) : m < n => s[m] < s[n]
    /\ {s[n] : n \in 1 .. Len(s)} = S

(* Pass 1 hands pass 2 every <SOH> between the header and the end of the     *)
(* frame, once each and in order, however they fall into lanes and tail.     *)
PassOneFindsEverySoh ==
    pc \in {"fields", "tag"} => Lists(sohs, SohsFrom(BodyStart, ScanEnd))

(* The trailers this scanner accepts are spelled "10=", without zeros.        *)
PlainTrailer(o) ==
    LET e == o.fields[o.checksum_idx]
    IN  e.value_start = e.tag_start + 3

(* The AVX2 scanner accepts exactly the buffers that begin with a frame      *)
(* whose trailer is spelled "10=": no other frame, and no such frame is      *)
(* refused or waited for once it is whole.                                  *)
AcceptsExactlyFrames == AcceptsExactly({o \in FrameIndices(buf) : PlainTrailer(o)})

(* A frame whose trailer is spelled "10=" is never refused while it arrives,   *)
(* although this scanner looks for the trailer before it reads the fields.    *)
FramesAreAwaited(inputs) ==
    Finished => \A x \in inputs : Continues(x) =>
                    \A o \in FrameIndices(x) : PlainTrailer(o) => AnswersFor(o)

(* Tag numbers never wrap around their std::uint32_t.                        *)
NumberNeverWraps ==
    [][(pc \in {"length", "tag"} /\ pc' = pc /\ p' = p + 1)
          => num' = num * 10 + ByteAt(buf, p)]_<<vars, passVars>>

(* Every call returns: each lane, bit, tail byte and field makes progress.   *)
EveryCallReturns == pc # "idle" ~> pc = "idle"
=============================================================================
