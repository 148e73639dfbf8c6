----------------------------- MODULE FixHeader -----------------------------
(***************************************************************************)
(* The part both scanners share: a call of scan(), the three mandatory     *)
(* header fields 8, 9 and 35, and the check of the declared body length    *)
(* against the buffer.  scan() is one thread's straight-line code; pc says  *)
(* which statement is next, and every early return of the code is a         *)
(* Return(status).                                                          *)
(***************************************************************************)
EXTENDS FrameReference

VARIABLES
    buf,         \* the span the caller passed
    out,         \* the caller's FieldIndex, reused from call to call
    status,      \* the verdict of the last call, "None" while one runs
    pc,          \* the statement scan() executes next, "idle" outside a call
    p,           \* cursor: offset of the next byte to read
    tagStart,    \* offset of the field being read
    valueStart,  \* offset of its value
    num,         \* std::uint32_t accumulator: body_len, then each tag
    bodyEnd      \* offset at which the declared body length ends

vars == <<buf, out, status, pc, p, tagStart, valueStart, num, bodyEnd>>

kMinScan == 12   \* shorter buffers are not looked at
kTrailer == 7    \* "10=NNN<SOH>"

HeaderInit ==
    /\ buf = << >>
    /\ out = NewIndex
    /\ status = "None"
    /\ pc = "idle"
    /\ p = 0 /\ tagStart = 0 /\ valueStart = 0 /\ num = 0 /\ bodyEnd = 0

(* The caller enters scan(b, out).                                          *)
Call(b) ==
    /\ pc = "idle"
    /\ buf' = b
    /\ out' = Reset(out)
    /\ status' = "None"
    /\ pc' = "tag8"
    /\ p' = 0 /\ tagStart' = 0 /\ valueStart' = 0 /\ num' = 0 /\ bodyEnd' = 0

Return(verdict) ==
    /\ status' = verdict
    /\ pc' = "idle"
    /\ UNCHANGED <<buf, out, p, tagStart, valueStart, num, bodyEnd>>

(* Continue at `label` with the cursor at `next` and the index `o`.          *)
Advance(label, next, o) ==
    /\ pc' = label
    /\ p' = next
    /\ out' = o
    /\ UNCHANGED <<buf, status, tagStart, valueStart, num>>

(* Begin a number whose field starts at the cursor and whose first digit is *)
(* `skip` bytes further on.                                                 *)
BeginNumber(label, skip) ==
    /\ pc' = label
    /\ p' = p + skip
    /\ tagStart' = p
    /\ valueStart' = p + skip
    /\ num' = 0
    /\ UNCHANGED <<buf, out, status, bodyEnd>>

(* A faulty digit loop, which does not advance.                              *)
TakeDigitInPlace ==
    IF ~IsDigit(ByteAt(buf, p)) \/ Saturated(num)
    THEN Return("Malformed")
    ELSE /\ num' = Accumulate(num, ByteAt(buf, p))
         /\ UNCHANGED <<buf, out, status, pc, p, tagStart, valueStart, bodyEnd>>

(* One round of a digit loop.                                               *)
TakeDigit ==
    IF ~IsDigit(ByteAt(buf, p)) \/ Saturated(num)
    THEN Return("Malformed")
    ELSE /\ num' = Accumulate(num, ByteAt(buf, p))
         /\ p' = p + 1
         /\ UNCHANGED <<buf, out, status, pc, tagStart, valueStart, bodyEnd>>

-----------------------------------------------------------------------------
(* BeginString: "8=", then the value up to <SOH>.                           *)
ScanBeginString ==
    /\ pc = "tag8"
    /\ \/ Len(buf) < kMinScan /\ Return("Truncated")
       \/ /\ Len(buf) >= kMinScan
          /\ ~HasLiteral(buf, 0, <<8, Equals>>)
          /\ Return("BadHeader")
       \/ /\ Len(buf) >= kMinScan
          /\ HasLiteral(buf, 0, <<8, Equals>>)
          /\ \E j \in 2 .. Len(buf) :
                /\ StopsAt(buf, 2, j)
                /\ IF j = Len(buf)
                   THEN Return("Truncated")
                   ELSE /\ Advance("tag9", j + 1,
                                PushBeginString(out, Entry(0, 2, j, 8)))
                        /\ UNCHANGED bodyEnd

(* A faulty check, which takes "not enough bytes" for "wrong bytes".         *)
ScanBodyLengthTagEager ==
    /\ pc = "tag9"
    /\ \/ ~HasLiteral(buf, p, <<9, Equals>>) /\ Return("BadHeader")
       \/ HasLiteral(buf, p, <<9, Equals>>) /\ BeginNumber("length", 2)

(* BodyLength: "9=", its digits, <SOH>.                                     *)
ScanBodyLengthTag ==
    /\ pc = "tag9"
    /\ \/ Len(buf) - p < 2 /\ Return("Truncated")
       \/ /\ Len(buf) - p >= 2
          /\ ~HasLiteral(buf, p, <<9, Equals>>)
          /\ Return("BadHeader")
       \/ HasLiteral(buf, p, <<9, Equals>>) /\ BeginNumber("length", 2)

BodyLengthDigit ==
    /\ pc = "length"
    /\ p < Len(buf)
    /\ ByteAt(buf, p) # Soh
    /\ TakeDigit

BodyLengthEnd ==
    /\ pc = "length"
    /\ \/ p = Len(buf) /\ Return("Truncated")
       \/ /\ p < Len(buf) /\ ByteAt(buf, p) = Soh
          /\ IF p = valueStart
             THEN Return("Malformed")
             ELSE /\ Advance("tag35", p + 1,
                          PushBodyLength(out, Entry(tagStart, valueStart, p, 9), num))
                  /\ UNCHANGED bodyEnd

(* The buffer must hold the declared body and a trailer of seven bytes, and  *)
(* the body must begin with MsgType.                                        *)
BodyFits == Len(buf) - p >= num + kTrailer

ScanMsgType ==
    /\ pc = "tag35"
    /\ \/ ~BodyFits /\ Return("Truncated")
       \/ /\ BodyFits
          /\ ~HasLiteral(buf, p, <<3, 5, Equals>>)
          /\ Return("BadHeader")
       \/ /\ BodyFits
          /\ HasLiteral(buf, p, <<3, 5, Equals>>)
          /\ \E j \in (p + 3) .. Len(buf) :
                /\ StopsAt(buf, p + 3, j)
                /\ IF j = Len(buf)
                   THEN Return("Truncated")
                   ELSE /\ Advance("body", j + 1,
                                PushMsgType(out, Entry(p, p + 3, j, 35)))
                        /\ bodyEnd' = p + num

HeaderStep ==
    \/ ScanBeginString
    \/ ScanBodyLengthTag
    \/ BodyLengthDigit
    \/ BodyLengthEnd
    \/ ScanMsgType

-----------------------------------------------------------------------------
(* Between calls the last verdict stands; during a call there is none.      *)
Finished == pc = "idle" /\ status # "None"

HeaderTypeOK ==
    /\ buf \in Seq(Byte)
    /\ out \in FieldIndex
    /\ status \in Verdict \cup {"None"}
    /\ p \in 0 .. Len(buf)
    /\ tagStart \in 0 .. Len(buf)
    /\ valueStart \in 0 .. Len(buf)
    /\ num \in UInt32
    /\ bodyEnd \in 0 .. Len(buf)

(* The buffer with the bytes that may still follow it.                        *)
Continues(x) == Len(buf) <= Len(x) /\ \A k \in 1 .. Len(buf) : x[k] = buf[k]

(* What a caller is told whose bytes begin with the frame o: its index as soon *)
(* as it is whole, and to wait for more of it until then.                    *)
AnswersFor(o) ==
    IF o.frame_length <= Len(buf) THEN status = "Ok" /\ Readable(out) = o
                                  ELSE status = "Truncated"

(* A call answers with one of the given indices, or refuses if there is none. *)
AcceptsExactly(indices) ==
    Finished => IF indices = {} THEN status # "Ok"
                ELSE status = "Ok" /\ Readable(out) \in indices

Contract == INSTANCE ScannerContract
    WITH busy <- (pc # "idle"), verdict <- status,
         index <- IF Finished /\ status = "Ok" THEN Readable(out) ELSE NoIndex

(* Seen from outside, a call of either scanner is a call of any scanner: the  *)
(* contract of scanner.hpp holds.                                           *)
ImplementsContract == Contract!Spec
=============================================================================
