------------------------------ MODULE FixFrame ------------------------------
(***************************************************************************)
(* Bytes, unsigned arithmetic and the field index: the data on which both  *)
(* frame scanners of preparser/ work, and the declarative meaning of an    *)
(* index.                                                                  *)
(*                                                                         *)
(* The scanners tell apart thirteen kinds of byte: the ten digits, '=',    *)
(* <SOH> (0x01), and any other byte.  A buffer is a sequence of such       *)
(* bytes; offsets are zero-based, as in the code.                          *)
(***************************************************************************)
EXTENDS Integers, Sequences, FiniteSets

CONSTANTS
    UINT32_MAX,   \* largest value of the code's std::uint32_t
    kMaxFields    \* capacity of the inline field table

(* Two decimal digits must fit an accumulator (the tags 95 and 96 are       *)
(* compared with it), and the table holds the four mandatory fields.        *)
ASSUME WidthAssumption == UINT32_MAX \in Nat /\ UINT32_MAX >= 99
ASSUME CapacityAssumption == kMaxFields \in Nat /\ kMaxFields >= 4

-----------------------------------------------------------------------------
Digit  == 0 .. 9
Equals == 10
Soh    == 11
Other  == 12
Byte   == 0 .. 12

UInt32 == 0 .. UINT32_MAX

IsDigit(c) == c \in Digit

ByteAt(b, i) == b[i + 1]

(* static_cast<std::uint32_t>(offset)                                       *)
U32(n) == n % (UINT32_MAX + 1)

(* A faulty guard: the last digit may still overflow.                        *)
SaturatedLate(n) == n > UINT32_MAX \div 10

(* The guard of every decimal accumulator.                                  *)
Saturated(n) == n > (UINT32_MAX - 9) \div 10

Accumulate(n, c) == U32(U32(n * 10) + c)

(* The bytes of `lit` stand at offset i of b.                               *)
HasLiteral(b, i, lit) ==
    /\ i + Len(lit) <= Len(b)
    /\ \A k \in 1 .. Len(lit) : b[i + k] = lit[k]

(* `while (p < end && *p != 0x01) p++` started at i stops at j.             *)
StopsAt(b, i, j) ==
    /\ \A k \in i .. (j - 1) : ByteAt(b, k) # Soh
    /\ j < Len(b) => ByteAt(b, j) = Soh

-----------------------------------------------------------------------------
(* enum class ScanStatus                                                    *)
Verdict == {"Ok", "Truncated", "Malformed", "BadHeader", "BadBodyLength",
            "FallbackRequested", "TableFull"}

(* struct FieldEntry                                                        *)
FieldEntry == [tag_start : UInt32, value_start : UInt32, value_end : UInt32,
               tag_number : UInt32]

(* A faulty entry, whose value includes its <SOH>.                           *)
EntryPastSoh(tagStart, valueStart, valueEnd, tag) ==
    [tag_start |-> U32(tagStart), value_start |-> U32(valueStart),
     value_end |-> U32(valueEnd + 1), tag_number |-> tag]

Entry(tagStart, valueStart, valueEnd, tag) ==
    [tag_start |-> U32(tagStart), value_start |-> U32(valueStart),
     value_end |-> U32(valueEnd), tag_number |-> tag]

(* struct FieldIndex: four slots, three counters and the field table.       *)
Slot == -1 .. (kMaxFields - 1)

FieldIndex ==
    [begin_string_idx : Slot, body_length_idx : Slot, msg_type_idx : Slot,
     checksum_idx : Slot, declared_body_length : UInt32,
     frame_length : UInt32, field_count : 0 .. kMaxFields,
     fields : [0 .. (kMaxFields - 1) -> FieldEntry]]

(* A faulty reset, which forgets the field count.                            *)
ResetKeepingCount(o) ==
    [o EXCEPT !.begin_string_idx = -1, !.body_length_idx = -1,
              !.msg_type_idx = -1, !.checksum_idx = -1,
              !.declared_body_length = 0, !.frame_length = 0]

(* FieldIndex::reset(): the table itself keeps the previous frame's entries. *)
Reset(o) ==
    [o EXCEPT !.begin_string_idx = -1, !.body_length_idx = -1,
              !.msg_type_idx = -1, !.checksum_idx = -1,
              !.declared_body_length = 0, !.frame_length = 0,
              !.field_count = 0]

(* A default-constructed FieldIndex.                                        *)
NewIndex ==
    [begin_string_idx |-> -1, body_length_idx |-> -1, msg_type_idx |-> -1,
     checksum_idx |-> -1, declared_body_length |-> 0, frame_length |-> 0,
     field_count |-> 0,
     fields |-> [k \in 0 .. (kMaxFields - 1) |-> Entry(0, 0, 0, 0)]]

(* out.fields[out.field_count++] = e                                        *)
Push(o, e) ==
    [o EXCEPT !.fields = [@ EXCEPT ![o.field_count] = e], !.field_count = @ + 1]

(* The same for a field that has a fast-access slot.                        *)
PushBeginString(o, e) == [Push(o, e) EXCEPT !.begin_string_idx = o.field_count]

PushBodyLength(o, e, bodyLen) ==
    [Push(o, e) EXCEPT !.body_length_idx = o.field_count,
                       !.declared_body_length = bodyLen]

PushMsgType(o, e) == [Push(o, e) EXCEPT !.msg_type_idx = o.field_count]

(* A faulty store: the frame ends before its last <SOH>.                     *)
PushCheckSumAtSoh(o, e) ==
    [Push(o, e) EXCEPT !.checksum_idx = o.field_count,
                       !.frame_length = U32(e.value_end)]

PushCheckSum(o, e) ==
    [Push(o, e) EXCEPT !.checksum_idx = o.field_count,
                       !.frame_length = U32(e.value_end + 1)]

(* Faulty capacity checks: one field too late, one field too early.          *)
TableIsFullLate(o) == o.field_count > kMaxFields
TableIsFullEarly(o) == o.field_count >= kMaxFields - 1

TableIsFull(o) == o.field_count >= kMaxFields

(* What a caller may read of an index.                                      *)
Readable(o) == [o EXCEPT !.fields = [k \in 0 .. (o.field_count - 1) |-> @[k]]]

(* What there is to read of an index before, or without, an Ok.             *)
NoIndex == Readable(NewIndex)

-----------------------------------------------------------------------------
(* What an index means: it delimits a well-formed frame at the start of b.  *)

(* One field: a nonempty tag of digits, its '=', a value without <SOH>, and  *)
(* the <SOH> that ends it.                                                  *)
WellFormedField(b, e) ==
    /\ e.tag_start < e.value_start - 1
    /\ e.value_start <= e.value_end
    /\ e.value_end < Len(b)
    /\ \A k \in e.tag_start .. (e.value_start - 2) : IsDigit(ByteAt(b, k))
    /\ ByteAt(b, e.value_start - 1) = Equals
    /\ \A k \in e.value_start .. (e.value_end - 1) : ByteAt(b, k) # Soh
    /\ ByteAt(b, e.value_end) = Soh

(* The live fields lie end to end from the first byte to frame_length.      *)
Tiles(o) ==
    /\ o.fields[0].tag_start = 0
    /\ \A k \in 1 .. (o.field_count - 1) :
          o.fields[k].tag_start = o.fields[k - 1].value_end + 1
    /\ o.frame_length = o.fields[o.field_count - 1].value_end + 1

(* 8, 9 and 35 come first, 10 is last, and no length-prefixed raw data (95,  *)
(* 96) stands between them.                                                 *)
CanonicalOrder(o) ==
    /\ o.begin_string_idx = 0 /\ o.fields[0].tag_number = 8
    /\ o.body_length_idx = 1  /\ o.fields[1].tag_number = 9
    /\ o.msg_type_idx = 2     /\ o.fields[2].tag_number = 35
    /\ o.checksum_idx = o.field_count - 1
    /\ o.fields[o.checksum_idx].tag_number = 10
    /\ \A k \in 3 .. (o.field_count - 2) : o.fields[k].tag_number \notin {0, 95, 96}

(* BodyLength measures from the byte after its <SOH> to the CheckSum tag.   *)
LengthAgrees(o) ==
    o.fields[o.checksum_idx].tag_start
        = o.fields[1].value_end + 1 + o.declared_body_length

ThreeDigitChecksum(b, o) ==
    LET e == o.fields[o.checksum_idx]
    IN  /\ e.value_end = e.value_start + 3
        /\ \A k \in e.value_start .. (e.value_end - 1) : IsDigit(ByteAt(b, k))

DelimitsFrame(b, o) ==
    /\ o.field_count \in 4 .. kMaxFields
    /\ Tiles(o)
    /\ \A k \in 0 .. (o.field_count - 1) : WellFormedField(b, o.fields[k])
    /\ CanonicalOrder(o)
    /\ LengthAgrees(o)
    /\ ThreeDigitChecksum(b, o)

(* The number written in the digits of b from i up to j.                    *)
Decimal(b, i, j) ==
    LET value[k \in i .. j] ==
            IF k = i THEN 0 ELSE value[k - 1] * 10 + ByteAt(b, k - 1)
    IN  value[j]

(* One digit of b or more, from i up to j.                                  *)
Numeral(b, i, j) == i < j /\ \A k \in i .. (j - 1) : IsDigit(ByteAt(b, k))

(* The numbers of the index are the ones written in the buffer.             *)
NumbersMatch(b, o) ==
    /\ \A k \in 0 .. (o.field_count - 1) :
          LET e == o.fields[k]
          IN  e.tag_number = Decimal(b, e.tag_start, e.value_start - 1)
    /\ Numeral(b, o.fields[1].value_start, o.fields[1].value_end)
    /\ o.declared_body_length
          = Decimal(b, o.fields[1].value_start, o.fields[1].value_end)

ExactIndex(b, o) == DelimitsFrame(b, o) /\ NumbersMatch(b, o)
=============================================================================
