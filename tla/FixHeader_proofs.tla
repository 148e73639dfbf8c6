-------------------------- MODULE FixHeader_proofs --------------------------
(***************************************************************************)
(* Type correctness and soundness of the header stage, which both scanners    *)
(* begin with.                                                              *)
(***************************************************************************)
EXTENDS RetryingCaller, FixFrame_proofs

(* How many fields the header has stored so far: what makes each store fit   *)
(* the table.                                                               *)
HeaderCount ==
    /\ pc = "tag8" => out.field_count = 0
    /\ pc \in {"tag9", "length"} => out.field_count = 1
    /\ pc = "tag35" => out.field_count = 2

HeaderTypeInv == HeaderTypeOK /\ HeaderCount

LEMMA HeaderInitType ==
    HeaderInit => HeaderTypeInv
<1>1. 0 \in UInt32
  BY WidthAssumption DEF UInt32
<1> QED
  BY <1>1, NewIndexType DEF HeaderInit, HeaderTypeInv, HeaderTypeOK, HeaderCount

LEMMA CallType ==
    ASSUME HeaderTypeInv, NEW b \in Seq(Byte), Call(b)
    PROVE  HeaderTypeInv'
<1>1. 0 \in UInt32
  BY WidthAssumption DEF UInt32
<1>2. out' \in FieldIndex /\ out'.field_count = 0
  BY ResetIndex DEF Call, HeaderTypeInv, HeaderTypeOK
<1> QED
  BY <1>1, <1>2 DEF Call, HeaderTypeInv, HeaderTypeOK, HeaderCount

LEMMA ReturnType ==
    ASSUME HeaderTypeInv, NEW v \in Verdict, Return(v)
    PROVE  HeaderTypeInv'
BY DEF Return, HeaderTypeInv, HeaderTypeOK, HeaderCount

LEMMA TakeDigitType ==
    ASSUME HeaderTypeInv, p < Len(buf), TakeDigit
    PROVE  HeaderTypeInv'
<1>1. CASE Return("Malformed")
  BY <1>1, ReturnType DEF Verdict
<1>2. CASE ~Return("Malformed")
  <2>1. /\ IsDigit(ByteAt(buf, p))
        /\ num' = Accumulate(num, ByteAt(buf, p))
        /\ p' = p + 1
        /\ UNCHANGED <<buf, out, status, pc, tagStart, valueStart, bodyEnd>>
    BY <1>2 DEF TakeDigit
  <2>2. num' \in UInt32
    BY <2>1, AccumulateType DEF IsDigit, HeaderTypeInv, HeaderTypeOK
  <2>3. p' \in 0 .. Len(buf)
    BY <2>1 DEF HeaderTypeInv, HeaderTypeOK
  <2> QED
    BY <2>1, <2>2, <2>3 DEF HeaderTypeInv, HeaderTypeOK, HeaderCount
<1> QED
  BY <1>1, <1>2

(* Beginning a number keeps the types when the cursor may advance that far.  *)
LEMMA BeginNumberType ==
    ASSUME HeaderTypeInv, NEW label, NEW skip \in Nat, p + skip <= Len(buf),
           BeginNumber(label, skip),
           label \in {"length", "tag"}, label = "length" => out.field_count = 1
    PROVE  HeaderTypeInv'
<1>1. 0 \in UInt32
  BY WidthAssumption DEF UInt32
<1>2. p + skip \in 0 .. Len(buf)
  BY DEF HeaderTypeInv, HeaderTypeOK
<1> QED
  BY <1>1, <1>2 DEF BeginNumber, HeaderTypeInv, HeaderTypeOK, HeaderCount

-----------------------------------------------------------------------------
(* Every step of the header keeps the types.                                *)
LEMMA HeaderStepType ==
    ASSUME HeaderTypeInv, HeaderStep
    PROVE  HeaderTypeInv'
<1> USE DEF HeaderTypeInv
<1>0. /\ 8 \in UInt32 /\ 9 \in UInt32 /\ 35 \in UInt32
      /\ \A v \in {"Truncated", "BadHeader", "Malformed"} : v \in Verdict
  BY WidthAssumption DEF UInt32, Verdict
<1>1. CASE ScanBeginString
  <2>1. CASE \E v \in {"Truncated", "BadHeader"} : Return(v)
    BY <2>1, <1>0, ReturnType
  <2>2. CASE ~ \E v \in {"Truncated", "BadHeader"} : Return(v)
    <3>1. PICK j \in 2 .. Len(buf) :
             /\ j # Len(buf)
             /\ Advance("tag9", j + 1, PushBeginString(out, Entry(0, 2, j, 8)))
             /\ UNCHANGED bodyEnd
      BY <2>2, <1>1 DEF ScanBeginString
    <3>2. out.field_count = 0 /\ ~TableIsFull(out)
      BY <1>1, CapacityAssumption DEF ScanBeginString, HeaderCount, TableIsFull
    <3>3. Entry(0, 2, j, 8) \in FieldEntry
      BY <1>0, EntryType
    <3>4. out' \in FieldIndex /\ out'.field_count = 1
      BY <3>1, <3>2, <3>3, PushBeginStringAppends DEF Advance, HeaderTypeOK, Appends
    <3>5. p' \in 0 .. Len(buf)
      BY <3>1 DEF Advance, HeaderTypeOK
    <3> QED
      BY <3>1, <3>4, <3>5 DEF Advance, HeaderTypeOK, HeaderCount
  <2> QED
    BY <2>1, <2>2
<1>2. CASE ScanBodyLengthTag
  <2>1. CASE \E v \in {"Truncated", "BadHeader"} : Return(v)
    BY <2>1, <1>0, ReturnType
  <2>2. CASE HasLiteral(buf, p, <<9, Equals>>) /\ BeginNumber("length", 2)
    <3>1. p + 2 <= Len(buf)
      BY <2>2 DEF HasLiteral
    <3>2. out.field_count = 1
      BY <1>2 DEF ScanBodyLengthTag, HeaderCount
    <3> QED
      BY <2>2, <3>1, <3>2, BeginNumberType
  <2> QED
    BY <1>2, <2>1, <2>2 DEF ScanBodyLengthTag
<1>3. CASE BodyLengthDigit
  BY <1>3, TakeDigitType DEF BodyLengthDigit
<1>4. CASE BodyLengthEnd
  <2>1. CASE \E v \in {"Truncated", "Malformed"} : Return(v)
    BY <2>1, <1>0, ReturnType
  <2>2. CASE ~ \E v \in {"Truncated", "Malformed"} : Return(v)
    <3>1. /\ pc = "length"
          /\ p < Len(buf)
          /\ Advance("tag35", p + 1,
                      PushBodyLength(out, Entry(tagStart, valueStart, p, 9), num))
          /\ UNCHANGED bodyEnd
      BY <2>2, <1>4 DEF BodyLengthEnd
    <3>2. out.field_count = 1 /\ ~TableIsFull(out)
      BY <3>1, CapacityAssumption DEF HeaderCount, TableIsFull
    <3>3. Entry(tagStart, valueStart, p, 9) \in FieldEntry
      BY <1>0, EntryType DEF HeaderTypeOK
    <3>4. out' \in FieldIndex /\ out'.field_count = 2
      BY <3>1, <3>2, <3>3, PushBodyLengthAppends DEF Advance, HeaderTypeOK, Appends
    <3>5. p' \in 0 .. Len(buf)
      BY <3>1 DEF Advance, HeaderTypeOK
    <3> QED
      BY <3>1, <3>4, <3>5 DEF Advance, HeaderTypeOK, HeaderCount
  <2> QED
    BY <2>1, <2>2
<1>5. CASE ScanMsgType
  <2>1. CASE \E v \in {"Truncated", "BadHeader"} : Return(v)
    BY <2>1, <1>0, ReturnType
  <2>2. CASE ~ \E v \in {"Truncated", "BadHeader"} : Return(v)
    <3>1. PICK j \in (p + 3) .. Len(buf) :
             /\ j # Len(buf)
             /\ Advance("body", j + 1, PushMsgType(out, Entry(p, p + 3, j, 35)))
             /\ bodyEnd' = p + num
      BY <2>2, <1>5 DEF ScanMsgType
    <3>2. pc = "tag35" /\ BodyFits
      BY <2>2, <1>5 DEF ScanMsgType
    <3>3. out.field_count = 2 /\ ~TableIsFull(out)
      BY <3>2, CapacityAssumption DEF HeaderCount, TableIsFull
    <3>4. Entry(p, p + 3, j, 35) \in FieldEntry
      BY <1>0, EntryType DEF HeaderTypeOK
    <3>5. out' \in FieldIndex /\ out'.field_count = 3
      BY <3>1, <3>3, <3>4, PushMsgTypeAppends DEF Advance, HeaderTypeOK, Appends
    <3>6. p' \in 0 .. Len(buf)
      BY <3>1 DEF Advance, HeaderTypeOK
    <3>7. bodyEnd' \in 0 .. Len(buf)
      BY <3>1, <3>2 DEF BodyFits, kTrailer, HeaderTypeOK, UInt32
    <3> QED
      BY <3>1, <3>5, <3>6, <3>7 DEF Advance, HeaderTypeOK, HeaderCount
  <2> QED
    BY <2>1, <2>2
<1> QED
  BY <1>1, <1>2, <1>3, <1>4, <1>5 DEF HeaderStep

-----------------------------------------------------------------------------
(* What the header stage has established about the bytes it has passed.      *)

(* The three header fields are where their slots say, spelled without zeros.  *)
HasBeginString(o) ==
    /\ o.begin_string_idx = 0 /\ o.fields[0].tag_number = 8
    /\ o.fields[0].value_start = o.fields[0].tag_start + 2

HasBodyLength(o) ==
    /\ o.body_length_idx = 1 /\ o.fields[1].tag_number = 9
    /\ o.fields[1].value_start = o.fields[1].tag_start + 2

HasMsgType(o) ==
    /\ o.msg_type_idx = 2 /\ o.fields[2].tag_number = 35
    /\ o.fields[2].value_start = o.fields[2].tag_start + 3

(* The index so far describes b up to `end`: the header, and the fields of    *)
(* the body read so far; the body ends at bEnd.                             *)
BodyReached(b, o, end, bEnd) ==
    /\ o.field_count >= 3
    /\ Stored(b, o, end)
    /\ HasBeginString(o) /\ HasBodyLength(o) /\ HasMsgType(o) /\ LengthRead(b, o)
    /\ \A k \in 3 .. (o.field_count - 1) : o.fields[k].tag_number \notin {0, 95, 96}
    /\ bEnd = o.fields[1].value_end + 1 + o.declared_body_length

(* A verdict of Ok comes with an exact index, the one of the reference.       *)
OkIsExact ==
    Finished /\ status = "Ok"
        => ExactIndex(buf, out) /\ Readable(out) \in FrameIndices(buf)

ReadingLength ==
    /\ valueStart = tagStart + 2
    /\ valueStart <= p
    /\ ByteAt(buf, tagStart) = 9
    /\ ByteAt(buf, tagStart + 1) = Equals
    /\ \A k \in valueStart .. (p - 1) : IsDigit(ByteAt(buf, k))
    /\ NumberRead(num, buf, valueStart, p)

HeaderSound ==
    /\ pc = "tag8" => Stored(buf, out, 0)
    /\ pc = "tag9" => Stored(buf, out, p) /\ HasBeginString(out)
    /\ pc = "length" => /\ Stored(buf, out, tagStart) /\ HasBeginString(out)
                        /\ ReadingLength
    /\ pc = "tag35" => /\ Stored(buf, out, p)
                       /\ HasBeginString(out) /\ HasBodyLength(out)
                       /\ p = out.fields[1].value_end + 1
                       /\ num = out.declared_body_length
                       /\ LengthRead(buf, out)
    /\ pc = "body" => BodyReached(buf, out, p, bodyEnd)

(* An accepted digit appends to the number read so far.                       *)
LEMMA TakeDigitDecimal ==
    ASSUME HeaderTypeInv, p < Len(buf), TakeDigit, pc' # "idle",
           NEW s \in Nat, s <= p, NumberRead(num, buf, s, p)
    PROVE  NumberRead(num', buf', s, p')
<1>1. /\ IsDigit(ByteAt(buf, p)) /\ ~Saturated(num)
      /\ num' = Accumulate(num, ByteAt(buf, p)) /\ p' = p + 1 /\ buf' = buf
  BY DEF TakeDigit, Return
<1>2. p \in Nat /\ num \in UInt32
  BY DEF HeaderTypeInv, HeaderTypeOK
<1>3. num' = num * 10 + ByteAt(buf, p)
  BY <1>1, <1>2, AccumulateFits DEF IsDigit
<1>4. Decimal(buf, s, p + 1) = Decimal(buf, s, p) * 10 + ByteAt(buf, p)
  BY <1>2, DecimalNext
<1>5. Representable(num')
  <2>1. (num * 10 + ByteAt(buf, p)) \div 10 = num
    BY SMTT(30), <1>1, <1>2 DEF IsDigit, Digit, UInt32
  <2> QED BY <1>1, <1>3, <2>1 DEF Representable
<1> QED BY <1>1, <1>3, <1>4, <1>5 DEF NumberRead

LEMMA BeginStringSound ==
    ASSUME HeaderTypeInv, HeaderSound, Len(buf) <= UINT32_MAX,
           ScanBeginString, pc' # "idle"
    PROVE  HeaderSound'
<1>1. PICK j \in 2 .. Len(buf) :
         /\ HasLiteral(buf, 0, <<8, Equals>>)
         /\ StopsAt(buf, 2, j)
         /\ j # Len(buf)
         /\ Advance("tag9", j + 1, PushBeginString(out, Entry(0, 2, j, 8)))
  BY DEF ScanBeginString, Return
<1> DEFINE e == Entry(0, 2, j, 8)
<1>2. /\ buf \in Seq(Byte) /\ out \in FieldIndex /\ 8 \in UInt32 /\ j \in Nat /\ j < Len(buf)
      /\ out.field_count = 0 /\ Stored(buf, out, 0) /\ ~TableIsFull(out)
  BY <1>1, WidthAssumption, CapacityAssumption
  DEF HeaderTypeInv, HeaderTypeOK, HeaderCount, HeaderSound, ScanBeginString, UInt32,
      TableIsFull
<1>3. ByteAt(buf, 0) = 8 /\ ByteAt(buf, 1) = Equals
  BY <1>1, Literal2
<1>4. e \in FieldEntry /\ e.tag_start = 0 /\ e.value_start = 2 /\ e.value_end = j
      /\ e.tag_number = 8
      /\ WellFormedField(buf, e) /\ TagRead(buf, e)
  <2>1. NumberRead(8, buf, 0, 2 - 1)
    BY <1>3, DecimalOne, SmallIsRepresentable DEF Digit, NumberRead
  <2> QED BY <1>1, <1>2, <1>3, <2>1, FieldRead DEF StopsAt, IsDigit, Digit
<1>5. /\ Appends(out, e, out') /\ out'.begin_string_idx = 0
  BY <1>1, <1>2, <1>4, PushBeginStringAppends DEF Advance
<1>6. Stored(buf, out', j + 1)
  BY <1>2, <1>4, <1>5, StoredExtends
<1>7. HasBeginString(out')
  BY <1>2, <1>4, <1>5 DEF HasBeginString, Appends
<1> QED
  BY <1>1, <1>6, <1>7 DEF Advance, HeaderSound

LEMMA BodyLengthTagSound ==
    ASSUME HeaderTypeInv, HeaderSound, ScanBodyLengthTag, pc' # "idle"
    PROVE  HeaderSound'
<1>1. HasLiteral(buf, p, <<9, Equals>>) /\ BeginNumber("length", 2) /\ pc = "tag9"
  BY DEF ScanBodyLengthTag, Return
<1>2. p \in Nat
  BY DEF HeaderTypeInv, HeaderTypeOK
<1>3. ByteAt(buf, p) = 9 /\ ByteAt(buf, p + 1) = Equals
  BY <1>1, <1>2, Literal2
<1>4. Stored(buf, out, p) /\ HasBeginString(out)
  BY <1>1 DEF HeaderSound
<1>5. /\ pc' = "length" /\ p' = p + 2 /\ tagStart' = p /\ valueStart' = p + 2
      /\ buf' = buf /\ out' = out
  BY <1>1 DEF BeginNumber
<1>6. ReadingLength'
  <2>1. NumberRead(num', buf', valueStart', p')
    BY <1>1, <1>2, <1>5, NothingRead DEF BeginNumber
  <2> QED BY <1>2, <1>3, <1>5, <2>1 DEF ReadingLength
<1> QED
  BY <1>4, <1>5, <1>6 DEF HeaderSound

LEMMA BodyLengthDigitSound ==
    ASSUME HeaderTypeInv, HeaderSound, BodyLengthDigit, pc' # "idle"
    PROVE  HeaderSound'
<1>1. /\ pc = "length" /\ pc' = "length" /\ p' = p + 1 /\ ByteAt(buf, p) # Soh
      /\ p < Len(buf) /\ TakeDigit
      /\ UNCHANGED <<buf, out, tagStart, valueStart>>
  BY DEF BodyLengthDigit, TakeDigit, Return
<1>2. p \in Nat /\ valueStart \in Nat
  BY DEF HeaderTypeInv, HeaderTypeOK
<1>3. ReadingLength
  BY <1>1 DEF HeaderSound
<1>4. ReadingLength'
  <2>1. NumberRead(num', buf', valueStart', p')
    BY <1>1, <1>2, <1>3, TakeDigitDecimal DEF ReadingLength
  <2>2. IsDigit(ByteAt(buf, p)) /\ \A k \in valueStart .. p : k = p \/ k \in valueStart .. (p - 1)
    BY <1>1, <1>2 DEF TakeDigit, Return
  <2> QED BY <1>1, <1>2, <1>3, <2>1, <2>2 DEF ReadingLength
<1> QED
  BY <1>1, <1>4 DEF HeaderSound

LEMMA BodyLengthEndSound ==
    ASSUME HeaderTypeInv, HeaderSound, Len(buf) <= UINT32_MAX,
           BodyLengthEnd, pc' # "idle"
    PROVE  HeaderSound'
<1> DEFINE e == Entry(tagStart, valueStart, p, 9)
<1>1. /\ pc = "length" /\ p < Len(buf) /\ ByteAt(buf, p) = Soh /\ p # valueStart
      /\ Advance("tag35", p + 1, PushBodyLength(out, e, num))
  BY DEF BodyLengthEnd, Return
<1>2. /\ buf \in Seq(Byte) /\ out \in FieldIndex /\ 9 \in UInt32 /\ num \in UInt32
      /\ tagStart \in Nat /\ valueStart \in Nat /\ p \in Nat
      /\ out.field_count = 1 /\ ~TableIsFull(out)
  BY <1>1, WidthAssumption, CapacityAssumption
  DEF HeaderTypeInv, HeaderTypeOK, HeaderCount, UInt32, TableIsFull
<1>3. Stored(buf, out, tagStart) /\ HasBeginString(out) /\ ReadingLength
  BY <1>1 DEF HeaderSound
<1>4. e \in FieldEntry /\ e.tag_start = tagStart /\ e.value_start = valueStart
      /\ e.value_end = p /\ e.tag_number = 9
      /\ WellFormedField(buf, e) /\ TagRead(buf, e)
  <2>1. NumberRead(9, buf, tagStart, valueStart - 1)
    <3>1. ByteAt(buf, tagStart) = 9
      BY <1>3 DEF ReadingLength
    <3>2. valueStart - 1 = tagStart + 1
      BY <1>2, <1>3 DEF ReadingLength
    <3> QED BY <1>2, <3>1, <3>2, DecimalOne, SmallIsRepresentable DEF Digit, NumberRead
  <2>2. /\ tagStart < valueStart - 1 /\ valueStart <= p
        /\ \A k \in tagStart .. (valueStart - 2) : IsDigit(ByteAt(buf, k))
        /\ ByteAt(buf, valueStart - 1) = Equals
    BY <1>2, <1>3 DEF ReadingLength, IsDigit, Digit
  <2>3. \A k \in valueStart .. (p - 1) : ByteAt(buf, k) # Soh
    BY <1>3 DEF ReadingLength, IsDigit, Digit, Soh
  <2> QED BY <1>1, <1>2, <2>1, <2>2, <2>3, FieldRead
<1>5. /\ Appends(out, e, out')
      /\ out'.begin_string_idx = out.begin_string_idx
      /\ out'.body_length_idx = 1 /\ out'.declared_body_length = num
  BY <1>1, <1>2, <1>4, PushBodyLengthAppends DEF Advance
<1>6. Stored(buf, out', p + 1)
  BY <1>2, <1>3, <1>4, <1>5, StoredExtends
<1>7. HasBeginString(out') /\ HasBodyLength(out') /\ out'.fields[1].value_end = p
  BY <1>2, <1>3, <1>4, <1>5 DEF HasBeginString, HasBodyLength, Appends, ReadingLength
<1>8. LengthRead(buf, out')
  <2>1. out'.fields[1] = e
    BY <1>2, <1>5 DEF Appends
  <2>2. Numeral(buf, valueStart, p)
    BY <1>1, <1>2, <1>3 DEF ReadingLength, Numeral
  <2> QED BY <1>3, <1>4, <1>5, <2>1, <2>2 DEF LengthRead, ReadingLength
<1> QED
  BY <1>1, <1>5, <1>6, <1>7, <1>8 DEF Advance, HeaderSound

LEMMA MsgTypeSound ==
    ASSUME HeaderTypeInv, HeaderSound, Len(buf) <= UINT32_MAX,
           ScanMsgType, pc' # "idle"
    PROVE  HeaderSound'
<1>1. PICK j \in (p + 3) .. Len(buf) :
         /\ HasLiteral(buf, p, <<3, 5, Equals>>)
         /\ StopsAt(buf, p + 3, j)
         /\ j # Len(buf)
         /\ Advance("body", j + 1, PushMsgType(out, Entry(p, p + 3, j, 35)))
         /\ bodyEnd' = p + num
  BY DEF ScanMsgType, Return
<1> DEFINE e == Entry(p, p + 3, j, 35)
<1>2. /\ pc = "tag35"
      /\ buf \in Seq(Byte) /\ out \in FieldIndex /\ 35 \in UInt32
      /\ p \in Nat /\ p + 3 \in Nat /\ j \in Nat /\ j < Len(buf)
      /\ out.field_count = 2 /\ ~TableIsFull(out)
  BY <1>1, WidthAssumption, CapacityAssumption
  DEF HeaderTypeInv, HeaderTypeOK, HeaderCount, ScanMsgType, UInt32, TableIsFull
<1>3. /\ Stored(buf, out, p) /\ HasBeginString(out) /\ HasBodyLength(out)
      /\ p = out.fields[1].value_end + 1 /\ num = out.declared_body_length
      /\ LengthRead(buf, out)
  BY <1>2 DEF HeaderSound
<1>4. /\ ByteAt(buf, p) = 3 /\ ByteAt(buf, p + 1) = 5 /\ ByteAt(buf, p + 2) = Equals
  BY <1>1, <1>2, Literal3
<1>5. e \in FieldEntry /\ e.tag_start = p /\ e.value_start = p + 3 /\ e.value_end = j
      /\ e.tag_number = 35
      /\ WellFormedField(buf, e) /\ TagRead(buf, e)
  <2>1. \A k \in p .. (p + 3 - 2) : IsDigit(ByteAt(buf, k))
    <3>1. \A k \in p .. (p + 3 - 2) : k = p \/ k = p + 1
      BY <1>2
    <3> QED
      BY <1>4, <3>1 DEF IsDigit, Digit
  <2>2. p < p + 3 - 1 /\ ByteAt(buf, p + 3 - 1) = Equals
    BY <1>2, <1>4
  <2>3. ByteAt(buf, j) = Soh /\ \A k \in (p + 3) .. (j - 1) : ByteAt(buf, k) # Soh
    BY <1>1, <1>2 DEF StopsAt
  <2>4. NumberRead(35, buf, p, p + 3 - 1)
    <3>1. Decimal(buf, p, p + 2) = 3 * 10 + 5
      BY <1>2, <1>4, DecimalTwo DEF Digit
    <3>2. p + 3 - 1 = p + 2
      BY <1>2
    <3> QED BY <3>1, <3>2, SmallIsRepresentable DEF NumberRead
  <2> QED
    BY <1>1, <1>2, <2>1, <2>2, <2>3, <2>4, FieldRead
<1>6. /\ Appends(out, e, out')
      /\ out'.begin_string_idx = out.begin_string_idx
      /\ out'.body_length_idx = out.body_length_idx
      /\ out'.msg_type_idx = 2
      /\ out'.declared_body_length = out.declared_body_length
  BY <1>1, <1>2, <1>5, PushMsgTypeAppends DEF Advance
<1>7. Stored(buf, out', j + 1)
  BY <1>2, <1>3, <1>5, <1>6, StoredExtends
<1>8. /\ HasBeginString(out') /\ HasBodyLength(out') /\ HasMsgType(out')
      /\ out'.field_count = 3 /\ out'.fields[1] = out.fields[1]
  BY SMTT(30), <1>2, <1>3, <1>5, <1>6 DEF HasBeginString, HasBodyLength, HasMsgType, Appends
<1>9. BodyReached(buf, out', j + 1, p + num)
  BY <1>3, <1>6, <1>7, <1>8 DEF BodyReached, LengthRead
<1> QED
  BY <1>1, <1>9 DEF Advance, HeaderSound

(* Every step of the header keeps what it has established.                   *)
LEMMA HeaderStepSound ==
    ASSUME HeaderTypeInv, HeaderSound, Len(buf) <= UINT32_MAX, HeaderStep
    PROVE  HeaderSound'
<1>1. CASE pc' = "idle"
  BY <1>1 DEF HeaderSound
<1>2. CASE pc' # "idle"
  BY <1>2, BeginStringSound, BodyLengthTagSound, BodyLengthDigitSound,
     BodyLengthEndSound, MsgTypeSound DEF HeaderStep
<1> QED
  BY <1>1, <1>2

(* Storing a body field that carries no raw data.                             *)
LEMMA BodyExtends ==
    ASSUME NEW b, NEW o \in FieldIndex, NEW e \in FieldEntry, NEW bEnd,
           ~TableIsFull(o), BodyReached(b, o, e.tag_start, bEnd),
           WellFormedField(b, e), TagRead(b, e), e.tag_number \notin {0, 95, 96}
    PROVE  /\ BodyReached(b, Push(o, e), e.value_end + 1, bEnd)
           /\ Push(o, e).field_count = o.field_count + 1
           /\ Push(o, e).msg_type_idx = o.msg_type_idx
           /\ Push(o, e).fields[2] = o.fields[2]
<1> DEFINE r == Push(o, e)
<1>1. /\ Appends(o, e, r)
      /\ r.begin_string_idx = o.begin_string_idx
      /\ r.body_length_idx = o.body_length_idx
      /\ r.msg_type_idx = o.msg_type_idx
      /\ r.declared_body_length = o.declared_body_length
  BY PushAppends, PushIndex
<1> HIDE DEF r
<1>2. Stored(b, r, e.value_end + 1)
  BY <1>1, StoredExtends DEF BodyReached
<1>3. /\ o.field_count \in Nat /\ o.field_count >= 3
      /\ r.field_count = o.field_count + 1
      /\ r.fields[0] = o.fields[0] /\ r.fields[1] = o.fields[1] /\ r.fields[2] = o.fields[2]
  BY <1>1 DEF BodyReached, Appends, FieldIndex
<1>4. \A k \in 3 .. (r.field_count - 1) : r.fields[k].tag_number \notin {0, 95, 96}
  <2>1. \A k \in 3 .. (r.field_count - 1) : k = o.field_count \/ k \in 3 .. (o.field_count - 1)
    BY <1>3
  <2>2. r.fields[o.field_count].tag_number \notin {0, 95, 96}
    BY <1>1 DEF Appends
  <2>3. \A k \in 3 .. (o.field_count - 1) : r.fields[k].tag_number \notin {0, 95, 96}
    BY <1>1, <1>3 DEF BodyReached, Appends
  <2> QED BY <2>1, <2>2, <2>3
<1>5. BodyReached(b, r, e.value_end + 1, bEnd)
  BY <1>1, <1>2, <1>3, <1>4
  DEF BodyReached, HasBeginString, HasBodyLength, HasMsgType, LengthRead
<1> QED BY <1>1, <1>3, <1>5 DEF r

(* Storing the trailer where the body ends completes an exact index.          *)
LEMMA TrailerCompletes ==
    ASSUME NEW b \in Seq(Byte), Len(b) <= UINT32_MAX,
           NEW o \in FieldIndex, NEW e \in FieldEntry,
           ~TableIsFull(o), BodyReached(b, o, e.tag_start, e.tag_start),
           WellFormedField(b, e), TagRead(b, e), e.tag_number = 10,
           e.value_end = e.value_start + 3,
           \A k \in e.value_start .. (e.value_start + 2) : IsDigit(ByteAt(b, k))
    PROVE  /\ ExactIndex(b, PushCheckSum(o, e)) /\ PushCheckSum(o, e) \in FieldIndex
           /\ Readable(PushCheckSum(o, e)) \in FrameIndices(b)
<1> DEFINE r == PushCheckSum(o, e)
           n == o.field_count
<1>1. /\ Appends(o, e, r)
      /\ r.begin_string_idx = o.begin_string_idx
      /\ r.body_length_idx = o.body_length_idx
      /\ r.msg_type_idx = o.msg_type_idx
      /\ r.declared_body_length = o.declared_body_length
      /\ r.checksum_idx = n
      /\ r.frame_length = U32(e.value_end + 1)
  BY PushCheckSumAppends
<1> HIDE DEF r
<1>2. Stored(b, r, e.value_end + 1)
  BY <1>1, StoredExtends DEF BodyReached
<1>3. /\ n \in Nat /\ n >= 3 /\ r.field_count = n + 1 /\ r.field_count \in 4 .. kMaxFields
      /\ r.fields[0] = o.fields[0] /\ r.fields[1] = o.fields[1] /\ r.fields[2] = o.fields[2]
      /\ r.fields[n] = e
  BY <1>1 DEF BodyReached, Appends, FieldIndex
<1>4. r.frame_length = e.value_end + 1
  <2>1. e.value_end \in Nat /\ e.value_end < Len(b) /\ Len(b) \in Nat
    BY DEF FieldEntry, UInt32, WellFormedField
  <2>2. e.value_end + 1 \in Nat /\ e.value_end + 1 <= UINT32_MAX
    BY <2>1, WidthAssumption
  <2> QED BY <1>1, <2>2, U32Fits
<1>5. Tiles(r)
  BY <1>2, <1>3, <1>4 DEF Stored, Tiles
<1>6. CanonicalOrder(r)
  <2>1. \A k \in 3 .. (r.field_count - 2) : r.fields[k].tag_number \notin {0, 95, 96}
    <3>1. \A k \in 3 .. (r.field_count - 2) : k \in 3 .. (n - 1) /\ k \in 0 .. (n - 1)
      BY <1>3
    <3>2. \A k \in 0 .. (n - 1) : r.fields[k] = o.fields[k]
      BY <1>1 DEF Appends
    <3> QED BY <3>1, <3>2 DEF BodyReached
  <2> QED
    BY <1>1, <1>3, <2>1 DEF CanonicalOrder, BodyReached, HasBeginString, HasBodyLength,
                            HasMsgType
<1>7. LengthAgrees(r)
  BY <1>1, <1>3 DEF LengthAgrees, BodyReached
<1>8. ThreeDigitChecksum(b, r)
  <2>1. e.value_start \in Nat
    BY DEF FieldEntry, UInt32
  <2> QED BY <1>1, <1>3, <2>1 DEF ThreeDigitChecksum
<1>9. DelimitsFrame(b, r)
  BY <1>2, <1>3, <1>5, <1>6, <1>7, <1>8 DEF DelimitsFrame, Stored
<1>10. NumbersMatch(b, r)
  BY <1>1, <1>2, <1>3 DEF NumbersMatch, Stored, TagRead, NumberRead, BodyReached, LengthRead
<1>11. Spelled(r) /\ LengthRead(b, r)
  BY <1>1, <1>3
  DEF Spelled, BodyReached, HasBeginString, HasBodyLength, HasMsgType, LengthRead
<1>12. \A k \in 0 .. (r.field_count - 1) : TagRead(b, r.fields[k])
  BY <1>2 DEF Stored
<1>13. ExactIndex(b, r) /\ r \in FieldIndex
  BY <1>1, <1>9, <1>10 DEF ExactIndex, Appends
<1>14. Readable(r) \in FrameIndices(b)
  BY <1>11, <1>12, <1>13, ReadableIsFrame
<1> QED BY <1>13, <1>14 DEF r

(* The header hands the body over with three fields stored, and only when the *)
(* buffer holds the declared body and the trailer.                           *)
LEMMA HeaderHandsOver ==
    ASSUME HeaderTypeInv, HeaderStep, pc' = "body"
    PROVE  out'.field_count = 3 /\ bodyEnd' + kTrailer <= Len(buf)
<1>1. pc = "tag35" /\ ScanMsgType
  BY DEF HeaderStep, ScanBeginString, ScanBodyLengthTag, BodyLengthDigit, BodyLengthEnd,
         ScanMsgType, Return, Advance, BeginNumber, TakeDigit
<1>2. PICK j \in (p + 3) .. Len(buf) :
         /\ BodyFits
         /\ Advance("body", j + 1, PushMsgType(out, Entry(p, p + 3, j, 35)))
         /\ bodyEnd' = p + num
  BY <1>1 DEF ScanMsgType, Return
<1>3. out.field_count = 2 /\ ~TableIsFull(out) /\ out \in FieldIndex
  BY <1>1, CapacityAssumption DEF HeaderTypeInv, HeaderTypeOK, HeaderCount, TableIsFull
<1>4. Entry(p, p + 3, j, 35) \in FieldEntry
  <2>1. 35 \in UInt32 /\ p \in Nat /\ p + 3 \in Nat /\ j \in Nat
    BY WidthAssumption DEF UInt32, HeaderTypeInv, HeaderTypeOK
  <2> QED BY <2>1, EntryType
<1>5. out'.field_count = 3
  BY <1>2, <1>3, <1>4, PushMsgTypeAppends DEF Advance, Appends
<1>6. bodyEnd' + kTrailer <= Len(buf)
  BY <1>2 DEF BodyFits, kTrailer, HeaderTypeInv, HeaderTypeOK, UInt32
<1> QED BY <1>5, <1>6

(* The steps of the header, seen from outside it.                             *)
LEMMA HeaderStepFrame ==
    ASSUME HeaderStep
    PROVE  /\ buf' = buf
           /\ pc \in {"tag8", "tag9", "length", "tag35"}
           /\ pc' \in {"idle", "tag9", "length", "tag35", "body"}
           /\ IF pc' = "idle" THEN status' \in Verdict \ {"Ok"} ELSE status' = status
<1>1. \A v \in {"Truncated", "BadHeader", "Malformed"} : v \in Verdict \ {"Ok"}
  BY DEF Verdict
<1> QED
  BY <1>1 DEF HeaderStep, ScanBeginString, ScanBodyLengthTag, BodyLengthDigit,
     BodyLengthEnd, ScanMsgType, Return, Advance, BeginNumber, TakeDigit

-----------------------------------------------------------------------------
(* Completeness of the header: while the frame o arrives, the header stage passes *)
(* from field to field of o, refuses nothing, and asks for more bytes only if   *)
(* o is not whole yet.                                                      *)

(* The bytes of x would make o whole, and buf is what has arrived of them.     *)
Ahead(x, o) == x \in Seq(Byte) /\ Alike(buf, x, Len(buf)) /\ Whole(x, o)

(* The cursor is at the next field of o, behind the header, and none before it is *)
(* raw data.                                                                *)
Arrives(o, at) ==
    /\ out.field_count \in 3 .. (o.field_count - 1)
    /\ at = o.fields[out.field_count].tag_start
    /\ \A k \in 3 .. (out.field_count - 1) : o.fields[k].tag_number \notin {95, 96}
    /\ bodyEnd = o.fields[o.field_count - 1].tag_start

(* What the scanner answers when o begins the bytes: it asks for more only while o is *)
(* not whole, leaves to QuickFIX what is left to it, and accepts the rest.     *)
Settled(o) ==
    \/ Len(buf) < o.frame_length /\ status = "Truncated"
    \/ Deferred(o) /\ status \in {"FallbackRequested", "TableFull"}
    \/ o.frame_length <= Len(buf) /\ ~Deferred(o) /\ status = "Ok"

HeaderFollows(o) ==
    /\ pc = "tag9" => p = o.fields[1].tag_start
    /\ pc = "length" => /\ tagStart = o.fields[1].tag_start
                        /\ valueStart = o.fields[1].value_start
                        /\ p <= o.fields[1].value_end
    /\ pc = "tag35" => /\ p = o.fields[2].tag_start
                       /\ num = o.declared_body_length
    /\ pc = "body" => Arrives(o, p)
    /\ Finished => Settled(o)

(* Where the fields of the header and the trailer of a frame lie.             *)
LEMMA WholeExtent ==
    ASSUME NEW b \in Seq(Byte), NEW o, Whole(b, o)
    PROVE  /\ \A k \in 0 .. (o.field_count - 1) :
                 /\ o.fields[k].tag_start \in Nat /\ o.fields[k].value_start \in Nat
                 /\ o.fields[k].value_end \in Nat
                 /\ WellFormedField(b, o.fields[k]) /\ TagRead(b, o.fields[k])
                 /\ o.fields[k].value_end < o.frame_length
           /\ \A k \in 1 .. (o.field_count - 1) :
                 o.fields[k].tag_start = o.fields[k - 1].value_end + 1
           /\ o.field_count \in Nat /\ o.field_count >= 4
           /\ Len(b) \in Nat /\ o.frame_length \in Nat
           /\ o.frame_length <= Len(b) /\ kMinScan <= o.frame_length
           /\ o.fields[o.field_count - 1].tag_start + kTrailer <= o.frame_length
           /\ o.fields[0].tag_start = 0
<1> DEFINE n == o.field_count
           e(k) == o.fields[k]
           L == o.frame_length
<1>0. Piecewise(b, o) /\ L \in Nat /\ L <= Len(b) /\ L = e(n - 1).value_end + 1
      /\ \A k \in 0 .. (n - 1) : e(k).value_end < L
  BY FrameBytes DEF Whole, Piecewise
<1>1. Piecewise(b, o) /\ \A k \in 0 .. (n - 1) : TagRead(b, e(k))
  BY DEF Whole
<1>2. /\ n \in Nat /\ n >= 4 /\ Len(b) \in Nat
      /\ 3 \in 0 .. (n - 1) /\ 1 \in 0 .. (n - 1) /\ n - 1 \in 0 .. (n - 1)
  BY <1>1 DEF Piecewise
<1>3. \A k \in 0 .. (n - 1) :
         /\ e(k).tag_start \in Nat /\ e(k).value_start \in Nat /\ e(k).value_end \in Nat
         /\ WellFormedField(b, e(k)) /\ e(k).value_end < L
  BY <1>0 DEF Piecewise
<1>4. \A k \in 1 .. (n - 1) : e(k).tag_start = e(k - 1).value_end + 1
  BY <1>1 DEF Piecewise
<1> DEFINE t == e(n - 1)
           s == t.tag_start
<1>5. /\ s \in Nat /\ t.value_start \in Nat /\ t.value_end \in Nat /\ t.value_end < L
      /\ WellFormedField(b, t) /\ s < t.value_start - 1
      /\ t.value_end = t.value_start + 3
      /\ 10 = Decimal(b, s, t.value_start - 1)
  <2>1. t.tag_number = 10 /\ t.value_end = t.value_start + 3
    BY DEF Whole
  <2>2. TagRead(b, t)
    BY <1>1, <1>2
  <2> QED BY <1>2, <1>3, <2>1, <2>2 DEF WellFormedField, TagRead, NumberRead
<1> HIDE DEF t, s
<1>6. t.value_start - 1 # s + 1
  <2> SUFFICES ASSUME t.value_start - 1 = s + 1 PROVE FALSE
    OBVIOUS
  <2>1. s \in t.tag_start .. (t.value_start - 2)
    BY <1>5 DEF s
  <2>2. ByteAt(b, s) \in Digit
    BY <1>5, <2>1 DEF WellFormedField, IsDigit
  <2>3. Decimal(b, s, s + 1) = ByteAt(b, s)
    BY <1>5, <2>2, DecimalOne
  <2> QED BY <1>5, <2>2, <2>3 DEF Digit
<1>7. s + 7 <= L
  BY <1>0, <1>5, <1>6
<1>8. s >= 5
  <2>1. s = e(1).value_end + 1 + o.declared_body_length /\ o.declared_body_length \in Nat
    BY DEF Whole, s, t
  <2>2. e(0).tag_start = 0 /\ e(1).tag_start = e(0).value_end + 1
    BY <1>1, <1>2, <1>4 DEF Piecewise
  <2>3. e(0).value_end >= 2 /\ e(1).value_end >= e(1).tag_start + 2
    <3>1. 0 \in 0 .. (n - 1)
      BY <1>2
    <3>2. /\ e(0).value_start \in Nat /\ e(0).value_end \in Nat /\ WellFormedField(b, e(0))
      BY <1>3, <3>1
    <3>3. /\ e(1).tag_start \in Nat /\ e(1).value_start \in Nat /\ e(1).value_end \in Nat
          /\ WellFormedField(b, e(1))
      BY <1>2, <1>3
    <3> HIDE DEF e
    <3>4. e(0).value_end >= 2
      BY <2>2, <3>2 DEF WellFormedField
    <3>5. e(1).value_end >= e(1).tag_start + 2
      BY <3>3 DEF WellFormedField
    <3> QED BY <3>4, <3>5
  <2>4. e(0).value_end \in Nat /\ e(1).value_end \in Nat
    BY <1>2, <1>3
  <2> HIDE DEF e
  <2> QED BY <2>1, <2>2, <2>3, <2>4
<1>9. kMinScan <= L /\ s + kTrailer <= L
  BY <1>0, <1>5, <1>7, <1>8 DEF kMinScan, kTrailer
<1> QED BY <1>0, <1>1, <1>2, <1>3, <1>4, <1>9 DEF s, t, Piecewise

(* What has arrived of a frame is the same in buf.                            *)
LEMMA Arrived ==
    ASSUME HeaderTypeInv, NEW x, NEW o, Ahead(x, o)
    PROVE  /\ x \in Seq(Byte) /\ Whole(x, o) /\ Alike(buf, x, Len(buf))
           /\ buf \in Seq(Byte) /\ Len(buf) \in Nat /\ p \in Nat /\ p <= Len(buf)
           /\ \A k \in 0 .. (Len(buf) - 1) : ByteAt(buf, k) = ByteAt(x, k)
           /\ \A i \in Nat : /\ \A c : /\ HasLiteral(x, i, <<c, Equals>>) /\ i + 2 <= Len(buf)
                                       => HasLiteral(buf, i, <<c, Equals>>)
                             /\ HasLiteral(x, i, <<3, 5, Equals>>) /\ i + 3 <= Len(buf)
                                   => HasLiteral(buf, i, <<3, 5, Equals>>)
<1>1. /\ buf \in Seq(Byte) /\ Len(buf) \in Nat /\ p \in Nat /\ p <= Len(buf)
      /\ x \in Seq(Byte) /\ Whole(x, o) /\ Alike(buf, x, Len(buf))
      /\ Alike(x, buf, Len(buf))
  BY DEF HeaderTypeInv, HeaderTypeOK, Ahead, Alike
<1>2. \A c : Len(<<c, Equals>>) = 2
  OBVIOUS
<1>3. Len(<<3, 5, Equals>>) = 3
  OBVIOUS
<1>4. ASSUME NEW i \in Nat, NEW c, HasLiteral(x, i, <<c, Equals>>), i + 2 <= Len(buf)
      PROVE  HasLiteral(buf, i, <<c, Equals>>)
  <2> DEFINE lit == <<c, Equals>>
  <2>1. Len(lit) \in Nat /\ i + Len(lit) <= Len(buf) /\ HasLiteral(x, i, lit)
    <3>1. Len(lit) = 2
      BY <1>2
    <3> QED BY <1>4, <3>1
  <2> HIDE DEF lit
  <2>2. HasLiteral(buf, i, lit)
    BY <1>1, <1>4, <2>1, AlikeLiteral
  <2> QED BY <2>2 DEF lit
<1>5. ASSUME NEW i \in Nat, HasLiteral(x, i, <<3, 5, Equals>>), i + 3 <= Len(buf)
      PROVE  HasLiteral(buf, i, <<3, 5, Equals>>)
  BY <1>1, <1>3, <1>5, AlikeLiteral
<1> QED BY <1>1, <1>4, <1>5 DEF Alike

(* A frame of the buffer is one that has arrived whole.                       *)
LEMMA WholeIsAhead ==
    ASSUME buf \in Seq(Byte), NEW o \in FrameIndices(buf)
    PROVE  Ahead(buf, o) /\ o.frame_length <= Len(buf)
<1>1. Whole(buf, o)
  BY FrameIsWhole
<1>2. Len(buf) \in Nat
  OBVIOUS
<1> QED BY <1>1, <1>2, WholeExtent DEF Ahead, Alike

(* A frame at the start of some continuation of the buffer is one that arrives. *)
LEMMA ContinuationIsAhead ==
    ASSUME buf \in Seq(Byte), NEW x \in Seq(Byte), Continues(x), NEW o \in FrameIndices(x)
    PROVE  Ahead(x, o)
<1>1. Whole(x, o)
  BY FrameIsWhole
<1>2. Len(buf) \in Nat /\ Len(buf) <= Len(x) /\ \A k \in 1 .. Len(buf) : x[k] = buf[k]
  BY DEF Continues
<1>3. ASSUME NEW k \in 0 .. (Len(buf) - 1) PROVE ByteAt(buf, k) = ByteAt(x, k)
  <2>1. k + 1 \in 1 .. Len(buf)
    BY <1>2
  <2> QED BY <1>2, <2>1 DEF ByteAt
<1> QED BY <1>1, <1>2, <1>3 DEF Ahead, Alike

(* A scanner that has followed a frame and whose indices are exact answers with *)
(* that frame: no other begins the buffer.                                   *)
LEMMA FollowedIsAnswered ==
    ASSUME buf \in Seq(Byte), OkIsExact, Finished, NEW x \in Seq(Byte), NEW o \in FrameIndices(x),
           Ahead(x, o), HeaderFollows(o)
    PROVE  AnswersFor(o)
<1>1. status = IF o.frame_length <= Len(buf) THEN "Ok" ELSE "Truncated"
  <2>1. ~Deferred(o) /\ Whole(x, o)
    BY FrameIsWhole
  <2>2. o.frame_length \in Nat /\ Len(buf) \in Nat
    BY <2>1, WholeExtent
  <2> QED BY <2>1, <2>2 DEF HeaderFollows, Settled
<1>2. ASSUME o.frame_length <= Len(buf) PROVE Readable(out) = o
  <2> DEFINE r == Readable(out)
  <2>1. status = "Ok"
    BY <1>1, <1>2
  <2>2. r \in FrameIndices(buf)
    BY <2>1 DEF OkIsExact
  <2> HIDE DEF r
  <2>3. Whole(buf, r) /\ FrameShape(r) /\ FrameShape(o)
    BY <2>2, FrameIsWhole, FrameHasShape
  <2>4. Whole(x, o) /\ o.frame_length \in Nat
    BY WholeExtent DEF Ahead
  <2>5. Alike(x, buf, o.frame_length)
    BY <1>2, <2>4 DEF Ahead, Alike
  <2>6. Whole(buf, o)
    BY <2>4, <2>5, AlikeFrame
  <2> QED BY <2>3, <2>6, FrameIsUnique DEF r
<1> QED BY <1>1, <1>2 DEF AnswersFor

(* The scanner looks for the end of a value and finds that of the field, or     *)
(* that it has not arrived.                                                 *)
LEMMA ValueFound ==
    ASSUME HeaderTypeInv, NEW x, NEW o, Ahead(x, o), NEW k \in 0 .. (o.field_count - 1),
           NEW j \in o.fields[k].value_start .. Len(buf),
           StopsAt(buf, o.fields[k].value_start, j)
    PROVE  /\ j \in Nat
           /\ IF j = Len(buf) THEN Len(buf) < o.frame_length ELSE j = o.fields[k].value_end
<1> DEFINE e == o.fields[k]
<1>1. /\ e.value_start \in Nat /\ e.value_end \in Nat
      /\ WellFormedField(x, e) /\ e.value_end < o.frame_length /\ o.frame_length \in Nat
  BY Arrived, WholeExtent
<1>2. /\ Len(buf) \in Nat
      /\ \A l \in 0 .. (Len(buf) - 1) : ByteAt(buf, l) = ByteAt(x, l)
  BY Arrived
<1> HIDE DEF e
<1>3. j \in e.value_start .. Len(buf) /\ StopsAt(buf, e.value_start, j) /\ j \in Nat
  BY <1>1, <1>2 DEF e
<1>4. e.value_start <= e.value_end /\ ByteAt(x, e.value_end) = Soh
      /\ \A l \in e.value_start .. (e.value_end - 1) : ByteAt(x, l) # Soh
  BY <1>1 DEF WellFormedField
<1>5. ~ (e.value_end < j)
  <2> SUFFICES ASSUME e.value_end < j PROVE FALSE
    OBVIOUS
  <2>1. e.value_end \in e.value_start .. (j - 1) /\ e.value_end \in 0 .. (Len(buf) - 1)
    BY <1>1, <1>2, <1>3, <1>4
  <2> QED BY <1>2, <1>3, <1>4, <2>1 DEF StopsAt
<1>6. j < Len(buf) => ~ (j < e.value_end)
  <2> SUFFICES ASSUME j < Len(buf), j < e.value_end PROVE FALSE
    OBVIOUS
  <2>1. j \in e.value_start .. (e.value_end - 1) /\ j \in 0 .. (Len(buf) - 1)
    BY <1>1, <1>2, <1>3
  <2> QED BY <1>2, <1>3, <1>4, <2>1 DEF StopsAt
<1>7. CASE j = Len(buf)
  BY <1>1, <1>3, <1>5, <1>7
<1>8. CASE j # Len(buf)
  <2>1. j = e.value_end
    BY <1>1, <1>2, <1>3, <1>5, <1>6, <1>8
  <2> QED BY <1>3, <1>8, <2>1 DEF e
<1> QED BY <1>7, <1>8

(* Asking for more bytes is right when the frame is not whole.                 *)
LEMMA AsksForMore ==
    ASSUME HeaderTypeInv, NEW x, NEW o, Ahead(x, o), Len(buf) < o.frame_length,
           Return("Truncated")
    PROVE  HeaderFollows(o)' /\ pc' = "idle"
BY DEF Return, HeaderFollows, Finished, Settled

(* Handing a frame over is right when it is left to QuickFIX.                  *)
LEMMA HandsOver ==
    ASSUME NEW o, Deferred(o), NEW v \in {"FallbackRequested", "TableFull"}, Return(v)
    PROVE  HeaderFollows(o)' /\ pc' = "idle"
BY DEF Return, HeaderFollows, Finished, Settled

LEMMA BeginStringFollows ==
    ASSUME HeaderTypeInv, NEW x, NEW o, Ahead(x, o), ScanBeginString
    PROVE  HeaderFollows(o)'
<1>1. /\ x \in Seq(Byte) /\ Whole(x, o) /\ Len(buf) \in Nat
  BY Arrived
<1>2. /\ kMinScan <= o.frame_length /\ o.frame_length \in Nat /\ o.fields[0].tag_start = 0
      /\ 0 \in 0 .. (o.field_count - 1)
      /\ o.fields[1].tag_start = o.fields[0].value_end + 1
  <2>1. 0 \in 0 .. (o.field_count - 1) /\ 1 \in 1 .. (o.field_count - 1) /\ 1 - 1 = 0
    BY <1>1, WholeExtent
  <2> QED BY <1>1, <2>1, WholeExtent
<1>3. CASE Len(buf) < kMinScan
  <2>1. Return("Truncated")
    BY <1>1, <1>3 DEF ScanBeginString, kMinScan
  <2>2. Len(buf) < o.frame_length
    BY <1>1, <1>2, <1>3 DEF kMinScan
  <2> QED BY <2>1, <2>2, AsksForMore
<1>4. CASE ~ (Len(buf) < kMinScan)
  <2>1. HasLiteral(x, 0, <<8, Equals>>) /\ o.fields[0].value_start = 2
    BY <1>2 DEF Whole, Spelled, Ahead
  <2>2. HasLiteral(buf, 0, <<8, Equals>>)
    <3>1. 0 \in Nat /\ 0 + 2 <= Len(buf)
      BY <1>1, <1>4 DEF kMinScan
    <3> QED BY <2>1, <3>1, Arrived
  <2>3. PICK j \in 2 .. Len(buf) :
           /\ StopsAt(buf, 2, j)
           /\ IF j = Len(buf) THEN Return("Truncated")
              ELSE Advance("tag9", j + 1, PushBeginString(out, Entry(0, 2, j, 8)))
    BY <1>4, <2>2 DEF ScanBeginString
  <2>4. IF j = Len(buf) THEN Len(buf) < o.frame_length ELSE j = o.fields[0].value_end
    BY <1>2, <2>1, <2>3, ValueFound
  <2>5. CASE j = Len(buf)
    BY <2>3, <2>4, <2>5, AsksForMore
  <2>6. CASE j # Len(buf)
    BY <1>2, <2>3, <2>4, <2>6 DEF Advance, HeaderFollows, Finished
  <2> QED BY <2>5, <2>6
<1> QED BY <1>3, <1>4

LEMMA BodyLengthTagFollows ==
    ASSUME HeaderTypeInv, NEW x, NEW o, Ahead(x, o), HeaderFollows(o), ScanBodyLengthTag
    PROVE  HeaderFollows(o)'
<1> DEFINE e == o.fields[1]
<1>1. /\ x \in Seq(Byte) /\ Whole(x, o) /\ Len(buf) \in Nat /\ p \in Nat
  BY Arrived
<1>2. pc = "tag9" /\ p = e.tag_start
  BY DEF ScanBodyLengthTag, HeaderFollows
<1>3. /\ e.value_start \in Nat /\ e.value_end \in Nat /\ e.value_start <= e.value_end
      /\ e.value_end < o.frame_length /\ o.frame_length \in Nat
  <2>1. 1 \in 0 .. (o.field_count - 1)
    BY <1>1, WholeExtent
  <2> QED BY <1>1, <2>1, WholeExtent DEF WellFormedField
<1>4. HasLiteral(x, p, <<9, Equals>>) /\ e.value_start = p + 2
  BY <1>2 DEF Whole, Spelled, Ahead
<1> HIDE DEF e
<1>5. CASE Len(buf) - p < 2
  <2>1. ~HasLiteral(buf, p, <<9, Equals>>)
    <3> SUFFICES ASSUME HasLiteral(buf, p, <<9, Equals>>) PROVE FALSE
      OBVIOUS
    <3>1. p + 2 <= Len(buf)
      BY <1>1, Literal2
    <3> QED BY <1>1, <1>5, <3>1
  <2>2. Return("Truncated")
    BY <1>1, <1>5, <2>1 DEF ScanBodyLengthTag
  <2>3. Len(buf) < o.frame_length
    BY <1>1, <1>3, <1>4, <1>5
  <2> QED BY <2>2, <2>3, AsksForMore
<1>6. CASE ~ (Len(buf) - p < 2)
  <2>1. HasLiteral(buf, p, <<9, Equals>>)
    <3>1. p + 2 <= Len(buf)
      BY <1>1, <1>6
    <3> QED BY <1>1, <1>4, <3>1, Arrived
  <2>2. BeginNumber("length", 2)
    BY <1>6, <2>1 DEF ScanBodyLengthTag
  <2>3. p + 2 <= e.value_end
    BY <1>3, <1>4
  <2> QED BY <1>2, <1>4, <2>2, <2>3 DEF BeginNumber, HeaderFollows, Finished, e
<1> QED BY <1>5, <1>6

LEMMA BodyLengthDigitFollows ==
    ASSUME HeaderTypeInv, HeaderSound, NEW x, NEW o, Ahead(x, o), HeaderFollows(o),
           BodyLengthDigit
    PROVE  HeaderFollows(o)'
<1> DEFINE e == o.fields[1]
<1>0. /\ x \in Seq(Byte) /\ Whole(x, o) /\ Len(buf) \in Nat /\ Alike(buf, x, Len(buf))
  BY Arrived
<1>1. /\ pc = "length" /\ p < Len(buf) /\ ByteAt(buf, p) # Soh /\ TakeDigit
      /\ tagStart = e.tag_start /\ valueStart = e.value_start /\ p <= e.value_end
      /\ p \in Nat /\ p <= Len(buf)
  BY Arrived DEF BodyLengthDigit, HeaderFollows
<1>2. 1 \in 0 .. (o.field_count - 1)
  BY <1>0, WholeExtent
<1>3. e.value_start \in Nat /\ e.value_end \in Nat /\ WellFormedField(x, e)
  BY <1>0, <1>2, WholeExtent
<1>4. /\ \A k \in e.value_start .. (e.value_end - 1) : IsDigit(ByteAt(x, k))
      /\ Representable(Decimal(x, e.value_start, e.value_end))
  BY <1>0 DEF Whole, LengthRead, Numeral, NumberRead
<1>5. num = Decimal(buf, e.value_start, p) /\ e.value_start <= p
  BY <1>1 DEF HeaderSound, ReadingLength, NumberRead
<1> HIDE DEF e
<1>6. num = Decimal(x, e.value_start, p)
  BY <1>0, <1>1, <1>3, <1>5, AlikeNumber
<1>7. ByteAt(buf, p) = ByteAt(x, p)
  <2>1. p \in 0 .. (Len(buf) - 1)
    BY <1>0, <1>1
  <2> QED BY <2>1, Arrived
<1>8. p < e.value_end
  BY <1>1, <1>3, <1>7 DEF WellFormedField
<1>9. IsDigit(ByteAt(buf, p))
  BY <1>1, <1>3, <1>4, <1>5, <1>7, <1>8
<1>10. ~Saturated(num)
  BY <1>1, <1>3, <1>4, <1>5, <1>6, <1>8, RoomForDigit
<1>11. p' = p + 1 /\ UNCHANGED <<pc, tagStart, valueStart>>
  BY <1>1, <1>9, <1>10 DEF TakeDigit
<1>12. p' <= e.value_end
  BY <1>1, <1>3, <1>8, <1>11
<1> QED BY <1>1, <1>11, <1>12 DEF HeaderFollows, Finished, e

LEMMA BodyLengthEndFollows ==
    ASSUME HeaderTypeInv, HeaderSound, NEW x, NEW o, Ahead(x, o), HeaderFollows(o),
           BodyLengthEnd
    PROVE  HeaderFollows(o)'
<1> DEFINE e == o.fields[1]
<1>0. /\ x \in Seq(Byte) /\ Whole(x, o) /\ Len(buf) \in Nat /\ Alike(buf, x, Len(buf))
  BY Arrived
<1>1. /\ pc = "length" /\ valueStart = e.value_start /\ p <= e.value_end
      /\ p \in Nat /\ p <= Len(buf)
  BY Arrived DEF BodyLengthEnd, HeaderFollows
<1>2. 1 \in 0 .. (o.field_count - 1) /\ 2 \in 1 .. (o.field_count - 1) /\ 2 - 1 = 1
  BY <1>0, WholeExtent
<1>3. /\ e.value_start \in Nat /\ e.value_end \in Nat /\ WellFormedField(x, e)
      /\ e.value_end < o.frame_length /\ o.frame_length \in Nat
  BY <1>0, <1>2, WholeExtent
<1>4. o.fields[2].tag_start = e.value_end + 1
  BY <1>0, <1>2, WholeExtent
<1>5. /\ e.value_start < e.value_end
      /\ o.declared_body_length = Decimal(x, e.value_start, e.value_end)
  BY <1>0 DEF Whole, LengthRead, Numeral, NumberRead
<1>6. num = Decimal(buf, e.value_start, p) /\ e.value_start <= p
  BY <1>1 DEF HeaderSound, ReadingLength, NumberRead
<1> HIDE DEF e
<1>7. num = Decimal(x, e.value_start, p)
  BY <1>0, <1>1, <1>3, <1>6, AlikeNumber
<1>8. CASE p = Len(buf)
  <2>1. Return("Truncated")
    BY <1>0, <1>8 DEF BodyLengthEnd
  <2>2. Len(buf) < o.frame_length
    BY <1>1, <1>3, <1>8
  <2> QED BY <2>1, <2>2, AsksForMore
<1>9. CASE p # Len(buf)
  <2>0. p < Len(buf) /\ p \in 0 .. (Len(buf) - 1)
    BY <1>0, <1>1, <1>9
  <2>1. ByteAt(x, p) = Soh
    <3>1. ByteAt(buf, p) = Soh
      BY <1>9 DEF BodyLengthEnd
    <3> QED BY <2>0, <3>1, Arrived
  <2>2. p = e.value_end
    <3> SUFFICES ASSUME p < e.value_end PROVE FALSE
      BY <1>1, <1>3
    <3>1. p \in e.value_start .. (e.value_end - 1)
      BY <1>1, <1>3, <1>6
    <3> QED BY <1>3, <2>1, <3>1 DEF WellFormedField
  <2>3. p # valueStart
    BY <1>1, <1>3, <1>5, <2>2
  <2>4. Advance("tag35", p + 1, PushBodyLength(out, Entry(tagStart, valueStart, p, 9), num))
    BY <1>9, <2>3 DEF BodyLengthEnd
  <2> QED BY <1>4, <1>5, <1>7, <2>2, <2>4 DEF Advance, HeaderFollows, Finished
<1> QED BY <1>8, <1>9

LEMMA MsgTypeFollows ==
    ASSUME HeaderTypeInv, NEW x, NEW o, Ahead(x, o), HeaderFollows(o), ScanMsgType
    PROVE  HeaderFollows(o)'
<1> DEFINE e == o.fields[2]
           n == o.field_count
<1>0. /\ x \in Seq(Byte) /\ Whole(x, o) /\ Len(buf) \in Nat /\ p \in Nat /\ p <= Len(buf)
  BY Arrived
<1>1. pc = "tag35" /\ p = e.tag_start /\ num = o.declared_body_length
  BY DEF ScanMsgType, HeaderFollows
<1>2. /\ n \in Nat /\ n >= 4 /\ o.frame_length \in Nat
      /\ o.fields[n - 1].tag_start + kTrailer <= o.frame_length
      /\ 2 \in 0 .. (n - 1) /\ 3 \in 1 .. (n - 1) /\ 2 \in 1 .. (n - 1) /\ 3 \in 3 .. (n - 1)
  BY <1>0, WholeExtent
<1>3. /\ e.value_start \in Nat /\ e.value_end \in Nat /\ e.tag_start \in Nat
      /\ e.tag_start = o.fields[2 - 1].value_end + 1
      /\ o.fields[3].tag_start = o.fields[3 - 1].value_end + 1
  BY <1>0, <1>2, WholeExtent
<1>4. /\ HasLiteral(x, p, <<3, 5, Equals>>) /\ e.value_start = p + 3
      /\ o.fields[n - 1].tag_start = o.fields[1].value_end + 1 + o.declared_body_length
      /\ o.declared_body_length \in Nat
  BY <1>0, <1>1 DEF Whole, Spelled
<1>5. o.fields[n - 1].tag_start = p + num /\ o.fields[3].tag_start = e.value_end + 1
      /\ num \in Nat
  BY <1>1, <1>3, <1>4
<1>6. CASE ~BodyFits
  <2>1. Return("Truncated")
    BY <1>6 DEF ScanMsgType
  <2>2. ~ (Len(buf) - p >= num + kTrailer)
    BY <1>6 DEF BodyFits
  <2>3. Len(buf) < o.frame_length
    BY <1>0, <1>2, <1>5, <2>2 DEF kTrailer
  <2> QED BY <2>1, <2>3, AsksForMore
<1>7. CASE BodyFits
  <2>1. p + 3 <= Len(buf)
    BY <1>0, <1>5, <1>7 DEF BodyFits, kTrailer
  <2>2. HasLiteral(buf, p, <<3, 5, Equals>>)
    BY <1>0, <1>4, <2>1, Arrived
  <2>3. PICK j \in (p + 3) .. Len(buf) :
           /\ StopsAt(buf, p + 3, j)
           /\ IF j = Len(buf) THEN Return("Truncated")
              ELSE /\ Advance("body", j + 1, PushMsgType(out, Entry(p, p + 3, j, 35)))
                   /\ bodyEnd' = p + num
    BY <1>7, <2>2 DEF ScanMsgType
  <2>4. IF j = Len(buf) THEN Len(buf) < o.frame_length ELSE j = e.value_end
    <3>1. j \in e.value_start .. Len(buf) /\ StopsAt(buf, e.value_start, j)
      BY <1>4, <2>3
    <3> QED BY <1>2, <3>1, ValueFound
  <2>5. CASE j = Len(buf)
    BY <2>3, <2>4, <2>5, AsksForMore
  <2>6. CASE j # Len(buf)
    <3>1. pc' = "body" /\ p' = e.value_end + 1 /\ bodyEnd' = p + num
      BY <2>3, <2>4, <2>6 DEF Advance
    <3>2. out'.field_count = 3
      BY <3>1, HeaderHandsOver DEF HeaderStep
    <3>3. Arrives(o, p)'
      <4>1. \A k \in 3 .. (3 - 1) : o.fields[k].tag_number \notin {95, 96}
        OBVIOUS
      <4> QED BY <1>2, <1>5, <3>1, <3>2, <4>1 DEF Arrives
    <3> QED BY <3>1, <3>3 DEF HeaderFollows, Finished
  <2> QED BY <2>5, <2>6
<1> QED BY <1>6, <1>7

(* The header refuses no frame.                                               *)
LEMMA HeaderStepFollows ==
    ASSUME HeaderTypeInv, HeaderSound, NEW x, NEW o, Ahead(x, o), HeaderFollows(o), HeaderStep
    PROVE  HeaderFollows(o)'
BY BeginStringFollows, BodyLengthTagFollows, BodyLengthDigitFollows, BodyLengthEndFollows,
   MsgTypeFollows DEF HeaderStep

(* Behind the header: the field of a frame at which a scanner has arrived.    *)
LEMMA ArrivedAt ==
    ASSUME HeaderTypeInv, NEW x, NEW o, Ahead(x, o), NEW at, Arrives(o, at)
    PROVE  LET k == out.field_count
               e == o.fields[k]
               n == o.field_count
           IN  /\ k \in 3 .. (n - 1) /\ k \in 0 .. (n - 1) /\ n \in Nat
               /\ e.tag_start \in Nat /\ e.value_start \in Nat /\ e.value_end \in Nat
               /\ WellFormedField(x, e) /\ TagRead(x, e) /\ e.value_end < o.frame_length
               /\ at = e.tag_start /\ bodyEnd \in Nat
               /\ k = n - 1 => at = bodyEnd
               /\ k # n - 1 => /\ at < bodyEnd
                               /\ k + 1 \in 3 .. (n - 1)
                               /\ o.fields[k + 1].tag_start = e.value_end + 1
               /\ ~Deferred(o) => ~TableIsFull(out)
<1> DEFINE k == out.field_count
           n == o.field_count
<1>1. k \in 3 .. (n - 1) /\ at = o.fields[k].tag_start /\ bodyEnd = o.fields[n - 1].tag_start
  BY DEF Arrives
<1>2. x \in Seq(Byte) /\ Whole(x, o)
  BY DEF Ahead
<1>3. n \in Nat /\ n >= 4
  BY <1>2, WholeExtent
<1>4. k \in 0 .. (n - 1) /\ n - 1 \in 0 .. (n - 1)
  BY <1>1, <1>3
<1>5. /\ o.fields[k].tag_start \in Nat /\ o.fields[k].value_start \in Nat
      /\ o.fields[k].value_end \in Nat
      /\ WellFormedField(x, o.fields[k]) /\ TagRead(x, o.fields[k])
      /\ o.fields[k].value_end < o.frame_length /\ o.fields[n - 1].tag_start \in Nat
  BY <1>2, <1>4, WholeExtent
<1>6. k # n - 1 => at < bodyEnd
  <2>1. k # n - 1 => k < n - 1
    BY <1>1, <1>3
  <2> QED BY <1>1, <1>2, <1>4, <2>1, StartsAscend DEF Whole
<1>7. k # n - 1 => k + 1 \in 3 .. (n - 1) /\ o.fields[k + 1].tag_start = o.fields[k].value_end + 1
  <2> SUFFICES ASSUME k # n - 1
               PROVE  /\ k + 1 \in 3 .. (n - 1)
                      /\ o.fields[k + 1].tag_start = o.fields[k].value_end + 1
    OBVIOUS
  <2>1. k + 1 \in 3 .. (n - 1) /\ k + 1 \in 1 .. (n - 1) /\ (k + 1) - 1 = k
    BY <1>1, <1>3
  <2>2. o.fields[k + 1].tag_start = o.fields[(k + 1) - 1].value_end + 1
    BY <1>2, <2>1, WholeExtent
  <2> QED BY <2>1, <2>2
<1>8. ~Deferred(o) => ~TableIsFull(out)
  BY <1>1, <1>3, CapacityAssumption DEF TableIsFull, Deferred
<1> QED BY <1>1, <1>3, <1>4, <1>5, <1>6, <1>7, <1>8

(* A tag of a frame is not 0, and when one before the trailer is raw data's the    *)
(* frame is left to QuickFIX.                                               *)
LEMMA FrameTags ==
    ASSUME HeaderTypeInv, NEW x, NEW o, Ahead(x, o), NEW at, Arrives(o, at)
    PROVE  LET tag == o.fields[out.field_count].tag_number
           IN  /\ tag # 0
               /\ at = bodyEnd => out.field_count = o.field_count - 1 /\ tag = 10
               /\ tag \in {95, 96} => Deferred(o)
<1>1. /\ out.field_count \in 3 .. (o.field_count - 1) /\ o.field_count \in Nat
      /\ out.field_count = o.field_count - 1 => at = bodyEnd
      /\ out.field_count # o.field_count - 1 => at < bodyEnd
      /\ bodyEnd \in Nat /\ at = o.fields[out.field_count].tag_start
      /\ o.fields[out.field_count].tag_start \in Nat
  BY ArrivedAt
<1>2. CASE at = bodyEnd
  <2>1. out.field_count = o.field_count - 1
    BY <1>1, <1>2
  <2> QED BY <1>2, <2>1 DEF Whole, Ahead
<1>3. CASE at # bodyEnd
  <2>1. out.field_count \in 3 .. (o.field_count - 2)
    BY <1>1, <1>3
  <2> QED BY <1>3, <2>1 DEF Whole, Ahead, Deferred
<1> QED BY <1>2, <1>3

-----------------------------------------------------------------------------
(* The verdict is a matter of the bytes.  What a step does to the locals of      *)
(* scan() depends on the locals and the buffer alone, not on what an earlier     *)
(* call left in the index; and a step reads nothing that has not arrived.       *)
Locals ==
    [pc |-> pc, p |-> p, tagStart |-> tagStart, valueStart |-> valueStart, num |-> num,
     bodyEnd |-> bodyEnd, count |-> out.field_count, status |-> status]

AtStart ==
    [pc |-> "tag8", p |-> 0, tagStart |-> 0, valueStart |-> 0, num |-> 0, bodyEnd |-> 0,
     count |-> 0, status |-> "None"]

Returns(s, verdict) ==
    [pc |-> "idle", p |-> s.p, tagStart |-> s.tagStart, valueStart |-> s.valueStart,
     num |-> s.num, bodyEnd |-> s.bodyEnd, count |-> s.count, status |-> verdict]

Stores(s, label, next, end) ==
    [pc |-> label, p |-> next, tagStart |-> s.tagStart, valueStart |-> s.valueStart,
     num |-> s.num, bodyEnd |-> end, count |-> s.count + 1, status |-> s.status]

Begins(s, label, skip) ==
    [pc |-> label, p |-> s.p + skip, tagStart |-> s.p, valueStart |-> s.p + skip,
     num |-> 0, bodyEnd |-> s.bodyEnd, count |-> s.count, status |-> s.status]

Takes(b, s) ==
    IF ~IsDigit(ByteAt(b, s.p)) \/ Saturated(s.num)
    THEN Returns(s, "Malformed")
    ELSE [pc |-> s.pc, p |-> s.p + 1, tagStart |-> s.tagStart, valueStart |-> s.valueStart,
          num |-> Accumulate(s.num, ByteAt(b, s.p)), bodyEnd |-> s.bodyEnd,
          count |-> s.count, status |-> s.status]

(* The steps of the header, from the locals s to the locals t.                *)
HeaderMoves(b, s, t) ==
    \/ /\ s.pc = "tag8"
       /\ IF Len(b) < kMinScan THEN t = Returns(s, "Truncated")
          ELSE IF ~HasLiteral(b, 0, <<8, Equals>>) THEN t = Returns(s, "BadHeader")
          ELSE \E j \in 2 .. Len(b) :
                  /\ StopsAt(b, 2, j)
                  /\ t = IF j = Len(b) THEN Returns(s, "Truncated")
                         ELSE Stores(s, "tag9", j + 1, s.bodyEnd)
    \/ /\ s.pc = "tag9"
       /\ t = IF Len(b) - s.p < 2 THEN Returns(s, "Truncated")
              ELSE IF HasLiteral(b, s.p, <<9, Equals>>) THEN Begins(s, "length", 2)
              ELSE Returns(s, "BadHeader")
    \/ /\ s.pc = "length"
       /\ t = IF s.p = Len(b) THEN Returns(s, "Truncated")
              ELSE IF ByteAt(b, s.p) # Soh THEN Takes(b, s)
              ELSE IF s.p = s.valueStart THEN Returns(s, "Malformed")
              ELSE Stores(s, "tag35", s.p + 1, s.bodyEnd)
    \/ /\ s.pc = "tag35"
       /\ IF ~ (Len(b) - s.p >= s.num + kTrailer) THEN t = Returns(s, "Truncated")
          ELSE IF ~HasLiteral(b, s.p, <<3, 5, Equals>>) THEN t = Returns(s, "BadHeader")
          ELSE \E j \in (s.p + 3) .. Len(b) :
                  /\ StopsAt(b, s.p + 3, j)
                  /\ t = IF j = Len(b) THEN Returns(s, "Truncated")
                         ELSE Stores(s, "body", j + 1, s.p + s.num)

LEMMA CallStarts ==
    ASSUME HeaderTypeInv, NEW b, Call(b)
    PROVE  Locals' = AtStart
<1>1. out \in FieldIndex
  BY DEF HeaderTypeInv, HeaderTypeOK
<1>2. out'.field_count = 0
  BY <1>1, ResetIndex DEF Call
<1> QED BY <1>2 DEF Call, Locals, AtStart

LEMMA ReturnMoves ==
    ASSUME NEW v, Return(v)
    PROVE  Locals' = Returns(Locals, v)
BY DEF Return, Locals, Returns

LEMMA AdvanceMoves ==
    ASSUME NEW label, NEW next, NEW o, Advance(label, next, o),
           o.field_count = out.field_count + 1
    PROVE  Locals' = Stores(Locals, label, next, bodyEnd')
BY DEF Advance, Locals, Stores

LEMMA BeginMoves ==
    ASSUME NEW label, NEW skip, BeginNumber(label, skip)
    PROVE  Locals' = Begins(Locals, label, skip)
BY DEF BeginNumber, Locals, Begins

LEMMA TakeMoves ==
    ASSUME TakeDigit
    PROVE  Locals' = Takes(buf, Locals)
BY DEF TakeDigit, Return, Locals, Takes, Returns

LEMMA PushCounts ==
    ASSUME NEW o \in FieldIndex, NEW e, NEW n
    PROVE  /\ Push(o, e).field_count = o.field_count + 1
           /\ PushBeginString(o, e).field_count = o.field_count + 1
           /\ PushBodyLength(o, e, n).field_count = o.field_count + 1
           /\ PushMsgType(o, e).field_count = o.field_count + 1
           /\ PushCheckSum(o, e).field_count = o.field_count + 1
BY DEF FieldIndex, Push, PushBeginString, PushBodyLength, PushMsgType, PushCheckSum

LEMMA HeaderStepMoves ==
    ASSUME HeaderTypeInv, HeaderStep
    PROVE  HeaderMoves(buf, Locals, Locals')
<1>0. /\ out \in FieldIndex /\ p \in Nat /\ Len(buf) \in Nat /\ p <= Len(buf)
  BY DEF HeaderTypeInv, HeaderTypeOK
<1>1. /\ Locals.pc = pc /\ Locals.p = p /\ Locals.valueStart = valueStart /\ Locals.num = num
      /\ Locals.bodyEnd = bodyEnd
  BY DEF Locals
<1>2. CASE ScanBeginString
  <2>1. CASE Len(buf) < kMinScan
    BY <1>0, <1>1, <1>2, <2>1, ReturnMoves DEF ScanBeginString, HeaderMoves, kMinScan
  <2>2. CASE Len(buf) >= kMinScan /\ ~HasLiteral(buf, 0, <<8, Equals>>)
    BY <1>0, <1>1, <1>2, <2>2, ReturnMoves DEF ScanBeginString, HeaderMoves, kMinScan
  <2>3. CASE Len(buf) >= kMinScan /\ HasLiteral(buf, 0, <<8, Equals>>)
    <3>1. PICK j \in 2 .. Len(buf) :
             /\ StopsAt(buf, 2, j)
             /\ IF j = Len(buf) THEN Return("Truncated")
                ELSE /\ Advance("tag9", j + 1, PushBeginString(out, Entry(0, 2, j, 8)))
                     /\ UNCHANGED bodyEnd
      BY <1>0, <1>2, <2>3 DEF ScanBeginString, kMinScan
    <3>2. Locals' = IF j = Len(buf) THEN Returns(Locals, "Truncated")
                                    ELSE Stores(Locals, "tag9", j + 1, bodyEnd)
      BY <1>0, <3>1, ReturnMoves, AdvanceMoves, PushCounts
    <3>3. pc = "tag8"
      BY <1>2 DEF ScanBeginString
    <3> QED BY <1>0, <1>1, <2>3, <3>1, <3>2, <3>3 DEF HeaderMoves, kMinScan
  <2> QED BY <1>0, <2>1, <2>2, <2>3 DEF kMinScan
<1>3. CASE ScanBodyLengthTag
  <2>1. CASE Len(buf) - p < 2
    <3>1. ~HasLiteral(buf, p, <<9, Equals>>)
      <4> SUFFICES ASSUME HasLiteral(buf, p, <<9, Equals>>) PROVE FALSE
        OBVIOUS
      <4>1. p + 2 <= Len(buf)
        BY <1>0, Literal2
      <4> QED BY <1>0, <2>1, <4>1
    <3> QED BY <1>0, <1>1, <1>3, <2>1, <3>1, ReturnMoves DEF ScanBodyLengthTag, HeaderMoves
  <2>2. CASE ~ (Len(buf) - p < 2)
    BY <1>0, <1>1, <1>3, <2>2, ReturnMoves, BeginMoves DEF ScanBodyLengthTag, HeaderMoves
  <2> QED BY <2>1, <2>2
<1>4. CASE BodyLengthDigit
  BY <1>0, <1>1, <1>4, TakeMoves DEF BodyLengthDigit, HeaderMoves
<1>5. CASE BodyLengthEnd
  BY <1>0, <1>1, <1>5, ReturnMoves, AdvanceMoves, PushCounts DEF BodyLengthEnd, HeaderMoves
<1>6. CASE ScanMsgType
  <2>0. BodyFits <=> (Len(buf) - p >= num + kTrailer)
    BY DEF BodyFits
  <2>1. CASE ~BodyFits
    BY <1>1, <1>6, <2>0, <2>1, ReturnMoves DEF ScanMsgType, HeaderMoves
  <2>2. CASE BodyFits /\ ~HasLiteral(buf, p, <<3, 5, Equals>>)
    BY <1>1, <1>6, <2>0, <2>2, ReturnMoves DEF ScanMsgType, HeaderMoves
  <2>3. CASE BodyFits /\ HasLiteral(buf, p, <<3, 5, Equals>>)
    <3>1. PICK j \in (p + 3) .. Len(buf) :
             /\ StopsAt(buf, p + 3, j)
             /\ IF j = Len(buf) THEN Return("Truncated")
                ELSE /\ Advance("body", j + 1, PushMsgType(out, Entry(p, p + 3, j, 35)))
                     /\ bodyEnd' = p + num
      BY <1>6, <2>3 DEF ScanMsgType
    <3>2. CASE j = Len(buf)
      BY <1>1, <1>6, <2>0, <2>3, <3>1, <3>2, ReturnMoves DEF ScanMsgType, HeaderMoves
    <3>3. CASE j # Len(buf)
      <4>2. Locals' = Stores(Locals, "body", j + 1, p + num)
        BY <1>0, <3>1, <3>3, AdvanceMoves, PushCounts
      <4> QED BY <1>1, <1>6, <2>0, <2>3, <3>1, <3>3, <4>2 DEF ScanMsgType, HeaderMoves
    <3> QED BY <3>2, <3>3
  <2> QED BY <2>1, <2>2, <2>3
<1> QED BY <1>2, <1>3, <1>4, <1>5, <1>6 DEF HeaderStep

(* Where a value ends, and whether a literal stands there, is the same in what   *)
(* had arrived and in what has.                                              *)
LEMMA StopsTogether ==
    ASSUME NEW c \in Seq(Byte), NEW x \in Seq(Byte), Alike(c, x, Len(c)), NEW i \in Nat,
           NEW j \in i .. Len(c), StopsAt(c, i, j), j # Len(c),
           NEW k \in i .. Len(x), StopsAt(x, i, k)
    PROVE  k = j /\ k # Len(x)
<1>1. /\ Len(c) \in Nat /\ Len(x) \in Nat /\ Len(c) <= Len(x) /\ j < Len(c)
      /\ \A l \in 0 .. (Len(c) - 1) : ByteAt(c, l) = ByteAt(x, l)
  BY DEF Alike
<1>2. ByteAt(c, j) = Soh /\ ByteAt(x, j) = Soh
  BY <1>1 DEF StopsAt
<1>3. ~ (k < j)
  <2> SUFFICES ASSUME k < j PROVE FALSE
    OBVIOUS
  <2>1. ByteAt(x, k) = Soh /\ ByteAt(c, k) # Soh
    BY <1>1 DEF StopsAt
  <2> QED BY <1>1, <2>1
<1>4. ~ (j < k)
  <2> SUFFICES ASSUME j < k PROVE FALSE
    OBVIOUS
  <2>1. j \in i .. (k - 1)
    BY <1>1
  <2> QED BY <1>2, <2>1 DEF StopsAt
<1> QED BY <1>1, <1>3, <1>4

LEMMA LiteralsTogether ==
    ASSUME NEW c \in Seq(Byte), NEW x \in Seq(Byte), Alike(c, x, Len(c)), NEW i \in Nat
    PROVE  /\ \A d : i + 2 <= Len(c)
                => (HasLiteral(c, i, <<d, Equals>>) <=> HasLiteral(x, i, <<d, Equals>>))
           /\ i + 3 <= Len(c)
                => \A d, e : HasLiteral(c, i, <<d, e, Equals>>)
                                <=> HasLiteral(x, i, <<d, e, Equals>>)
<1>1. /\ Len(c) \in Nat /\ Len(x) \in Nat /\ Alike(x, c, Len(c))
  BY DEF Alike
<1>2. ASSUME NEW lit, Len(lit) \in Nat, i + Len(lit) <= Len(c)
      PROVE  HasLiteral(c, i, lit) <=> HasLiteral(x, i, lit)
  BY <1>1, <1>2, AlikeLiteral
<1>3. ASSUME NEW d, i + 2 <= Len(c)
      PROVE  HasLiteral(c, i, <<d, Equals>>) <=> HasLiteral(x, i, <<d, Equals>>)
  <2> DEFINE lit == <<d, Equals>>
  <2>1. Len(lit) = 2
    OBVIOUS
  <2> HIDE DEF lit
  <2>2. Len(lit) \in Nat /\ i + Len(lit) <= Len(c)
    BY <1>3, <2>1
  <2>3. HasLiteral(c, i, lit) <=> HasLiteral(x, i, lit)
    BY <1>2, <2>2
  <2> QED BY <2>3 DEF lit
<1>4. ASSUME NEW d, NEW e, i + 3 <= Len(c)
      PROVE  HasLiteral(c, i, <<d, e, Equals>>) <=> HasLiteral(x, i, <<d, e, Equals>>)
  <2> DEFINE lit == <<d, e, Equals>>
  <2>1. Len(lit) = 3
    OBVIOUS
  <2> HIDE DEF lit
  <2>2. Len(lit) \in Nat /\ i + Len(lit) <= Len(c)
    BY <1>4, <2>1
  <2>3. HasLiteral(c, i, lit) <=> HasLiteral(x, i, lit)
    BY <1>2, <2>2
  <2> QED BY <2>3 DEF lit
<1> QED BY <1>3, <1>4

(* A step of the header that asked for nothing when only c had arrived of the    *)
(* buffer is the same step now.                                              *)
LEMMA HeaderLockstep ==
    ASSUME HeaderTypeInv, NEW c \in Seq(Byte), Alike(c, buf, Len(c)), p <= Len(c),
           NEW t, HeaderMoves(c, Locals, t), HeaderMoves(buf, Locals, Locals'),
           t.status # "Truncated"
    PROVE  /\ Locals' = t /\ p' <= Len(c)
           /\ pc' = "body" => bodyEnd' + kTrailer <= Len(c)
<1>0. /\ buf \in Seq(Byte) /\ p \in Nat /\ num \in Nat
      /\ Len(c) \in Nat /\ Len(buf) \in Nat /\ Len(c) <= Len(buf)
      /\ \A l \in 0 .. (Len(c) - 1) : ByteAt(c, l) = ByteAt(buf, l)
  BY DEF HeaderTypeInv, HeaderTypeOK, Alike, UInt32
<1>1. /\ Locals.pc = pc /\ Locals.p = p /\ Locals.valueStart = valueStart /\ Locals.num = num
      /\ Locals.bodyEnd = bodyEnd
      /\ Locals'.pc = pc' /\ Locals'.p = p' /\ Locals'.bodyEnd = bodyEnd'
  BY DEF Locals
<1> DEFINE s == Locals
<1>2. /\ \A v : Returns(s, v).status = v /\ Returns(s, v).pc = "idle" /\ Returns(s, v).p = p
      /\ \A l, n, e : /\ Stores(s, l, n, e).pc = l /\ Stores(s, l, n, e).p = n
                      /\ Stores(s, l, n, e).bodyEnd = e
      /\ \A l, n : Begins(s, l, n).pc = l /\ Begins(s, l, n).p = p + n
  BY <1>1 DEF Returns, Stores, Begins
<1> HIDE DEF s
<1>3. CASE pc = "tag8"
  <2>1. Len(c) >= kMinScan
    BY <1>0, <1>1, <1>2, <1>3 DEF HeaderMoves, kMinScan, s
  <2>2. HasLiteral(c, 0, <<8, Equals>>) <=> HasLiteral(buf, 0, <<8, Equals>>)
    BY <1>0, <2>1, LiteralsTogether DEF kMinScan
  <2>3. CASE ~HasLiteral(c, 0, <<8, Equals>>)
    BY <1>0, <1>1, <1>2, <1>3, <2>1, <2>2, <2>3 DEF HeaderMoves, kMinScan, s
  <2>4. CASE HasLiteral(c, 0, <<8, Equals>>)
    <3>1. PICK j \in 2 .. Len(c) : StopsAt(c, 2, j) /\ j # Len(c)
                                 /\ t = Stores(s, "tag9", j + 1, bodyEnd)
      BY <1>0, <1>1, <1>2, <1>3, <2>1, <2>4 DEF HeaderMoves, kMinScan, s
    <3>2. PICK k \in 2 .. Len(buf) :
             /\ StopsAt(buf, 2, k)
             /\ s' = IF k = Len(buf) THEN Returns(s, "Truncated")
                                     ELSE Stores(s, "tag9", k + 1, bodyEnd)
      BY <1>0, <1>1, <1>3, <2>1, <2>2, <2>4 DEF HeaderMoves, kMinScan, s
    <3>3. k = j /\ k # Len(buf)
      BY <1>0, <3>1, <3>2, StopsTogether
    <3> QED BY <1>0, <1>1, <1>2, <3>1, <3>2, <3>3 DEF s
  <2> QED BY <2>3, <2>4
<1>4. CASE pc = "tag9"
  <2>1. ~ (Len(c) - p < 2)
    BY <1>0, <1>1, <1>2, <1>4 DEF HeaderMoves, s
  <2>2. HasLiteral(c, p, <<9, Equals>>) <=> HasLiteral(buf, p, <<9, Equals>>)
    <3>1. p + 2 <= Len(c)
      BY <1>0, <2>1
    <3> QED BY <1>0, <3>1, LiteralsTogether
  <2>3. t = IF HasLiteral(c, p, <<9, Equals>>) THEN Begins(s, "length", 2)
                                               ELSE Returns(s, "BadHeader")
    BY <1>1, <1>4, <2>1 DEF HeaderMoves, s
  <2>4. s' = t
    BY <1>0, <1>1, <1>4, <2>1, <2>2, <2>3 DEF HeaderMoves, s
  <2> QED BY <1>0, <1>1, <1>2, <2>1, <2>3, <2>4 DEF s
<1>5. CASE pc = "length"
  <2>1. p # Len(c)
    BY <1>0, <1>1, <1>2, <1>5 DEF HeaderMoves, s
  <2>2. p < Len(c) /\ p # Len(buf) /\ ByteAt(c, p) = ByteAt(buf, p)
    BY <1>0, <2>1
  <2>3. Takes(c, s) = Takes(buf, s) /\ Takes(c, s).p <= p + 1 /\ Takes(c, s).pc # "body"
    BY <1>0, <1>1, <1>2, <1>5, <2>2 DEF Takes, s
  <2>4. s' = t
    BY <1>1, <1>5, <2>1, <2>2, <2>3 DEF HeaderMoves, s
  <2>5. t \in {Takes(c, s), Returns(s, "Malformed"), Stores(s, "tag35", p + 1, bodyEnd)}
    BY <1>1, <1>5, <2>1 DEF HeaderMoves, s
  <2>6. s'.p <= p + 1 /\ s'.pc # "body"
    BY <1>0, <1>2, <2>3, <2>4, <2>5
  <2>7. Takes(c, s).p \in Nat
    BY <1>0, <1>1, <1>2 DEF Takes, s
  <2>8. s'.p \in Nat
    BY <1>0, <1>2, <2>4, <2>5, <2>7
  <2> QED BY <1>0, <1>1, <2>2, <2>4, <2>6, <2>8 DEF s
<1>6. CASE pc = "tag35"
  <2>1. Len(c) - p >= num + kTrailer /\ Len(buf) - p >= num + kTrailer
    BY <1>0, <1>1, <1>2, <1>6 DEF HeaderMoves, kTrailer, s
  <2>2. HasLiteral(c, p, <<3, 5, Equals>>) <=> HasLiteral(buf, p, <<3, 5, Equals>>)
    <3>1. p + 3 <= Len(c)
      BY <1>0, <2>1 DEF kTrailer
    <3> QED BY <1>0, <3>1, LiteralsTogether
  <2>3. CASE ~HasLiteral(c, p, <<3, 5, Equals>>)
    BY <1>0, <1>1, <1>2, <1>6, <2>1, <2>2, <2>3 DEF HeaderMoves, s
  <2>4. CASE HasLiteral(c, p, <<3, 5, Equals>>)
    <3>1. PICK j \in (p + 3) .. Len(c) : StopsAt(c, p + 3, j) /\ j # Len(c)
                                       /\ t = Stores(s, "body", j + 1, p + num)
      BY <1>1, <1>2, <1>6, <2>1, <2>4 DEF HeaderMoves, s
    <3>2. PICK k \in (p + 3) .. Len(buf) :
             /\ StopsAt(buf, p + 3, k)
             /\ s' = IF k = Len(buf) THEN Returns(s, "Truncated")
                                     ELSE Stores(s, "body", k + 1, p + num)
      BY <1>1, <1>6, <2>1, <2>2, <2>4 DEF HeaderMoves, s
    <3>3. k = j /\ k # Len(buf)
      <4>1. p + 3 \in Nat
        BY <1>0
      <4> QED BY <1>0, <3>1, <3>2, <4>1, StopsTogether
    <3>4. p + num + kTrailer <= Len(c) /\ j + 1 <= Len(c)
      BY <1>0, <2>1, <3>1 DEF kTrailer
    <3> QED BY <1>1, <1>2, <3>1, <3>2, <3>3, <3>4 DEF s
  <2> QED BY <2>3, <2>4
<1> QED BY <1>1, <1>3, <1>4, <1>5, <1>6 DEF HeaderMoves

(* What the caller passes on is the beginning of the stream.                    *)
StreamInv ==
    /\ stream \in Seq(Byte) /\ Len(stream) <= UINT32_MAX
    /\ buf \in Seq(Byte) /\ Alike(buf, stream, Len(buf))

LEMMA StreamBegins ==
    ASSUME HeaderInit, CallerInit, \A s \in Streams \cup Handed : Len(s) <= UINT32_MAX
    PROVE  StreamInv
<1>1. buf = << >> /\ Len(buf) = 0 /\ buf \in Seq(Byte) /\ stream \in Streams \cup Handed
  BY DEF HeaderInit, CallerInit
<1>2. stream \in Seq(Byte) /\ Len(stream) \in Nat
  BY <1>1, CallerAssumption
<1> QED BY <1>1, <1>2 DEF StreamInv, Alike

LEMMA HandBegins ==
    ASSUME NEW b \in Handed, Hand(b), \A s \in Streams \cup Handed : Len(s) <= UINT32_MAX
    PROVE  StreamInv'
<1>1. b \in Seq(Byte) /\ Len(b) \in Nat /\ Len(b) <= UINT32_MAX /\ buf' = b /\ stream' = b
  BY CallerAssumption DEF Hand, Call
<1> QED BY <1>1 DEF StreamInv, Alike

(* The buffer of the next call begins with that of the call before.             *)
LEMMA OfferExtends ==
    ASSUME StreamInv, Offer
    PROVE  /\ buf' \in Seq(Byte) /\ Alike(buf, buf', Len(buf))
           /\ Alike(buf', stream, Len(buf')) /\ Len(buf') <= UINT32_MAX
           /\ \E b \in Seq(Byte) : Call(b)
<1> DEFINE n == IF Len(buf) + Chunk < Len(stream) THEN Len(buf) + Chunk ELSE Len(stream)
           b == SubSeq(stream, 1, n)
<1>1. /\ stream \in Seq(Byte) /\ Len(stream) \in Nat /\ Len(buf) \in Nat /\ Chunk \in Nat
      /\ Len(buf) < Len(stream) /\ Alike(buf, stream, Len(buf)) /\ Len(stream) <= UINT32_MAX
      /\ UINT32_MAX \in Nat
  BY CallerAssumption, WidthAssumption DEF StreamInv, Offer
<1>2. n \in 0 .. Len(stream) /\ Len(buf) <= n
  BY <1>1
<1>3. Call(b) /\ buf' = b
  BY DEF Offer, Prefix, Call
<1> HIDE DEF n
<1>4. /\ b \in Seq(Byte) /\ Len(b) = n /\ \A x \in 1 .. n : b[x] = stream[x]
  BY <1>1, <1>2
<1> HIDE DEF b
<1>5. \A k \in 0 .. (n - 1) : ByteAt(b, k) = ByteAt(stream, k)
  <2>1. ASSUME NEW k \in 0 .. (n - 1) PROVE ByteAt(b, k) = ByteAt(stream, k)
    <3>1. k + 1 \in 1 .. n
      BY <1>2
    <3> QED BY <1>4, <3>1 DEF ByteAt
  <2> QED BY <2>1
<1>6. Alike(b, stream, Len(b))
  BY <1>1, <1>2, <1>4, <1>5 DEF Alike
<1>7. Alike(buf, b, Len(buf))
  <2>1. \A k \in 0 .. (Len(buf) - 1) : ByteAt(buf, k) = ByteAt(b, k)
    BY <1>1, <1>2, <1>5 DEF Alike
  <2> QED BY <1>1, <1>2, <1>4, <2>1 DEF Alike
<1>8. Len(b) <= UINT32_MAX
  BY <1>1, <1>2, <1>4
<1> QED BY <1>3, <1>4, <1>6, <1>7, <1>8

(* What began with a frame still begins with it, and with no other.             *)
LEMMA SameFrameAgain ==
    ASSUME NEW c \in Seq(Byte), NEW b \in Seq(Byte), Alike(c, b, Len(c)),
           NEW o \in FrameIndices(c), NEW r \in FrameIndices(b)
    PROVE  r = o
<1>1. /\ Whole(b, r) /\ FrameShape(r) /\ Whole(c, o) /\ FrameShape(o)
  BY FrameIsWhole, FrameHasShape
<1>2. o.frame_length \in Nat /\ o.frame_length <= Len(c)
  BY <1>1, WholeExtent
<1>3. Alike(c, b, o.frame_length)
  BY <1>2 DEF Alike
<1>4. Whole(b, o)
  BY <1>1, <1>3, AlikeFrame
<1> QED BY <1>1, <1>4, FrameIsUnique

-----------------------------------------------------------------------------
(* Refinement of the scanner contract: which steps of a scan are which steps   *)
(* of the contract.  The contract is stated with its own instance of FixFrame. *)
LEMMA ContractExact ==
    ASSUME NEW b, NEW o, ExactIndex(b, o)
    PROVE  Contract!ExactIndex(b, o)
<1>1. Contract!NumbersMatch(b, o) = NumbersMatch(b, o)
  BY DEF Contract!NumbersMatch, NumbersMatch, Contract!Decimal, Decimal, Contract!Numeral,
     Numeral, Contract!IsDigit, IsDigit, Contract!Digit, Digit, Contract!ByteAt, ByteAt
<1>2. Contract!DelimitsFrame(b, o) = DelimitsFrame(b, o)
  BY DEF Contract!DelimitsFrame, DelimitsFrame, Contract!Tiles, Tiles,
     Contract!WellFormedField, WellFormedField, Contract!CanonicalOrder, CanonicalOrder,
     Contract!LengthAgrees, LengthAgrees, Contract!ThreeDigitChecksum, ThreeDigitChecksum,
     Contract!IsDigit, IsDigit, Contract!Digit, Digit, Contract!ByteAt, ByteAt,
     Contract!Soh, Soh, Contract!Equals, Equals
<1> QED BY <1>1, <1>2 DEF Contract!ExactIndex, ExactIndex

LEMMA ContractNoIndex == Contract!NoIndex = NoIndex
BY DEF Contract!NoIndex, NoIndex, Contract!Readable, Readable, Contract!NewIndex, NewIndex,
   Contract!Entry, Entry, Contract!U32, U32

LEMMA InitIsContractInit == HeaderInit => Contract!Init
BY ContractNoIndex DEF HeaderInit, Contract!Init, Finished

(* Entering scan().                                                           *)
LEMMA CallIsBegin ==
    ASSUME NEW b \in Seq(Byte), Call(b)
    PROVE  Contract!Begin
<1>1. Contract!Byte = Byte
  BY DEF Contract!Byte, Byte
<1> QED
  BY <1>1, ContractNoIndex DEF Call, Contract!Begin, Finished

(* Returning Ok with an exact index: what the caller may read of it is exact.  *)
LEMMA OkIsAccept ==
    ASSUME pc # "idle", pc' = "idle", status' = "Ok", buf' = buf,
           out' \in FieldIndex, ExactIndex(buf, out')
    PROVE  Contract!Accept
<1>1. Contract!ExactIndex(buf, Readable(out'))
  BY ReadableExact, ContractExact
<1> QED
  BY <1>1 DEF Contract!Accept, Finished

(* Returning anything else.                                                   *)
LEMMA VerdictIsRefuse ==
    ASSUME pc # "idle", pc' = "idle", status' \in Verdict \ {"Ok"}, buf' = buf
    PROVE  Contract!Refuse
<1>1. Contract!Verdict = Verdict
  BY DEF Contract!Verdict, Verdict
<1> QED
  BY <1>1, ContractNoIndex DEF Contract!Refuse, Finished

(* The steps inside the call are hidden from its caller.                       *)
LEMMA InsideIsHidden ==
    ASSUME pc # "idle", pc' # "idle", status' = status, buf' = buf
    PROVE  UNCHANGED Contract!vars
BY DEF Contract!vars, Finished

LEMMA StutterIsHidden ==
    ASSUME UNCHANGED vars
    PROVE  UNCHANGED Contract!vars
BY DEF vars, Contract!vars, Finished, Readable

(* A statement of scan() is a step of the contract when Ok comes with an exact *)
(* index and a call that goes on has no verdict.                             *)
LEMMA StatementIsContractStep ==
    ASSUME pc # "idle", buf' = buf,
           IF pc' = "idle" THEN status' \in Verdict ELSE status' = status,
           out' \in FieldIndex, OkIsExact'
    PROVE  [Contract!Next]_(Contract!vars)
<1>1. CASE pc' # "idle"
  BY <1>1, InsideIsHidden
<1>2. CASE pc' = "idle" /\ status' # "Ok"
  BY <1>2, VerdictIsRefuse DEF Contract!Next
<1>3. CASE pc' = "idle" /\ status' = "Ok"
  <2>1. ExactIndex(buf, out')
    BY <1>3 DEF OkIsExact, Finished
  <2> QED BY <1>3, <2>1, OkIsAccept DEF Contract!Next
<1> QED BY <1>1, <1>2, <1>3
=============================================================================
