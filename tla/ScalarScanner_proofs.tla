------------------------ MODULE ScalarScanner_proofs ------------------------
(***************************************************************************)
(* Theorems about the scalar scanner, for every set of buffers, every width  *)
(* of its integers and every capacity of the field table.                   *)
(***************************************************************************)
EXTENDS ScalarCaller, FixHeader_proofs

(* What the scanner's lemmas are about: a call on any buffer, whoever makes it,   *)
(* or a statement of scan().                                                *)
Statement == (\E b \in Seq(Byte) : Call(b)) \/ ScanStep

LEMMA NextIsStatement == Next => Statement
BY BuffersAssumption DEF Next, Statement

(* The body loop has checked the table before it begins a field; the store   *)
(* after the field was read relies on it.                                   *)
RoomForField == pc \in {"tag", "value"} /\ ~AtTrailer => ~TableIsFull(out)

TypeInv == HeaderTypeInv /\ pc \in Label /\ RoomForField

LEMMA TypeInvInit == Init => TypeInv
BY HeaderInitType DEF Init, HeaderInit, TypeInv, RoomForField, Label

(* Storing a body field.                                                    *)
LEMMA StoreType ==
    ASSUME HeaderTypeInv, NEW j \in Nat, ~TableIsFull(out)
    PROVE  /\ Entry(tagStart, valueStart, j, num) \in FieldEntry
           /\ Push(out, Entry(tagStart, valueStart, j, num)) \in FieldIndex
<1>1. Entry(tagStart, valueStart, j, num) \in FieldEntry
  BY EntryType DEF HeaderTypeInv, HeaderTypeOK
<1> QED
  BY <1>1, PushIndex DEF HeaderTypeInv, HeaderTypeOK

LEMMA TypeInvStep ==
    ASSUME TypeInv, Statement
    PROVE  TypeInv'
<1> USE DEF TypeInv
<1>0. /\ \A v \in {"Truncated", "BadHeader", "Malformed", "BadBodyLength",
                   "TableFull", "FallbackRequested", "Ok"} : v \in Verdict
      /\ \A v \in Verdict : Return(v) => TypeInv'
  <2>1. \A v \in Verdict : Return(v) => HeaderTypeInv' /\ pc' = "idle"
    BY ReturnType DEF Return
  <2> QED
    BY <2>1 DEF Verdict, RoomForField, Label
<1>1. ASSUME NEW b \in Seq(Byte), Call(b)
      PROVE  TypeInv'
  BY <1>1, CallType DEF Call, RoomForField, Label
<1>2. CASE HeaderStep
  <2>1. HeaderTypeInv'
    BY <1>2, HeaderStepType
  <2>2. pc' \in {"idle", "tag9", "length", "tag35", "body"}
    BY <1>2 DEF HeaderStep, ScanBeginString, ScanBodyLengthTag, BodyLengthDigit,
       BodyLengthEnd, ScanMsgType, Return, Advance, BeginNumber, TakeDigit
  <2> QED
    BY <2>1, <2>2 DEF RoomForField, Label
<1>3. CASE NextField
  <2>1. CASE \E v \in {"TableFull", "BadBodyLength"} : Return(v)
    BY <2>1, <1>0
  <2>2. CASE BeginNumber("tag", 0) /\ (p = bodyEnd \/ ~TableIsFull(out))
    <3>1. HeaderTypeInv'
      BY <2>2, BeginNumberType DEF HeaderTypeInv, HeaderTypeOK
    <3>2. tagStart' = p /\ bodyEnd' = bodyEnd /\ out' = out /\ pc' = "tag"
      BY <2>2 DEF BeginNumber
    <3> QED
      BY <2>2, <3>1, <3>2 DEF RoomForField, AtTrailer, TableIsFull, Label
  <2> QED
    BY <1>3, <2>1, <2>2 DEF NextField
<1>4. CASE TagDigit
  <2>1. CASE Return("Malformed")
    BY <2>1, <1>0
  <2>2. CASE ~Return("Malformed")
    <3>1. UNCHANGED <<out, pc, tagStart, bodyEnd>>
      BY <1>4, <2>2 DEF TagDigit, TakeDigit
    <3>2. HeaderTypeInv'
      BY <1>4, TakeDigitType DEF TagDigit
    <3> QED
      BY <3>1, <3>2 DEF RoomForField, AtTrailer, TableIsFull
  <2> QED
    BY <2>1, <2>2
<1>5. CASE TagEnd
  <2>1. CASE \E v \in {"Truncated", "Malformed"} : Return(v)
    BY <2>1, <1>0
  <2>2. CASE ~ \E v \in {"Truncated", "Malformed"} : Return(v)
    <3>1. /\ pc = "tag" /\ p < Len(buf)
          /\ pc' = "value" /\ p' = p + 1 /\ valueStart' = p + 1
          /\ UNCHANGED <<buf, out, status, tagStart, num, bodyEnd>>
      BY <1>5, <2>2 DEF TagEnd
    <3>2. p' \in 0 .. Len(buf) /\ valueStart' \in 0 .. Len(buf)
      BY <3>1 DEF HeaderTypeInv, HeaderTypeOK
    <3>3. HeaderTypeInv'
      BY <3>1, <3>2 DEF HeaderTypeInv, HeaderTypeOK, HeaderCount
    <3> QED
      BY <3>1, <3>3 DEF RoomForField, AtTrailer, TableIsFull, Label
  <2> QED
    BY <2>1, <2>2
<1>6. CASE ScanBodyValue
  <2>1. CASE \E v \in {"Truncated", "FallbackRequested"} : Return(v)
    BY <2>1, <1>0
  <2>2. CASE ~ \E v \in {"Truncated", "FallbackRequested"} : Return(v)
    <3>1. PICK j \in p .. Len(buf) :
             /\ j # Len(buf)
             /\ Advance("body", j + 1, Push(out, Entry(tagStart, valueStart, j, num)))
             /\ UNCHANGED bodyEnd
      BY <1>6, <2>2 DEF ScanBodyValue
    <3>2. j \in Nat /\ p' \in 0 .. Len(buf)
      BY <3>1 DEF Advance, HeaderTypeInv, HeaderTypeOK
    <3>3. ~TableIsFull(out)
      BY <1>6 DEF ScanBodyValue, RoomForField
    <3>4. out' \in FieldIndex
      BY <3>1, <3>2, <3>3, StoreType DEF Advance
    <3>5. HeaderTypeInv'
      BY <3>1, <3>2, <3>4 DEF Advance, HeaderTypeInv, HeaderTypeOK, HeaderCount
    <3> QED
      BY <3>1, <3>5 DEF Advance, RoomForField, Label
  <2> QED
    BY <2>1, <2>2
<1>7. CASE ScanTrailerValue
  <2>1. CASE \E v \in Verdict : Return(v)
    BY <2>1, <1>0
  <2>2. CASE ~ \E v \in Verdict : Return(v)
    <3>1. PICK j \in p .. Len(buf) :
             /\ j # Len(buf)
             /\ TrailerVerdict(j) = "Ok"
             /\ out' = PushCheckSum(out, Entry(tagStart, valueStart, j, num))
             /\ status' = "Ok" /\ pc' = "idle" /\ p' = j + 1
             /\ UNCHANGED <<buf, tagStart, valueStart, num, bodyEnd>>
      <4>1. \A j : TrailerVerdict(j) \in Verdict
        BY DEF TrailerVerdict, Verdict
      <4> QED
        BY <1>7, <2>2, <1>0, <4>1 DEF ScanTrailerValue
    <3>2. j \in Nat /\ p' \in 0 .. Len(buf)
      BY <3>1 DEF HeaderTypeInv, HeaderTypeOK
    <3>3. ~TableIsFull(out)
      BY <3>1 DEF TrailerVerdict
    <3>4. Entry(tagStart, valueStart, j, num) \in FieldEntry
      BY <3>2, <3>3, StoreType
    <3>5. out \in FieldIndex
      BY DEF HeaderTypeInv, HeaderTypeOK
    <3>6. out' \in FieldIndex
      BY <3>1, <3>3, <3>4, <3>5, PushCheckSumAppends DEF Appends
    <3>7. HeaderTypeInv'
      BY <3>1, <3>2, <3>6, <1>0 DEF HeaderTypeInv, HeaderTypeOK, HeaderCount
    <3> QED
      BY <3>1, <3>7 DEF RoomForField, Label
  <2> QED
    BY <2>1, <2>2
<1> QED
  BY <1>1, <1>2, <1>3, <1>4, <1>5, <1>6, <1>7 DEF Statement, ScanStep

LEMMA TypeInvStutter ==
    ASSUME TypeInv, UNCHANGED vars
    PROVE  TypeInv'
BY DEF TypeInv, HeaderTypeInv, HeaderTypeOK, HeaderCount, RoomForField, AtTrailer,
       TableIsFull, vars

LEMMA TypeInvariance == Spec => []TypeInv
<1>1. TypeInv /\ [Next]_vars => TypeInv'
  BY TypeInvStep, TypeInvStutter, NextIsStatement
<1> QED
  BY <1>1, TypeInvInit, PTL DEF Spec

(* The cursor stays inside the buffer and the field count inside the table,  *)
(* whatever bytes arrive.                                                   *)
THEOREM TypeCorrect == Spec => []TypeOK
<1>1. TypeInv => TypeOK
  BY DEF TypeInv, HeaderTypeInv, TypeOK
<1> QED
  BY <1>1, TypeInvariance, PTL

-----------------------------------------------------------------------------
(* No decimal number the scanner reads, body length or tag, ever wraps        *)
(* around its unsigned accumulator.                                         *)
THEOREM NumbersNeverWrap == Spec => NumberNeverWraps
<1>1. ASSUME TypeInv, [Next]_vars, pc \in {"length", "tag"}, pc' = pc, p' = p + 1
      PROVE  num' = num * 10 + ByteAt(buf, p)
  <2>0. p # p + 1 /\ num \in UInt32
    BY <1>1 DEF TypeInv, HeaderTypeInv, HeaderTypeOK
  <2>1. TakeDigit /\ ~Return("Malformed")
    <3>1. ~UNCHANGED vars
      BY <1>1, <2>0 DEF vars
    <3>2. ASSUME NEW v, Return(v) PROVE FALSE
      BY <1>1, <3>2 DEF Return
    <3>3. BodyLengthDigit \/ TagDigit
      BY <1>1, <3>1, <3>2 DEF Next, Call, ScanStep, HeaderStep, ScanBeginString,
         ScanBodyLengthTag, BodyLengthEnd, ScanMsgType, NextField, TagEnd,
         ScanBodyValue, ScanTrailerValue, Advance, BeginNumber
    <3> QED
      BY <3>2, <3>3 DEF BodyLengthDigit, TagDigit
  <2>2. /\ ByteAt(buf, p) \in Digit
        /\ ~Saturated(num)
        /\ num' = Accumulate(num, ByteAt(buf, p))
    BY <2>1 DEF TakeDigit, IsDigit
  <2> QED
    BY <2>0, <2>2, AccumulateFits
<1> QED
  BY <1>1, TypeInvariance, PTL DEF Spec, NumberNeverWraps

-----------------------------------------------------------------------------
(* How a statement of scan() looks to its caller: either the call goes on, or *)
(* it ends with a verdict.                                                  *)
LEMMA StepOutcome ==
    ASSUME ScanStep
    PROVE  /\ pc # "idle" /\ buf' = buf
           /\ IF pc' = "idle" THEN status' \in Verdict ELSE status' = status
<1>1. CASE HeaderStep
  BY <1>1, HeaderStepFrame
<1>2. \A v \in {"Truncated", "Malformed", "BadBodyLength", "FallbackRequested", "TableFull",
              "Ok"} : v \in Verdict
  BY DEF Verdict
<1>3. \A j : TrailerVerdict(j) \in Verdict
  BY <1>2 DEF TrailerVerdict
<1>4. CASE NextField \/ TagDigit \/ TagEnd
  BY <1>2, <1>4 DEF NextField, TagDigit, TagEnd, TakeDigit, BeginNumber, Return
<1>5. CASE ScanBodyValue \/ ScanTrailerValue
  BY <1>2, <1>3, <1>5 DEF ScanBodyValue, ScanTrailerValue, Advance, Return
<1> QED
  BY <1>1, <1>4, <1>5 DEF ScanStep

-----------------------------------------------------------------------------
(* Soundness of Ok.  The invariant says, statement by statement, what the    *)
(* scanner has established of the bytes before the cursor.                  *)

ReadingTag ==
    /\ BodyReached(buf, out, tagStart, bodyEnd)
    /\ tagStart <= p
    /\ \A k \in tagStart .. (p - 1) : IsDigit(ByteAt(buf, k))
    /\ NumberRead(num, buf, tagStart, p)

ReadingValue ==
    /\ BodyReached(buf, out, tagStart, bodyEnd)
    /\ tagStart < p - 1
    /\ valueStart = p
    /\ \A k \in tagStart .. (p - 2) : IsDigit(ByteAt(buf, k))
    /\ ByteAt(buf, p - 1) = Equals
    /\ num # 0
    /\ NumberRead(num, buf, tagStart, p - 1)

SoundInv ==
    /\ Len(buf) <= UINT32_MAX
    /\ HeaderSound
    /\ pc = "tag" => ReadingTag
    /\ pc = "value" => ReadingValue
    /\ OkIsExact

LEMMA SoundInit == Init => SoundInv
<1>1. Init => Len(buf) <= UINT32_MAX
  BY WidthAssumption DEF Init, HeaderInit
<1> QED
  BY <1>1 DEF Init, HeaderInit, SoundInv, HeaderSound, OkIsExact, Finished

LEMMA NextFieldSound ==
    ASSUME TypeInv, SoundInv, NextField
    PROVE  SoundInv'
<1>1. CASE pc' = "idle"
  <2>1. status' # "Ok" /\ buf' = buf
    BY <1>1 DEF NextField, Return, BeginNumber
  <2> QED
    BY <1>1, <2>1 DEF SoundInv, HeaderSound, OkIsExact, Finished
<1>2. CASE pc' # "idle"
  <2>1. BeginNumber("tag", 0) /\ pc = "body"
    BY <1>2 DEF NextField, Return
  <2>2. p \in Nat
    BY DEF TypeInv, HeaderTypeInv, HeaderTypeOK
  <2>3. BodyReached(buf, out, p, bodyEnd)
    BY <2>1 DEF SoundInv, HeaderSound
  <2>4. /\ pc' = "tag" /\ tagStart' = p /\ p' = p
        /\ buf' = buf /\ out' = out /\ bodyEnd' = bodyEnd
    BY <2>1, <2>2 DEF BeginNumber
  <2>5. ReadingTag'
    <3>1. NumberRead(num', buf', tagStart', p')
      BY <2>1, <2>2, <2>4, NothingRead DEF BeginNumber
    <3> QED BY <2>2, <2>3, <2>4, <3>1 DEF ReadingTag
  <2> QED
    BY <2>4, <2>5 DEF SoundInv, HeaderSound, OkIsExact, Finished
<1> QED
  BY <1>1, <1>2

LEMMA TagDigitSound ==
    ASSUME TypeInv, SoundInv, TagDigit
    PROVE  SoundInv'
<1>1. CASE Return("Malformed")
  BY <1>1 DEF Return, SoundInv, HeaderSound, OkIsExact, Finished
<1>2. CASE ~Return("Malformed")
  <2>1. /\ pc = "tag" /\ pc' = "tag" /\ p' = p + 1 /\ IsDigit(ByteAt(buf, p))
        /\ UNCHANGED <<buf, out, tagStart, bodyEnd>>
        /\ p < Len(buf) /\ TakeDigit
    BY <1>2 DEF TagDigit, TakeDigit
  <2>2. p \in Nat /\ tagStart \in Nat
    BY DEF TypeInv, HeaderTypeInv, HeaderTypeOK
  <2>3. ReadingTag
    BY <2>1 DEF SoundInv
  <2>4. \A k \in tagStart .. p : k = p \/ k \in tagStart .. (p - 1)
    BY <2>2
  <2>5. NumberRead(num', buf', tagStart', p')
    BY <2>1, <2>2, <2>3, TakeDigitDecimal DEF ReadingTag, TypeInv
  <2>6. ReadingTag'
    BY <2>1, <2>2, <2>3, <2>4, <2>5 DEF ReadingTag
  <2> QED
    BY <2>1, <2>6 DEF SoundInv, HeaderSound, OkIsExact, Finished
<1> QED
  BY <1>1, <1>2

LEMMA TagEndSound ==
    ASSUME TypeInv, SoundInv, TagEnd
    PROVE  SoundInv'
<1>1. CASE \E v \in {"Truncated", "Malformed"} : Return(v)
  BY <1>1 DEF Return, SoundInv, HeaderSound, OkIsExact, Finished
<1>2. CASE ~ \E v \in {"Truncated", "Malformed"} : Return(v)
  <2>1. /\ pc = "tag" /\ ByteAt(buf, p) = Equals /\ p # tagStart /\ num # 0
        /\ pc' = "value" /\ p' = p + 1 /\ valueStart' = p + 1
        /\ UNCHANGED <<buf, out, tagStart, num, bodyEnd>>
    BY <1>2 DEF TagEnd
  <2>2. p \in Nat /\ tagStart \in Nat
    BY DEF TypeInv, HeaderTypeInv, HeaderTypeOK
  <2>3. ReadingTag
    BY <2>1 DEF SoundInv
  <2>4. p' - 1 = p /\ p' - 2 = p - 1 /\ tagStart < p
    BY <2>1, <2>2, <2>3 DEF ReadingTag
  <2>5. ReadingValue'
    BY <2>1, <2>3, <2>4 DEF ReadingTag, ReadingValue
  <2> QED
    BY <2>1, <2>5 DEF SoundInv, HeaderSound, OkIsExact, Finished
<1> QED
  BY <1>1, <1>2

(* The field whose value ends at j, as an entry.                            *)
LEMMA ValueRead ==
    ASSUME TypeInv, SoundInv, pc = "value",
           NEW j \in p .. Len(buf), j # Len(buf), StopsAt(buf, p, j)
    PROVE  LET e == Entry(tagStart, valueStart, j, num)
           IN  /\ e \in FieldEntry
               /\ e.tag_start = tagStart /\ e.value_start = valueStart
               /\ e.value_end = j /\ e.tag_number = num
               /\ WellFormedField(buf, e) /\ TagRead(buf, e)
               /\ Stored(buf, out, e.tag_start)
               /\ j \in Nat /\ j < Len(buf)
<1>1. /\ buf \in Seq(Byte) /\ Len(buf) <= UINT32_MAX
      /\ tagStart \in Nat /\ p \in Nat /\ num \in UInt32
      /\ j \in Nat /\ j < Len(buf) /\ p <= j
  BY DEF TypeInv, HeaderTypeInv, HeaderTypeOK, SoundInv
<1>2. ReadingValue
  BY DEF SoundInv
<1>3. ByteAt(buf, j) = Soh /\ \A k \in p .. (j - 1) : ByteAt(buf, k) # Soh
  BY <1>1 DEF StopsAt
<1> DEFINE e == Entry(tagStart, p, j, num)
<1>4. /\ e \in FieldEntry
      /\ e.tag_start = tagStart /\ e.value_start = p /\ e.value_end = j
      /\ e.tag_number = num
      /\ WellFormedField(buf, e) /\ TagRead(buf, e)
  BY <1>1, <1>2, <1>3, FieldRead DEF ReadingValue
<1> QED
  BY <1>1, <1>2, <1>4 DEF ReadingValue, BodyReached

LEMMA BodyValueSound ==
    ASSUME TypeInv, SoundInv, ScanBodyValue
    PROVE  SoundInv'
<1>1. CASE \E v \in {"Truncated", "FallbackRequested"} : Return(v)
  BY <1>1 DEF Return, SoundInv, HeaderSound, OkIsExact, Finished
<1>2. CASE ~ \E v \in {"Truncated", "FallbackRequested"} : Return(v)
  <2> DEFINE e(j) == Entry(tagStart, valueStart, j, num)
  <2>1. PICK j \in p .. Len(buf) :
           /\ StopsAt(buf, p, j) /\ j # Len(buf)
           /\ num \notin {95, 96}
           /\ Advance("body", j + 1, Push(out, e(j)))
           /\ UNCHANGED bodyEnd
    BY <1>2 DEF ScanBodyValue, NeedsFallback
  <2>2. pc = "value" /\ ~TableIsFull(out) /\ out \in FieldIndex
    BY DEF ScanBodyValue, TypeInv, RoomForField, HeaderTypeInv, HeaderTypeOK
  <2>3. ReadingValue
    BY <2>2 DEF SoundInv
  <2>4. /\ e(j) \in FieldEntry /\ e(j).tag_start = tagStart
        /\ e(j).value_end = j /\ e(j).tag_number = num
        /\ WellFormedField(buf, e(j)) /\ TagRead(buf, e(j))
        /\ Stored(buf, out, e(j).tag_start)
    BY <2>1, <2>2, ValueRead
  <2>5. out' = Push(out, e(j)) /\ p' = j + 1 /\ pc' = "body" /\ UNCHANGED <<buf, bodyEnd>>
    BY <2>1 DEF Advance
  <2>6. BodyReached(buf, out', j + 1, bodyEnd)
    <3>1. BodyReached(buf, out, e(j).tag_start, bodyEnd) /\ num # 0
      BY <2>3, <2>4 DEF ReadingValue
    <3> HIDE DEF e
    <3> QED BY <2>1, <2>2, <2>4, <2>5, <3>1, BodyExtends
  <2> QED
    BY <2>5, <2>6 DEF SoundInv, HeaderSound, OkIsExact, Finished
<1> QED
  BY <1>1, <1>2

(* In a buffer of at most UINT32_MAX bytes the entry of the trailer has the      *)
(* offsets of the cursor.                                                   *)
LEMMA TrailerOffsets ==
    ASSUME TypeInv, SoundInv, pc = "value", NEW j \in p .. Len(buf)
    PROVE  TrailerVerdict(j) =
             IF num # 10 THEN "BadBodyLength"
             ELSE IF \/ j - valueStart # 3
                     \/ \E k \in valueStart .. (valueStart + 2) : ~IsDigit(ByteAt(buf, k))
                  THEN "Malformed"
             ELSE IF TableIsFull(out) THEN "TableFull"
             ELSE "Ok"
<1> DEFINE e == Entry(tagStart, valueStart, j, num)
<1>1. /\ p \in Nat /\ Len(buf) \in Nat /\ Len(buf) <= UINT32_MAX /\ valueStart = p
  BY DEF TypeInv, HeaderTypeInv, HeaderTypeOK, SoundInv, ReadingValue
<1>2. /\ j \in Nat /\ j <= UINT32_MAX /\ valueStart \in Nat /\ valueStart <= j
  BY <1>1, WidthAssumption
<1>3. U32(j) = j /\ U32(valueStart) = valueStart /\ U32(j - valueStart) = j - valueStart
  <2>1. j - valueStart \in Nat /\ j - valueStart <= UINT32_MAX /\ valueStart <= UINT32_MAX
    BY <1>2, WidthAssumption
  <2> QED BY <1>2, <2>1, U32Fits
<1>4. e.tag_number = num /\ e.value_start = valueStart /\ e.value_end = j
  BY <1>3 DEF Entry
<1> HIDE DEF e
<1> QED BY <1>3, <1>4 DEF TrailerVerdict, e

LEMMA TrailerSound ==
    ASSUME TypeInv, SoundInv, ScanTrailerValue
    PROVE  SoundInv'
<1>1. CASE \E v \in Verdict \ {"Ok"} : Return(v)
  BY <1>1 DEF Return, SoundInv, HeaderSound, OkIsExact, Finished
<1>2. CASE ~ \E v \in Verdict \ {"Ok"} : Return(v)
  <2> DEFINE e(j) == Entry(tagStart, valueStart, j, num)
  <2>1. PICK j \in p .. Len(buf) :
           /\ StopsAt(buf, p, j) /\ j # Len(buf)
           /\ TrailerVerdict(j) = "Ok"
           /\ out' = PushCheckSum(out, e(j))
           /\ pc' = "idle"
           /\ buf' = buf
    <3>1. \A j : TrailerVerdict(j) \in Verdict
      BY DEF TrailerVerdict, Verdict
    <3> QED
      BY <1>2, <3>1 DEF ScanTrailerValue, Verdict
  <2>2. /\ pc = "value" /\ tagStart = bodyEnd
        /\ out \in FieldIndex /\ ~TableIsFull(out)
    BY <2>1 DEF ScanTrailerValue, AtTrailer, TrailerVerdict, TypeInv, HeaderTypeInv,
                HeaderTypeOK
  <2>3. ReadingValue
    BY <2>2 DEF SoundInv
  <2>4. /\ e(j) \in FieldEntry
        /\ e(j).tag_start = tagStart /\ e(j).value_start = valueStart
        /\ e(j).value_end = j /\ e(j).tag_number = num
        /\ WellFormedField(buf, e(j)) /\ TagRead(buf, e(j))
        /\ Stored(buf, out, e(j).tag_start)
        /\ j \in Nat /\ j < Len(buf)
    BY <2>1, <2>2, ValueRead
  <2>5. j = valueStart + 3 /\ num = 10
        /\ \A k \in valueStart .. (valueStart + 2) : IsDigit(ByteAt(buf, k))
    <3>1. j \in p .. Len(buf) /\ TrailerVerdict(j) = "Ok"
      BY <2>1
    <3> HIDE DEF e
    <3> QED BY <2>2, <3>1, TrailerOffsets DEF TypeInv, HeaderTypeInv, HeaderTypeOK
  <2>6. ExactIndex(buf, out') /\ Readable(out') \in FrameIndices(buf)
    <3>1. BodyReached(buf, out, e(j).tag_start, e(j).tag_start)
      BY <2>2, <2>3, <2>4 DEF ReadingValue
    <3>2. buf \in Seq(Byte) /\ Len(buf) <= UINT32_MAX
      BY DEF TypeInv, HeaderTypeInv, HeaderTypeOK, SoundInv
    <3> HIDE DEF e
    <3> QED BY <2>1, <2>2, <2>4, <2>5, <3>1, <3>2, TrailerCompletes
  <2> QED
    BY <2>1, <2>6 DEF SoundInv, HeaderSound, OkIsExact
<1> QED
  BY <1>1, <1>2

LEMMA SoundStep ==
    ASSUME TypeInv, SoundInv, [Statement]_vars, Len(buf') <= UINT32_MAX
    PROVE  SoundInv'
<1>1. ASSUME NEW b \in Seq(Byte), Call(b)
      PROVE  SoundInv'
  <2>1. out' \in FieldIndex /\ out'.field_count = 0
    BY <1>1, ResetIndex DEF Call, TypeInv, HeaderTypeInv, HeaderTypeOK
  <2>2. Stored(b, out', 0)
    BY <2>1 DEF Stored
  <2> QED
    BY <1>1, <2>2 DEF Call, SoundInv, HeaderSound, OkIsExact, Finished
<1>2. CASE HeaderStep
  <2>1. HeaderSound'
    BY <1>2, HeaderStepSound DEF TypeInv, SoundInv
  <2> QED
    BY <1>2, <2>1, HeaderStepFrame DEF SoundInv, OkIsExact, Finished
<1>3. CASE UNCHANGED vars
  BY <1>3 DEF vars, SoundInv, HeaderSound, ReadingLength, ReadingTag, ReadingValue,
     OkIsExact, Finished
<1> QED
  BY <1>1, <1>2, <1>3, NextFieldSound, TagDigitSound, TagEndSound, BodyValueSound,
     TrailerSound DEF Statement, ScanStep

LEMMA SoundInvariance ==
    ASSUME \A b \in Buffers : Len(b) <= UINT32_MAX
    PROVE  Spec => []SoundInv
<1>1. TypeInv /\ SoundInv /\ [Next]_vars => SoundInv'
  <2>1. TypeInv /\ SoundInv /\ [Next]_vars => Len(buf') <= UINT32_MAX
    BY StepOutcome DEF Next, Call, SoundInv, vars
  <2> QED BY <2>1, SoundStep, NextIsStatement
<1> QED
  BY <1>1, SoundInit, TypeInvariance, PTL DEF Spec

(* Every Ok the scalar scanner returns delimits a well-formed frame, provided *)
(* the caller's buffers are no longer than 32-bit offsets can describe; the  *)
(* code states that limit and does not check it.                            *)
THEOREM OkIsSound ==
    ASSUME \A b \in Buffers : Len(b) <= UINT32_MAX
    PROVE  Spec => []OkDelimitsFrame
<1>1. SoundInv => OkDelimitsFrame
  BY DEF SoundInv, OkIsExact, OkDelimitsFrame, ExactIndex
<1> QED
  BY <1>1, SoundInvariance, PTL

-----------------------------------------------------------------------------
(* The scalar scanner keeps the contract of scanner.hpp: whatever a call does  *)
(* inside, its caller sees one verdict, and with Ok an exact index.           *)
THEOREM ScalarImplementsContract ==
    ASSUME \A b \in Buffers : Len(b) <= UINT32_MAX
    PROVE  Spec => ImplementsContract
<1>1. Init => Contract!Init
  BY InitIsContractInit DEF Init
<1>2. ASSUME TypeInv, TypeInv', SoundInv', [Next]_vars
      PROVE  [Contract!Next]_(Contract!vars)
  <2>1. CASE \E b \in Buffers : Call(b)
    <3>1. PICK b \in Buffers : Call(b)
      BY <2>1
    <3> QED BY <3>1, CallIsBegin, BuffersAssumption DEF Contract!Next
  <2>2. CASE ScanStep
    <3>1. OkIsExact' /\ out' \in FieldIndex
      BY <1>2 DEF SoundInv, TypeInv, HeaderTypeInv, HeaderTypeOK
    <3> QED BY <2>2, <3>1, StepOutcome, StatementIsContractStep
  <2>3. CASE UNCHANGED vars
    BY <2>3, StutterIsHidden
  <2> QED BY <1>2, <2>1, <2>2, <2>3 DEF Next
<1> QED
  BY <1>1, <1>2, TypeInvariance, SoundInvariance, PTL
  DEF Spec, ImplementsContract, Contract!Spec

-----------------------------------------------------------------------------
(* Completeness.  While the frame o arrives, the scanner stands at the field of  *)
(* o whose number is its field count.                                        *)
Follows(o) ==
    LET e == o.fields[out.field_count]
    IN  /\ HeaderFollows(o)
        /\ pc = "tag" => Arrives(o, tagStart) /\ p <= e.value_start - 1
        /\ pc = "value" => /\ Arrives(o, tagStart)
                           /\ p = e.value_start
                           /\ num = e.tag_number

LEMMA StillFollows ==
    ASSUME TypeInv, NEW x, NEW o, Ahead(x, o), Len(buf) < o.frame_length, Return("Truncated")
    PROVE  Follows(o)'
BY AsksForMore DEF Follows, TypeInv

LEMMA StillHandsOver ==
    ASSUME NEW o, Deferred(o), NEW v \in {"FallbackRequested", "TableFull"}, Return(v)
    PROVE  Follows(o)'
BY HandsOver DEF Follows

LEMMA NextFieldFollows ==
    ASSUME TypeInv, NEW x, NEW o, Ahead(x, o), Follows(o), NextField
    PROVE  Follows(o)'
<1> DEFINE e == o.fields[out.field_count]
<1>1. pc = "body" /\ Arrives(o, p)
  BY DEF NextField, Follows, HeaderFollows
<1>2. /\ p = e.tag_start /\ e.tag_start \in Nat /\ e.value_start \in Nat
      /\ WellFormedField(x, e) /\ p <= bodyEnd /\ bodyEnd \in Nat
      /\ ~Deferred(o) => ~TableIsFull(out)
  BY <1>1, ArrivedAt DEF TypeInv
<1> HIDE DEF e
<1>0. CASE ~BeginNumber("tag", 0)
  <2>1. TableIsFull(out) /\ Return("TableFull")
    BY <1>0, <1>2 DEF NextField
  <2> QED BY <1>2, <2>1, StillHandsOver
<1>3. CASE BeginNumber("tag", 0)
  <2>4. /\ pc' = "tag" /\ tagStart' = p /\ p' = p
        /\ out' = out /\ bodyEnd' = bodyEnd
    BY <1>2, <1>3 DEF BeginNumber
  <2>5. p <= e.value_start - 1
    BY <1>2 DEF WellFormedField
  <2> QED BY <1>1, <2>4, <2>5 DEF Follows, HeaderFollows, Arrives, Finished, e
<1> QED BY <1>0, <1>3

(* What the scanner of a tag knows of the field it is in.                     *)
LEMMA InTag ==
    ASSUME TypeInv, SoundInv, NEW x, NEW o, Ahead(x, o), Follows(o), pc = "tag"
    PROVE  LET e == o.fields[out.field_count]
           IN  /\ Arrives(o, tagStart) /\ tagStart = e.tag_start
               /\ e.tag_start \in Nat /\ e.value_start \in Nat
               /\ WellFormedField(x, e) /\ TagRead(x, e)
               /\ p \in Nat /\ e.tag_start <= p /\ p <= e.value_start - 1
               /\ p < o.frame_length /\ Len(buf) \in Nat
               /\ num = Decimal(x, e.tag_start, p)
               /\ p < Len(buf) => ByteAt(buf, p) = ByteAt(x, p)
<1> DEFINE e == o.fields[out.field_count]
<1>1. Arrives(o, tagStart) /\ p <= e.value_start - 1
  BY DEF Follows
<1>2. /\ tagStart = e.tag_start /\ e.tag_start \in Nat /\ e.value_start \in Nat
      /\ e.value_end \in Nat /\ WellFormedField(x, e) /\ e.value_end < o.frame_length
      /\ TagRead(x, e)
  BY <1>1, ArrivedAt DEF TypeInv
<1>3. tagStart <= p /\ num = Decimal(buf, tagStart, p)
  BY DEF SoundInv, ReadingTag, NumberRead
<1>4. /\ p \in Nat /\ Len(buf) \in Nat /\ p <= Len(buf) /\ Alike(buf, x, Len(buf))
      /\ x \in Seq(Byte) /\ Whole(x, o)
  BY Arrived DEF TypeInv
<1> HIDE DEF e
<1>5. o.frame_length \in Nat
  BY <1>4, WholeExtent
<1>6. p < o.frame_length
  BY <1>1, <1>2, <1>4, <1>5 DEF WellFormedField
<1>7. num = Decimal(x, e.tag_start, p)
  BY <1>2, <1>3, <1>4, AlikeNumber
<1>8. p < Len(buf) => ByteAt(buf, p) = ByteAt(x, p)
  BY <1>4 DEF Alike
<1> QED BY <1>1, <1>2, <1>3, <1>4, <1>6, <1>7, <1>8 DEF e

LEMMA TagDigitFollows ==
    ASSUME TypeInv, SoundInv, NEW x, NEW o, Ahead(x, o), Follows(o), TagDigit
    PROVE  Follows(o)'
<1> DEFINE e == o.fields[out.field_count]
<1>1. pc = "tag" /\ p < Len(buf) /\ ByteAt(buf, p) # Equals /\ TakeDigit
  BY DEF TagDigit
<1>2. /\ Arrives(o, tagStart) /\ p + 1 <= e.value_start - 1 /\ IsDigit(ByteAt(buf, p))
      /\ ~Saturated(num)
  BY <1>1, InTag, TagGoesOn
<1>3. p' = p + 1 /\ pc' = "tag" /\ UNCHANGED <<out, tagStart, bodyEnd>>
  BY <1>1, <1>2 DEF TakeDigit
<1> QED BY <1>2, <1>3 DEF Follows, HeaderFollows, Arrives, Finished

LEMMA TagEndFollows ==
    ASSUME TypeInv, SoundInv, NEW x, NEW o, Ahead(x, o), Follows(o), TagEnd
    PROVE  Follows(o)'
<1> DEFINE e == o.fields[out.field_count]
<1>1. pc = "tag"
  BY DEF TagEnd
<1>2. p \in Nat /\ Len(buf) \in Nat /\ p < o.frame_length
  BY <1>1, InTag
<1>3. CASE p = Len(buf)
  <2>1. Return("Truncated")
    BY <1>2, <1>3 DEF TagEnd
  <2> QED BY <1>2, <1>3, <2>1, StillFollows
<1>4. CASE p # Len(buf)
  <2>1. p < Len(buf) /\ ByteAt(buf, p) = Equals
    BY <1>4 DEF TagEnd
  <2>2. /\ Arrives(o, tagStart) /\ tagStart = e.tag_start /\ e.value_start \in Nat
        /\ p = e.value_start - 1 /\ p # e.tag_start /\ num = e.tag_number
    BY <1>1, <2>1, InTag, TagIsOver
  <2>3. num # 0
    BY <2>2, FrameTags DEF TypeInv
  <2>4. pc' = "value" /\ p' = p + 1 /\ UNCHANGED <<buf, out, status, tagStart, num, bodyEnd>>
    BY <1>4, <2>2, <2>3 DEF TagEnd
  <2>5. p' = e.value_start
    BY <2>2, <2>4
  <2> QED BY <2>2, <2>4, <2>5 DEF Follows, HeaderFollows, Arrives, Finished
<1> QED BY <1>3, <1>4

LEMMA BodyValueFollows ==
    ASSUME TypeInv, NEW x, NEW o, Ahead(x, o), Follows(o), ScanBodyValue
    PROVE  Follows(o)'
<1> DEFINE k == out.field_count
           e == o.fields[k]
<1>1. pc = "value" /\ tagStart # bodyEnd
  BY DEF ScanBodyValue, AtTrailer
<1>2. Arrives(o, tagStart) /\ p = e.value_start /\ num = e.tag_number
  BY <1>1 DEF Follows
<1>3. /\ k \in 0 .. (o.field_count - 1) /\ k # o.field_count - 1
      /\ k \in 3 .. (o.field_count - 1)
      /\ k + 1 \in 3 .. (o.field_count - 1) /\ ~TableIsFull(out)
      /\ o.fields[k + 1].tag_start = e.value_end + 1
  BY <1>1, <1>2, ArrivedAt DEF TypeInv, RoomForField, AtTrailer
<1>4. NeedsFallback(num) => Deferred(o)
  BY <1>1, <1>2, FrameTags DEF NeedsFallback, TypeInv
<1>5. buf \in Seq(Byte) /\ out \in FieldIndex
  BY DEF TypeInv, HeaderTypeInv, HeaderTypeOK
<1>6. PICK j \in p .. Len(buf) :
         /\ StopsAt(buf, p, j)
         /\ IF j = Len(buf) THEN Return("Truncated")
            ELSE IF NeedsFallback(num) THEN Return("FallbackRequested")
            ELSE /\ Advance("body", j + 1, Push(out, Entry(tagStart, valueStart, j, num)))
                 /\ UNCHANGED bodyEnd
  BY DEF ScanBodyValue
<1>7. j \in Nat /\ IF j = Len(buf) THEN Len(buf) < o.frame_length ELSE j = e.value_end
  <2>1. j \in e.value_start .. Len(buf) /\ StopsAt(buf, e.value_start, j)
    BY <1>2, <1>6
  <2> QED BY <1>3, <2>1, ValueFound DEF TypeInv
<1>8. CASE j = Len(buf)
  BY <1>6, <1>7, <1>8, StillFollows
<1>10. CASE j # Len(buf) /\ NeedsFallback(num)
  BY <1>4, <1>6, <1>10, StillHandsOver
<1>9. CASE j # Len(buf) /\ ~NeedsFallback(num)
  <2>1. out'.field_count = k + 1
    <3> DEFINE r == Entry(tagStart, valueStart, j, num)
    <3>1. r \in FieldEntry
      BY <1>3, <1>7, StoreType DEF TypeInv
    <3>2. out' = Push(out, r)
      BY <1>6, <1>9 DEF Advance
    <3> HIDE DEF r
    <3> QED BY <1>3, <1>5, <3>1, <3>2, PushIndex
  <2>2. pc' = "body" /\ p' = o.fields[k + 1].tag_start /\ bodyEnd' = bodyEnd
    BY <1>3, <1>6, <1>7, <1>9 DEF Advance
  <2>3. /\ bodyEnd = o.fields[o.field_count - 1].tag_start
        /\ \A l \in 3 .. (k - 1) : o.fields[l].tag_number \notin {95, 96}
        /\ e.tag_number \notin {95, 96}
    BY <1>2, <1>9 DEF Arrives, NeedsFallback
  <2>4. \A l \in 3 .. ((k + 1) - 1) : o.fields[l].tag_number \notin {95, 96}
    <3>1. \A l \in 3 .. ((k + 1) - 1) : l \in 3 .. (k - 1) \/ l = k
      BY <1>3
    <3> QED BY <2>3, <3>1
  <2> HIDE DEF k
  <2> QED BY <1>3, <2>1, <2>2, <2>3, <2>4 DEF Follows, HeaderFollows, Arrives, Finished
<1> QED BY <1>8, <1>9, <1>10

LEMMA TrailerFollows ==
    ASSUME TypeInv, SoundInv, NEW x, NEW o, Ahead(x, o), Follows(o), ScanTrailerValue
    PROVE  Follows(o)'
<1> DEFINE k == out.field_count
           e == o.fields[k]
<1>1. pc = "value" /\ tagStart = bodyEnd
  BY DEF ScanTrailerValue, AtTrailer
<1>2. Arrives(o, tagStart) /\ p = e.value_start /\ num = e.tag_number
  BY <1>1 DEF Follows
<1>3. k = o.field_count - 1 /\ num = 10
  BY <1>1, <1>2, FrameTags DEF TypeInv
<1>4. /\ k \in 0 .. (o.field_count - 1) /\ o.field_count \in Nat
      /\ ~Deferred(o) => ~TableIsFull(out)
      /\ e.value_start \in Nat /\ e.value_end \in Nat
  BY <1>2, ArrivedAt DEF TypeInv
<1>5. /\ x \in Seq(Byte) /\ Whole(x, o) /\ Len(buf) \in Nat
      /\ \A l \in 0 .. (Len(buf) - 1) : ByteAt(buf, l) = ByteAt(x, l)
  BY Arrived DEF TypeInv
<1>6. valueStart = p
  BY <1>1 DEF SoundInv, ReadingValue
<1>7. /\ e.value_end = e.value_start + 3 /\ o.frame_length = e.value_end + 1
      /\ \A l \in e.value_start .. (e.value_end - 1) : IsDigit(ByteAt(x, l))
  BY <1>3, <1>5 DEF Whole, Piecewise
<1>8. PICK j \in p .. Len(buf) :
         /\ StopsAt(buf, p, j)
         /\ IF j = Len(buf) THEN Return("Truncated")
            ELSE IF TrailerVerdict(j) # "Ok" THEN Return(TrailerVerdict(j))
            ELSE status' = "Ok" /\ pc' = "idle" /\ buf' = buf
  BY DEF ScanTrailerValue
<1>9. j \in Nat /\ IF j = Len(buf) THEN Len(buf) < o.frame_length ELSE j = e.value_end
  <2>1. j \in e.value_start .. Len(buf) /\ StopsAt(buf, e.value_start, j)
    BY <1>2, <1>8
  <2> QED BY <1>4, <2>1, ValueFound DEF TypeInv
<1>10. CASE j = Len(buf)
  BY <1>8, <1>9, <1>10, StillFollows
<1>11. CASE j # Len(buf)
  <2>1. j = e.value_end /\ j < Len(buf)
    BY <1>5, <1>8, <1>9, <1>11
  <2>2. j - valueStart = 3 /\ valueStart + 2 = e.value_end - 1 /\ o.frame_length <= Len(buf)
    <3>1. /\ e.value_start \in Nat /\ e.value_end \in Nat /\ valueStart = e.value_start
          /\ Len(buf) \in Nat
      BY <1>2, <1>4, <1>5, <1>6
    <3> HIDE DEF e, k
    <3> QED BY <1>7, <2>1, <3>1
  <2> HIDE DEF e, k
  <2>3. ASSUME NEW l \in valueStart .. (valueStart + 2) PROVE IsDigit(ByteAt(buf, l))
    <3>0. /\ valueStart = e.value_start /\ e.value_start \in Nat /\ e.value_end \in Nat
          /\ Len(buf) \in Nat
      BY <1>2, <1>4, <1>5, <1>6
    <3>1. l \in e.value_start .. (e.value_end - 1) /\ l \in 0 .. (Len(buf) - 1)
      BY <2>1, <2>2, <3>0
    <3> QED BY <1>5, <1>7, <3>1
  <2>4. TrailerVerdict(j) = IF TableIsFull(out) THEN "TableFull" ELSE "Ok"
    BY <1>1, <1>3, <1>4, <1>8, <2>2, <2>3, TrailerOffsets DEF ScanTrailerValue
  <2>5. CASE TableIsFull(out)
    BY <1>4, <1>8, <1>11, <2>4, <2>5, StillHandsOver
  <2>6. CASE ~TableIsFull(out)
    <3>1. status' = "Ok" /\ pc' = "idle" /\ buf' = buf
      BY <1>8, <1>11, <2>4, <2>6
    <3>2. ~Deferred(o)
      <4>1. ~ (o.field_count > kMaxFields)
        BY <1>3, <1>4, <2>6, CapacityAssumption DEF TableIsFull, k
      <4>2. \A l \in 3 .. (o.field_count - 2) : o.fields[l].tag_number \notin {95, 96}
        <5>1. out.field_count - 1 = o.field_count - 2
          BY <1>3, <1>4 DEF k
        <5> QED BY <1>2, <5>1 DEF Arrives
      <4> QED BY <4>1, <4>2 DEF Deferred
    <3> QED BY <2>2, <3>1, <3>2 DEF Follows, HeaderFollows, Finished, Settled
  <2> QED BY <2>5, <2>6
<1> QED BY <1>10, <1>11

(* No frame is refused but those left to QuickFIX, neither whole nor in part.  *)
CompleteInv == \A x, o : Ahead(x, o) => Follows(o)

LEMMA CompleteStep ==
    ASSUME TypeInv, SoundInv, CompleteInv, [Statement]_vars
    PROVE  CompleteInv'
<1>1. CASE \E b \in Seq(Byte) : Call(b)
  BY <1>1 DEF Call, CompleteInv, Follows, HeaderFollows, Finished
<1>2. CASE ScanStep
  <2>1. buf' = buf
    BY <1>2, StepOutcome DEF TypeInv
  <2>2. ASSUME NEW x, NEW o, Ahead(x, o)
        PROVE  Follows(o)'
    <3>1. Follows(o)
      BY <2>2 DEF CompleteInv
    <3>2. CASE HeaderStep
      <4>1. HeaderFollows(o)'
        BY <2>2, <3>1, <3>2, HeaderStepFollows DEF TypeInv, SoundInv, Follows
      <4>2. pc' \notin {"tag", "value"}
        BY <3>2, HeaderStepFrame
      <4> QED BY <4>1, <4>2 DEF Follows
    <3> QED BY <1>2, <2>2, <3>1, <3>2, NextFieldFollows, TagDigitFollows, TagEndFollows,
               BodyValueFollows, TrailerFollows DEF ScanStep
  <2> QED BY <2>1, <2>2 DEF CompleteInv, Ahead
<1>3. CASE UNCHANGED vars
  BY <1>3 DEF vars, CompleteInv, Ahead, Follows, HeaderFollows, Arrives, Finished, Settled
<1> QED
  BY <1>1, <1>2, <1>3 DEF Statement

LEMMA CompleteInvariance ==
    ASSUME \A b \in Buffers : Len(b) <= UINT32_MAX
    PROVE  Spec => []CompleteInv
<1>1. Init => CompleteInv
  BY DEF Init, HeaderInit, CompleteInv, Follows, HeaderFollows, Finished
<1>2. TypeInv /\ SoundInv /\ CompleteInv /\ [Next]_vars => CompleteInv'
  BY CompleteStep, NextIsStatement
<1> QED
  BY <1>1, <1>2, TypeInvariance, SoundInvariance, PTL DEF Spec

(* The scalar scanner accepts a buffer if and only if it begins with a frame   *)
(* as the reference defines it, and answers with the reference's index.        *)
THEOREM AcceptsTheFrames ==
    ASSUME \A b \in Buffers : Len(b) <= UINT32_MAX
    PROVE  Spec => []AcceptsExactlyFrames
<1>1. ASSUME TypeInv, SoundInv, CompleteInv, Finished
      PROVE  IF FrameIndices(buf) = {} THEN status # "Ok"
             ELSE status = "Ok" /\ Readable(out) \in FrameIndices(buf)
  <2>1. status = "Ok" => Readable(out) \in FrameIndices(buf)
    BY <1>1 DEF SoundInv, OkIsExact
  <2>2. CASE FrameIndices(buf) = {}
    BY <2>1, <2>2
  <2>3. CASE FrameIndices(buf) # {}
    <3>1. PICK o \in FrameIndices(buf) : TRUE
      BY <2>3
    <3>2. Ahead(buf, o) /\ o.frame_length <= Len(buf)
      <4>1. buf \in Seq(Byte)
        BY <1>1 DEF TypeInv, HeaderTypeInv, HeaderTypeOK
      <4> QED BY <3>1, <4>1, WholeIsAhead
    <3>3. status = "Ok"
      <4>1. ~Deferred(o) /\ Whole(buf, o) /\ buf \in Seq(Byte)
        BY <1>1, FrameIsWhole DEF TypeInv, HeaderTypeInv, HeaderTypeOK
      <4>2. ~ (Len(buf) < o.frame_length)
        BY <3>2, <4>1, WholeExtent
      <4> QED BY <1>1, <3>2, <4>1, <4>2 DEF CompleteInv, Follows, HeaderFollows, Settled
    <3> QED BY <2>1, <2>3, <3>3
  <2> QED BY <2>2, <2>3
<1>2. TypeInv /\ SoundInv /\ CompleteInv => AcceptsExactlyFrames
  BY <1>1 DEF AcceptsExactlyFrames, AcceptsExactly
<1> QED
  BY <1>2, TypeInvariance, SoundInvariance, CompleteInvariance, PTL

(* The scalar scanner gives up no frame that is still arriving: on a buffer that *)
(* some bytes would make begin with a frame it asks for more, until the frame is *)
(* whole, and then it answers with this frame and no other.                   *)
THEOREM AwaitsTheFrames ==
    ASSUME \A b \in Buffers : Len(b) <= UINT32_MAX
    PROVE  Spec => []FramesAreAwaited(Seq(Byte))
<1>1. ASSUME TypeInv, SoundInv, CompleteInv, Finished,
             NEW x \in Seq(Byte), Continues(x), NEW o \in FrameIndices(x)
      PROVE  AnswersFor(o)
  <2>1. buf \in Seq(Byte)
    BY <1>1 DEF TypeInv, HeaderTypeInv, HeaderTypeOK
  <2>2. Ahead(x, o)
    BY <1>1, <2>1, ContinuationIsAhead
  <2>3. HeaderFollows(o)
    BY <1>1, <2>2 DEF CompleteInv, Follows
  <2> QED BY <1>1, <2>1, <2>2, <2>3, FollowedIsAnswered DEF SoundInv
<1>2. TypeInv /\ SoundInv /\ CompleteInv => FramesAreAwaited(Seq(Byte))
  BY <1>1 DEF FramesAreAwaited
<1> QED
  BY <1>2, TypeInvariance, SoundInvariance, CompleteInvariance, PTL

-----------------------------------------------------------------------------
(* Verdicts stand: two calls on buffers that share their first bytes go through  *)
(* the same locals, until the one with fewer bytes runs out of them.           *)

TrailerMoves(b, s, j) ==
    IF s.num # 10 THEN Returns(s, "BadBodyLength")
    ELSE IF \/ j - s.valueStart # 3
            \/ \E k \in s.valueStart .. (s.valueStart + 2) : ~IsDigit(ByteAt(b, k))
         THEN Returns(s, "Malformed")
    ELSE IF s.count >= kMaxFields THEN Returns(s, "TableFull")
    ELSE [pc |-> "idle", p |-> j + 1, tagStart |-> s.tagStart, valueStart |-> s.valueStart,
          num |-> s.num, bodyEnd |-> s.bodyEnd, count |-> s.count + 1, status |-> "Ok"]

(* What the statements do to the locals s, on the buffer b.                    *)
NextFieldMoves(s, t) ==
    t = IF s.p < s.bodyEnd /\ s.count >= kMaxFields THEN Returns(s, "TableFull")
        ELSE IF s.p <= s.bodyEnd THEN Begins(s, "tag", 0)
        ELSE Returns(s, "BadBodyLength")

TagMoves(b, s, t) ==
    t = IF s.p = Len(b) THEN Returns(s, "Truncated")
        ELSE IF ByteAt(b, s.p) # Equals THEN Takes(b, s)
        ELSE IF s.p = s.tagStart \/ s.num = 0 THEN Returns(s, "Malformed")
        ELSE [pc |-> "value", p |-> s.p + 1, tagStart |-> s.tagStart, valueStart |-> s.p + 1,
              num |-> s.num, bodyEnd |-> s.bodyEnd, count |-> s.count, status |-> s.status]

ValueMoves(b, s, t) ==
    \E j \in s.p .. Len(b) :
        /\ StopsAt(b, s.p, j)
        /\ t = IF j = Len(b) THEN Returns(s, "Truncated")
               ELSE IF s.tagStart = s.bodyEnd THEN TrailerMoves(b, s, j)
               ELSE IF NeedsFallback(s.num) THEN Returns(s, "FallbackRequested")
               ELSE Stores(s, "body", j + 1, s.bodyEnd)

Moves(b, s, t) ==
    \/ HeaderMoves(b, s, t)
    \/ s.pc = "body" /\ NextFieldMoves(s, t)
    \/ s.pc = "tag" /\ TagMoves(b, s, t)
    \/ s.pc = "value" /\ ValueMoves(b, s, t)

LEMMA StepMoves ==
    ASSUME TypeInv, SoundInv, ScanStep
    PROVE  Moves(buf, Locals, Locals')
<1>0. /\ out \in FieldIndex /\ p \in Nat /\ Len(buf) \in Nat /\ p <= Len(buf)
      /\ bodyEnd \in Nat
  BY DEF TypeInv, HeaderTypeInv, HeaderTypeOK
<1>1. /\ Locals.pc = pc /\ Locals.p = p /\ Locals.tagStart = tagStart
      /\ Locals.valueStart = valueStart /\ Locals.num = num /\ Locals.bodyEnd = bodyEnd
      /\ Locals.count = out.field_count /\ Locals.status = status
  BY DEF Locals
<1>2. CASE HeaderStep
  BY <1>2, HeaderStepMoves DEF TypeInv, Moves
<1>3. CASE NextField
  <2>1. /\ pc = "body"
        /\ \/ p < bodyEnd /\ TableIsFull(out) /\ Locals' = Returns(Locals, "TableFull")
           \/ p < bodyEnd /\ ~TableIsFull(out) /\ Locals' = Begins(Locals, "tag", 0)
           \/ p = bodyEnd /\ Locals' = Begins(Locals, "tag", 0)
           \/ p > bodyEnd /\ Locals' = Returns(Locals, "BadBodyLength")
    BY <1>3, ReturnMoves, BeginMoves DEF NextField
  <2>2. NextFieldMoves(Locals, Locals')
    BY <1>0, <1>1, <2>1 DEF NextFieldMoves, TableIsFull
  <2> QED BY <1>1, <2>1, <2>2 DEF Moves
<1>4. CASE TagDigit
  <2>1. pc = "tag" /\ p # Len(buf) /\ ByteAt(buf, p) # Equals /\ Locals' = Takes(buf, Locals)
    BY <1>0, <1>4, TakeMoves DEF TagDigit
  <2> QED BY <1>1, <2>1 DEF Moves, TagMoves
<1>5. CASE TagEnd
  <2>1. CASE p = Len(buf)
    BY <1>0, <1>1, <1>5, <2>1, ReturnMoves DEF TagEnd, Moves, TagMoves
  <2>2. CASE p # Len(buf)
    <3>1. pc = "tag" /\ ByteAt(buf, p) = Equals
      BY <1>5, <2>2 DEF TagEnd
    <3>2. CASE p = tagStart \/ num = 0
      BY <1>1, <1>5, <2>2, <3>1, <3>2, ReturnMoves DEF TagEnd, Moves, TagMoves
    <3>3. CASE ~ (p = tagStart \/ num = 0)
      <4>1. /\ pc' = "value" /\ p' = p + 1 /\ valueStart' = p + 1
            /\ UNCHANGED <<buf, out, status, tagStart, num, bodyEnd>>
        BY <1>5, <2>2, <3>3 DEF TagEnd
      <4>2. Locals' = [pc |-> "value", p |-> p + 1, tagStart |-> tagStart,
                       valueStart |-> p + 1, num |-> num, bodyEnd |-> bodyEnd,
                       count |-> out.field_count, status |-> status]
        BY <4>1 DEF Locals
      <4> QED BY <1>1, <2>2, <3>1, <3>3, <4>2 DEF Moves, TagMoves
    <3> QED BY <3>2, <3>3
  <2> QED BY <2>1, <2>2
<1>6. CASE ScanBodyValue
  <2>1. pc = "value" /\ tagStart # bodyEnd
    BY <1>6 DEF ScanBodyValue, AtTrailer
  <2>2. PICK j \in p .. Len(buf) :
          /\ StopsAt(buf, p, j)
          /\ IF j = Len(buf) THEN Return("Truncated")
             ELSE IF NeedsFallback(num) THEN Return("FallbackRequested")
             ELSE /\ Advance("body", j + 1, Push(out, Entry(tagStart, valueStart, j, num)))
                  /\ UNCHANGED bodyEnd
    BY <1>6 DEF ScanBodyValue
  <2>3. Locals' = IF j = Len(buf) THEN Returns(Locals, "Truncated")
                  ELSE IF NeedsFallback(num) THEN Returns(Locals, "FallbackRequested")
                  ELSE Stores(Locals, "body", j + 1, bodyEnd)
    BY <1>0, <2>2, ReturnMoves, AdvanceMoves, PushCounts
  <2>4. ValueMoves(buf, Locals, Locals')
    BY <1>1, <2>1, <2>2, <2>3 DEF ValueMoves
  <2> QED BY <1>1, <2>1, <2>4 DEF Moves
<1>7. CASE ScanTrailerValue
  <2>1. pc = "value" /\ tagStart = bodyEnd
    BY <1>7 DEF ScanTrailerValue, AtTrailer
  <2>2. PICK j \in p .. Len(buf) :
          /\ StopsAt(buf, p, j)
          /\ IF j = Len(buf) THEN Return("Truncated")
             ELSE IF TrailerVerdict(j) # "Ok" THEN Return(TrailerVerdict(j))
             ELSE /\ out' = PushCheckSum(out, Entry(tagStart, valueStart, j, num))
                  /\ status' = "Ok"
                  /\ pc' = "idle"
                  /\ p' = j + 1
                  /\ UNCHANGED <<buf, tagStart, valueStart, num, bodyEnd>>
    BY <1>7 DEF ScanTrailerValue
  <2>3. CASE j = Len(buf)
    <3>1. Locals' = Returns(Locals, "Truncated")
      BY <2>2, <2>3, ReturnMoves
    <3>2. ValueMoves(buf, Locals, Locals')
      BY <1>1, <2>2, <2>3, <3>1 DEF ValueMoves
    <3> QED BY <1>1, <2>1, <3>2 DEF Moves
  <2>4. CASE j # Len(buf)
    <3> DEFINE wrong == \/ j - valueStart # 3
                        \/ \E k \in valueStart .. (valueStart + 2) : ~IsDigit(ByteAt(buf, k))
               accepted == [pc |-> "idle", p |-> j + 1, tagStart |-> tagStart,
                            valueStart |-> valueStart, num |-> num, bodyEnd |-> bodyEnd,
                            count |-> out.field_count + 1, status |-> "Ok"]
    <3>1. TrailerVerdict(j) = IF num # 10 THEN "BadBodyLength"
                              ELSE IF wrong THEN "Malformed"
                              ELSE IF TableIsFull(out) THEN "TableFull" ELSE "Ok"
      BY <2>1, <2>2, TrailerOffsets
    <3>2. TrailerMoves(buf, Locals, j) = IF num # 10 THEN Returns(Locals, "BadBodyLength")
                                         ELSE IF wrong THEN Returns(Locals, "Malformed")
                                         ELSE IF TableIsFull(out) THEN Returns(Locals, "TableFull")
                                         ELSE accepted
      BY <1>1 DEF TrailerMoves, TableIsFull
    <3> HIDE DEF wrong, accepted
    <3>3. Locals' = TrailerMoves(buf, Locals, j)
      <4>1. CASE TrailerVerdict(j) # "Ok"
        <5>1. Locals' = Returns(Locals, TrailerVerdict(j))
          BY <2>2, <2>4, <4>1, ReturnMoves
        <5> QED BY <3>1, <3>2, <4>1, <5>1
      <4>2. CASE TrailerVerdict(j) = "Ok"
        <5>1. /\ pc' = "idle" /\ p' = j + 1 /\ out'.field_count = out.field_count + 1
              /\ status' = "Ok" /\ UNCHANGED <<buf, tagStart, valueStart, num, bodyEnd>>
          BY <1>0, <2>2, <2>4, <4>2, PushCounts
        <5>2. Locals' = accepted
          BY <5>1 DEF Locals, accepted
        <5> QED BY <3>1, <3>2, <4>2, <5>2
      <4> QED BY <4>1, <4>2
    <3>4. ValueMoves(buf, Locals, Locals')
      BY <1>1, <2>1, <2>2, <2>4, <3>3 DEF ValueMoves
    <3> QED BY <1>1, <2>1, <3>4 DEF Moves
  <2> QED BY <2>3, <2>4
<1> QED BY <1>2, <1>3, <1>4, <1>5, <1>6, <1>7 DEF ScanStep

(* A statement that asked for nothing when only c had arrived of the buffer is   *)
(* the same statement now.                                                   *)
LEMMA TagLockstep ==
    ASSUME TypeInv, NEW c \in Seq(Byte), Alike(c, buf, Len(c)), p <= Len(c),
           NEW t, TagMoves(c, Locals, t), TagMoves(buf, Locals, Locals'),
           t.status # "Truncated"
    PROVE  Locals' = t /\ p' <= Len(c)
<1>0. /\ p \in Nat /\ Len(c) \in Nat /\ Len(buf) \in Nat /\ Len(c) <= Len(buf)
      /\ \A l \in 0 .. (Len(c) - 1) : ByteAt(c, l) = ByteAt(buf, l)
  BY DEF TypeInv, HeaderTypeInv, HeaderTypeOK, Alike
<1>1. Locals.p = p /\ Locals'.p = p'
  BY DEF Locals
<1> DEFINE s == Locals
<1>2. \A v : Returns(s, v).status = v /\ Returns(s, v).p = p
  BY <1>1 DEF Returns
<1> HIDE DEF s
<1>3. p # Len(c)
  BY <1>1, <1>2 DEF TagMoves, s
<1>4. p < Len(c) /\ p # Len(buf) /\ ByteAt(c, p) = ByteAt(buf, p)
  BY <1>0, <1>3
<1>5. Takes(c, s) = Takes(buf, s) /\ Takes(c, s).p \in {p, p + 1}
  BY <1>1, <1>2, <1>4 DEF Takes, s
<1>6. s' = t
  BY <1>1, <1>3, <1>4, <1>5 DEF TagMoves, s
<1>7. t.p \in {p, p + 1}
  BY <1>1, <1>2, <1>3, <1>5 DEF TagMoves, s
<1> QED BY <1>0, <1>1, <1>4, <1>6, <1>7 DEF s

LEMMA ValueLockstep ==
    ASSUME TypeInv, NEW c \in Seq(Byte), Alike(c, buf, Len(c)), p <= Len(c),
           NEW t, ValueMoves(c, Locals, t), ValueMoves(buf, Locals, Locals'),
           t.status # "Truncated"
    PROVE  Locals' = t /\ p' <= Len(c)
<1>0. /\ buf \in Seq(Byte) /\ p \in Nat /\ valueStart \in Nat
      /\ Len(c) \in Nat /\ Len(buf) \in Nat /\ Len(c) <= Len(buf)
      /\ \A l \in 0 .. (Len(c) - 1) : ByteAt(c, l) = ByteAt(buf, l)
  BY DEF TypeInv, HeaderTypeInv, HeaderTypeOK, Alike
<1>1. Locals.p = p /\ Locals'.p = p' /\ Locals.valueStart = valueStart
  BY DEF Locals
<1> DEFINE s == Locals
           Outcome(b, j) == IF s.tagStart = s.bodyEnd THEN TrailerMoves(b, s, j)
                            ELSE IF NeedsFallback(s.num) THEN Returns(s, "FallbackRequested")
                            ELSE Stores(s, "body", j + 1, s.bodyEnd)
<1>2. /\ \A v : Returns(s, v).status = v /\ Returns(s, v).p = p
      /\ \A j : Stores(s, "body", j + 1, s.bodyEnd).p = j + 1
  BY <1>1 DEF Returns, Stores
<1>3. PICK j \in p .. Len(c) : /\ StopsAt(c, p, j)
                               /\ t = IF j = Len(c) THEN Returns(s, "Truncated")
                                                    ELSE Outcome(c, j)
  BY <1>1 DEF ValueMoves
<1>4. PICK k \in p .. Len(buf) : /\ StopsAt(buf, p, k)
                                 /\ s' = IF k = Len(buf) THEN Returns(s, "Truncated")
                                                         ELSE Outcome(buf, k)
  BY <1>1 DEF ValueMoves
<1>5. j # Len(c)
  <2> HIDE DEF Outcome, s
  <2> QED BY <1>2, <1>3
<1>6. k = j /\ k # Len(buf) /\ j \in Nat /\ j < Len(c)
  BY <1>0, <1>3, <1>4, <1>5, StopsTogether
<1>7. ASSUME j - valueStart = 3, NEW l \in valueStart .. (valueStart + 2)
      PROVE  ByteAt(c, l) = ByteAt(buf, l)
  <2>1. l \in 0 .. (Len(c) - 1)
    BY <1>0, <1>6, <1>7
  <2> QED BY <1>0, <2>1
<1>8. TrailerMoves(c, s, j) = TrailerMoves(buf, s, j) /\ TrailerMoves(c, s, j).p \in {p, j + 1}
  BY <1>1, <1>2, <1>7 DEF TrailerMoves
<1>9. Outcome(c, j) = Outcome(buf, j) /\ Outcome(c, j).p \in {p, j + 1}
  <2> HIDE DEF s
  <2> QED BY <1>2, <1>8
<1> HIDE DEF Outcome
<1> QED BY <1>0, <1>1, <1>3, <1>4, <1>5, <1>6, <1>9

LEMMA Lockstep ==
    ASSUME TypeInv, NEW c \in Seq(Byte), Alike(c, buf, Len(c)), p <= Len(c),
           NEW t, Moves(c, Locals, t), Moves(buf, Locals, Locals'), t.status # "Truncated"
    PROVE  Locals' = t /\ p' <= Len(c)
<1>0. Locals.pc = pc
  BY DEF Locals
<1>1. \A b, u : HeaderMoves(b, Locals, u) => pc \in {"tag8", "tag9", "length", "tag35"}
  BY <1>0 DEF HeaderMoves
<1>2. CASE pc \in {"tag8", "tag9", "length", "tag35"}
  <2>1. HeaderMoves(c, Locals, t) /\ HeaderMoves(buf, Locals, Locals')
    BY <1>0, <1>2 DEF Moves
  <2> QED BY <2>1, HeaderLockstep DEF TypeInv
<1>3. CASE pc = "body"
  <2>1. NextFieldMoves(Locals, t) /\ NextFieldMoves(Locals, Locals')
    BY <1>0, <1>1, <1>3 DEF Moves
  <2>2. p \in Nat /\ Locals.p = p /\ Locals'.p = p'
    BY DEF Locals, TypeInv, HeaderTypeInv, HeaderTypeOK
  <2>3. Locals' = t
    BY <2>1 DEF NextFieldMoves
  <2>4. t.p = p
    BY <2>1, <2>2 DEF NextFieldMoves, Returns, Begins
  <2> QED BY <2>2, <2>3, <2>4
<1>4. CASE pc = "tag"
  <2>1. TagMoves(c, Locals, t) /\ TagMoves(buf, Locals, Locals')
    BY <1>0, <1>1, <1>4 DEF Moves
  <2> QED BY <2>1, TagLockstep
<1>5. CASE pc = "value"
  <2>1. ValueMoves(c, Locals, t) /\ ValueMoves(buf, Locals, Locals')
    BY <1>0, <1>1, <1>5 DEF Moves
  <2> QED BY <2>1, ValueLockstep
<1> QED BY <1>0, <1>1, <1>2, <1>3, <1>4, <1>5 DEF Moves

(* S holds the locals that a call on b has gone through, from its start to where  *)
(* it is now.                                                                *)
Visited(b, S, now) ==
    /\ AtStart \in S /\ now \in S
    /\ \A s \in S : \/ s = now
                    \/ s.pc # "idle" /\ s.status = "None" /\ \E t \in S : Moves(b, s, t)

(* S holds the locals of a call on b that has ended with the verdict v.          *)
Decides(b, S, v) ==
    /\ AtStart \in S
    /\ \A s \in S : IF s.pc = "idle" THEN s.status = v
                    ELSE s.status = "None" /\ \E t \in S : Moves(b, s, t)

RunInv ==
    /\ pc # "idle" => status = "None"
    /\ status # "None" \/ pc # "idle" => \E S : Visited(buf, S, Locals)

(* After a verdict, the next call goes where the call before has gone.          *)
Retraces(c, S) ==
    /\ c \in Seq(Byte) /\ Alike(c, buf, Len(c)) /\ p <= Len(c)
    /\ Decides(c, S, prior.status)
    /\ Locals \in S
    /\ prior.status = "Ok" => prior.index \in FrameIndices(c)

PriorInv == prior.status \notin {"None", "Truncated"} => \E c, S : Retraces(c, S)

CallerInv == TypeInv /\ SoundInv /\ StreamInv /\ RunInv /\ PriorInv

LEMMA EndDecides ==
    ASSUME NEW S, Visited(buf, S, Locals), Finished
    PROVE  Decides(buf, S, status)
<1>1. Locals.pc = "idle" /\ Locals.status = status
  BY DEF Locals, Finished
<1> QED BY <1>1 DEF Visited, Decides

LEMMA CallerInvInit ==
    ASSUME CallerStart, \A s \in Streams \cup Handed : Len(s) <= UINT32_MAX
    PROVE  CallerInv
<1>1. TypeInv /\ SoundInv
  BY TypeInvInit, SoundInit DEF CallerStart
<1>2. StreamInv
  BY StreamBegins DEF CallerStart, Init
<1>3. RunInv /\ PriorInv
  BY DEF CallerStart, Init, HeaderInit, CallerInit, NoPrior, RunInv, PriorInv
<1> QED BY <1>1, <1>2, <1>3 DEF CallerInv

LEMMA CallBeginsRun ==
    ASSUME TypeInv, NEW b, Call(b)
    PROVE  RunInv'
<1>1. Locals' = AtStart
  BY CallStarts DEF TypeInv
<1>2. Visited(buf, {AtStart}, AtStart)'
  BY DEF Visited
<1>3. status' = "None" /\ pc' # "idle"
  BY DEF Call
<1> QED BY <1>1, <1>2, <1>3 DEF RunInv

LEMMA ScanContinuesRun ==
    ASSUME TypeInv, SoundInv, RunInv, ScanStep
    PROVE  RunInv'
<1>1. /\ pc # "idle" /\ buf' = buf
      /\ IF pc' = "idle" THEN status' \in Verdict ELSE status' = status
  BY StepOutcome
<1>2. PICK S : Visited(buf, S, Locals)
  BY <1>1 DEF RunInv
<1>3. Moves(buf, Locals, Locals')
  BY StepMoves
<1>4. Locals.pc = pc /\ Locals.status = "None"
  BY <1>1 DEF Locals, RunInv
<1>5. Visited(buf, S \cup {Locals'}, Locals')
  BY <1>1, <1>2, <1>3, <1>4 DEF Visited
<1> QED BY <1>1, <1>5 DEF RunInv

LEMMA ScanRetraces ==
    ASSUME TypeInv, SoundInv, RunInv, PriorInv, Scan
    PROVE  PriorInv'
<1>0. ScanStep /\ prior' = prior
  BY DEF Scan, callerVars
<1>1. pc # "idle" /\ buf' = buf
  BY <1>0, StepOutcome
<1>2. SUFFICES ASSUME prior.status \notin {"None", "Truncated"}
               PROVE  \E c, S : Retraces(c, S)'
  BY <1>0 DEF PriorInv
<1>3. PICK c, S : Retraces(c, S)
  BY <1>2 DEF PriorInv
<1>4. Locals.pc # "idle"
  BY <1>1 DEF Locals
<1>5. PICK t \in S : Moves(c, Locals, t)
  BY <1>3, <1>4 DEF Retraces, Decides
<1>6. t.status # "Truncated"
  BY <1>2, <1>3, <1>5 DEF Retraces, Decides
<1>7. Moves(buf, Locals, Locals')
  BY <1>0, StepMoves
<1>8. Locals' = t /\ p' <= Len(c)
  BY <1>3, <1>5, <1>6, <1>7, Lockstep DEF Retraces
<1>9. Retraces(c, S)'
  BY <1>0, <1>1, <1>3, <1>5, <1>8 DEF Retraces
<1> QED BY <1>9

LEMMA OfferRetraces ==
    ASSUME TypeInv, SoundInv, StreamInv, RunInv, Offer
    PROVE  PriorInv'
<1>1. /\ pc = "idle" /\ prior'.status = status /\ prior'.index = Readable(out)
      /\ \E b : Call(b)
  BY DEF Offer
<1>2. SUFFICES ASSUME status \notin {"None", "Truncated"}
               PROVE  \E c, S : Retraces(c, S)'
  BY <1>1 DEF PriorInv
<1>3. Finished
  BY <1>1, <1>2 DEF Finished
<1>4. PICK S : Visited(buf, S, Locals)
  BY <1>2 DEF RunInv
<1>5. Decides(buf, S, status)
  BY <1>3, <1>4, EndDecides
<1>6. Locals' = AtStart /\ p' = 0
  BY <1>1, CallStarts DEF TypeInv, Call
<1>7. buf \in Seq(Byte) /\ Len(buf) \in Nat /\ Alike(buf, buf', Len(buf))
  BY OfferExtends DEF StreamInv
<1>8. status = "Ok" => Readable(out) \in FrameIndices(buf)
  BY <1>3 DEF SoundInv, OkIsExact
<1>9. PICK b, v, r : b = buf /\ v = status /\ r = Readable(out)
  OBVIOUS
<1>10. /\ b \in Seq(Byte) /\ Alike(b, buf', Len(b)) /\ p' <= Len(b) /\ Decides(b, S, v)
       /\ Locals' \in S /\ (v = "Ok" => r \in FrameIndices(b))
  BY <1>5, <1>6, <1>7, <1>8, <1>9 DEF Decides
<1>11. prior'.status = v /\ prior'.index = r
  BY <1>1, <1>9
<1>12. Retraces(b, S)'
  BY <1>10, <1>11 DEF Retraces
<1> QED BY <1>12

LEMMA CallerStep ==
    ASSUME CallerInv, [Caller \/ Scan]_CallerVars,
           \A s \in Streams \cup Handed : Len(s) <= UINT32_MAX
    PROVE  CallerInv'
<1> USE DEF CallerInv
<1>1. CASE Offer
  <2>1. PICK b \in Seq(Byte) : Call(b)
    BY <1>1, OfferExtends
  <2>2. TypeInv' /\ SoundInv'
    BY <1>1, <2>1, OfferExtends, TypeInvStep, SoundStep DEF Statement
  <2>3. StreamInv'
    BY <1>1, OfferExtends DEF Offer, StreamInv
  <2> QED BY <1>1, <2>1, <2>2, <2>3, CallBeginsRun, OfferRetraces
<1>2. ASSUME NEW b \in Handed, Hand(b) PROVE CallerInv'
  <2>1. b \in Seq(Byte) /\ Len(b) <= UINT32_MAX /\ Call(b) /\ buf' = b /\ prior' = NoPrior
    BY <1>2, CallerAssumption DEF Hand, Call
  <2>2. TypeInv' /\ SoundInv'
    BY <2>1, TypeInvStep, SoundStep DEF Statement
  <2>3. StreamInv'
    BY <1>2, HandBegins
  <2> QED BY <2>1, <2>2, <2>3, CallBeginsRun DEF PriorInv, NoPrior
<1>3. CASE Scan
  <2>1. ScanStep /\ stream' = stream /\ buf' = buf
    BY <1>3, StepOutcome DEF Scan, callerVars
  <2>2. TypeInv' /\ SoundInv'
    BY <2>1, TypeInvStep, SoundStep DEF Statement, SoundInv
  <2>3. StreamInv'
    BY <2>1 DEF StreamInv
  <2> QED BY <1>3, <2>1, <2>2, <2>3, ScanContinuesRun, ScanRetraces
<1>4. CASE UNCHANGED CallerVars
  <2>1. UNCHANGED vars /\ stream' = stream /\ prior' = prior
    BY <1>4 DEF CallerVars, callerVars
  <2>2. buf' = buf /\ p' = p /\ pc' = pc /\ status' = status /\ Locals' = Locals
    BY <2>1 DEF vars, Locals
  <2>3. TypeInv' /\ SoundInv'
    BY <2>1, <2>2, TypeInvStutter, SoundStep DEF SoundInv
  <2> QED BY <2>1, <2>2, <2>3 DEF StreamInv, RunInv, PriorInv, Retraces
<1> QED BY <1>1, <1>2, <1>3, <1>4 DEF Caller

LEMMA LastVerdictStands ==
    ASSUME CallerInv, Finished, prior.status \notin {"None", "Truncated"}
    PROVE  /\ status = prior.status
           /\ status = "Ok" => Readable(out) = prior.index
<1>1. PICK c, S : Retraces(c, S)
  BY DEF CallerInv, PriorInv
<1>2. Locals.pc = "idle" /\ Locals.status = status
  BY DEF Locals, Finished
<1>3. status = prior.status
  BY <1>1, <1>2 DEF Retraces, Decides
<1>4. ASSUME status = "Ok" PROVE Readable(out) = prior.index
  BY <1>1, <1>3, <1>4, SameFrameAgain DEF CallerInv, SoundInv, OkIsExact, StreamInv, Retraces
<1> QED BY <1>3, <1>4

(* A caller who has been given a verdict other than Truncated may act on it: the   *)
(* scalar scanner says the same, and delimits the same frame, however many more   *)
(* bytes of the stream it is shown.                                           *)
THEOREM VerdictsAreFinal ==
    ASSUME \A s \in Streams \cup Handed : Len(s) <= UINT32_MAX
    PROVE  CallerSpec => []VerdictStands
<1>1. CallerInv => VerdictStands
  BY LastVerdictStands DEF VerdictStands
<1>2. CallerStart => CallerInv
  BY CallerInvInit
<1>3. CallerInv /\ [Caller \/ Scan]_CallerVars => CallerInv'
  BY CallerStep
<1> QED
  BY <1>1, <1>2, <1>3, PTL DEF CallerSpec

-----------------------------------------------------------------------------
(* What a program that calls the scanner may rely on, whichever other calls it   *)
(* makes: one invariant of a scanner that is called on any buffers, by whomever. *)

(* An accepted frame has its trailer where the declared body ends.             *)
TrailerAtBodyEnd ==
    Finished /\ status = "Ok" =>
        LET o == Readable(out)
        IN  o.fields[o.checksum_idx].tag_start = bodyEnd

ScanInv == TypeInv /\ SoundInv /\ CompleteInv /\ RunInv /\ TrailerAtBodyEnd

LEMMA ScanInvInit == Init => ScanInv
<1>1. Init => CompleteInv /\ RunInv /\ TrailerAtBodyEnd
  BY DEF Init, HeaderInit, CompleteInv, Follows, HeaderFollows, Finished, RunInv,
         TrailerAtBodyEnd
<1> QED BY <1>1, TypeInvInit, SoundInit DEF ScanInv

LEMMA ScanInvCall ==
    ASSUME ScanInv, NEW b \in Seq(Byte), Len(b) <= UINT32_MAX, Call(b)
    PROVE  ScanInv' /\ Locals' = AtStart
<1>1. Statement /\ buf' = b /\ status' = "None"
  BY DEF Statement, Call
<1>2. RunInv' /\ Locals' = AtStart
  BY CallBeginsRun, CallStarts DEF ScanInv, TypeInv
<1> QED
  BY <1>1, <1>2, TypeInvStep, SoundStep, CompleteStep DEF ScanInv, TrailerAtBodyEnd, Finished

LEMMA TrailerStep ==
    ASSUME TypeInv, SoundInv, ScanStep, status' = "Ok", pc' = "idle"
    PROVE  TrailerAtBodyEnd'
<1>1. ScanTrailerValue
  <2>1. ~HeaderStep
    BY HeaderStepFrame
  <2>2. \A v : Return(v) => v = "Ok"
    BY DEF Return
  <2>3. ~ (NextField \/ TagDigit \/ TagEnd \/ ScanBodyValue)
    <3>1. ASSUME NextField PROVE FALSE
      BY <2>2, <3>1 DEF NextField, BeginNumber
    <3>2. ASSUME TagDigit PROVE FALSE
      BY <2>2, <3>2 DEF TagDigit, TakeDigit, Return
    <3>3. ASSUME TagEnd PROVE FALSE
      BY <2>2, <3>3 DEF TagEnd
    <3>4. ASSUME ScanBodyValue PROVE FALSE
      BY <2>2, <3>4 DEF ScanBodyValue, Advance
    <3> QED BY <3>1, <3>2, <3>3, <3>4
  <2> QED BY <2>1, <2>3 DEF ScanStep
<1>2. PICK j \in p .. Len(buf) :
        /\ TrailerVerdict(j) = "Ok"
        /\ out' = PushCheckSum(out, Entry(tagStart, valueStart, j, num))
        /\ bodyEnd' = bodyEnd
  BY <1>1 DEF ScanTrailerValue, Return
<1> DEFINE e == Entry(tagStart, valueStart, j, num)
           r == PushCheckSum(out, e)
<1>3. /\ out \in FieldIndex /\ tagStart = bodyEnd /\ j \in Nat /\ ~TableIsFull(out)
      /\ tagStart \in Nat /\ valueStart \in Nat /\ num \in UInt32 /\ tagStart <= UINT32_MAX
  <2>1. /\ out \in FieldIndex /\ tagStart \in 0 .. Len(buf) /\ valueStart \in 0 .. Len(buf)
        /\ num \in UInt32 /\ p \in 0 .. Len(buf) /\ Len(buf) \in Nat
        /\ Len(buf) <= UINT32_MAX /\ UINT32_MAX \in Nat
    BY WidthAssumption DEF TypeInv, HeaderTypeInv, HeaderTypeOK, SoundInv
  <2>2. tagStart = bodyEnd /\ ~TableIsFull(out)
    BY <1>1, <1>2 DEF ScanTrailerValue, AtTrailer, TrailerVerdict
  <2> QED BY <2>1, <2>2
<1>4. e \in FieldEntry /\ e.tag_start = bodyEnd
  BY <1>3, EntryType, U32Fits DEF Entry
<1> HIDE DEF e
<1>5. Appends(out, e, r) /\ r.checksum_idx = out.field_count
  BY <1>3, <1>4, PushCheckSumAppends
<1>6. out.field_count \in Nat
  BY <1>3 DEF FieldIndex
<1>7. out' = r
  BY <1>2 DEF e
<1> HIDE DEF r
<1>8. Readable(r).checksum_idx = r.checksum_idx
      /\ Readable(r).fields[r.checksum_idx] = r.fields[r.checksum_idx]
  BY <1>5, <1>6 DEF Readable, FieldIndex, Appends
<1> QED BY <1>2, <1>4, <1>5, <1>7, <1>8 DEF TrailerAtBodyEnd, Appends

LEMMA ScanInvStep ==
    ASSUME ScanInv, ScanStep
    PROVE  ScanInv'
<1>1. Statement /\ buf' = buf
  BY StepOutcome DEF Statement
<1>2. TypeInv' /\ SoundInv' /\ CompleteInv'
  BY <1>1, TypeInvStep, SoundStep, CompleteStep DEF ScanInv, SoundInv
<1>3. RunInv'
  BY ScanContinuesRun DEF ScanInv
<1>4. TrailerAtBodyEnd'
  BY TrailerStep DEF ScanInv, TrailerAtBodyEnd, Finished
<1> QED BY <1>2, <1>3, <1>4 DEF ScanInv

LEMMA ScanInvStutter ==
    ASSUME ScanInv, UNCHANGED vars
    PROVE  ScanInv'
<1>1. UNCHANGED <<buf, Locals>>
  BY DEF vars, Locals
<1>2. TypeInv' /\ SoundInv' /\ CompleteInv'
  BY TypeInvStutter, SoundStep, CompleteStep DEF ScanInv, SoundInv, vars
<1>3. RunInv' /\ TrailerAtBodyEnd'
  BY <1>1 DEF ScanInv, RunInv, TrailerAtBodyEnd, Finished, vars
<1> QED BY <1>2, <1>3 DEF ScanInv

(* A caller that drops the index and asks anew with a fresh one.               *)
LEMMA ScanInvFresh ==
    ASSUME ScanInv, pc = "idle", out' = NewIndex, status' = "None",
           UNCHANGED <<buf, pc, p, tagStart, valueStart, num, bodyEnd>>
    PROVE  ScanInv'
<1>1. TypeInv'
  BY NewIndexType DEF ScanInv, TypeInv, HeaderTypeInv, HeaderTypeOK, HeaderCount, RoomForField
<1>2. SoundInv'
  BY DEF ScanInv, SoundInv, HeaderSound, OkIsExact, Finished
<1>3. CompleteInv' /\ RunInv' /\ TrailerAtBodyEnd'
  BY DEF CompleteInv, Follows, HeaderFollows, Finished, RunInv, TrailerAtBodyEnd
<1> QED BY <1>1, <1>2, <1>3 DEF ScanInv

(* A call that has ended has said of every frame that begins the buffer what there *)
(* is to say; and it can be retraced.                                         *)
LEMMA ScanAnswers ==
    ASSUME ScanInv, Finished
    PROVE  /\ buf \in Seq(Byte) /\ out \in FieldIndex /\ status \in Verdict
           /\ status = "Ok" => Readable(out) \in FrameIndices(buf)
           /\ \A o : Whole(buf, o) => Settled(o)
           /\ \E S : Decides(buf, S, status)
<1>1. buf \in Seq(Byte) /\ out \in FieldIndex /\ status \in Verdict
  BY DEF ScanInv, TypeInv, HeaderTypeInv, HeaderTypeOK, Finished
<1>2. status = "Ok" => Readable(out) \in FrameIndices(buf)
  BY DEF ScanInv, SoundInv, OkIsExact
<1>3. ASSUME NEW o, Whole(buf, o) PROVE Settled(o)
  <2>1. Ahead(buf, o)
    BY <1>1, <1>3 DEF Ahead, Alike
  <2> QED BY <2>1 DEF ScanInv, CompleteInv, Follows, HeaderFollows
<1>4. \E S : Decides(buf, S, status)
  BY EndDecides DEF ScanInv, RunInv, Finished
<1> QED BY <1>1, <1>2, <1>3, <1>4
=============================================================================
