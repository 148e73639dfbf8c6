------------------------- MODULE Avx2Scanner_proofs -------------------------
(***************************************************************************)
(* Theorems about the AVX2 scanner, for every set of buffers, every width of *)
(* its integers and of its vectors, and every capacity of its tables.       *)
(***************************************************************************)
EXTENDS Avx2Caller, FixHeader_proofs

(* What the scanner's lemmas are about: a call on any buffer, whoever makes it,   *)
(* or a statement of scan().                                                *)
Statement == (\E b \in Seq(Byte) : Enter(b)) \/ ScanStep

LEMMA NextIsStatement == Next => Statement
BY BuffersAssumption DEF Next, Statement

InPasses == pc \in {"lanes", "mask", "fields", "tag"}

(* Both passes stay before the end of the trailer, which the header has       *)
(* checked to lie in the buffer; pass 2 has a <SOH> for every field it begins, *)
(* and room in the table.                                                   *)
Inside ==
    /\ pc = "body" \/ InPasses => ScanEnd <= Len(buf)
    /\ pc = "mask" => q + Lane <= ScanEnd
    /\ \A n \in 1 .. Len(sohs) : sohs[n] < Len(buf)
    /\ pc \in {"lanes", "mask"} => i = 0
    /\ pc \in {"fields", "tag"} => i < Len(sohs)
    /\ pc = "tag" => MoreFields /\ ~TableIsFull(out)

PassTypeOK ==
    /\ q \in 0 .. Len(buf)
    /\ mask \subseteq 0 .. (Lane - 1)
    /\ sohs \in Seq(UInt32) /\ Len(sohs) <= kMaxFields
    /\ i \in 0 .. kMaxFields

TypeInv == HeaderTypeInv /\ pc \in Label /\ PassTypeOK /\ Inside

LEMMA LowestIsLeast ==
    ASSUME NEW S \in SUBSET Nat, S # {}
    PROVE  Lowest(S) \in S /\ \A n \in S : Lowest(S) <= n
<1>1. \E m \in S : \A n \in S : m <= n
  BY LeastNatural
<1> QED BY <1>1 DEF Lowest

(* A verdict leaves nothing to check.                                         *)
LEMMA ReturnKeepsType ==
    ASSUME TypeInv, NEW v \in Verdict, ReturnInPass(v)
    PROVE  TypeInv'
<1>1. HeaderTypeInv' /\ pc' = "idle" /\ buf' = buf /\ UNCHANGED passVars
  BY ReturnType DEF TypeInv, ReturnInPass, Return
<1>2. PassTypeOK'
  BY <1>1 DEF TypeInv, PassTypeOK, passVars
<1>3. Inside'
  BY <1>1 DEF TypeInv, Inside, InPasses, passVars
<1> QED BY <1>1, <1>2, <1>3 DEF TypeInv, Label

(* So does a step of the passes that leaves the header's variables alone.     *)
LEMMA PassKeepsHeaderType ==
    ASSUME HeaderTypeInv, pc' \in {"lanes", "mask"},
           UNCHANGED <<buf, out, status, p, tagStart, valueStart, num, bodyEnd>>
    PROVE  HeaderTypeInv'
BY DEF HeaderTypeInv, HeaderTypeOK, HeaderCount

LEMMA TypeInvInit == Init => TypeInv
<1> SUFFICES ASSUME Init PROVE TypeInv
  OBVIOUS
<1>1. HeaderTypeInv /\ pc = "idle" /\ buf = << >>
  BY HeaderInitType DEF Init, HeaderInit
<1>2. PassTypeOK
  BY <1>1, CapacityAssumption DEF Init, PassTypeOK
<1>3. Inside
  BY <1>1 DEF Init, Inside, InPasses
<1> QED BY <1>1, <1>2, <1>3 DEF TypeInv, Label

LEMMA EnterType ==
    ASSUME TypeInv, NEW b \in Seq(Byte), Enter(b)
    PROVE  TypeInv'
<1>1. b \in Seq(Byte) /\ Call(b)
  BY DEF Enter
<1>2. HeaderTypeInv' /\ pc' = "tag8" /\ buf' = b
  BY <1>1, CallType DEF TypeInv, Call
<1>3. PassTypeOK'
  BY <1>1, <1>2, CapacityAssumption DEF Enter, EnterPasses, PassTypeOK
<1>4. Inside'
  BY <1>2 DEF Enter, EnterPasses, Inside, InPasses
<1> QED BY <1>2, <1>3, <1>4 DEF TypeInv, Label

LEMMA HeaderType ==
    ASSUME TypeInv, Header
    PROVE  TypeInv'
<1>1. HeaderTypeInv' /\ buf' = buf /\ pc' \in {"idle", "tag9", "length", "tag35", "body"}
  BY HeaderStepType, HeaderStepFrame DEF TypeInv, Header
<1>2. PassTypeOK'
  BY <1>1 DEF TypeInv, Header, PassTypeOK, passVars
<1>3. Inside'
  <2>1. pc' = "body" => ScanEnd' <= Len(buf')
    BY <1>1, HeaderHandsOver DEF TypeInv, Header, ScanEnd
  <2> QED BY <1>1, <2>1 DEF TypeInv, Header, Inside, InPasses, passVars
<1> QED BY <1>1, <1>2, <1>3 DEF TypeInv, Label

LEMMA PassOneType ==
    ASSUME TypeInv, StartPass1 \/ LoadLane \/ NextLane
    PROVE  TypeInv'
<1>1. /\ HeaderTypeInv' /\ pc' \in {"lanes", "mask"}
      /\ UNCHANGED <<buf, out, status, p, tagStart, valueStart, num, bodyEnd>>
  BY PassKeepsHeaderType DEF TypeInv, StartPass1, LoadLane, NextLane
<1>2. /\ p \in 0 .. Len(buf) /\ q \in 0 .. Len(buf) /\ Lane \in Nat /\ Len(buf) \in Nat
      /\ ScanEnd \in Nat /\ ScanEnd' = ScanEnd
  BY <1>1, LaneAssumption DEF TypeInv, HeaderTypeInv, HeaderTypeOK, PassTypeOK, ScanEnd, kTrailer
<1>3. CASE StartPass1
  <2>1. PassTypeOK'
    BY <1>1, <1>2, <1>3, CapacityAssumption DEF StartPass1, PassTypeOK
  <2>2. Inside'
    BY <1>1, <1>2, <1>3 DEF StartPass1, TypeInv, Inside, InPasses
  <2> QED BY <1>1, <2>1, <2>2 DEF TypeInv, Label
<1>4. CASE LoadLane
  <2>1. PassTypeOK'
    BY <1>1, <1>2, <1>4 DEF LoadLane, LaneMask, TypeInv, PassTypeOK
  <2>2. Inside'
    BY <1>1, <1>2, <1>4 DEF LoadLane, MoreLanes, TypeInv, Inside, InPasses
  <2> QED BY <1>1, <2>1, <2>2 DEF TypeInv, Label
<1>5. CASE NextLane
  <2>1. q + Lane <= Len(buf)
    BY <1>2, <1>5 DEF NextLane, TypeInv, Inside, InPasses
  <2>2. PassTypeOK'
    BY <1>1, <1>2, <1>5, <2>1 DEF NextLane, TypeInv, PassTypeOK
  <2>3. Inside'
    BY <1>1, <1>2, <1>5 DEF NextLane, TypeInv, Inside, InPasses
  <2> QED BY <1>1, <2>2, <2>3 DEF TypeInv, Label
<1> QED BY <1>3, <1>4, <1>5

(* Collecting an offset that lies in the buffer.                               *)
LEMMA CollectType ==
    ASSUME TypeInv, ~SohsAreFull, NEW x \in UInt32, x < Len(buf), sohs' = Append(sohs, x),
           buf' = buf
    PROVE  /\ sohs' \in Seq(UInt32) /\ Len(sohs') <= kMaxFields
           /\ \A n \in 1 .. Len(sohs') : sohs'[n] < Len(buf')
<1>1. sohs \in Seq(UInt32) /\ Len(sohs) < kMaxFields /\ kMaxFields \in Nat
  BY CapacityAssumption DEF TypeInv, PassTypeOK, SohsAreFull
<1>2. \A n \in 1 .. Len(sohs) : sohs[n] < Len(buf)
  BY DEF TypeInv, Inside
<1>3. /\ sohs' \in Seq(UInt32) /\ Len(sohs') = Len(sohs) + 1
      /\ \A n \in 1 .. Len(sohs) + 1 : sohs'[n] = IF n <= Len(sohs) THEN sohs[n] ELSE x
  BY <1>1
<1> QED BY <1>1, <1>2, <1>3

LEMMA TakeLowestBitType ==
    ASSUME TypeInv, TakeLowestBit
    PROVE  TypeInv'
<1>1. CASE ReturnInPass("TableFull")
  BY <1>1, ReturnKeepsType DEF Verdict
<1>2. CASE ~ReturnInPass("TableFull")
  <2> DEFINE x == U32(U32(q) + Lowest(mask))
  <2>1. /\ pc = "mask" /\ mask # {} /\ ~SohsAreFull
        /\ sohs' = Append(sohs, x) /\ mask' = mask \ {Lowest(mask)}
        /\ UNCHANGED <<vars, q, i>>
    BY <1>2 DEF TakeLowestBit
  <2>2. /\ q \in Nat /\ Lane \in Nat /\ Len(buf) \in Nat /\ ScanEnd \in Nat
        /\ q + Lane <= ScanEnd /\ ScanEnd <= Len(buf) /\ mask \subseteq 0 .. (Lane - 1)
    BY <2>1, LaneAssumption
    DEF TypeInv, HeaderTypeInv, HeaderTypeOK, PassTypeOK, Inside, InPasses, ScanEnd, kTrailer
  <2>3. Lowest(mask) \in Nat /\ Lowest(mask) < Lane
    <3>1. mask \in SUBSET Nat
      BY <2>2
    <3>2. Lowest(mask) \in mask
      BY <2>1, <3>1, LowestIsLeast
    <3>3. Lowest(mask) \in 0 .. (Lane - 1)
      BY <2>2, <3>2, Zenon
    <3> QED BY <2>2, <3>3
  <2>4. x \in UInt32 /\ x < Len(buf)
    <3>1. U32(q) \in Nat /\ U32(q) <= q
      BY <2>2, U32Type DEF UInt32
    <3>2. U32(q) + Lowest(mask) \in Nat /\ U32(q) + Lowest(mask) < Len(buf)
      BY <2>2, <2>3, <3>1
    <3>3. x \in UInt32 /\ x <= U32(q) + Lowest(mask)
      BY <3>2, U32Type
    <3>4. x \in Nat
      BY <3>3 DEF UInt32
    <3> HIDE DEF x
    <3> QED BY <2>2, <3>1, <2>3, <3>2, <3>3, <3>4
  <2>5. /\ buf' = buf /\ pc' = pc /\ HeaderTypeInv' /\ ScanEnd' = ScanEnd
    BY <2>1 DEF vars, TypeInv, HeaderTypeInv, HeaderTypeOK, HeaderCount, ScanEnd
  <2>6. /\ sohs' \in Seq(UInt32) /\ Len(sohs') <= kMaxFields
        /\ \A n \in 1 .. Len(sohs') : sohs'[n] < Len(buf')
    <3> HIDE DEF x
    <3> QED BY <2>1, <2>4, <2>5, CollectType
  <2>7. PassTypeOK'
    <3> HIDE DEF x
    <3> QED BY <2>1, <2>2, <2>5, <2>6 DEF TypeInv, PassTypeOK
  <2>8. Inside'
    <3> HIDE DEF x
    <3> QED BY <2>1, <2>2, <2>5, <2>6 DEF TypeInv, Inside, InPasses
  <2> QED BY <2>5, <2>7, <2>8 DEF TypeInv
<1> QED BY <1>1, <1>2

LEMMA TailByteType ==
    ASSUME TypeInv, TailByte
    PROVE  TypeInv'
<1>1. CASE ReturnInPass("TableFull")
  BY <1>1, ReturnKeepsType DEF Verdict
<1>2. CASE ~ReturnInPass("TableFull")
  <2>1. /\ pc = "lanes" /\ q < ScanEnd
        /\ ByteAt(buf, q) = Soh => ~SohsAreFull
        /\ sohs' = IF ByteAt(buf, q) = Soh THEN Append(sohs, U32(q)) ELSE sohs
        /\ q' = q + 1
        /\ UNCHANGED <<vars, mask, i>>
    BY <1>2 DEF TailByte
  <2>2. q \in Nat /\ Len(buf) \in Nat /\ ScanEnd \in Nat /\ ScanEnd <= Len(buf)
    BY <2>1 DEF TypeInv, HeaderTypeInv, HeaderTypeOK, PassTypeOK, Inside, InPasses, ScanEnd,
                kTrailer
  <2>3. /\ buf' = buf /\ pc' = pc /\ HeaderTypeInv' /\ ScanEnd' = ScanEnd
    BY <2>1 DEF vars, TypeInv, HeaderTypeInv, HeaderTypeOK, HeaderCount, ScanEnd
  <2>4. U32(q) \in UInt32 /\ U32(q) < Len(buf)
    <3>1. U32(q) \in UInt32 /\ U32(q) <= q /\ U32(q) \in Nat
      BY <2>2, U32Type DEF UInt32
    <3> QED BY <2>1, <2>2, <3>1
  <2>5. /\ sohs' \in Seq(UInt32) /\ Len(sohs') <= kMaxFields
        /\ \A n \in 1 .. Len(sohs') : sohs'[n] < Len(buf')
    <3>1. CASE ByteAt(buf, q) = Soh
      BY <2>1, <2>3, <2>4, <3>1, CollectType
    <3>2. CASE ByteAt(buf, q) # Soh
      BY <2>1, <2>3, <3>2 DEF TypeInv, PassTypeOK, Inside
    <3> QED BY <3>1, <3>2
  <2>6. PassTypeOK'
    BY <2>1, <2>2, <2>3, <2>5 DEF TypeInv, PassTypeOK
  <2>7. Inside'
    BY <2>1, <2>2, <2>3, <2>5 DEF TypeInv, Inside, InPasses
  <2> QED BY <2>3, <2>6, <2>7 DEF TypeInv
<1> QED BY <1>1, <1>2

LEMMA EndPass1Type ==
    ASSUME TypeInv, EndPass1
    PROVE  TypeInv'
<1>1. CASE ReturnInPass("BadBodyLength")
  BY <1>1, ReturnKeepsType DEF Verdict
<1>2. CASE ~ReturnInPass("BadBodyLength")
  <2>1. /\ pc = "lanes" /\ sohs # << >> /\ pc' = "fields" /\ p' = U32(p)
        /\ UNCHANGED <<buf, out, status, tagStart, valueStart, num, bodyEnd, q, mask, sohs, i>>
    BY <1>2 DEF EndPass1, Advance, passVars
  <2>2. p' \in 0 .. Len(buf)
    <3>1. p \in Nat /\ p <= Len(buf) /\ Len(buf) \in Nat
      BY DEF TypeInv, HeaderTypeInv, HeaderTypeOK
    <3>2. U32(p) \in Nat /\ U32(p) <= p
      BY <3>1, U32Type DEF UInt32
    <3> QED BY <2>1, <3>1, <3>2
  <2>3. HeaderTypeInv'
    BY <2>1, <2>2 DEF TypeInv, HeaderTypeInv, HeaderTypeOK, HeaderCount
  <2>4. i < Len(sohs)
    BY <2>1 DEF TypeInv, PassTypeOK, Inside
  <2>5. PassTypeOK' /\ Inside'
    BY <2>1, <2>4 DEF TypeInv, PassTypeOK, Inside, InPasses, ScanEnd
  <2> QED BY <2>1, <2>3, <2>5 DEF TypeInv, Label
<1> QED BY <1>1, <1>2

LEMMA NextFieldType ==
    ASSUME TypeInv, NextField
    PROVE  TypeInv'
<1>1. CASE ReturnInPass("TableFull")
  BY <1>1, ReturnKeepsType DEF Verdict
<1>2. CASE ~ReturnInPass("TableFull")
  <2>1. /\ pc = "fields" /\ MoreFields /\ ~TableIsFull(out) /\ BeginNumber("tag", 0)
        /\ UNCHANGED passVars
    BY <1>2 DEF NextField
  <2>2. HeaderTypeInv'
    BY <2>1, BeginNumberType DEF TypeInv, HeaderTypeInv, HeaderTypeOK
  <2>3. pc' = "tag" /\ UNCHANGED <<buf, out, bodyEnd, q, mask, sohs, i>>
    BY <2>1 DEF BeginNumber, passVars
  <2>4. PassTypeOK' /\ Inside'
    BY <2>1, <2>3 DEF TypeInv, PassTypeOK, Inside, InPasses, ScanEnd, MoreFields, TableIsFull
  <2> QED BY <2>2, <2>3, <2>4 DEF TypeInv, Label
<1> QED BY <1>1, <1>2

LEMMA TagDigitType ==
    ASSUME TypeInv, TagDigit
    PROVE  TypeInv'
<1>1. CASE ReturnInPass("Malformed")
  BY <1>1, ReturnKeepsType DEF Verdict
<1>2. CASE ~ReturnInPass("Malformed")
  <2>1. /\ pc = "tag" /\ p < FieldSoh /\ TakeDigit /\ UNCHANGED passVars
        /\ UNCHANGED <<buf, out, pc, bodyEnd>>
    BY <1>2 DEF TagDigit, TakeDigit, ReturnInPass
  <2>2. p < Len(buf)
    <3>1. i + 1 \in 1 .. Len(sohs) /\ sohs[i + 1] \in UInt32
      BY <2>1 DEF TypeInv, PassTypeOK, Inside, MoreFields
    <3>2. sohs[i + 1] < Len(buf)
      BY <3>1 DEF TypeInv, Inside
    <3> QED BY <2>1, <3>1, <3>2 DEF FieldSoh, UInt32, TypeInv, HeaderTypeInv, HeaderTypeOK
  <2>3. HeaderTypeInv'
    BY <2>1, <2>2, TakeDigitType DEF TypeInv
  <2>4. PassTypeOK' /\ Inside'
    BY <2>1 DEF TypeInv, PassTypeOK, Inside, InPasses, ScanEnd, MoreFields, TableIsFull, passVars
  <2> QED BY <2>1, <2>3, <2>4 DEF TypeInv
<1> QED BY <1>1, <1>2

(* The <SOH> of the field being read, and the offset behind it.                *)
LEMMA FieldSohType ==
    ASSUME TypeInv, pc = "tag"
    PROVE  /\ FieldSoh \in Nat /\ FieldSoh < Len(buf) /\ i + 1 \in 1 .. Len(sohs)
           /\ U32(FieldSoh + 1) \in 0 .. Len(buf)
<1>1. i + 1 \in 1 .. Len(sohs) /\ sohs[i + 1] \in UInt32 /\ Len(buf) \in Nat
  BY DEF TypeInv, PassTypeOK, Inside, MoreFields, HeaderTypeInv, HeaderTypeOK
<1>2. sohs[i + 1] < Len(buf)
  BY <1>1 DEF TypeInv, Inside
<1>3. FieldSoh \in Nat /\ FieldSoh < Len(buf)
  BY <1>1, <1>2 DEF FieldSoh, UInt32
<1>4. U32(FieldSoh + 1) \in Nat /\ U32(FieldSoh + 1) <= FieldSoh + 1
  BY <1>3, U32Type DEF UInt32
<1> QED BY <1>1, <1>3, <1>4

LEMMA TagEndType ==
    ASSUME TypeInv, TagEnd
    PROVE  TypeInv'
<1>1. CASE \E v \in {"Malformed", "FallbackRequested"} : ReturnInPass(v)
  BY <1>1, ReturnKeepsType DEF Verdict
<1>2. CASE ~ \E v \in {"Malformed", "FallbackRequested"} : ReturnInPass(v)
  <2> DEFINE e == Entry(tagStart, p + 1, FieldSoh, num)
  <2>1. /\ pc = "tag" /\ pc' = "fields" /\ p' = U32(FieldSoh + 1) /\ out' = Push(out, e)
        /\ i' = i + 1
        /\ UNCHANGED <<buf, status, tagStart, valueStart, num, bodyEnd, q, mask, sohs>>
    BY <1>2 DEF TagEnd, Advance
  <2>2. /\ FieldSoh \in Nat /\ p' \in 0 .. Len(buf) /\ i + 1 \in 1 .. Len(sohs)
    BY <2>1, FieldSohType
  <2>3. e \in FieldEntry
    BY <2>2, EntryType DEF TypeInv, HeaderTypeInv, HeaderTypeOK
  <2>4. ~TableIsFull(out) /\ MoreFields
    BY <2>1 DEF TypeInv, Inside
  <2>5. out' \in FieldIndex
    <3> HIDE DEF e
    <3> QED BY <2>1, <2>3, <2>4, PushIndex DEF TypeInv, HeaderTypeInv, HeaderTypeOK
  <2> HIDE DEF e
  <2>6. HeaderTypeInv'
    BY <2>1, <2>2, <2>5 DEF TypeInv, HeaderTypeInv, HeaderTypeOK, HeaderCount
  <2>7. PassTypeOK'
    BY <2>1, <2>2, CapacityAssumption DEF TypeInv, PassTypeOK
  <2>8. Inside'
    BY <2>1, <2>4 DEF TypeInv, Inside, InPasses, ScanEnd, MoreFields
  <2> QED BY <2>1, <2>6, <2>7, <2>8 DEF TypeInv, Label
<1> QED BY <1>1, <1>2

LEMMA CheckTrailerType ==
    ASSUME TypeInv, CheckTrailer
    PROVE  TypeInv'
<1>1. CASE \E v \in Verdict : ReturnInPass(v)
  BY <1>1, ReturnKeepsType
<1>2. CASE ~ \E v \in Verdict : ReturnInPass(v)
  <2> DEFINE e == Entry(bodyEnd, bodyEnd + 3, sohs[Len(sohs)], 10)
  <2>1. /\ pc = "fields" /\ TrailerVerdict = "Ok"
        /\ out' = PushCheckSum(out, e) /\ status' = "Ok" /\ pc' = "idle"
        /\ UNCHANGED <<buf, p, tagStart, valueStart, num, bodyEnd, passVars>>
    <3>1. TrailerVerdict \in Verdict
      BY DEF TrailerVerdict, Verdict
    <3> QED BY <1>2, <3>1 DEF CheckTrailer
  <2>2. ~TableIsFull(out)
    BY <2>1 DEF TrailerVerdict
  <2>3. e \in FieldEntry
    <3>1. sohs[Len(sohs)] \in UInt32 /\ bodyEnd \in Nat /\ 10 \in UInt32
      BY <2>1, WidthAssumption
      DEF TypeInv, PassTypeOK, Inside, HeaderTypeInv, HeaderTypeOK, UInt32
    <3>2. sohs[Len(sohs)] \in Nat
      BY <3>1 DEF UInt32
    <3> QED BY <3>1, <3>2, EntryType
  <2> HIDE DEF e
  <2>4. out' \in FieldIndex
    BY <2>1, <2>2, <2>3, PushCheckSumAppends DEF Appends, TypeInv, HeaderTypeInv, HeaderTypeOK
  <2>5. HeaderTypeInv'
    BY <2>1, <2>4 DEF TypeInv, HeaderTypeInv, HeaderTypeOK, HeaderCount, Verdict
  <2>6. PassTypeOK' /\ Inside'
    BY <2>1 DEF TypeInv, PassTypeOK, Inside, InPasses, passVars
  <2> QED BY <2>1, <2>5, <2>6 DEF TypeInv, Label
<1> QED BY <1>1, <1>2

LEMMA TypeInvStep ==
    ASSUME TypeInv, [Statement]_<<vars, passVars>>
    PROVE  TypeInv'
<1>1. CASE UNCHANGED <<vars, passVars>>
  BY <1>1 DEF vars, passVars, TypeInv, HeaderTypeInv, HeaderTypeOK, HeaderCount, PassTypeOK,
     Inside, InPasses, ScanEnd, MoreFields, TableIsFull
<1>2. CASE Statement
  BY <1>2, EnterType, HeaderType, PassOneType, TakeLowestBitType, TailByteType, EndPass1Type,
     NextFieldType, TagDigitType, TagEndType, CheckTrailerType DEF Statement, ScanStep
<1> QED BY <1>1, <1>2

LEMMA TypeInvariance == Spec => []TypeInv
<1>1. TypeInv /\ [Next]_<<vars, passVars>> => TypeInv'
  BY TypeInvStep, NextIsStatement
<1> QED BY <1>1, TypeInvInit, PTL DEF Spec

(* Every cursor stays in the buffer, every bit in its lane and every offset    *)
(* table within its capacity, whatever bytes arrive.                        *)
THEOREM TypeCorrect == Spec => []TypeOK
<1>1. TypeInv => TypeOK
  BY DEF TypeInv, HeaderTypeInv, PassTypeOK, TypeOK
<1> QED BY <1>1, TypeInvariance, PTL

(* No vector load reads past the caller's buffer, whatever the lane width and  *)
(* wherever the buffer ends.                                                *)
THEOREM LoadsAreInBounds == Spec => LoadsStayInBuffer
<1>1. ASSUME TypeInv, [Next]_<<vars, passVars>>, pc = "lanes", pc' = "mask"
      PROVE  q + Lane <= Len(buf)
  <2>1. MoreLanes
    <3>1. ASSUME NEW v, ReturnInPass(v) PROVE FALSE
      BY <1>1, <3>1 DEF ReturnInPass, Return
    <3> QED
      BY <1>1, <3>1 DEF vars, Next, Enter, Call, ScanStep, Header, HeaderStep,
         ScanBeginString, ScanBodyLengthTag, BodyLengthDigit, BodyLengthEnd, ScanMsgType,
         StartPass1, LoadLane, TakeLowestBit, NextLane, TailByte, EndPass1, NextField,
         TagDigit, TagEnd, CheckTrailer, Advance
  <2>2. ScanEnd <= Len(buf)
    BY <1>1 DEF TypeInv, Inside, InPasses
  <2> QED
    BY <1>1, <2>1, <2>2, LaneAssumption
    DEF MoreLanes, ScanEnd, kTrailer, TypeInv, HeaderTypeInv, HeaderTypeOK, PassTypeOK
<1> QED BY <1>1, TypeInvariance, PTL DEF Spec, LoadsStayInBuffer

(* Neither the body length nor a tag ever wraps around its accumulator.        *)
THEOREM NumbersNeverWrap == Spec => NumberNeverWraps
<1>1. ASSUME TypeInv, [Next]_<<vars, passVars>>, pc \in {"length", "tag"}, pc' = pc, p' = p + 1
      PROVE  num' = num * 10 + ByteAt(buf, p)
  <2>0. p # p + 1 /\ num \in UInt32
    BY <1>1 DEF TypeInv, HeaderTypeInv, HeaderTypeOK
  <2>1. TakeDigit /\ ~Return("Malformed")
    <3>1. ~UNCHANGED <<vars, passVars>>
      BY <1>1, <2>0 DEF vars
    <3>2. ASSUME NEW v, Return(v) PROVE FALSE
      BY <1>1, <3>2 DEF Return
    <3>3. BodyLengthDigit \/ TagDigit
      BY <1>1, <3>1, <3>2 DEF Next, Enter, Call, ScanStep, Header, HeaderStep,
         ScanBeginString, ScanBodyLengthTag, BodyLengthEnd, ScanMsgType, ReturnInPass,
         StartPass1, LoadLane, TakeLowestBit, NextLane, TailByte, EndPass1, NextField,
         TagEnd, CheckTrailer, Advance, BeginNumber
    <3> QED BY <3>2, <3>3 DEF BodyLengthDigit, TagDigit
  <2>2. /\ ByteAt(buf, p) \in Digit /\ ~Saturated(num)
        /\ num' = Accumulate(num, ByteAt(buf, p))
    BY <2>1 DEF TakeDigit, IsDigit
  <2> QED BY <2>0, <2>2, AccumulateFits
<1> QED BY <1>1, TypeInvariance, PTL DEF Spec, NumberNeverWraps

-----------------------------------------------------------------------------
AtBody == pc \in {"body", "lanes", "mask"} =>
              BodyReached(buf, out, p, bodyEnd) /\ p = BodyStart

(* Pass 1: what has been collected is what lies before the cursor and, of the *)
(* current lane, before the bits that are left.                             *)
Collected ==
    /\ pc = "lanes" => /\ p <= q /\ (q = p \/ q <= ScanEnd)
                       /\ Lists(sohs, SohsFrom(p, q))
    /\ pc = "mask" => /\ p <= q /\ mask \subseteq LaneMask
                      /\ \A m \in LaneMask \ mask, n \in mask : m < n
                      /\ Lists(sohs, SohsFrom(p, q) \cup {q + m : m \in LaneMask \ mask})
    /\ PassOneFindsEverySoh

(* Pass 2: a field begins behind the <SOH> before it.                         *)
FieldStart == IF i = 0 THEN BodyStart ELSE sohs[i] + 1

ReadingTag ==
    /\ BodyReached(buf, out, tagStart, bodyEnd)
    /\ tagStart = FieldStart
    /\ tagStart <= p /\ p <= FieldSoh
    /\ \A k \in tagStart .. (p - 1) : IsDigit(ByteAt(buf, k))
    /\ NumberRead(num, buf, tagStart, p)

Parsed ==
    /\ pc = "fields" => BodyReached(buf, out, p, bodyEnd) /\ p = FieldStart
    /\ pc = "tag" => ReadingTag

SoundInv ==
    /\ Len(buf) <= UINT32_MAX
    /\ HeaderSound
    /\ AtBody
    /\ Collected
    /\ Parsed
    /\ OkIsExact

LEMMA SoundInit == Init => SoundInv
<1>1. Init => Len(buf) <= UINT32_MAX
  BY WidthAssumption DEF Init, HeaderInit
<1> QED
  BY <1>1 DEF Init, HeaderInit, SoundInv, HeaderSound, AtBody, Collected,
     PassOneFindsEverySoh, Parsed, OkIsExact, Finished

LEMMA ReturnKeepsSound ==
    ASSUME SoundInv, NEW v \in Verdict \ {"Ok"}, ReturnInPass(v)
    PROVE  SoundInv'
BY DEF ReturnInPass, Return, SoundInv, HeaderSound, AtBody, Collected,
   PassOneFindsEverySoh, Parsed, OkIsExact, Finished

LEMMA EnterSound ==
    ASSUME TypeInv, NEW b \in Seq(Byte), Len(b) <= UINT32_MAX, Enter(b)
    PROVE  SoundInv'
<1>1. /\ out' \in FieldIndex /\ out'.field_count = 0 /\ pc' = "tag8" /\ buf' = b
      /\ status' = "None"
  BY ResetIndex DEF Enter, Call, TypeInv, HeaderTypeInv, HeaderTypeOK
<1>2. Stored(b, out', 0)
  BY <1>1 DEF Stored
<1> QED
  BY <1>1, <1>2 DEF SoundInv, HeaderSound, AtBody, Collected, PassOneFindsEverySoh, Parsed,
     OkIsExact, Finished

LEMMA HeaderKeepsSound ==
    ASSUME TypeInv, SoundInv, Header
    PROVE  SoundInv'
<1>1. /\ HeaderSound' /\ buf' = buf /\ pc' \in {"idle", "tag9", "length", "tag35", "body"}
      /\ pc' = "idle" => status' # "Ok"
  BY HeaderStepSound, HeaderStepFrame DEF TypeInv, SoundInv, Header
<1>2. AtBody'
  <2> SUFFICES ASSUME pc' = "body"
               PROVE  BodyReached(buf', out', p', bodyEnd') /\ p' = BodyStart'
    BY <1>1 DEF AtBody
  <2>1. BodyReached(buf', out', p', bodyEnd')
    BY <1>1 DEF HeaderSound
  <2>2. out'.field_count = 3
    BY HeaderHandsOver DEF TypeInv, Header
  <2> QED BY <2>1, <2>2 DEF BodyReached, Stored, HasMsgType, BodyStart
<1> QED
  BY <1>1, <1>2 DEF SoundInv, Collected, PassOneFindsEverySoh, Parsed, OkIsExact, Finished

-----------------------------------------------------------------------------
(* Pass 1.                                                                  *)

(* An offset behind all the listed ones lengthens the list.                   *)
LEMMA ListsAppend ==
    ASSUME NEW s \in Seq(UInt32), NEW S, Lists(s, S), NEW x \in UInt32, \A y \in S : y < x
    PROVE  Lists(Append(s, x), S \cup {x})
<1> DEFINE r == Append(s, x)
           N == Len(s)
<1>1. /\ N \in Nat /\ Len(r) = N + 1 /\ r[N + 1] = x /\ \A n \in 1 .. N : r[n] = s[n]
  OBVIOUS
<1>2. \A n \in 1 .. N : s[n] \in S
  BY DEF Lists
<1> HIDE DEF r, N
<1>3. \A n \in 1 .. (N + 1) : n \in 1 .. N \/ n = N + 1
  BY <1>1
<1>4. ASSUME NEW m \in 1 .. (N + 1), NEW n \in 1 .. (N + 1), m < n
      PROVE  r[m] < r[n]
  <2>1. m \in 1 .. N
    BY <1>1, <1>4
  <2>2. CASE n = N + 1
    BY <1>1, <1>2, <2>1, <2>2
  <2>3. CASE n # N + 1
    <3>1. n \in 1 .. N /\ s[m] < s[n]
      BY <1>3, <1>4, <2>1, <2>3 DEF Lists, N
    <3> QED BY <1>1, <2>1, <3>1
  <2> QED BY <2>2, <2>3
<1>5. {r[n] : n \in 1 .. (N + 1)} = S \cup {x}
  <2>1. N + 1 \in 1 .. (N + 1) /\ \A n \in 1 .. N : n \in 1 .. (N + 1)
    BY <1>1
  <2>2. S = {s[n] : n \in 1 .. N}
    BY DEF Lists, N
  <2> QED BY <1>1, <1>3, <2>1, <2>2
<1> QED BY <1>1, <1>4, <1>5 DEF Lists, r

(* The steps of pass 1 keep what the header has established.                  *)
LEMMA PassOneFrame ==
    ASSUME SoundInv, pc \in {"body", "lanes", "mask"}, pc' \in {"lanes", "mask"},
           UNCHANGED <<buf, out, status, p, tagStart, valueStart, num, bodyEnd>>,
           Collected'
    PROVE  SoundInv'
<1>1. BodyStart' = BodyStart
  BY DEF BodyStart
<1> QED BY <1>1 DEF SoundInv, HeaderSound, AtBody, Parsed, OkIsExact, Finished

LEMMA StartPass1Sound ==
    ASSUME TypeInv, SoundInv, StartPass1
    PROVE  SoundInv'
<1>1. p \in Nat
  BY DEF TypeInv, HeaderTypeInv, HeaderTypeOK
<1>2. SohsFrom(p, q)' = {}
  BY <1>1 DEF SohsFrom, StartPass1
<1>3. Lists(sohs', SohsFrom(p, q)')
  BY <1>2 DEF Lists, StartPass1
<1>4. Collected'
  BY <1>1, <1>3 DEF StartPass1, Collected, PassOneFindsEverySoh
<1> QED BY <1>4, PassOneFrame DEF StartPass1

LEMMA LoadLaneSound ==
    ASSUME TypeInv, SoundInv, LoadLane
    PROVE  SoundInv'
<1>1. /\ pc = "lanes" /\ pc' = "mask" /\ mask' = LaneMask
      /\ UNCHANGED <<buf, out, status, p, tagStart, valueStart, num, bodyEnd, q, sohs, i>>
  BY DEF LoadLane
<1>2. p <= q /\ Lists(sohs, SohsFrom(p, q))
  BY <1>1 DEF SoundInv, Collected
<1>3. LaneMask' = LaneMask /\ SohsFrom(p, q)' = SohsFrom(p, q)
  BY <1>1 DEF LaneMask, SohsFrom
<1>4. SohsFrom(p, q)' \cup {q' + m : m \in LaneMask' \ mask'} = SohsFrom(p, q)
  BY <1>1, <1>3
<1>5. Lists(sohs', SohsFrom(p, q)' \cup {q' + m : m \in LaneMask' \ mask'})
  BY <1>1, <1>2, <1>4 DEF Lists
<1>6. Collected'
  BY <1>1, <1>2, <1>3, <1>5 DEF Collected, PassOneFindsEverySoh
<1> QED BY <1>1, <1>6, PassOneFrame

LEMMA NextLaneSound ==
    ASSUME TypeInv, SoundInv, NextLane
    PROVE  SoundInv'
<1>1. /\ pc = "mask" /\ pc' = "lanes" /\ mask = {} /\ q' = q + Lane
      /\ UNCHANGED <<buf, out, status, p, tagStart, valueStart, num, bodyEnd, mask, sohs, i>>
  BY DEF NextLane
<1>2. /\ p \in Nat /\ q \in Nat /\ Lane \in Nat /\ ScanEnd \in Nat /\ Len(buf) \in Nat
      /\ q + Lane <= ScanEnd /\ ScanEnd <= Len(buf)
  BY <1>1, LaneAssumption
  DEF TypeInv, HeaderTypeInv, HeaderTypeOK, PassTypeOK, Inside, InPasses, ScanEnd, kTrailer
<1>3. p <= q /\ Lists(sohs, SohsFrom(p, q) \cup {q + m : m \in LaneMask})
  <2>1. LaneMask \ mask = LaneMask
    BY <1>1
  <2> QED BY <1>1, <2>1 DEF SoundInv, Collected
<1>4. SohsFrom(p, q) \cup {q + m : m \in LaneMask} = SohsFrom(p, q + Lane)
  <2>1. ASSUME NEW k \in SohsFrom(p, q + Lane), k \notin SohsFrom(p, q)
        PROVE  k \in {q + m : m \in LaneMask}
    <3>0. k \in p .. (q + Lane - 1) /\ ByteAt(buf, k) = Soh
      BY <1>2, <2>1 DEF SohsFrom
    <3>1. k \notin p .. (q - 1)
      BY <2>1, <3>0 DEF SohsFrom
    <3>2. k - q \in 0 .. (Lane - 1) /\ q + (k - q) = k /\ k < Len(buf)
      BY <1>2, <3>0, <3>1
    <3>3. k - q \in LaneMask
      BY <3>0, <3>2 DEF LaneMask
    <3> QED BY <3>2, <3>3
  <2>2. \A k \in SohsFrom(p, q) : k \in SohsFrom(p, q + Lane)
    BY <1>2 DEF SohsFrom
  <2>3. \A m \in LaneMask : q + m \in SohsFrom(p, q + Lane)
    BY <1>2, <1>3 DEF SohsFrom, LaneMask
  <2> QED BY <2>1, <2>2, <2>3
<1>5. SohsFrom(p, q)' = SohsFrom(p, q + Lane)
  BY <1>1 DEF SohsFrom
<1>6. ScanEnd' = ScanEnd
  BY <1>1 DEF ScanEnd
<1>7. Collected'
  <2>1. Lists(sohs', SohsFrom(p, q)')
    BY <1>1, <1>3, <1>4, <1>5 DEF Lists
  <2> QED BY <1>1, <1>2, <1>3, <1>6, <2>1 DEF Collected, PassOneFindsEverySoh
<1> QED BY <1>1, <1>7, PassOneFrame

LEMMA TakeLowestBitSound ==
    ASSUME TypeInv, SoundInv, TakeLowestBit
    PROVE  SoundInv'
<1>1. CASE ReturnInPass("TableFull")
  BY <1>1, ReturnKeepsSound DEF Verdict
<1>2. CASE ~ReturnInPass("TableFull")
  <2> DEFINE low == Lowest(mask)
             S == SohsFrom(p, q) \cup {q + m : m \in LaneMask \ mask}
  <2>1. /\ pc = "mask" /\ mask # {} /\ sohs' = Append(sohs, U32(U32(q) + low))
        /\ mask' = mask \ {low}
        /\ UNCHANGED <<buf, out, status, pc, p, tagStart, valueStart, num, bodyEnd, q, i>>
    BY <1>2 DEF TakeLowestBit, vars
  <2>2. /\ p \in Nat /\ q \in Nat /\ Lane \in Nat /\ ScanEnd \in Nat /\ Len(buf) \in Nat
        /\ q + Lane <= Len(buf) /\ Len(buf) <= UINT32_MAX
        /\ mask \in SUBSET Nat /\ sohs \in Seq(UInt32)
    BY <2>1, LaneAssumption
    DEF TypeInv, HeaderTypeInv, HeaderTypeOK, PassTypeOK, Inside, InPasses, ScanEnd, kTrailer,
        SoundInv
  <2>3. low \in mask /\ \A n \in mask : low <= n
    BY <2>1, <2>2, LowestIsLeast
  <2>4. /\ p <= q /\ mask \subseteq LaneMask /\ Lists(sohs, S)
        /\ \A m \in LaneMask \ mask, n \in mask : m < n
    BY <2>1 DEF SoundInv, Collected
  <2>5. low \in LaneMask /\ low \in Nat /\ low < Lane
    <3>1. low \in LaneMask
      BY <2>3, <2>4, Zenon
    <3> HIDE DEF low
    <3> QED BY <2>2, <3>1 DEF LaneMask
  <2> HIDE DEF low
  <2>6. U32(U32(q) + low) = q + low /\ q + low \in UInt32
    <3>1. q <= UINT32_MAX /\ q + low \in Nat /\ q + low <= UINT32_MAX
      BY <2>2, <2>5, WidthAssumption
    <3> QED BY <2>2, <3>1, U32Fits DEF UInt32
  <2>7. \A y \in S : y < q + low
    <3>1. \A y \in SohsFrom(p, q) : y < q + low
      BY <2>2, <2>5 DEF SohsFrom
    <3>2. \A m \in LaneMask \ mask : q + m < q + low
      <4>1. \A m \in LaneMask \ mask : m < low /\ m \in Int
        BY <2>2, <2>3, <2>4 DEF LaneMask
      <4> QED BY <2>2, <2>5, <4>1
    <3> QED BY <3>1, <3>2
  <2>8. Lists(sohs', S \cup {q + low})
    <3> HIDE DEF S
    <3> QED BY <2>1, <2>2, <2>4, <2>6, <2>7, ListsAppend
  <2>9. LaneMask' = LaneMask /\ SohsFrom(p, q)' = SohsFrom(p, q)
    BY <2>1 DEF LaneMask, SohsFrom
  <2>10. LaneMask \ mask' = (LaneMask \ mask) \cup {low}
    BY <2>1, <2>3, <2>4
  <2>11. SohsFrom(p, q)' \cup {q' + m : m \in LaneMask' \ mask'} = S \cup {q + low}
    BY <2>1, <2>9, <2>10
  <2>12. \A m \in LaneMask' \ mask', n \in mask' : m < n
    <3>1. \A n \in mask' : n \in mask /\ low < n
      BY <2>1, <2>2, <2>3
    <3> QED BY <2>4, <2>9, <2>10, <3>1
  <2>13. Collected'
    <3> HIDE DEF S
    <3>1. Lists(sohs', SohsFrom(p, q)' \cup {q' + m : m \in LaneMask' \ mask'})
      BY <2>8, <2>11 DEF Lists
    <3>2. mask' \subseteq LaneMask'
      BY <2>1, <2>4, <2>9
    <3> QED BY <2>1, <2>4, <2>12, <3>1, <3>2 DEF Collected, PassOneFindsEverySoh
  <2> QED BY <2>1, <2>13, PassOneFrame
<1> QED BY <1>1, <1>2

LEMMA TailByteSound ==
    ASSUME TypeInv, SoundInv, TailByte
    PROVE  SoundInv'
<1>1. CASE ReturnInPass("TableFull")
  BY <1>1, ReturnKeepsSound DEF Verdict
<1>2. CASE ~ReturnInPass("TableFull")
  <2>1. /\ pc = "lanes" /\ q < ScanEnd /\ q' = q + 1
        /\ sohs' = IF ByteAt(buf, q) = Soh THEN Append(sohs, U32(q)) ELSE sohs
        /\ UNCHANGED <<buf, out, status, pc, p, tagStart, valueStart, num, bodyEnd, mask, i>>
    BY <1>2 DEF TailByte, vars
  <2>2. /\ p \in Nat /\ q \in Nat /\ ScanEnd \in Nat /\ q <= UINT32_MAX
        /\ sohs \in Seq(UInt32) /\ p <= q /\ Lists(sohs, SohsFrom(p, q))
    <3>1. /\ p \in Nat /\ q \in Nat /\ ScanEnd \in Nat /\ q <= Len(buf) /\ Len(buf) \in Nat
          /\ sohs \in Seq(UInt32)
      BY DEF TypeInv, HeaderTypeInv, HeaderTypeOK, PassTypeOK, ScanEnd, kTrailer
    <3>2. Len(buf) <= UINT32_MAX /\ p <= q /\ Lists(sohs, SohsFrom(p, q))
      BY <2>1 DEF SoundInv, Collected
    <3> QED BY <3>1, <3>2, WidthAssumption
  <2>3. SohsFrom(p, q)' = IF ByteAt(buf, q) = Soh THEN SohsFrom(p, q) \cup {q}
                                                  ELSE SohsFrom(p, q)
    <3>1. p' .. (q' - 1) = (p .. (q - 1)) \cup {q}
      BY <2>1, <2>2
    <3>2. SohsFrom(p, q)' = {k \in (p .. (q - 1)) \cup {q} : ByteAt(buf, k) = Soh}
      BY <2>1, <3>1 DEF SohsFrom
    <3> QED BY <3>2 DEF SohsFrom
  <2>4. Lists(sohs', SohsFrom(p, q)')
    <3>1. CASE ByteAt(buf, q) = Soh
      <4>1. U32(q) = q /\ q \in UInt32
        BY <2>2, U32Fits DEF UInt32
      <4>2. \A y \in SohsFrom(p, q) : y < q
        BY <2>2 DEF SohsFrom
      <4>3. Lists(sohs', SohsFrom(p, q) \cup {q})
        BY <2>1, <2>2, <3>1, <4>1, <4>2, ListsAppend
      <4> QED BY <2>3, <3>1, <4>3 DEF Lists
    <3>2. CASE ByteAt(buf, q) # Soh
      BY <2>1, <2>2, <2>3, <3>2 DEF Lists
    <3> QED BY <3>1, <3>2
  <2>5. ScanEnd' = ScanEnd
    BY <2>1 DEF ScanEnd
  <2>6. Collected'
    BY <2>1, <2>2, <2>4, <2>5 DEF Collected, PassOneFindsEverySoh
  <2> QED BY <2>1, <2>6, PassOneFrame
<1> QED BY <1>1, <1>2

LEMMA EndPass1Sound ==
    ASSUME TypeInv, SoundInv, EndPass1
    PROVE  SoundInv'
<1>1. CASE ReturnInPass("BadBodyLength")
  BY <1>1, ReturnKeepsSound DEF Verdict
<1>2. CASE ~ReturnInPass("BadBodyLength")
  <2>1. /\ pc = "lanes" /\ q >= ScanEnd /\ sohs # << >> /\ pc' = "fields" /\ p' = U32(p)
        /\ UNCHANGED <<buf, out, status, tagStart, valueStart, num, bodyEnd, q, mask, sohs, i>>
    BY <1>2 DEF EndPass1, Advance, passVars
  <2>2. /\ p \in Nat /\ q \in Nat /\ ScanEnd \in Nat /\ sohs \in Seq(UInt32) /\ i = 0
        /\ U32(p) = p
    <3>1. p \in Nat /\ p <= Len(buf) /\ Len(buf) \in Nat /\ Len(buf) <= UINT32_MAX
      BY DEF TypeInv, HeaderTypeInv, HeaderTypeOK, SoundInv
    <3>2. U32(p) = p
      BY <3>1, WidthAssumption, U32Fits
    <3> QED
      BY <2>1, <3>1, <3>2
      DEF TypeInv, HeaderTypeInv, HeaderTypeOK, PassTypeOK, Inside, ScanEnd, kTrailer
  <2>3. /\ q = p \/ q <= ScanEnd
        /\ Lists(sohs, SohsFrom(p, q))
        /\ BodyReached(buf, out, p, bodyEnd) /\ p = BodyStart
    BY <2>1 DEF SoundInv, Collected, AtBody
  <2>4. q = ScanEnd
    <3>1. sohs[1] \in SohsFrom(p, q)
      BY <2>1, <2>2, <2>3 DEF Lists
    <3>2. q # p
      BY <2>2, <3>1 DEF SohsFrom
    <3> QED BY <2>1, <2>2, <2>3, <3>2
  <2>5. BodyStart' = BodyStart /\ SohsFrom(BodyStart, ScanEnd)' = SohsFrom(p, q)
    BY <2>1, <2>3, <2>4 DEF BodyStart, ScanEnd, SohsFrom
  <2>6. Collected'
    <3>1. Lists(sohs', SohsFrom(BodyStart, ScanEnd)')
      BY <2>1, <2>3, <2>5 DEF Lists
    <3> QED BY <2>1, <3>1 DEF Collected, PassOneFindsEverySoh
  <2>7. Parsed'
    BY <2>1, <2>2, <2>3, <2>5 DEF Parsed, FieldStart
  <2> QED
    BY <2>1, <2>6, <2>7 DEF SoundInv, HeaderSound, AtBody, OkIsExact, Finished
<1> QED BY <1>1, <1>2

-----------------------------------------------------------------------------
(* Pass 2.                                                                  *)

LEMMA BodyStartType ==
    ASSUME TypeInv, NEW end, BodyReached(buf, out, end, bodyEnd)
    PROVE  BodyStart \in Nat
<1>1. out.msg_type_idx = 2 /\ out \in FieldIndex /\ 2 \in 0 .. (kMaxFields - 1)
  BY CapacityAssumption DEF BodyReached, HasMsgType, TypeInv, HeaderTypeInv, HeaderTypeOK
<1>2. out.fields[2] \in FieldEntry
  BY <1>1 DEF FieldIndex
<1> QED BY <1>1, <1>2 DEF BodyStart, FieldEntry, UInt32

(* The next collected offset is the first <SOH> at or behind the start of the *)
(* field, whatever fields came before.                                      *)
LEMMA FieldExtent ==
    ASSUME TypeInv, SoundInv, pc \in {"fields", "tag"},
           NEW end, BodyReached(buf, out, end, bodyEnd)
    PROVE  /\ FieldStart \in Nat /\ FieldSoh \in Nat /\ FieldStart <= FieldSoh
           /\ FieldSoh < Len(buf) /\ ByteAt(buf, FieldSoh) = Soh
           /\ \A k \in FieldStart .. (FieldSoh - 1) : ByteAt(buf, k) # Soh
<1> DEFINE S == SohsFrom(BodyStart, ScanEnd)
<1>1. /\ sohs \in Seq(UInt32) /\ i \in Nat /\ Len(sohs) \in Nat /\ i < Len(sohs)
      /\ ScanEnd \in Nat /\ ScanEnd <= Len(buf) /\ Len(buf) \in Nat
  BY DEF TypeInv, HeaderTypeInv, HeaderTypeOK, PassTypeOK, Inside, InPasses, ScanEnd, kTrailer
<1>2. BodyStart \in Nat
  BY BodyStartType
<1>3. Lists(sohs, S)
  BY DEF SoundInv, Collected, PassOneFindsEverySoh
<1>4. ASSUME NEW n \in 1 .. Len(sohs)
      PROVE  /\ sohs[n] \in Nat /\ BodyStart <= sohs[n] /\ sohs[n] < ScanEnd
             /\ ByteAt(buf, sohs[n]) = Soh
  <2>1. sohs[n] \in S
    BY <1>3 DEF Lists
  <2> QED BY <1>1, <1>2, <2>1 DEF SohsFrom, UInt32
<1>5. i + 1 \in 1 .. Len(sohs) /\ (i # 0 => i \in 1 .. Len(sohs))
  BY <1>1
<1>6. /\ FieldStart \in Nat /\ BodyStart <= FieldStart
      /\ i # 0 => FieldStart = sohs[i] + 1
  BY <1>2, <1>4, <1>5 DEF FieldStart
<1>7. FieldSoh \in Nat /\ FieldSoh < ScanEnd /\ ByteAt(buf, FieldSoh) = Soh
  BY <1>4, <1>5 DEF FieldSoh
<1>8. FieldStart <= FieldSoh
  <2>1. CASE i = 0
    BY <1>4, <1>5, <2>1 DEF FieldStart, FieldSoh
  <2>2. CASE i # 0
    <3>1. sohs[i] < sohs[i + 1] /\ sohs[i] \in Nat /\ sohs[i + 1] \in Nat
      BY <1>1, <1>3, <1>4, <1>5, <2>2 DEF Lists
    <3> QED BY <1>6, <2>2, <3>1 DEF FieldSoh
  <2> QED BY <2>1, <2>2
<1>9. ASSUME NEW k \in FieldStart .. (FieldSoh - 1), ByteAt(buf, k) = Soh
      PROVE  FALSE
  <2>1. k \in Nat /\ FieldStart <= k /\ k < FieldSoh
    BY <1>6, <1>7
  <2>2. k \in S
    BY <1>1, <1>2, <1>6, <1>7, <1>9, <2>1 DEF SohsFrom
  <2>3. PICK n \in 1 .. Len(sohs) : sohs[n] = k
    BY <1>3, <2>2 DEF Lists
  <2>4. CASE n > i + 1
    BY <1>1, <1>3, <1>4, <1>5, <1>7, <2>1, <2>3, <2>4 DEF Lists, FieldSoh
  <2>5. CASE n = i + 1
    BY <2>1, <2>3, <2>5, <1>7 DEF FieldSoh
  <2>6. CASE n < i + 1
    <3>1. i # 0 /\ i \in 1 .. Len(sohs) /\ n <= i
      BY <1>1, <2>6
    <3>2. n # i => sohs[n] < sohs[i]
      BY <1>1, <1>3, <3>1 DEF Lists
    <3>3. sohs[n] <= sohs[i]
      BY <1>4, <3>1, <3>2
    <3> QED BY <1>4, <1>6, <2>1, <2>3, <3>1, <3>3
  <2> QED BY <1>1, <2>4, <2>5, <2>6
<1> QED BY <1>1, <1>6, <1>7, <1>8, <1>9

(* The steps of pass 2 leave the header, and the collected offsets, alone.     *)
LEMMA PassTwoFrame ==
    ASSUME SoundInv, pc \in {"fields", "tag"}, pc' \in {"fields", "tag"},
           UNCHANGED <<buf, bodyEnd, sohs>>, BodyStart' = BodyStart, Parsed'
    PROVE  SoundInv'
<1>1. PassOneFindsEverySoh'
  BY DEF SoundInv, Collected, PassOneFindsEverySoh, SohsFrom, ScanEnd, Lists
<1> QED BY <1>1 DEF SoundInv, HeaderSound, AtBody, Collected, OkIsExact, Finished

LEMMA NextFieldSound ==
    ASSUME TypeInv, SoundInv, NextField
    PROVE  SoundInv'
<1>1. CASE ReturnInPass("TableFull")
  BY <1>1, ReturnKeepsSound DEF Verdict
<1>2. CASE ~ReturnInPass("TableFull")
  <2>1. pc = "fields" /\ BeginNumber("tag", 0) /\ UNCHANGED passVars /\ p \in Nat
    BY <1>2 DEF NextField, TypeInv, HeaderTypeInv, HeaderTypeOK
  <2>2. /\ pc' = "tag" /\ tagStart' = p /\ p' = p /\ num' = 0
        /\ UNCHANGED <<buf, out, bodyEnd, sohs, i>>
    BY <2>1 DEF BeginNumber, passVars
  <2>3. BodyReached(buf, out, p, bodyEnd) /\ p = FieldStart
    BY <2>1 DEF SoundInv, Parsed
  <2>4. FieldStart <= FieldSoh
    BY <2>1, <2>3, FieldExtent
  <2>5. BodyStart' = BodyStart
    BY <2>2 DEF BodyStart
  <2>6. FieldStart' = FieldStart /\ FieldSoh' = FieldSoh
    BY <2>2, <2>5 DEF FieldStart, FieldSoh
  <2>7. ReadingTag'
    <3>1. NumberRead(num', buf', tagStart', p')
      BY <2>1, <2>2, NothingRead
    <3> QED BY <2>1, <2>2, <2>3, <2>4, <2>6, <3>1 DEF ReadingTag
  <2> QED BY <2>1, <2>2, <2>5, <2>7, PassTwoFrame DEF Parsed
<1> QED BY <1>1, <1>2

LEMMA TagDigitSound ==
    ASSUME TypeInv, SoundInv, TagDigit
    PROVE  SoundInv'
<1>1. CASE ReturnInPass("Malformed")
  BY <1>1, ReturnKeepsSound DEF Verdict
<1>2. CASE ~ReturnInPass("Malformed")
  <2>1. /\ pc = "tag" /\ pc' = "tag" /\ p < FieldSoh /\ p' = p + 1 /\ IsDigit(ByteAt(buf, p))
        /\ TakeDigit
        /\ UNCHANGED <<buf, out, tagStart, bodyEnd, sohs, i>>
    BY <1>2 DEF TagDigit, TakeDigit, ReturnInPass, passVars
  <2>2. ReadingTag
    BY <2>1 DEF SoundInv, Parsed
  <2>3. p \in Nat /\ tagStart \in Nat /\ FieldSoh \in Nat /\ p < Len(buf)
    <3>1. FieldSoh \in Nat /\ FieldSoh < Len(buf)
      BY <2>1, FieldSohType
    <3> QED BY <2>1, <3>1 DEF TypeInv, HeaderTypeInv, HeaderTypeOK
  <2>4. BodyStart' = BodyStart
    BY <2>1 DEF BodyStart
  <2>5. FieldStart' = FieldStart /\ FieldSoh' = FieldSoh
    BY <2>1, <2>4 DEF FieldStart, FieldSoh
  <2>6. ReadingTag'
    <3>1. NumberRead(num', buf', tagStart', p')
      BY <2>1, <2>2, <2>3, TakeDigitDecimal DEF ReadingTag, TypeInv
    <3>2. \A k \in tagStart .. p : k = p \/ k \in tagStart .. (p - 1)
      BY <2>3
    <3>3. \A k \in tagStart' .. (p' - 1) : IsDigit(ByteAt(buf', k))
      BY <2>1, <2>2, <2>3, <3>2 DEF ReadingTag
    <3> QED BY <2>1, <2>2, <2>3, <2>5, <3>1, <3>3 DEF ReadingTag
  <2> QED BY <2>1, <2>4, <2>6, PassTwoFrame DEF Parsed
<1> QED BY <1>1, <1>2

(* A field that pass 2 has read to its end is stored.                          *)
LEMMA TagEndStores ==
    ASSUME TypeInv, SoundInv, TagEnd, pc' = "fields"
    PROVE  /\ p' = FieldSoh + 1 /\ FieldStart' = FieldSoh + 1 /\ BodyStart' = BodyStart
           /\ BodyReached(buf, out', FieldSoh + 1, bodyEnd)
           /\ out'.field_count = out.field_count + 1
           /\ pc = "tag" /\ UNCHANGED <<buf, bodyEnd, sohs>>
<1> DEFINE e == Entry(tagStart, p + 1, FieldSoh, num)
<1>1. /\ pc = "tag" /\ pc' = "fields" /\ p' = U32(FieldSoh + 1) /\ out' = Push(out, e)
      /\ i' = i + 1 /\ p # FieldSoh /\ p # tagStart /\ num \notin {0, 95, 96}
      /\ p < FieldSoh => ByteAt(buf, p) = Equals
      /\ UNCHANGED <<buf, bodyEnd, sohs>>
  BY DEF TagEnd, ReturnInPass, Return, NeedsFallback, Advance
<1>2. ReadingTag
  BY <1>1 DEF SoundInv, Parsed
<1>3. /\ FieldStart <= FieldSoh /\ FieldSoh \in Nat /\ FieldSoh < Len(buf)
      /\ ByteAt(buf, FieldSoh) = Soh
      /\ \A k \in FieldStart .. (FieldSoh - 1) : ByteAt(buf, k) # Soh
  BY <1>1, <1>2, FieldExtent DEF ReadingTag
<1>4. /\ buf \in Seq(Byte) /\ Len(buf) <= UINT32_MAX /\ Len(buf) \in Nat
      /\ tagStart \in Nat /\ p \in Nat /\ p + 1 \in Nat /\ num \in UInt32 /\ i \in Nat
      /\ out \in FieldIndex /\ ~TableIsFull(out)
  BY <1>1 DEF TypeInv, HeaderTypeInv, HeaderTypeOK, PassTypeOK, Inside, SoundInv
<1>5. tagStart < p /\ p < FieldSoh
  BY <1>1, <1>2, <1>3, <1>4 DEF ReadingTag
<1>6. /\ e \in FieldEntry /\ e.tag_start = tagStart /\ e.value_end = FieldSoh
      /\ e.tag_number = num /\ WellFormedField(buf, e) /\ TagRead(buf, e)
  <2>1. (p + 1) - 1 = p /\ (p + 1) - 2 = p - 1 /\ tagStart < (p + 1) - 1 /\ p + 1 <= FieldSoh
    BY <1>3, <1>4, <1>5
  <2>2. /\ \A k \in tagStart .. ((p + 1) - 2) : IsDigit(ByteAt(buf, k))
        /\ ByteAt(buf, (p + 1) - 1) = Equals
        /\ NumberRead(num, buf, tagStart, (p + 1) - 1)
    BY <1>1, <1>2, <1>5, <2>1 DEF ReadingTag
  <2>3. \A k \in (p + 1) .. (FieldSoh - 1) : ByteAt(buf, k) # Soh
    BY <1>2, <1>3, <1>4, <1>5 DEF ReadingTag
  <2> QED BY SMTT(30), <1>3, <1>4, <2>1, <2>2, <2>3, FieldRead
<1> HIDE DEF e
<1>7. /\ BodyReached(buf, out', FieldSoh + 1, bodyEnd)
      /\ out'.msg_type_idx = out.msg_type_idx /\ out'.fields[2] = out.fields[2]
      /\ out'.field_count = out.field_count + 1
  BY <1>1, <1>2, <1>4, <1>6, BodyExtends DEF ReadingTag
<1>8. BodyStart' = BodyStart
  BY <1>2, <1>7 DEF BodyStart, ReadingTag, BodyReached, HasMsgType
<1>9. p' = FieldSoh + 1
  <2>1. FieldSoh + 1 \in Nat /\ FieldSoh + 1 <= UINT32_MAX
    BY <1>3, <1>4, WidthAssumption
  <2> QED BY <1>1, <2>1, U32Fits
<1>10. FieldStart' = FieldSoh + 1
  BY <1>1, <1>4 DEF FieldStart, FieldSoh
<1> QED BY <1>1, <1>7, <1>8, <1>9, <1>10

LEMMA TagEndSound ==
    ASSUME TypeInv, SoundInv, TagEnd
    PROVE  SoundInv'
<1>1. CASE \E v \in {"Malformed", "FallbackRequested"} : ReturnInPass(v)
  BY <1>1, ReturnKeepsSound DEF Verdict
<1>2. CASE ~ \E v \in {"Malformed", "FallbackRequested"} : ReturnInPass(v)
  <2>1. pc' = "fields"
    BY <1>2 DEF TagEnd, Advance
  <2> QED BY <2>1, TagEndStores, PassTwoFrame DEF Parsed
<1> QED BY <1>1, <1>2

LEMMA CheckTrailerSound ==
    ASSUME TypeInv, SoundInv, CheckTrailer
    PROVE  SoundInv'
<1>1. CASE \E v \in Verdict \ {"Ok"} : ReturnInPass(v)
  BY <1>1, ReturnKeepsSound
<1>2. CASE ~ \E v \in Verdict \ {"Ok"} : ReturnInPass(v)
  <2> DEFINE e == Entry(bodyEnd, bodyEnd + 3, sohs[Len(sohs)], 10)
  <2>1. /\ pc = "fields" /\ ~MoreFields /\ TrailerVerdict = "Ok"
        /\ out' = PushCheckSum(out, e) /\ pc' = "idle" /\ buf' = buf
    <3>1. TrailerVerdict \in Verdict
      BY DEF TrailerVerdict, Verdict
    <3> QED BY <1>2, <3>1 DEF CheckTrailer
  <2>2. /\ p = U32(bodyEnd) /\ sohs[Len(sohs)] = U32(bodyEnd + 6)
        /\ HasLiteral(buf, bodyEnd, <<1, 0, Equals>>)
        /\ \A k \in 3 .. 5 : IsDigit(ByteAt(buf, bodyEnd + k))
        /\ ~TableIsFull(out)
    BY <2>1 DEF TrailerVerdict
  <2>3. /\ buf \in Seq(Byte) /\ Len(buf) <= UINT32_MAX /\ Len(buf) \in Nat
        /\ bodyEnd \in Nat /\ bodyEnd + 7 <= Len(buf) /\ out \in FieldIndex
        /\ 10 \in UInt32 /\ sohs \in Seq(UInt32) /\ i \in Nat /\ i + 1 = Len(sohs)
    BY <2>1, WidthAssumption
    DEF TypeInv, HeaderTypeInv, HeaderTypeOK, PassTypeOK, Inside, InPasses, SoundInv, ScanEnd,
        kTrailer, MoreFields, UInt32
  <2>4. U32(bodyEnd) = bodyEnd /\ U32(bodyEnd + 6) = bodyEnd + 6
    BY <2>3, WidthAssumption, U32Fits
  <2>5. /\ BodyReached(buf, out, bodyEnd, bodyEnd)
    BY <2>1, <2>2, <2>4 DEF SoundInv, Parsed
  <2>6. ByteAt(buf, bodyEnd + 6) = Soh
    BY <2>1, <2>2, <2>3, <2>4, <2>5, FieldExtent DEF FieldSoh
  <2>7. ByteAt(buf, bodyEnd) = 1 /\ ByteAt(buf, bodyEnd + 1) = 0 /\ ByteAt(buf, bodyEnd + 2) = Equals
    BY <2>2, <2>3, Literal3
  <2>8. \A k \in (bodyEnd + 3) .. (bodyEnd + 5) : IsDigit(ByteAt(buf, k))
    <3>1. \A k \in (bodyEnd + 3) .. (bodyEnd + 5) :
              k - bodyEnd \in 3 .. 5 /\ bodyEnd + (k - bodyEnd) = k
      BY <2>3
    <3> QED BY <2>2, <3>1
  <2>9. /\ e \in FieldEntry /\ e.tag_start = bodyEnd /\ e.value_start = bodyEnd + 3
        /\ e.value_end = bodyEnd + 6 /\ e.tag_number = 10
        /\ WellFormedField(buf, e) /\ TagRead(buf, e)
    <3>1. /\ bodyEnd + 3 \in Nat /\ bodyEnd + 6 \in Nat /\ bodyEnd + 6 < Len(buf)
          /\ (bodyEnd + 3) - 1 = bodyEnd + 2 /\ (bodyEnd + 3) - 2 = bodyEnd + 1
          /\ (bodyEnd + 6) - 1 = bodyEnd + 5
          /\ bodyEnd < (bodyEnd + 3) - 1 /\ bodyEnd + 3 <= bodyEnd + 6
      BY <2>3
    <3>2. \A k \in bodyEnd .. ((bodyEnd + 3) - 2) : IsDigit(ByteAt(buf, k))
      <4>1. \A k \in bodyEnd .. ((bodyEnd + 3) - 2) : k = bodyEnd \/ k = bodyEnd + 1
        BY <2>3
      <4> QED BY <2>7, <4>1 DEF IsDigit, Digit
    <3>3. \A k \in (bodyEnd + 3) .. ((bodyEnd + 6) - 1) : ByteAt(buf, k) # Soh
      BY <2>8, <3>1 DEF IsDigit, Digit, Soh
    <3>4. NumberRead(10, buf, bodyEnd, (bodyEnd + 3) - 1)
      <4>1. Decimal(buf, bodyEnd, bodyEnd + 2) = 1 * 10 + 0
        BY <2>3, <2>7, DecimalTwo DEF Digit
      <4>2. Representable(10)
        BY SmallIsRepresentable
      <4> QED BY <3>1, <4>1, <4>2 DEF NumberRead
    <3>5. e = Entry(bodyEnd, bodyEnd + 3, bodyEnd + 6, 10)
      BY <2>2, <2>4
    <3> HIDE DEF e
    <3>6. ByteAt(buf, (bodyEnd + 3) - 1) = Equals
      BY <2>7, <3>1
    <3> QED BY <2>3, <2>6, <3>1, <3>2, <3>3, <3>4, <3>5, <3>6, FieldRead
  <2> HIDE DEF e
  <2>10. ExactIndex(buf, out') /\ Readable(out') \in FrameIndices(buf)
    <3>1. e.value_end = e.value_start + 3
      BY <2>3, <2>9
    <3>2. \A k \in e.value_start .. (e.value_start + 2) : IsDigit(ByteAt(buf, k))
      BY <2>3, <2>8, <2>9
    <3> QED BY <2>1, <2>2, <2>3, <2>5, <2>9, <3>1, <3>2, TrailerCompletes
  <2> QED
    BY <2>1, <2>10 DEF SoundInv, HeaderSound, AtBody, Collected, PassOneFindsEverySoh, Parsed,
                       OkIsExact
<1> QED BY <1>1, <1>2

-----------------------------------------------------------------------------
(* How a statement of scan() looks to its caller.                             *)
LEMMA StepOutcome ==
    ASSUME ScanStep
    PROVE  /\ pc # "idle" /\ buf' = buf
           /\ IF pc' = "idle" THEN status' \in Verdict ELSE status' = status
<1>1. CASE Header
  BY <1>1, HeaderStepFrame DEF Header
<1>2. \A v \in {"Malformed", "BadBodyLength", "FallbackRequested", "TableFull", "Ok"} :
         v \in Verdict
  BY DEF Verdict
<1>3. TrailerVerdict \in Verdict
  BY <1>2 DEF TrailerVerdict
<1>4. CASE StartPass1 \/ LoadLane \/ NextLane \/ TakeLowestBit \/ TailByte \/ EndPass1
  BY <1>2, <1>4 DEF StartPass1, LoadLane, NextLane, TakeLowestBit, TailByte, EndPass1,
     ReturnInPass, Return, Advance, vars
<1>5. CASE NextField \/ TagDigit \/ TagEnd \/ CheckTrailer
  BY <1>2, <1>3, <1>5 DEF NextField, TagDigit, TagEnd, CheckTrailer, ReturnInPass, Return,
     Advance, BeginNumber, TakeDigit
<1> QED BY <1>1, <1>4, <1>5 DEF ScanStep

LEMMA SoundStep ==
    ASSUME TypeInv, SoundInv, [Statement]_<<vars, passVars>>, Len(buf') <= UINT32_MAX
    PROVE  SoundInv'
<1>1. CASE UNCHANGED <<vars, passVars>>
  BY <1>1 DEF vars, passVars, SoundInv, HeaderSound, ReadingLength, AtBody, BodyStart,
     Collected, LaneMask, SohsFrom, ScanEnd, Lists, PassOneFindsEverySoh, Parsed, ReadingTag,
     FieldStart, FieldSoh, OkIsExact, Finished
<1>2. ASSUME NEW b \in Seq(Byte), Enter(b) PROVE SoundInv'
  BY <1>2, EnterSound DEF Enter, Call
<1>3. CASE ScanStep
  BY <1>3, HeaderKeepsSound, StartPass1Sound, LoadLaneSound, TakeLowestBitSound,
     NextLaneSound, TailByteSound, EndPass1Sound, NextFieldSound, TagDigitSound, TagEndSound,
     CheckTrailerSound DEF ScanStep
<1> QED BY <1>1, <1>2, <1>3 DEF Statement

LEMMA SoundInvariance ==
    ASSUME \A b \in Buffers : Len(b) <= UINT32_MAX
    PROVE  Spec => []SoundInv
<1>1. TypeInv /\ SoundInv /\ [Next]_<<vars, passVars>> => SoundInv'
  <2>1. TypeInv /\ SoundInv /\ [Next]_<<vars, passVars>> => Len(buf') <= UINT32_MAX
    BY StepOutcome DEF Next, Enter, Call, SoundInv, vars
  <2> QED BY <2>1, SoundStep, NextIsStatement
<1> QED BY <1>1, SoundInit, TypeInvariance, PTL DEF Spec

(* Pass 2 is handed every <SOH> of the frame, once each and in order, whatever *)
(* the width of the vectors and however the bytes fall into them.            *)
THEOREM PassOneIsComplete ==
    ASSUME \A b \in Buffers : Len(b) <= UINT32_MAX
    PROVE  Spec => []PassOneFindsEverySoh
<1>1. SoundInv => PassOneFindsEverySoh
  BY DEF SoundInv, Collected
<1> QED BY <1>1, SoundInvariance, PTL

(* The AVX2 scanner keeps the contract of scanner.hpp, the same the scalar one *)
(* keeps: one verdict to a call, and an exact index with every Ok.             *)
THEOREM Avx2ImplementsContract ==
    ASSUME \A b \in Buffers : Len(b) <= UINT32_MAX
    PROVE  Spec => ImplementsContract
<1>1. Init => Contract!Init
  BY InitIsContractInit DEF Init
<1>2. ASSUME TypeInv, TypeInv', SoundInv', [Next]_<<vars, passVars>>
      PROVE  [Contract!Next]_(Contract!vars)
  <2>1. CASE \E b \in Buffers : Enter(b)
    <3>1. PICK b \in Buffers : Call(b)
      BY <2>1 DEF Enter
    <3> QED BY <3>1, CallIsBegin, BuffersAssumption DEF Contract!Next
  <2>2. CASE ScanStep
    <3>1. OkIsExact' /\ out' \in FieldIndex
      BY <1>2 DEF SoundInv, TypeInv, HeaderTypeInv, HeaderTypeOK
    <3> QED BY <2>2, <3>1, StepOutcome, StatementIsContractStep
  <2>3. CASE UNCHANGED <<vars, passVars>>
    BY <2>3, StutterIsHidden
  <2> QED BY <1>2, <2>1, <2>2, <2>3 DEF Next
<1> QED
  BY <1>1, <1>2, TypeInvariance, SoundInvariance, PTL
  DEF Spec, ImplementsContract, Contract!Spec

-----------------------------------------------------------------------------
(* Completeness.  On a buffer that begins with the frame o, pass 1 collects     *)
(* the ends of the fields of its body, and pass 2 finds each of them.          *)
BodyEnds(o) == [k \in 1 .. (o.field_count - 3) |-> o.fields[k + 2].value_end]

LEMMA BodyEndsAscend ==
    ASSUME NEW b, NEW o, Piecewise(b, o)
    PROVE  /\ Ascends(BodyEnds(o)) /\ Len(BodyEnds(o)) = o.field_count - 3
           /\ \A k \in 1 .. (o.field_count - 3) :
                 /\ BodyEnds(o)[k] = o.fields[k + 2].value_end
                 /\ BodyEnds(o)[k] \in Nat /\ o.fields[3].tag_start <= BodyEnds(o)[k]
                 /\ ByteAt(b, BodyEnds(o)[k]) = Soh
<1> DEFINE n == o.field_count
           g == BodyEnds(o)
<1>1. /\ n \in Nat /\ n >= 4
      /\ \A k \in 0 .. (n - 1) : o.fields[k].value_end \in Nat /\ WellFormedField(b, o.fields[k])
  BY DEF Piecewise
<1>2. \A k \in 1 .. (n - 3) : k + 2 \in 0 .. (n - 1)
  BY <1>1
<1>3. /\ g \in Seq(Nat) /\ Len(g) = n - 3
      /\ \A k \in 1 .. (n - 3) : g[k] = o.fields[k + 2].value_end /\ g[k] \in Nat
  BY <1>1, <1>2 DEF BodyEnds
<1> HIDE DEF g
<1>4. ASSUME NEW k \in 1 .. (n - 3), NEW l \in 1 .. (n - 3), k < l PROVE g[k] < g[l]
  <2>1. k + 2 \in 0 .. (n - 1) /\ l + 2 \in 0 .. (n - 1) /\ k + 2 < l + 2
    BY <1>1, <1>4
  <2>2. o.fields[k + 2].value_end < o.fields[l + 2].value_end
    BY <2>1, EndsAscend
  <2> QED BY <1>3, <2>2
<1>5. ASSUME NEW k \in 1 .. (n - 3)
      PROVE  o.fields[3].tag_start <= g[k] /\ ByteAt(b, g[k]) = Soh
  <2>1. o.fields[2].value_end < o.fields[k + 2].value_end
    <3>1. 2 \in 0 .. (n - 1) /\ k + 2 \in 0 .. (n - 1) /\ 2 < k + 2
      BY <1>1
    <3> QED BY <3>1, EndsAscend
  <2>2. o.fields[3].tag_start = o.fields[2].value_end + 1 /\ o.fields[2].value_end \in Nat
    <3>1. 3 \in 1 .. (n - 1) /\ 3 - 1 = 2 /\ 2 \in 0 .. (n - 1)
      BY <1>1
    <3> QED BY <1>1, <3>1 DEF Piecewise
  <2>3. ByteAt(b, o.fields[k + 2].value_end) = Soh
    BY <1>1, <1>2 DEF WellFormedField
  <2> QED BY <1>3, <2>1, <2>2, <2>3
<1>6. Ascends(g)
  BY <1>3, <1>4 DEF Ascends
<1> QED BY <1>3, <1>5, <1>6 DEF g

(* S holds <SOH>s of b from `first` on, and none is left out before another.   *)
SohsUpTo(b, first, S) ==
    /\ \A x \in S : x \in Nat /\ first <= x /\ ByteAt(b, x) = Soh
    /\ \A x \in S, y \in Nat : first <= y /\ y <= x /\ ByteAt(b, y) = Soh => y \in S

(* Such a set lists the ends of the first fields of the body.                 *)
LEMMA CollectedAreEnds ==
    ASSUME NEW b, NEW o, Piecewise(b, o), NEW s \in Seq(UInt32), NEW S, Lists(s, S),
           SohsUpTo(b, o.fields[3].tag_start, S), \A x \in S : x < o.frame_length
    PROVE  \A k \in 1 .. Len(s) :
              k \in 1 .. (o.field_count - 3) /\ s[k] = o.fields[k + 2].value_end
<1> DEFINE g == BodyEnds(o)
           n == o.field_count
<1>1. /\ Ascends(g) /\ Len(g) = n - 3
      /\ \A k \in 1 .. (n - 3) :
            /\ g[k] = o.fields[k + 2].value_end /\ g[k] \in Nat
            /\ o.fields[3].tag_start <= g[k] /\ ByteAt(b, g[k]) = Soh
  BY BodyEndsAscend
<1>2. n \in Nat /\ n >= 4 /\ \A k \in 0 .. (n - 1) : o.fields[k].value_end \in Nat
  BY DEF Piecewise
<1>3. Ascends(s)
  <2>1. s \in Seq(Nat)
    <3>1. \A k \in 1 .. Len(s) : s[k] \in Nat
      BY WidthAssumption DEF UInt32
    <3> QED BY <3>1
  <2> QED BY <2>1 DEF Ascends, Lists
<1>4. \A k \in 1 .. Len(s) : s[k] \in S
  BY DEF Lists
<1>5. ASSUME NEW x \in S PROVE Occurs(x, g)
  <2>1. x \in Nat /\ o.fields[3].tag_start <= x /\ ByteAt(b, x) = Soh /\ x < o.frame_length
    BY DEF SohsUpTo
  <2>2. Occurs(x, Ends(o))
    BY <2>1, SohIsEnd
  <2>3. PICK k \in 1 .. n : x = o.fields[k - 1].value_end
    BY <2>2, EndsListed DEF Occurs
  <2>4. o.fields[3].tag_start = o.fields[2].value_end + 1
    <3>1. 3 \in 1 .. (n - 1) /\ 3 - 1 = 2
      BY <1>2
    <3> QED BY <3>1 DEF Piecewise
  <2>5. ~ (k - 1 < 2)
    <3> SUFFICES ASSUME k - 1 < 2 PROVE FALSE
      OBVIOUS
    <3>1. 2 \in 0 .. (n - 1) /\ k - 1 \in 0 .. (n - 1)
      BY <1>2, <2>3
    <3>2. o.fields[k - 1].value_end < o.fields[2].value_end
      BY <3>1, EndsAscend
    <3> QED BY SMTT(30), <1>2, <2>1, <2>3, <2>4, <3>1, <3>2
  <2>6. k - 1 # 2
    <3>1. 2 \in 0 .. (n - 1)
      BY <1>2
    <3> QED BY <1>2, <2>1, <2>3, <2>4, <3>1
  <2>7. k - 3 \in 1 .. (n - 3) /\ (k - 3) + 2 = k - 1
    BY <1>2, <2>3, <2>5, <2>6
  <2>8. g[k - 3] = x
    BY <1>1, <2>3, <2>7
  <2> HIDE DEF g
  <2> QED BY <1>1, <2>7, <2>8 DEF Occurs
<1>6. ASSUME NEW k \in 1 .. Len(g), NEW l \in 1 .. Len(s), g[k] <= s[l]
      PROVE  Occurs(g[k], s)
  <2>1. g[k] \in S
    BY <1>1, <1>4, <1>6 DEF SohsUpTo
  <2> QED BY <2>1 DEF Lists, Occurs
<1>7. \A k \in 1 .. Len(s) : Occurs(s[k], g)
  BY <1>4, <1>5
<1> HIDE DEF g
<1>8. \A k \in 1 .. Len(s) : k \in 1 .. Len(g) /\ g[k] = s[k]
  BY <1>1, <1>3, <1>6, <1>7, AscentPrefix
<1> QED BY <1>1, <1>8

(* The frames of buf the scanner is after.                                    *)
Candidate(o) == Ahead(buf, o) /\ PlainTrailer(o)

Follows(o) ==
    LET k == out.field_count
    IN  /\ HeaderFollows(o)
        /\ pc \in {"body", "lanes", "mask"} => k = 3 /\ Arrives(o, p)
        /\ pc \in {"fields", "tag"} =>
              /\ k = i + 3 /\ BodyStart = o.fields[3].tag_start
              /\ Arrives(o, IF pc = "fields" THEN p ELSE tagStart)
        /\ pc = "tag" => p <= o.fields[k].value_start - 1

(* Where the trailer lies.                                                    *)
LEMMA TrailerExtent ==
    ASSUME NEW x, NEW o, Ahead(x, o), PlainTrailer(o), NEW at, Arrives(o, at)
    PROVE  LET e == o.fields[o.field_count - 1]
           IN  /\ e.tag_start = bodyEnd /\ bodyEnd \in Nat
               /\ e.value_start = bodyEnd + 3 /\ e.value_end = bodyEnd + 6
               /\ o.frame_length = ScanEnd
               /\ HasLiteral(x, bodyEnd, <<1, 0, Equals>>)
               /\ \A k \in 3 .. 5 : IsDigit(ByteAt(x, bodyEnd + k))
<1> DEFINE e == o.fields[o.field_count - 1]
<1>1. /\ x \in Seq(Byte) /\ o.field_count - 1 \in 0 .. (o.field_count - 1) /\ Len(x) \in Nat
  <2>1. x \in Seq(Byte)
    BY DEF Ahead
  <2>2. o.field_count \in Nat /\ o.field_count >= 4
    BY <2>1, WholeExtent DEF Ahead
  <2> QED BY <2>1, <2>2
<1>2. /\ e.tag_start \in Nat /\ e.value_start \in Nat /\ e.value_end \in Nat
      /\ WellFormedField(x, e) /\ TagRead(x, e) /\ e.value_end < Len(x)
  <2>1. /\ e.value_end \in Nat /\ e.value_end < o.frame_length
        /\ o.frame_length \in Nat /\ o.frame_length <= Len(x)
    BY <1>1, WholeExtent DEF Ahead
  <2> HIDE DEF e
  <2>2. e.value_end < Len(x)
    BY <1>1, <2>1
  <2> QED BY <1>1, <2>1, <2>2, WholeExtent DEF Ahead, e
<1>3. /\ e.tag_start = bodyEnd /\ e.value_start = e.tag_start + 3
      /\ e.value_end = e.value_start + 3 /\ e.tag_number = 10
      /\ \A k \in e.value_start .. (e.value_end - 1) : IsDigit(ByteAt(x, k))
  BY DEF Arrives, Ahead, PlainTrailer, Whole
<1>4. o.frame_length = e.value_end + 1
  BY DEF Ahead, Whole, Piecewise
<1> HIDE DEF e
<1>5. /\ e.value_start = bodyEnd + 3 /\ e.value_end = bodyEnd + 6 /\ bodyEnd \in Nat
      /\ o.frame_length = ScanEnd
  BY <1>2, <1>3, <1>4 DEF ScanEnd, kTrailer
<1>6. ASSUME NEW k \in 3 .. 5 PROVE IsDigit(ByteAt(x, bodyEnd + k))
  <2>1. bodyEnd + k \in e.value_start .. (e.value_end - 1)
    BY <1>5
  <2> QED BY <1>3, <2>1
<1>7. HasLiteral(x, bodyEnd, <<1, 0, Equals>>)
  <2>1. bodyEnd \in e.tag_start .. (e.value_start - 2) /\ bodyEnd + 1 \in e.tag_start .. (e.value_start - 2)
    BY <1>3, <1>5
  <2>2. ByteAt(x, bodyEnd) \in Digit /\ ByteAt(x, bodyEnd + 1) \in Digit
    BY <1>2, <2>1 DEF WellFormedField, IsDigit
  <2>3. Decimal(x, bodyEnd, bodyEnd + 2) = 10
    <3>1. e.value_start - 1 = bodyEnd + 2
      BY <1>5
    <3> QED BY <1>2, <1>3, <3>1 DEF TagRead, NumberRead
  <2>4. 10 = ByteAt(x, bodyEnd) * 10 + ByteAt(x, bodyEnd + 1)
    BY <1>5, <2>2, <2>3, DecimalTwo
  <2>5. ByteAt(x, bodyEnd) = 1 /\ ByteAt(x, bodyEnd + 1) = 0
    BY <2>2, <2>4 DEF Digit
  <2>6. ByteAt(x, bodyEnd + 2) = Equals
    <3>1. e.value_start - 1 = bodyEnd + 2
      BY <1>5
    <3> QED BY <1>2, <3>1 DEF WellFormedField
  <2>7. bodyEnd + 3 <= Len(x)
    BY <1>1, <1>2, <1>5
  <2> QED BY <1>1, <1>5, <2>5, <2>6, <2>7, LiteralOf3
<1> QED BY <1>3, <1>5, <1>6, <1>7 DEF e

-----------------------------------------------------------------------------
(* Pass 1 of a frame.                                                        *)
LEMMA LaneSohsLead ==
    ASSUME TypeInv, SoundInv, NEW o, Candidate(o), Follows(o), pc \in {"lanes", "mask"}
    PROVE  \A k \in 1 .. Len(sohs) :
              k \in 1 .. (o.field_count - 3) /\ sohs[k] = o.fields[k + 2].value_end
<1>1. /\ p \in Nat /\ q \in Nat /\ ScanEnd \in Nat /\ sohs \in Seq(UInt32)
      /\ LaneMask \subseteq Nat
  BY LaneAssumption DEF TypeInv, HeaderTypeInv, HeaderTypeOK, PassTypeOK, ScanEnd, kTrailer,
                        LaneMask
<1>2. Arrives(o, p) /\ p = o.fields[3].tag_start
  BY DEF Follows, Arrives
<1>3. o.frame_length = ScanEnd /\ Piecewise(buf, o)
  BY <1>2, TrailerExtent DEF TypeInv, Candidate, Ahead, Whole
<1>4. SohsUpTo(buf, p, SohsFrom(p, q))
  BY <1>1 DEF SohsUpTo, SohsFrom
<1>5. CASE pc = "lanes"
  <2>1. p <= q /\ (q = p \/ q <= ScanEnd) /\ Lists(sohs, SohsFrom(p, q))
    BY <1>5 DEF SoundInv, Collected
  <2>2. \A x \in SohsFrom(p, q) : x < ScanEnd
    BY <1>1, <2>1 DEF SohsFrom
  <2> QED BY <1>1, <1>2, <1>3, <1>4, <2>1, <2>2, CollectedAreEnds
<1>6. CASE pc = "mask"
  <2> DEFINE T == {q + m : m \in LaneMask \ mask}
             S == SohsFrom(p, q) \cup T
  <2>1. /\ p <= q /\ Lists(sohs, S) /\ q + Lane <= ScanEnd /\ ScanEnd <= Len(buf)
        /\ Len(buf) \in Nat
        /\ \A m \in LaneMask \ mask, n \in mask : m < n
    BY <1>6 DEF SoundInv, Collected, TypeInv, Inside, InPasses, HeaderTypeInv, HeaderTypeOK
  <2>2. \A m \in LaneMask : m \in 0 .. (Lane - 1) /\ ByteAt(buf, q + m) = Soh
    BY DEF LaneMask
  <2>3. \A x \in S : x \in Nat /\ p <= x /\ x < ScanEnd /\ ByteAt(buf, x) = Soh
    <3>1. \A x \in SohsFrom(p, q) : x \in Nat /\ p <= x /\ x < ScanEnd /\ ByteAt(buf, x) = Soh
      BY <1>1, <2>1, LaneAssumption DEF SohsFrom
    <3>2. \A m \in LaneMask : /\ q + m \in Nat /\ p <= q + m /\ q + m < ScanEnd
                              /\ ByteAt(buf, q + m) = Soh
      BY <1>1, <2>1, <2>2, LaneAssumption
    <3> QED BY <3>1, <3>2
  <2>4. ASSUME NEW x \in S, NEW y \in Nat, p <= y, y <= x, ByteAt(buf, y) = Soh
        PROVE  y \in S
    <3>1. x \in Nat /\ x < ScanEnd
      BY <2>3
    <3> HIDE DEF S
    <3>2. CASE y < q
      <4>1. y \in SohsFrom(p, q)
        BY <1>1, <2>4, <3>2 DEF SohsFrom
      <4> QED BY <4>1 DEF S
    <3>3. CASE y >= q
      <4>1. x \notin SohsFrom(p, q)
        BY <1>1, <2>4, <3>1, <3>3 DEF SohsFrom
      <4>2. PICK m \in LaneMask \ mask : x = q + m
        BY <2>4, <4>1 DEF S
      <4>3. m \in Nat /\ m < Lane
        BY <2>2, <4>2, LaneAssumption
      <4>4. y - q \in 0 .. (Lane - 1) /\ q + (y - q) = y /\ y - q <= m /\ y < Len(buf)
        BY <1>1, <2>1, <2>4, <3>1, <3>3, <4>2, <4>3, LaneAssumption
      <4>5. y - q \in LaneMask
        BY <2>4, <4>4 DEF LaneMask
      <4>6. y - q \notin mask
        <5> SUFFICES ASSUME y - q \in mask PROVE FALSE
          OBVIOUS
        <5>1. m < y - q
          BY <2>1, <4>2
        <5> QED BY <4>3, <4>4, <5>1
      <4> QED BY <4>4, <4>5, <4>6 DEF S
    <3> QED BY <1>1, <3>2, <3>3
  <2>5. SohsUpTo(buf, p, S)
    <3> HIDE DEF S
    <3> QED BY <2>3, <2>4 DEF SohsUpTo
  <2>6. \A x \in S : x < ScanEnd
    BY <2>3
  <2> HIDE DEF S
  <2> QED BY <1>1, <1>2, <1>3, <2>1, <2>5, <2>6, CollectedAreEnds
<1> QED BY <1>5, <1>6

(* The table of offsets runs full only on a frame that has no room in the index.  *)
LEMMA RoomForSoh ==
    ASSUME TypeInv, SoundInv, NEW o, Candidate(o), Follows(o), pc \in {"lanes", "mask"}
    PROVE  SohsAreFull => Deferred(o)
<1>1. \A k \in 1 .. Len(sohs) : k \in 1 .. (o.field_count - 3)
  BY LaneSohsLead
<1>2. o.field_count \in Nat /\ o.field_count >= 4
  BY DEF Candidate, Ahead, Whole, Piecewise
<1>3. Len(sohs) \in Nat
  BY DEF TypeInv, PassTypeOK
<1>4. Len(sohs) <= o.field_count - 3
  <2>1. CASE Len(sohs) = 0
    BY <1>2, <2>1
  <2>2. CASE Len(sohs) # 0
    <3>1. Len(sohs) \in 1 .. Len(sohs)
      BY <1>3, <2>2
    <3> QED BY <1>1, <1>2, <3>1
  <2> QED BY <2>1, <2>2
<1> QED BY <1>2, <1>3, <1>4, CapacityAssumption DEF SohsAreFull, Deferred

LEMMA StillHandsOver ==
    ASSUME NEW o, Deferred(o), NEW v \in {"FallbackRequested", "TableFull"}, Return(v)
    PROVE  Follows(o)'
BY HandsOver DEF Follows

LEMMA PassOneFollows ==
    ASSUME TypeInv, SoundInv, NEW o, Candidate(o), Follows(o),
           StartPass1 \/ LoadLane \/ NextLane \/ TakeLowestBit \/ TailByte
    PROVE  Follows(o)'
<1>1. CASE StartPass1 \/ LoadLane \/ NextLane
  <2>1. /\ pc \in {"body", "lanes", "mask"} /\ pc' \in {"lanes", "mask"}
        /\ UNCHANGED <<out, p, bodyEnd>>
    BY <1>1 DEF StartPass1, LoadLane, NextLane
  <2> QED BY <2>1 DEF Follows, HeaderFollows, Arrives, Finished
<1>2. CASE TakeLowestBit \/ TailByte
  <2>1. pc \in {"lanes", "mask"}
    BY <1>2 DEF TakeLowestBit, TailByte
  <2>2. CASE SohsAreFull /\ pc' = "idle"
    <3>1. Deferred(o)
      BY <2>1, <2>2, RoomForSoh
    <3>2. Return("TableFull")
      BY <1>2, <2>1, <2>2 DEF TakeLowestBit, TailByte, vars, ReturnInPass
    <3> QED BY <3>1, <3>2, StillHandsOver
  <2>3. CASE ~ (SohsAreFull /\ pc' = "idle")
    <3>1. pc' = pc /\ UNCHANGED <<out, p, bodyEnd, status>>
      BY <1>2, <2>3 DEF TakeLowestBit, TailByte, vars, ReturnInPass, Return
    <3> QED BY <2>1, <3>1 DEF Follows, HeaderFollows, Arrives, Finished
  <2> QED BY <2>2, <2>3
<1> QED BY <1>1, <1>2

LEMMA EndPass1Follows ==
    ASSUME TypeInv, SoundInv, SoundInv', NEW o, Candidate(o), Follows(o), EndPass1
    PROVE  Follows(o)'
<1>1. pc = "lanes" /\ q >= ScanEnd
  BY DEF EndPass1
<1>2. /\ p \in Nat /\ q \in Nat /\ ScanEnd \in Nat /\ sohs \in Seq(UInt32) /\ i = 0
  BY <1>1 DEF TypeInv, HeaderTypeInv, HeaderTypeOK, PassTypeOK, Inside, ScanEnd, kTrailer
<1>3. out.field_count = 3 /\ Arrives(o, p) /\ p = o.fields[3].tag_start
  BY <1>1 DEF Follows, Arrives
<1>4. p = BodyStart /\ Lists(sohs, SohsFrom(p, q))
  BY <1>1 DEF SoundInv, AtBody, Collected
<1>5. sohs # << >>
  <2>1. /\ o.fields[o.field_count - 1].value_end = bodyEnd + 6 /\ bodyEnd \in Nat
        /\ Piecewise(buf, o)
    BY <1>3, TrailerExtent DEF TypeInv, Candidate, Ahead, Whole
  <2>2. o.field_count - 3 \in 1 .. (o.field_count - 3) /\ (o.field_count - 3) + 2 = o.field_count - 1
    BY <2>1 DEF Piecewise
  <2>3. p <= bodyEnd + 6 /\ ByteAt(buf, bodyEnd + 6) = Soh
    BY <1>3, <2>1, <2>2, BodyEndsAscend
  <2>4. bodyEnd + 6 \in SohsFrom(p, q)
    BY <1>1, <1>2, <2>1, <2>3 DEF SohsFrom, ScanEnd, kTrailer
  <2> QED BY <1>4, <2>4 DEF Lists
<1>6. pc' = "fields" /\ UNCHANGED <<out, bodyEnd, i>>
  BY <1>5 DEF EndPass1, Advance, passVars
<1>7. BodyStart' = BodyStart
  BY <1>6 DEF BodyStart
<1>8. p' = BodyStart'
  BY <1>2, <1>6 DEF SoundInv, Parsed, FieldStart
<1>9. p' = p /\ BodyStart' = o.fields[3].tag_start /\ out'.field_count = i' + 3
  BY <1>2, <1>3, <1>4, <1>6, <1>7, <1>8
<1>10. Arrives(o, p)'
  BY <1>3, <1>6, <1>9 DEF Arrives
<1> QED BY <1>6, <1>9, <1>10 DEF Follows, HeaderFollows, Finished

-----------------------------------------------------------------------------
(* Pass 2 of a frame: it is handed the ends of all fields of the body.         *)
LEMMA AllEndsCollected ==
    ASSUME TypeInv, SoundInv, NEW o, Candidate(o), Follows(o), pc \in {"fields", "tag"}
    PROVE  /\ Len(sohs) = o.field_count - 3
           /\ \A k \in 1 .. Len(sohs) : sohs[k] = o.fields[k + 2].value_end
<1> DEFINE n == o.field_count
           S == SohsFrom(BodyStart, ScanEnd)
<1>1. /\ ScanEnd \in Nat /\ sohs \in Seq(UInt32)
  BY DEF TypeInv, HeaderTypeInv, HeaderTypeOK, PassTypeOK, ScanEnd, kTrailer
<1>2. PICK at : Arrives(o, at)
  BY DEF Follows
<1>3. /\ o.frame_length = ScanEnd /\ Piecewise(buf, o)
      /\ o.fields[n - 1].value_end = bodyEnd + 6 /\ bodyEnd \in Nat
  BY <1>2, TrailerExtent DEF TypeInv, Candidate, Ahead, Whole
<1>4. BodyStart = o.fields[3].tag_start
  BY DEF Follows
<1>5. n \in Nat /\ n >= 4 /\ o.fields[3].tag_start \in Nat
  <2>1. n \in Nat /\ n >= 4
    BY <1>3 DEF Piecewise
  <2>2. 3 \in 0 .. (n - 1)
    BY <2>1
  <2> QED BY <1>3, <2>1, <2>2 DEF Piecewise
<1>6. Lists(sohs, S)
  BY DEF SoundInv, Collected, PassOneFindsEverySoh
<1>7. SohsUpTo(buf, BodyStart, S) /\ \A x \in S : x < ScanEnd
  BY <1>1, <1>4, <1>5 DEF SohsUpTo, SohsFrom
<1>8. \A k \in 1 .. Len(sohs) : k \in 1 .. (n - 3) /\ sohs[k] = o.fields[k + 2].value_end
  <2> HIDE DEF S
  <2> QED BY <1>1, <1>3, <1>4, <1>6, <1>7, CollectedAreEnds
<1>9. bodyEnd + 6 \in S
  <2>1. n - 3 \in 1 .. (n - 3) /\ (n - 3) + 2 = n - 1
    BY <1>5
  <2>2. BodyStart <= bodyEnd + 6 /\ ByteAt(buf, bodyEnd + 6) = Soh
    BY <1>3, <1>4, <2>1, BodyEndsAscend
  <2> QED BY <1>1, <1>3, <1>4, <1>5, <2>2 DEF SohsFrom, ScanEnd, kTrailer
<1>10. PICK m \in 1 .. Len(sohs) : sohs[m] = bodyEnd + 6
  BY <1>6, <1>9 DEF Lists
<1>11. m = n - 3
  <2>1. m \in 1 .. (n - 3) /\ o.fields[m + 2].value_end = bodyEnd + 6
    BY <1>8, <1>10
  <2>2. ~ (m + 2 < n - 1)
    <3> SUFFICES ASSUME m + 2 < n - 1 PROVE FALSE
      OBVIOUS
    <3>1. m + 2 \in 0 .. (n - 1) /\ n - 1 \in 0 .. (n - 1)
      BY <1>5, <2>1
    <3>2. o.fields[m + 2].value_end < o.fields[n - 1].value_end
      BY <1>3, <3>1, EndsAscend
    <3> QED BY <1>3, <2>1, <3>2
  <2> QED BY <1>5, <2>1, <2>2
<1>12. Len(sohs) = n - 3
  <2>1. Len(sohs) \in Nat /\ Len(sohs) \in 1 .. Len(sohs)
    BY <1>1, <1>5, <1>10, <1>11
  <2>2. Len(sohs) \in 1 .. (n - 3)
    BY <1>8, <2>1
  <2> QED BY <1>5, <1>10, <1>11, <2>1, <2>2
<1> QED BY <1>8, <1>12

LEMMA NextFieldFollows ==
    ASSUME TypeInv, SoundInv, NEW o, Candidate(o), Follows(o), NextField
    PROVE  Follows(o)'
<1> DEFINE e == o.fields[out.field_count]
<1>1. pc = "fields"
  BY DEF NextField
<1>2. out.field_count = i + 3 /\ BodyStart = o.fields[3].tag_start /\ Arrives(o, p)
  BY <1>1 DEF Follows
<1>3. /\ p = e.tag_start /\ p \in Nat /\ e.value_start \in Nat /\ WellFormedField(buf, e)
      /\ ~Deferred(o) => ~TableIsFull(out)
  BY <1>2, ArrivedAt DEF TypeInv, Candidate
<1>0. CASE TableIsFull(out)
  <2>1. Return("TableFull")
    BY <1>0 DEF NextField, ReturnInPass
  <2> QED BY <1>0, <1>3, <2>1, StillHandsOver
<1>4. CASE ~TableIsFull(out)
  <2>1. BeginNumber("tag", 0) /\ UNCHANGED passVars
    BY <1>4 DEF NextField
  <2>2. pc' = "tag" /\ tagStart' = p /\ p' = p /\ UNCHANGED <<out, bodyEnd, i>>
    BY <1>3, <2>1 DEF BeginNumber, passVars
  <2>3. BodyStart' = BodyStart
    BY <2>2 DEF BodyStart
  <2>4. p <= e.value_start - 1
    <3> HIDE DEF e
    <3> QED BY <1>3 DEF WellFormedField
  <2> QED BY <1>2, <2>2, <2>3, <2>4 DEF Follows, HeaderFollows, Arrives, Finished
<1> QED BY <1>0, <1>4

(* What the scanner of a tag knows of the field it is in.                     *)
LEMMA InTag ==
    ASSUME TypeInv, SoundInv, NEW o, Candidate(o), Follows(o), pc = "tag"
    PROVE  LET e == o.fields[out.field_count]
           IN  /\ Arrives(o, tagStart) /\ tagStart = e.tag_start
               /\ e.tag_start \in Nat /\ e.value_start \in Nat
               /\ WellFormedField(buf, e) /\ TagRead(buf, e)
               /\ p \in Nat /\ e.tag_start <= p /\ p <= e.value_start - 1
               /\ FieldSoh = e.value_end /\ p < FieldSoh
               /\ out.field_count # o.field_count - 1
               /\ num = Decimal(buf, e.tag_start, p)
<1> DEFINE e == o.fields[out.field_count]
<1>1. out.field_count = i + 3 /\ Arrives(o, tagStart) /\ p <= e.value_start - 1
  BY DEF Follows
<1>2. /\ tagStart = e.tag_start /\ e.tag_start \in Nat /\ e.value_start \in Nat
      /\ e.value_end \in Nat /\ WellFormedField(buf, e) /\ TagRead(buf, e)
  BY <1>1, ArrivedAt DEF TypeInv, Candidate
<1>3. tagStart <= p /\ num = Decimal(buf, tagStart, p)
  BY DEF SoundInv, Parsed, ReadingTag, NumberRead
<1>4. p \in Nat /\ i \in Nat /\ i + 1 < Len(sohs) /\ Len(sohs) \in Nat
  BY DEF TypeInv, HeaderTypeInv, HeaderTypeOK, PassTypeOK, Inside, MoreFields
<1>5. FieldSoh = e.value_end
  <2>1. i + 1 \in 1 .. Len(sohs) /\ (i + 1) + 2 = i + 3
    BY <1>4
  <2>2. sohs[i + 1] = o.fields[(i + 1) + 2].value_end
    BY <2>1, AllEndsCollected
  <2> QED BY <1>1, <2>1, <2>2 DEF FieldSoh
<1>6. out.field_count # o.field_count - 1
  <2>1. Len(sohs) = o.field_count - 3 /\ o.field_count \in Nat
    BY AllEndsCollected DEF Candidate, Ahead, Whole, Piecewise
  <2> QED BY <1>1, <1>4, <2>1
<1> HIDE DEF e
<1>7. p < FieldSoh
  BY <1>1, <1>2, <1>4, <1>5 DEF WellFormedField
<1> QED BY <1>1, <1>2, <1>3, <1>4, <1>5, <1>6, <1>7 DEF e

LEMMA TagDigitFollows ==
    ASSUME TypeInv, SoundInv, NEW o, Candidate(o), Follows(o), TagDigit
    PROVE  Follows(o)'
<1> DEFINE e == o.fields[out.field_count]
<1>1. pc = "tag" /\ ByteAt(buf, p) # Equals /\ TakeDigit /\ UNCHANGED passVars
  BY DEF TagDigit
<1>2. /\ Arrives(o, tagStart) /\ p + 1 <= e.value_start - 1 /\ IsDigit(ByteAt(buf, p))
      /\ ~Saturated(num)
  BY <1>1, InTag, TagGoesOn
<1>3. p' = p + 1 /\ pc' = "tag" /\ UNCHANGED <<out, tagStart, bodyEnd, i>>
  BY <1>1, <1>2 DEF TakeDigit, passVars
<1>4. BodyStart' = BodyStart
  BY <1>3 DEF BodyStart
<1> QED BY <1>1, <1>2, <1>3, <1>4 DEF Follows, HeaderFollows, Arrives, Finished

LEMMA TagEndFollows ==
    ASSUME TypeInv, SoundInv, SoundInv', NEW o, Candidate(o), Follows(o), TagEnd
    PROVE  Follows(o)'
<1> DEFINE k == out.field_count
           e == o.fields[k]
<1>1. pc = "tag" /\ i \in Nat
  BY DEF TagEnd, TypeInv, PassTypeOK
<1>2. p < FieldSoh /\ p \in Nat /\ FieldSoh = e.value_end /\ k # o.field_count - 1
  BY <1>1, InTag
<1>3. FieldSoh \in Nat
  BY <1>1, FieldSohType
<1>4. ByteAt(buf, p) = Equals
  BY <1>2 DEF TagEnd
<1>5. /\ Arrives(o, tagStart) /\ tagStart = e.tag_start
      /\ p # e.tag_start /\ num = e.tag_number
  BY <1>1, <1>4, InTag, TagIsOver
<1>6. /\ k + 1 \in 3 .. (o.field_count - 1) /\ o.fields[k + 1].tag_start = e.value_end + 1
      /\ tagStart < bodyEnd /\ bodyEnd \in Nat
  BY <1>2, <1>5, ArrivedAt DEF TypeInv, Candidate
<1>7. num # 0 /\ (NeedsFallback(num) => Deferred(o))
  BY <1>5, FrameTags DEF TypeInv, Candidate, NeedsFallback
<1>8. p # FieldSoh
  BY <1>2, <1>3
<1>0. CASE NeedsFallback(num)
  <2>1. Return("FallbackRequested")
    BY <1>0, <1>5, <1>7, <1>8 DEF TagEnd, ReturnInPass
  <2> QED BY <1>0, <1>7, <2>1, StillHandsOver
<1> SUFFICES ASSUME ~NeedsFallback(num) PROVE Follows(o)'
  BY <1>0
<1>9. pc' = "fields" /\ i' = i + 1 /\ UNCHANGED <<bodyEnd, sohs>>
  BY <1>5, <1>7, <1>8 DEF TagEnd, Advance
<1>10. BodyStart' = BodyStart /\ out'.field_count = k + 1
  BY <1>9, TagEndStores
<1>11. p' = FieldSoh + 1
  <2>1. p' = sohs'[i'] + 1
    BY <1>1, <1>9 DEF SoundInv, Parsed, FieldStart
  <2> QED BY <1>9, <2>1 DEF FieldSoh
<1>12. /\ k = i + 3 /\ BodyStart = o.fields[3].tag_start
       /\ bodyEnd = o.fields[o.field_count - 1].tag_start
  BY <1>1, <1>5 DEF Follows, Arrives
<1>13. k + 1 = (i + 1) + 3
  BY <1>1, <1>12
<1>14. \A l \in 3 .. ((k + 1) - 1) : o.fields[l].tag_number \notin {95, 96}
  <2>1. /\ \A l \in 3 .. (k - 1) : o.fields[l].tag_number \notin {95, 96}
        /\ e.tag_number \notin {95, 96}
    BY <1>5 DEF Arrives, NeedsFallback
  <2>2. k \in Nat
    BY <1>1, <1>12
  <2>3. \A l \in 3 .. ((k + 1) - 1) : l \in 3 .. (k - 1) \/ l = k
    BY <2>2
  <2> QED BY <2>1, <2>3
<1> HIDE DEF k
<1> QED BY <1>2, <1>6, <1>9, <1>10, <1>11, <1>12, <1>13, <1>14
        DEF Follows, HeaderFollows, Arrives, Finished

LEMMA CheckTrailerFollows ==
    ASSUME TypeInv, SoundInv, NEW o, Candidate(o), Follows(o), CheckTrailer
    PROVE  Follows(o)'
<1> DEFINE k == out.field_count
           n == o.field_count
<1>1. pc = "fields" /\ ~MoreFields
  BY DEF CheckTrailer
<1>2. k = i + 3 /\ Arrives(o, p)
  BY <1>1 DEF Follows
<1>3. /\ i \in Nat /\ i < Len(sohs) /\ Len(sohs) \in Nat /\ bodyEnd \in Nat
      /\ Len(buf) <= UINT32_MAX /\ Len(buf) \in Nat /\ bodyEnd + 7 <= Len(buf)
  BY <1>1 DEF TypeInv, HeaderTypeInv, HeaderTypeOK, PassTypeOK, Inside, InPasses, SoundInv,
              ScanEnd, kTrailer
<1>4. /\ Len(sohs) = n - 3 /\ n \in Nat
      /\ \A m \in 1 .. Len(sohs) : sohs[m] = o.fields[m + 2].value_end
  BY <1>1, AllEndsCollected DEF Candidate, Ahead, Whole, Piecewise
<1>5. k = n - 1
  BY <1>1, <1>2, <1>3, <1>4 DEF MoreFields
<1>6. p = bodyEnd /\ (~Deferred(o) => ~TableIsFull(out))
  BY <1>2, <1>5, ArrivedAt DEF TypeInv, Candidate
<1>7. sohs[Len(sohs)] = bodyEnd + 6
  <2>1. Len(sohs) \in 1 .. Len(sohs) /\ Len(sohs) + 2 = n - 1
    BY <1>3, <1>4
  <2>2. o.fields[n - 1].value_end = bodyEnd + 6
    BY <1>2, TrailerExtent DEF Candidate
  <2>3. sohs[Len(sohs)] = o.fields[Len(sohs) + 2].value_end
    BY <1>4, <2>1
  <2> QED BY <2>1, <2>2, <2>3
<1>8. U32(bodyEnd) = bodyEnd /\ U32(bodyEnd + 6) = bodyEnd + 6
  BY <1>3, WidthAssumption, U32Fits
<1>9. /\ HasLiteral(buf, bodyEnd, <<1, 0, Equals>>)
      /\ \A m \in 3 .. 5 : IsDigit(ByteAt(buf, bodyEnd + m))
  BY <1>2, TrailerExtent DEF Candidate
<1>10. TrailerVerdict = IF TableIsFull(out) THEN "TableFull" ELSE "Ok"
  BY <1>6, <1>7, <1>8, <1>9 DEF TrailerVerdict
<1>0. CASE TableIsFull(out)
  <2>1. Return("TableFull")
    BY <1>0, <1>10 DEF CheckTrailer, ReturnInPass
  <2> QED BY <1>0, <1>6, <2>1, StillHandsOver
<1> SUFFICES ASSUME ~TableIsFull(out) PROVE Follows(o)'
  BY <1>0
<1>11. status' = "Ok" /\ pc' = "idle" /\ buf' = buf
  BY <1>10 DEF CheckTrailer
<1>13. ~Deferred(o)
  <2>1. ~ (n > kMaxFields)
    BY <1>4, <1>5, CapacityAssumption DEF TableIsFull
  <2>2. k - 1 = n - 2
    BY <1>4, <1>5
  <2>3. \A l \in 3 .. (n - 2) : o.fields[l].tag_number \notin {95, 96}
    BY <1>2, <2>2 DEF Arrives
  <2> QED BY <2>1, <2>3 DEF Deferred
<1>12. o.frame_length <= Len(buf)
  <2>1. o.frame_length = ScanEnd
    BY <1>2, TrailerExtent DEF Candidate
  <2> QED BY <1>1, <2>1 DEF TypeInv, Inside, InPasses
<1> QED BY <1>11, <1>12, <1>13 DEF Follows, HeaderFollows, Finished, Settled

-----------------------------------------------------------------------------
(* Behind the header, the frame that arrives has arrived whole: the header has  *)
(* seen to it that the buffer holds its trailer.                            *)
LEMMA ArrivedWhole ==
    ASSUME TypeInv, NEW x, NEW o, Ahead(x, o), PlainTrailer(o), NEW at, Arrives(o, at),
           pc = "body" \/ InPasses
    PROVE  Candidate(o)
<1>1. /\ buf \in Seq(Byte) /\ Len(buf) \in Nat /\ x \in Seq(Byte) /\ Whole(x, o)
      /\ Alike(buf, x, Len(buf))
  BY Arrived DEF TypeInv
<1>2. o.frame_length <= Len(buf) /\ o.frame_length \in Nat
  <2>1. o.frame_length = ScanEnd
    BY TrailerExtent
  <2> QED BY <1>1, <2>1, WholeExtent DEF TypeInv, Inside
<1>3. Alike(x, buf, o.frame_length)
  BY <1>1, <1>2 DEF Alike
<1>4. Whole(buf, o)
  BY <1>1, <1>3, AlikeFrame
<1> QED BY <1>1, <1>4 DEF Candidate, Ahead, Alike

(* A frame with a plain trailer is never refused, neither whole nor in part;    *)
(* and the trailer of an index that comes with Ok is plain.                    *)
CompleteInv ==
    /\ \A x, o : Ahead(x, o) /\ PlainTrailer(o) => Follows(o)
    /\ Finished /\ status = "Ok" => PlainTrailer(Readable(out))

LEMMA OkIsPlain ==
    ASSUME TypeInv, SoundInv, CheckTrailer, status' = "Ok"
    PROVE  PlainTrailer(Readable(out'))
<1> DEFINE e == Entry(bodyEnd, bodyEnd + 3, sohs[Len(sohs)], 10)
           r == PushCheckSum(out, e)
<1>1. out' = r /\ ~TableIsFull(out)
  <2>1. TrailerVerdict \in Verdict
    BY DEF TrailerVerdict, Verdict
  <2>2. TrailerVerdict = "Ok"
    BY DEF CheckTrailer, ReturnInPass, Return
  <2> QED BY <2>2 DEF CheckTrailer, TrailerVerdict
<1>2. /\ out \in FieldIndex /\ bodyEnd \in Nat /\ bodyEnd + 7 <= Len(buf)
      /\ Len(buf) <= UINT32_MAX /\ Len(buf) \in Nat /\ sohs \in Seq(UInt32) /\ Len(sohs) # 0
  BY DEF CheckTrailer, TypeInv, HeaderTypeInv, HeaderTypeOK, PassTypeOK, Inside, InPasses,
         SoundInv, ScanEnd, kTrailer
<1>3. e.tag_start = bodyEnd /\ e.value_start = bodyEnd + 3
  <2>1. U32(bodyEnd) = bodyEnd /\ U32(bodyEnd + 3) = bodyEnd + 3
    BY <1>2, WidthAssumption, U32Fits
  <2> QED BY <2>1 DEF Entry
<1>4. e \in FieldEntry
  <2>1. bodyEnd + 3 \in Nat /\ sohs[Len(sohs)] \in Nat /\ 10 \in UInt32
    BY <1>2, WidthAssumption DEF UInt32
  <2> QED BY <1>2, <2>1, EntryType
<1> HIDE DEF e
<1>5. /\ Appends(out, e, r) /\ r.checksum_idx = out.field_count
  BY <1>1, <1>2, <1>4, PushCheckSumAppends
<1>6. out.field_count \in Nat
  BY <1>2 DEF FieldIndex
<1> HIDE DEF r
<1>7. Readable(r).checksum_idx = r.checksum_idx
      /\ Readable(r).fields[r.checksum_idx] = r.fields[r.checksum_idx]
  BY <1>5, <1>6 DEF Readable, FieldIndex, Appends
<1> QED BY <1>1, <1>3, <1>5, <1>7 DEF PlainTrailer, Appends

LEMMA CompleteStep ==
    ASSUME TypeInv, SoundInv, SoundInv', CompleteInv, [Statement]_<<vars, passVars>>
    PROVE  CompleteInv'
<1>1. CASE \E b \in Seq(Byte) : Enter(b)
  BY <1>1 DEF Enter, Call, CompleteInv, Follows, HeaderFollows, Finished
<1>2. CASE ScanStep
  <2>1. buf' = buf
    BY <1>2, StepOutcome
  <2>2. ASSUME NEW x, NEW o, Ahead(x, o), PlainTrailer(o)
        PROVE  Follows(o)'
    <3>1. Follows(o)
      BY <2>2 DEF CompleteInv
    <3>2. CASE Header
      <4>1. HeaderFollows(o)'
        BY <2>2, <3>1, <3>2, HeaderStepFollows DEF TypeInv, SoundInv, Follows, Header
      <4>2. pc' \in {"idle", "tag9", "length", "tag35", "body"}
        BY <3>2, HeaderStepFrame DEF Header
      <4>3. pc' = "body" => out'.field_count = 3
        BY <3>2, HeaderHandsOver DEF Header, TypeInv
      <4> QED BY <4>1, <4>2, <4>3 DEF Follows, HeaderFollows
    <3>3. CASE ~Header
      <4>1. pc \in {"body", "lanes", "mask", "fields", "tag"}
        BY <1>2, <3>3 DEF ScanStep, StartPass1, LoadLane, TakeLowestBit, NextLane, TailByte,
           EndPass1, NextField, TagDigit, TagEnd, CheckTrailer
      <4>2. PICK at : Arrives(o, at)
        BY <3>1, <4>1 DEF Follows
      <4>3. Candidate(o)
        BY <2>2, <4>1, <4>2, ArrivedWhole DEF InPasses
      <4> QED BY <1>2, <3>1, <3>3, <4>3, PassOneFollows, EndPass1Follows, NextFieldFollows,
                 TagDigitFollows, TagEndFollows, CheckTrailerFollows DEF ScanStep
    <3> QED BY <3>2, <3>3
  <2>3. Finished' /\ status' = "Ok" => PlainTrailer(Readable(out))'
    <3> SUFFICES ASSUME Finished', status' = "Ok" PROVE PlainTrailer(Readable(out'))
      BY DEF PlainTrailer
    <3>1. CheckTrailer
      <4>1. ~Header
        BY HeaderStepFrame DEF Header, Finished
      <4>2. pc' = "idle" /\ \A v : ReturnInPass(v) => v = "Ok"
        BY DEF Finished, ReturnInPass, Return
      <4>3. ~ (StartPass1 \/ LoadLane \/ NextLane \/ TakeLowestBit \/ TailByte \/ EndPass1)
        BY <4>2 DEF StartPass1, LoadLane, NextLane, TakeLowestBit, TailByte, EndPass1, Advance,
           vars
      <4>4. ~ (NextField \/ TagDigit \/ TagEnd)
        <5>1. ASSUME NextField PROVE FALSE
          BY <4>2, <5>1 DEF NextField, BeginNumber
        <5>2. ASSUME TagDigit PROVE FALSE
          BY <4>2, <5>2 DEF TagDigit, TakeDigit, Return
        <5>3. ASSUME TagEnd PROVE FALSE
          BY <4>2, <5>3 DEF TagEnd, Advance
        <5> QED BY <5>1, <5>2, <5>3
      <4> QED BY <1>2, <4>1, <4>3, <4>4 DEF ScanStep
    <3> QED BY <3>1, OkIsPlain
  <2> QED BY <2>1, <2>2, <2>3 DEF CompleteInv, Ahead, PlainTrailer
<1>3. CASE UNCHANGED <<vars, passVars>>
  <2>1. BodyStart' = BodyStart
    BY <1>3 DEF vars, BodyStart
  <2> QED BY <1>3, <2>1 DEF vars, passVars, CompleteInv, Ahead, PlainTrailer, Follows,
             HeaderFollows, Arrives, Finished, Settled
<1> QED
  BY <1>1, <1>2, <1>3 DEF Statement

LEMMA CompleteInit == Init => CompleteInv
BY DEF Init, HeaderInit, CompleteInv, Follows, HeaderFollows, Finished

LEMMA CompleteInvariance ==
    ASSUME \A b \in Buffers : Len(b) <= UINT32_MAX
    PROVE  Spec => []CompleteInv
<1>1. Init => CompleteInv
  BY CompleteInit
<1>2. TypeInv /\ SoundInv /\ SoundInv' /\ CompleteInv /\ [Next]_<<vars, passVars>>
         => CompleteInv'
  BY CompleteStep, NextIsStatement
<1> QED
  BY <1>1, <1>2, TypeInvariance, SoundInvariance, PTL DEF Spec

(* The AVX2 scanner accepts a buffer if and only if it begins with a frame     *)
(* whose trailer is spelled "10=", and answers with the reference's index.     *)
THEOREM AcceptsTheFrames ==
    ASSUME \A b \in Buffers : Len(b) <= UINT32_MAX
    PROVE  Spec => []AcceptsExactlyFrames
<1> DEFINE I == {o \in FrameIndices(buf) : PlainTrailer(o)}
<1>1. ASSUME TypeInv, SoundInv, CompleteInv, Finished
      PROVE  IF I = {} THEN status # "Ok" ELSE status = "Ok" /\ Readable(out) \in I
  <2>1. status = "Ok" => Readable(out) \in I
    BY <1>1 DEF SoundInv, OkIsExact, CompleteInv
  <2>2. CASE I = {}
    BY <2>1, <2>2
  <2>3. CASE I # {}
    <3>1. PICK o \in FrameIndices(buf) : PlainTrailer(o)
      BY <2>3
    <3>2. Ahead(buf, o) /\ o.frame_length <= Len(buf)
      <4>1. buf \in Seq(Byte)
        BY <1>1 DEF TypeInv, HeaderTypeInv, HeaderTypeOK
      <4> QED BY <4>1, WholeIsAhead
    <3>3. status = "Ok"
      <4>1. ~Deferred(o) /\ Whole(buf, o) /\ buf \in Seq(Byte)
        BY <1>1, <3>1, FrameIsWhole DEF TypeInv, HeaderTypeInv, HeaderTypeOK
      <4>2. ~ (Len(buf) < o.frame_length)
        BY <3>2, <4>1, WholeExtent
      <4> QED BY <1>1, <3>1, <3>2, <4>1, <4>2
              DEF CompleteInv, Follows, HeaderFollows, Settled
    <3> QED BY <2>1, <2>3, <3>3
  <2> QED BY <2>2, <2>3
<1>2. TypeInv /\ SoundInv /\ CompleteInv => AcceptsExactlyFrames
  BY <1>1 DEF AcceptsExactlyFrames, AcceptsExactly, PlainTrailer
<1> QED
  BY <1>2, TypeInvariance, SoundInvariance, CompleteInvariance, PTL

LEMMA FollowedAreAwaited ==
    ASSUME TypeInv, SoundInv, CompleteInv
    PROVE  FramesAreAwaited(Seq(Byte))
<1>1. ASSUME TypeInv, SoundInv, CompleteInv, Finished,
             NEW x \in Seq(Byte), Continues(x), NEW o \in FrameIndices(x), PlainTrailer(o)
      PROVE  AnswersFor(o)
  <2>1. buf \in Seq(Byte)
    BY <1>1 DEF TypeInv, HeaderTypeInv, HeaderTypeOK
  <2>2. Ahead(x, o)
    BY <1>1, <2>1, ContinuationIsAhead
  <2>3. HeaderFollows(o)
    BY <1>1, <2>2 DEF CompleteInv, Follows
  <2> QED BY <1>1, <2>1, <2>2, <2>3, FollowedIsAnswered DEF SoundInv
<1> QED BY <1>1 DEF FramesAreAwaited

(* Nor does the AVX2 scanner give up a frame that is still arriving and whose    *)
(* trailer will be spelled "10=".                                            *)
THEOREM AwaitsTheFrames ==
    ASSUME \A b \in Buffers : Len(b) <= UINT32_MAX
    PROVE  Spec => []FramesAreAwaited(Seq(Byte))
BY FollowedAreAwaited, TypeInvariance, SoundInvariance, CompleteInvariance, PTL

-----------------------------------------------------------------------------
(* Verdicts stand: two calls on buffers that share their first bytes go through  *)
(* the same locals, until the one with fewer bytes runs out of them.  Once the   *)
(* header has checked the length, it has all the bytes that the passes read.    *)
AllLocals == [h |-> Locals, q |-> q, mask |-> mask, sohs |-> sohs, i |-> i]

AtFirst == [h |-> AtStart, q |-> 0, mask |-> {}, sohs |-> << >>, i |-> 0]

InHeader == {"tag8", "tag9", "length", "tag35"}

With(s, h) == [h |-> h, q |-> s.q, mask |-> s.mask, sohs |-> s.sohs, i |-> s.i]

GoesTo(h, label, next) ==
    [pc |-> label, p |-> next, tagStart |-> h.tagStart, valueStart |-> h.valueStart,
     num |-> h.num, bodyEnd |-> h.bodyEnd, count |-> h.count, status |-> h.status]

EndFor(s) == s.h.bodyEnd + kTrailer

MaskAt(b, at) == {k \in 0 .. (Lane - 1) : at + k < Len(b) /\ ByteAt(b, at + k) = Soh}

(* What the statements do to the locals s, on the buffer b.                    *)
StartMoves(s, t) ==
    t = [h |-> GoesTo(s.h, "lanes", s.h.p), q |-> s.h.p, mask |-> {}, sohs |-> << >>, i |-> 0]

LaneMoves(b, s, t) ==
    t = [h |-> GoesTo(s.h, "mask", s.h.p), q |-> s.q, mask |-> MaskAt(b, s.q),
         sohs |-> s.sohs, i |-> s.i]

BitMoves(s, t) ==
    t = IF s.mask = {} THEN [h |-> GoesTo(s.h, "lanes", s.h.p), q |-> s.q + Lane,
                             mask |-> s.mask, sohs |-> s.sohs, i |-> s.i]
        ELSE IF Len(s.sohs) >= kMaxFields THEN With(s, Returns(s.h, "TableFull"))
        ELSE [h |-> s.h, q |-> s.q, mask |-> s.mask \ {Lowest(s.mask)},
              sohs |-> Append(s.sohs, U32(U32(s.q) + Lowest(s.mask))), i |-> s.i]

TailMoves(b, s, t) ==
    t = IF ByteAt(b, s.q) = Soh /\ Len(s.sohs) >= kMaxFields
        THEN With(s, Returns(s.h, "TableFull"))
        ELSE [h |-> s.h, q |-> s.q + 1, mask |-> s.mask,
              sohs |-> IF ByteAt(b, s.q) = Soh THEN Append(s.sohs, U32(s.q)) ELSE s.sohs,
              i |-> s.i]

EndMoves(s, t) ==
    t = IF s.sohs = << >> THEN With(s, Returns(s.h, "BadBodyLength"))
        ELSE With(s, GoesTo(s.h, "fields", U32(s.h.p)))

FieldMoves(s, t) ==
    t = IF s.h.count >= kMaxFields THEN With(s, Returns(s.h, "TableFull"))
        ELSE With(s, Begins(s.h, "tag", 0))

TagMoves(b, s, t) ==
    LET e == s.sohs[s.i + 1]
    IN  t = IF s.h.p < e /\ ByteAt(b, s.h.p) # Equals THEN With(s, Takes(b, s.h))
            ELSE IF s.h.p = e \/ s.h.p = s.h.tagStart \/ s.h.num = 0
                 THEN With(s, Returns(s.h, "Malformed"))
            ELSE IF NeedsFallback(s.h.num) THEN With(s, Returns(s.h, "FallbackRequested"))
            ELSE [h |-> [pc |-> "fields", p |-> U32(e + 1), tagStart |-> s.h.tagStart,
                         valueStart |-> s.h.valueStart, num |-> s.h.num,
                         bodyEnd |-> s.h.bodyEnd, count |-> s.h.count + 1,
                         status |-> s.h.status],
                  q |-> s.q, mask |-> s.mask, sohs |-> s.sohs, i |-> s.i + 1]

Misplaced(b, s) ==
    \/ s.h.p # U32(s.h.bodyEnd)
    \/ s.sohs[Len(s.sohs)] # U32(s.h.bodyEnd + 6)
    \/ ~HasLiteral(b, s.h.bodyEnd, <<1, 0, Equals>>)

NoDigits(b, s) == \E k \in 3 .. 5 : ~IsDigit(ByteAt(b, s.h.bodyEnd + k))

Accepted(h) ==
    [pc |-> "idle", p |-> h.p, tagStart |-> h.tagStart, valueStart |-> h.valueStart,
     num |-> h.num, bodyEnd |-> h.bodyEnd, count |-> h.count + 1, status |-> "Ok"]

TrailerMoves(b, s, t) ==
    t = With(s, IF Misplaced(b, s) THEN Returns(s.h, "BadBodyLength")
                ELSE IF NoDigits(b, s) THEN Returns(s.h, "Malformed")
                ELSE IF s.h.count >= kMaxFields THEN Returns(s.h, "TableFull")
                ELSE Accepted(s.h))

PassMoves(b, s, t) ==
    \/ s.h.pc = "body" /\ StartMoves(s, t)
    \/ s.h.pc = "lanes" /\ EndFor(s) - s.q >= Lane /\ LaneMoves(b, s, t)
    \/ s.h.pc = "mask" /\ BitMoves(s, t)
    \/ s.h.pc = "lanes" /\ ~ (EndFor(s) - s.q >= Lane) /\ s.q < EndFor(s) /\ TailMoves(b, s, t)
    \/ s.h.pc = "lanes" /\ ~ (EndFor(s) - s.q >= Lane) /\ s.q >= EndFor(s) /\ EndMoves(s, t)
    \/ s.h.pc = "fields" /\ s.i + 1 < Len(s.sohs) /\ FieldMoves(s, t)
    \/ s.h.pc = "fields" /\ ~ (s.i + 1 < Len(s.sohs)) /\ TrailerMoves(b, s, t)
    \/ s.h.pc = "tag" /\ TagMoves(b, s, t)

Moves(b, s, t) ==
    \/ s.h.pc \in InHeader /\ HeaderMoves(b, s.h, t.h) /\ t = With(s, t.h)
    \/ PassMoves(b, s, t)

LEMMA ReturnInPassMoves ==
    ASSUME NEW v, ReturnInPass(v)
    PROVE  AllLocals' = With(AllLocals, Returns(Locals, v))
BY ReturnMoves DEF ReturnInPass, passVars, AllLocals, With

LEMMA PassOneMoves ==
    ASSUME TypeInv,
           StartPass1 \/ LoadLane \/ TakeLowestBit \/ NextLane \/ TailByte \/ EndPass1
    PROVE  PassMoves(buf, AllLocals, AllLocals')
<1>0. /\ out \in FieldIndex /\ p \in Nat /\ q \in Nat /\ bodyEnd \in Nat
      /\ Lane \in Nat /\ ScanEnd \in Nat
  BY LaneAssumption DEF TypeInv, HeaderTypeInv, HeaderTypeOK, PassTypeOK, ScanEnd, kTrailer
<1> DEFINE s == AllLocals
<1>1. /\ s.h = Locals /\ s.q = q /\ s.mask = mask /\ s.sohs = sohs /\ s.i = i
      /\ s.h.pc = pc /\ s.h.p = p /\ s.h.tagStart = tagStart /\ s.h.valueStart = valueStart
      /\ s.h.num = num /\ s.h.bodyEnd = bodyEnd /\ s.h.count = out.field_count
      /\ s.h.status = status /\ EndFor(s) = ScanEnd
  BY DEF AllLocals, Locals, EndFor, ScanEnd
<1>2. /\ MoreLanes <=> (EndFor(s) - s.q >= Lane)
      /\ SohsAreFull <=> (Len(s.sohs) >= kMaxFields)
      /\ LaneMask = MaskAt(buf, s.q)
  BY <1>1 DEF MoreLanes, SohsAreFull, LaneMask, MaskAt
<1>3. s' = [h |-> [pc |-> pc', p |-> p', tagStart |-> tagStart', valueStart |-> valueStart',
                   num |-> num', bodyEnd |-> bodyEnd', count |-> out'.field_count,
                   status |-> status'],
            q |-> q', mask |-> mask', sohs |-> sohs', i |-> i']
  BY DEF AllLocals, Locals
<1>4. \A v : ReturnInPass(v) => s' = With(s, Returns(s.h, v))
  BY <1>1, ReturnInPassMoves
<1>5. Locals = [pc |-> pc, p |-> p, tagStart |-> tagStart, valueStart |-> valueStart,
                num |-> num, bodyEnd |-> bodyEnd, count |-> out.field_count,
                status |-> status]
  BY DEF Locals
<1> HIDE DEF s
<1>6. CASE StartPass1
  <2>1. StartMoves(s, s')
    BY <1>1, <1>3, <1>6 DEF StartPass1, StartMoves, GoesTo
  <2> QED BY <1>1, <1>6, <2>1 DEF StartPass1, PassMoves, s
<1>7. CASE LoadLane
  <2>1. LaneMoves(buf, s, s')
    BY <1>1, <1>2, <1>3, <1>7 DEF LoadLane, LaneMoves, GoesTo
  <2> QED BY <1>1, <1>2, <1>7, <2>1 DEF LoadLane, PassMoves, s
<1>8. CASE TakeLowestBit
  <2>1. CASE SohsAreFull
    <3>1. ReturnInPass("TableFull")
      BY <1>8, <2>1 DEF TakeLowestBit
    <3>2. BitMoves(s, s')
      BY <1>1, <1>2, <1>4, <1>8, <2>1, <3>1 DEF TakeLowestBit, BitMoves
    <3> QED BY <1>1, <1>8, <3>2 DEF TakeLowestBit, PassMoves, s
  <2>2. CASE ~SohsAreFull
    <3>1. /\ sohs' = Append(sohs, U32(U32(q) + Lowest(mask))) /\ mask' = mask \ {Lowest(mask)}
          /\ UNCHANGED <<vars, q, i>> /\ mask # {}
      BY <1>8, <2>2 DEF TakeLowestBit
    <3>2. s' = [h |-> Locals, q |-> q, mask |-> mask \ {Lowest(mask)},
                sohs |-> Append(sohs, U32(U32(q) + Lowest(mask))), i |-> i]
      BY <1>3, <1>5, <3>1 DEF vars
    <3>3. BitMoves(s, s')
      BY <1>1, <1>2, <2>2, <3>1, <3>2 DEF BitMoves
    <3> QED BY <1>1, <1>8, <3>3 DEF TakeLowestBit, PassMoves, s
  <2> QED BY <2>1, <2>2
<1>9. CASE NextLane
  <2>1. BitMoves(s, s')
    BY <1>1, <1>3, <1>9 DEF NextLane, BitMoves, GoesTo
  <2> QED BY <1>1, <1>9, <2>1 DEF NextLane, PassMoves, s
<1>10. CASE TailByte
  <2>1. TailMoves(buf, s, s')
    <3>1. CASE ByteAt(buf, q) = Soh /\ SohsAreFull
      <4>1. ReturnInPass("TableFull")
        BY <1>10, <3>1 DEF TailByte
      <4> QED BY <1>1, <1>2, <1>4, <3>1, <4>1 DEF TailMoves
    <3>2. CASE ~ (ByteAt(buf, q) = Soh /\ SohsAreFull)
      <4>1. /\ sohs' = IF ByteAt(buf, q) = Soh THEN Append(sohs, U32(q)) ELSE sohs
            /\ q' = q + 1 /\ UNCHANGED <<vars, mask, i>>
        BY <1>10, <3>2 DEF TailByte
      <4>2. s' = [h |-> Locals, q |-> q + 1, mask |-> mask,
                  sohs |-> IF ByteAt(buf, q) = Soh THEN Append(sohs, U32(q)) ELSE sohs,
                  i |-> i]
        BY <1>3, <1>5, <4>1 DEF vars
      <4> QED BY <1>1, <1>2, <3>2, <4>2 DEF TailMoves
    <3> QED BY <3>1, <3>2
  <2> QED BY <1>1, <1>2, <1>10, <2>1 DEF TailByte, PassMoves, s
<1>11. CASE EndPass1
  <2>1. EndMoves(s, s')
    <3>1. CASE sohs = << >>
      <4>1. ReturnInPass("BadBodyLength")
        BY <1>11, <3>1 DEF EndPass1
      <4> QED BY <1>1, <1>4, <3>1, <4>1 DEF EndMoves
    <3>2. CASE sohs # << >>
      <4>1. Advance("fields", U32(p), out) /\ UNCHANGED <<bodyEnd, passVars>>
        BY <1>11, <3>2 DEF EndPass1
      <4> QED BY <1>1, <1>3, <3>2, <4>1 DEF Advance, passVars, EndMoves, With, GoesTo
    <3> QED BY <3>1, <3>2
  <2> QED BY <1>1, <1>2, <1>11, <2>1 DEF EndPass1, PassMoves, s
<1> QED BY <1>6, <1>7, <1>8, <1>9, <1>10, <1>11

LEMMA PassTwoMoves ==
    ASSUME TypeInv, NextField \/ TagDigit \/ TagEnd \/ CheckTrailer
    PROVE  PassMoves(buf, AllLocals, AllLocals')
<1>0. out \in FieldIndex /\ p \in Nat
  BY DEF TypeInv, HeaderTypeInv, HeaderTypeOK
<1> DEFINE s == AllLocals
<1>1. /\ s.h = Locals /\ s.q = q /\ s.mask = mask /\ s.sohs = sohs /\ s.i = i
      /\ s.h.pc = pc /\ s.h.p = p /\ s.h.tagStart = tagStart /\ s.h.valueStart = valueStart
      /\ s.h.num = num /\ s.h.bodyEnd = bodyEnd /\ s.h.count = out.field_count
      /\ s.h.status = status
  BY DEF AllLocals, Locals
<1>2. /\ MoreFields <=> (s.i + 1 < Len(s.sohs))
      /\ TableIsFull(out) <=> (s.h.count >= kMaxFields)
      /\ FieldSoh = s.sohs[s.i + 1]
  BY <1>1 DEF MoreFields, TableIsFull, FieldSoh
<1>3. s' = [h |-> Locals', q |-> q', mask |-> mask', sohs |-> sohs', i |-> i']
  BY DEF AllLocals
<1>4. \A v : ReturnInPass(v) => s' = With(s, Returns(s.h, v))
  BY <1>1, ReturnInPassMoves
<1>5. UNCHANGED passVars => s' = With(s, Locals')
  BY <1>1, <1>3 DEF passVars, With
<1> HIDE DEF s
<1>6. CASE NextField
  <2>1. FieldMoves(s, s')
    <3>1. CASE TableIsFull(out)
      BY <1>2, <1>4, <1>6, <3>1 DEF NextField, FieldMoves
    <3>2. CASE ~TableIsFull(out)
      <4>1. BeginNumber("tag", 0) /\ UNCHANGED passVars
        BY <1>6, <3>2 DEF NextField
      <4> QED BY <1>1, <1>2, <1>5, <3>2, <4>1, BeginMoves DEF FieldMoves
    <3> QED BY <3>1, <3>2
  <2> QED BY <1>1, <1>2, <1>6, <2>1 DEF NextField, PassMoves, s
<1>7. CASE TagDigit
  <2>1. TagMoves(buf, s, s')
    BY <1>1, <1>2, <1>5, <1>7, TakeMoves DEF TagDigit, TagMoves
  <2> QED BY <1>1, <1>7, <2>1 DEF TagDigit, PassMoves, s
<1>8. CASE TagEnd
  <2>0. pc = "tag" /\ (p < FieldSoh => ByteAt(buf, p) = Equals)
    BY <1>8 DEF TagEnd
  <2>1. CASE p = FieldSoh \/ p = tagStart \/ num = 0
    <3>1. ReturnInPass("Malformed")
      BY <1>8, <2>1 DEF TagEnd
    <3>2. TagMoves(buf, s, s')
      BY <1>1, <1>2, <1>4, <2>0, <2>1, <3>1 DEF TagMoves
    <3> QED BY <1>1, <2>0, <3>2 DEF PassMoves, s
  <2>2. CASE ~ (p = FieldSoh \/ p = tagStart \/ num = 0) /\ NeedsFallback(num)
    <3>1. ReturnInPass("FallbackRequested")
      BY <1>8, <2>2 DEF TagEnd
    <3>2. TagMoves(buf, s, s')
      BY <1>1, <1>2, <1>4, <2>0, <2>2, <3>1 DEF TagMoves
    <3> QED BY <1>1, <2>0, <3>2 DEF PassMoves, s
  <2>3. CASE ~ (p = FieldSoh \/ p = tagStart \/ num = 0) /\ ~NeedsFallback(num)
    <3>1. /\ Advance("fields", U32(FieldSoh + 1), Push(out, Entry(tagStart, p + 1, FieldSoh, num)))
          /\ i' = i + 1 /\ UNCHANGED <<bodyEnd, q, mask, sohs>>
      BY <1>8, <2>3 DEF TagEnd
    <3>2. Locals' = [pc |-> "fields", p |-> U32(FieldSoh + 1), tagStart |-> tagStart,
                     valueStart |-> valueStart, num |-> num, bodyEnd |-> bodyEnd,
                     count |-> out.field_count + 1, status |-> status]
      <4>1. out'.field_count = out.field_count + 1
        BY <1>0, <3>1, PushCounts DEF Advance
      <4> QED BY <3>1, <4>1 DEF Advance, Locals
    <3>3. TagMoves(buf, s, s')
      BY <1>1, <1>2, <1>3, <2>0, <2>3, <3>1, <3>2 DEF TagMoves
    <3> QED BY <1>1, <2>0, <3>3 DEF PassMoves, s
  <2> QED BY <2>1, <2>2, <2>3
<1>9. CASE CheckTrailer
  <2>1. TrailerVerdict = IF Misplaced(buf, s) THEN "BadBodyLength"
                         ELSE IF NoDigits(buf, s) THEN "Malformed"
                         ELSE IF TableIsFull(out) THEN "TableFull" ELSE "Ok"
    BY <1>1 DEF TrailerVerdict, Misplaced, NoDigits
  <2>2. CASE TrailerVerdict # "Ok"
    <3>1. ReturnInPass(TrailerVerdict)
      BY <1>9, <2>2 DEF CheckTrailer
    <3>2. s' = With(s, Returns(s.h, TrailerVerdict))
      BY <1>4, <3>1
    <3>3. TrailerMoves(buf, s, s')
      BY <1>2, <2>1, <2>2, <3>2 DEF TrailerMoves
    <3> QED BY <1>1, <1>2, <1>9, <3>3 DEF CheckTrailer, PassMoves, s
  <2>3. CASE TrailerVerdict = "Ok"
    <3>1. /\ out' = PushCheckSum(out, Entry(bodyEnd, bodyEnd + 3, sohs[Len(sohs)], 10))
          /\ status' = "Ok" /\ pc' = "idle"
          /\ UNCHANGED <<buf, p, tagStart, valueStart, num, bodyEnd, passVars>>
      BY <1>9, <2>3 DEF CheckTrailer
    <3>2. out'.field_count = out.field_count + 1
      BY <1>0, <3>1, PushCounts
    <3>3. Locals' = Accepted(s.h)
      BY <1>1, <3>1, <3>2 DEF Locals, Accepted
    <3>4. TrailerMoves(buf, s, s')
      BY <1>2, <1>5, <2>1, <2>3, <3>1, <3>3 DEF TrailerMoves
    <3> QED BY <1>1, <1>2, <1>9, <3>4 DEF CheckTrailer, PassMoves, s
  <2> QED BY <2>2, <2>3
<1> QED BY <1>6, <1>7, <1>8, <1>9

LEMMA StepMoves ==
    ASSUME TypeInv, ScanStep
    PROVE  Moves(buf, AllLocals, AllLocals')
<1>1. CASE Header
  <2>1. HeaderMoves(buf, Locals, Locals')
    BY <1>1, HeaderStepMoves DEF Header, TypeInv
  <2>2. pc \in InHeader
    BY <1>1 DEF Header, HeaderStep, ScanBeginString, ScanBodyLengthTag, BodyLengthDigit,
       BodyLengthEnd, ScanMsgType, InHeader
  <2>3. /\ AllLocals.h = Locals /\ AllLocals.h.pc = pc /\ AllLocals'.h = Locals'
        /\ AllLocals' = With(AllLocals, Locals')
    BY <1>1 DEF Header, passVars, AllLocals, Locals, With
  <2> QED BY <2>1, <2>2, <2>3 DEF Moves
<1> QED BY <1>1, PassOneMoves, PassTwoMoves DEF ScanStep, Moves

(* A statement of the passes is the same statement as when only c had arrived    *)
(* of the buffer, for c holds the frame up to its end.                         *)
LEMMA PassLockstep ==
    ASSUME TypeInv, SoundInv, NEW c \in Seq(Byte), Alike(c, buf, Len(c)), ScanEnd <= Len(c),
           pc = "body" \/ InPasses,
           NEW t, PassMoves(c, AllLocals, t), PassMoves(buf, AllLocals, AllLocals')
    PROVE  AllLocals' = t
<1>0. /\ buf \in Seq(Byte) /\ p \in Nat /\ q \in Nat /\ bodyEnd \in Nat /\ Lane \in Nat
      /\ Len(c) \in Nat /\ Len(buf) \in Nat /\ Len(c) <= Len(buf)
      /\ ScanEnd = bodyEnd + 7
      /\ \A l \in 0 .. (Len(c) - 1) : ByteAt(c, l) = ByteAt(buf, l)
  BY LaneAssumption DEF TypeInv, HeaderTypeInv, HeaderTypeOK, PassTypeOK, Alike, ScanEnd, kTrailer
<1> DEFINE s == AllLocals
<1>1. /\ s.h.pc = pc /\ s.h.p = p /\ s.q = q /\ s.i = i /\ s.sohs = sohs
      /\ s.h.bodyEnd = bodyEnd /\ EndFor(s) = ScanEnd
  BY DEF AllLocals, Locals, EndFor, ScanEnd
<1> HIDE DEF s
<1>2. CASE pc \in {"body", "mask"}
  <2>1. CASE pc = "body"
    <3>1. StartMoves(s, t) /\ StartMoves(s, s')
      BY <1>1, <2>1 DEF PassMoves, s
    <3> QED BY <3>1 DEF StartMoves, s
  <2>2. CASE pc = "mask"
    <3>1. BitMoves(s, t) /\ BitMoves(s, s')
      BY <1>1, <2>2 DEF PassMoves, s
    <3> HIDE DEF s
    <3>2. s' = t
      BY <3>1 DEF BitMoves
    <3> QED BY <3>2 DEF s
  <2> QED BY <1>2, <2>1, <2>2
<1>3. CASE pc = "lanes" /\ EndFor(s) - s.q >= Lane
  <2>1. \A k \in 0 .. (Lane - 1) : q + k < Len(c) /\ q + k < Len(buf) /\ q + k \in 0 .. (Len(c) - 1)
    BY <1>0, <1>1, <1>3
  <2>2. MaskAt(c, s.q) = MaskAt(buf, s.q)
    BY <1>0, <1>1, <2>1 DEF MaskAt
  <2> QED BY <1>1, <1>3, <2>2 DEF PassMoves, LaneMoves, s
<1>4. CASE pc = "lanes" /\ ~ (EndFor(s) - s.q >= Lane)
  <2>1. CASE s.q < EndFor(s)
    <3>1. ByteAt(c, s.q) = ByteAt(buf, s.q)
      BY <1>0, <1>1, <2>1
    <3>2. ~ (s.q >= EndFor(s))
      BY <1>0, <1>1, <2>1
    <3> QED BY SMTT(30), <1>1, <1>4, <3>1, <3>2 DEF PassMoves, TailMoves, s
  <2>2. CASE ~ (s.q < EndFor(s))
    BY <1>1, <1>4, <2>2 DEF PassMoves, EndMoves, s
  <2> QED BY <2>1, <2>2
<1>5. CASE pc = "fields" /\ s.i + 1 < Len(s.sohs)
  BY <1>1, <1>5 DEF PassMoves, FieldMoves, s
<1>6. CASE pc = "fields" /\ ~ (s.i + 1 < Len(s.sohs))
  <2>1. HasLiteral(c, bodyEnd, <<1, 0, Equals>>) <=> HasLiteral(buf, bodyEnd, <<1, 0, Equals>>)
    BY <1>0, LiteralsTogether
  <2>2. \A k \in 3 .. 5 : ByteAt(c, bodyEnd + k) = ByteAt(buf, bodyEnd + k)
    BY <1>0
  <2>3. (Misplaced(c, s) <=> Misplaced(buf, s)) /\ (NoDigits(c, s) <=> NoDigits(buf, s))
    BY <1>1, <2>1, <2>2 DEF Misplaced, NoDigits
  <2>4. TrailerMoves(c, s, t) /\ TrailerMoves(buf, s, s')
    BY <1>1, <1>6 DEF PassMoves, s
  <2> QED BY <2>3, <2>4 DEF TrailerMoves, s
<1>7. CASE pc = "tag"
  <2>1. FieldSoh \in Nat /\ FieldSoh < ScanEnd
    <3>1. sohs \in Seq(UInt32) /\ i + 1 \in 1 .. Len(sohs)
      BY <1>7 DEF TypeInv, PassTypeOK, Inside
    <3>2. Lists(sohs, SohsFrom(BodyStart, ScanEnd))
      BY <1>7 DEF SoundInv, Collected, PassOneFindsEverySoh
    <3>3. sohs[i + 1] \in SohsFrom(BodyStart, ScanEnd)
      BY <3>1, <3>2 DEF Lists
    <3>4. sohs[i + 1] \in UInt32
      BY <3>1
    <3> QED BY <1>0, <3>3, <3>4 DEF FieldSoh, SohsFrom, UInt32
  <2>2. FieldSoh = s.sohs[s.i + 1]
    BY <1>1 DEF FieldSoh
  <2>3. p < FieldSoh => ByteAt(c, p) = ByteAt(buf, p)
    BY <1>0, <2>1
  <2>4. p < FieldSoh => Takes(c, s.h) = Takes(buf, s.h)
    BY <1>1, <2>3 DEF Takes
  <2>5. TagMoves(c, s, t) /\ TagMoves(buf, s, s')
    BY <1>1, <1>7 DEF PassMoves, s
  <2>6. s' = t
    BY <1>1, <2>2, <2>3, <2>4, <2>5 DEF TagMoves
  <2> QED BY <2>6 DEF s
<1> QED BY <1>2, <1>3, <1>4, <1>5, <1>6, <1>7 DEF InPasses

(* How far the next statement may read: the header as far as the bytes of the    *)
(* call before, the passes up to the end of the frame, which it had.            *)
WithinReach(c) ==
    /\ pc \in InHeader => p <= Len(c)
    /\ pc = "body" \/ InPasses => ScanEnd <= Len(c)

LEMMA Lockstep ==
    ASSUME TypeInv, SoundInv, ScanStep,
           NEW c \in Seq(Byte), Alike(c, buf, Len(c)), WithinReach(c),
           NEW t, Moves(c, AllLocals, t), t.h.status # "Truncated"
    PROVE  AllLocals' = t /\ WithinReach(c)'
<1>1. Moves(buf, AllLocals, AllLocals')
  BY StepMoves
<1>2. AllLocals.h = Locals /\ AllLocals.h.pc = pc /\ AllLocals'.h = Locals'
      /\ Locals'.pc = pc'
  BY DEF AllLocals, Locals
<1>3. CASE pc \in InHeader
  <2>1. \A b, u : ~PassMoves(b, AllLocals, u)
    BY <1>2, <1>3 DEF PassMoves, InHeader
  <2>2. /\ HeaderMoves(c, Locals, t.h) /\ t = With(AllLocals, t.h)
        /\ HeaderMoves(buf, Locals, Locals') /\ AllLocals' = With(AllLocals, Locals')
    BY <1>1, <1>2, <2>1 DEF Moves
  <2>3. /\ Locals' = t.h /\ p' <= Len(c)
        /\ pc' = "body" => bodyEnd' + kTrailer <= Len(c)
    BY <1>3, <2>2, HeaderLockstep DEF TypeInv, WithinReach
  <2>4. pc' \in InHeader \cup {"idle", "body"}
    <3>1. Header
      BY <1>3 DEF ScanStep, InHeader, StartPass1, LoadLane, TakeLowestBit, NextLane, TailByte,
         EndPass1, NextField, TagDigit, TagEnd, CheckTrailer
    <3> QED BY <3>1, HeaderStepFrame DEF Header, InHeader
  <2> QED BY <2>2, <2>3, <2>4 DEF WithinReach, InPasses, InHeader, ScanEnd
<1>4. CASE pc \notin InHeader
  <2>1. ~Header
    BY <1>4 DEF Header, HeaderStep, ScanBeginString, ScanBodyLengthTag, BodyLengthDigit,
       BodyLengthEnd, ScanMsgType, InHeader
  <2>2. pc = "body" \/ InPasses
    BY <2>1 DEF ScanStep, InPasses, StartPass1, LoadLane, TakeLowestBit, NextLane, TailByte,
       EndPass1, NextField, TagDigit, TagEnd, CheckTrailer
  <2>3. PassMoves(c, AllLocals, t) /\ PassMoves(buf, AllLocals, AllLocals')
    BY <1>1, <1>2, <1>4 DEF Moves
  <2>4. AllLocals' = t
    BY <2>2, <2>3, PassLockstep DEF WithinReach
  <2>5. bodyEnd' = bodyEnd /\ pc' \notin InHeader
    <3>1. CASE StartPass1 \/ LoadLane \/ NextLane \/ TakeLowestBit \/ TailByte \/ EndPass1
      BY <1>4, <3>1 DEF StartPass1, LoadLane, NextLane, TakeLowestBit, TailByte, EndPass1,
         ReturnInPass, Return, Advance, vars, InHeader
    <3>2. CASE NextField \/ TagDigit \/ TagEnd \/ CheckTrailer
      BY <1>4, <3>2 DEF NextField, TagDigit, TagEnd, CheckTrailer, ReturnInPass, Return,
         Advance, BeginNumber, TakeDigit, InHeader
    <3> QED BY <2>1, <3>1, <3>2 DEF ScanStep
  <2> QED BY <2>2, <2>4, <2>5 DEF WithinReach, ScanEnd
<1> QED BY <1>3, <1>4

(* S holds the locals that a call on b has gone through, from its start to where  *)
(* it is now.                                                                *)
Visited(b, S, now) ==
    /\ AtFirst \in S /\ now \in S
    /\ \A s \in S : \/ s = now
                    \/ /\ s.h.pc # "idle" /\ s.h.status = "None"
                       /\ \E t \in S : Moves(b, s, t)

(* S holds the locals of a call on b that has ended with the verdict v.          *)
Decides(b, S, v) ==
    /\ AtFirst \in S
    /\ \A s \in S : IF s.h.pc = "idle" THEN s.h.status = v
                    ELSE s.h.status = "None" /\ \E t \in S : Moves(b, s, t)

RunInv ==
    /\ pc # "idle" => status = "None"
    /\ status # "None" \/ pc # "idle" => \E S : Visited(buf, S, AllLocals)

(* After a verdict, the next call goes where the call before has gone.          *)
Retraces(c, S) ==
    /\ c \in Seq(Byte) /\ Alike(c, buf, Len(c)) /\ WithinReach(c)
    /\ Decides(c, S, prior.status)
    /\ AllLocals \in S
    /\ prior.status = "Ok" => prior.index \in FrameIndices(c)

PriorInv == prior.status \notin {"None", "Truncated"} => \E c, S : Retraces(c, S)

CallerInv == TypeInv /\ SoundInv /\ StreamInv /\ RunInv /\ PriorInv

LEMMA EndDecides ==
    ASSUME NEW S, Visited(buf, S, AllLocals), Finished
    PROVE  Decides(buf, S, status)
<1>1. AllLocals.h.pc = "idle" /\ AllLocals.h.status = status
  BY DEF AllLocals, Locals, Finished
<1> QED BY <1>1 DEF Visited, Decides

LEMMA CallerInvInit ==
    ASSUME CallerStart, \A s \in Streams \cup Handed : Len(s) <= UINT32_MAX
    PROVE  CallerInv
<1>1. TypeInv /\ SoundInv
  BY TypeInvInit, SoundInit DEF CallerStart
<1>2. StreamInv
  BY StreamBegins DEF CallerStart, Init
<1>3. RunInv /\ PriorInv
  BY DEF CallerStart, Init, HeaderInit, CallerInit, NoPrior, RunInv, PriorInv
<1> QED BY <1>1, <1>2, <1>3 DEF CallerInv

LEMMA EnterBeginsRun ==
    ASSUME TypeInv, NEW b, Enter(b)
    PROVE  RunInv' /\ AllLocals' = AtFirst
<1>1. Call(b) /\ AllLocals' = [h |-> Locals', q |-> 0, mask |-> {}, sohs |-> << >>, i |-> 0]
  BY DEF Enter, EnterPasses, AllLocals
<1>2. AllLocals' = AtFirst
  BY <1>1, CallStarts DEF TypeInv, AtFirst
<1>3. Visited(buf, {AtFirst}, AtFirst)'
  BY DEF Visited
<1>4. status' = "None" /\ pc' # "idle"
  BY <1>1 DEF Call
<1> QED BY <1>2, <1>3, <1>4 DEF RunInv

LEMMA ScanContinuesRun ==
    ASSUME TypeInv, RunInv, ScanStep
    PROVE  RunInv'
<1>1. /\ pc # "idle" /\ buf' = buf
      /\ IF pc' = "idle" THEN status' \in Verdict ELSE status' = status
  BY StepOutcome
<1>2. PICK S : Visited(buf, S, AllLocals)
  BY <1>1 DEF RunInv
<1>3. Moves(buf, AllLocals, AllLocals')
  BY StepMoves
<1>4. AllLocals.h.pc = pc /\ AllLocals.h.status = "None"
  BY <1>1 DEF AllLocals, Locals, RunInv
<1>5. Visited(buf, S \cup {AllLocals'}, AllLocals')
  BY <1>1, <1>2, <1>3, <1>4 DEF Visited
<1> QED BY <1>1, <1>5 DEF RunInv

LEMMA ScanRetraces ==
    ASSUME TypeInv, SoundInv, RunInv, PriorInv, Scan
    PROVE  PriorInv'
<1>0. ScanStep /\ prior' = prior
  BY DEF Scan, callerVars
<1>1. pc # "idle" /\ buf' = buf
  BY <1>0, StepOutcome
<1>2. SUFFICES ASSUME prior.status \notin {"None", "Truncated"}
               PROVE  \E c, S : Retraces(c, S)'
  BY <1>0 DEF PriorInv
<1>3. PICK c, S : Retraces(c, S)
  BY <1>2 DEF PriorInv
<1>4. AllLocals.h.pc # "idle"
  BY <1>1 DEF AllLocals, Locals
<1>5. PICK t \in S : Moves(c, AllLocals, t)
  BY <1>3, <1>4 DEF Retraces, Decides
<1>6. t.h.status # "Truncated"
  BY <1>2, <1>3, <1>5 DEF Retraces, Decides
<1>7. AllLocals' = t /\ WithinReach(c)'
  BY <1>0, <1>3, <1>5, <1>6, Lockstep DEF Retraces
<1>8. Retraces(c, S)'
  BY <1>0, <1>1, <1>3, <1>5, <1>7 DEF Retraces
<1> QED BY <1>8

LEMMA OfferRetraces ==
    ASSUME TypeInv, SoundInv, StreamInv, RunInv, Offer, EnterPasses
    PROVE  PriorInv'
<1>1. /\ pc = "idle" /\ prior'.status = status /\ prior'.index = Readable(out)
      /\ \E b : Enter(b)
  BY DEF Offer, Enter
<1>2. SUFFICES ASSUME status \notin {"None", "Truncated"}
               PROVE  \E c, S : Retraces(c, S)'
  BY <1>1 DEF PriorInv
<1>3. Finished
  BY <1>1, <1>2 DEF Finished
<1>4. PICK S : Visited(buf, S, AllLocals)
  BY <1>2 DEF RunInv
<1>5. Decides(buf, S, status)
  BY <1>3, <1>4, EndDecides
<1>6. AllLocals' = AtFirst /\ p' = 0 /\ pc' = "tag8"
  BY <1>1, EnterBeginsRun DEF Enter, Call
<1>7. buf \in Seq(Byte) /\ Len(buf) \in Nat /\ Alike(buf, buf', Len(buf))
  BY OfferExtends DEF StreamInv
<1>8. status = "Ok" => Readable(out) \in FrameIndices(buf)
  BY <1>3 DEF SoundInv, OkIsExact
<1>9. PICK b, v, r : b = buf /\ v = status /\ r = Readable(out)
  OBVIOUS
<1>10. /\ b \in Seq(Byte) /\ Alike(b, buf', Len(b)) /\ WithinReach(b)' /\ Decides(b, S, v)
       /\ AllLocals' \in S /\ (v = "Ok" => r \in FrameIndices(b))
  BY <1>5, <1>6, <1>7, <1>8, <1>9 DEF Decides, WithinReach, InPasses
<1>11. prior'.status = v /\ prior'.index = r
  BY <1>1, <1>9
<1>12. Retraces(b, S)'
  BY <1>10, <1>11 DEF Retraces
<1> QED BY <1>12

LEMMA CallerStep ==
    ASSUME CallerInv, [CallScan \/ Scan]_CallerVars,
           \A s \in Streams \cup Handed : Len(s) <= UINT32_MAX
    PROVE  CallerInv'
<1> USE DEF CallerInv
<1>1. CASE Offer /\ EnterPasses
  <2>1. PICK b \in Seq(Byte) : Enter(b)
    BY <1>1, OfferExtends DEF Enter
  <2>2. TypeInv' /\ SoundInv'
    BY <1>1, <2>1, OfferExtends, TypeInvStep, SoundStep DEF Statement
  <2>3. StreamInv'
    BY <1>1, OfferExtends DEF Offer, StreamInv
  <2> QED BY <1>1, <2>1, <2>2, <2>3, EnterBeginsRun, OfferRetraces
<1>2. ASSUME NEW b \in Handed, Hand(b), EnterPasses PROVE CallerInv'
  <2>1. b \in Seq(Byte) /\ Len(b) <= UINT32_MAX /\ Enter(b) /\ buf' = b /\ prior' = NoPrior
    BY <1>2, CallerAssumption DEF Hand, Enter, Call
  <2>2. TypeInv' /\ SoundInv'
    BY <2>1, TypeInvStep, SoundStep DEF Statement
  <2>3. StreamInv'
    BY <1>2, HandBegins
  <2> QED BY <2>1, <2>2, <2>3, EnterBeginsRun DEF PriorInv, NoPrior
<1>3. CASE Scan
  <2>1. ScanStep /\ stream' = stream /\ buf' = buf
    BY <1>3, StepOutcome DEF Scan, callerVars
  <2>2. TypeInv' /\ SoundInv'
    BY <2>1, TypeInvStep, SoundStep DEF Statement, SoundInv
  <2>3. StreamInv'
    BY <2>1 DEF StreamInv
  <2> QED BY <1>3, <2>1, <2>2, <2>3, ScanContinuesRun, ScanRetraces
<1>4. CASE UNCHANGED CallerVars
  <2>1. UNCHANGED vars /\ UNCHANGED passVars /\ stream' = stream /\ prior' = prior
    BY <1>4 DEF CallerVars, callerVars
  <2>2. /\ buf' = buf /\ p' = p /\ pc' = pc /\ status' = status /\ AllLocals' = AllLocals
        /\ bodyEnd' = bodyEnd
    BY <2>1 DEF vars, passVars, AllLocals, Locals
  <2>3. TypeInv' /\ SoundInv'
    BY <2>1, <2>2, TypeInvStep, SoundStep DEF SoundInv
  <2> QED BY <2>1, <2>2, <2>3 DEF StreamInv, RunInv, PriorInv, Retraces, WithinReach, InPasses,
                                 ScanEnd
<1> QED BY <1>1, <1>2, <1>3, <1>4 DEF CallScan, Caller

LEMMA LastVerdictStands ==
    ASSUME CallerInv, Finished, prior.status \notin {"None", "Truncated"}
    PROVE  /\ status = prior.status
           /\ status = "Ok" => Readable(out) = prior.index
<1>1. PICK c, S : Retraces(c, S)
  BY DEF CallerInv, PriorInv
<1>2. AllLocals.h.pc = "idle" /\ AllLocals.h.status = status
  BY DEF AllLocals, Locals, Finished
<1>3. status = prior.status
  BY <1>1, <1>2 DEF Retraces, Decides
<1>4. ASSUME status = "Ok" PROVE Readable(out) = prior.index
  BY <1>1, <1>3, <1>4, SameFrameAgain DEF CallerInv, SoundInv, OkIsExact, StreamInv, Retraces
<1> QED BY <1>3, <1>4

(* A caller who has been given a verdict other than Truncated may act on it: the   *)
(* AVX2 scanner says the same, and delimits the same frame, however many more     *)
(* bytes of the stream it is shown and however they fall into its vectors.        *)
THEOREM VerdictsAreFinal ==
    ASSUME \A s \in Streams \cup Handed : Len(s) <= UINT32_MAX
    PROVE  CallerSpec => []VerdictStands
<1>1. CallerInv => VerdictStands
  BY LastVerdictStands DEF VerdictStands
<1>2. CallerStart => CallerInv
  BY CallerInvInit
<1>3. CallerInv /\ [CallScan \/ Scan]_CallerVars => CallerInv'
  BY CallerStep
<1> QED
  BY <1>1, <1>2, <1>3, PTL DEF CallerSpec

(* The stream of such a caller is one of those the scanner awaits, however it is cut *)
(* into buffers and whatever the caller's index holds from the calls before.   *)
THEOREM AwaitsTheStream ==
    ASSUME \A s \in Streams \cup Handed : Len(s) <= UINT32_MAX
    PROVE  CallerSpec => []StreamIsAwaited
<1>1. CallerInv /\ CompleteInv => StreamIsAwaited
  BY FollowedAreAwaited DEF CallerInv, StreamInv, StreamIsAwaited, FramesAreAwaited
<1>2. CallerStart => CallerInv /\ CompleteInv
  BY CallerInvInit, CompleteInit DEF CallerStart
<1>3. CallerInv /\ CallerInv' /\ CompleteInv /\ [CallScan \/ Scan]_CallerVars => CompleteInv'
  <2> SUFFICES ASSUME CallerInv, CallerInv', CompleteInv, [CallScan \/ Scan]_CallerVars
               PROVE  CompleteInv'
    OBVIOUS
  <2>1. [Statement]_<<vars, passVars>>
    <3>1. CASE Offer /\ EnterPasses
      BY <3>1, OfferExtends DEF Statement, Enter, CallerInv
    <3>2. ASSUME NEW b \in Handed, Hand(b), EnterPasses PROVE Statement
      BY <3>2, CallerAssumption DEF Hand, Enter, Statement
    <3> QED BY <3>1, <3>2 DEF CallScan, Caller, Scan, Statement, CallerVars
  <2> QED BY <2>1, CompleteStep DEF CallerInv
<1>4. CallerInv /\ [CallScan \/ Scan]_CallerVars => CallerInv'
  BY CallerStep
<1> QED BY <1>1, <1>2, <1>3, <1>4, PTL DEF CallerSpec

-----------------------------------------------------------------------------
(* What a program that calls the scanner may rely on, whichever other calls it   *)
(* makes.                                                                   *)
ScanInv == TypeInv /\ SoundInv /\ CompleteInv

LEMMA ScanInvInit == Init => ScanInv
BY TypeInvInit, SoundInit, CompleteInit DEF ScanInv

LEMMA ScanInvEnter ==
    ASSUME ScanInv, NEW b \in Seq(Byte), Len(b) <= UINT32_MAX, Enter(b)
    PROVE  ScanInv' /\ Locals' = AtStart
<1>1. Statement /\ buf' = b
  BY DEF Statement, Enter, Call
<1>2. TypeInv' /\ SoundInv'
  BY <1>1, TypeInvStep, SoundStep DEF ScanInv
<1>3. CompleteInv'
  BY <1>1, <1>2, CompleteStep DEF ScanInv
<1>4. Locals' = AtStart
  BY CallStarts DEF ScanInv, TypeInv, Enter
<1> QED BY <1>2, <1>3, <1>4 DEF ScanInv

LEMMA ScanInvStep ==
    ASSUME ScanInv, ScanStep
    PROVE  ScanInv'
<1>1. Statement /\ buf' = buf
  BY StepOutcome DEF Statement
<1>2. TypeInv' /\ SoundInv'
  BY <1>1, TypeInvStep, SoundStep DEF ScanInv, SoundInv
<1>3. CompleteInv'
  BY <1>1, <1>2, CompleteStep DEF ScanInv
<1> QED BY <1>2, <1>3 DEF ScanInv

LEMMA ScanInvStutter ==
    ASSUME ScanInv, UNCHANGED <<vars, passVars>>
    PROVE  ScanInv'
<1>1. TypeInv' /\ SoundInv'
  BY TypeInvStep, SoundStep DEF ScanInv, SoundInv, vars
<1>2. CompleteInv'
  BY <1>1, CompleteStep DEF ScanInv
<1> QED BY <1>1, <1>2 DEF ScanInv

(* A caller that drops the index and asks anew with a fresh one.               *)
LEMMA ScanInvFresh ==
    ASSUME ScanInv, pc = "idle", out' = NewIndex, status' = "None",
           UNCHANGED <<buf, pc, p, tagStart, valueStart, num, bodyEnd, passVars>>
    PROVE  ScanInv'
<1>1. HeaderTypeInv'
  BY NewIndexType DEF ScanInv, TypeInv, HeaderTypeInv, HeaderTypeOK, HeaderCount
<1>2. TypeInv'
  BY <1>1 DEF ScanInv, TypeInv, PassTypeOK, Inside, InPasses, passVars
<1>3. SoundInv'
  BY DEF ScanInv, SoundInv, HeaderSound, AtBody, Collected, PassOneFindsEverySoh, Parsed,
         OkIsExact, Finished
<1>4. CompleteInv'
  BY DEF CompleteInv, Follows, HeaderFollows, Finished, InPasses
<1> QED BY <1>2, <1>3, <1>4 DEF ScanInv

(* Only the header asks for more bytes, and it moves as the scalar one does.    *)
LEMMA OnlyHeaderWaits ==
    ASSUME ScanInv, ScanStep
    PROVE  IF pc \in InHeader
           THEN HeaderMoves(buf, Locals, Locals')
           ELSE pc' \notin InHeader /\ (pc' = "idle" => status' # "Truncated")
<1>1. CASE Header
  BY <1>1, HeaderStepMoves, HeaderStepFrame DEF Header, InHeader, ScanInv, TypeInv
<1>2. CASE ~Header
  <2>1. pc \in {"body", "lanes", "mask", "fields", "tag"}
    BY <1>2 DEF ScanStep, StartPass1, LoadLane, TakeLowestBit, NextLane, TailByte,
       EndPass1, NextField, TagDigit, TagEnd, CheckTrailer
  <2>2. TrailerVerdict # "Truncated"
    BY DEF TrailerVerdict
  <2>3. CASE StartPass1 \/ LoadLane \/ NextLane \/ TakeLowestBit \/ TailByte \/ EndPass1
    BY <2>1, <2>3 DEF StartPass1, LoadLane, NextLane, TakeLowestBit, TailByte, EndPass1,
       ReturnInPass, Return, Advance, vars, InHeader
  <2>4. CASE NextField \/ TagDigit \/ TagEnd \/ CheckTrailer
    BY <2>1, <2>2, <2>4 DEF NextField, TagDigit, TagEnd, CheckTrailer, ReturnInPass, Return,
       Advance, BeginNumber, TakeDigit, InHeader
  <2> QED BY <1>2, <2>1, <2>3, <2>4 DEF ScanStep, InHeader
<1> QED BY <1>1, <1>2

(* A call that has ended has said of every frame with a plain trailer that begins  *)
(* the buffer what there is to say.                                          *)
LEMMA ScanAnswers ==
    ASSUME ScanInv, Finished
    PROVE  /\ buf \in Seq(Byte) /\ out \in FieldIndex /\ status \in Verdict
           /\ status = "Ok" => Readable(out) \in FrameIndices(buf) /\ PlainTrailer(Readable(out))
           /\ \A o : Whole(buf, o) /\ PlainTrailer(o) => Settled(o)
<1>1. buf \in Seq(Byte) /\ out \in FieldIndex /\ status \in Verdict
  BY DEF ScanInv, TypeInv, HeaderTypeInv, HeaderTypeOK, Finished
<1>2. status = "Ok" => Readable(out) \in FrameIndices(buf) /\ PlainTrailer(Readable(out))
  BY DEF ScanInv, SoundInv, OkIsExact, CompleteInv
<1>3. ASSUME NEW o, Whole(buf, o), PlainTrailer(o) PROVE Settled(o)
  <2>1. Ahead(buf, o)
    BY <1>1, <1>3 DEF Ahead, Alike
  <2> QED BY <1>3, <2>1 DEF ScanInv, CompleteInv, Follows, HeaderFollows
<1> QED BY <1>1, <1>2, <1>3
=============================================================================
