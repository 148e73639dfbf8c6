-------------------------- MODULE FixFrame_proofs --------------------------
(***************************************************************************)
(* Lemmas about the operators the scanners are built from.                  *)
(***************************************************************************)
EXTENDS FrameReference, SequenceTheorems, WellFoundedInduction, TLAPS

(* A cast to std::uint32_t stays in its type, and never exceeds its operand. *)
LEMMA U32Type ==
    ASSUME NEW n \in Nat
    PROVE  U32(n) \in UInt32 /\ U32(n) <= n
BY WidthAssumption DEF U32, UInt32

(* A cast does not change what fits.                                        *)
LEMMA U32Fits ==
    ASSUME NEW n \in Nat, n <= UINT32_MAX
    PROVE  U32(n) = n
BY WidthAssumption DEF U32

(* The guard of the digit loops is strong enough: one more decimal digit     *)
(* fits the accumulator, for every width of the accumulator.                *)
LEMMA AccumulateFits ==
    ASSUME NEW n \in UInt32, ~Saturated(n), NEW c \in Digit
    PROVE  Accumulate(n, c) = n * 10 + c /\ n * 10 + c \in UInt32
<1>1. n \in Nat /\ n * 10 + c \in Nat /\ n * 10 \in Nat
  BY DEF UInt32, Digit
<1>2. n <= (UINT32_MAX - 9) \div 10
  BY <1>1, WidthAssumption DEF Saturated
<1>3. n * 10 + c <= UINT32_MAX /\ n * 10 <= UINT32_MAX
  BY <1>1, <1>2, WidthAssumption DEF Digit
<1>4. U32(n * 10) = n * 10 /\ U32(n * 10 + c) = n * 10 + c
  BY <1>1, <1>3, U32Fits
<1> QED
  BY <1>1, <1>3, <1>4, WidthAssumption DEF Accumulate, UInt32

(* The accumulator keeps its type whatever it accumulates.                  *)
LEMMA AccumulateType ==
    ASSUME NEW n \in UInt32, NEW c \in Digit
    PROVE  Accumulate(n, c) \in UInt32
<1>1. n * 10 \in Nat
  BY DEF UInt32
<1>2. U32(n * 10) \in Nat
  BY <1>1, U32Type DEF UInt32
<1>3. U32(n * 10) + c \in Nat
  BY <1>2 DEF Digit
<1> QED
  BY <1>3, U32Type DEF Accumulate

LEMMA ByteAtType ==
    ASSUME NEW b \in Seq(Byte), NEW i \in Nat, i < Len(b)
    PROVE  ByteAt(b, i) \in Byte
BY DEF ByteAt

LEMMA EntryType ==
    ASSUME NEW s \in Nat, NEW v \in Nat, NEW e \in Nat, NEW t \in UInt32
    PROVE  Entry(s, v, e, t) \in FieldEntry
BY U32Type DEF Entry, FieldEntry

LEMMA NewIndexType == NewIndex \in FieldIndex
<1>1. 0 \in Nat /\ 0 \in UInt32
  BY WidthAssumption DEF UInt32
<1>2. Entry(0, 0, 0, 0) \in FieldEntry
  BY <1>1, EntryType
<1> QED
  BY <1>1, <1>2, CapacityAssumption DEF NewIndex, FieldIndex, Slot

(* reset() yields a well-typed, empty index and keeps the table.            *)
LEMMA ResetIndex ==
    ASSUME NEW o \in FieldIndex
    PROVE  Reset(o) \in FieldIndex /\ Reset(o).field_count = 0
<1>1. -1 \in Slot /\ 0 \in UInt32 /\ 0 \in 0 .. kMaxFields
  BY WidthAssumption, CapacityAssumption DEF Slot, UInt32
<1> QED
  BY <1>1 DEF Reset, FieldIndex

(* Pushing an entry appends it: the ones before it, and the slots, stay.     *)
LEMMA PushIndex ==
    ASSUME NEW o \in FieldIndex, NEW e \in FieldEntry, ~TableIsFull(o)
    PROVE  /\ Push(o, e) \in FieldIndex
           /\ Push(o, e).field_count = o.field_count + 1
           /\ \A k \in 0 .. (o.field_count - 1) : Push(o, e).fields[k] = o.fields[k]
           /\ Push(o, e).fields[o.field_count] = e
           /\ Push(o, e).begin_string_idx = o.begin_string_idx
           /\ Push(o, e).body_length_idx = o.body_length_idx
           /\ Push(o, e).msg_type_idx = o.msg_type_idx
           /\ Push(o, e).checksum_idx = o.checksum_idx
           /\ Push(o, e).declared_body_length = o.declared_body_length
           /\ o.field_count \in Slot
<1> DEFINE n == o.field_count
<1>1. n \in 0 .. (kMaxFields - 1) /\ n + 1 \in 0 .. kMaxFields /\ n \in Slot
  BY CapacityAssumption DEF FieldIndex, TableIsFull, Slot
<1>2. [o.fields EXCEPT ![n] = e] \in [0 .. (kMaxFields - 1) -> FieldEntry]
  BY <1>1 DEF FieldIndex
<1>3. Push(o, e) = [o EXCEPT !.fields = [o.fields EXCEPT ![n] = e], !.field_count = n + 1]
  BY DEF Push
<1>4. Push(o, e) \in FieldIndex
  BY <1>1, <1>2, <1>3 DEF FieldIndex
<1>5. Push(o, e).fields = [o.fields EXCEPT ![n] = e]
  BY <1>3 DEF FieldIndex
<1>6. \A k \in 0 .. (n - 1) : Push(o, e).fields[k] = o.fields[k]
  BY <1>1, <1>5 DEF FieldIndex
<1> QED
  BY <1>1, <1>3, <1>4, <1>5, <1>6 DEF FieldIndex

(* What every store of a field does to an index: r is o with e appended.     *)
Appends(o, e, r) ==
    /\ r \in FieldIndex
    /\ r.field_count = o.field_count + 1
    /\ r.fields[o.field_count] = e
    /\ \A k \in 0 .. (o.field_count - 1) : r.fields[k] = o.fields[k]

LEMMA PushAppends ==
    ASSUME NEW o \in FieldIndex, NEW e \in FieldEntry, ~TableIsFull(o)
    PROVE  Appends(o, e, Push(o, e))
BY PushIndex DEF Appends

(* The header slots are set after the push, and the push leaves the others.  *)
LEMMA PushBeginStringAppends ==
    ASSUME NEW o \in FieldIndex, NEW e \in FieldEntry, ~TableIsFull(o)
    PROVE  /\ Appends(o, e, PushBeginString(o, e))
           /\ PushBeginString(o, e).begin_string_idx = o.field_count
<1> DEFINE r == PushBeginString(o, e)
<1>1. Appends(o, e, Push(o, e)) /\ o.field_count \in Slot
  BY PushAppends, PushIndex
<1>2. /\ r \in FieldIndex
      /\ r.field_count = Push(o, e).field_count
      /\ r.fields = Push(o, e).fields
      /\ r.begin_string_idx = o.field_count
  BY <1>1 DEF PushBeginString, FieldIndex, Appends
<1> QED
  BY <1>1, <1>2 DEF Appends

LEMMA PushBodyLengthAppends ==
    ASSUME NEW o \in FieldIndex, NEW e \in FieldEntry, ~TableIsFull(o), NEW n \in UInt32
    PROVE  /\ Appends(o, e, PushBodyLength(o, e, n))
           /\ PushBodyLength(o, e, n).begin_string_idx = o.begin_string_idx
           /\ PushBodyLength(o, e, n).body_length_idx = o.field_count
           /\ PushBodyLength(o, e, n).declared_body_length = n
<1> DEFINE r == PushBodyLength(o, e, n)
<1>1. /\ Appends(o, e, Push(o, e)) /\ o.field_count \in Slot
      /\ Push(o, e).begin_string_idx = o.begin_string_idx
  BY PushAppends, PushIndex
<1>2. /\ r \in FieldIndex
      /\ r.field_count = Push(o, e).field_count
      /\ r.fields = Push(o, e).fields
      /\ r.begin_string_idx = Push(o, e).begin_string_idx
      /\ r.body_length_idx = o.field_count
      /\ r.declared_body_length = n
  BY <1>1 DEF PushBodyLength, FieldIndex, Appends
<1> QED
  BY <1>1, <1>2 DEF Appends

LEMMA PushMsgTypeAppends ==
    ASSUME NEW o \in FieldIndex, NEW e \in FieldEntry, ~TableIsFull(o)
    PROVE  /\ Appends(o, e, PushMsgType(o, e))
           /\ PushMsgType(o, e).begin_string_idx = o.begin_string_idx
           /\ PushMsgType(o, e).body_length_idx = o.body_length_idx
           /\ PushMsgType(o, e).msg_type_idx = o.field_count
           /\ PushMsgType(o, e).declared_body_length = o.declared_body_length
<1> DEFINE r == PushMsgType(o, e)
<1>1. /\ Appends(o, e, Push(o, e)) /\ o.field_count \in Slot
      /\ Push(o, e).begin_string_idx = o.begin_string_idx
      /\ Push(o, e).body_length_idx = o.body_length_idx
      /\ Push(o, e).declared_body_length = o.declared_body_length
  BY PushAppends, PushIndex
<1>2. /\ r \in FieldIndex
      /\ r.field_count = Push(o, e).field_count
      /\ r.fields = Push(o, e).fields
      /\ r.begin_string_idx = Push(o, e).begin_string_idx
      /\ r.body_length_idx = Push(o, e).body_length_idx
      /\ r.msg_type_idx = o.field_count
      /\ r.declared_body_length = Push(o, e).declared_body_length
  BY <1>1 DEF PushMsgType, FieldIndex, Appends
<1> QED
  BY <1>1, <1>2 DEF Appends

LEMMA PushCheckSumAppends ==
    ASSUME NEW o \in FieldIndex, NEW e \in FieldEntry, ~TableIsFull(o)
    PROVE  /\ Appends(o, e, PushCheckSum(o, e))
           /\ PushCheckSum(o, e).begin_string_idx = o.begin_string_idx
           /\ PushCheckSum(o, e).body_length_idx = o.body_length_idx
           /\ PushCheckSum(o, e).msg_type_idx = o.msg_type_idx
           /\ PushCheckSum(o, e).declared_body_length = o.declared_body_length
           /\ PushCheckSum(o, e).checksum_idx = o.field_count
           /\ PushCheckSum(o, e).frame_length = U32(e.value_end + 1)
<1> DEFINE r == PushCheckSum(o, e)
<1>1. /\ Appends(o, e, Push(o, e)) /\ o.field_count \in Slot
      /\ Push(o, e).begin_string_idx = o.begin_string_idx
      /\ Push(o, e).body_length_idx = o.body_length_idx
      /\ Push(o, e).msg_type_idx = o.msg_type_idx
      /\ Push(o, e).declared_body_length = o.declared_body_length
  BY PushAppends, PushIndex
<1>2. U32(e.value_end + 1) \in UInt32
  BY U32Type DEF FieldEntry, UInt32
<1>3. /\ r \in FieldIndex
      /\ r.field_count = Push(o, e).field_count
      /\ r.fields = Push(o, e).fields
      /\ r.begin_string_idx = Push(o, e).begin_string_idx
      /\ r.body_length_idx = Push(o, e).body_length_idx
      /\ r.msg_type_idx = Push(o, e).msg_type_idx
      /\ r.declared_body_length = Push(o, e).declared_body_length
      /\ r.checksum_idx = o.field_count
      /\ r.frame_length = U32(e.value_end + 1)
  BY <1>1, <1>2 DEF PushCheckSum, FieldIndex, Appends
<1> QED
  BY <1>1, <1>3 DEF Appends

-----------------------------------------------------------------------------
(* Induction over the naturals, from their well-foundedness.                 *)
LEMMA LeastNatural ==
    ASSUME NEW S \in SUBSET Nat, S # {}
    PROVE  \E m \in S : \A k \in S : m <= k
<1> DEFINE R == OpToRel(<, Nat)
<1>1. IsWellFoundedOn(R, Nat)
  BY NatLessThanWellFounded
<1>2. PICK m \in S : \A k \in S : <<k, m>> \notin R
  <2> HIDE DEF R
  <2> QED BY <1>1, WFMin
<1>3. \A k \in S : ~(k < m)
  BY <1>2 DEF OpToRel
<1> QED BY <1>3

LEMMA Induction ==
    ASSUME NEW S, 0 \in S, \A n \in Nat : n \in S => n + 1 \in S
    PROVE  \A n \in Nat : n \in S
<1> DEFINE T == Nat \ S
<1> SUFFICES ASSUME T # {} PROVE FALSE
  OBVIOUS
<1>1. PICK m \in T : \A k \in T : m <= k
  BY LeastNatural
<1>2. m # 0 /\ m \in Nat
  BY <1>1
<1>3. m - 1 \in Nat /\ m - 1 \notin T
  BY <1>1, <1>2
<1> QED BY <1>1, <1>3

(* The recursive function in Decimal exists, and is unique on what two        *)
(* intervals share: Decimal satisfies the equations it is written with.      *)
IsValue(f, b, i, j) ==
    f = [k \in i .. j |-> IF k = i THEN 0 ELSE f[k - 1] * 10 + ByteAt(b, k - 1)]

LEMMA ValueExists ==
    ASSUME NEW b, NEW i \in Nat, NEW n \in Nat
    PROVE  \E f : IsValue(f, b, i, i + n)
<1> DEFINE S == {m \in Nat : \E f : IsValue(f, b, i, i + m)}
<1>1. 0 \in S
  <2> DEFINE f == [k \in i .. i |-> 0]
  <2>1. IsValue(f, b, i, i + 0)
    BY DEF IsValue
  <2> QED BY <2>1
<1>2. ASSUME NEW m \in Nat, m \in S PROVE m + 1 \in S
  <2>1. PICK f : IsValue(f, b, i, i + m)
    BY <1>2
  <2> DEFINE g == [k \in i .. (i + m + 1) |->
                     IF k <= i + m THEN f[k] ELSE f[i + m] * 10 + ByteAt(b, i + m)]
  <2>2. ASSUME NEW k \in i .. (i + m + 1)
        PROVE  g[k] = IF k = i THEN 0 ELSE g[k - 1] * 10 + ByteAt(b, k - 1)
    <3>1. CASE k = i + m + 1
      BY <3>1
    <3>2. CASE k # i + m + 1
      <4>1. k \in i .. (i + m) /\ (k # i => k - 1 \in i .. (i + m))
        BY <3>2
      <4>2. f[k] = IF k = i THEN 0 ELSE f[k - 1] * 10 + ByteAt(b, k - 1)
        BY <2>1, <4>1 DEF IsValue
      <4> QED BY <4>1, <4>2
    <3> QED BY <3>1, <3>2
  <2>3. IsValue(g, b, i, i + (m + 1))
    <3>1. i + (m + 1) = i + m + 1
      OBVIOUS
    <3>2. g = [k \in i .. (i + m + 1) |-> g[k]]
      OBVIOUS
    <3> HIDE DEF g
    <3> QED BY <2>2, <3>1, <3>2 DEF IsValue
  <2> QED BY <2>3
<1>3. \A m \in Nat : m \in S
  <2> HIDE DEF S
  <2> QED BY <1>1, <1>2, Induction
<1> QED BY <1>3

LEMMA ValueUnique ==
    ASSUME NEW b, NEW i \in Nat, NEW j \in Nat, NEW l \in Nat, i <= j, j <= l,
           NEW f, IsValue(f, b, i, j), NEW g, IsValue(g, b, i, l)
    PROVE  f[j] = g[j]
<1> DEFINE S == {n \in Nat : i + n <= j => f[i + n] = g[i + n]}
<1>1. 0 \in S
  BY DEF IsValue
<1>2. ASSUME NEW n \in Nat, n \in S PROVE n + 1 \in S
  <2> SUFFICES ASSUME i + (n + 1) <= j PROVE f[i + (n + 1)] = g[i + (n + 1)]
    OBVIOUS
  <2> DEFINE k == i + (n + 1)
  <2>1. k \in i .. j /\ k \in i .. l /\ k # i /\ k - 1 = i + n
    OBVIOUS
  <2>2. f[k] = f[k - 1] * 10 + ByteAt(b, k - 1) /\ g[k] = g[k - 1] * 10 + ByteAt(b, k - 1)
    <3> HIDE DEF k
    <3> QED BY <2>1 DEF IsValue
  <2>3. f[k - 1] = g[k - 1]
    BY <1>2, <2>1
  <2> QED BY <2>2, <2>3
<1>3. \A n \in Nat : n \in S
  <2> HIDE DEF S
  <2> QED BY <1>1, <1>2, Induction
<1>4. j - i \in Nat /\ i + (j - i) = j
  OBVIOUS
<1> QED BY <1>3, <1>4

LEMMA DecimalIsValue ==
    ASSUME NEW b, NEW i \in Nat, NEW j \in Nat, i <= j
    PROVE  \E f : IsValue(f, b, i, j) /\ Decimal(b, i, j) = f[j]
<1> DEFINE f == CHOOSE g : IsValue(g, b, i, j)
<1>1. IsValue(f, b, i, j)
  <2>1. j - i \in Nat /\ i + (j - i) = j
    OBVIOUS
  <2>2. \E g : IsValue(g, b, i, j)
    BY <2>1, ValueExists
  <2> QED BY <2>2
<1>2. Decimal(b, i, j) = f[j]
  BY DEF Decimal, IsValue
<1> QED BY <1>1, <1>2

(* No digits are worth nothing, and each digit appends to the number before.  *)
LEMMA DecimalEmpty ==
    ASSUME NEW b, NEW i \in Nat
    PROVE  Decimal(b, i, i) = 0
<1>1. PICK f : IsValue(f, b, i, i) /\ Decimal(b, i, i) = f[i]
  BY DecimalIsValue
<1>2. f[i] = 0
  BY <1>1 DEF IsValue
<1> QED BY <1>1, <1>2

LEMMA DecimalNext ==
    ASSUME NEW b, NEW i \in Nat, NEW j \in Nat, i <= j
    PROVE  Decimal(b, i, j + 1) = Decimal(b, i, j) * 10 + ByteAt(b, j)
<1>1. PICK f : IsValue(f, b, i, j) /\ Decimal(b, i, j) = f[j]
  BY DecimalIsValue
<1>2. PICK g : IsValue(g, b, i, j + 1) /\ Decimal(b, i, j + 1) = g[j + 1]
  BY DecimalIsValue
<1>3. f[j] = g[j]
  BY <1>1, <1>2, ValueUnique
<1>4. g[j + 1] = g[j] * 10 + ByteAt(b, j)
  <2>1. j + 1 \in i .. (j + 1) /\ j + 1 # i /\ (j + 1) - 1 = j
    OBVIOUS
  <2> QED BY <1>2, <2>1 DEF IsValue
<1> QED BY <1>1, <1>2, <1>3, <1>4

-----------------------------------------------------------------------------
(* The number n is the one written in b from i up to j, and an accumulator     *)
(* takes it.  The scanners read tags and the body length this way.           *)
NumberRead(n, b, i, j) == n = Decimal(b, i, j) /\ Representable(n)

TagRead(b, e) == NumberRead(e.tag_number, b, e.tag_start, e.value_start - 1)

LengthRead(b, o) ==
    LET e == o.fields[1]
    IN  /\ Numeral(b, e.value_start, e.value_end)
        /\ NumberRead(o.declared_body_length, b, e.value_start, e.value_end)

LEMMA SmallIsRepresentable ==
    ASSUME NEW n \in 0 .. 99
    PROVE  Representable(n)
<1>1. n \div 10 \in 0 .. 9
  OBVIOUS
<1>2. (UINT32_MAX - 9) \div 10 >= 9
  BY WidthAssumption
<1>3. (UINT32_MAX - 9) \div 10 \in Int
  BY WidthAssumption
<1> QED
  BY <1>1, <1>2, <1>3 DEF Representable, Saturated

LEMMA NothingRead ==
    ASSUME NEW b, NEW i \in Nat
    PROVE  NumberRead(0, b, i, i)
BY DecimalEmpty, SmallIsRepresentable DEF NumberRead

(* The fields of o lie end to end from the first byte of b up to `end`, and   *)
(* each is well formed.                                                     *)
Stored(b, o, end) ==
    /\ \A k \in 0 .. (o.field_count - 1) :
          WellFormedField(b, o.fields[k]) /\ TagRead(b, o.fields[k])
    /\ \A k \in 1 .. (o.field_count - 1) :
          o.fields[k].tag_start = o.fields[k - 1].value_end + 1
    /\ IF o.field_count = 0
       THEN end = 0
       ELSE o.fields[0].tag_start = 0 /\ end = o.fields[o.field_count - 1].value_end + 1

LEMMA EntryFits ==
    ASSUME NEW s \in Nat, NEW v \in Nat, NEW e \in Nat, NEW t,
           s <= UINT32_MAX, v <= UINT32_MAX, e <= UINT32_MAX
    PROVE  Entry(s, v, e, t) = [tag_start |-> s, value_start |-> v, value_end |-> e,
                                tag_number |-> t]
BY U32Fits DEF Entry

(* Appending a well-formed field that starts where the fields so far end     *)
(* moves that end just past its <SOH>.                                      *)
LEMMA StoredExtends ==
    ASSUME NEW b, NEW o \in FieldIndex, NEW r, NEW e \in FieldEntry,
           Appends(o, e, r), Stored(b, o, e.tag_start), WellFormedField(b, e), TagRead(b, e)
    PROVE  Stored(b, r, e.value_end + 1)
<1> DEFINE n == o.field_count
<1>1. n \in Nat /\ r.field_count = n + 1
  BY DEF FieldIndex, Appends
<1>2. \A k \in 0 .. n : WellFormedField(b, r.fields[k]) /\ TagRead(b, r.fields[k])
  <2>1. \A k \in 0 .. n : k = n \/ k \in 0 .. (n - 1)
    BY <1>1
  <2> QED
    BY <1>1, <2>1 DEF Appends, Stored
<1>3. \A k \in 1 .. n : r.fields[k].tag_start = r.fields[k - 1].value_end + 1
  <2>1. CASE n = 0
    BY <2>1
  <2>2. CASE n # 0
    <3>1. r.fields[n].tag_start = r.fields[n - 1].value_end + 1
      BY <1>1, <2>2 DEF Appends, Stored
    <3>2. \A k \in 1 .. (n - 1) : r.fields[k].tag_start = r.fields[k - 1].value_end + 1
      BY <1>1 DEF Appends, Stored
    <3> QED
      BY <1>1, <3>1, <3>2
  <2> QED
    BY <2>1, <2>2
<1>4. r.fields[0].tag_start = 0
  BY <1>1 DEF Appends, Stored
<1>5. r.fields[n].value_end = e.value_end
  BY DEF Appends
<1> QED
  BY <1>1, <1>2, <1>3, <1>4, <1>5 DEF Stored

LEMMA Literal2 ==
    ASSUME NEW b, NEW i \in Nat, NEW x, NEW y, HasLiteral(b, i, <<x, y>>)
    PROVE  ByteAt(b, i) = x /\ ByteAt(b, i + 1) = y /\ i + 2 <= Len(b)
<1>1. Len(<<x, y>>) = 2 /\ <<x, y>>[1] = x /\ <<x, y>>[2] = y
  OBVIOUS
<1> QED
  BY <1>1 DEF HasLiteral, ByteAt

LEMMA Literal3 ==
    ASSUME NEW b, NEW i \in Nat, NEW x, NEW y, NEW z, HasLiteral(b, i, <<x, y, z>>)
    PROVE  /\ ByteAt(b, i) = x /\ ByteAt(b, i + 1) = y /\ ByteAt(b, i + 2) = z
           /\ i + 3 <= Len(b)
<1>1. /\ Len(<<x, y, z>>) = 3
      /\ <<x, y, z>>[1] = x /\ <<x, y, z>>[2] = y /\ <<x, y, z>>[3] = z
  OBVIOUS
<1> QED
  BY <1>1 DEF HasLiteral, ByteAt

LEMMA LiteralOf3 ==
    ASSUME NEW b, NEW i \in Nat, NEW x, NEW y, NEW z, i + 3 <= Len(b),
           ByteAt(b, i) = x, ByteAt(b, i + 1) = y, ByteAt(b, i + 2) = z
    PROVE  HasLiteral(b, i, <<x, y, z>>)
<1>1. /\ Len(<<x, y, z>>) = 3
      /\ <<x, y, z>>[1] = x /\ <<x, y, z>>[2] = y /\ <<x, y, z>>[3] = z
  OBVIOUS
<1>2. b[i + 1] = x /\ b[i + 2] = y /\ b[i + 3] = z
  <2>1. (i + 1) + 1 = i + 2 /\ (i + 2) + 1 = i + 3
    OBVIOUS
  <2> QED BY <2>1 DEF ByteAt
<1> QED
  BY <1>1, <1>2 DEF HasLiteral

(* The entry of a field that was read, in a buffer whose offsets fit 32 bits. *)
LEMMA FieldRead ==
    ASSUME NEW b \in Seq(Byte), Len(b) <= UINT32_MAX,
           NEW s \in Nat, NEW v \in Nat, NEW e \in Nat, NEW t \in UInt32,
           s < v - 1, v <= e, e < Len(b),
           \A k \in s .. (v - 2) : IsDigit(ByteAt(b, k)),
           ByteAt(b, v - 1) = Equals,
           \A k \in v .. (e - 1) : ByteAt(b, k) # Soh,
           ByteAt(b, e) = Soh,
           NumberRead(t, b, s, v - 1)
    PROVE  LET f == Entry(s, v, e, t)
           IN  /\ f \in FieldEntry
               /\ f.tag_start = s /\ f.value_start = v /\ f.value_end = e
               /\ f.tag_number = t
               /\ WellFormedField(b, f) /\ TagRead(b, f)
<1>1. s <= UINT32_MAX /\ v <= UINT32_MAX /\ e <= UINT32_MAX
  BY WidthAssumption
<1>2. Entry(s, v, e, t) = [tag_start |-> s, value_start |-> v, value_end |-> e,
                           tag_number |-> t]
  BY <1>1, EntryFits
<1>3. Entry(s, v, e, t) \in FieldEntry
  BY EntryType
<1> QED
  BY <1>2, <1>3 DEF WellFormedField, TagRead

(* A number of one digit, and of two.                                         *)
LEMMA DecimalOne ==
    ASSUME NEW b, NEW i \in Nat, ByteAt(b, i) \in Digit
    PROVE  Decimal(b, i, i + 1) = ByteAt(b, i)
  BY DecimalEmpty, DecimalNext DEF Digit

LEMMA DecimalTwo ==
    ASSUME NEW b, NEW i \in Nat, ByteAt(b, i) \in Digit, ByteAt(b, i + 1) \in Digit
    PROVE  Decimal(b, i, i + 2) = ByteAt(b, i) * 10 + ByteAt(b, i + 1)
<1>1. Decimal(b, i, i + 1) = ByteAt(b, i)
  BY DecimalOne
<1>2. Decimal(b, i, (i + 1) + 1) = Decimal(b, i, i + 1) * 10 + ByteAt(b, i + 1)
  BY DecimalNext
<1>3. (i + 1) + 1 = i + 2
  OBVIOUS
<1> QED BY <1>1, <1>2, <1>3

(* What the caller may read of an exact index is exact.                       *)
LEMMA ReadableExact ==
    ASSUME NEW b, NEW o \in FieldIndex, ExactIndex(b, o)
    PROVE  ExactIndex(b, Readable(o))
<1> DEFINE r == Readable(o)
<1>1. /\ r.field_count = o.field_count /\ r.frame_length = o.frame_length
      /\ r.begin_string_idx = o.begin_string_idx
      /\ r.body_length_idx = o.body_length_idx
      /\ r.msg_type_idx = o.msg_type_idx /\ r.checksum_idx = o.checksum_idx
      /\ r.declared_body_length = o.declared_body_length
  BY DEF Readable, FieldIndex
<1>2. \A k \in 0 .. (o.field_count - 1) : r.fields[k] = o.fields[k]
  BY DEF Readable, FieldIndex
<1>3. o.field_count \in Nat /\ o.field_count >= 4 /\ o.checksum_idx = o.field_count - 1
  BY DEF ExactIndex, DelimitsFrame, CanonicalOrder
<1> HIDE DEF r
<1>4. Tiles(r)
  BY <1>1, <1>2, <1>3 DEF ExactIndex, DelimitsFrame, Tiles
<1>5. CanonicalOrder(r)
  BY <1>1, <1>2, <1>3 DEF ExactIndex, DelimitsFrame, CanonicalOrder
<1>6. LengthAgrees(r) /\ ThreeDigitChecksum(b, r)
  BY <1>1, <1>2, <1>3 DEF ExactIndex, DelimitsFrame, LengthAgrees, ThreeDigitChecksum
<1>7. \A k \in 0 .. (r.field_count - 1) : WellFormedField(b, r.fields[k])
  BY <1>1, <1>2 DEF ExactIndex, DelimitsFrame
<1>8. NumbersMatch(b, r)
  BY <1>1, <1>2, <1>3 DEF ExactIndex, NumbersMatch
<1> QED BY <1>1, <1>3, <1>4, <1>5, <1>6, <1>7, <1>8 DEF ExactIndex, DelimitsFrame, r

LEMMA MinOfNaturals ==
    ASSUME NEW S \in SUBSET Nat, S # {}
    PROVE  Min(S) \in S /\ \A y \in S : Min(S) <= y
BY LeastNatural DEF Min

LEMMA MinIs ==
    ASSUME NEW S \in SUBSET Nat, NEW x \in S, \A y \in S : x <= y
    PROVE  Min(S) = x
<1>1. Min(S) \in S /\ \A y \in S : Min(S) <= y
  <2>1. S # {}
    OBVIOUS
  <2> QED BY <2>1, MinOfNaturals
<1>2. Min(S) <= x /\ x <= Min(S) /\ Min(S) \in Nat /\ x \in Nat
  BY <1>1
<1> QED BY <1>2

LEMMA MaxOfInterval ==
    ASSUME NEW n \in Nat, NEW S \in SUBSET (1 .. n), S # {}
    PROVE  Max(S) \in S /\ \A y \in S : y <= Max(S)
<1> DEFINE D == {k \in Nat : k <= n /\ n - k \in S}
<1>1. D # {}
  <2>1. PICK x \in S : TRUE
    OBVIOUS
  <2>2. n - x \in Nat /\ n - x <= n /\ n - (n - x) = x
    BY <2>1
  <2>3. n - x \in D
    BY <2>1, <2>2
  <2> QED BY <2>3
<1>2. PICK k \in D : \A i \in D : k <= i
  BY <1>1, LeastNatural
<1>3. ASSUME NEW y \in S PROVE y <= n - k
  <2>1. n - y \in Nat /\ n - y <= n /\ n - (n - y) = y
    OBVIOUS
  <2>2. n - y \in D
    BY <2>1
  <2> QED BY <1>2, <2>1, <2>2
<1>4. n - k \in S
  BY <1>2
<1> HIDE DEF D
<1> QED BY <1>3, <1>4 DEF Max

LEMMA MaxIs ==
    ASSUME NEW n \in Nat, NEW S \in SUBSET (1 .. n), NEW x \in S, \A y \in S : y <= x
    PROVE  Max(S) = x
<1>1. Max(S) \in S /\ \A y \in S : y <= Max(S)
  <2>1. S # {}
    OBVIOUS
  <2> QED BY <2>1, MaxOfInterval
<1>2. Max(S) \in 1 .. n /\ x \in 1 .. n
  BY <1>1
<1>3. Max(S) <= x /\ x <= Max(S)
  BY <1>1
<1> QED BY <1>2, <1>3

-----------------------------------------------------------------------------
(* The recursive function in ElementsAt exists, and two of them agree as long *)
(* as they run over the same elements: ElementsAt satisfies its equations.    *)
IsListing(f, s, K, m) ==
    f = [n \in 0 .. m |->
            IF n = 0 THEN << >>
            ELSE IF n \in K THEN Append(f[n - 1], s[n]) ELSE f[n - 1]]

LEMMA ListingExists ==
    ASSUME NEW s, NEW K, NEW m \in Nat
    PROVE  \E f : IsListing(f, s, K, m)
<1> DEFINE S == {n \in Nat : \E f : IsListing(f, s, K, n)}
<1>1. 0 \in S
  <2> DEFINE f == [n \in 0 .. 0 |-> << >>]
  <2>1. IsListing(f, s, K, 0)
    BY DEF IsListing
  <2> QED BY <2>1
<1>2. ASSUME NEW n \in Nat, n \in S PROVE n + 1 \in S
  <2>1. PICK f : IsListing(f, s, K, n)
    BY <1>2
  <2> DEFINE top == IF n + 1 \in K THEN Append(f[n], s[n + 1]) ELSE f[n]
             g == [k \in 0 .. (n + 1) |-> IF k <= n THEN f[k] ELSE top]
  <2>2. ASSUME NEW k \in 0 .. (n + 1)
        PROVE  g[k] = IF k = 0 THEN << >>
                      ELSE IF k \in K THEN Append(g[k - 1], s[k]) ELSE g[k - 1]
    <3>1. CASE k = n + 1
      <4>1. g[k] = top /\ k - 1 = n /\ g[k - 1] = f[n] /\ k # 0
        BY <3>1
      <4> QED BY <3>1, <4>1
    <3>2. CASE k # n + 1
      <4>1. k \in 0 .. n /\ (k # 0 => k - 1 \in 0 .. n)
        BY <3>2
      <4>2. f[k] = IF k = 0 THEN << >>
                   ELSE IF k \in K THEN Append(f[k - 1], s[k]) ELSE f[k - 1]
        BY <2>1, <4>1 DEF IsListing
      <4>3. g[k] = f[k] /\ (k # 0 => g[k - 1] = f[k - 1])
        BY <4>1
      <4> HIDE DEF g
      <4> QED BY <4>2, <4>3
    <3> QED BY <3>1, <3>2
  <2>3. IsListing(g, s, K, n + 1)
    <3>1. g = [k \in 0 .. (n + 1) |-> g[k]]
      OBVIOUS
    <3> HIDE DEF g
    <3> QED BY <2>2, <3>1 DEF IsListing
  <2> QED BY <2>3
<1>3. \A n \in Nat : n \in S
  <2> HIDE DEF S
  <2> QED BY <1>1, <1>2, Induction
<1> QED BY <1>3

(* K chooses of s, up to the n-th element, what J chooses of t.                *)
ChooseAlike(s, K, t, J, n) ==
    \A k \in 1 .. n : s[k] = t[k] /\ (k \in K <=> k \in J)

LEMMA ListingsAgree ==
    ASSUME NEW s, NEW K, NEW m \in Nat, NEW f, IsListing(f, s, K, m),
           NEW t, NEW J, NEW l \in Nat, NEW g, IsListing(g, t, J, l),
           NEW n \in Nat, n <= m, n <= l,
           ChooseAlike(s, K, t, J, n)
    PROVE  f[n] = g[n]
<1> DEFINE S == {k \in Nat : k <= n => f[k] = g[k]}
<1>1. 0 \in S
  BY DEF IsListing
<1>2. ASSUME NEW k \in Nat, k \in S PROVE k + 1 \in S
  <2> SUFFICES ASSUME k + 1 <= n PROVE f[k + 1] = g[k + 1]
    OBVIOUS
  <2>1. k + 1 \in 0 .. m /\ k + 1 \in 0 .. l /\ k + 1 # 0 /\ (k + 1) - 1 = k
    OBVIOUS
  <2>2. /\ f[k + 1] = IF k + 1 \in K THEN Append(f[k], s[k + 1]) ELSE f[k]
        /\ g[k + 1] = IF k + 1 \in J THEN Append(g[k], t[k + 1]) ELSE g[k]
    BY <2>1 DEF IsListing
  <2>3. f[k] = g[k] /\ s[k + 1] = t[k + 1] /\ (k + 1 \in K <=> k + 1 \in J)
    BY <1>2 DEF ChooseAlike
  <2> QED BY <2>2, <2>3
<1>3. \A k \in Nat : k \in S
  <2> HIDE DEF S
  <2> QED BY <1>1, <1>2, Induction
<1> QED BY <1>3

LEMMA ElementsAtIsListing ==
    ASSUME NEW s, NEW K, Len(s) \in Nat
    PROVE  \E f : IsListing(f, s, K, Len(s)) /\ ElementsAt(s, K) = f[Len(s)]
<1> DEFINE f == CHOOSE g : IsListing(g, s, K, Len(s))
<1>1. IsListing(f, s, K, Len(s))
  BY ListingExists
<1>2. ElementsAt(s, K) = f[Len(s)]
  BY DEF ElementsAt, IsListing
<1> QED BY <1>1, <1>2

(* Nothing is listed of nothing, and a list that is one longer lists the same *)
(* elements, with the last one if its position is chosen.                    *)
LEMMA ElementsAtEmpty ==
    ASSUME NEW K
    PROVE  ElementsAt(<< >>, K) = << >>
<1>1. Len(<< >>) = 0
  OBVIOUS
<1>2. PICK f : IsListing(f, << >>, K, 0) /\ ElementsAt(<< >>, K) = f[0]
  BY <1>1, ElementsAtIsListing
<1> QED BY <1>2 DEF IsListing

LEMMA ElementsAtAppend ==
    ASSUME NEW s, NEW t, Len(s) \in Nat, Len(t) = Len(s) + 1, NEW K, NEW J,
           ChooseAlike(s, K, t, J, Len(s))
    PROVE  ElementsAt(t, J) = IF Len(t) \in J THEN Append(ElementsAt(s, K), t[Len(t)])
                              ELSE ElementsAt(s, K)
<1> DEFINE n == Len(s)
<1>1. PICK f : IsListing(f, s, K, n) /\ ElementsAt(s, K) = f[n]
  BY ElementsAtIsListing
<1>2. PICK g : IsListing(g, t, J, n + 1) /\ ElementsAt(t, J) = g[n + 1]
  BY ElementsAtIsListing
<1>3. f[n] = g[n]
  <2>1. n \in Nat /\ n + 1 \in Nat /\ n <= n /\ n <= n + 1
    OBVIOUS
  <2>2. ChooseAlike(s, K, t, J, n)
    OBVIOUS
  <2> HIDE DEF n
  <2> QED BY <1>1, <1>2, <2>1, <2>2, ListingsAgree
<1>4. g[n + 1] = IF n + 1 \in J THEN Append(g[n], t[n + 1]) ELSE g[n]
  <2> HIDE DEF n
  <2>1. n + 1 \in 0 .. (n + 1) /\ n + 1 # 0 /\ (n + 1) - 1 = n
    BY DEF n
  <2> QED BY <1>2, <2>1 DEF IsListing
<1> QED BY <1>1, <1>2, <1>3, <1>4

(* A sequence that ascends through numbers.                                  *)
Ascends(e) == e \in Seq(Nat) /\ \A i, j \in 1 .. Len(e) : i < j => e[i] < e[j]

Occurs(x, e) == \E i \in 1 .. Len(e) : e[i] = x

LEMMA SohOffsetsAscend ==
    ASSUME NEW b \in Seq(Byte)
    PROVE  /\ Ascends(SohOffsets(b))
           /\ \A i \in 1 .. Len(SohOffsets(b)) :
                 SohOffsets(b)[i] < Len(b) /\ ByteAt(b, SohOffsets(b)[i]) = Soh
           /\ \A x \in 0 .. (Len(b) - 1) :
                 ByteAt(b, x) = Soh => Occurs(x, SohOffsets(b))
<1> DEFINE s == [i \in 1 .. Len(b) |-> i - 1]
           K == {i \in 1 .. Len(b) : b[i] = Soh}
<1>1. Len(b) \in Nat /\ Len(s) = Len(b)
  OBVIOUS
<1>2. PICK f : IsListing(f, s, K, Len(b)) /\ SohOffsets(b) = f[Len(b)]
  <2>1. \E f : IsListing(f, s, K, Len(s)) /\ ElementsAt(s, K) = f[Len(s)]
    <3> HIDE DEF s, K
    <3> QED BY <1>1, ElementsAtIsListing
  <2> QED BY <1>1, <2>1 DEF SohOffsets
<1> DEFINE P(n) == /\ Ascends(f[n])
                   /\ \A i \in 1 .. Len(f[n]) : f[n][i] < n /\ ByteAt(b, f[n][i]) = Soh
                   /\ \A x \in 0 .. (n - 1) :
                         ByteAt(b, x) = Soh => Occurs(x, f[n])
           S == {n \in Nat : n <= Len(b) => P(n)}
<1>3. 0 \in S
  <2>1. f[0] = << >>
    BY <1>1, <1>2 DEF IsListing
  <2>2. Ascends(<< >>) /\ Len(<< >>) = 0
    BY DEF Ascends
  <2> QED BY <2>1, <2>2
<1>4. ASSUME NEW n \in Nat, n \in S PROVE n + 1 \in S
  <2> SUFFICES ASSUME n + 1 <= Len(b) PROVE P(n + 1)
    OBVIOUS
  <2>1. n + 1 \in 0 .. Len(b) /\ n + 1 # 0 /\ (n + 1) - 1 = n /\ s[n + 1] = n
    BY <1>1
  <2>2. P(n)
    BY <1>1, <1>4
  <2>3. f[n + 1] = IF ByteAt(b, n) = Soh THEN Append(f[n], n) ELSE f[n]
    <3>1. f[n + 1] = IF n + 1 \in K THEN Append(f[n], s[n + 1]) ELSE f[n]
      <4> HIDE DEF s, K
      <4> QED BY <1>2, <2>1 DEF IsListing
    <3> QED BY <1>1, <2>1, <3>1 DEF ByteAt
  <2> DEFINE e == f[n]
             g == f[n + 1]
  <2>4. e \in Seq(Nat) /\ Len(e) \in Nat
    BY <2>2 DEF Ascends
  <2>5. CASE ByteAt(b, n) = Soh
    <3>1. /\ g = Append(e, n) /\ g \in Seq(Nat) /\ Len(g) = Len(e) + 1
          /\ \A i \in 1 .. Len(e) : g[i] = e[i]
          /\ g[Len(e) + 1] = n
      BY <2>3, <2>4, <2>5
    <3> HIDE DEF e, g
    <3>2. \A i \in 1 .. Len(g) : i \in 1 .. Len(e) \/ i = Len(e) + 1
      BY <2>4, <3>1
    <3>3. \A i \in 1 .. Len(e) : e[i] \in Nat /\ e[i] < n /\ ByteAt(b, e[i]) = Soh
      BY <2>2, <2>4 DEF e
    <3>4. ASSUME NEW i \in 1 .. Len(g), NEW j \in 1 .. Len(g), i < j PROVE g[i] < g[j]
      <4>1. i \in 1 .. Len(e)
        BY <2>4, <3>1, <3>2, <3>4
      <4>2. CASE j \in 1 .. Len(e)
        <5>1. e[i] < e[j]
          BY <2>2, <3>4, <4>1, <4>2 DEF Ascends, e
        <5> QED BY <3>1, <4>1, <4>2, <5>1
      <4>3. CASE j = Len(e) + 1
        BY <3>1, <3>3, <4>1, <4>3
      <4> QED BY <3>2, <4>2, <4>3
    <3>5. \A i \in 1 .. Len(g) : g[i] < n + 1 /\ ByteAt(b, g[i]) = Soh
      BY <2>5, <3>1, <3>2, <3>3
    <3>6. ASSUME NEW x \in 0 .. n, ByteAt(b, x) = Soh
          PROVE  Occurs(x, g)
      <4>1. CASE x = n
        BY <2>4, <3>1, <4>1 DEF Occurs
      <4>2. CASE x # n
        <5>1. Occurs(x, e)
          BY <2>2, <3>6, <4>2 DEF e
        <5> QED BY <2>4, <3>1, <5>1 DEF Occurs
      <4> QED BY <4>1, <4>2
    <3>7. Ascends(g)
      BY <3>1, <3>4 DEF Ascends
    <3> QED BY <3>5, <3>6, <3>7, <2>1 DEF g
  <2>6. CASE ByteAt(b, n) # Soh
    <3>1. g = e
      BY <2>3, <2>6
    <3>2. \A i \in 1 .. Len(e) : e[i] < n + 1 /\ ByteAt(b, e[i]) = Soh
      <4>1. \A i \in 1 .. Len(e) : e[i] \in Nat
        BY <2>4
      <4> QED BY <2>2, <4>1
    <3>3. \A x \in 0 .. n : ByteAt(b, x) = Soh => Occurs(x, e)
      BY <2>2, <2>6
    <3> HIDE DEF P
    <3> QED BY <2>1, <2>2, <3>1, <3>2, <3>3 DEF P
  <2> QED BY <2>5, <2>6
<1>5. \A n \in Nat : n \in S
  <2> HIDE DEF S
  <2> QED BY <1>3, <1>4, Induction
<1>6. P(Len(b))
  BY <1>1, <1>5
<1> QED BY <1>2, <1>6

(* A sequence that ascends through the numbers of another one, up to some      *)
(* point, begins it; and if it ascends through all of them, it is that one.   *)
LEMMA AscentPrefix ==
    ASSUME NEW e, NEW g, Ascends(e), Ascends(g),
           \A i \in 1 .. Len(g) : Occurs(g[i], e),
           \A i \in 1 .. Len(e), j \in 1 .. Len(g) : e[i] <= g[j] => Occurs(e[i], g)
    PROVE  \A k \in 1 .. Len(g) : k \in 1 .. Len(e) /\ e[k] = g[k]
<1>1. /\ Len(e) \in Nat /\ Len(g) \in Nat
      /\ \A i \in 1 .. Len(e) : e[i] \in Nat
      /\ \A j \in 1 .. Len(g) : g[j] \in Nat
  <2>1. e \in Seq(Nat) /\ g \in Seq(Nat)
    BY Zenon DEF Ascends
  <2> QED BY <2>1
<1>2. /\ \A i, j \in 1 .. Len(e) : i < j => e[i] < e[j]
      /\ \A i, j \in 1 .. Len(g) : i < j => g[i] < g[j]
  BY Zenon DEF Ascends
<1> DEFINE Same(k) == k \in 1 .. Len(e) /\ e[k] = g[k]
           D == {k \in Nat : k \in 1 .. Len(g) /\ ~Same(k)}
<1>3. D = {}
  <2> SUFFICES ASSUME D # {} PROVE FALSE
    OBVIOUS
  <2>1. PICK k \in D : \A i \in D : k <= i
    BY LeastNatural
  <2>2. k \in 1 .. Len(g) /\ ~Same(k)
    BY <2>1
  <2>3. ASSUME NEW i \in 1 .. (k - 1) PROVE i \in 1 .. Len(g) /\ Same(i)
    <3>1. i \in Nat /\ i \in 1 .. Len(g) /\ ~ (k <= i)
      BY <1>1, <2>2
    <3> QED BY <2>1, <3>1
  <2> HIDE DEF D
  <2>4. PICK j \in 1 .. Len(e) : e[j] = g[k]
    BY <2>2 DEF Occurs
  <2>5. ~ (j < k)
    <3> SUFFICES ASSUME j < k PROVE FALSE
      OBVIOUS
    <3>1. j \in 1 .. (k - 1)
      BY <1>1, <2>2, <2>4
    <3>2. g[j] = g[k] /\ j \in 1 .. Len(g)
      BY <2>3, <2>4, <3>1
    <3>3. g[j] < g[k] /\ g[j] \in Nat
      BY <1>1, <1>2, <2>2, <3>2
    <3> QED BY <3>2, <3>3
  <2>6. k \in 1 .. Len(e) /\ e[k] \in Nat /\ g[k] \in Nat
    BY <1>1, <2>2, <2>4, <2>5
  <2>7. e[k] <= g[k]
    <3>1. CASE j = k
      BY <2>4, <2>6, <3>1
    <3>2. CASE k < j
      BY <1>2, <2>4, <2>6, <3>2
    <3> QED BY <1>1, <2>2, <2>4, <2>5, <3>1, <3>2
  <2>8. PICK l \in 1 .. Len(g) : g[l] = e[k]
    BY <2>2, <2>6, <2>7 DEF Occurs
  <2>9. CASE l < k
    <3>1. l \in 1 .. (k - 1)
      BY <1>1, <2>2, <2>8, <2>9
    <3>2. e[l] = g[l] /\ l \in 1 .. Len(e)
      BY <2>3, <3>1
    <3>3. e[l] < e[k]
      BY <1>2, <2>6, <2>9, <3>2
    <3> QED BY <2>6, <2>8, <3>2, <3>3
  <2>10. CASE k < l
    <3>1. g[k] < g[l]
      BY <1>2, <2>2, <2>8, <2>10
    <3> QED BY <2>6, <2>7, <2>8, <3>1
  <2>11. CASE l = k
    BY <2>2, <2>6, <2>8, <2>11
  <2> QED BY <1>1, <2>2, <2>8, <2>9, <2>10, <2>11
<1>4. \A k \in 1 .. Len(g) : k \in Nat
  BY <1>1
<1> QED BY <1>3, <1>4

LEMMA AscentUnique ==
    ASSUME NEW e, NEW g, Ascends(e), Ascends(g),
           \A i \in 1 .. Len(e) : Occurs(e[i], g),
           \A i \in 1 .. Len(g) : Occurs(g[i], e)
    PROVE  e = g
<1>1. e \in Seq(Nat) /\ g \in Seq(Nat)
  BY Zenon DEF Ascends
<1>2. Len(e) \in Nat /\ Len(g) \in Nat
  BY <1>1
<1>3. \A k \in 1 .. Len(g) : k \in 1 .. Len(e) /\ e[k] = g[k]
  BY AscentPrefix
<1>4. \A k \in 1 .. Len(e) : k \in 1 .. Len(g) /\ g[k] = e[k]
  BY AscentPrefix
<1>5. Len(e) = Len(g)
  <2>1. Len(e) > 0 => Len(e) <= Len(g)
    BY <1>2, <1>4
  <2>2. Len(g) > 0 => Len(g) <= Len(e)
    BY <1>2, <1>3
  <2> QED BY <1>2, <2>1, <2>2
<1> QED BY <1>1, <1>3, <1>5, SeqEqual

-----------------------------------------------------------------------------
(* Digits are worth a natural number, the same one in any two buffers that    *)
(* have the same digits there.                                              *)
LEMMA DecimalNat ==
    ASSUME NEW b, NEW i \in Nat, NEW j \in Nat, i <= j,
           \A k \in i .. (j - 1) : ByteAt(b, k) \in Digit
    PROVE  Decimal(b, i, j) \in Nat
<1> DEFINE S == {m \in Nat : i + m <= j => Decimal(b, i, i + m) \in Nat}
<1>1. 0 \in S
  BY DecimalEmpty
<1>2. ASSUME NEW m \in Nat, m \in S PROVE m + 1 \in S
  <2> SUFFICES ASSUME i + (m + 1) <= j PROVE Decimal(b, i, i + (m + 1)) \in Nat
    OBVIOUS
  <2>1. Decimal(b, i, i + m) \in Nat /\ i + m \in Nat /\ i <= i + m
    BY <1>2
  <2>2. ByteAt(b, i + m) \in Nat
    BY DEF Digit
  <2>3. Decimal(b, i, (i + m) + 1) = Decimal(b, i, i + m) * 10 + ByteAt(b, i + m)
    BY <2>1, DecimalNext
  <2>4. i + (m + 1) = (i + m) + 1
    OBVIOUS
  <2> QED BY <2>1, <2>2, <2>3, <2>4
<1>3. \A m \in Nat : m \in S
  <2> HIDE DEF S
  <2> QED BY <1>1, <1>2, Induction
<1>4. j - i \in Nat /\ i + (j - i) = j
  OBVIOUS
<1> QED BY <1>3, <1>4

LEMMA DecimalSame ==
    ASSUME NEW b, NEW c, NEW i \in Nat, NEW j \in Nat, i <= j,
           \A k \in i .. (j - 1) : ByteAt(b, k) = ByteAt(c, k)
    PROVE  Decimal(b, i, j) = Decimal(c, i, j)
<1> DEFINE S == {m \in Nat : i + m <= j => Decimal(b, i, i + m) = Decimal(c, i, i + m)}
<1>1. 0 \in S
  BY DecimalEmpty
<1>2. ASSUME NEW m \in Nat, m \in S PROVE m + 1 \in S
  <2> SUFFICES ASSUME i + (m + 1) <= j
               PROVE  Decimal(b, i, i + (m + 1)) = Decimal(c, i, i + (m + 1))
    OBVIOUS
  <2>1. Decimal(b, i, i + m) = Decimal(c, i, i + m) /\ i + m \in Nat /\ i <= i + m
    BY <1>2
  <2>2. ByteAt(b, i + m) = ByteAt(c, i + m)
    OBVIOUS
  <2>3. /\ Decimal(b, i, (i + m) + 1) = Decimal(b, i, i + m) * 10 + ByteAt(b, i + m)
        /\ Decimal(c, i, (i + m) + 1) = Decimal(c, i, i + m) * 10 + ByteAt(c, i + m)
    BY <2>1, DecimalNext
  <2>4. i + (m + 1) = (i + m) + 1
    OBVIOUS
  <2> QED BY <2>1, <2>2, <2>3, <2>4
<1>3. \A m \in Nat : m \in S
  <2> HIDE DEF S
  <2> QED BY <1>1, <1>2, Induction
<1>4. j - i \in Nat /\ i + (j - i) = j
  OBVIOUS
<1> QED BY <1>3, <1>4

-----------------------------------------------------------------------------
(* The parts of a frame: fields in whose numbers one may compute, end to end. *)
Piecewise(b, o) ==
    /\ o.field_count \in Nat /\ o.field_count >= 4
    /\ \A k \in 0 .. (o.field_count - 1) :
          /\ o.fields[k].tag_start \in Nat /\ o.fields[k].value_start \in Nat
          /\ o.fields[k].value_end \in Nat
          /\ WellFormedField(b, o.fields[k])
    /\ o.fields[0].tag_start = 0
    /\ \A k \in 1 .. (o.field_count - 1) :
          o.fields[k].tag_start = o.fields[k - 1].value_end + 1
    /\ o.frame_length = o.fields[o.field_count - 1].value_end + 1

LEMMA FramePieces ==
    ASSUME NEW b \in Seq(Byte), NEW o \in FrameIndices(b)
    PROVE  /\ Piecewise(b, o)
           /\ \A k \in 0 .. (o.field_count - 1) : TagRead(b, o.fields[k])
<1>1. /\ ExactIndex(b, o)
      /\ \A k \in 0 .. (o.field_count - 1) : Representable(o.fields[k].tag_number)
  BY DEF FrameIndices
<1>2. PICK n \in 4 .. kMaxFields :
         /\ o = CutIndex(b, SohOffsets(b), n) /\ n <= Len(SohOffsets(b))
         /\ \A k \in 1 .. n : EqualsIn(b, SohOffsets(b), k) # {}
  BY DEF FrameIndices
<1> DEFINE ends == SohOffsets(b)
<1>3. ends \in Seq(Nat) /\ Len(ends) \in Nat /\ n \in Nat /\ \A k \in 1 .. n : ends[k] \in Nat
  <2>1. ends \in Seq(Nat)
    BY SohOffsetsAscend DEF Ascends
  <2> HIDE DEF ends
  <2> QED BY <1>2, <2>1, CapacityAssumption DEF ends
<1>4. o.field_count = n
  BY <1>2 DEF CutIndex
<1>5. ASSUME NEW k \in 0 .. (n - 1)
      PROVE  /\ o.fields[k].tag_start \in Nat /\ o.fields[k].value_start \in Nat
             /\ o.fields[k].value_end \in Nat
  <2> HIDE DEF ends
  <2>1. k + 1 \in 1 .. n /\ (k + 1 # 1 => (k + 1) - 1 \in 1 .. n)
    BY <1>3
  <2>2. PieceStart(ends, k + 1) \in Nat /\ ends[k + 1] \in Nat
    BY <1>3, <2>1 DEF PieceStart
  <2>3. EqualsIn(b, ends, k + 1) \in SUBSET Nat
    BY <2>2 DEF EqualsIn
  <2>4. EqualsIn(b, ends, k + 1) # {}
    BY <1>2, <2>1 DEF ends
  <2>5. Min(EqualsIn(b, ends, k + 1)) \in Nat
    BY <2>3, <2>4, MinOfNaturals
  <2> DEFINE start(j) == PieceStart(ends, j)
             value(j) == Min(EqualsIn(b, ends, j)) + 1
  <2>6. o.fields = [j \in 0 .. (n - 1) |->
                      Entry(start(j + 1), value(j + 1), ends[j + 1],
                            Decimal(b, start(j + 1), value(j + 1) - 1))]
    <3>1. o = CutIndex(b, ends, n)
      BY <1>2 DEF ends
    <3> QED BY <3>1 DEF CutIndex
  <2>7. /\ o.fields[k].tag_start = U32(start(k + 1))
        /\ o.fields[k].value_start = U32(value(k + 1))
        /\ o.fields[k].value_end = U32(ends[k + 1])
    <3> HIDE DEF start, value
    <3> QED BY <2>6 DEF Entry
  <2>8. start(k + 1) \in Nat /\ value(k + 1) \in Nat
    BY <2>2, <2>5
  <2>9. \A x \in Nat : U32(x) \in Nat
    BY U32Type DEF UInt32
  <2> HIDE DEF start, value
  <2> QED BY <2>2, <2>7, <2>8, <2>9
<1>6. /\ \A k \in 0 .. (n - 1) : WellFormedField(b, o.fields[k]) /\ TagRead(b, o.fields[k])
      /\ Tiles(o)
  BY <1>1, <1>4 DEF ExactIndex, DelimitsFrame, NumbersMatch, TagRead, NumberRead
<1>7. n >= 4
  BY <1>2, CapacityAssumption
<1> QED BY <1>1, <1>3, <1>4, <1>5, <1>6, <1>7 DEF Piecewise, Tiles

(* The fields end one after the other, and every byte of the frame is in one. *)
LEMMA EndsAscend ==
    ASSUME NEW b, NEW o, Piecewise(b, o),
           NEW k \in 0 .. (o.field_count - 1), NEW l \in 0 .. (o.field_count - 1), k < l
    PROVE  o.fields[k].value_end < o.fields[l].value_end
<1> DEFINE n == o.field_count
           E(x) == o.fields[x].value_end
           S == {m \in Nat : k + 1 + m < n => E(k) < E(k + 1 + m)}
<1>1. n \in Nat /\ \A x \in 0 .. (n - 1) : E(x) \in Nat
  BY DEF Piecewise
<1>2. ASSUME NEW x \in 1 .. (n - 1) PROVE E(x - 1) < E(x)
  <2>1. x \in 0 .. (n - 1) /\ x - 1 \in 0 .. (n - 1)
    BY <1>1
  <2>2. /\ o.fields[x].tag_start < o.fields[x].value_start - 1
        /\ o.fields[x].value_start <= E(x)
        /\ o.fields[x].tag_start = E(x - 1) + 1
        /\ o.fields[x].tag_start \in Nat /\ o.fields[x].value_start \in Nat
    BY <2>1 DEF Piecewise, WellFormedField
  <2> HIDE DEF E
  <2> QED BY <1>1, <2>1, <2>2
<1> HIDE DEF E, n
<1>3. 0 \in S
  <2>1. k + 1 + 0 < n => k + 1 \in 1 .. (n - 1) /\ (k + 1) - 1 = k /\ k + 1 + 0 = k + 1
    BY <1>1 DEF n
  <2> QED BY <1>2, <2>1
<1>4. ASSUME NEW m \in Nat, m \in S PROVE m + 1 \in S
  <2> SUFFICES ASSUME k + 1 + (m + 1) < n PROVE E(k) < E(k + 1 + (m + 1))
    OBVIOUS
  <2> DEFINE x == k + 1 + (m + 1)
  <2>1. /\ x \in 1 .. (n - 1) /\ x - 1 = k + 1 + m
        /\ k \in 0 .. (n - 1) /\ x - 1 \in 0 .. (n - 1) /\ x \in 0 .. (n - 1)
    BY <1>1 DEF n
  <2>2. E(x - 1) < E(x)
    <3> HIDE DEF x
    <3> QED BY <1>2, <2>1
  <2>3. E(k) < E(x - 1)
    BY <1>1, <1>4, <2>1
  <2>4. E(k) \in Nat /\ E(x - 1) \in Nat /\ E(x) \in Nat
    <3> HIDE DEF x
    <3> QED BY <1>1, <2>1
  <2> QED BY <2>2, <2>3, <2>4
<1>5. \A m \in Nat : m \in S
  <2> HIDE DEF S
  <2> QED BY <1>3, <1>4, Induction
<1>6. l - k - 1 \in Nat /\ k + 1 + (l - k - 1) = l /\ l < n
  BY <1>1 DEF n
<1> QED BY <1>5, <1>6 DEF E

LEMMA PiecesCover ==
    ASSUME NEW b, NEW o, Piecewise(b, o), NEW x \in Nat, x < o.frame_length
    PROVE  \E k \in 0 .. (o.field_count - 1) :
              o.fields[k].tag_start <= x /\ x <= o.fields[k].value_end
<1> DEFINE n == o.field_count
           S == {k \in Nat : k <= n - 1 /\ x <= o.fields[k].value_end}
<1>1. n \in Nat /\ n >= 4 /\ \A k \in 0 .. (n - 1) : o.fields[k].value_end \in Nat
  BY DEF Piecewise
<1>2. n - 1 \in S
  BY <1>1 DEF Piecewise
<1>3. PICK k \in S : \A i \in S : k <= i
  BY <1>2, LeastNatural
<1>4. k \in 0 .. (n - 1) /\ x <= o.fields[k].value_end
  BY <1>1, <1>3
<1>5. CASE k = 0
  <2>1. o.fields[k].tag_start = 0
    BY <1>5 DEF Piecewise
  <2> QED BY <1>4, <2>1
<1>6. CASE k # 0
  <2>1. k - 1 \in Nat /\ k - 1 <= n - 1 /\ k \in 1 .. (n - 1) /\ ~ (k <= k - 1)
    BY <1>1, <1>4, <1>6
  <2>2. ~ (x <= o.fields[k - 1].value_end)
    BY <1>3, <2>1
  <2>3. o.fields[k].tag_start = o.fields[k - 1].value_end + 1
    BY <2>1 DEF Piecewise
  <2>4. o.fields[k - 1].value_end \in Nat
    BY <1>1, <2>1
  <2> QED BY <1>4, <2>2, <2>3, <2>4
<1> QED BY <1>5, <1>6

-----------------------------------------------------------------------------
Frame(b, o) == SubSeq(b, 1, o.frame_length)

Ends(o) == [k \in 1 .. o.field_count |-> o.fields[k - 1].value_end]

LEMMA FrameBytes ==
    ASSUME NEW b \in Seq(Byte), NEW o, Piecewise(b, o)
    PROVE  /\ o.frame_length \in Nat /\ 1 <= o.frame_length /\ o.frame_length <= Len(b)
           /\ Frame(b, o) \in Seq(Byte) /\ Len(Frame(b, o)) = o.frame_length
           /\ \A x \in 0 .. (o.frame_length - 1) : ByteAt(Frame(b, o), x) = ByteAt(b, x)
           /\ \A k \in 0 .. (o.field_count - 1) : o.fields[k].value_end < o.frame_length
<1> DEFINE n == o.field_count
           L == o.frame_length
<1>1. n - 1 \in 0 .. (n - 1) /\ n \in Nat /\ \A k \in 0 .. (n - 1) : o.fields[k].value_end \in Nat
  BY DEF Piecewise
<1>2. L = o.fields[n - 1].value_end + 1 /\ o.fields[n - 1].value_end < Len(b)
  BY <1>1 DEF Piecewise, WellFormedField
<1>3. L \in Nat /\ 1 <= L /\ L <= Len(b)
  BY <1>1, <1>2
<1>4. /\ Frame(b, o) \in Seq(Byte) /\ Len(Frame(b, o)) = L
      /\ \A i \in 1 .. L : Frame(b, o)[i] = b[i]
  BY <1>3 DEF Frame
<1>5. \A x \in 0 .. (L - 1) : ByteAt(Frame(b, o), x) = ByteAt(b, x)
  BY <1>3, <1>4 DEF ByteAt
<1>6. ASSUME NEW k \in 0 .. (n - 1) PROVE o.fields[k].value_end < L
  <2>1. CASE k = n - 1
    BY <1>1, <1>2, <2>1
  <2>2. CASE k # n - 1
    <3>1. k < n - 1
      BY <1>1, <2>2
    <3>2. o.fields[k].value_end < o.fields[n - 1].value_end
      BY <1>1, <3>1, EndsAscend
    <3> QED BY <1>1, <1>2, <3>2
  <2> QED BY <2>1, <2>2
<1> QED BY <1>3, <1>4, <1>5, <1>6

(* The <SOH>s of the frame are the ends of its fields.                        *)
LEMMA EndsListed ==
    ASSUME NEW b, NEW o, Piecewise(b, o)
    PROVE  /\ Ascends(Ends(o)) /\ Len(Ends(o)) = o.field_count
           /\ \A k \in 1 .. o.field_count : Ends(o)[k] = o.fields[k - 1].value_end
<1> DEFINE n == o.field_count
           g == Ends(o)
<1>1. n \in Nat /\ \A k \in 0 .. (n - 1) : o.fields[k].value_end \in Nat
  BY DEF Piecewise
<1>2. Len(g) = n /\ g \in Seq(Nat) /\ \A k \in 1 .. n : g[k] = o.fields[k - 1].value_end
  BY <1>1 DEF Ends
<1>3. ASSUME NEW k \in 1 .. n, NEW l \in 1 .. n, k < l PROVE g[k] < g[l]
  <2>1. k - 1 \in 0 .. (n - 1) /\ l - 1 \in 0 .. (n - 1) /\ k - 1 < l - 1
    BY <1>1, <1>3
  <2>2. o.fields[k - 1].value_end < o.fields[l - 1].value_end
    BY <2>1, EndsAscend
  <2> QED BY <1>2, <2>2
<1> QED BY <1>2, <1>3 DEF Ascends

LEMMA FieldHasOneSoh ==
    ASSUME NEW b, NEW e, WellFormedField(b, e),
           e.tag_start \in Nat, e.value_start \in Nat, e.value_end \in Nat
    PROVE  \A x \in e.tag_start .. (e.value_end - 1) : ByteAt(b, x) # Soh
<1>1. /\ \A x \in e.tag_start .. (e.value_start - 2) : ByteAt(b, x) # Soh
      /\ ByteAt(b, e.value_start - 1) # Soh
      /\ \A x \in e.value_start .. (e.value_end - 1) : ByteAt(b, x) # Soh
  <2>1. \A x \in e.tag_start .. (e.value_start - 2) : ByteAt(b, x) \in 0 .. 9
    BY DEF WellFormedField, IsDigit, Digit
  <2>2. \A c \in 0 .. 9 : c # Soh
    BY DEF Soh
  <2>3. ByteAt(b, e.value_start - 1) # Soh
    BY DEF WellFormedField, Soh, Equals
  <2> QED BY <2>1, <2>2, <2>3 DEF WellFormedField
<1>2. ASSUME NEW x \in e.tag_start .. (e.value_end - 1) PROVE ByteAt(b, x) # Soh
  <2>1. \/ x \in e.tag_start .. (e.value_start - 2)
        \/ x = e.value_start - 1
        \/ x \in e.value_start .. (e.value_end - 1)
    OBVIOUS
  <2> QED BY <1>1, <2>1
<1> QED BY <1>2

LEMMA SohIsEnd ==
    ASSUME NEW b, NEW o, Piecewise(b, o), NEW x \in Nat, x < o.frame_length,
           ByteAt(b, x) = Soh
    PROVE  Occurs(x, Ends(o))
<1>1. PICK k \in 0 .. (o.field_count - 1) :
         o.fields[k].tag_start <= x /\ x <= o.fields[k].value_end
  BY PiecesCover
<1>2. /\ o.fields[k].tag_start \in Nat /\ o.fields[k].value_start \in Nat
      /\ o.fields[k].value_end \in Nat /\ WellFormedField(b, o.fields[k])
  BY <1>1 DEF Piecewise
<1>3. \A y \in o.fields[k].tag_start .. (o.fields[k].value_end - 1) : ByteAt(b, y) # Soh
  BY <1>2, FieldHasOneSoh
<1>4. x = o.fields[k].value_end
  BY <1>1, <1>2, <1>3
<1>5. k + 1 \in 1 .. o.field_count /\ (k + 1) - 1 = k
  BY <1>1 DEF Piecewise
<1> QED BY <1>4, <1>5, EndsListed DEF Occurs

LEMMA FrameSohs ==
    ASSUME NEW b \in Seq(Byte), NEW o, Piecewise(b, o)
    PROVE  SohOffsets(Frame(b, o)) = Ends(o)
<1> DEFINE f == Frame(b, o)
           e == SohOffsets(f)
           g == Ends(o)
<1>1. /\ f \in Seq(Byte) /\ Len(f) = o.frame_length /\ o.frame_length \in Nat
      /\ \A x \in 0 .. (o.frame_length - 1) : ByteAt(f, x) = ByteAt(b, x)
      /\ \A k \in 0 .. (o.field_count - 1) : o.fields[k].value_end < o.frame_length
  BY FrameBytes
<1>2. /\ Ascends(e)
      /\ \A i \in 1 .. Len(e) : e[i] < Len(f) /\ ByteAt(f, e[i]) = Soh
      /\ \A x \in 0 .. (Len(f) - 1) : ByteAt(f, x) = Soh => Occurs(x, e)
  BY <1>1, SohOffsetsAscend
<1>3. /\ Ascends(g) /\ Len(g) = o.field_count
      /\ \A k \in 1 .. Len(g) : g[k] = o.fields[k - 1].value_end
  BY EndsListed
<1>4. ASSUME NEW i \in 1 .. Len(e) PROVE Occurs(e[i], g)
  <2>1. e[i] \in Nat /\ e[i] < o.frame_length /\ ByteAt(b, e[i]) = Soh
    BY <1>1, <1>2 DEF Ascends
  <2> QED BY <2>1, SohIsEnd
<1>5. ASSUME NEW i \in 1 .. Len(g) PROVE Occurs(g[i], e)
  <2>1. i - 1 \in 0 .. (o.field_count - 1) /\ g[i] = o.fields[i - 1].value_end
    BY <1>3 DEF Piecewise
  <2>2. ByteAt(b, g[i]) = Soh /\ g[i] \in Nat /\ g[i] < o.frame_length
    BY <1>1, <2>1 DEF Piecewise, WellFormedField
  <2> QED BY <1>1, <1>2, <2>2
<1> HIDE DEF e, g
<1> QED BY <1>2, <1>3, <1>4, <1>5, AscentUnique DEF e, g

(* In a longer buffer they are the first ones.                                *)
LEMMA LeadingSohs ==
    ASSUME NEW b \in Seq(Byte), NEW o, Piecewise(b, o)
    PROVE  /\ SohOffsets(b) \in Seq(Nat) /\ o.field_count <= Len(SohOffsets(b))
           /\ \A k \in 1 .. o.field_count : SohOffsets(b)[k] = o.fields[k - 1].value_end
<1> DEFINE e == SohOffsets(b)
           g == Ends(o)
           n == o.field_count
<1>1. /\ Ascends(e)
      /\ \A i \in 1 .. Len(e) : e[i] < Len(b) /\ ByteAt(b, e[i]) = Soh
      /\ \A x \in 0 .. (Len(b) - 1) : ByteAt(b, x) = Soh => Occurs(x, e)
  BY SohOffsetsAscend
<1>2. Ascends(g) /\ Len(g) = n /\ \A k \in 1 .. n : g[k] = o.fields[k - 1].value_end
  BY EndsListed
<1>3. /\ o.frame_length \in Nat /\ o.frame_length <= Len(b)
      /\ \A k \in 0 .. (n - 1) : o.fields[k].value_end < o.frame_length
  BY FrameBytes
<1>4. n \in Nat /\ n >= 4
  BY DEF Piecewise
<1>5. ASSUME NEW i \in 1 .. n
      PROVE  g[i] \in Nat /\ g[i] < o.frame_length /\ ByteAt(b, g[i]) = Soh
  <2>1. i - 1 \in 0 .. (n - 1) /\ g[i] = o.fields[i - 1].value_end
    BY <1>2, <1>4
  <2> QED BY <1>3, <2>1 DEF Piecewise, WellFormedField
<1>6. ASSUME NEW i \in 1 .. Len(g) PROVE Occurs(g[i], e)
  BY <1>1, <1>2, <1>3, <1>5
<1>7. ASSUME NEW i \in 1 .. Len(e), NEW j \in 1 .. Len(g), e[i] <= g[j]
      PROVE  Occurs(e[i], g)
  <2>1. e[i] \in Nat /\ ByteAt(b, e[i]) = Soh
    BY <1>1 DEF Ascends
  <2>2. e[i] < o.frame_length
    BY <1>2, <1>3, <1>5, <1>7, <2>1
  <2> QED BY <2>1, <2>2, SohIsEnd
<1> HIDE DEF e, g
<1>8. \A k \in 1 .. Len(g) : k \in 1 .. Len(e) /\ e[k] = g[k]
  BY <1>1, <1>2, <1>6, <1>7, AscentPrefix
<1>9. n \in 1 .. Len(e)
  BY <1>2, <1>4, <1>8
<1>10. e \in Seq(Nat)
  BY <1>1 DEF Ascends
<1> QED BY <1>2, <1>8, <1>9, <1>10 DEF e

(* A mandatory tag is spelled without leading zeros: its '=' stands where it   *)
(* must.                                                                    *)
Spelled(o) ==
    /\ o.fields[0].value_start = o.fields[0].tag_start + 2
    /\ o.fields[1].value_start = o.fields[1].tag_start + 2
    /\ o.fields[2].value_start = o.fields[2].tag_start + 3

LEMMA SpelledOne ==
    ASSUME NEW b, NEW e, NEW c \in 1 .. 9, WellFormedField(b, e), TagRead(b, e),
           e.tag_start \in Nat, e.value_start = e.tag_start + 2, e.value_end \in Nat,
           e.tag_number = c, Len(b) \in Nat
    PROVE  HasLiteral(b, e.tag_start, <<c, Equals>>)
<1> DEFINE s == e.tag_start
<1>1. e.value_start - 1 = s + 1 /\ e.value_start - 2 = s /\ s \in s .. s /\ s + 2 <= Len(b)
  BY DEF WellFormedField
<1>2. IsDigit(ByteAt(b, s)) /\ ByteAt(b, s + 1) = Equals
  BY <1>1 DEF WellFormedField
<1>3. Decimal(b, s, s + 1) = ByteAt(b, s)
  BY <1>2, DecimalOne DEF IsDigit
<1>4. b[s + 1] = c /\ b[s + 2] = Equals
  <2>1. b[s + 1] = c
    BY <1>1, <1>3 DEF TagRead, NumberRead, ByteAt
  <2>2. (s + 1) + 1 = s + 2
    OBVIOUS
  <2> QED BY <1>2, <2>1, <2>2 DEF ByteAt
<1>5. Len(<<c, Equals>>) = 2 /\ <<c, Equals>>[1] = c /\ <<c, Equals>>[2] = Equals
  OBVIOUS
<1> QED BY <1>1, <1>4, <1>5 DEF HasLiteral

LEMMA SpelledTwo ==
    ASSUME NEW b, NEW e, NEW c \in 0 .. 9, NEW d \in 0 .. 9, WellFormedField(b, e),
           TagRead(b, e), e.tag_start \in Nat, e.value_start = e.tag_start + 3,
           e.value_end \in Nat, e.tag_number = c * 10 + d, Len(b) \in Nat
    PROVE  HasLiteral(b, e.tag_start, <<c, d, Equals>>)
<1> DEFINE s == e.tag_start
<1>1. /\ e.value_start - 1 = s + 2 /\ e.value_start - 2 = s + 1
      /\ s \in s .. (s + 1) /\ s + 1 \in s .. (s + 1) /\ s + 3 <= Len(b)
  BY DEF WellFormedField
<1>2. IsDigit(ByteAt(b, s)) /\ IsDigit(ByteAt(b, s + 1)) /\ ByteAt(b, s + 2) = Equals
  BY <1>1 DEF WellFormedField
<1>3. Decimal(b, s, s + 2) = ByteAt(b, s) * 10 + ByteAt(b, s + 1)
  BY <1>2, DecimalTwo DEF IsDigit
<1>4. ByteAt(b, s) * 10 + ByteAt(b, s + 1) = c * 10 + d
  BY <1>1, <1>3 DEF TagRead, NumberRead
<1>5. ByteAt(b, s) = c /\ ByteAt(b, s + 1) = d
  <2> DEFINE x == ByteAt(b, s)
             y == ByteAt(b, s + 1)
  <2>1. x \in 0 .. 9 /\ y \in 0 .. 9 /\ x * 10 + y = c * 10 + d
    BY <1>2, <1>4 DEF IsDigit, Digit
  <2> HIDE DEF x, y
  <2>2. x = c /\ y = d
    BY <2>1
  <2> QED BY <2>2 DEF x, y
<1>6. b[s + 1] = c /\ b[s + 2] = d /\ b[s + 3] = Equals
  <2>1. (s + 1) + 1 = s + 2 /\ (s + 2) + 1 = s + 3
    OBVIOUS
  <2> QED BY <1>2, <1>5, <2>1 DEF ByteAt
<1>7. /\ Len(<<c, d, Equals>>) = 3 /\ <<c, d, Equals>>[1] = c /\ <<c, d, Equals>>[2] = d
      /\ <<c, d, Equals>>[3] = Equals
  OBVIOUS
<1> QED BY SMTT(30), <1>1, <1>6, <1>7 DEF HasLiteral

(* The first '=' of a well-formed field is the one that ends its tag.         *)
LEMMA FirstEquals ==
    ASSUME NEW b, NEW e, WellFormedField(b, e),
           e.tag_start \in Nat, e.value_start \in Nat, e.value_end \in Nat
    PROVE  LET S == {i \in e.tag_start .. e.value_end : ByteAt(b, i) = Equals}
           IN  S # {} /\ Min(S) + 1 = e.value_start
<1> DEFINE S == {i \in e.tag_start .. e.value_end : ByteAt(b, i) = Equals}
           x == e.value_start - 1
<1>1. x \in S
  BY DEF WellFormedField
<1>2. ASSUME NEW y \in S PROVE x <= y
  <2>1. y \notin e.tag_start .. (e.value_start - 2)
    <3>1. ~ IsDigit(ByteAt(b, y))
      BY DEF IsDigit, Digit, Equals
    <3> QED BY <3>1 DEF WellFormedField
  <2> QED BY <2>1
<1>3. S \in SUBSET Nat
  OBVIOUS
<1> HIDE DEF S, x
<1>4. Min(S) = x
  BY <1>1, <1>2, <1>3, MinIs
<1>5. S # {} /\ Min(S) + 1 = e.value_start
  BY <1>1, <1>4 DEF x
<1> QED BY <1>5 DEF S

LEMMA LiveEntry ==
    ASSUME NEW o \in FieldIndex, NEW k \in 0 .. (o.field_count - 1)
    PROVE  /\ o.fields[k] \in FieldEntry
           /\ o.fields[k].tag_start \in Nat /\ o.fields[k].value_start \in Nat
           /\ o.fields[k].value_end \in Nat
<1>1. k \in 0 .. (kMaxFields - 1)
  BY CapacityAssumption DEF FieldIndex
<1>2. o.fields[k] \in FieldEntry
  BY <1>1 DEF FieldIndex
<1>3. \A e \in FieldEntry : e.tag_start \in Nat /\ e.value_start \in Nat /\ e.value_end \in Nat
  BY DEF FieldEntry, UInt32
<1> QED BY <1>2, <1>3

LEMMA EntryOfParts ==
    ASSUME NEW e \in FieldEntry
    PROVE  Entry(e.tag_start, e.value_start, e.value_end, e.tag_number) = e
<1>1. /\ e.tag_start \in Nat /\ e.value_start \in Nat /\ e.value_end \in Nat
      /\ e.tag_start <= UINT32_MAX /\ e.value_start <= UINT32_MAX /\ e.value_end <= UINT32_MAX
  BY WidthAssumption DEF FieldEntry, UInt32
<1>2. /\ U32(e.tag_start) = e.tag_start /\ U32(e.value_start) = e.value_start
      /\ U32(e.value_end) = e.value_end
  BY <1>1, U32Fits
<1> QED BY <1>2 DEF Entry, FieldEntry

(* What a caller may read of an exact index whose numbers were accumulated is *)
(* the one index that the reference definition gives the buffer.             *)
LEMMA ReadableIsCut ==
    ASSUME NEW b \in Seq(Byte), Len(b) <= UINT32_MAX, NEW o \in FieldIndex,
           ExactIndex(b, o), Piecewise(b, o),
           \A k \in 0 .. (o.field_count - 1) : TagRead(b, o.fields[k])
    PROVE  /\ Readable(o) = CutIndex(b, SohOffsets(b), o.field_count)
           /\ o.field_count <= Len(SohOffsets(b))
           /\ \A k \in 1 .. o.field_count : EqualsIn(b, SohOffsets(b), k) # {}
<1> DEFINE ends == SohOffsets(b)
           n == o.field_count
<1>1. n \in Nat /\ n >= 4 /\ n <= kMaxFields
  BY CapacityAssumption DEF Piecewise, FieldIndex
<1>2. /\ ends \in Seq(Nat) /\ n <= Len(ends)
      /\ \A k \in 1 .. n : ends[k] = o.fields[k - 1].value_end
  BY LeadingSohs
<1> HIDE DEF ends
<1>3. ASSUME NEW k \in 0 .. (n - 1)
      PROVE  /\ EqualsIn(b, ends, k + 1) # {}
             /\ Entry(PieceStart(ends, k + 1), Min(EqualsIn(b, ends, k + 1)) + 1, ends[k + 1],
                      Decimal(b, PieceStart(ends, k + 1), Min(EqualsIn(b, ends, k + 1))))
                  = o.fields[k]
  <2> DEFINE e == o.fields[k]
  <2>1. /\ e.tag_start \in Nat /\ e.value_start \in Nat /\ e.value_end \in Nat
        /\ WellFormedField(b, e) /\ TagRead(b, e) /\ e \in FieldEntry
    BY <1>1, LiveEntry DEF Piecewise
  <2>2. ends[k + 1] = e.value_end
    <3>1. k + 1 \in 1 .. n /\ (k + 1) - 1 = k
      BY <1>1
    <3> QED BY <1>2, <3>1
  <2>3. PieceStart(ends, k + 1) = e.tag_start
    <3>1. CASE k = 0
      BY <3>1 DEF PieceStart, Piecewise
    <3>2. CASE k # 0
      <4>1. k \in 1 .. n /\ k \in 1 .. (n - 1) /\ (k + 1) - 1 = k /\ k + 1 # 1
        BY <1>1, <3>2
      <4>2. ends[k] = o.fields[k - 1].value_end /\ e.tag_start = o.fields[k - 1].value_end + 1
        BY <1>2, <4>1 DEF Piecewise
      <4> QED BY <4>1, <4>2 DEF PieceStart
    <3> QED BY <3>1, <3>2
  <2> HIDE DEF e
  <2> DEFINE S == {i \in e.tag_start .. e.value_end : ByteAt(b, i) = Equals}
  <2>4. EqualsIn(b, ends, k + 1) = S
    BY <2>2, <2>3 DEF EqualsIn
  <2>5. S # {} /\ Min(S) + 1 = e.value_start
    BY <2>1, FirstEquals
  <2>6. S \in SUBSET Nat
    BY <2>1
  <2>7. Min(S) \in Nat
    BY <2>5, <2>6, MinOfNaturals
  <2> HIDE DEF S
  <2>8. Min(S) = e.value_start - 1
    BY <2>1, <2>5, <2>7
  <2>9. e.tag_number = Decimal(b, e.tag_start, e.value_start - 1)
    BY <2>1 DEF TagRead, NumberRead
  <2>10. Entry(e.tag_start, e.value_start, e.value_end, e.tag_number) = e
    BY <2>1, EntryOfParts
  <2> QED BY <2>2, <2>3, <2>4, <2>5, <2>8, <2>9, <2>10 DEF e
<1>4. \A k \in 1 .. n : EqualsIn(b, ends, k) # {}
  <2>1. \A k \in 1 .. n : k - 1 \in 0 .. (n - 1) /\ (k - 1) + 1 = k
    BY <1>1
  <2> QED BY <1>3, <2>1
<1> DEFINE start(j) == PieceStart(ends, j)
           value(j) == Min(EqualsIn(b, ends, j)) + 1
           Cut(j) == Entry(start(j), value(j), ends[j], Decimal(b, start(j), value(j) - 1))
<1>5. \A k \in 0 .. (n - 1) : Cut(k + 1) = o.fields[k]
  <2> SUFFICES ASSUME NEW k \in 0 .. (n - 1) PROVE Cut(k + 1) = o.fields[k]
    OBVIOUS
  <2>1. EqualsIn(b, ends, k + 1) \in SUBSET Nat /\ EqualsIn(b, ends, k + 1) # {}
    <3>1. k + 1 \in 1 .. n /\ (k + 1 # 1 => (k + 1) - 1 \in 1 .. n)
      BY <1>1
    <3>2. PieceStart(ends, k + 1) \in Nat /\ ends[k + 1] \in Nat
      BY SMTT(30), <1>1, <1>2, <3>1 DEF PieceStart
    <3>3. EqualsIn(b, ends, k + 1) \in SUBSET Nat
      BY <3>2 DEF EqualsIn
    <3> QED BY <1>3, <3>3
  <2>2. Min(EqualsIn(b, ends, k + 1)) \in Nat
    BY <2>1, MinOfNaturals
  <2>3. value(k + 1) - 1 = Min(EqualsIn(b, ends, k + 1))
    BY <2>2
  <2> QED BY <1>3, <2>3
<1> HIDE DEF start, value, Cut
<1> DEFINE c == CutIndex(b, ends, n)
           r == Readable(o)
<1>6. /\ c = [begin_string_idx |-> 0, body_length_idx |-> 1, msg_type_idx |-> 2,
              checksum_idx |-> n - 1,
              declared_body_length |-> Decimal(b, Cut(2).value_start, Cut(2).value_end),
              frame_length |-> ends[n] + 1, field_count |-> n,
              fields |-> [k \in 0 .. (n - 1) |-> Cut(k + 1)]]
  BY DEF CutIndex, Cut, start, value
<1>7. Cut(2) = o.fields[1]
  <2>1. 1 \in 0 .. (n - 1) /\ 1 + 1 = 2
    BY <1>1
  <2> QED BY <1>5, <2>1
<1>8. ends[n] = o.fields[n - 1].value_end
  <2>1. n \in 1 .. n
    BY <1>1
  <2> QED BY <1>2, <2>1
<1>9. [k \in 0 .. (n - 1) |-> Cut(k + 1)] = [k \in 0 .. (n - 1) |-> o.fields[k]]
  BY <1>5
<1>10. /\ o.begin_string_idx = 0 /\ o.body_length_idx = 1 /\ o.msg_type_idx = 2
       /\ o.checksum_idx = n - 1 /\ o.frame_length = o.fields[n - 1].value_end + 1
       /\ o.declared_body_length
            = Decimal(b, o.fields[1].value_start, o.fields[1].value_end)
  BY DEF ExactIndex, DelimitsFrame, CanonicalOrder, Tiles, NumbersMatch
<1>11. r = [begin_string_idx |-> 0, body_length_idx |-> 1, msg_type_idx |-> 2,
            checksum_idx |-> n - 1,
            declared_body_length |-> o.declared_body_length,
            frame_length |-> o.frame_length, field_count |-> n,
            fields |-> [k \in 0 .. (n - 1) |-> o.fields[k]]]
  <2>1. r = [begin_string_idx |-> o.begin_string_idx, body_length_idx |-> o.body_length_idx,
             msg_type_idx |-> o.msg_type_idx, checksum_idx |-> o.checksum_idx,
             declared_body_length |-> o.declared_body_length,
             frame_length |-> o.frame_length, field_count |-> n,
             fields |-> [k \in 0 .. (n - 1) |-> o.fields[k]]]
    <3> DEFINE f == [k \in 0 .. (o.field_count - 1) |-> o.fields[k]]
    <3>1. o = [begin_string_idx |-> o.begin_string_idx,
               body_length_idx |-> o.body_length_idx,
               msg_type_idx |-> o.msg_type_idx, checksum_idx |-> o.checksum_idx,
               declared_body_length |-> o.declared_body_length,
               frame_length |-> o.frame_length, field_count |-> o.field_count,
               fields |-> o.fields]
      BY DEF FieldIndex
    <3>2. r = [o EXCEPT !.fields = f]
      BY DEF Readable
    <3> HIDE DEF f, r
    <3>3. r = [begin_string_idx |-> o.begin_string_idx,
               body_length_idx |-> o.body_length_idx,
               msg_type_idx |-> o.msg_type_idx, checksum_idx |-> o.checksum_idx,
               declared_body_length |-> o.declared_body_length,
               frame_length |-> o.frame_length, field_count |-> o.field_count,
               fields |-> f]
      BY <3>1, <3>2
    <3> QED BY <3>3 DEF f
  <2> QED BY <1>10, <2>1
<1>12. c = r
  BY <1>6, <1>7, <1>8, <1>9, <1>10, <1>11
<1> QED BY <1>2, <1>4, <1>12 DEF ends

LEMMA ReadableIsFrame ==
    ASSUME NEW b \in Seq(Byte), Len(b) <= UINT32_MAX, NEW o \in FieldIndex,
           ExactIndex(b, o), Spelled(o), LengthRead(b, o),
           \A k \in 0 .. (o.field_count - 1) : TagRead(b, o.fields[k])
    PROVE  Readable(o) \in FrameIndices(b)
<1> DEFINE n == o.field_count
           r == Readable(o)
<1>1. n \in 4 .. kMaxFields /\ n \in Nat /\ n >= 4 /\ n <= kMaxFields
  BY CapacityAssumption DEF ExactIndex, DelimitsFrame
<1>2. \A k \in 0 .. (n - 1) :
          /\ o.fields[k].tag_start \in Nat /\ o.fields[k].value_start \in Nat
          /\ o.fields[k].value_end \in Nat /\ WellFormedField(b, o.fields[k])
  BY LiveEntry DEF ExactIndex, DelimitsFrame
<1>3. Piecewise(b, o)
  BY <1>1, <1>2 DEF ExactIndex, DelimitsFrame, Tiles, Piecewise
<1>4. /\ r = CutIndex(b, SohOffsets(b), n) /\ n <= Len(SohOffsets(b))
      /\ \A k \in 1 .. n : EqualsIn(b, SohOffsets(b), k) # {}
  BY <1>3, ReadableIsCut
<1>5. /\ r.field_count = n /\ r.declared_body_length = o.declared_body_length
      /\ \A k \in 0 .. (n - 1) : r.fields[k] = o.fields[k]
  BY DEF Readable, FieldIndex
<1>6. ExactIndex(b, r)
  BY ReadableExact
<1>7. /\ Representable(r.declared_body_length)
      /\ \A k \in 0 .. (r.field_count - 1) : Representable(r.fields[k].tag_number)
  BY <1>5 DEF LengthRead, TagRead, NumberRead
<1>8. 0 \in 0 .. (n - 1) /\ 1 \in 0 .. (n - 1) /\ 2 \in 0 .. (n - 1) /\ Len(b) \in Nat
  BY <1>1
<1>9. /\ o.fields[0].tag_start = 0 /\ o.fields[0].tag_number = 8
      /\ o.fields[1].tag_number = 9 /\ o.fields[2].tag_number = 35
  BY DEF ExactIndex, DelimitsFrame, Tiles, CanonicalOrder
<1>10. /\ HasLiteral(b, 0, <<8, Equals>>)
       /\ HasLiteral(b, o.fields[1].tag_start, <<9, Equals>>)
       /\ HasLiteral(b, o.fields[2].tag_start, <<3, 5, Equals>>)
  <2> DEFINE e(k) == o.fields[k]
  <2>0. \A k \in {0, 1, 2} :
           /\ e(k).tag_start \in Nat /\ e(k).value_start \in Nat /\ e(k).value_end \in Nat
           /\ WellFormedField(b, e(k)) /\ TagRead(b, e(k))
    BY <1>2, <1>8
  <2>3. /\ 35 = 3 * 10 + 5 /\ 8 \in 1 .. 9 /\ 9 \in 1 .. 9 /\ 3 \in 0 .. 9 /\ 5 \in 0 .. 9
        /\ 0 \in {0, 1, 2} /\ 1 \in {0, 1, 2} /\ 2 \in {0, 1, 2}
    OBVIOUS
  <2>1. /\ e(0).tag_number = 8 /\ e(0).value_start = e(0).tag_start + 2
        /\ e(1).tag_number = 9 /\ e(1).value_start = e(1).tag_start + 2
        /\ e(2).tag_number = 3 * 10 + 5 /\ e(2).value_start = e(2).tag_start + 3
    BY <1>9 DEF Spelled
  <2>2. e(0).tag_start = 0
    BY <1>9
  <2> HIDE DEF e
  <2>4. HasLiteral(b, e(0).tag_start, <<8, Equals>>)
    BY <1>8, <2>0, <2>1, <2>3, SpelledOne
  <2>5. HasLiteral(b, e(1).tag_start, <<9, Equals>>)
    BY <1>8, <2>0, <2>1, <2>3, SpelledOne
  <2>6. HasLiteral(b, e(2).tag_start, <<3, 5, Equals>>)
    BY <1>8, <2>0, <2>1, <2>3, SpelledTwo
  <2> QED BY <2>2, <2>4, <2>5, <2>6 DEF e
<1> HIDE DEF r
<1> QED BY <1>1, <1>4, <1>5, <1>6, <1>7, <1>8, <1>10 DEF FrameIndices, r

-----------------------------------------------------------------------------
(* What a scanner that passes over a frame meets: a frame of the reference, or *)
(* one that only the table's size or raw data keep from being one.            *)
Whole(b, o) ==
    LET trailer == o.fields[o.field_count - 1]
    IN  /\ Piecewise(b, o) /\ Spelled(o) /\ LengthRead(b, o)
        /\ \A k \in 0 .. (o.field_count - 1) : TagRead(b, o.fields[k])
        /\ HasLiteral(b, 0, <<8, Equals>>)
        /\ HasLiteral(b, o.fields[1].tag_start, <<9, Equals>>)
        /\ HasLiteral(b, o.fields[2].tag_start, <<3, 5, Equals>>)
        /\ \A k \in 3 .. (o.field_count - 2) : o.fields[k].tag_number # 0
        /\ o.checksum_idx = o.field_count - 1 /\ trailer.tag_number = 10
        /\ o.declared_body_length \in Nat
        /\ trailer.tag_start = o.fields[1].value_end + 1 + o.declared_body_length
        /\ trailer.value_end = trailer.value_start + 3
        /\ \A k \in trailer.value_start .. (trailer.value_end - 1) : IsDigit(ByteAt(b, k))

(* Those are left to QuickFIX.                                                *)
Deferred(o) ==
    \/ o.field_count > kMaxFields
    \/ \E k \in 3 .. (o.field_count - 2) : o.fields[k].tag_number \in {95, 96}

(* A tag ends at the first '='.                                               *)
LEMMA TagStops ==
    ASSUME NEW b, NEW e, WellFormedField(b, e), e.tag_start \in Nat, e.value_start \in Nat,
           NEW x \in Nat, e.tag_start <= x, ByteAt(b, x) = Equals,
           \A k \in e.tag_start .. (x - 1) : IsDigit(ByteAt(b, k))
    PROVE  e.value_start = x + 1
<1>1. ~ IsDigit(Equals)
  BY DEF IsDigit, Digit, Equals
<1>2. ~ (e.value_start - 1 < x)
  <2> SUFFICES ASSUME e.value_start - 1 < x PROVE FALSE
    OBVIOUS
  <2>1. e.value_start - 1 \in e.tag_start .. (x - 1)
    BY DEF WellFormedField
  <2> QED BY <1>1, <2>1 DEF WellFormedField
<1>3. ~ (x < e.value_start - 1)
  <2> SUFFICES ASSUME x < e.value_start - 1 PROVE FALSE
    OBVIOUS
  <2>1. x \in e.tag_start .. (e.value_start - 2)
    OBVIOUS
  <2> QED BY <1>1, <2>1 DEF WellFormedField
<1> QED BY <1>2, <1>3

(* A value ends at the first <SOH>.                                           *)
LEMMA ValueStops ==
    ASSUME NEW b, NEW e, WellFormedField(b, e), e.value_start \in Nat, e.value_end \in Nat,
           Len(b) \in Nat, NEW j \in e.value_start .. Len(b), StopsAt(b, e.value_start, j)
    PROVE  j = e.value_end
<1>1. ~ (j < e.value_end)
  <2> SUFFICES ASSUME j < e.value_end PROVE FALSE
    OBVIOUS
  <2>1. j < Len(b) /\ j \in e.value_start .. (e.value_end - 1)
    BY DEF WellFormedField
  <2> QED BY <2>1 DEF StopsAt, WellFormedField
<1>2. ~ (e.value_end < j)
  <2> SUFFICES ASSUME e.value_end < j PROVE FALSE
    OBVIOUS
  <2>1. e.value_end \in e.value_start .. (j - 1)
    BY DEF WellFormedField
  <2> QED BY <2>1 DEF StopsAt, WellFormedField
<1> QED BY <1>1, <1>2

LEMMA FrameIsWhole ==
    ASSUME NEW b \in Seq(Byte), NEW o \in FrameIndices(b)
    PROVE  Whole(b, o) /\ ~Deferred(o)
<1> DEFINE n == o.field_count
           e(k) == o.fields[k]
<1>1. /\ Piecewise(b, o)
      /\ \A k \in 0 .. (n - 1) : TagRead(b, e(k))
  BY FramePieces
<1>2. /\ ExactIndex(b, o) /\ Representable(o.declared_body_length)
      /\ HasLiteral(b, 0, <<8, Equals>>)
      /\ HasLiteral(b, e(1).tag_start, <<9, Equals>>)
      /\ HasLiteral(b, e(2).tag_start, <<3, 5, Equals>>)
  BY DEF FrameIndices
<1>3. n \in Nat /\ n >= 4
  BY <1>1 DEF Piecewise
<1>9. ~ (n > kMaxFields)
  <2>1. n \in 4 .. kMaxFields
    BY <1>2 DEF ExactIndex, DelimitsFrame
  <2> HIDE DEF n
  <2> QED BY <2>1, CapacityAssumption
<1>4. \A k \in {0, 1, 2} :
         /\ e(k).tag_start \in Nat /\ e(k).value_start \in Nat /\ e(k).value_end \in Nat
         /\ WellFormedField(b, e(k))
  BY <1>1, <1>3 DEF Piecewise
<1>5. LengthRead(b, o)
  BY <1>2 DEF LengthRead, NumberRead, ExactIndex, NumbersMatch
<1>6. Spelled(o)
  <2>0. 0 \in {0, 1, 2} /\ 1 \in {0, 1, 2} /\ 2 \in {0, 1, 2} /\ e(0).tag_start = 0
    BY <1>1 DEF Piecewise
  <2> DEFINE s1 == e(1).tag_start
             s2 == e(2).tag_start
  <2>1. /\ ByteAt(b, 0) = 8 /\ ByteAt(b, 1) = Equals
        /\ ByteAt(b, s1) = 9 /\ ByteAt(b, s1 + 1) = Equals
        /\ ByteAt(b, s2) = 3 /\ ByteAt(b, s2 + 1) = 5 /\ ByteAt(b, s2 + 2) = Equals
    <3>1. 0 \in Nat /\ s1 \in Nat /\ s2 \in Nat
      BY <1>4, <2>0
    <3>2. /\ HasLiteral(b, 0, <<8, Equals>>) /\ HasLiteral(b, s1, <<9, Equals>>)
          /\ HasLiteral(b, s2, <<3, 5, Equals>>)
      BY <1>2
    <3> HIDE DEF e, s1, s2
    <3>3. ByteAt(b, 0) = 8 /\ ByteAt(b, 0 + 1) = Equals
      BY <3>1, <3>2, Literal2
    <3>4. ByteAt(b, s1) = 9 /\ ByteAt(b, s1 + 1) = Equals
      BY <3>1, <3>2, Literal2
    <3>5. ByteAt(b, s2) = 3 /\ ByteAt(b, s2 + 1) = 5 /\ ByteAt(b, s2 + 2) = Equals
      BY <3>1, <3>2, Literal3
    <3> QED BY <3>3, <3>4, <3>5
  <2>2. \A x \in 0 .. 9 : IsDigit(x)
    BY DEF IsDigit, Digit
  <2> HIDE DEF e
  <2>3. e(0).value_start = e(0).tag_start + 2
    <3>1. \A k \in e(0).tag_start .. (1 - 1) : IsDigit(ByteAt(b, k))
      <4>1. \A k \in e(0).tag_start .. (1 - 1) : k = 0
        BY <2>0
      <4> QED BY <2>1, <2>2, <4>1
    <3>2. e(0).value_start = 1 + 1
      <4>1. 1 \in Nat /\ e(0).tag_start <= 1 /\ ByteAt(b, 1) = Equals
        BY <2>0, <2>1
      <4> QED BY <1>4, <2>0, <3>1, <4>1, TagStops
    <3> QED BY <2>0, <3>2
  <2>4. e(1).value_start = e(1).tag_start + 2
    <3>0. s1 \in Nat /\ s1 + 1 \in Nat /\ s1 <= s1 + 1
      BY <1>4, <2>0
    <3>1. \A k \in s1 .. ((s1 + 1) - 1) : IsDigit(ByteAt(b, k))
      <4>1. \A k \in s1 .. ((s1 + 1) - 1) : k = s1
        BY <3>0
      <4> QED BY <2>1, <2>2, <4>1
    <3>2. e(1).value_start = (s1 + 1) + 1
      BY <1>4, <2>0, <2>1, <3>0, <3>1, TagStops
    <3> QED BY <3>0, <3>2
  <2>5. e(2).value_start = e(2).tag_start + 3
    <3>0. s2 \in Nat /\ s2 + 2 \in Nat /\ s2 <= s2 + 2
      BY <1>4, <2>0
    <3>1. \A k \in s2 .. ((s2 + 2) - 1) : IsDigit(ByteAt(b, k))
      <4>1. \A k \in s2 .. ((s2 + 2) - 1) : k = s2 \/ k = s2 + 1
        BY <3>0
      <4> QED BY <2>1, <2>2, <4>1
    <3>2. e(2).value_start = (s2 + 2) + 1
      BY <1>4, <2>0, <2>1, <3>0, <3>1, TagStops
    <3> QED BY <3>0, <3>2
  <2> QED BY <2>3, <2>4, <2>5 DEF Spelled, e
<1>7. o.declared_body_length \in Nat
  <2>1. 1 \in {0, 1, 2}
    OBVIOUS
  <2>2. /\ Numeral(b, e(1).value_start, e(1).value_end)
        /\ o.declared_body_length = Decimal(b, e(1).value_start, e(1).value_end)
    BY <1>5 DEF LengthRead, NumberRead
  <2> HIDE DEF e
  <2> QED BY SMTT(30), <1>4, <2>1, <2>2, DecimalNat DEF Numeral, IsDigit
<1>8. /\ o.checksum_idx = n - 1
      /\ e(n - 1).tag_number = 10
      /\ e(n - 1).tag_start = e(1).value_end + 1 + o.declared_body_length
      /\ e(n - 1).value_end = e(n - 1).value_start + 3
      /\ \A k \in e(n - 1).value_start .. (e(n - 1).value_end - 1) : IsDigit(ByteAt(b, k))
      /\ \A k \in 3 .. (n - 2) : e(k).tag_number \notin {0, 95, 96}
  BY <1>2 DEF ExactIndex, DelimitsFrame, CanonicalOrder, LengthAgrees, ThreeDigitChecksum
<1> QED BY <1>1, <1>2, <1>5, <1>6, <1>7, <1>8, <1>9 DEF Whole, Deferred

(* The digits before the last of a number that an accumulator takes leave room *)
(* for another one.                                                         *)
LEMMA DecimalGrows ==
    ASSUME NEW b, NEW i \in Nat, NEW k \in Nat, NEW j \in Nat, i <= k, k <= j,
           \A x \in i .. (j - 1) : ByteAt(b, x) \in Digit
    PROVE  Decimal(b, i, k) <= Decimal(b, i, j)
<1> DEFINE D(x) == Decimal(b, i, x)
           S == {m \in Nat : k + m <= j => D(k) <= D(k + m)}
<1>1. ASSUME NEW x \in Nat, i <= x, x <= j PROVE D(x) \in Nat
  <2>1. \A y \in i .. (x - 1) : ByteAt(b, y) \in Digit
    BY <1>1
  <2> QED BY <1>1, <2>1, DecimalNat
<1>2. 0 \in S
  <2>1. D(k) \in Nat /\ k + 0 = k
    BY <1>1
  <2> QED BY <2>1
<1>3. ASSUME NEW m \in Nat, m \in S PROVE m + 1 \in S
  <2> SUFFICES ASSUME k + (m + 1) <= j PROVE D(k) <= D(k + (m + 1))
    OBVIOUS
  <2>1. /\ k + m \in Nat /\ i <= k + m /\ k + m <= j /\ k + (m + 1) = (k + m) + 1
        /\ k + m \in i .. (j - 1)
    OBVIOUS
  <2>2. D((k + m) + 1) = D(k + m) * 10 + ByteAt(b, k + m)
    BY <2>1, DecimalNext
  <2>3. D(k) \in Nat /\ D(k + m) \in Nat /\ ByteAt(b, k + m) \in Nat
    BY <1>1, <2>1 DEF Digit
  <2>4. D(k) <= D(k + m)
    BY <1>3, <2>1
  <2> HIDE DEF D
  <2> QED BY <2>1, <2>2, <2>3, <2>4
<1>4. \A m \in Nat : m \in S
  <2> HIDE DEF S
  <2> QED BY <1>2, <1>3, Induction
<1>5. j - k \in Nat /\ k + (j - k) = j
  OBVIOUS
<1> QED BY <1>4, <1>5

LEMMA RoomForDigit ==
    ASSUME NEW b, NEW i \in Nat, NEW k \in Nat, NEW j \in Nat, i <= k, k < j,
           \A x \in i .. (j - 1) : IsDigit(ByteAt(b, x)),
           Representable(Decimal(b, i, j))
    PROVE  ~Saturated(Decimal(b, i, k))
<1> DEFINE d == Decimal(b, i, k)
           c == ByteAt(b, k)
           w == Decimal(b, i, j)
<1>1. \A x \in i .. (j - 1) : ByteAt(b, x) \in Digit
  BY DEF IsDigit
<1>2. d \in Nat /\ w \in Nat /\ c \in Nat
  <2>1. \A x \in i .. (k - 1) : ByteAt(b, x) \in Digit
    BY <1>1
  <2> QED BY <1>1, <2>1, DecimalNat DEF Digit
<1>3. Decimal(b, i, k + 1) = d * 10 + c
  BY DecimalNext
<1>4. d * 10 + c <= w
  <2>1. k + 1 \in Nat /\ i <= k + 1 /\ k + 1 <= j
    OBVIOUS
  <2> QED BY <1>1, <1>3, <2>1, DecimalGrows
<1> HIDE DEF d, c, w
<1>5. d <= w \div 10
  BY <1>2, <1>4
<1>6. ~ (w \div 10 > (UINT32_MAX - 9) \div 10)
  BY DEF Representable, Saturated, w
<1>7. (UINT32_MAX - 9) \div 10 \in Int /\ w \div 10 \in Int
  BY <1>2, WidthAssumption
<1>8. ~ (d > (UINT32_MAX - 9) \div 10)
  BY <1>2, <1>5, <1>6, <1>7
<1> QED BY <1>8 DEF Saturated, d

(* Inside the tag of a field there is room for its next digit, and its '=' comes *)
(* when the number is complete.                                             *)
LEMMA TagGoesOn ==
    ASSUME NEW b, NEW e, WellFormedField(b, e), TagRead(b, e),
           e.tag_start \in Nat, e.value_start \in Nat,
           NEW x \in Nat, e.tag_start <= x, x <= e.value_start - 1, ByteAt(b, x) # Equals
    PROVE  /\ x + 1 <= e.value_start - 1 /\ IsDigit(ByteAt(b, x))
           /\ ~Saturated(Decimal(b, e.tag_start, x))
<1>1. Representable(Decimal(b, e.tag_start, e.value_start - 1))
  BY DEF TagRead, NumberRead
<1>2. /\ ByteAt(b, e.value_start - 1) = Equals
      /\ \A k \in e.tag_start .. (e.value_start - 2) : IsDigit(ByteAt(b, k))
  BY DEF WellFormedField
<1>3. x < e.value_start - 1
  BY <1>2
<1>4. /\ x \in e.tag_start .. (e.value_start - 2) /\ e.value_start - 1 \in Nat
      /\ (e.value_start - 1) - 1 = e.value_start - 2
  BY <1>3
<1>5. ~Saturated(Decimal(b, e.tag_start, x))
  <2> HIDE DEF IsDigit
  <2> QED BY <1>1, <1>2, <1>3, <1>4, RoomForDigit
<1> QED BY <1>2, <1>3, <1>4, <1>5

LEMMA TagIsOver ==
    ASSUME NEW b, NEW e, WellFormedField(b, e), TagRead(b, e),
           e.tag_start \in Nat, e.value_start \in Nat,
           NEW x \in Nat, e.tag_start <= x, x <= e.value_start - 1, ByteAt(b, x) = Equals
    PROVE  /\ x = e.value_start - 1 /\ x # e.tag_start
           /\ Decimal(b, e.tag_start, x) = e.tag_number
<1>1. e.tag_start < e.value_start - 1
  BY DEF WellFormedField
<1>2. x = e.value_start - 1
  <2> SUFFICES ASSUME x < e.value_start - 1 PROVE FALSE
    OBVIOUS
  <2>1. x \in e.tag_start .. (e.value_start - 2)
    OBVIOUS
  <2> QED BY <2>1 DEF WellFormedField, IsDigit, Digit, Equals
<1> QED BY <1>1, <1>2 DEF TagRead, NumberRead

(* The fields start one after the other.                                      *)
LEMMA StartsAscend ==
    ASSUME NEW b, NEW o, Piecewise(b, o),
           NEW k \in 0 .. (o.field_count - 1), NEW l \in 0 .. (o.field_count - 1), k < l
    PROVE  o.fields[k].tag_start < o.fields[l].tag_start
<1>1. /\ o.field_count \in Nat /\ l \in 1 .. (o.field_count - 1)
      /\ l - 1 \in 0 .. (o.field_count - 1) /\ (k = l - 1 \/ k < l - 1)
  BY DEF Piecewise
<1>2. /\ o.fields[l].tag_start = o.fields[l - 1].value_end + 1
      /\ o.fields[l - 1].value_end \in Nat
      /\ o.fields[k].tag_start \in Nat /\ o.fields[k].value_start \in Nat
      /\ o.fields[k].value_end \in Nat /\ WellFormedField(b, o.fields[k])
  BY <1>1 DEF Piecewise
<1>3. o.fields[k].tag_start < o.fields[k].value_end
  BY <1>2 DEF WellFormedField
<1>4. CASE k = l - 1
  BY <1>2, <1>3, <1>4
<1>5. CASE k < l - 1
  <2>1. o.fields[k].value_end < o.fields[l - 1].value_end
    BY <1>1, <1>5, EndsAscend
  <2> QED BY <1>2, <1>3, <2>1
<1> QED BY <1>1, <1>4, <1>5

-----------------------------------------------------------------------------
(* A frame is a matter of its own bytes: it is the same one in every buffer that *)
(* begins with them, and the only one there.                                 *)

(* Two buffers with the same first n bytes.                                   *)
Alike(b, c, n) ==
    /\ n \in Nat /\ n <= Len(b) /\ n <= Len(c)
    /\ \A k \in 0 .. (n - 1) : ByteAt(b, k) = ByteAt(c, k)

(* Digits, literals, fields and numbers in the common part are the same.       *)
LEMMA AlikeNumber ==
    ASSUME NEW b, NEW c, NEW n, Alike(b, c, n), NEW i \in Nat, NEW j \in Nat, i <= j, j <= n
    PROVE  Decimal(b, i, j) = Decimal(c, i, j)
<1>1. \A k \in i .. (j - 1) : ByteAt(b, k) = ByteAt(c, k)
  BY DEF Alike
<1> QED BY <1>1, DecimalSame

LEMMA AlikeLiteral ==
    ASSUME NEW b, NEW c, NEW n, Alike(b, c, n), NEW i \in Nat, NEW lit, Len(lit) \in Nat,
           i + Len(lit) <= n, Len(c) \in Nat, HasLiteral(b, i, lit)
    PROVE  HasLiteral(c, i, lit)
<1>1. ASSUME NEW k \in 1 .. Len(lit) PROVE c[i + k] = lit[k]
  <2>1. i + k - 1 \in 0 .. (n - 1) /\ (i + k - 1) + 1 = i + k
    BY DEF Alike
  <2>2. ByteAt(b, i + k - 1) = ByteAt(c, i + k - 1)
    BY <2>1 DEF Alike
  <2> QED BY <2>1, <2>2 DEF HasLiteral, ByteAt
<1> QED BY <1>1 DEF HasLiteral, Alike

LEMMA AlikeField ==
    ASSUME NEW b, NEW c, NEW n, Alike(b, c, n), Len(b) \in Nat, Len(c) \in Nat, NEW e,
           e.tag_start \in Nat, e.value_start \in Nat, e.value_end \in Nat,
           e.value_end < n, WellFormedField(b, e), TagRead(b, e)
    PROVE  WellFormedField(c, e) /\ TagRead(c, e)
<1>1. \A k \in e.tag_start .. e.value_end : ByteAt(b, k) = ByteAt(c, k)
  BY DEF Alike
<1>2. e.tag_start < e.value_start - 1 /\ e.value_start <= e.value_end /\ e.value_end < Len(c)
  BY DEF WellFormedField, Alike
<1>3. /\ \A k \in e.tag_start .. (e.value_start - 2) : ByteAt(b, k) = ByteAt(c, k)
      /\ \A k \in e.value_start .. (e.value_end - 1) : ByteAt(b, k) = ByteAt(c, k)
      /\ ByteAt(b, e.value_start - 1) = ByteAt(c, e.value_start - 1)
      /\ ByteAt(b, e.value_end) = ByteAt(c, e.value_end)
  BY <1>1, <1>2
<1>4. WellFormedField(c, e)
  BY <1>2, <1>3 DEF WellFormedField
<1>5. Decimal(b, e.tag_start, e.value_start - 1) = Decimal(c, e.tag_start, e.value_start - 1)
  <2>1. e.value_start - 1 \in Nat /\ e.tag_start <= e.value_start - 1 /\ e.value_start - 1 <= n
    BY <1>2 DEF Alike
  <2> QED BY <2>1, AlikeNumber
<1> QED BY <1>4, <1>5 DEF TagRead, NumberRead

LEMMA AlikeFrame ==
    ASSUME NEW b \in Seq(Byte), NEW c \in Seq(Byte), NEW o, Whole(b, o),
           Alike(b, c, o.frame_length)
    PROVE  Whole(c, o)
<1> DEFINE n == o.field_count
           e(k) == o.fields[k]
           L == o.frame_length
<1>1. /\ Piecewise(b, o) /\ \A k \in 0 .. (n - 1) : TagRead(b, e(k))
      /\ LengthRead(b, o) /\ Spelled(o)
  BY DEF Whole
<1>2. /\ L \in Nat /\ 1 <= L /\ L <= Len(b) /\ \A k \in 0 .. (n - 1) : e(k).value_end < L
      /\ Len(b) \in Nat /\ Len(c) \in Nat
  BY <1>1, FrameBytes
<1>3. n \in Nat /\ n >= 4
  BY <1>1 DEF Piecewise
<1>4. \A k \in 0 .. (n - 1) :
         /\ e(k).tag_start \in Nat /\ e(k).value_start \in Nat /\ e(k).value_end \in Nat
         /\ WellFormedField(b, e(k)) /\ TagRead(b, e(k)) /\ e(k).value_end < L
  BY <1>1, <1>2 DEF Piecewise
<1> HIDE DEF e, L
<1>5. Alike(b, c, L)
  BY DEF L
<1>6. \A k \in 0 .. (n - 1) : WellFormedField(c, e(k)) /\ TagRead(c, e(k))
  BY <1>2, <1>4, <1>5, AlikeField
<1>7. Piecewise(c, o)
  BY <1>1, <1>6 DEF Piecewise, e
<1>8. LengthRead(c, o)
  <2>0. 1 \in 0 .. (n - 1)
    BY <1>3
  <2>1. /\ e(1).value_start \in Nat /\ e(1).value_end \in Nat /\ e(1).value_end < L
        /\ Numeral(b, e(1).value_start, e(1).value_end)
    BY <1>1, <1>4, <2>0 DEF LengthRead, e
  <2>2. /\ e(1).value_start < e(1).value_end
        /\ \A k \in e(1).value_start .. (e(1).value_end - 1) : IsDigit(ByteAt(b, k))
    BY <2>1 DEF Numeral
  <2>3. Decimal(b, e(1).value_start, e(1).value_end) = Decimal(c, e(1).value_start, e(1).value_end)
    BY <1>2, <1>5, <2>1, <2>2, AlikeNumber
  <2>4. \A k \in e(1).value_start .. (e(1).value_end - 1) : ByteAt(b, k) = ByteAt(c, k)
    BY <1>2, <1>5, <2>1 DEF Alike
  <2>5. Numeral(c, e(1).value_start, e(1).value_end)
    BY <2>2, <2>4 DEF Numeral
  <2> QED BY <1>1, <2>3, <2>5 DEF LengthRead, NumberRead, e
<1>9. /\ HasLiteral(c, 0, <<8, Equals>>)
      /\ HasLiteral(c, e(1).tag_start, <<9, Equals>>)
      /\ HasLiteral(c, e(2).tag_start, <<3, 5, Equals>>)
  <2>1. /\ HasLiteral(b, 0, <<8, Equals>>)
        /\ HasLiteral(b, e(1).tag_start, <<9, Equals>>)
        /\ HasLiteral(b, e(2).tag_start, <<3, 5, Equals>>)
    BY DEF Whole, e
  <2>2. 0 \in 0 .. (n - 1) /\ 1 \in 0 .. (n - 1) /\ 2 \in 0 .. (n - 1) /\ e(0).tag_start = 0
    BY <1>1, <1>3 DEF Piecewise, e
  <2>3. /\ e(0).value_start = e(0).tag_start + 2 /\ e(1).value_start = e(1).tag_start + 2
        /\ e(2).value_start = e(2).tag_start + 3
    BY <1>1 DEF Spelled, e
  <2>4. \A k \in 0 .. (n - 1) : e(k).value_start <= L
    BY <1>2, <1>4 DEF WellFormedField
  <2>5. /\ Len(<<8, Equals>>) = 2 /\ Len(<<9, Equals>>) = 2 /\ Len(<<3, 5, Equals>>) = 3
        /\ 2 \in Nat /\ 3 \in Nat
    OBVIOUS
  <2>6. /\ 0 + 2 <= L /\ e(1).tag_start + 2 <= L /\ e(2).tag_start + 3 <= L
        /\ 0 \in Nat /\ e(1).tag_start \in Nat /\ e(2).tag_start \in Nat
    BY <1>4, <2>2, <2>3, <2>4
  <2>7. HasLiteral(c, 0, <<8, Equals>>)
    BY <1>2, <1>5, <2>1, <2>5, <2>6, AlikeLiteral
  <2>8. HasLiteral(c, e(1).tag_start, <<9, Equals>>)
    BY <1>2, <1>5, <2>1, <2>5, <2>6, AlikeLiteral
  <2>9. HasLiteral(c, e(2).tag_start, <<3, 5, Equals>>)
    BY <1>2, <1>5, <2>1, <2>5, <2>6, AlikeLiteral
  <2> QED BY <2>7, <2>8, <2>9
<1>10. \A k \in e(n - 1).value_start .. (e(n - 1).value_end - 1) : IsDigit(ByteAt(c, k))
  <2>1. n - 1 \in 0 .. (n - 1)
    BY <1>3
  <2>2. /\ e(n - 1).value_start \in Nat /\ e(n - 1).value_end \in Nat /\ e(n - 1).value_end < L
        /\ \A k \in e(n - 1).value_start .. (e(n - 1).value_end - 1) : IsDigit(ByteAt(b, k))
    BY <1>4, <2>1 DEF Whole, e
  <2>3. \A k \in e(n - 1).value_start .. (e(n - 1).value_end - 1) : ByteAt(b, k) = ByteAt(c, k)
    BY <1>2, <1>5, <2>2 DEF Alike
  <2> QED BY <2>2, <2>3
<1> QED BY <1>1, <1>6, <1>7, <1>8, <1>9, <1>10 DEF Whole, e

(* A field is determined by where it starts.                                  *)
LEMMA SameField ==
    ASSUME NEW b, NEW d, NEW e, Len(b) \in Nat,
           d.tag_start \in Nat, d.value_start \in Nat, d.value_end \in Nat,
           e.tag_start \in Nat, e.value_start \in Nat, e.value_end \in Nat,
           WellFormedField(b, d), WellFormedField(b, e), TagRead(b, d), TagRead(b, e),
           d.tag_start = e.tag_start
    PROVE  /\ d.value_start = e.value_start /\ d.value_end = e.value_end
           /\ d.tag_number = e.tag_number
<1>1. d.value_start = e.value_start
  <2>1. /\ e.value_start - 1 \in Nat /\ d.tag_start <= e.value_start - 1
        /\ ByteAt(b, e.value_start - 1) = Equals
        /\ \A k \in d.tag_start .. ((e.value_start - 1) - 1) : IsDigit(ByteAt(b, k))
    BY DEF WellFormedField
  <2>2. d.value_start = (e.value_start - 1) + 1
    BY <2>1, TagStops
  <2> QED BY <2>2
<1>2. d.value_end = e.value_end
  <2>1. /\ e.value_end \in d.value_start .. Len(b) /\ e.value_end < Len(b)
        /\ ByteAt(b, e.value_end) = Soh
        /\ \A k \in d.value_start .. (e.value_end - 1) : ByteAt(b, k) # Soh
    BY <1>1 DEF WellFormedField
  <2>2. StopsAt(b, d.value_start, e.value_end)
    BY <2>1 DEF StopsAt
  <2> QED BY <2>1, <2>2, ValueStops
<1>3. d.tag_number = e.tag_number
  BY <1>1 DEF TagRead, NumberRead
<1> QED BY <1>1, <1>2, <1>3

LEMMA SameFields ==
    ASSUME NEW b \in Seq(Byte), NEW o, NEW r, Whole(b, o), Whole(b, r),
           NEW m \in Nat, m < o.field_count, m < r.field_count
    PROVE  /\ o.fields[m].tag_start = r.fields[m].tag_start
           /\ o.fields[m].value_start = r.fields[m].value_start
           /\ o.fields[m].value_end = r.fields[m].value_end
           /\ o.fields[m].tag_number = r.fields[m].tag_number
<1> DEFINE d(k) == o.fields[k]
           e(k) == r.fields[k]
           Same(k) == /\ d(k).tag_start = e(k).tag_start /\ d(k).value_start = e(k).value_start
                      /\ d(k).value_end = e(k).value_end /\ d(k).tag_number = e(k).tag_number
           S == {k \in Nat : k < o.field_count /\ k < r.field_count => Same(k)}
<1>1. /\ Piecewise(b, o) /\ Piecewise(b, r) /\ Len(b) \in Nat
      /\ o.field_count \in Nat /\ r.field_count \in Nat
  BY DEF Whole, Piecewise
<1>2. ASSUME NEW k \in Nat, k < o.field_count, k < r.field_count, d(k).tag_start = e(k).tag_start
      PROVE  Same(k)
  <2>0. k \in 0 .. (o.field_count - 1) /\ k \in 0 .. (r.field_count - 1)
    BY <1>1, <1>2
  <2>1. /\ d(k).tag_start \in Nat /\ d(k).value_start \in Nat /\ d(k).value_end \in Nat
        /\ WellFormedField(b, d(k)) /\ TagRead(b, d(k))
    BY <2>0 DEF Whole, Piecewise
  <2>2. /\ e(k).tag_start \in Nat /\ e(k).value_start \in Nat /\ e(k).value_end \in Nat
        /\ WellFormedField(b, e(k)) /\ TagRead(b, e(k))
    BY <2>0 DEF Whole, Piecewise
  <2> HIDE DEF d, e
  <2> QED BY <1>1, <1>2, <2>1, <2>2, SameField
<1>3. 0 \in S
  <2>1. d(0).tag_start = e(0).tag_start
    BY <1>1 DEF Piecewise
  <2> HIDE DEF d, e, Same
  <2> QED BY <1>2, <2>1
<1>4. ASSUME NEW k \in Nat, k \in S PROVE k + 1 \in S
  <2> SUFFICES ASSUME k + 1 < o.field_count, k + 1 < r.field_count PROVE Same(k + 1)
    OBVIOUS
  <2>1. /\ k + 1 \in 1 .. (o.field_count - 1) /\ k + 1 \in 1 .. (r.field_count - 1)
        /\ (k + 1) - 1 = k /\ k < o.field_count /\ k < r.field_count /\ k + 1 \in Nat
    BY <1>1
  <2>2. d(k).value_end = e(k).value_end
    BY <1>4, <2>1
  <2>3. d(k + 1).tag_start = d(k).value_end + 1 /\ e(k + 1).tag_start = e(k).value_end + 1
    <3>1. d(k + 1).tag_start = d((k + 1) - 1).value_end + 1
          /\ e(k + 1).tag_start = e((k + 1) - 1).value_end + 1
      BY <1>1, <2>1 DEF Piecewise
    <3> QED BY <2>1, <3>1
  <2> HIDE DEF d, e, Same
  <2> QED BY <1>2, <2>1, <2>2, <2>3
<1>5. \A k \in Nat : k \in S
  <2> HIDE DEF S
  <2> QED BY <1>3, <1>4, Induction
<1> QED BY <1>5

(* A buffer begins with one frame at most.                                    *)
LEMMA NotShorter ==
    ASSUME NEW b \in Seq(Byte), NEW o, NEW r, Whole(b, o), Whole(b, r)
    PROVE  /\ ~ (o.field_count < r.field_count)
           /\ o.declared_body_length = r.declared_body_length
<1> DEFINE n == o.field_count
           m == r.field_count
<1>1. /\ Piecewise(b, o) /\ Piecewise(b, r) /\ n \in Nat /\ m \in Nat /\ n >= 4 /\ m >= 4
      /\ 1 < n /\ 1 < m
  BY DEF Whole, Piecewise
<1>2. /\ o.fields[1].value_start = r.fields[1].value_start
      /\ o.fields[1].value_end = r.fields[1].value_end
  BY <1>1, SameFields
<1>3. o.declared_body_length = r.declared_body_length
  BY <1>2 DEF Whole, LengthRead, NumberRead
<1>4. o.fields[n - 1].tag_start = r.fields[m - 1].tag_start
  BY <1>2, <1>3 DEF Whole
<1>5. ASSUME n < m PROVE FALSE
  <2>1. /\ n - 1 \in Nat /\ n - 1 < n /\ n - 1 < m
        /\ n - 1 \in 0 .. (m - 1) /\ m - 1 \in 0 .. (m - 1) /\ n - 1 < m - 1
    BY <1>1, <1>5
  <2>2. o.fields[n - 1].tag_start = r.fields[n - 1].tag_start
    BY <2>1, SameFields
  <2>3. r.fields[n - 1].tag_start < r.fields[m - 1].tag_start
    BY <1>1, <2>1, StartsAscend
  <2>4. r.fields[m - 1].tag_start \in Nat
    BY <1>1, <2>1 DEF Piecewise
  <2> QED BY <1>4, <2>2, <2>3, <2>4
<1> QED BY <1>3, <1>5

(* The shape of an index of the reference.                                    *)
FrameShape(o) ==
    LET n == o.field_count
    IN  o = [begin_string_idx |-> 0, body_length_idx |-> 1, msg_type_idx |-> 2,
             checksum_idx |-> n - 1, declared_body_length |-> o.declared_body_length,
             frame_length |-> o.frame_length, field_count |-> n,
             fields |-> [k \in 0 .. (n - 1) |->
                            [tag_start |-> o.fields[k].tag_start,
                             value_start |-> o.fields[k].value_start,
                             value_end |-> o.fields[k].value_end,
                             tag_number |-> o.fields[k].tag_number]]]

LEMMA FrameHasShape ==
    ASSUME NEW b, NEW o \in FrameIndices(b)
    PROVE  FrameShape(o)
<1>1. PICK n \in 4 .. kMaxFields : o = CutIndex(b, SohOffsets(b), n)
  BY DEF FrameIndices
<1> DEFINE ends == SohOffsets(b)
           start(k) == PieceStart(ends, k)
           value(k) == Min(EqualsIn(b, ends, k)) + 1
           Piece(k) == Entry(start(k), value(k), ends[k], Decimal(b, start(k), value(k) - 1))
           L == Decimal(b, Piece(2).value_start, Piece(2).value_end)
<1>2. o = [begin_string_idx |-> 0, body_length_idx |-> 1, msg_type_idx |-> 2,
           checksum_idx |-> n - 1, declared_body_length |-> L,
           frame_length |-> ends[n] + 1, field_count |-> n,
           fields |-> [k \in 0 .. (n - 1) |-> Piece(k + 1)]]
  BY <1>1 DEF CutIndex
<1>3. \A k \in 0 .. (n - 1) :
         Piece(k + 1) = [tag_start |-> Piece(k + 1).tag_start,
                         value_start |-> Piece(k + 1).value_start,
                         value_end |-> Piece(k + 1).value_end,
                         tag_number |-> Piece(k + 1).tag_number]
  <2> HIDE DEF ends, start, value
  <2> QED BY DEF Entry
<1> HIDE DEF Piece, L, ends
<1>4. o.fields = [k \in 0 .. (n - 1) |-> Piece(k + 1)] /\ o.field_count = n
  BY <1>2
<1>5. o.fields = [k \in 0 .. (n - 1) |->
                    [tag_start |-> o.fields[k].tag_start,
                     value_start |-> o.fields[k].value_start,
                     value_end |-> o.fields[k].value_end,
                     tag_number |-> o.fields[k].tag_number]]
  BY <1>3, <1>4
<1> QED BY <1>2, <1>4, <1>5 DEF FrameShape

LEMMA FrameIsUnique ==
    ASSUME NEW b \in Seq(Byte), NEW o, NEW r, Whole(b, o), Whole(b, r),
           FrameShape(o), FrameShape(r)
    PROVE  o = r
<1> DEFINE n == o.field_count
<1>1. n = r.field_count /\ n \in Nat /\ n >= 4
  <2>1. n \in Nat /\ r.field_count \in Nat /\ n >= 4
    BY DEF Whole, Piecewise
  <2>2. ~ (n < r.field_count) /\ ~ (r.field_count < n)
    BY NotShorter
  <2> QED BY <2>1, <2>2
<1>2. o.declared_body_length = r.declared_body_length
  BY NotShorter
<1>3. \A k \in 0 .. (n - 1) :
          /\ o.fields[k].tag_start = r.fields[k].tag_start
          /\ o.fields[k].value_start = r.fields[k].value_start
          /\ o.fields[k].value_end = r.fields[k].value_end
          /\ o.fields[k].tag_number = r.fields[k].tag_number
  <2> TAKE k \in 0 .. (n - 1)
  <2>1. k \in Nat /\ k < o.field_count /\ k < r.field_count
    BY <1>1
  <2> QED BY <2>1, SameFields
<1>4. o.frame_length = r.frame_length
  <2>1. n - 1 \in 0 .. (n - 1)
    BY <1>1
  <2>2. /\ o.frame_length = o.fields[n - 1].value_end + 1
        /\ r.frame_length = r.fields[r.field_count - 1].value_end + 1
    BY DEF Whole, Piecewise
  <2> QED BY <1>1, <1>3, <2>1, <2>2
<1> QED BY <1>1, <1>2, <1>3, <1>4 DEF FrameShape

-----------------------------------------------------------------------------
LEMMA SpanOfPrefix ==
    ASSUME NEW b \in Seq(Byte), NEW l \in 0 .. Len(b), NEW i \in Nat, NEW j \in Nat,
           1 <= i, j <= l
    PROVE  SubSeq(SubSeq(b, 1, l), i, j) = SubSeq(b, i, j)
<1> DEFINE f == SubSeq(b, 1, l)
<1>1. f \in Seq(Byte) /\ Len(f) = l /\ \A x \in 1 .. l : f[x] = b[x]
  OBVIOUS
<1>2. \A x \in i .. j : f[x] \in Byte /\ b[x] \in Byte /\ f[x] = b[x]
  BY <1>1
<1> HIDE DEF f
<1>3. /\ SubSeq(f, i, j) \in Seq(Byte) /\ SubSeq(b, i, j) \in Seq(Byte)
      /\ Len(SubSeq(f, i, j)) = IF i <= j THEN j - i + 1 ELSE 0
      /\ Len(SubSeq(b, i, j)) = IF i <= j THEN j - i + 1 ELSE 0
      /\ \A x \in 1 .. (j - i + 1) : SubSeq(f, i, j)[x] = f[i + x - 1]
      /\ \A x \in 1 .. (j - i + 1) : SubSeq(b, i, j)[x] = b[i + x - 1]
  BY <1>2, SubSeqProperties
<1>4. \A x \in 1 .. Len(SubSeq(f, i, j)) : SubSeq(f, i, j)[x] = SubSeq(b, i, j)[x]
  <2>1. ASSUME NEW x \in 1 .. Len(SubSeq(f, i, j)) PROVE SubSeq(f, i, j)[x] = SubSeq(b, i, j)[x]
    <3>1. i <= j /\ x \in 1 .. (j - i + 1) /\ i + x - 1 \in i .. j
      BY <1>3
    <3> QED BY <1>2, <1>3, <3>1
  <2> QED BY <2>1
<1> QED BY <1>3, <1>4, SeqEqual DEF f
=============================================================================
