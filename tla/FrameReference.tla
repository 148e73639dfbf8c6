--------------------------- MODULE FrameReference ---------------------------
(***************************************************************************)
(* A second definition of a frame, which neither scanner computes with: cut *)
(* the buffer at its first n <SOH>s, split each piece at its first '=', and *)
(* ask whether the index so obtained is exact.                              *)
(***************************************************************************)
EXTENDS FixFrame, FiniteSetsExt

(* The elements of s at the positions in K, in their order.                  *)
ElementsAt(s, K) ==
    LET upTo[n \in 0 .. Len(s)] ==
            IF n = 0 THEN << >>
            ELSE IF n \in K THEN Append(upTo[n - 1], s[n]) ELSE upTo[n - 1]
    IN  upTo[Len(s)]

SohOffsets(b) ==
    ElementsAt([i \in 1 .. Len(b) |-> i - 1], {i \in 1 .. Len(b) : b[i] = Soh})

(* The k-th piece starts after the <SOH> of the piece before it.            *)
PieceStart(ends, k) == IF k = 1 THEN 0 ELSE ends[k - 1] + 1

EqualsIn(b, ends, k) == {i \in PieceStart(ends, k) .. ends[k] : ByteAt(b, i) = Equals}

(* The numbers an accumulator accepts; those are not quite all of UInt32.   *)
Representable(n) == ~Saturated(n \div 10)

CutIndex(b, ends, n) ==
    LET Piece(k) == LET start == PieceStart(ends, k)
                        value == Min(EqualsIn(b, ends, k)) + 1
                    IN  Entry(start, value, ends[k], Decimal(b, start, value - 1))
        length == Piece(2)
    IN  [begin_string_idx |-> 0, body_length_idx |-> 1, msg_type_idx |-> 2,
         checksum_idx |-> n - 1,
         declared_body_length |-> Decimal(b, length.value_start, length.value_end),
         frame_length |-> ends[n] + 1,
         field_count |-> n,
         fields |-> [k \in 0 .. (n - 1) |-> Piece(k + 1)]]

(* The indices that delimit a frame at the start of b: one or none.         *)
FrameIndices(b) ==
    LET ends == SohOffsets(b)
        CanCut(n) == \A k \in 1 .. n : EqualsIn(b, ends, k) # {}
        cuts == {n \in 4 .. kMaxFields : n <= Len(ends) /\ CanCut(n)}
    IN  {o \in {CutIndex(b, ends, n) : n \in cuts} :
            /\ ExactIndex(b, o)
            /\ Representable(o.declared_body_length)
            /\ \A k \in 0 .. (o.field_count - 1) : Representable(o.fields[k].tag_number)
            /\ HasLiteral(b, 0, <<8, Equals>>)
            /\ HasLiteral(b, o.fields[1].tag_start, <<9, Equals>>)
            /\ HasLiteral(b, o.fields[2].tag_start, <<3, 5, Equals>>)}
=============================================================================
