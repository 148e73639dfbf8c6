------------------------------ MODULE MCScalar ------------------------------
(***************************************************************************)
(* The scalar scanner and its caller.                                       *)
(***************************************************************************)
EXTENDS ScalarCaller, FrameSamples

(* status.hpp on Truncated: the bytes so far are consistent with a frame in   *)
(* progress.  A body that ends inside the buffer ends with a <SOH>.          *)
TruncatedIsInProgress ==
    Finished /\ status = "Truncated" /\ bodyEnd > 0
        => ByteAt(buf, bodyEnd - 1) = Soh

-----------------------------------------------------------------------------
(* Frames around the largest offset: the declared length fits its type, the  *)
(* whole frame may not.                                                     *)
LongFrame(n) ==
    BeginString \o BodyLength(<<n \div 100, (n \div 10) % 10, n % 10>>)
    \o <<3, 5, Equals>> \o [k \in 1 .. (n - 4) |-> Other] \o <<Soh>> \o CheckSum

LongBuffers == {LongFrame(n) : n \in 95 .. 119}

NoBuffers == {}

(* field_index.hpp: 32-bit offsets cap the size of a single message.  So a    *)
(* frame that was accepted ends within their range.                         *)
FrameWithinCap == Finished /\ status = "Ok" => p <= UINT32_MAX
=============================================================================
