--------------------------- MODULE RetryingCaller ---------------------------
(***************************************************************************)
(* A caller of scan() with one FieldIndex.  It passes on a stream that       *)
(* arrives piece by piece and calls again on the longer buffer, as           *)
(* status.hpp describes; it keeps asking after a verdict, so that verdicts    *)
(* on a buffer and on its extensions can be compared.  Or it passes one       *)
(* unrelated buffer after the other.                                        *)
(***************************************************************************)
EXTENDS FixHeader

CONSTANTS
    Streams,   \* the byte streams that may arrive
    Handed,    \* the buffers of a caller that has them at hand
    Chunk      \* how many bytes arrive between two calls

ASSUME CallerAssumption ==
    Streams \subseteq Seq(Byte) /\ Handed \subseteq Seq(Byte) /\ Chunk \in Nat \ {0}

VARIABLES
    stream,    \* what arrives in this run
    prior      \* the verdict of the call before, and what could be read of `out`

callerVars == <<stream, prior>>

Prefix(n) == SubSeq(stream, 1, IF n < Len(stream) THEN n ELSE Len(stream))

NoPrior == [status |-> "None", index |-> NoIndex]

CallerInit == stream \in Streams \cup Handed /\ prior = NoPrior

Offer ==
    /\ pc = "idle"
    /\ Len(buf) < Len(stream)
    /\ Call(Prefix(Len(buf) + Chunk))
    /\ prior' = [status |-> status, index |-> Readable(out)]
    /\ UNCHANGED stream

(* A caller with buffers at hand turns to another one at any time.           *)
Hand(b) ==
    /\ stream \in Handed
    /\ Call(b)
    /\ stream' = b
    /\ prior' = NoPrior

Caller == Offer \/ \E b \in Handed : Hand(b)

-----------------------------------------------------------------------------
(* status.hpp: only Truncated asks for more bytes.  Any other verdict must   *)
(* stand however many bytes follow, and an Ok must describe the same frame.  *)
VerdictStands ==
    (Finished /\ prior.status \notin {"None", "Truncated"})
        => /\ status = prior.status
           /\ status = "Ok" => Readable(out) = prior.index
=============================================================================
