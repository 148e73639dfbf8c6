---------------------------- MODULE ParseService ----------------------------
(***************************************************************************)
(* What SessionShim::parse_into promises (integration/shim/include/          *)
(* swiftfix/quickfix_shim.hpp): the flag is consulted once; only then, and    *)
(* only for a buffer that begins with a frame free of groups, the answer is    *)
(* the message of that frame; in all other cases it is stock QuickFIX's of    *)
(* the whole buffer.  There is no index, no scratch array and no statistic    *)
(* here, a parser is a single step, and a session has no state in common with *)
(* another but the flag and the heap.                                        *)
(***************************************************************************)
EXTENDS PreScanMessage

CONSTANTS
    Sessions,
    GroupCounters    \* the tags that send a frame to stock QuickFIX

VARIABLES
    enabled,     \* the flag
    exhausted,   \* the heap is, so that an allocation may throw
    phase,       \* of each session: where its call stands
    bytes,       \* what it was called with
    answer       \* the message it may use, none during a call and after FALSE

vars == <<enabled, exhausted, phase, bytes, answer>>

NoMessage == [none |-> TRUE]

(* The frame that the fast path may take, of none or one that b begins with.  *)
(* It must take it if the scanners agree, whichever runs.                     *)
Fast(b) ==
    {o \in FrameIndices(b) :
        \A k \in 0 .. (o.field_count - 1) : o.fields[k].tag_number \notin GroupCounters}

FastForAll(b) ==
    {o \in Fast(b) : HasLiteral(b, o.fields[o.checksum_idx].tag_start, <<1, 0, Equals>>)}

Init ==
    /\ enabled = FALSE /\ exhausted = FALSE
    /\ phase = [s \in Sessions |-> "idle"]
    /\ bytes = [s \in Sessions |-> << >>]
    /\ answer = [s \in Sessions |-> NoMessage]

(* The flag is switched; memory runs out, or is there again.                  *)
Environment ==
    /\ \/ enabled' \in BOOLEAN /\ UNCHANGED exhausted
       \/ exhausted' \in BOOLEAN /\ UNCHANGED enabled
    /\ UNCHANGED <<phase, bytes, answer>>

-----------------------------------------------------------------------------
Begin(s) ==
    /\ phase[s] = "idle"
    /\ phase' = [phase EXCEPT ![s] = "called"]
    /\ bytes'[s] \in Seq(Byte)
    /\ bytes' = [bytes EXCEPT ![s] = bytes'[s]]
    /\ answer' = [answer EXCEPT ![s] = NoMessage]
    /\ UNCHANGED <<enabled, exhausted>>

Enter(s, from, to) ==
    /\ phase[s] = from
    /\ phase' = [phase EXCEPT ![s] = to]
    /\ UNCHANGED <<enabled, exhausted, bytes, answer>>

Consult(s) == Enter(s, "called", IF enabled THEN "attempting" ELSE "whole")

Find(s) ==
    \/ Fast(bytes[s]) # {} /\ Enter(s, "attempting", "frame")
    \/ FastForAll(bytes[s]) = {} /\ Enter(s, "attempting", "whole")

(* A frame that can be taken is given up for lack of memory alone.            *)
Forgo(s) == exhausted /\ Enter(s, "frame", "whole")

Answer(s, from, m) ==
    /\ phase[s] = from
    /\ phase' = [phase EXCEPT ![s] = "idle"]
    /\ answer' = [answer EXCEPT ![s] = m]
    /\ UNCHANGED <<enabled, exhausted, bytes>>

AnswerFrame(s) ==
    \E o \in Fast(bytes[s]) :
        Answer(s, "frame", Parsed(SubSeq(bytes[s], 1, o.frame_length)))

AnswerWhole(s) == CanExtract(bytes[s]) /\ Answer(s, "whole", Parsed(bytes[s]))

Fail(s) == (~CanExtract(bytes[s]) \/ exhausted) /\ Answer(s, "whole", NoMessage)

-----------------------------------------------------------------------------
Next ==
    \/ Environment
    \/ \E s \in Sessions :
        \/ Begin(s) \/ Consult(s) \/ Find(s) \/ Forgo(s)
        \/ AnswerFrame(s) \/ AnswerWhole(s) \/ Fail(s)

Spec == Init /\ [][Next]_vars
=============================================================================
