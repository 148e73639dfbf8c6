---------------------------- MODULE SessionShim ----------------------------
(***************************************************************************)
(* SessionShim::parse_into (integration/shim/src/quickfix_shim.cpp): each    *)
(* session's thread fills its message from buffer after buffer, by the fast  *)
(* path or by stock QuickFIX, while another thread turns the fast path on    *)
(* and off.  Index, scratch array and statistics belong to the session and   *)
(* are reused; so is the message, if the caller likes.                      *)
(***************************************************************************)
EXTENDS PreScanMessage

CONSTANTS
    Sessions,
    Buffers,     \* what the callers pass
    MaxCalls     \* bound on the calls of a session between two reset_stats()

(* Up to this length the contract of a scanner is known to be exact.          *)
ASSUME ShimAssumption ==
    /\ Buffers \subseteq Seq(Byte) /\ \A b \in Buffers : Len(b) <= UINT32_MAX
    /\ MaxCalls \in Nat

VARIABLES
    enabled,   \* g_preparse_enabled
    exhausted, \* the heap is, so that operator new may throw
    pc,        \* of each session: the statement parse_into executes next
    buffer,    \* its parameter
    idx,       \* idx_
    scratch,   \* scratch_
    built,     \* how many PreScanFields setFromPreScan has consumed
    message,   \* the FIX::Message `out` of the session's caller
    stats,     \* stats_
    calls,     \* calls since the statistics were reset
    result,    \* what the last call returned
    path       \* the parser that returned it: "fast", "stock" or "none"

sessionVars == <<pc, buffer, idx, scratch, built, message, stats, calls, result, path>>
vars == <<enabled, exhausted, sessionVars>>

NoStats == [preparse_attempted |-> 0, preparse_succeeded |-> 0,
            fallback_used |-> 0, parse_failed |-> 0]

(* The outcome of scanning and of parsing each buffer.                       *)
Frames == [b \in Buffers |-> FrameIndices(b)]
Messages == [b \in Buffers |-> IF CanExtract(b) THEN {Parsed(b)} ELSE {}]

NoField == PreScanField(<< >>, 0, 0, 0, 0)

Init ==
    /\ enabled = FALSE /\ exhausted = FALSE
    /\ pc = [s \in Sessions |-> "idle"]
    /\ buffer = [s \in Sessions |-> << >>]
    /\ idx = [s \in Sessions |-> NewIndex]
    /\ scratch = [s \in Sessions |-> [k \in 0 .. (kMaxFields - 1) |-> NoField]]
    /\ built = [s \in Sessions |-> 0]
    /\ message = [s \in Sessions |-> Cleared]
    /\ stats = [s \in Sessions |-> NoStats]
    /\ calls = [s \in Sessions |-> 0]
    /\ result = [s \in Sessions |-> FALSE]
    /\ path = [s \in Sessions |-> "none"]

Goto(s, label) == pc' = [pc EXCEPT ![s] = label]

Incremented(st, counter) == [st EXCEPT ![counter] = @ + 1]

Count(s, counter) == stats' = [stats EXCEPT ![s] = Incremented(@, counter)]

Answer(s, ok, parser) ==
    /\ Goto(s, "idle")
    /\ result' = [result EXCEPT ![s] = ok]
    /\ path' = [path EXCEPT ![s] = parser]

-----------------------------------------------------------------------------
set_preparse_enabled(on) == enabled' = on /\ UNCHANGED <<exhausted, sessionVars>>

(* What else the process allocates and frees.                               *)
HeapChanges == exhausted' = ~exhausted /\ UNCHANGED <<enabled, sessionVars>>

reset_stats(s) ==
    /\ pc[s] = "idle"
    /\ stats' = [stats EXCEPT ![s] = NoStats]
    /\ calls' = [calls EXCEPT ![s] = 0]
    /\ UNCHANGED <<enabled, exhausted, pc, buffer, idx, scratch, built, message,
                   result, path>>

parse_into(s, b) ==
    /\ pc[s] = "idle" /\ calls[s] < MaxCalls
    /\ Goto(s, "flag")
    /\ buffer' = [buffer EXCEPT ![s] = b]
    /\ calls' = [calls EXCEPT ![s] = @ + 1]
    /\ UNCHANGED <<enabled, exhausted, idx, scratch, built, message, stats, result, path>>

(* The flag is read once, whatever becomes of it afterwards.                 *)
ReadFlag(s) ==
    /\ pc[s] = "flag"
    /\ IF enabled
       THEN Goto(s, "scan") /\ Count(s, "preparse_attempted")
       ELSE Goto(s, "stock") /\ UNCHANGED stats
    /\ UNCHANGED <<enabled, exhausted, buffer, idx, scratch, built, message, calls,
                   result, path>>

(* Both scanners accept no buffer but one that begins with a frame, and accept *)
(* that frame; the AVX2 scanner wants its trailer spelled 10= for it.         *)
AcceptedByAll(b, o) == HasLiteral(b, o.fields[o.checksum_idx].tag_start, <<1, 0, Equals>>)

(* default_scanner().scan, with either scanner.  What a scanner that refuses has *)
(* put into the index by then is left out: nobody reads it.                  *)
Scan(s) ==
    /\ pc[s] = "scan"
    /\ \/ /\ \E o \in Frames[buffer[s]] : idx' = [idx EXCEPT ![s] = o]
          /\ Goto(s, "route")
       \/ /\ \A o \in Frames[buffer[s]] : ~AcceptedByAll(buffer[s], o)
          /\ idx' = [idx EXCEPT ![s] = Reset(@)]
          /\ Goto(s, "fallback")
    /\ UNCHANGED <<enabled, exhausted, buffer, scratch, built, message, stats, calls,
                   result, path>>

(* switch (tag) of is_known_group_counter                                    *)
KnownGroupCounter ==
    {33, 73, 78, 85, 124, 135, 146, 232, 267, 268, 295, 296, 382, 386, 453, 454,
     555, 604, 711, 753, 802, 804, 862, 864}

RequiresDictionaryParse(o) ==
    \E k \in 0 .. (o.field_count - 1) : o.fields[k].tag_number \in KnownGroupCounter

(* A faulty route, which scans again what it cannot handle.                  *)
RouteRescan(s) ==
    /\ pc[s] = "route"
    /\ Goto(s, IF RequiresDictionaryParse(idx[s]) THEN "scan" ELSE "translate")
    /\ UNCHANGED <<enabled, exhausted, buffer, idx, scratch, built, message, stats, calls,
                   result, path>>

Route(s) ==
    /\ pc[s] = "route"
    /\ Goto(s, IF RequiresDictionaryParse(idx[s]) THEN "fallback" ELSE "translate")
    /\ UNCHANGED <<enabled, exhausted, buffer, idx, scratch, built, message, stats, calls,
                   result, path>>

(* A faulty loop bound of apply_field_index.                                *)
TranslatedShort(s) ==
    [k \in 0 .. (kMaxFields - 1) |->
        IF k < idx[s].field_count - 1
        THEN LET e == idx[s].fields[k]
             IN  PreScanField(buffer[s], ToInt(e.tag_number), e.tag_start,
                              e.value_start, e.value_end)
        ELSE scratch[s][k]]

(* apply_field_index: offsets become pointers; the rest of the array stays.  *)
Translated(s) ==
    [k \in 0 .. (kMaxFields - 1) |->
        IF k < idx[s].field_count
        THEN LET e == idx[s].fields[k]
             IN  PreScanField(buffer[s], ToInt(e.tag_number), e.tag_start,
                              e.value_start, e.value_end)
        ELSE scratch[s][k]]

(* A faulty setFromPreScan, which does not clear() the message.              *)
TranslateAndKeep(s) ==
    /\ pc[s] = "translate"
    /\ scratch' = [scratch EXCEPT ![s] = Translated(s)]
    /\ built' = [built EXCEPT ![s] = 0]
    /\ Goto(s, "build")
    /\ UNCHANGED <<enabled, exhausted, buffer, idx, message, stats, calls, result, path>>

(* apply_field_index up to the loop of setFromPreScan, which clears first.   *)
Translate(s) ==
    /\ pc[s] = "translate"
    /\ scratch' = [scratch EXCEPT ![s] = Translated(s)]
    /\ message' = [message EXCEPT ![s] = Cleared]
    /\ built' = [built EXCEPT ![s] = 0]
    /\ Goto(s, "build")
    /\ UNCHANGED <<enabled, exhausted, buffer, idx, stats, calls, result, path>>

Build(s) ==
    /\ pc[s] = "build" /\ built[s] < idx[s].field_count
    /\ message' = [message EXCEPT ![s] = AppendField(@, FieldBase(scratch[s][built[s]]))]
    /\ built' = [built EXCEPT ![s] = @ + 1]
    /\ UNCHANGED <<enabled, exhausted, pc, buffer, idx, scratch, stats, calls,
                   result, path>>

(* Each field is copied to the heap, so that each may throw; nothing else      *)
(* makes setFromPreScan fail without validation.                            *)
BuildThrows(s) ==
    /\ pc[s] = "build" /\ built[s] < idx[s].field_count /\ exhausted
    /\ Goto(s, "fallback")
    /\ UNCHANGED <<enabled, exhausted, buffer, idx, scratch, built, message, stats, calls,
                   result, path>>

FastPathSucceeds(s) ==
    /\ pc[s] = "build" /\ built[s] = idx[s].field_count
    /\ message' = [message EXCEPT ![s] = SortFields(@)]
    /\ Count(s, "preparse_succeeded")
    /\ Answer(s, TRUE, "fast")
    /\ UNCHANGED <<enabled, exhausted, buffer, idx, scratch, built, calls>>

(* A faulty fallback, which asks the flag again before it counts.            *)
FallBackIfEnabled(s) ==
    /\ pc[s] = "fallback"
    /\ Goto(s, "stock")
    /\ IF enabled THEN Count(s, "fallback_used") ELSE UNCHANGED stats
    /\ UNCHANGED <<enabled, exhausted, buffer, idx, scratch, built, message, calls,
                   result, path>>

(* A faulty fallback, which counts it and leaves the message to the caller.    *)
FallBackToNothing(s) ==
    /\ pc[s] = "fallback"
    /\ Answer(s, FALSE, "none")
    /\ Count(s, "fallback_used")
    /\ UNCHANGED <<enabled, exhausted, buffer, idx, scratch, built, message, calls>>

FallBack(s) ==
    /\ pc[s] = "fallback"
    /\ Goto(s, "stock")
    /\ Count(s, "fallback_used")
    /\ UNCHANGED <<enabled, exhausted, buffer, idx, scratch, built, message, calls,
                   result, path>>

StockParses(s) ==
    /\ pc[s] = "stock"
    /\ \E m \in Messages[buffer[s]] : message' = [message EXCEPT ![s] = m]
    /\ Answer(s, TRUE, "stock")
    /\ UNCHANGED <<enabled, exhausted, buffer, idx, scratch, built, stats, calls>>

(* The copy of the bytes may throw before setString clears the message, and    *)
(* setString after it: at bytes that are no fields, or for lack of memory.    *)
StockThrows(s) ==
    /\ pc[s] = "stock" /\ (Messages[buffer[s]] = {} \/ exhausted)
    /\ message' \in {message, [message EXCEPT ![s] = Cleared]}
    /\ Count(s, "parse_failed")
    /\ Answer(s, FALSE, "none")
    /\ UNCHANGED <<enabled, exhausted, buffer, idx, scratch, built, calls>>

-----------------------------------------------------------------------------
Step(s) ==
    \/ ReadFlag(s) \/ Scan(s) \/ Route(s) \/ Translate(s)
    \/ Build(s) \/ BuildThrows(s) \/ FastPathSucceeds(s)
    \/ FallBack(s) \/ StockParses(s) \/ StockThrows(s)

Next ==
    \/ \E on \in BOOLEAN : set_preparse_enabled(on)
    \/ HeapChanges
    \/ \E s \in Sessions :
        \/ reset_stats(s)
        \/ \E b \in Buffers : parse_into(s, b)
        \/ Step(s)

(* A session has a thread of its own, which parse_into never makes wait.      *)
Spec == Init /\ [][Next]_vars /\ \A s \in Sessions : WF_vars(Step(s))

-----------------------------------------------------------------------------
Attempting == {"scan", "route", "translate", "build", "fallback"}

TypeOK ==
    /\ enabled \in BOOLEAN /\ exhausted \in BOOLEAN
    /\ pc \in [Sessions -> Attempting \cup {"idle", "flag", "stock"}]
    /\ buffer \in [Sessions -> Buffers \cup {<< >>}]
    /\ \A s \in Sessions :
          /\ idx[s].field_count \in 0 .. kMaxFields
          /\ built[s] \in 0 .. kMaxFields
          /\ DOMAIN scratch[s] = 0 .. (kMaxFields - 1)
    /\ stats \in [Sessions -> [DOMAIN NoStats -> 0 .. MaxCalls]]
    /\ calls \in [Sessions -> 0 .. MaxCalls]
    /\ result \in [Sessions -> BOOLEAN]
    /\ path \in [Sessions -> {"fast", "stock", "none"}]

Running(s) == IF pc[s] \in Attempting THEN 1 ELSE 0
Unanswered(s) == IF pc[s] = "idle" THEN 0 ELSE 1

(* The statistics, which are there to verify the flag and to compare rates of *)
(* fallback, add up at every moment: an attempt has succeeded, has fallen     *)
(* back or is still running, however often the flag changes meanwhile, and    *)
(* no call is counted both as a success and as a failure.                    *)
StatsAddUp ==
    \A s \in Sessions :
        /\ stats[s].preparse_attempted
              = stats[s].preparse_succeeded + stats[s].fallback_used + Running(s)
        /\ stats[s].preparse_succeeded + stats[s].parse_failed + Unanswered(s)
              <= calls[s]

(* TRUE means parsed.  Whichever path answered, with whatever in the message  *)
(* before, after a fast path that threw half-way or not: the message is the   *)
(* one that QuickFIX alone makes of the same bytes.  These are the whole      *)
(* buffer for stock QuickFIX, and its first frame for the fast path.          *)
TrueMeansParsed ==
    \A s \in Sessions :
        pc[s] = "idle" /\ result[s] =>
            message[s] =
                IF path[s] = "stock" THEN Parsed(buffer[s])
                ELSE Parsed(SubSeq(buffer[s], 1, idx[s].frame_length))

(* patch 0001: pointers must outlive the call they are used in.  What         *)
(* setFromPreScan reads of the scratch array points into the present buffer;  *)
(* entries of earlier, longer frames lie beyond.                             *)
ReadsThisBufferOnly ==
    \A s \in Sessions :
        pc[s] = "build" =>
            \A k \in 0 .. (idx[s].field_count - 1) : scratch[s][k].mem = buffer[s]

(* What a session's caller sees of parse_into is the service of ParseService.  *)
(* The value the flag had when it was read, and what the buffer begins with,   *)
(* decide which bytes are answered for; a fast path that fails half-way, an    *)
(* index or a message left by an earlier call, and switches of the flag during *)
(* the call do not show.                                                    *)
Phase(s) ==
    CASE pc[s] = "idle" -> "idle"
      [] pc[s] = "flag" -> "called"
      [] pc[s] = "scan" -> "attempting"
      [] pc[s] = "route" -> IF RequiresDictionaryParse(idx[s]) THEN "whole" ELSE "frame"
      [] pc[s] \in {"translate", "build"} -> "frame"
      [] OTHER -> "whole"

Service == INSTANCE ParseService
    WITH GroupCounters <- KnownGroupCounter,
         phase <- [s \in Sessions |-> Phase(s)],
         bytes <- buffer,
         answer <- [s \in Sessions |->
                       IF pc[s] = "idle" /\ result[s] THEN message[s] ELSE [none |-> TRUE]]

ImplementsService == Service!Spec

(* Every call comes back.                                                   *)
EveryCallReturns == \A s \in Sessions : pc[s] # "idle" ~> pc[s] = "idle"
=============================================================================
