----------------------------- MODULE Avx2Caller -----------------------------
(***************************************************************************)
(* The AVX2 scanner and its caller, who waits for each call to return.       *)
(***************************************************************************)
EXTENDS Avx2Scanner, RetryingCaller

CallerVars == <<vars, passVars, callerVars>>

CallerStart == Init /\ CallerInit

CallScan == Caller /\ EnterPasses

Scan == ScanStep /\ UNCHANGED callerVars

CallerSpec ==
    CallerStart /\ [][CallScan \/ Scan]_CallerVars /\ WF_CallerVars(Scan)

-----------------------------------------------------------------------------
(* scanner.hpp and status.hpp together: on each prefix of a stream that begins *)
(* with a frame the caller is told to wait, then gets the frame.             *)
StreamIsAwaited == FramesAreAwaited({stream})
=============================================================================
