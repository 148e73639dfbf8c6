---------------------------- MODULE ScalarCaller ----------------------------
(***************************************************************************)
(* The scalar scanner and its caller, who waits for each call to return.     *)
(***************************************************************************)
EXTENDS ScalarScanner, RetryingCaller

CallerVars == <<vars, callerVars>>

CallerStart == Init /\ CallerInit

Scan == ScanStep /\ UNCHANGED callerVars

CallerSpec == CallerStart /\ [][Caller \/ Scan]_CallerVars /\ WF_CallerVars(Scan)
=============================================================================
