--------------------------- MODULE ScannerContract ---------------------------
(***************************************************************************)
(* What Scanner::scan promises its caller (preparser/include/swiftfix/     *)
(* scanner.hpp), whichever implementation runs: a call ends with one        *)
(* verdict; on Ok the index is exact; on anything else, or while the call   *)
(* runs, there is no index to read; calls do not influence each other.      *)
(***************************************************************************)
EXTENDS FixFrame

VARIABLES
    buf,        \* the span of the last call
    busy,       \* a call is running
    verdict,    \* its ScanStatus
    index       \* what the caller may read

vars == <<buf, busy, verdict, index>>

Init ==
    /\ buf = << >>
    /\ busy = FALSE
    /\ verdict = "None"
    /\ index = NoIndex

(* A caller may pass any bytes.                                             *)
Begin ==
    /\ ~busy
    /\ busy' = TRUE
    /\ buf' \in Seq(Byte)
    /\ verdict' = "None"
    /\ index' = NoIndex

Accept ==
    /\ busy
    /\ busy' = FALSE
    /\ verdict' = "Ok"
    /\ ExactIndex(buf, index')
    /\ UNCHANGED buf

Refuse ==
    /\ busy
    /\ busy' = FALSE
    /\ verdict' \in Verdict \ {"Ok"}
    /\ index' = NoIndex
    /\ UNCHANGED buf

Next == Begin \/ Accept \/ Refuse

Spec == Init /\ [][Next]_vars
=============================================================================
