----------------------------- MODULE MCDispatch -----------------------------
(***************************************************************************)
(* Three threads, with and without AVX2 in the build and in the CPU.        *)
(***************************************************************************)
EXTENDS Dispatch

CONSTANTS t1, t2, t3

MCThreads == {t1, t2, t3}
=============================================================================
