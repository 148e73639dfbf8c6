------------------------------- MODULE MCAvx2 -------------------------------
(***************************************************************************)
(* The AVX2 scanner and its caller.                                         *)
(***************************************************************************)
EXTENDS Avx2Caller, FrameSamples
=============================================================================
