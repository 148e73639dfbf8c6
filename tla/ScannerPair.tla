---------------------------- MODULE ScannerPair ----------------------------
(***************************************************************************)
(* A scalar and an AVX2 scanner side by side, each with an index of its own; *)
(* and both on the same buffer, as expect_avx2_matches_scalar runs them      *)
(* (preparser/tests/test_scanner_corpus.cpp).                               *)
(***************************************************************************)
EXTENDS FixFrame

CONSTANTS Buffers, Lane

ASSUME PairAssumption == Buffers \subseteq Seq(Byte) /\ Lane \in Nat \ {0}

VARIABLES
    buf,
    sOut, sStatus, sPc, sP, sTagStart, sValueStart, sNum, sBodyEnd,
    aOut, aStatus, aPc, aP, aTagStart, aValueStart, aNum, aBodyEnd,
    aQ, aMask, aSohs, aI

scalarVars == <<sOut, sStatus, sPc, sP, sTagStart, sValueStart, sNum, sBodyEnd>>
avx2Vars == <<aOut, aStatus, aPc, aP, aTagStart, aValueStart, aNum, aBodyEnd,
              aQ, aMask, aSohs, aI>>
pairVars == <<buf, scalarVars, avx2Vars>>

Scalar == INSTANCE ScalarScanner
    WITH out <- sOut, status <- sStatus, pc <- sPc, p <- sP, tagStart <- sTagStart,
         valueStart <- sValueStart, num <- sNum, bodyEnd <- sBodyEnd

Avx2 == INSTANCE Avx2Scanner
    WITH out <- aOut, status <- aStatus, pc <- aPc, p <- aP, tagStart <- aTagStart,
         valueStart <- aValueStart, num <- aNum, bodyEnd <- aBodyEnd,
         q <- aQ, mask <- aMask, sohs <- aSohs, i <- aI

PairInit == Scalar!Init /\ Avx2!Init

(* One of the scanners is handed a buffer.                                  *)
CallScalar(b) == Scalar!Call(b) /\ UNCHANGED avx2Vars
CallAvx2(b) == Avx2!Enter(b) /\ UNCHANGED scalarVars

(* Both are; the scalar one runs first.                                     *)
Compare(b) == Scalar!Call(b) /\ Avx2!Enter(b)

RunScalar == Scalar!ScanStep /\ UNCHANGED avx2Vars

RunAvx2 == sPc = "idle" /\ Avx2!ScanStep /\ UNCHANGED scalarVars

(* The indices of a comparison are local to it.                              *)
EndCompare ==
    /\ Scalar!Finished /\ Avx2!Finished
    /\ sOut' = NewIndex /\ aOut' = NewIndex
    /\ sStatus' = "None" /\ aStatus' = "None"
    /\ UNCHANGED <<buf, sPc, sP, sTagStart, sValueStart, sNum, sBodyEnd,
                   aPc, aP, aTagStart, aValueStart, aNum, aBodyEnd, aQ, aMask, aSohs, aI>>

-----------------------------------------------------------------------------
Compared == Scalar!Finished /\ Avx2!Finished

SameIndex == Readable(sOut) = Readable(aOut)

(* The AVX2 scanner accepts what the scalar one accepts, with the same index, *)
(* except frames that spell the tag of CheckSum otherwise than "10".         *)
AgreeOnAcceptance ==
    Compared =>
        /\ aStatus = "Ok" <=> sStatus = "Ok" /\ HasLiteral(buf, sBodyEnd, <<1, 0, Equals>>)
        /\ aStatus = "Ok" => SameIndex

(* The AVX2 scanner never asks a caller to wait for more bytes of a buffer    *)
(* on which the scalar one, the reference, has a final verdict.              *)
Avx2NeverWaitsAlone == Compared => (aStatus = "Truncated" => sStatus = "Truncated")

(* What expect_avx2_matches_scalar asserts of a buffer the scalar scanner     *)
(* accepts.                                                                 *)
Avx2MatchesScalar == Compared => (sStatus = "Ok" => aStatus = sStatus /\ SameIndex)
=============================================================================
