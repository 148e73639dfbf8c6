--------------------------- MODULE MCBenchHarness ---------------------------
(***************************************************************************)
(* Streams and directories of up to two frames of every kind.               *)
(***************************************************************************)
EXTENDS BenchHarness

Sequences2 == UNION {[1 .. n -> FrameKind] : n \in 0 .. 2}

MCContents ==
    [kind : {"file", "dir"}, frames : Sequences2, torn : {FALSE}]
    \cup {[kind |-> "missing", frames |-> << >>, torn |-> FALSE]}

MCGenerated == {<<"plain">>, <<"plain", "plain">>, <<"plain", "deferred">>}
=============================================================================
