--------------------------- MODULE MCStreamSplit ---------------------------
(***************************************************************************)
(* Streams of up to three messages, with and without fields that the        *)
(* scanners leave to QuickFIX; and for the comparison of both scanners,      *)
(* every sample stream and every prefix of some.                            *)
(***************************************************************************)
EXTENDS StreamSplit, FrameSamples

FieldOf(tag, value) == [tag |-> tag, value |-> value]
MsgTypeIs(value) == FieldOf(35, value)

Messages ==
    {<<MsgTypeIs(<<0>>)>>,
     <<MsgTypeIs(<<Other>>), FieldOf(119, <<Equals, 1>>), FieldOf(10, << >>)>>,
     <<MsgTypeIs(<<3, 5>>), FieldOf(1, <<9, 5>>)>>,
     <<MsgTypeIs(<<Other>>), FieldOf(95, <<1>>), FieldOf(96, <<Other>>)>>,
     <<MsgTypeIs(<<Other>>), FieldOf(1, <<1>>), FieldOf(1, <<1>>), FieldOf(1, <<1>>)>>}

MCCorpora == UNION {[1 .. n -> Messages] : n \in 0 .. 3}

Prefixes(S) == UNION {{SubSeq(b, 1, n) : n \in 0 .. Len(b)} : b \in S}

MCBuffers == Prefixes(HeaderVariants \cup TwoFrames) \cup SampleStreams
=============================================================================
