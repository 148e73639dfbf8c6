---------------------------- MODULE MCSessionShim ----------------------------
(***************************************************************************)
(* A session that parses frames with and without groups, with misplaced      *)
(* fields, an unusual trailer, a wrong length and bytes after the frame.      *)
(***************************************************************************)
EXTENDS SessionShim, FrameSamples

CONSTANT s1

OneSession == {s1}

MCHeaderTags == {8, 9, 35, 49}
MCTrailerTags == {10, 89}

SenderCompID == <<4, 9, Equals, Other, Soh>>
Signature == <<8, 9, Equals, Soh>>
LargeTag == <<2, 0, 0, Equals, Soh>>                 \* above INT_MAX
Text == <<5, 8, Equals, Equals, Soh>>

Valid(fields) == Message(fields, CheckSum, 0)

(* Two are no frames to every scanner, and stock QuickFIX parses one of them. *)
MCBuffers ==
    {Valid(<<LargeTag, SenderCompID>>),              \* header after body
     Valid(<<Signature, Text>>) \o <<8, Equals>>,    \* body after trailer, then more bytes
     Valid(<<<<7, 8, Equals, 1, Soh>>>>),            \* 78=1, a group
     Message(<< >>, <<0, 1, 0, Equals, 0, 0, 0, Soh>>, 0),   \* 010=000
     Message(<< >>, CheckSum, 1),                    \* wrong body length
     <<Other>>}                                      \* not FIX at all

(* NoMiscFees, NoIOIQualifiers and other counters of FIX 4.4 groups that fit  *)
(* the model's integers.                                                    *)
GroupCounters == {33, 73, 78, 85, 124, 136, 146, 199, 215, 232}

GroupBuffers ==
    {Valid(<<<<7, 8, Equals, 1, Soh>>>>), Valid(<<<<1, 3, 6, Equals, 1, Soh>>>>)}

(* patch 0001: callers route group-bearing messages to setString.            *)
GroupsGoToStock ==
    \A s \in Sessions :
        pc[s] = "build" =>
            \A k \in 0 .. (idx[s].field_count - 1) :
                idx[s].fields[k].tag_number \notin GroupCounters
=============================================================================
