---------------------------- MODULE FrameSamples ----------------------------
(***************************************************************************)
(* Sample byte streams for model checking, put together from fields that    *)
(* are right, from fields that are wrong in one way each, and from body     *)
(* lengths that are right, short or long.                                   *)
(***************************************************************************)
EXTENDS FixFrame

LOCAL INSTANCE SequencesExt

BeginString == <<8, Equals, Other, Soh>>
MsgType     == <<3, 5, Equals, Other, Soh>>
CheckSum    == <<1, 0, Equals, 0, 0, 0, Soh>>

GoodFields ==
    {<<1, Equals, Other, Soh>>,                  \* 1=x
     <<5, Equals, Soh>>,                         \* 5= (empty value)
     <<0, 5, Equals, 1, Soh>>,                   \* 05=1
     <<1, 1, 9, Equals, Soh>>,                   \* 119=, the largest tag
     <<1, Equals, Equals, Soh>>,                 \* 1==
     <<1, 0, Equals, 0, 0, 0, Soh>>}             \* 10=000 inside the body

OddFields ==
    {<<9, 5, Equals, 1, Soh>>,                   \* 95=1, raw data length
     <<9, 6, Equals, Other, Soh>>,               \* 96=x, raw data
     <<0, Equals, Other, Soh>>,                  \* tag 0
     <<Equals, Other, Soh>>,                     \* no tag
     <<1, Other, Equals, Soh>>,                  \* a tag with a letter
     <<1, 1, Soh>>,                              \* no '='
     <<1, 2, 0, Equals, Soh>>,                   \* 120=, saturated
     <<1, Equals, Other>>}                       \* no <SOH>

Fields == GoodFields \cup OddFields

Trailers ==
    {CheckSum,
     <<0, 1, 0, Equals, 0, 0, 0, Soh>>,          \* 010=000
     <<1, 0, Equals, 0, 0, Soh, Other>>,         \* two digits
     <<1, 0, Equals, 0, 0, 0, 0, Soh>>,          \* four digits
     <<1, 0, Equals, 0, Other, 0, Soh>>,         \* a letter
     <<1, 1, Equals, 0, 0, 0, Soh>>,             \* 11=000
     <<1, 0, Equals, 0, 0, 0, Other>>}           \* no <SOH>

Digits(n) == IF n < 10 THEN <<n>> ELSE <<n \div 10, n % 10>>

BodyLength(digits) == <<9, Equals>> \o digits \o <<Soh>>

(* A stream with the given body fields, whose declared length is off by d.  *)
Message(fields, trailer, d) ==
    LET body == FlattenSeq(<<MsgType>> \o fields)
    IN  BeginString \o BodyLength(Digits(Len(body) + d)) \o body \o trailer

Bodies(fields, n) == UNION {[1 .. k -> fields] : k \in 0 .. n}

(* Streams whose header is wrong, or written in an unusual way.             *)
Rest == MsgType \o CheckSum
HeaderVariants ==
    {BeginString \o <<9, Equals>> \o digits \o <<Soh>> \o Rest :
        digits \in {<< >>, <<0>>, <<0, 0, 5>>, <<Other>>, <<5, Other>>,
                    <<1, 2, 0>>, <<1, 2, 9>>, <<1, 1, 9>>}}
    \cup {<<8, Other, Other, Soh>> \o BodyLength(<<5>>) \o Rest,
          <<9, Equals, Other, Soh>> \o BodyLength(<<5>>) \o Rest,
          BeginString \o <<8, Equals, 5, Soh>> \o Rest,
          BeginString \o BodyLength(<<5>>) \o <<3, 4, Equals, Other, Soh>> \o CheckSum,
          BeginString \o BodyLength(<<5>>) \o <<3, 5, Other, Equals, Soh>> \o CheckSum,
          BeginString \o BodyLength(<<4>>) \o <<3, 5, Equals, Other>> \o CheckSum,
          BeginString \o BodyLength(<<4>>) \o <<3, 5, Equals, Soh>> \o CheckSum,
          BeginString \o BodyLength(<<5>>) \o <<3, 5, Equals>> \o [k \in 1 .. 9 |-> Other],
          BeginString \o <<9, Equals, Other, Soh>> \o MsgType
              \o <<1, Equals, Other, Other, Other, Other, Soh>> \o CheckSum,
          <<8, Equals>> \o [k \in 1 .. 12 |-> Other],
          <<8, Equals>> \o [k \in 1 .. 9 |-> Other] \o <<Soh>>,
          <<8, Equals>> \o [k \in 1 .. 8 |-> Other] \o <<Soh>> \o BodyLength(<<5>>) \o Rest,
          CheckSum \o CheckSum,
          <<8, Equals, Other>>}

(* One frame followed by the start of another.                              *)
TwoFrames == {Message(<< >>, CheckSum, 0) \o Message(<< >>, CheckSum, 0)}

(* Bodies of up to two fields, every field with every trailer and length,   *)
(* and a table that fills up in the body, at the trailer, or not.            *)
SampleStreams ==
    HeaderVariants \cup TwoFrames
    \cup {Message(fields, CheckSum, 0) : fields \in Bodies(Fields, 2)}
    \cup {Message(fields, trailer, d) :
            fields \in Bodies(Fields, 1), trailer \in Trailers, d \in {-2, -1, 0, 1}}
    \cup {Message(fields, CheckSum, 0) : fields \in Bodies({<<5, Equals, Soh>>}, 4)}

(* Frames that fit, overflow or spoil the table, the trailer, a tag or the    *)
(* body length, to be passed one after the other.                           *)
SampleBuffers ==
    {Message(<<<<1, Equals, Other, Soh>>, <<1, 1, 9, Equals, Soh>>>>, CheckSum, 0),
     Message(<< >>, <<0, 1, 0, Equals, 0, 0, 0, Soh>>, 0) \o <<8, Equals>>,
     Message(<<<<5, Equals, Soh>>, <<9, 5, Equals, 1, Soh>>>>, CheckSum, 0),
     Message(<<<<5, Equals, Soh>>, <<1, 2, 9, Equals, Soh>>>>, CheckSum, 0),
     Message(<<<<5, Equals, Soh>>>>, <<1, 0, Equals, 0, 0, Soh, Other>>, 0),
     Message(<<<<5, Equals, Soh>>, <<5, Equals, Soh>>, <<5, Equals, Soh>>>>, CheckSum, 0),
     Message(<<<<1, Equals, Other>>>>, CheckSum, 0),
     Message([k \in 1 .. 6 |-> <<5, Equals, Soh>>], CheckSum, 0),
     Message(<< >>, CheckSum, 1),
     BeginString \o BodyLength(<<1, 2, 9>>) \o Rest,
     BeginString \o BodyLength(<<1, 1, 9>>) \o Rest,
     BeginString \o BodyLength(<<0, 5>>) \o Rest,
     <<8, Equals>>}
=============================================================================
