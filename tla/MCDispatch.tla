----------------------------- MODULE MCDispatch -----------------------------
(***************************************************************************)
(* Small instances of Dispatch: a pool that can run dry, Transport headers *)
(* whose first value fails at each stage, and the presentation that the    *)
(* repository's tests ask for, with the lines of its SDP.                  *)
(***************************************************************************)
EXTENDS Dispatch, TLC

CONSTANTS c1, c2, s1, s2

TwoPorts == <<5004, 5006>>

Value(ports) == [proper |-> TRUE, ports |-> ports]
Tcp == [proper |-> FALSE, ports |-> <<4588, 4589>>]

MCTransports ==
    {<<Value(<<4588>>)>>, <<Tcp, Value(<<4589, 4590>>), Value(<<>>)>>}

MCUrls == {<<>>, <<"sample">>, <<"sample", "streamid=1">>}

Line(kind, value) == [kind |-> kind, value |-> value, fits |-> TRUE]
LongLine == [kind |-> "other", value |-> "fmtp", fits |-> FALSE]

SampleSdp ==
    ("sample" :> <<Line("m", "video"), Line("other", "rtpmap"), LongLine,
                   Line("control", "streamid=0"),
                   Line("m", "audio"), Line("other", "rtpmap"), LongLine,
                   Line("control", "streamid=1")>>)

Symmetry == Permutations(Clients) \cup Permutations(Sessions)
=============================================================================
