----------------------------- MODULE MCService -----------------------------
(***************************************************************************)
(* Instances of Service for TLC: an ordinary stream under two spellings,   *)
(* one whose station has a dot, one whose location code is a blank, and    *)
(* requests of every kind the code tells apart.                            *)
(***************************************************************************)
EXTENDS Service

CONSTANT LastStart

MCPiece == {"", " ", "--", "UU", "uu", "A", "B", "Z"}
MCCanonical ==
    [piece \in MCPiece |->
        CASE piece = " " -> "" [] piece = "uu" -> "UU" [] OTHER -> piece]

Named(network, station, location) ==
    [network |-> network, station |-> station, channel |-> <<"Z">>,
     location |-> location]

Good == Named(<<"UU">>, <<"A">>, <<"--">>)
GoodUnset == Named(<<"uu">>, <<"A">>, Unset)
Dotted == Named(<<"UU">>, <<"A", "B">>, <<"--">>)
Blank == Named(<<"UU">>, <<"A">>, <<" ">>)
NoStation == Named(<<"UU">>, Empty, <<"--">>)

Data(identifier, t) ==
    [identifier |-> identifier, startTime |-> t, endTime |-> t + 1]

\* Packets with a gap between them, so that a query may fall in the gap.
MCPacket ==
    {Data(GoodUnset, 0)}
      \cup {Data(identifier, LastStart) : identifier \in {Good, Dotted, Blank}}

MCInstant == {LastStart}

Asks(identifier, from, to) ==
    [identifier |-> identifier, hasTimes |-> TRUE, start |-> from, end |-> to]

GetTimeSeries(token, streams) ==
    [method |-> "GetTimeSeries", token |-> token, streams |-> streams]

All == Asks(Good, 0, LastStart)
\* At the end of the first packet, and in the gap when that has expired.
Between == Asks(Named(<<"uu">>, <<"A">>, Empty), 1, LastStart - 1)
Invalid == Asks(GoodUnset, 0, LastStart)
Nameless == Asks(NoStation, 0, LastStart)

MCRequest ==
    {[method |-> "GetAvailableStreams", token |-> TRUE, streams |-> <<>>],
     GetTimeSeries(FALSE, <<All>>),
     GetTimeSeries(TRUE, <<>>),
     GetTimeSeries(TRUE, <<Between>>),
     GetTimeSeries(TRUE, <<Nameless>>),
     GetTimeSeries(TRUE, <<All, Between>>),
     GetTimeSeries(TRUE, <<All, Invalid, Nameless>>)}
=============================================================================
