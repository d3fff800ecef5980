--------------------------- MODULE MCCacheService ---------------------------
(***************************************************************************)
(* Instances of CacheService for TLC: two streams and clients that ask for *)
(* a stream under another spelling, for all streams, or for two at once.   *)
(***************************************************************************)
EXTENDS CacheService

CONSTANTS LastStart, Lengths, Faulty

MCPiece == {"", "--", "UU", "uu", "A", "B", "Z"}
MCCanonical ==
    [piece \in MCPiece |-> IF piece = "uu" THEN "UU" ELSE piece]

Station(station) == [network |-> <<"UU">>, station |-> <<station>>,
                     channel |-> <<"Z">>, location |-> Unset]

FromStation(station, start, length, quality) ==
    [identifier |-> Station(station), stream |-> ToString(Station(station)),
     startTime |-> start, endTime |-> start + length, quality |-> quality]

MCPacket ==
    {FromStation("A", t, l, "good") : t \in 0..LastStart, l \in Lengths}
      \cup {FromStation("B", 0, 1, q) : q \in {"good"} \cup Faulty}

Asks(station, from, to) ==
    [identifier |-> [Station(station) EXCEPT !.network = <<"uu">>,
                                             !.location = Empty],
     hasTimes |-> TRUE, start |-> from, end |-> to]

GetTimeSeries(streams) ==
    [method |-> "GetTimeSeries", token |-> FALSE, streams |-> streams]

MCRequest ==
    {GetTimeSeries(<<Asks("A", 0, 2)>>),
     GetTimeSeries(<<Asks("A", 0, 2), Asks("B", 0, 1)>>),
     [method |-> "GetAvailableStreams", token |-> FALSE, streams |-> <<>>]}
=============================================================================
