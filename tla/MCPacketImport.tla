-------------------------- MODULE MCPacketImport ---------------------------
(***************************************************************************)
(* Instances of PacketImport for TLC: some streams have packets of several *)
(* start times and lengths, others one packet and, at the same time, one   *)
(* that is invalid or cannot be converted.                                 *)
(***************************************************************************)
EXTENDS PacketImport

CONSTANTS Streams, LastStart, Lengths, OtherStreams, Faulty

FromStream(s, start, length, quality) ==
    [stream |-> s, startTime |-> start, endTime |-> start + length,
     quality |-> quality]

MCPacket ==
    {FromStream(s, t, l, "good") :
        s \in Streams, t \in 0..LastStart, l \in Lengths}
      \cup {FromStream(s, 0, l, q) :
              s \in OtherStreams, l \in Lengths, q \in {"good"} \cup Faulty}
=============================================================================
