--------------------------- MODULE StreamDequeMap ---------------------------
(***************************************************************************)
(* The cache of all streams: class StreamDequeMap                          *)
(* (src/src/streamDequeMap.cpp).  Every member function does its work on   *)
(* the map under mMutex, so that each is one step; what it throws leaves   *)
(* the map as it was.  A stream is created by its first packet and never   *)
(* forgotten, even when all its packets have expired.                      *)
(*                                                                         *)
(* A packet p of the feed has the fields stream, startTime and endTime and *)
(* a field quality: "good", "invalid" (Utilities::isValid says so) or      *)
(* "unconvertible" (isValid accepts it but Utilities::convert throws: a    *)
(* TEXT packet or one without a start time).                               *)
(***************************************************************************)
EXTENDS PacketDeque

CONSTANT MaximumNumberOfPackets  \* of a default constructed StreamDequeOptions

ASSUME MaximumAssumption == MaximumNumberOfPackets \in Nat \ {0}

VARIABLE mStreamDequeMap         \* from the streams seen so far to deques

\* Utilities::convert: the cached packet has no stream identifier.
Converted(p) == [startTime |-> p.startTime, endTime |-> p.endTime]

Throws(p) == p.quality # "good"

\* Mutation: a stream is created before its first packet is converted.
AddToMapEagerly(p) ==
    LET old == IF p.stream \in DOMAIN mStreamDequeMap
               THEN mStreamDequeMap[p.stream] ELSE <<>>
        new == IF Throws(p) THEN old
               ELSE Added(old, Converted(p), MaximumNumberOfPackets)
    IN  mStreamDequeMap' =
            [s \in DOMAIN mStreamDequeMap \cup {p.stream} |->
                IF s = p.stream THEN new ELSE mStreamDequeMap[s]]

\* find, then StreamDeque::addPacket or a new StreamDeque.
AddToMap(p) ==
    LET old == IF p.stream \in DOMAIN mStreamDequeMap
               THEN mStreamDequeMap[p.stream] ELSE <<>>
        new == Added(old, Converted(p), MaximumNumberOfPackets)
    IN  mStreamDequeMap' =
            IF Throws(p) THEN mStreamDequeMap
            ELSE [s \in DOMAIN mStreamDequeMap \cup {p.stream} |->
                     IF s = p.stream THEN new ELSE mStreamDequeMap[s]]

\* Mutation: a stream without packets is forgotten.
RemoveExpiredForgetting(oldestTime) ==
    mStreamDequeMap' =
        [s \in {s \in DOMAIN mStreamDequeMap :
                    Unexpired(mStreamDequeMap[s], oldestTime) # <<>>} |->
            Unexpired(mStreamDequeMap[s], oldestTime)]

\* removeExpiredPackets of one deque after the other.
RemoveExpiredFromMap(oldestTime) ==
    mStreamDequeMap' =
        [s \in DOMAIN mStreamDequeMap |->
            Unexpired(mStreamDequeMap[s], oldestTime)]

\* An unknown stream has no packets.
GetPacketsFromMap(s, qs, qe) ==
    IF s \in DOMAIN mStreamDequeMap
    THEN GetPackets(mStreamDequeMap[s], qs, qe) ELSE <<>>

\* The names copied under the lock; fromString then takes each apart again,
\* which fails for a name that does not have three or four parts.
GetAvailableStreams == DOMAIN mStreamDequeMap

HeldBy(s) == IF s \in DOMAIN mStreamDequeMap
             THEN Held(mStreamDequeMap[s]) ELSE {}
=============================================================================
