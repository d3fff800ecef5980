---------------------------- MODULE CacheService ----------------------------
(***************************************************************************)
(* The service as a whole: the three threads of the import (PacketImport)  *)
(* and the reactors of the gRPC service (Service) over the one map of      *)
(* deques that class Process gives to both (main.cpp).  The map's mutex is *)
(* all they share.                                                         *)
(*                                                                         *)
(* Service lets packets come and go as they like; here they come from the  *)
(* feed and go as the cleaner's clock says, so that a reply can be traced  *)
(* to what was delivered.  The counters of class MetricsSingleton that the *)
(* reactors use are replies.                                               *)
(***************************************************************************)
EXTENDS PacketImport, StreamNames

CONSTANTS
    Client, Request, TokenRequired, MaxCalls    \* see Service

\* What Service demands of packets and requests: the map has its deques by
\* the names that toString makes, and isValid rejects the packets that
\* toString refuses.
ASSUME CacheAssumption ==
    /\ TokenRequired \in BOOLEAN
    /\ MaxCalls \in Nat
    /\ \A p \in Packet : p.quality # "invalid" =>
          /\ p.identifier \in Identifier
          /\ ~ToStringRefuses(p.identifier)
          /\ p.stream = ToString(p.identifier)
    /\ \A r \in Request : r.streams \in
          Seq([identifier : Identifier, hasTimes : BOOLEAN, start : Int, end : Int])

VARIABLES
    rpc, mNumberOfClients, replies, calls, lost \* see Service

\* The packets that the map takes, and the times the cleaner may compute.
Serving == INSTANCE Service
               WITH Packet <- {p \in Packet : p.quality = "good"},
                    Instant <- (0 - MaxSetBack - MaximumDuration)
                                   ..(MaxClock - MaximumDuration),
                    metrics <- replies

importVars == <<clock, mImportQueue, metrics, threads, history>>
serviceVars == <<rpc, mNumberOfClients, replies, calls, lost>>
cacheVars == <<vars, serviceVars>>

CacheInit == Init /\ Serving!Init

ImportStep ==
    /\ Next
    /\ UNCHANGED serviceVars

ServiceStep ==
    /\ \E c \in Client : \/ \E request \in Request : Serving!Call(c, request)
                         \/ Serving!Serve(c)
    /\ UNCHANGED importVars

CacheNext == ImportStep \/ ServiceStep

CacheSpec == CacheInit /\ [][CacheNext]_cacheVars /\ Fairness /\ Serving!Fairness

-----------------------------------------------------------------------------
(* Properties                                                              *)

\* The reactors over this import behave as Service says of an import that
\* may do anything, so that what holds of Service holds here.
ImportServes == Serving!Init /\ [][Serving!Next]_(Serving!vars)

\* What Service promises of a reactor over any import: the gauge of clients
\* and the counters balance, replies answer what was asked in order, and what
\* was listed can be asked for.
ServiceIsCorrect ==
    /\ Serving!TypeOK
    /\ Serving!ClientsAccounted
    /\ Serving!EveryCallCounted
    /\ Serving!SeriesPerRequest
    /\ Serving!SeriesSorted
    /\ Serving!ListedStreamsCanBeAsked

IsCached(s, packet) ==
    \E n \in Numbers("cached") : /\ feed[n].stream = s
                                 /\ Converted(feed[n]) = packet

\* From the feed to the client: each packet of a reply was delivered for the
\* stream asked for and cached, and each identifier of a list is that of a
\* stream that a packet was cached for, although the reply is read later,
\* when the queue, the map and the clock have moved on.
RepliesAreFed ==
    \A c \in Client :
        /\ \A i \in DOMAIN rpc[c].series :
              LET s == ToString(rpc[c].request.streams[i].identifier)
                  packets == rpc[c].series[i].packets
              IN  \A k \in 1..Len(packets) : IsCached(s, packets[k])
        /\ rpc[c].listed \subseteq {FromString(feed[n].stream) : n \in Numbers("cached")}

\* A request for a single stream over the time of a packet that was cached
\* for it and has not aged out is answered with data that starts there,
\* whatever else was delivered, expired or asked for meanwhile.
FreshDataIsAnswered ==
    [][\A c \in Client : Serving!AnswerOne(c) =>
          LET q == rpc[c].request.streams[1]
          IN  \A n \in Numbers("cached") :
                 /\ feed[n].stream = ToString(q.identifier)
                 /\ q.start = feed[n].startTime
                 /\ q.end = feed[n].endTime
                 /\ \A m \in SameStart(n) : feed[m].endTime >= latest - MaximumDuration
                 => \E r \in Held((rpc[c].series[1].packets)') :
                       r.startTime = feed[n].startTime
      ]_cacheVars
=============================================================================
