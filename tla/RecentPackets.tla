--------------------------- MODULE RecentPackets ---------------------------
(***************************************************************************)
(* What a stream's cache promises its users, without a deque: a bounded    *)
(* collection of packets with at most one packet per start time.  The      *)
(* first packet received for a start time wins, the most recent data win   *)
(* when there is no room, and packets leave early only by expiring.        *)
(***************************************************************************)
EXTENDS Integers, FiniteSets

CONSTANTS
    Packet,     \* the packets the feed may deliver
    Instant,    \* the times packets may be expired at
    Capacity    \* how many packets the cache holds

VARIABLE cache

Oldest(S) == {o \in S : \A q \in S : o.startTime <= q.startTime}

Init == \E p \in Packet : cache = {p}

\* The start time is already represented: the packet is dropped.
IgnoreDuplicate(p) ==
    /\ \E q \in cache : q.startTime = p.startTime
    /\ UNCHANGED cache

\* There is room for a packet with a new start time.
Store(p) ==
    /\ \A q \in cache : q.startTime # p.startTime
    /\ Cardinality(cache) < Capacity
    /\ cache' = cache \cup {p}

\* There is no room: of the cache and p, the oldest packet goes.
StoreOverOldest(p) ==
    /\ \A q \in cache : q.startTime # p.startTime
    /\ Cardinality(cache) >= Capacity
    /\ cache' = (cache \cup {p}) \ Oldest(cache \cup {p})

Expire(oldestTime) == cache' = {p \in cache : p.endTime >= oldestTime}

Next ==
    \/ \E p \in Packet : IgnoreDuplicate(p) \/ Store(p) \/ StoreOverOldest(p)
    \/ \E t \in Instant : Expire(t)

Spec == Init /\ [][Next]_cache
=============================================================================
