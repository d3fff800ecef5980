--------------------------- MODULE ImportPromise ---------------------------
(***************************************************************************)
(* What the import promises, without threads, queue or deques: every       *)
(* packet delivered waits, is taken up in its turn and settled once, and   *)
(* the cache has a set of packets for each stream.  A packet is lost only  *)
(* while it is the longest waiting, is not the newest, and only as far as  *)
(* more were delivered than the queue holds.  Packets leave the cache by   *)
(* ageing and in no other way.                                             *)
(*                                                                         *)
(* The wall clock appears as the times it may show: it lags behind the     *)
(* latest time it has shown by MaxSetBack at most.                         *)
(***************************************************************************)
EXTENDS Integers, Sequences, FiniteSets

CONSTANTS
    Packet, MaximumImportQueueSize, MaximumLatency, MaximumFutureTime,
    MaximumDuration, MaxSetBack

VARIABLES
    latest,     \* the latest time the clock has shown
    feed,       \* the packets delivered
    fate,       \* of each packet delivered
    cache       \* from streams to sets of packets

vars == <<latest, feed, fate, cache>>

Those(f) == {n \in DOMAIN fate : fate[n] = f}

Settle(n, f) == fate' = [fate EXCEPT ![n] = f]

\* The times the clock may show now, and may have shown so far.
Showing == (latest - MaxSetBack)..latest
Shown == (0 - MaxSetBack)..latest

Init == latest = 0 /\ feed = <<>> /\ fate = <<>> /\ cache = <<>>

Advance ==
    /\ latest' = latest + 1
    /\ UNCHANGED <<feed, fate, cache>>

-----------------------------------------------------------------------------
(* The queue                                                               *)

Deliver(p) ==
    /\ feed' = Append(feed, p)
    /\ fate' = Append(fate, "waiting")
    /\ UNCHANGED <<latest, cache>>

IsNext(n) == n \in Those("waiting") /\ \A m \in Those("waiting") : n <= m

Lose(n) ==
    /\ IsNext(n) /\ n < Len(feed)
    /\ Cardinality(Those("dropped")) + MaximumImportQueueSize < Len(feed)
    /\ Settle(n, "dropped")
    /\ UNCHANGED <<latest, feed, cache>>

TakeUp(n) ==
    /\ IsNext(n) /\ Those("taken") = {}
    /\ Settle(n, "taken")
    /\ UNCHANGED <<latest, feed, cache>>

-----------------------------------------------------------------------------
(* What becomes of a packet that was taken up                              *)

IsBad(p, now) ==
    \/ p.quality = "invalid"
    \/ MaximumLatency > 0 /\ p.startTime < now - MaximumLatency
    \/ MaximumFutureTime >= 0 /\ p.startTime > now + MaximumFutureTime

Reject(n) ==
    /\ n \in Those("taken")
    /\ \E now \in Showing : IsBad(feed[n], now)
    /\ Settle(n, "invalid")
    /\ UNCHANGED <<latest, feed, cache>>

Refuse(n) ==
    /\ n \in Those("taken")
    /\ feed[n].quality = "unconvertible"
    /\ Settle(n, "refused")
    /\ UNCHANGED <<latest, feed, cache>>

\* The start time has no packet yet; or p is the newest of its stream, and
\* only single samples (no longer than their start time) are beside it.
IsNews(S, p) ==
    \/ \A q \in S : q.startTime # p.startTime
    \/ \A q \in S : \/ q.startTime < p.startTime
                    \/ q.startTime = p.startTime /\ q.endTime = q.startTime

Stored(S, p) ==
    IF IsNews(S, p)
    THEN S \cup {[startTime |-> p.startTime, endTime |-> p.endTime]} ELSE S

\* A stream exists from its first packet on.
CacheOf(s) == IF s \in DOMAIN cache THEN cache[s] ELSE {}

Store(n) ==
    /\ n \in Those("taken")
    /\ feed[n].quality = "good"
    /\ MaximumFutureTime >= 0 => feed[n].startTime <= latest + MaximumFutureTime
    /\ Settle(n, "cached")
    /\ cache' = [s \in DOMAIN cache \cup {feed[n].stream} |->
                    IF s = feed[n].stream THEN Stored(CacheOf(s), feed[n])
                    ELSE cache[s]]
    /\ UNCHANGED <<latest, feed>>

-----------------------------------------------------------------------------

\* In all streams at once, by a time the clock has shown.
Age ==
    /\ \E now \in Shown :
          cache' = [s \in DOMAIN cache |->
                       {p \in cache[s] : p.endTime >= now - MaximumDuration}]
    /\ UNCHANGED <<latest, feed, fate>>

Next ==
    \/ Advance
    \/ \E p \in Packet : Deliver(p)
    \/ \E n \in DOMAIN fate : \/ Lose(n) \/ TakeUp(n)
                              \/ Reject(n) \/ Refuse(n) \/ Store(n)
    \/ Age

Spec == Init /\ [][Next]_vars
=============================================================================
