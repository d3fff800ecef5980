---------------------------- MODULE StreamDeque ----------------------------
(***************************************************************************)
(* One stream's cache: class StreamDeque (src/src/streamDeque.cpp).  The   *)
(* class is not thread safe; its owner StreamDequeMap calls it under a     *)
(* mutex, so each public member function is one atomic action here.        *)
(*                                                                         *)
(* The wrapper's checks (stream identifier, sampling rate, start time and  *)
(* at least one sample) throw before anything changes.  They are the       *)
(* assumption below that a packet has a start time and does not end before *)
(* it starts; a packet that fails them is a stuttering step.               *)
(***************************************************************************)
EXTENDS PacketDeque

CONSTANTS
    Packet,                     \* what the feed may deliver for the stream
    Instant,                    \* the times the cleaner may expire at
    MaximumNumberOfPackets,     \* StreamDequeOptions
    MaxClock                    \* bound: what the wall clock may show

ASSUME PacketAssumption ==
    \A p \in Packet : /\ p.startTime \in Int
                      /\ p.endTime \in Int
                      /\ p.startTime <= p.endTime

ASSUME InstantAssumption == Instant \subseteq Int

\* StreamDequeOptions::setMaximumNumberOfPackets refuses a value below one.
ASSUME MaximumAssumption == MaximumNumberOfPackets \in Nat \ {0}

ASSUME ClockAssumption == MaxClock \in Nat

VARIABLES
    mDeque,         \* the packets, front to back
    mLastUpdate,    \* when the stream last heard of a packet
    now             \* the wall clock read by Utilities::getNow

vars == <<mDeque, mLastUpdate, now>>

-----------------------------------------------------------------------------

\* The constructor marks an update and adds the packet it is given.
Init ==
    /\ \E p \in Packet : mDeque = Added(<<>>, p, MaximumNumberOfPackets)
    /\ mLastUpdate = 0
    /\ now = 0

\* Mutation: mLastUpdate is kept in milliseconds.
AddPacketInMilliseconds(p) ==
    /\ mDeque' = Added(mDeque, p, MaximumNumberOfPackets)
    /\ mLastUpdate' = 1000 * now
    /\ UNCHANGED now

AddPacket(p) ==
    /\ mDeque' = Added(mDeque, p, MaximumNumberOfPackets)
    /\ mLastUpdate' = IF MarksUpdate(mDeque, p, MaximumNumberOfPackets)
                      THEN now ELSE mLastUpdate
    /\ UNCHANGED now

RemoveExpiredPackets(oldestTime) ==
    /\ mDeque' = Unexpired(mDeque, oldestTime)
    /\ UNCHANGED <<mLastUpdate, now>>

\* high_resolution_clock is the system's clock, which may be set back.
Tick ==
    /\ now' \in 0..MaxClock
    /\ UNCHANGED <<mDeque, mLastUpdate>>

Next ==
    \/ \E p \in Packet : AddPacket(p)
    \/ \E t \in Instant : RemoveExpiredPackets(t)
    \/ Tick

Spec == Init /\ [][Next]_vars

-----------------------------------------------------------------------------
(* Properties                                                              *)

TypeOK ==
    /\ mDeque \in Seq(Packet)
    /\ mLastUpdate \in 0..MaxClock
    /\ now \in 0..MaxClock

\* The deque stays sorted by start time, however late and in whatever order
\* packets arrive, overlap, slip or expire; the binary searches of addPacket
\* and getPackets rely on it, and a debug build asserts it (line 165).
SortedDeque == Sorted(mDeque)

\* No path of addPacket (push_back, push_front or insert) lets the deque
\* outgrow mMaximumNumberOfPackets.
BoundedDeque == Len(mDeque) <= MaximumNumberOfPackets

\* The inductive invariant of the proofs.
DequeInvariant == TypeOK /\ SortedDeque /\ BoundedDeque

\* A packet that addPacket drops to make room is no newer than any packet
\* it keeps, and one is dropped only when the deque is full: late data and
\* backfill never cost the most recent data (comment at line 114).
EvictsOnlyOldest ==
    [][\A p \in Packet : AddPacket(p) =>
          \A q \in Held(mDeque) \ Held(mDeque') :
             /\ Len(mDeque) = MaximumNumberOfPackets
             /\ \A r \in Held(mDeque') : q.startTime <= r.startTime
      ]_vars

\* After addPacket(p) the deque holds a packet for p's start time, unless
\* it was full of packets that all start later; and the stream is marked as
\* updated in every case (the comment at line 114), so that the path on
\* which the search runs off the end and the packet is lost silently is
\* never taken.
OfferIsAnswered ==
    [][\A p \in Packet : AddPacket(p) =>
          /\ mLastUpdate' = now
          /\ \/ \E q \in Held(mDeque') : q.startTime = p.startTime
             \/ /\ Len(mDeque) = MaximumNumberOfPackets
                /\ \A q \in Held(mDeque) : p.startTime < q.startTime
      ]_vars

-----------------------------------------------------------------------------
(* The queries a client may make of the deque as it stands, as invariants  *)

Queries == {q \in Instant \X Instant : q[1] <= q[2]}

Covers(p, t) == p.startTime <= t /\ t <= p.endTime

\* A reply loses no data that starts after the query does: an instant of
\* the query that a held packet starting at or after the query's start
\* covers is covered by some packet of the reply, although the copy loop
\* stops early and packets may overlap.
ReplyCoversQuery ==
    \A q \in Queries : \A t \in Instant : \A p \in Held(mDeque) :
        /\ q[1] <= t /\ t <= q[2]
        /\ q[1] <= p.startTime /\ Covers(p, t)
        => \E r \in Held(GetPackets(mDeque, q[1], q[2])) : Covers(r, t)

\* The query falls in the gap in front of the i-th packet: what comes before
\* the gap ends before the query, what comes after it starts after it.
FallsInGap(q, i) ==
    /\ i > 1 => mDeque[i - 1].endTime < q[1]
    /\ q[2] < mDeque[i].startTime

\* A reply is a run of neighbours of the deque, and each of its packets has
\* data between the start and the end of the query.  There is one exception,
\* which streamDeque.hpp does not mention: a query that falls in a gap is
\* answered with the packet behind the gap, and with that one alone (lines
\* 228-232 and 245-249).  Its data are those of after the query.
ReplyIsARun ==
    \A q \in Queries :
        LET reply == GetPackets(mDeque, q[1], q[2])
        IN  /\ \E i \in 0..Len(mDeque) :
                   reply = SubSeq(mDeque, i + 1, i + Len(reply))
            /\ \/ \A k \in 1..Len(reply) : HasDataBetween(reply[k], q[1], q[2])
               \/ \E i \in 1..Len(mDeque) :
                     FallsInGap(q, i) /\ reply = <<mDeque[i]>>

\* The assertion before the copy loop (line 253): the first iterator is in
\* front of the last one.  The loop `it != it1' would otherwise run past
\* the end of the deque.
IteratorsOrdered ==
    \A q \in Queries :
        /\ mDeque # <<>>
        /\ StartsAtOrAfter(mDeque, q[1]) <= Len(mDeque)
        => FirstMatch(mDeque, q[1]) <= EndMatch(mDeque, q[2])

\* For packets that do not touch each other, a query that starts no later
\* than the newest packet gets exactly the packets with data in its range,
\* as streamDeque.hpp line 53 promises, when there are any.
ExactForDisjointPackets ==
    (\A i \in 2..Len(mDeque) : mDeque[i - 1].endTime < mDeque[i].startTime)
    => \A q \in Queries :
         LET inRange == {p \in Held(mDeque) : HasDataBetween(p, q[1], q[2])}
         IN  /\ inRange # {}
             /\ q[1] <= Back(mDeque).startTime
             => Held(GetPackets(mDeque, q[1], q[2])) = inRange

-----------------------------------------------------------------------------
(* What comments, assertions and documentation say and the code does not   *)
(* do: each of these is refuted by a run of its own.                       *)

\* streamDeque.hpp line 53: a query gets the packets with data between its
\* start and end time.  It may get nothing although a packet has such data
\* (line 218), and a packet that has none (line 245).
RepliesAreExact ==
    \A q \in Queries :
        Held(GetPackets(mDeque, q[1], q[2]))
            = {p \in Held(mDeque) : HasDataBetween(p, q[1], q[2])}

\* The assertion at line 269: the copy loop takes all of it0 .. it1 - 1.
CopiesWholeRange ==
    \A q \in Queries :
        LET it0 == FirstMatch(mDeque, q[1])
            it1 == EndMatch(mDeque, q[2])
        IN  /\ mDeque # <<>>
            /\ StartsAtOrAfter(mDeque, q[1]) <= Len(mDeque)
            /\ q[1] # q[2]
            /\ it0 < it1
            => Len(GetPackets(mDeque, q[1], q[2])) = it1 - it0

-----------------------------------------------------------------------------
(* When every packet has at least two samples, so that it ends after it    *)
(* starts, the deque implements the abstract cache.                        *)

MultipleSamples == \A p \in Packet : p.startTime < p.endTime

Abstract == INSTANCE RecentPackets
                WITH cache <- Held(mDeque), Capacity <- MaximumNumberOfPackets

\* The deque keeps the first packet of each start time, prefers recent data
\* when full and otherwise loses packets only to expiry.
ImplementsRecentPackets == Abstract!Spec
=============================================================================
