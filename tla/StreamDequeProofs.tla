------------------------- MODULE StreamDequeProofs -------------------------
(***************************************************************************)
(* Proofs about StreamDeque: whatever the feed delivers, in whatever       *)
(* order, and whatever capacity the deque has.                             *)
(***************************************************************************)
EXTENDS StreamDeque, PacketDequeLemmas, FunctionTheorems

\* The assumption on the constant Packet is what the lemmas ask of a set.
LEMMA PacketsAreTimed == Timed(Packet)
BY PacketAssumption DEF Timed

-----------------------------------------------------------------------------
(* The inductive invariant: SortedDeque alone is not inductive without the *)
(* types, and addPacket pops at most one packet, so that BoundedDeque must *)
(* hold before it for the deque to fit after it.                           *)

\* The constructor's first packet makes a deque with the invariant.
LEMMA InitInvariant == Init => DequeInvariant
<1> SUFFICES ASSUME Init
             PROVE  DequeInvariant
  OBVIOUS
<1>1. PICK p \in Packet : mDeque = Added(<<>>, p, MaximumNumberOfPackets)
  BY DEF Init
<1>2. mDeque = <<p>>
  BY <1>1 DEF Added
<1>3. mDeque \in Seq(Packet) /\ Len(mDeque) = 1
  BY <1>2
<1>4. Sorted(mDeque)
  BY <1>2 DEF Sorted
<1>5. Len(mDeque) <= MaximumNumberOfPackets
  BY <1>3, MaximumAssumption
<1>6. mLastUpdate \in 0..MaxClock /\ now \in 0..MaxClock
  BY ClockAssumption DEF Init
<1> QED  BY <1>3, <1>4, <1>5, <1>6
         DEF DequeInvariant, TypeOK, SortedDeque, BoundedDeque

\* Every call keeps the deque well typed, sorted and within its capacity.
LEMMA NextInvariant == DequeInvariant /\ [Next]_vars => DequeInvariant'
<1> SUFFICES ASSUME DequeInvariant, [Next]_vars
             PROVE  DequeInvariant'
  OBVIOUS
<1> USE DEF DequeInvariant, TypeOK, SortedDeque, BoundedDeque
<1>1. ASSUME NEW p \in Packet, AddPacket(p)
      PROVE  DequeInvariant'
  <2>1. /\ mDeque' \in Seq(Packet)
        /\ Sorted(mDeque')
        /\ Len(mDeque') <= MaximumNumberOfPackets
    BY <1>1, PacketsAreTimed, MaximumAssumption, AddedProperty DEF AddPacket
  <2>2. mLastUpdate' \in 0..MaxClock /\ now' \in 0..MaxClock
    BY <1>1, ClockAssumption DEF AddPacket
  <2> QED  BY <2>1, <2>2
<1>2. ASSUME NEW t \in Instant, RemoveExpiredPackets(t)
      PROVE  DequeInvariant'
  <2>1. t \in Int
    BY InstantAssumption
  <2>2. /\ mDeque' \in Seq(Packet)
        /\ Sorted(mDeque')
        /\ Len(mDeque') <= Len(mDeque)
    BY <1>2, <2>1, PacketsAreTimed, UnexpiredProperty DEF RemoveExpiredPackets
  <2>3. Len(mDeque') <= MaximumNumberOfPackets
    <3>1. Len(mDeque) \in Nat /\ Len(mDeque') \in Nat  BY <2>2
    <3> QED  BY <2>2, <3>1, MaximumAssumption
  <2> QED  BY <1>2, <2>2, <2>3 DEF RemoveExpiredPackets
<1>3. CASE Tick
  BY <1>3, ClockAssumption DEF Tick
<1>4. CASE UNCHANGED vars
  BY <1>4 DEF vars
<1> QED  BY <1>1, <1>2, <1>3, <1>4 DEF Next

\* The invariant holds of the deque at all times.
LEMMA SpecInvariant == Spec => []DequeInvariant
BY InitInvariant, NextInvariant, PTL DEF Spec

-----------------------------------------------------------------------------

\* The deque holds packets of the feed and the update time never runs ahead
\* of the clock.
THEOREM TypeCorrect == Spec => []TypeOK
BY SpecInvariant, PTL DEF DequeInvariant

\* The deque of addPacket and removeExpiredPackets is always sorted, which
\* is what the debug assertion at line 165 checks after one of the paths and
\* what both binary searches assume.
THEOREM DequeIsSorted == Spec => []SortedDeque
BY SpecInvariant, PTL DEF DequeInvariant

\* The deque never holds more than mMaximumNumberOfPackets packets.
THEOREM DequeIsBounded == Spec => []BoundedDeque
BY SpecInvariant, PTL DEF DequeInvariant

-----------------------------------------------------------------------------
(* What one call of addPacket does to a sorted, bounded deque              *)

\* A packet addPacket drops was held by a full deque and is no newer than
\* any packet that stays.
LEMMA EvictionStep ==
    ASSUME DequeInvariant, NEW p \in Packet, AddPacket(p),
           NEW q \in Held(mDeque) \ Held(mDeque')
    PROVE  /\ Len(mDeque) = MaximumNumberOfPackets
           /\ \A r \in Held(mDeque') : q.startTime <= r.startTime
<1> DEFINE max == MaximumNumberOfPackets
<1>1. mDeque' = Added(mDeque, p, max) /\ mDeque' # mDeque
  BY DEF AddPacket
<1>2. PICK s \in Seq(Packet) : InsertsAs(mDeque, p, max, s)
  BY <1>1, PacketsAreTimed, MaximumAssumption, AddedCases
     DEF DequeInvariant, TypeOK, SortedDeque, Skips
<1>3. Held(mDeque) \subseteq Held(s)
  BY <1>2 DEF InsertsAs
<1>4. IsFull(mDeque, max) /\ mDeque' = Tail(s)
  BY <1>1, <1>2, <1>3 DEF InsertsAs
<1>5. s # <<>> /\ Sorted(s)
  BY <1>2 DEF InsertsAs, DequeInvariant, TypeOK
<1>6. /\ Held(s) = Held(mDeque') \cup {s[1]}
      /\ \A r \in Held(mDeque') : Precedes(s[1], r)
      /\ mDeque' \in Seq(Packet)
  BY <1>4, <1>5, TailSorted
<1>7. q = s[1]
  BY <1>3, <1>6
<1>8. \A r \in Held(mDeque') : q.startTime <= r.startTime
  <2>1. q \in Packet  BY DEF DequeInvariant, TypeOK, Held
  <2>2. \A r \in Held(mDeque') : r \in Packet  BY <1>6 DEF Held
  <2> QED  BY <1>6, <1>7, <2>1, <2>2, PacketAssumption DEF Precedes
<1>9. Len(mDeque) = max
  BY <1>4, MaximumAssumption DEF IsFull, DequeInvariant, TypeOK, BoundedDeque
<1> QED  BY <1>8, <1>9

\* addPacket gives up a packet only when the deque is full, and then one no
\* newer than those it keeps: backfill never costs the most recent data.
THEOREM OnlyOldestIsEvicted == Spec => EvictsOnlyOldest
<1>1. DequeInvariant /\ [Next]_vars =>
        [\A p \in Packet : AddPacket(p) =>
            \A q \in Held(mDeque) \ Held(mDeque') :
               /\ Len(mDeque) = MaximumNumberOfPackets
               /\ \A r \in Held(mDeque') : q.startTime <= r.startTime]_vars
  BY EvictionStep
<1> QED  BY <1>1, SpecInvariant, PTL DEF Spec, EvictsOnlyOldest

\* addPacket ends with the offered start time in the deque, or it was full
\* of later ones; and every path that can be taken stores mLastUpdate.
LEMMA OfferStep ==
    ASSUME DequeInvariant, NEW p \in Packet, AddPacket(p)
    PROVE  /\ mLastUpdate' = now
           /\ \/ \E q \in Held(mDeque') : q.startTime = p.startTime
              \/ /\ Len(mDeque) = MaximumNumberOfPackets
                 /\ \A q \in Held(mDeque) : p.startTime < q.startTime
<1> DEFINE max == MaximumNumberOfPackets
<1>1. mDeque' = Added(mDeque, p, max)
  BY DEF AddPacket
<1>2. /\ MarksUpdate(mDeque, p, max)
      /\ \/ Skips(mDeque, p, max)
         \/ \E s \in Seq(Packet) : InsertsAs(mDeque, p, max, s)
  BY PacketsAreTimed, MaximumAssumption, AddedCases
     DEF DequeInvariant, TypeOK, SortedDeque
<1>3. mLastUpdate' = now
  BY <1>2 DEF AddPacket
<1>4. IsFull(mDeque, max) => Len(mDeque) = max
  BY MaximumAssumption DEF IsFull, DequeInvariant, TypeOK, BoundedDeque
<1>5. /\ p.startTime \in Int
      /\ \A i \in 1..Len(mDeque) : mDeque[i].startTime \in Int
  BY PacketAssumption DEF DequeInvariant, TypeOK
<1>6. CASE Skips(mDeque, p, max)
  <2>1. CASE \E q \in Held(mDeque) : q.startTime = p.startTime
    BY <1>1, <1>3, <1>6, <2>1 DEF Skips
  <2>2. CASE /\ IsFull(mDeque, max) /\ mDeque # <<>>
             /\ p.startTime < mDeque[1].startTime
    <3>1. 1 \in 1..Len(mDeque)
      BY <2>2, EmptySeq DEF DequeInvariant, TypeOK
    <3>2. \A i \in 1..Len(mDeque) : p.startTime < mDeque[i].startTime
      <4> TAKE i \in 1..Len(mDeque)
      <4>1. mDeque[1].startTime <= mDeque[i].startTime
        BY <3>1, PacketsAreTimed, StartsNondecreasing
           DEF DequeInvariant, TypeOK, SortedDeque
      <4> QED  BY <1>5, <2>2, <3>1, <4>1
    <3> QED  BY <1>3, <1>4, <2>2, <3>2 DEF Held
  <2> QED  BY <1>6, <2>1, <2>2 DEF Skips
<1>7. ASSUME NEW s \in Seq(Packet), InsertsAs(mDeque, p, max, s)
      PROVE  \/ \E q \in Held(mDeque') : q.startTime = p.startTime
             \/ /\ Len(mDeque) = MaximumNumberOfPackets
                /\ \A q \in Held(mDeque) : p.startTime < q.startTime
  <2>1. p \in Held(s) /\ s # <<>> /\ Sorted(s)
    BY <1>7 DEF InsertsAs, DequeInvariant, TypeOK
  <2>2. CASE mDeque' = s
    BY <2>1, <2>2
  <2>3. CASE p \in Held(mDeque')
    BY <2>3
  <2> QED  BY <1>1, <1>7, <2>2, <2>3 DEF InsertsAs
<1> QED  BY <1>2, <1>3, <1>6, <1>7

\* Every packet offered to the deque is answered: its start time is in the
\* deque afterwards unless a full deque holds only later ones, and the
\* stream is marked as updated on every path.
THEOREM EveryOfferIsAnswered == Spec => OfferIsAnswered
<1>1. DequeInvariant /\ [Next]_vars =>
        [\A p \in Packet : AddPacket(p) =>
          /\ mLastUpdate' = now
          /\ \/ \E q \in Held(mDeque') : q.startTime = p.startTime
             \/ /\ Len(mDeque) = MaximumNumberOfPackets
                /\ \A q \in Held(mDeque) : p.startTime < q.startTime]_vars
  BY OfferStep
<1> QED  BY <1>1, SpecInvariant, PTL DEF Spec, OfferIsAnswered

-----------------------------------------------------------------------------
(* The replies, for every query of a sorted deque                          *)

\* The times of a query and of the packets held.
LEMMA QueryTypes ==
    ASSUME DequeInvariant, NEW q \in Queries
    PROVE  /\ q[1] \in Int /\ q[2] \in Int /\ q[1] <= q[2]
           /\ Timed(Packet) /\ mDeque \in Seq(Packet) /\ Sorted(mDeque)
           /\ Len(mDeque) \in Nat
           /\ \A j \in 1..Len(mDeque) :
                 /\ mDeque[j].startTime \in Int /\ mDeque[j].endTime \in Int
                 /\ mDeque[j].startTime <= mDeque[j].endTime
<1>1. mDeque \in Seq(Packet) /\ Sorted(mDeque)
  BY DEF DequeInvariant, TypeOK, SortedDeque
<1>2. q[1] \in Int /\ q[2] \in Int /\ q[1] <= q[2]
  BY InstantAssumption DEF Queries
<1> QED  BY <1>1, <1>2, PacketsAreTimed DEF Timed

\* The first iterator is never behind the last one.
LEMMA IteratorsStep == DequeInvariant => IteratorsOrdered
<1> SUFFICES ASSUME DequeInvariant, NEW q \in Queries, mDeque # <<>>,
                    StartsAtOrAfter(mDeque, q[1]) <= Len(mDeque)
             PROVE  FirstMatch(mDeque, q[1]) <= EndMatch(mDeque, q[2])
  BY DEF IteratorsOrdered
<1> QED  BY QueryTypes, IteratorsProperty

\* The assertion before the copy loop always holds, so that the loop ends.
THEOREM IteratorsAreOrdered == Spec => []IteratorsOrdered
BY IteratorsStep, SpecInvariant, PTL

\* What a reply with packets is, and where its iterators point.
LEMMA ReplyFacts ==
    ASSUME DequeInvariant, NEW q \in Queries,
           NEW p \in Held(mDeque), q[1] <= p.startTime
    PROVE  mDeque # <<>> /\ StartsAtOrAfter(mDeque, q[1]) <= Len(mDeque)
<1> DEFINE it == StartsAtOrAfter(mDeque, q[1])
<1>1. PICK j \in 1..Len(mDeque) : p = mDeque[j]
  BY DEF Held
<1>2. /\ it \in 1..(Len(mDeque) + 1)
      /\ \A i \in 1..Len(mDeque) : i >= it <=> mDeque[i].startTime >= q[1]
  BY QueryTypes, StartsAtOrAfterProperty
<1> HIDE DEF it
<1>3. j >= it
  BY <1>1, <1>2, QueryTypes
<1> QED  BY <1>1, <1>2, <1>3, QueryTypes DEF it

\* The reply covers what the deque covers from the query's start on.
LEMMA CoversStep == DequeInvariant => ReplyCoversQuery
<1> SUFFICES ASSUME DequeInvariant, NEW q \in Queries, NEW t \in Instant,
                    NEW p \in Held(mDeque), q[1] <= t, t <= q[2],
                    q[1] <= p.startTime, Covers(p, t)
             PROVE  \E r \in Held(GetPackets(mDeque, q[1], q[2])) : Covers(r, t)
  BY DEF ReplyCoversQuery
<1> DEFINE n == Len(mDeque)
           it == StartsAtOrAfter(mDeque, q[1])
           it0 == FirstMatch(mDeque, q[1])
           it1 == EndMatch(mDeque, q[2])
           reply == GetPackets(mDeque, q[1], q[2])
<1>1. mDeque # <<>> /\ it <= n
  BY ReplyFacts
<1>2. /\ it \in 1..n /\ it0 \in 1..n /\ it1 \in 1..(n + 1) /\ it0 <= it1
      /\ it0 = it \/ (it0 = it - 1 /\ mDeque[it].startTime > q[1])
      /\ \A j \in 1..n : j >= it <=> mDeque[j].startTime >= q[1]
      /\ \A j \in 1..n : j < it1 <=> mDeque[j].startTime <= q[2]
  BY <1>1, QueryTypes, IteratorsProperty
<1>3. PICK k \in it0..n :
          /\ reply = SubSeq(mDeque, it0, k)
          /\ \/ k = it0 /\ (q[1] = q[2] \/ it0 = it1)
             \/ /\ k < it1 /\ it0 < it1
                /\ k = it1 - 1 \/ q[2] <= mDeque[k].endTime
  <2>1. ~(mDeque = <<>> \/ it = n + 1)
    BY <1>1, QueryTypes
  <2> HIDE DEF n, it, it0, it1, reply
  <2>2. \E k \in it0..n :
          /\ reply = SubSeq(mDeque, it0, k)
          /\ \/ k = it0 /\ (q[1] = q[2] \/ it0 = it1)
             \/ /\ k < it1 /\ it0 < it1
                /\ k = it1 - 1 \/ q[2] <= mDeque[k].endTime
    BY <2>1, QueryTypes, ReplyProperty DEF n, it, it0, it1, reply
  <2> QED  BY <2>2
<1>4. \A j \in it0..k : mDeque[j] \in Held(reply)
  BY <1>2, <1>3, QueryTypes, RangeProperty
<1>5. PICK m \in 1..n : p = mDeque[m]
  BY DEF Held
<1> HIDE DEF it, it0, it1, reply
<1>6. t \in Int /\ p.startTime <= t /\ t <= p.endTime
  BY InstantAssumption DEF Covers
<1>7. it <= m /\ it0 <= m /\ m < it1
  <2>1. mDeque[m].startTime >= q[1]
    BY <1>5, QueryTypes
  <2>2. mDeque[m].startTime <= q[2]
    BY <1>5, <1>6, QueryTypes
  <2>3. m >= it /\ m < it1
    BY <1>2, <1>5, <2>1, <2>2
  <2> QED  BY <1>2, <1>5, <2>3
<1>8. CASE k = it0 /\ (q[1] = q[2] \/ it0 = it1)
  <2>1. q[1] = q[2] /\ mDeque[m].startTime = q[1] /\ t = q[1]
    <3>1. q[1] = q[2]
      BY <1>7, <1>8
    <3> QED  BY <1>5, <1>6, <3>1, QueryTypes
  <2>2. mDeque[it].startTime <= q[1]
    BY <1>2, <1>7, <2>1, StartsNondecreasing, QueryTypes
  <2>3. it0 = it
    <3>1. mDeque[it].startTime \in Int /\ q[1] \in Int
      BY <1>2, QueryTypes
    <3> QED  BY <1>2, <2>2, <3>1
  <2>4. mDeque[it].startTime <= t /\ t <= mDeque[it].endTime
    BY <1>2, <2>1, <2>2, QueryTypes
  <2>5. it \in it0..k
    BY <1>2, <1>3, <2>3
  <2> QED  BY <1>4, <2>4, <2>5 DEF Covers, reply
<1>9. CASE m <= k
  <2>1. m \in it0..k
    BY <1>2, <1>7, <1>9
  <2> QED  BY <1>4, <1>5, <1>6, <2>1 DEF Covers, reply
<1>10. CASE /\ ~(m <= k) /\ k < it1
            /\ k = it1 - 1 \/ q[2] <= mDeque[k].endTime
  <2>1. k \in 1..n /\ k <= m /\ k # it1 - 1
    BY <1>2, <1>3, <1>7, <1>10
  <2>2. q[2] <= mDeque[k].endTime
    BY <1>10, <2>1
  <2>3. mDeque[k].startTime <= mDeque[m].startTime
    BY <2>1, StartsNondecreasing, QueryTypes
  <2>4. mDeque[k].startTime <= t /\ t <= mDeque[k].endTime
    <3>1. /\ mDeque[k].startTime \in Int /\ mDeque[k].endTime \in Int
          /\ mDeque[m].startTime \in Int /\ q[2] \in Int
      BY <1>5, <2>1, QueryTypes
    <3> QED  BY <1>5, <1>6, <2>2, <2>3, <3>1
  <2>5. k \in it0..k
    BY <1>3
  <2> QED  BY <1>4, <2>4, <2>5 DEF Covers, reply
<1> QED  BY <1>3, <1>8, <1>9, <1>10

\* A reply loses no data from the query's start on, though the copy loop
\* stops early and packets overlap.
THEOREM RepliesCoverQueries == Spec => []ReplyCoversQuery
BY CoversStep, SpecInvariant, PTL

\* What is replied are neighbours with data in the query, or the packet behind
\* the gap that the query falls in.
LEMMA RunStep == DequeInvariant => ReplyIsARun
<1> SUFFICES ASSUME DequeInvariant, NEW q \in Queries
             PROVE  LET reply == GetPackets(mDeque, q[1], q[2])
                    IN  /\ \E i \in 0..Len(mDeque) :
                               reply = SubSeq(mDeque, i + 1, i + Len(reply))
                        /\ \/ \A k \in 1..Len(reply) :
                                 HasDataBetween(reply[k], q[1], q[2])
                           \/ \E i \in 1..Len(mDeque) :
                                 FallsInGap(q, i) /\ reply = <<mDeque[i]>>
  BY DEF ReplyIsARun
<1> DEFINE n == Len(mDeque)
           it == StartsAtOrAfter(mDeque, q[1])
           it0 == FirstMatch(mDeque, q[1])
           it1 == EndMatch(mDeque, q[2])
           reply == GetPackets(mDeque, q[1], q[2])
<1>1. \/ \A k \in 1..Len(reply) : HasDataBetween(reply[k], q[1], q[2])
      \/ \E i \in 1..n : FallsInGap(q, i) /\ reply = <<mDeque[i]>>
  <2>1. \/ \A k \in 1..Len(reply) : HasDataBetween(reply[k], q[1], q[2])
        \/ \E i \in 1..n :
              /\ i > 1 => mDeque[i - 1].endTime < q[1]
              /\ q[2] < mDeque[i].startTime
              /\ reply = <<mDeque[i]>>
    BY QueryTypes, ReplyInQuery
  <2> HIDE DEF reply, n
  <2> QED  BY <2>1, Zenon DEF FallsInGap
<1>2. \E i \in 0..n : reply = SubSeq(mDeque, i + 1, i + Len(reply))
  <2>1. CASE reply = <<>>
    <3>1. SubSeq(mDeque, 0 + 1, 0) = <<>>
      BY SubSeqEmpty
    <3>2. 0 \in 0..n /\ Len(reply) = 0 /\ 0 + Len(reply) = 0
      BY <2>1, QueryTypes
    <3> HIDE DEF reply
    <3> QED  BY <2>1, <3>1, <3>2
  <2>2. CASE reply # <<>>
    <3>1. mDeque # <<>> /\ it <= n
      BY <2>2, QueryTypes, ReplyProperty
    <3>2. PICK k \in it0..n : reply = SubSeq(mDeque, it0, k)
      BY <3>1, QueryTypes, ReplyProperty
    <3>3. it0 \in 1..n
      BY <3>1, QueryTypes, IteratorsProperty
    <3>4. Len(reply) = k - it0 + 1
      <4>1. mDeque \in Seq(Packet) /\ it0 \in 1..Len(mDeque) /\ k \in it0..Len(mDeque)
        BY <3>2, <3>3, QueryTypes
      <4> HIDE DEF it0, it1, reply
      <4>2. Len(SubSeq(mDeque, it0, k)) = k - it0 + 1
        BY <4>1, RangeProperty
      <4> QED  BY <3>2, <4>2
    <3> HIDE DEF it, it0, it1, reply
    <3>5. it0 - 1 \in 0..n /\ (it0 - 1) + 1 = it0 /\ (it0 - 1) + Len(reply) = k
      BY <3>2, <3>3, <3>4, QueryTypes
    <3> QED  BY <3>2, <3>5
  <2> QED  BY <2>1, <2>2
<1> QED  BY <1>1, <1>2

\* A reply is a range of the deque, all of it with data in the query; but a
\* query that falls in a gap is answered with the packet behind the gap.
THEOREM RepliesAreRuns == Spec => []ReplyIsARun
BY RunStep, SpecInvariant, PTL

\* Packets that do not touch their neighbours touch no others.
LEMMA DisjointFar ==
    ASSUME DequeInvariant,
           \A i \in 2..Len(mDeque) : mDeque[i - 1].endTime < mDeque[i].startTime,
           NEW i \in 1..Len(mDeque), NEW j \in 1..Len(mDeque), i < j
    PROVE  mDeque[i].endTime < mDeque[j].startTime
<1>1. /\ i + 1 \in 2..Len(mDeque) /\ (i + 1) - 1 = i /\ i + 1 <= j
      /\ i + 1 \in 1..Len(mDeque) /\ Len(mDeque) \in Nat
  BY DEF DequeInvariant, TypeOK
<1>2. mDeque[i].endTime < mDeque[i + 1].startTime
  BY <1>1
<1>3. mDeque[i + 1].startTime <= mDeque[j].startTime
  BY <1>1, PacketsAreTimed, StartsNondecreasing DEF DequeInvariant, TypeOK, SortedDeque
<1>4. /\ mDeque[i].endTime \in Int /\ mDeque[i + 1].startTime \in Int
      /\ mDeque[j].startTime \in Int
  BY <1>1, PacketsAreTimed DEF Timed, DequeInvariant, TypeOK
<1> QED  BY <1>2, <1>3, <1>4

\* Without overlaps the two iterators delimit the packets with data in the
\* query's range, and the copy loop takes all of them.
LEMMA ExactStep == DequeInvariant => ExactForDisjointPackets
<1> DEFINE inRange(q) == {p \in Held(mDeque) : /\ p.startTime <= q[2]
                                               /\ q[1] <= p.endTime}
<1> SUFFICES ASSUME DequeInvariant,
                    \A i \in 2..Len(mDeque) :
                        mDeque[i - 1].endTime < mDeque[i].startTime,
                    NEW q \in Queries, inRange(q) # {},
                    q[1] <= Back(mDeque).startTime
             PROVE  Held(GetPackets(mDeque, q[1], q[2])) = inRange(q)
  BY Zenon DEF ExactForDisjointPackets, HasDataBetween
<1> DEFINE n == Len(mDeque)
           it == StartsAtOrAfter(mDeque, q[1])
           it0 == FirstMatch(mDeque, q[1])
           it1 == EndMatch(mDeque, q[2])
           reply == GetPackets(mDeque, q[1], q[2])
<1>1. mDeque # <<>> /\ n \in 1..n
  <2>1. PICK j \in 1..n : TRUE
    BY DEF Held
  <2> QED  BY <2>1, QueryTypes
<1>2. it <= n
  BY <1>1, ReplyFacts DEF Held, Back
<1>3. /\ it \in 1..n /\ it0 \in 1..n /\ it1 \in 1..(n + 1) /\ it0 <= it1
      /\ it0 = it \/ (it0 = it - 1 /\ mDeque[it].startTime > q[1])
      /\ \A j \in 1..n : j >= it <=> mDeque[j].startTime >= q[1]
      /\ \A j \in 1..n : j >= it0 => q[1] <= mDeque[j].endTime
      /\ \A j \in 1..n : j < it1 <=> mDeque[j].startTime <= q[2]
  BY <1>1, <1>2, QueryTypes, IteratorsProperty
<1>4. PICK k \in it0..n :
          /\ reply = SubSeq(mDeque, it0, k)
          /\ \/ k = it0 /\ (q[1] = q[2] \/ it0 = it1)
             \/ /\ k < it1 /\ it0 < it1
                /\ k = it1 - 1 \/ q[2] <= mDeque[k].endTime
  <2>1. ~(mDeque = <<>> \/ it = n + 1)
    BY <1>1, <1>2, QueryTypes
  <2> HIDE DEF n, it, it0, it1, reply
  <2>2. \E k \in it0..n :
          /\ reply = SubSeq(mDeque, it0, k)
          /\ \/ k = it0 /\ (q[1] = q[2] \/ it0 = it1)
             \/ /\ k < it1 /\ it0 < it1
                /\ k = it1 - 1 \/ q[2] <= mDeque[k].endTime
    BY <2>1, QueryTypes, ReplyProperty DEF n, it, it0, it1, reply
  <2> QED  BY <2>2
<1>5. /\ \A j \in it0..k : mDeque[j] \in Held(reply)
      /\ \A p \in Held(reply) : \E j \in it0..k : p = mDeque[j]
  <2>1. mDeque \in Seq(Packet) /\ it0 \in 1..Len(mDeque) /\ k \in it0..Len(mDeque)
    BY <1>3, <1>4, QueryTypes
  <2> HIDE DEF it0, it1, reply
  <2>2. /\ \A j \in it0..k : mDeque[j] \in Held(SubSeq(mDeque, it0, k))
        /\ \A p \in Held(SubSeq(mDeque, it0, k)) : \E j \in it0..k : p = mDeque[j]
    BY <2>1, RangeProperty
  <2> QED  BY <1>4, <2>2, Zenon
<1> HIDE DEF it, it0, it1, reply
<1>6. ASSUME NEW j \in 1..n, q[1] <= mDeque[j].endTime
      PROVE  j >= it0
  <2> SUFFICES ASSUME j < it0
               PROVE  FALSE
    BY <1>3
  <2>1. mDeque[j].endTime < mDeque[it0].startTime
    BY <1>3, DisjointFar
  <2>2. CASE it0 = it - 1
    <3>1. mDeque[it0].startTime < q[1]
      <4>1. ~(it0 >= it) /\ it0 \in 1..n
        BY <1>3, <2>2
      <4>2. ~(mDeque[it0].startTime >= q[1])
        BY <1>3, <4>1
      <4>3. mDeque[it0].startTime \in Int /\ q[1] \in Int
        BY <4>1, QueryTypes
      <4> QED  BY <4>2, <4>3
    <3>2. /\ mDeque[j].endTime \in Int /\ mDeque[it0].startTime \in Int
          /\ q[1] \in Int
      BY <1>3, QueryTypes
    <3> QED  BY <1>6, <2>1, <3>1, <3>2
  <2>3. CASE it0 = it
    <3>1. it - 1 \in 1..n /\ j <= it - 1 /\ it \in 2..n
      BY <1>3, <2>3
    <3>2. mDeque[j].endTime >= q[1] /\ mDeque[it].startTime > q[1]
      <4>1. /\ mDeque[j].endTime \in Int /\ mDeque[it].startTime \in Int
            /\ q[1] \in Int
        BY <1>3, QueryTypes
      <4>2. mDeque[j].endTime < mDeque[it].startTime
        BY <2>1, <2>3
      <4> QED  BY <1>6, <4>1, <4>2
    <3>3. j = it - 1
      <4> SUFFICES ASSUME j < it - 1
                   PROVE  FALSE
        BY <3>1
      <4>1. mDeque[j].endTime < mDeque[it - 1].startTime
        BY <3>1, DisjointFar
      <4>2. ~(it - 1 >= it) /\ ~(mDeque[it - 1].startTime >= q[1])
        <5>1. ~(it - 1 >= it)
          BY <1>3
        <5> QED  BY <1>3, <3>1, <5>1
      <4>3. /\ mDeque[j].endTime \in Int /\ mDeque[it - 1].startTime \in Int
            /\ q[1] \in Int
        BY <3>1, QueryTypes
      <4> QED  BY <3>2, <4>1, <4>2, <4>3
    <3>4. ~(mDeque[it - 1].endTime < q[1])
      <4>1. mDeque[it - 1].endTime \in Int /\ q[1] \in Int
        BY <3>1, QueryTypes
      <4> QED  BY <3>2, <3>3, <4>1
    <3>5. it0 = it - 1
      BY <3>1, <3>2, <3>4 DEF FirstMatch, it, it0
    <3> QED  BY <1>3, <2>3, <3>5
  <2> QED  BY <1>3, <2>2, <2>3
<1>7. PICK w \in 1..n : mDeque[w].startTime <= q[2] /\ q[1] <= mDeque[w].endTime
  BY DEF Held
<1>8. it0 <= w /\ w < it1
  BY <1>3, <1>6, <1>7
<1>9. k = it1 - 1
  <2>1. k < it1 /\ (k = it1 - 1 \/ q[2] <= mDeque[k].endTime)
    <3>1. CASE k = it0 /\ q[1] = q[2]
      BY <1>3, <1>8, <3>1, QueryTypes
    <3>2. CASE k = it0 /\ it0 = it1
      BY <1>3, <1>8, <3>2
    <3> QED  BY <1>4, <3>1, <3>2
  <2>2. ASSUME k < it1 - 1
        PROVE  FALSE
    <3>1. k \in 1..n /\ k + 1 \in 1..n /\ k < k + 1 /\ k + 1 < it1
      BY <1>3, <1>4, <2>2
    <3>2. mDeque[k].endTime < mDeque[k + 1].startTime
      BY <3>1, DisjointFar
    <3>3. mDeque[k + 1].startTime <= q[2]
      BY <1>3, <3>1
    <3>4. q[2] <= mDeque[k].endTime
      BY <1>3, <1>4, <2>1, <2>2
    <3>5. /\ mDeque[k].endTime \in Int /\ mDeque[k + 1].startTime \in Int
          /\ q[2] \in Int
      BY <3>1, QueryTypes
    <3> QED  BY <3>2, <3>3, <3>4, <3>5
  <2> QED  BY <1>3, <1>4, <2>1, <2>2
<1>10. Held(reply) \subseteq inRange(q)
  <2> SUFFICES ASSUME NEW p \in Held(reply)
               PROVE  p \in inRange(q)
    OBVIOUS
  <2>1. PICK j \in it0..k : p = mDeque[j]
    BY <1>5
  <2>2. j \in 1..n /\ j >= it0 /\ j < it1
    BY <1>3, <1>4, <1>9, <2>1
  <2> QED  BY <1>3, <2>1, <2>2 DEF Held
<1>11. inRange(q) \subseteq Held(reply)
  <2> SUFFICES ASSUME NEW j \in 1..n, mDeque[j].startTime <= q[2],
                      q[1] <= mDeque[j].endTime
               PROVE  mDeque[j] \in Held(reply)
    BY DEF Held
  <2>1. j \in it0..k
    BY <1>3, <1>6, <1>9
  <2> QED  BY <1>5, <2>1
<1> QED  BY <1>10, <1>11 DEF reply

\* Packets that do not touch each other are found exactly, but for queries
\* that start after the newest packet.
THEOREM DisjointPacketsAreExact == Spec => []ExactForDisjointPackets
BY ExactStep, SpecInvariant, PTL

-----------------------------------------------------------------------------
(* Refinement: with packets of two samples or more the deque is a cache of *)
(* the most recent packets.                                                *)

\* The abstract cache counts as we do.
LEMMA SameCardinality == \A S : Abstract!Cardinality(S) = Cardinality(S)
BY Zenon DEF Abstract!Cardinality, Cardinality

\* Then no start time is repeated, so that the deque has as many places as
\* packets.
LEMMA HeldCardinality ==
    ASSUME MultipleSamples, DequeInvariant
    PROVE  Cardinality(Held(mDeque)) = Len(mDeque)
<1> DEFINE n == Len(mDeque)
           f == [i \in 1..n |-> mDeque[i]]
<1>1. n \in Nat /\ \A i \in 1..n : mDeque[i] \in Packet
  BY DEF DequeInvariant, TypeOK
<1>2. ASSUME NEW i \in 1..n, NEW j \in 1..n, i < j
      PROVE  mDeque[i] # mDeque[j]
  <2>1. Precedes(mDeque[i], mDeque[j])
    BY <1>2 DEF DequeInvariant, SortedDeque, Sorted
  <2> QED  BY <1>1, <2>1, PacketAssumption DEF Precedes, MultipleSamples
<1>3. \A i, j \in 1..n : i # j => i < j \/ j < i
  BY <1>1
<1>4. f \in Bijection(1..n, Held(mDeque))
  <2>1. f \in [1..n -> Held(mDeque)]  BY DEF Held
  <2>2. \A i, j \in 1..n : f[i] = f[j] => i = j  BY <1>2, <1>3
  <2>3. \A q \in Held(mDeque) : \E i \in 1..n : f[i] = q  BY DEF Held
  <2> QED  BY <2>1, <2>2, <2>3, Fun_IsBij
<1>5. ExistsBijection(1..n, Held(mDeque))
  BY <1>4 DEF ExistsBijection
<1> QED  BY <1>1, <1>5, FS_CountingElements

\* One call of addPacket is one action of the abstract cache, or changes
\* nothing.
LEMMA AddPacketRefines ==
    ASSUME MultipleSamples, DequeInvariant, NEW p \in Packet, AddPacket(p)
    PROVE  \/ Abstract!IgnoreDuplicate(p)
           \/ Abstract!Store(p)
           \/ Abstract!StoreOverOldest(p)
<1> DEFINE max == MaximumNumberOfPackets
           cache == Held(mDeque)
<1>1. mDeque' = Added(mDeque, p, max)
  BY DEF AddPacket
<1>2. \/ Skips(mDeque, p, max)
      \/ \E s \in Seq(Packet) : InsertsAs(mDeque, p, max, s)
  BY PacketsAreTimed, MaximumAssumption, AddedCases
     DEF DequeInvariant, TypeOK, SortedDeque
<1>3. Cardinality(cache) = Len(mDeque) /\ Len(mDeque) \in Nat
  BY HeldCardinality DEF DequeInvariant, TypeOK
<1>4. \A q \in cache : q \in Packet
  BY DEF Held, DequeInvariant, TypeOK
<1>5. IsFull(mDeque, max) => Abstract!Cardinality(cache) >= max
  BY <1>3, SameCardinality, MaximumAssumption DEF IsFull
<1>6. ~IsFull(mDeque, max) => Abstract!Cardinality(cache) < max
  BY <1>3, SameCardinality, MaximumAssumption DEF IsFull
<1>7. CASE Skips(mDeque, p, max)
  <2>1. Held(mDeque') = cache  BY <1>1, <1>7 DEF Skips
  <2>2. CASE \E q \in cache : q.startTime = p.startTime
    BY <2>1, <2>2 DEF Abstract!IgnoreDuplicate
  <2>3. CASE ~\E q \in cache : q.startTime = p.startTime
    <3>1. IsFull(mDeque, max)  BY <1>7, <2>3 DEF Skips
    <3>2. \A q \in cache : p.startTime < q.startTime
      <4>1. p.startTime < mDeque[1].startTime /\ 1 \in 1..Len(mDeque)
        BY <1>7, <2>3, EmptySeq DEF Skips, DequeInvariant, TypeOK
      <4> SUFFICES ASSUME NEW i \in 1..Len(mDeque)
                   PROVE  p.startTime < mDeque[i].startTime
        BY DEF Held
      <4>2. mDeque[1].startTime <= mDeque[i].startTime
        BY <4>1, PacketsAreTimed, StartsNondecreasing
           DEF DequeInvariant, TypeOK, SortedDeque
      <4>3. mDeque[1] \in Packet /\ mDeque[i] \in Packet
        BY <4>1 DEF DequeInvariant, TypeOK
      <4> QED  BY <4>1, <4>2, <4>3, PacketAssumption
    <3>3. p \notin cache  BY <3>2, PacketAssumption
    <3>4. \A q \in cache \cup {p} : p.startTime <= q.startTime
      BY <1>4, <3>2, PacketAssumption
    <3>5. \A q \in cache : ~(q.startTime <= p.startTime)
      BY <1>4, <3>2, PacketAssumption
    <3>6. Abstract!Oldest(cache \cup {p}) = {p}
      BY <3>4, <3>5 DEF Abstract!Oldest
    <3>7. Held(mDeque') = (cache \cup {p}) \ {p}  BY <2>1, <3>3
    <3> QED  BY <1>5, <2>3, <3>1, <3>6, <3>7 DEF Abstract!StoreOverOldest
  <2> QED  BY <2>2, <2>3
<1>8. ASSUME NEW s \in Seq(Packet), InsertsAs(mDeque, p, max, s)
      PROVE  Abstract!Store(p) \/ Abstract!StoreOverOldest(p)
  <2>1. \A q \in cache : q.startTime # p.startTime
    BY <1>4, <1>8, PacketAssumption DEF InsertsAs, MultipleSamples
  <2>2. Held(s) = cache \cup {p}
    BY <1>8 DEF InsertsAs
  <2>3. CASE ~IsFull(mDeque, max) /\ mDeque' = s
    BY <1>6, <2>1, <2>2, <2>3 DEF Abstract!Store
  <2>4. CASE IsFull(mDeque, max) /\ mDeque' = Tail(s)
    <3>1. s # <<>> /\ Sorted(s) /\ s[1] \in Packet
      BY <1>8 DEF InsertsAs, DequeInvariant, TypeOK
    <3>2. /\ Held(s) = Held(mDeque') \cup {s[1]}
          /\ \A q \in Held(mDeque') : Precedes(s[1], q)
          /\ mDeque' \in Seq(Packet)
      BY <2>4, <3>1, TailSorted
    <3>a. \A q \in Held(mDeque') : q \in Packet  BY <3>2 DEF Held
    <3>3. \A q \in Held(mDeque') : /\ s[1].startTime < q.startTime
                                   /\ s[1].startTime <= q.startTime
                                   /\ ~(q.startTime <= s[1].startTime)
      BY <3>1, <3>2, <3>a, PacketAssumption DEF Precedes, MultipleSamples
    <3>4. s[1].startTime <= s[1].startTime  BY <3>1, PacketAssumption
    <3>5. s[1] \notin Held(mDeque')  BY <3>3, <3>4
    <3>6. Abstract!Oldest(Held(s)) = {s[1]}
      BY <3>2, <3>3, <3>4 DEF Abstract!Oldest
    <3>7. Held(mDeque') = Held(s) \ {s[1]}  BY <3>2, <3>5
    <3> QED  BY <1>5, <2>1, <2>2, <2>4, <3>6, <3>7
             DEF Abstract!StoreOverOldest
  <2> QED  BY <1>1, <1>8, <2>3, <2>4 DEF InsertsAs
<1> QED  BY <1>2, <1>7, <1>8

\* With packets of two samples or more, StreamDeque implements the abstract
\* cache: the first packet of a start time stays, a full deque prefers
\* recent data, and nothing else is lost but to expiry.
THEOREM DequeImplementsRecentPackets ==
    MultipleSamples => (Spec => ImplementsRecentPackets)
<1> SUFFICES ASSUME MultipleSamples
             PROVE  Spec => ImplementsRecentPackets
  OBVIOUS
<1>1. Init => Abstract!Init
  <2> SUFFICES ASSUME Init
               PROVE  Abstract!Init
    OBVIOUS
  <2>1. PICK p \in Packet : mDeque = Added(<<>>, p, MaximumNumberOfPackets)
    BY DEF Init
  <2>2. mDeque = <<p>>  BY <2>1 DEF Added
  <2>3. Held(mDeque) = {p}  BY <2>2 DEF Held
  <2> QED  BY <2>3 DEF Abstract!Init
<1>2. DequeInvariant /\ [Next]_vars => [Abstract!Next]_(Held(mDeque))
  <2> SUFFICES ASSUME DequeInvariant, [Next]_vars
               PROVE  Abstract!Next \/ UNCHANGED Held(mDeque)
    OBVIOUS
  <2>1. ASSUME NEW p \in Packet, AddPacket(p)
        PROVE  Abstract!Next
    BY <2>1, AddPacketRefines DEF Abstract!Next
  <2>2. ASSUME NEW t \in Instant, RemoveExpiredPackets(t)
        PROVE  Abstract!Next
    <3>1. Held(mDeque') = {p \in Held(mDeque) : p.endTime >= t}
      BY <2>2, InstantAssumption, PacketsAreTimed, UnexpiredProperty
         DEF RemoveExpiredPackets, DequeInvariant, TypeOK, SortedDeque
    <3> QED  BY <3>1 DEF Abstract!Next, Abstract!Expire
  <2>3. CASE Tick \/ UNCHANGED vars
    BY <2>3 DEF Tick, vars, Held
  <2> QED  BY <2>1, <2>2, <2>3 DEF Next
<1> QED  BY <1>1, <1>2, SpecInvariant, PTL
         DEF Spec, ImplementsRecentPackets, Abstract!Spec
=============================================================================
