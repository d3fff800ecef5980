---------------------------- MODULE PacketDeque ----------------------------
(***************************************************************************)
(* The algorithms of StreamDequeImpl (src/src/streamDeque.cpp) as pure     *)
(* operators.  A deque is a sequence d of packets, d[1] the front and      *)
(* d[Len(d)] the back.  A packet is a record with the fields startTime and *)
(* endTime of struct PacketTime and a field data that stands for the       *)
(* samples: two packets may agree on their times and differ in their data. *)
(*                                                                         *)
(* Nothing here is RECURSIVE, so that the proof modules can use it.        *)
(***************************************************************************)
EXTENDS Integers, Sequences, FiniteSets

Back(d) == d[Len(d)]

Held(d) == {d[i] : i \in 1..Len(d)}

\* p has data at or after qs and at or before qe.
HasDataBetween(p, qs, qe) == p.startTime <= qe /\ qs <= p.endTime

\* p may precede q: it starts sooner, or at the same time with a
\* single sample (the one case in which addPacket appends a second packet
\* with the back's start time).
Precedes(p, q) ==
    \/ p.startTime < q.startTime
    \/ p.startTime = q.startTime /\ p.endTime = p.startTime

Sorted(d) == \A i, j \in 1..Len(d) : i < j => Precedes(d[i], d[j])

\* mDeque.size() >= mMaximumNumberOfPackets
IsFull(d, max) == Len(d) >= max

\* Mutation: the newest packet is appended without making room.
PushBackUnbounded(d, p, max) == Append(d, p)

\* `if (isFull){mDeque.pop_front();}' followed by push_back
PushBack(d, p, max) == Append(IF IsFull(d, max) THEN Tail(d) ELSE d, p)

-----------------------------------------------------------------------------
(* Binary searches.  Both answer the partition point of the sorted deque;  *)
(* Len(d) + 1 is the end iterator.                                         *)

\* std::ranges::upper_bound with the comparators of addPacket and
\* getPackets: the first packet that starts at or after t.  (upper_bound
\* calls comp(value, element), so `element' in the lambda is the value.)
StartsAtOrAfter(d, t) ==
    CHOOSE i \in 1..(Len(d) + 1) :
        \A j \in 1..Len(d) : j >= i <=> d[j].startTime >= t

\* std::ranges::lower_bound in getPackets: the first packet that starts
\* strictly after t.
StartsAfter(d, t) ==
    CHOOSE i \in 1..(Len(d) + 1) :
        \A j \in 1..Len(d) : j >= i <=> d[j].startTime > t

-----------------------------------------------------------------------------
(* addPacket                                                               *)

\* Mutation: a packet that starts with the back is newest, too.
AtLeastAsNew(d, p) == p.startTime >= Back(d).startTime

\* The two tests that make a packet the new back of a non-empty deque: it
\* starts no sooner than the back ends, or (a timing slip) than it starts.
IsNewest(d, p) ==
    \/ p.startTime >= Back(d).endTime
    \/ p.startTime > Back(d).startTime

\* Mutation: an older packet is dropped although there is room for it.
SkippedUnlessNewer(d, p, max) == p.startTime <= d[1].startTime

\* The two early returns that drop the packet before any search.
IsSkippedAtFront(d, p, max) ==
    \/ p.startTime = d[1].startTime
    \/ p.startTime < d[1].startTime /\ IsFull(d, max)

\* Mutation: the packet goes behind the one the search found.
InsertAfter(d, it, p, max) ==
    LET inserted == SubSeq(d, 1, it) \o <<p>> \o SubSeq(d, it + 1, Len(d))
    IN  IF IsFull(d, max) THEN Tail(inserted) ELSE inserted

\* Mutation: a full deque makes room at the wrong end.
InsertDroppingNewest(d, it, p, max) ==
    LET inserted == SubSeq(d, 1, it - 1) \o <<p>> \o SubSeq(d, it, Len(d))
    IN  IF IsFull(d, max) THEN SubSeq(inserted, 1, Len(d)) ELSE inserted

\* mDeque.insert(it, newPacket), then pop_front if the deque was full.
InsertBefore(d, it, p, max) ==
    LET inserted == SubSeq(d, 1, it - 1) \o <<p>> \o SubSeq(d, it, Len(d))
    IN  IF IsFull(d, max) THEN Tail(inserted) ELSE inserted

\* The deque after StreamDequeImpl::addPacket(p).
Added(d, p, max) ==
    LET it == StartsAtOrAfter(d, p.startTime)
    IN  IF d = <<>> THEN <<p>>
        ELSE IF IsNewest(d, p) THEN PushBack(d, p, max)
        ELSE IF IsSkippedAtFront(d, p, max) THEN d
        ELSE IF p.endTime <= d[1].startTime /\ ~IsFull(d, max) THEN <<p>> \o d
        ELSE IF it = Len(d) + 1 \/ d[it].startTime = p.startTime THEN d
        ELSE InsertBefore(d, it, p, max)

\* Whether addPacket stores mLastUpdate: every path does, but the one on
\* which the search runs off the end.
MarksUpdate(d, p, max) ==
    \/ d = <<>>
    \/ IsNewest(d, p)
    \/ IsSkippedAtFront(d, p, max)
    \/ p.endTime <= d[1].startTime /\ ~IsFull(d, max)
    \/ StartsAtOrAfter(d, p.startTime) <= Len(d)

-----------------------------------------------------------------------------
(* removeExpiredPackets                                                    *)

\* The subsequence of d at the indices keep, in order.
Rank(keep, i) == Cardinality({j \in keep : j <= i})

SubsequenceAt(d, keep) ==
    [k \in 1..Cardinality(keep) |-> d[CHOOSE i \in keep : Rank(keep, i) = k]]

\* Mutation: a packet is judged by its start time.
UnexpiredByStart(d, oldestTime) ==
    SubsequenceAt(d, {i \in 1..Len(d) : ~(d[i].startTime < oldestTime)})

\* std::erase_if(mDeque, item.endTime < oldestTime)
Unexpired(d, oldestTime) ==
    SubsequenceAt(d, {i \in 1..Len(d) : ~(d[i].endTime < oldestTime)})

-----------------------------------------------------------------------------
(* getPackets for a query qs <= qe                                         *)

\* Mutation: the packet before is taken whether or not it reaches the query.
FirstMatchUnchecked(d, qs) ==
    LET it == StartsAtOrAfter(d, qs)
    IN  IF it \in 2..Len(d) /\ d[it].startTime > qs THEN it - 1 ELSE it

\* Mutation: the search never steps back.
FirstMatchForward(d, qs) == StartsAtOrAfter(d, qs)

\* it0: where the search lands, moved back by one when the packet before
\* it still reaches into the query.
FirstMatch(d, qs) ==
    LET it == StartsAtOrAfter(d, qs)
    IN  IF /\ it \in 2..Len(d)
           /\ d[it].startTime > qs
           /\ ~(d[it - 1].endTime < qs)
        THEN it - 1
        ELSE it

\* Mutation: a packet that starts when the query ends is left out.
EndMatchExclusive(d, qe) ==
    IF qe < Back(d).startTime THEN StartsAtOrAfter(d, qe) ELSE Len(d) + 1

\* Mutation: it1 is the last candidate, not one past it.
EndMatchInclusive(d, qe) ==
    IF qe < Back(d).startTime THEN StartsAfter(d, qe) - 1 ELSE Len(d)

\* Mutation: the end is not searched for.
EndMatchToEnd(d, qe) == Len(d) + 1

\* it1: one past the last candidate.
EndMatch(d, qe) ==
    IF qe < Back(d).startTime THEN StartsAfter(d, qe) ELSE Len(d) + 1

\* The last packet the copy loop takes from it0 .. it1 - 1: it stops after
\* the first one that reaches the query's end.
CopiedUpTo(d, it0, it1, qe) ==
    CHOOSE k \in it0..(it1 - 1) :
        /\ \A j \in it0..(k - 1) : d[j].endTime < qe
        /\ k = it1 - 1 \/ qe <= d[k].endTime

GetPackets(d, qs, qe) ==
    LET it0 == FirstMatch(d, qs)
        it1 == EndMatch(d, qe)
    IN  IF d = <<>> \/ StartsAtOrAfter(d, qs) = Len(d) + 1 THEN <<>>
        ELSE IF qs = qe \/ it0 = it1 THEN <<d[it0]>>
        ELSE IF it1 < it0 THEN <<>>
        ELSE SubSeq(d, it0, CopiedUpTo(d, it0, it1, qe))
=============================================================================
