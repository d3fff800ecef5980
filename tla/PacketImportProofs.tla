------------------------- MODULE PacketImportProofs -------------------------
(***************************************************************************)
(* Proofs about PacketImport: for any feed, queue size, limits and clock,  *)
(* and for every interleaving of the three threads.                        *)
(***************************************************************************)
EXTENDS PacketImport, PacketDequeLemmas

\* The clock's two variables are left alone together.
USE DEF clock

-----------------------------------------------------------------------------
(* The queue                                                               *)

QueueTypeOK ==
    /\ feed \in Seq(Packet)
    /\ outcome \in [1..Len(feed) -> Outcomes]
    /\ mImportQueue \in Seq(1..Len(feed))
    /\ importer \in {"idle", "check", "pop", "push"}
    /\ processor \in {"take", "check", "add"}
    /\ work \in 0..Len(feed)

\* The processor has a packet unless it is about to take one, and what is
\* queued or worked on is still pending.
WorkIsPending ==
    /\ processor # "take" => work # 0 /\ outcome[work] = "pending"
    /\ \A i \in 1..Len(mImportQueue) : outcome[mImportQueue[i]] = "pending"

\* While the importer is in addPacket the packet it holds is the latest of
\* the feed: it is pending, and everybody else has an earlier one.
LatestIsHeld ==
    importer # "idle" =>
        /\ feed # <<>>
        /\ outcome[Len(feed)] = "pending"
        /\ work < Len(feed)
        /\ \A i \in 1..Len(mImportQueue) : mImportQueue[i] < Len(feed)

\* PushHasRoom is inductive by itself; OverflowCostsOldest needs to know of
\* the packet that the importer holds, and that a failed push is impossible.
QueueInvariant ==
    /\ QueueTypeOK
    /\ WorkIsPending
    /\ LatestIsHeld
    /\ PushHasRoom
    /\ OverflowCostsOldest

\* What the front and the rest of a non-empty queue are.
LEMMA QueueTail ==
    ASSUME NEW S, NEW q \in Seq(S), q # <<>>
    PROVE  /\ Len(q) \in Nat \ {0}
           /\ Head(q) = q[1] /\ Head(q) \in S
           /\ Tail(q) \in Seq(S) /\ Len(Tail(q)) = Len(q) - 1
           /\ \A i \in 1..Len(Tail(q)) : /\ i + 1 \in 1..Len(q)
                                         /\ Tail(q)[i] = q[i + 1]
                                         /\ Tail(q)[i] \in S
<1>1. Len(q) \in Nat \ {0}
  BY EmptySeq
<1>2. 1 \in 1..Len(q)
  BY <1>1
<1> QED  BY <1>1, <1>2, HeadTailProperties

\* The queue is empty and nobody holds a packet.
LEMMA InitQueue == Init => QueueInvariant
<1> SUFFICES ASSUME Init
             PROVE  QueueInvariant
  OBVIOUS
<1>1. Len(feed) = 0 /\ Len(mImportQueue) = 0 /\ feed = <<>> /\ mImportQueue = <<>>
  BY DEF Init
<1>2. outcome \in [1..Len(feed) -> Outcomes]
  BY <1>1 DEF Init
<1>3. QueueTypeOK
  BY <1>1, <1>2 DEF QueueTypeOK, Init
<1>4. WorkIsPending /\ LatestIsHeld /\ PushHasRoom /\ OverflowCostsOldest
  BY <1>1 DEF Init, WorkIsPending, LatestIsHeld, PushHasRoom, OverflowCostsOldest
<1> QED  BY <1>3, <1>4 DEF QueueInvariant

\* A delivered packet is the latest of the feed, pending and held.
LEMMA DeliverQueue ==
    ASSUME QueueInvariant, NEW p \in Packet, Deliver(p)
    PROVE  QueueInvariant'
<1> USE DEF QueueInvariant, QueueTypeOK
<1> DEFINE n == Len(feed)
<1>1. n \in Nat /\ outcome \in Seq(Outcomes) /\ Len(outcome) = n
  OBVIOUS
<1>2. /\ feed' = Append(feed, p) /\ feed' \in Seq(Packet)
      /\ Len(feed') = n + 1 /\ feed' # <<>>
      /\ \A i \in 1..n : feed'[i] = feed[i]
  <2>1. feed' = Append(feed, p) /\ feed \in Seq(Packet)
    BY DEF Deliver
  <2>2. /\ feed' \in Seq(Packet) /\ Len(feed') = n + 1
        /\ \A i \in 1..n : feed'[i] = feed[i]
    BY <2>1
  <2>3. feed' # <<>>
    BY <1>1, <2>2
  <2> QED  BY <2>1, <2>2, <2>3
<1>3. /\ outcome' \in [1..(n + 1) -> Outcomes]
      /\ outcome'[n + 1] = "pending"
      /\ \A i \in 1..n : outcome'[i] = outcome[i]
  <2>1. outcome' = Append(outcome, "pending") /\ "pending" \in Outcomes
    BY DEF Deliver, Outcomes
  <2> HIDE DEF n
  <2>2. /\ outcome' \in Seq(Outcomes) /\ Len(outcome') = n + 1
        /\ outcome'[n + 1] = "pending"
        /\ \A i \in 1..n : outcome'[i] = outcome[i]
    BY <1>1, <2>1
  <2> QED  BY <2>2
<1>4. /\ mImportQueue' = mImportQueue /\ work' = work /\ processor' = processor
      /\ importer' = "check" /\ importer = "idle"
  BY DEF Deliver
<1>5. \A i \in 1..Len(mImportQueue) : mImportQueue[i] \in 1..n
  OBVIOUS
<1>6. QueueTypeOK'
  <2>1. mImportQueue \in Seq(1..(n + 1))
    BY <1>1, <1>5
  <2> QED  BY <1>1, <1>2, <1>3, <1>4, <2>1
<1>7. WorkIsPending'
  BY <1>1, <1>3, <1>4, <1>5 DEF WorkIsPending
<1>8. LatestIsHeld'
  BY <1>1, <1>2, <1>3, <1>4, <1>5 DEF LatestIsHeld
<1>9. PushHasRoom'
  BY <1>4 DEF PushHasRoom
<1>10. OverflowCostsOldest'
  <2>1. Numbers("dropped")' = Numbers("dropped")
    BY <1>1, <1>3 DEF Numbers
  <2> QED  BY <1>4, <2>1 DEF OverflowCostsOldest
<1> QED  BY <1>6, <1>7, <1>8, <1>9, <1>10

\* The importer's size check decides between popping and pushing.
LEMMA CheckRoomQueue ==
    ASSUME QueueInvariant, CheckRoom
    PROVE  QueueInvariant'
<1> USE DEF QueueInvariant, QueueTypeOK
<1>1. /\ UNCHANGED <<feed, outcome, mImportQueue, work, processor>>
      /\ importer = "check"
      /\ \/ importer' = "pop"
         \/ importer' = "push" /\ ~IsFullQueue
  BY DEF CheckRoom, history
<1>2. QueueTypeOK' /\ WorkIsPending' /\ LatestIsHeld'
  BY <1>1 DEF WorkIsPending, LatestIsHeld
<1>3. PushHasRoom'
  BY <1>1 DEF PushHasRoom, IsFullQueue
<1>4. OverflowCostsOldest'
  BY <1>1 DEF OverflowCostsOldest, Numbers
<1> QED  BY <1>2, <1>3, <1>4

\* The packet that is lost is earlier than all that stay.
LEMMA PopOldestQueue ==
    ASSUME QueueInvariant, PopOldest
    PROVE  QueueInvariant'
<1> USE DEF QueueInvariant, QueueTypeOK
<1> DEFINE h == Head(mImportQueue)
           r == Tail(mImportQueue)
<1>1. /\ mImportQueue # <<>> /\ mImportQueue' = r
      /\ outcome' = [outcome EXCEPT ![h] = "dropped"]
      /\ UNCHANGED <<feed, work, processor>>
      /\ importer = "pop" /\ importer' = "check"
  BY DEF PopOldest
<1>2. /\ Len(mImportQueue) \in Nat \ {0}
      /\ h = mImportQueue[1] /\ h \in 1..Len(feed)
      /\ r \in Seq(1..Len(feed)) /\ Len(r) = Len(mImportQueue) - 1
      /\ \A i \in 1..Len(r) : /\ i + 1 \in 1..Len(mImportQueue)
                              /\ r[i] = mImportQueue[i + 1]
                              /\ r[i] \in 1..Len(feed)
  BY <1>1, QueueTail
<1> HIDE DEF h, r
<1>3. \A i \in 1..Len(r) : h < r[i]
  <2>1. \A i \in 1..Len(r) : /\ 1 \in 1..Len(mImportQueue) /\ 1 < i + 1
                             /\ i + 1 \in 1..Len(mImportQueue)
    BY <1>2
  <2> QED  BY <1>2, <2>1 DEF OverflowCostsOldest
<1>4. work < h
  <2>1. 1 \in 1..Len(mImportQueue)
    BY <1>2
  <2> QED  BY <1>2, <2>1 DEF OverflowCostsOldest
<1>5. /\ outcome' \in [1..Len(feed) -> Outcomes]
      /\ outcome'[h] = "dropped"
      /\ \A n \in 1..Len(feed) : n # h => outcome'[n] = outcome[n]
  BY <1>1, <1>2 DEF Outcomes
<1>6. QueueTypeOK'
  BY <1>1, <1>2, <1>5
<1>7. WorkIsPending'
  <2>1. ASSUME NEW i \in 1..Len(r)
        PROVE  outcome'[r[i]] = "pending"
    <3>1. outcome[r[i]] = "pending"
      BY <1>2 DEF WorkIsPending
    <3>2. r[i] \in 1..Len(feed)
      BY <1>2
    <3>3. r[i] # h
      BY <1>2, <1>3, <3>2
    <3> QED  BY <1>5, <3>1, <3>2, <3>3
  <2>2. ASSUME processor # "take"
        PROVE  work # 0 /\ outcome'[work] = "pending"
    <3>1. work # 0 /\ outcome[work] = "pending" /\ work \in 1..Len(feed)
      BY <2>2 DEF WorkIsPending
    <3>2. work # h
      BY <1>2, <1>4
    <3> QED  BY <1>5, <3>1, <3>2
  <2> QED  BY <1>1, <2>1, <2>2 DEF WorkIsPending
<1>8. LatestIsHeld'
  <2>1. h < Len(feed) /\ Len(feed) \in Nat
    BY <1>1, <1>2 DEF LatestIsHeld
  <2>2. Len(feed) \in 1..Len(feed) /\ Len(feed) # h
    BY <1>2, <2>1
  <2>3. /\ feed # <<>> /\ outcome[Len(feed)] = "pending" /\ work < Len(feed)
        /\ \A i \in 1..Len(mImportQueue) : mImportQueue[i] < Len(feed)
    BY <1>1 DEF LatestIsHeld
  <2>4. outcome'[Len(feed)] = "pending"
    BY <1>5, <2>2, <2>3
  <2>5. \A i \in 1..Len(r) : r[i] < Len(feed)
    BY <1>2, <2>3
  <2> QED  BY <1>1, <2>3, <2>4, <2>5 DEF LatestIsHeld
<1>9. PushHasRoom'
  BY <1>1 DEF PushHasRoom
<1>10. OverflowCostsOldest'
  <2>1. Numbers("dropped")' = Numbers("dropped") \cup {h}
    BY <1>2, <1>5 DEF Numbers
  <2>2. \A i \in 1..Len(r) : /\ work < r[i]
                             /\ \A n \in Numbers("dropped") : n < r[i]
                             /\ \A j \in 1..Len(r) : i < j => r[i] < r[j]
    <3> SUFFICES ASSUME NEW i \in 1..Len(r)
                 PROVE  /\ work < r[i]
                        /\ \A n \in Numbers("dropped") : n < r[i]
                        /\ \A j \in 1..Len(r) : i < j => r[i] < r[j]
      OBVIOUS
    <3>1. /\ i + 1 \in 1..Len(mImportQueue) /\ r[i] = mImportQueue[i + 1]
          /\ \A j \in 1..Len(r) : /\ j + 1 \in 1..Len(mImportQueue)
                                  /\ r[j] = mImportQueue[j + 1]
                                  /\ i < j => i + 1 < j + 1
      BY <1>2
    <3> QED  BY <3>1 DEF OverflowCostsOldest
  <2> QED  BY <1>1, <1>3, <2>1, <2>2 DEF OverflowCostsOldest
<1> QED  BY <1>6, <1>7, <1>8, <1>9, <1>10

\* An empty queue has room for a packet.
LEMMA PopNothingQueue ==
    ASSUME QueueInvariant, PopNothing
    PROVE  QueueInvariant'
<1> USE DEF QueueInvariant, QueueTypeOK
<1>1. /\ UNCHANGED <<feed, outcome, mImportQueue, work, processor>>
      /\ importer = "pop" /\ importer' = "push" /\ mImportQueue = <<>>
  BY DEF PopNothing, history
<1>2. QueueTypeOK' /\ WorkIsPending' /\ LatestIsHeld'
  BY <1>1 DEF WorkIsPending, LatestIsHeld
<1>3. PushHasRoom'
  <2>1. Len(mImportQueue) = 0  BY <1>1
  <2> QED  BY <1>1, <2>1, ImportAssumption DEF PushHasRoom, IsFullQueue
<1>4. OverflowCostsOldest'
  BY <1>1 DEF OverflowCostsOldest, Numbers
<1> QED  BY <1>2, <1>3, <1>4

\* The push succeeds, and the pushed packet is later than all before it.
LEMMA PushQueue ==
    ASSUME QueueInvariant, Push
    PROVE  QueueInvariant'
<1> USE DEF QueueInvariant, QueueTypeOK
<1> DEFINE n == Len(feed)
           q == mImportQueue
<1>1. /\ UNCHANGED <<feed, outcome, work, processor>>
      /\ importer' = "idle" /\ importer = "push"
      /\ q' = Append(q, n)
  BY DEF Push, PushHasRoom
<1>2. /\ n \in Nat /\ n \in 1..n /\ outcome[n] = "pending" /\ work < n
      /\ \A i \in 1..Len(q) : q[i] < n
  <2>1. n \in Nat /\ n # 0
    BY <1>1, EmptySeq DEF LatestIsHeld
  <2> QED  BY <1>1, <2>1 DEF LatestIsHeld
<1>3. /\ q' \in Seq(1..n) /\ Len(q') = Len(q) + 1 /\ Len(q) \in Nat
      /\ q'[Len(q) + 1] = n
      /\ \A i \in 1..Len(q) : q'[i] = q[i]
  BY <1>1, <1>2
<1>4. \A i \in 1..Len(q') : i \in 1..Len(q) \/ i = Len(q) + 1
  BY <1>3
<1>5. QueueTypeOK'
  BY <1>1, <1>3
<1>6. WorkIsPending'
  BY <1>1, <1>2, <1>3, <1>4 DEF WorkIsPending
<1>7. LatestIsHeld' /\ PushHasRoom'
  BY <1>1 DEF LatestIsHeld, PushHasRoom
<1>8. OverflowCostsOldest'
  <2>1. Numbers("dropped")' = Numbers("dropped")
    BY <1>1 DEF Numbers
  <2>2. \A m \in Numbers("dropped") : m < n
    BY <1>2 DEF Numbers
  <2>3. \A i \in 1..Len(q) : q[i] \in 1..n
    OBVIOUS
  <2> HIDE DEF q, n
  <2>4. SUFFICES ASSUME NEW i \in 1..Len(q')
                 PROVE  /\ work < q'[i]
                        /\ \A m \in Numbers("dropped") : m < q'[i]
                        /\ \A j \in 1..Len(q') : i < j => q'[i] < q'[j]
    BY <1>1, <2>1 DEF OverflowCostsOldest, q
  <2>5. CASE i \in 1..Len(q)
    BY <1>2, <1>3, <1>4, <2>5 DEF OverflowCostsOldest, q
  <2>6. CASE i = Len(q) + 1
    BY <1>2, <1>3, <1>4, <2>2, <2>6
  <2> QED  BY <1>4, <2>5, <2>6
<1> QED  BY <1>5, <1>6, <1>7, <1>8

\* The processor takes the earliest packet of the queue.
LEMMA TakeQueue ==
    ASSUME QueueInvariant, Take
    PROVE  QueueInvariant'
<1> USE DEF QueueInvariant, QueueTypeOK
<1> DEFINE h == Head(mImportQueue)
           r == Tail(mImportQueue)
<1>1. /\ mImportQueue # <<>> /\ mImportQueue' = r /\ work' = h
      /\ UNCHANGED <<feed, outcome, importer>>
      /\ processor' = "check"
  BY DEF Take, history
<1>2. /\ Len(mImportQueue) \in Nat \ {0}
      /\ h = mImportQueue[1] /\ h \in 1..Len(feed)
      /\ r \in Seq(1..Len(feed)) /\ Len(r) = Len(mImportQueue) - 1
      /\ \A i \in 1..Len(r) : /\ i + 1 \in 1..Len(mImportQueue)
                              /\ r[i] = mImportQueue[i + 1]
  BY <1>1, QueueTail
<1> HIDE DEF h, r
<1>3. /\ 1 \in 1..Len(mImportQueue)
      /\ \A i \in 1..Len(r) : 1 < i + 1
  BY <1>2
<1>4. QueueTypeOK'
  BY <1>1, <1>2
<1>5. WorkIsPending'
  <2>1. h # 0 /\ outcome[h] = "pending"
    BY <1>2, <1>3 DEF WorkIsPending
  <2>2. \A i \in 1..Len(r) : outcome[r[i]] = "pending"
    BY <1>2 DEF WorkIsPending
  <2> QED  BY <1>1, <2>1, <2>2 DEF WorkIsPending
<1>6. LatestIsHeld'
  BY <1>1, <1>2, <1>3 DEF LatestIsHeld
<1>7. PushHasRoom'
  BY <1>1, <1>2, ImportAssumption DEF PushHasRoom, IsFullQueue
<1>8. OverflowCostsOldest'
  <2>1. Numbers("dropped")' = Numbers("dropped")
    BY <1>1 DEF Numbers
  <2> SUFFICES ASSUME NEW i \in 1..Len(r)
               PROVE  /\ h < r[i]
                      /\ \A n \in Numbers("dropped") : n < r[i]
                      /\ \A j \in 1..Len(r) : i < j => r[i] < r[j]
    BY <1>1, <2>1 DEF OverflowCostsOldest
  <2>2. \A j \in 1..Len(r) : /\ j + 1 \in 1..Len(mImportQueue)
                             /\ r[j] = mImportQueue[j + 1]
                             /\ i < j => i + 1 < j + 1
    BY <1>2
  <2> QED  BY <1>2, <1>3, <2>2 DEF OverflowCostsOldest
<1> QED  BY <1>4, <1>5, <1>6, <1>7, <1>8

\* A packet that the processor is done with is neither dropped nor queued.
LEMMA DoneQueue ==
    ASSUME QueueInvariant, processor # "take",
           NEW result \in Outcomes \ {"dropped"},
           outcome' = [outcome EXCEPT ![work] = result],
           processor' = "take", work' = 0,
           UNCHANGED <<feed, mImportQueue, importer>>
    PROVE  QueueInvariant'
<1> USE DEF QueueInvariant, QueueTypeOK
<1>1. work \in 1..Len(feed) /\ outcome[work] = "pending"
  BY DEF WorkIsPending
<1>2. /\ outcome' \in [1..Len(feed) -> Outcomes]
      /\ outcome'[work] = result
      /\ \A n \in 1..Len(feed) : n # work => outcome'[n] = outcome[n]
  BY <1>1
<1>3. \A i \in 1..Len(mImportQueue) : /\ mImportQueue[i] \in 1..Len(feed)
                                      /\ work < mImportQueue[i]
  BY DEF OverflowCostsOldest
<1>4. QueueTypeOK'
  BY <1>2
<1>5. WorkIsPending'
  <2>1. \A i \in 1..Len(mImportQueue) : /\ mImportQueue[i] # work
                                        /\ outcome[mImportQueue[i]] = "pending"
    BY <1>1, <1>3 DEF WorkIsPending
  <2>2. \A i \in 1..Len(mImportQueue) : outcome'[mImportQueue[i]] = "pending"
    BY <1>2, <1>3, <2>1
  <2> QED  BY <2>2 DEF WorkIsPending
<1>6. LatestIsHeld'
  <2>1. Len(feed) \in Nat
    OBVIOUS
  <2> QED  BY <1>1, <1>2, <2>1 DEF LatestIsHeld
<1>7. PushHasRoom'
  BY DEF PushHasRoom, IsFullQueue
<1>8. OverflowCostsOldest'
  <2>1. Numbers("dropped")' = Numbers("dropped")
    BY <1>1, <1>2 DEF Numbers
  <2>2. \A i \in 1..Len(mImportQueue) : 0 < mImportQueue[i]
    BY <1>3
  <2> QED  BY <2>1, <2>2 DEF OverflowCostsOldest
<1> QED  BY <1>4, <1>5, <1>6, <1>7, <1>8

\* The queue invariant is inductive: cleaning and time do not concern it.
LEMMA NextQueue == QueueInvariant /\ [Next]_vars => QueueInvariant'
<1> SUFFICES ASSUME QueueInvariant, [Next]_vars
             PROVE  QueueInvariant'
  OBVIOUS
<1>1. ASSUME UNCHANGED <<mImportQueue, feed, outcome, importer, processor, work>>
      PROVE  QueueInvariant'
  BY <1>1 DEF QueueInvariant, QueueTypeOK, WorkIsPending, LatestIsHeld,
              PushHasRoom, IsFullQueue, OverflowCostsOldest, Numbers
<1>2. CASE Clock \/ Cleaner \/ UNCHANGED vars
  BY <1>1, <1>2 DEF Clock, Tick, SetBack, Cleaner, WakeUp, Clean, threads, history, vars
<1>3. CASE \E p \in Packet : Deliver(p)
  BY <1>3, DeliverQueue
<1>4. CASE Importer
  BY <1>4, CheckRoomQueue, PopOldestQueue, PopNothingQueue, PushQueue DEF Importer
<1>5. CASE Take
  BY <1>5, TakeQueue
<1>6. CASE Reject
  <2>1. "invalid" \in Outcomes \ {"dropped"}
    BY DEF Outcomes
  <2> QED  BY <1>6, <2>1, DoneQueue DEF Reject
<1>7. CASE Accept
  BY <1>7 DEF Accept, history, QueueInvariant, QueueTypeOK, WorkIsPending,
              LatestIsHeld, PushHasRoom, IsFullQueue, OverflowCostsOldest, Numbers
<1>8. CASE Add
  <2>1. {"refused", "cached"} \subseteq Outcomes \ {"dropped"}
    BY DEF Outcomes
  <2> QED  BY <1>8, <2>1, DoneQueue DEF Add
<1> QED  BY <1>2, <1>3, <1>4, <1>5, <1>6, <1>7, <1>8 DEF Next, Processor

\* The queue invariant holds in every state.
LEMMA SpecQueue == Spec => []QueueInvariant
<1> QED  BY InitQueue, NextQueue, PTL DEF Spec

\* try_push never fails, whatever the processor does between the size check
\* and the push.
THEOREM PushAlwaysHasRoom == Spec => []PushHasRoom
<1>1. QueueInvariant => PushHasRoom
  BY DEF QueueInvariant
<1> QED  BY <1>1, SpecQueue, PTL

\* A full queue loses its oldest packets, and the order of the rest stays.
THEOREM OnlyOldestAreLost == Spec => []OverflowCostsOldest
<1>1. QueueInvariant => OverflowCostsOldest
  BY DEF QueueInvariant
<1> QED  BY <1>1, SpecQueue, PTL

-----------------------------------------------------------------------------
(* The cache                                                               *)

Cachable == {Converted(p) : p \in Packet}

\* Every deque is sorted and holds no more packets than were cached.
CacheTypeOK ==
    /\ IsFiniteSet(DOMAIN mStreamDequeMap)
    /\ \A s \in DOMAIN mStreamDequeMap :
          /\ mStreamDequeMap[s] \in Seq(Cachable)
          /\ Sorted(mStreamDequeMap[s])
          /\ Len(mStreamDequeMap[s]) <= Cardinality(Numbers("cached"))

\* The cleaner's time is old enough, and stays so while it waits for the map.
ClockTypeOK ==
    /\ latest \in 0..MaxClock
    /\ now \in (latest - MaxSetBack)..latest
    /\ cleaner \in {"asleep", "clean"}
    /\ oldestTime \in Int
    /\ cleaner = "clean" =>
          oldestTime + MaximumDuration \in (0 - MaxSetBack)..latest
    /\ Len(feed) <= MaxDeliveries

\* The packet that is about to be added has passed the future check.
FutureIsChecked ==
    processor = "add" /\ MaximumFutureTime >= 0 =>
        feed[work].startTime <= latest + MaximumFutureTime

CacheInvariant ==
    /\ CacheTypeOK
    /\ ClockTypeOK
    /\ FutureIsChecked
    /\ NoFutureData
    /\ StreamsAreThoseCached

\* The cached packets have times, and two packets are cached alike only if
\* they agree on them.
LEMMA CachableIsTimed ==
    /\ Timed(Cachable)
    /\ \A p \in Packet : /\ Converted(p) \in Cachable
                         /\ Converted(p).startTime = p.startTime
                         /\ Converted(p).endTime = p.endTime
BY ImportAssumption DEF Cachable, Converted, Timed

\* There are at most as many packets of an outcome as packets delivered, and
\* fewer while one of another outcome is about.
LEMMA NumbersAreFew ==
    ASSUME QueueTypeOK, NEW result
    PROVE  /\ IsFiniteSet(Numbers(result))
           /\ Cardinality(Numbers(result)) \in 0..Len(feed)
           /\ \A n \in 1..Len(feed) :
                 outcome[n] # result => Cardinality(Numbers(result)) < Len(feed)
<1> USE DEF QueueTypeOK
<1>1. Len(feed) \in Nat /\ DOMAIN outcome = 1..Len(feed)
  OBVIOUS
<1>2. IsFiniteSet(1..Len(feed)) /\ Cardinality(1..Len(feed)) = Len(feed)
  <2>1. CASE Len(feed) = 0
    <3>1. 1..Len(feed) = {}  BY <2>1
    <3> QED  BY <2>1, <3>1, FS_EmptySet
  <2>2. CASE Len(feed) >= 1
    <3>1. 1 \in Int /\ Len(feed) \in Int /\ ~(1 > Len(feed))
      BY <1>1, <2>2
    <3>2. /\ IsFiniteSet(1..Len(feed))
          /\ Cardinality(1..Len(feed)) = Len(feed) - 1 + 1
      BY <3>1, FS_Interval
    <3> QED  BY <1>1, <3>2
  <2> QED  BY <1>1, <2>1, <2>2
<1>3. /\ IsFiniteSet(Numbers(result))
      /\ Cardinality(Numbers(result)) <= Len(feed)
  <2>1. Numbers(result) \subseteq 1..Len(feed)
    BY <1>1 DEF Numbers
  <2> QED  BY <1>2, <2>1, FS_Subset
<1>4. Cardinality(Numbers(result)) \in Nat
  BY <1>3, FS_CardinalityType
<1>5. ASSUME NEW n \in 1..Len(feed), outcome[n] # result
      PROVE  Cardinality(Numbers(result)) < Len(feed)
  <2> DEFINE S == 1..Len(feed)
  <2>1. Numbers(result) \subseteq S \ {n}
    BY <1>1, <1>5 DEF Numbers
  <2> HIDE DEF S
  <2>2. IsFiniteSet(S) /\ Cardinality(S) = Len(feed) /\ n \in S
    BY <1>2 DEF S
  <2>3. IsFiniteSet(S \ {n}) /\ Cardinality(S \ {n}) = Len(feed) - 1
    BY <2>2, FS_RemoveElement
  <2>4. Cardinality(Numbers(result)) <= Len(feed) - 1
    BY <2>1, <2>3, FS_Subset
  <2> QED  BY <1>1, <1>4, <2>4
<1> QED  BY <1>1, <1>3, <1>4, <1>5

\* The map is empty and nothing has been cached.
LEMMA InitCache == Init => CacheInvariant
<1> SUFFICES ASSUME Init
             PROVE  CacheInvariant
  OBVIOUS
<1>1. DOMAIN mStreamDequeMap = {} /\ DOMAIN outcome = {} /\ Len(feed) = 0
  BY DEF Init
<1>2. Numbers("cached") = {}
  BY <1>1 DEF Numbers
<1>3. CacheTypeOK
  BY <1>1, FS_EmptySet DEF CacheTypeOK
<1>4. ClockTypeOK /\ FutureIsChecked
  BY <1>1, ImportAssumption DEF Init, ClockTypeOK, FutureIsChecked
<1>5. NoFutureData /\ StreamsAreThoseCached
  BY <1>1, <1>2 DEF NoFutureData, StreamsAreThoseCached, GetAvailableStreams
<1> QED  BY <1>3, <1>4, <1>5 DEF CacheInvariant

\* A step that leaves the map alone and caches nothing keeps what is said of
\* the cache; the clock may advance and packets be delivered.
LEMMA SameCache ==
    ASSUME QueueInvariant, CacheInvariant, UNCHANGED mStreamDequeMap,
           latest' \in 0..MaxClock, latest <= latest',
           Numbers("cached")' = Numbers("cached"),
           \A n \in Numbers("cached") : feed'[n] = feed[n]
    PROVE  CacheTypeOK' /\ NoFutureData' /\ StreamsAreThoseCached'
<1> USE DEF CacheInvariant
<1>1. CacheTypeOK'
  BY DEF CacheTypeOK
<1>2. NoFutureData'
  <2> SUFFICES ASSUME MaximumFutureTime >= 0,
                      NEW s \in DOMAIN mStreamDequeMap, NEW p \in HeldBy(s)
               PROVE  p.startTime <= latest' + MaximumFutureTime
    BY DEF NoFutureData, GetAvailableStreams, HeldBy
  <2>1. p.startTime <= latest + MaximumFutureTime
    BY DEF NoFutureData, GetAvailableStreams
  <2>2. p \in Cachable
    BY DEF HeldBy, Held, CacheTypeOK
  <2>3. p.startTime \in Int
    BY <2>2, CachableIsTimed DEF Timed
  <2> QED  BY <2>1, <2>3, ImportAssumption DEF ClockTypeOK
<1>3. StreamsAreThoseCached'
  BY DEF StreamsAreThoseCached, GetAvailableStreams
<1> QED  BY <1>1, <1>2, <1>3

\* Settling a packet that is pending adds at most its own number to the
\* cached ones.
LEMMA OneSettles ==
    ASSUME QueueTypeOK, NEW n \in 1..Len(feed), outcome[n] = "pending",
           NEW result, outcome' = [outcome EXCEPT ![n] = result]
    PROVE  Numbers("cached")' = IF result = "cached"
                                THEN Numbers("cached") \cup {n}
                                ELSE Numbers("cached")
<1>1. /\ DOMAIN outcome = 1..Len(feed) /\ DOMAIN outcome' = 1..Len(feed)
      /\ outcome'[n] = result
      /\ \A m \in 1..Len(feed) : m # n => outcome'[m] = outcome[m]
  BY DEF QueueTypeOK
<1>2. \A m \in 1..Len(feed) :
          outcome'[m] = "cached" <=> \/ outcome[m] = "cached"
                                     \/ m = n /\ result = "cached"
  BY <1>1
<1> QED  BY <1>1, <1>2 DEF Numbers

\* Every step but the processor's addition and the cleaner's removal leaves
\* the map alone.
Elsewhere ==
    \/ Clock
    \/ \E p \in Packet : Deliver(p)
    \/ Importer
    \/ Take
    \/ Reject
    \/ Accept
    \/ WakeUp
    \/ UNCHANGED vars

\* Such a step caches nothing either: what it settles is dropped or invalid.
LEMMA ElsewhereCachesNothing ==
    ASSUME QueueInvariant, Elsewhere
    PROVE  /\ UNCHANGED mStreamDequeMap
           /\ Numbers("cached")' = Numbers("cached")
           /\ \A n \in 1..Len(feed) : feed'[n] = feed[n]
<1> USE DEF QueueInvariant
<1>1. CASE UNCHANGED <<mStreamDequeMap, history>>
  BY <1>1 DEF history, Numbers
<1>2. CASE Clock \/ CheckRoom \/ PopNothing \/ Take \/ Accept \/ WakeUp \/ UNCHANGED vars
  BY <1>1, <1>2 DEF Clock, Tick, SetBack, CheckRoom, PopNothing, Take, Accept, WakeUp, vars
<1>3. ASSUME NEW p \in Packet, Deliver(p)
      PROVE  /\ UNCHANGED mStreamDequeMap
             /\ Numbers("cached")' = Numbers("cached")
             /\ \A n \in 1..Len(feed) : feed'[n] = feed[n]
  <2>1. /\ UNCHANGED mStreamDequeMap
        /\ feed' = Append(feed, p) /\ outcome' = Append(outcome, "pending")
    BY <1>3 DEF Deliver
  <2>2. /\ Len(feed) \in Nat /\ outcome \in Seq(Outcomes)
        /\ Len(outcome) = Len(feed) /\ feed \in Seq(Packet)
    BY DEF QueueTypeOK
  <2>3. "pending" \in Outcomes
    BY DEF Outcomes
  <2>4. /\ DOMAIN outcome = 1..Len(feed)
        /\ DOMAIN outcome' = 1..(Len(feed) + 1)
        /\ outcome'[Len(feed) + 1] = "pending"
        /\ \A n \in 1..Len(feed) : outcome'[n] = outcome[n]
        /\ \A n \in 1..Len(feed) : feed'[n] = feed[n]
    BY <2>1, <2>2, <2>3
  <2>5. Numbers("cached")' = Numbers("cached")
    BY <2>2, <2>4 DEF Numbers
  <2> QED  BY <2>1, <2>4, <2>5
<1>4. ASSUME NEW n \in 1..Len(feed), outcome[n] = "pending",
             NEW result \in {"dropped", "invalid"},
             outcome' = [outcome EXCEPT ![n] = result],
             UNCHANGED <<feed, mStreamDequeMap>>
      PROVE  /\ UNCHANGED mStreamDequeMap
             /\ Numbers("cached")' = Numbers("cached")
             /\ \A m \in 1..Len(feed) : feed'[m] = feed[m]
  <2>1. result # "cached"
    OBVIOUS
  <2> QED  BY <1>4, <2>1, OneSettles
<1>5. CASE PopOldest
  <2>1. /\ mImportQueue # <<>> /\ mImportQueue \in Seq(1..Len(feed))
        /\ outcome' = [outcome EXCEPT ![Head(mImportQueue)] = "dropped"]
        /\ UNCHANGED <<feed, mStreamDequeMap>>
    BY <1>5 DEF PopOldest, QueueTypeOK
  <2>2. /\ Head(mImportQueue) \in 1..Len(feed)
        /\ Head(mImportQueue) = mImportQueue[1] /\ 1 \in 1..Len(mImportQueue)
    BY <2>1, QueueTail
  <2>3. outcome[Head(mImportQueue)] = "pending"
    BY <2>2 DEF WorkIsPending
  <2> QED  BY <1>4, <2>1, <2>2, <2>3
<1>6. CASE Push
  <2>1. ~IsFullQueue
    BY <1>6 DEF Push, PushHasRoom
  <2> QED  BY <1>1, <1>6, <2>1 DEF Push, history
<1>7. CASE Reject
  <2>1. /\ work \in 1..Len(feed) /\ outcome[work] = "pending"
        /\ outcome' = [outcome EXCEPT ![work] = "invalid"]
        /\ UNCHANGED <<feed, mStreamDequeMap>>
    BY <1>7 DEF Reject, QueueTypeOK, WorkIsPending
  <2> QED  BY <1>4, <2>1
<1> QED  BY <1>2, <1>3, <1>5, <1>6, <1>7 DEF Elsewhere, Importer

\* The clock never goes back, the cleaner's time is computed from an earlier
\* reading of it, and the feed is bounded.
LEMMA NextClock ==
    ASSUME QueueTypeOK, ClockTypeOK, [Next]_vars
    PROVE  ClockTypeOK' /\ latest <= latest'
<1> USE ImportAssumption DEF ClockTypeOK
<1>1. CASE UNCHANGED <<clock, cleaner, oldestTime, feed>>
  BY <1>1
<1>2. CASE Clock
  BY <1>2 DEF Clock, Tick, SetBack, threads, history
<1>3. ASSUME NEW p \in Packet, Deliver(p)
      PROVE  ClockTypeOK' /\ latest <= latest'
  <2>1. Len(feed') = Len(feed) + 1 /\ Len(feed) < MaxDeliveries /\ Len(feed) \in Nat
    BY <1>3 DEF Deliver, QueueTypeOK
  <2> QED  BY <1>3, <2>1 DEF Deliver
<1>4. CASE Importer \/ Processor \/ UNCHANGED vars
  BY <1>1, <1>4 DEF Importer, CheckRoom, PopOldest, PopNothing, Push, Processor,
                    Take, Reject, Accept, Add, vars, threads, history
<1>5. CASE WakeUp
  <2>1. /\ oldestTime' = now - MaximumDuration /\ cleaner' = "clean"
        /\ UNCHANGED <<now, latest, feed>>
    BY <1>5 DEF WakeUp, history
  <2>2. /\ latest \in 0..MaxClock /\ now \in (latest - MaxSetBack)..latest
        /\ MaxSetBack \in Nat /\ MaximumDuration \in Nat
    OBVIOUS
  <2>3. /\ oldestTime' \in Int
        /\ oldestTime' + MaximumDuration = now
        /\ now \in (0 - MaxSetBack)..latest
    BY <2>1, <2>2
  <2> QED  BY <2>1, <2>3
<1>6. CASE Clean
  BY <1>6 DEF Clean, history
<1> QED  BY <1>2, <1>3, <1>4, <1>5, <1>6 DEF Next, Cleaner

\* A packet on its way into the map stays the one that was accepted.
LEMMA WorkStays ==
    ASSUME QueueInvariant, [Next]_vars, processor' = "add", ~Accept
    PROVE  /\ processor = "add" /\ work' = work /\ work \in 1..Len(feed)
           /\ feed'[work] = feed[work]
<1>1. processor = "add" /\ work' = work
  BY DEF Next, Clock, Tick, SetBack, Deliver, Importer, CheckRoom, PopOldest, PopNothing,
         Push, Processor, Take, Reject, Add, Cleaner, WakeUp, Clean,
         vars, threads
<1>2. work \in 1..Len(feed)
  BY <1>1 DEF QueueInvariant, QueueTypeOK, WorkIsPending
<1>3. feed'[work] = feed[work]
  <2>1. CASE Elsewhere
    BY <1>2, <2>1, ElsewhereCachesNothing
  <2>2. CASE Add \/ Clean
    BY <2>2 DEF Add, Clean, history
  <2> QED  BY <2>1, <2>2 DEF Next, Processor, Cleaner, Elsewhere
<1> QED  BY <1>1, <1>2, <1>3

\* The future check made of a packet stays true until the packet is added.
LEMMA NextFuture ==
    ASSUME QueueInvariant, ClockTypeOK, FutureIsChecked, [Next]_vars
    PROVE  FutureIsChecked'
<1> SUFFICES ASSUME processor' = "add", MaximumFutureTime >= 0
             PROVE  feed'[work'].startTime <= latest' + MaximumFutureTime
  BY DEF FutureIsChecked
<1>1. ClockTypeOK' /\ latest <= latest'
  BY NextClock DEF QueueInvariant
<1>2. latest \in Int /\ latest' \in Int /\ MaximumFutureTime \in Int
  BY <1>1, ImportAssumption DEF ClockTypeOK
<1>3. CASE Accept
  <2>1. /\ feed' = feed /\ work' = work /\ latest' = latest /\ work \in 1..Len(feed)
        /\ ~(feed[work].startTime > now + MaximumFutureTime)
    BY <1>3 DEF Accept, history, IsRejected, IsFromFuture, QueueInvariant,
                QueueTypeOK, WorkIsPending
  <2>2. feed[work].startTime \in Int
    BY <2>1, ImportAssumption DEF QueueInvariant, QueueTypeOK
  <2>3. now \in Int /\ now <= latest
    BY ImportAssumption DEF ClockTypeOK
  <2> QED  BY <1>2, <2>1, <2>2, <2>3
<1>4. CASE ~Accept
  <2>1. /\ processor = "add" /\ work' = work /\ work \in 1..Len(feed)
        /\ feed'[work] = feed[work]
    BY <1>4, WorkStays
  <2>2. feed[work].startTime \in Int
    BY <2>1, ImportAssumption DEF QueueInvariant, QueueTypeOK
  <2>3. feed[work].startTime <= latest + MaximumFutureTime
    BY <2>1 DEF FutureIsChecked
  <2> QED  BY <1>1, <1>2, <2>1, <2>2, <2>3
<1> QED  BY <1>3, <1>4

\* What has left the cache in this step had aged out.
OnlyAgedLeave ==
    \A s \in GetAvailableStreams :
        \A p \in HeldBy(s) \ (HeldBy(s))' : p.endTime < latest - MaximumDuration

\* Everywhere else the cache stays as it is.
LEMMA ElsewhereCache ==
    ASSUME QueueInvariant, CacheInvariant, Elsewhere,
           ClockTypeOK', latest <= latest'
    PROVE  /\ CacheTypeOK' /\ NoFutureData' /\ StreamsAreThoseCached'
           /\ OnlyAgedLeave
<1>1. /\ UNCHANGED mStreamDequeMap
      /\ Numbers("cached")' = Numbers("cached")
      /\ \A n \in 1..Len(feed) : feed'[n] = feed[n]
  BY ElsewhereCachesNothing
<1>2. Numbers("cached") \subseteq 1..Len(feed)
  BY DEF QueueInvariant, QueueTypeOK, Numbers
<1>3. latest' \in 0..MaxClock
  BY DEF ClockTypeOK
<1>4. CacheTypeOK' /\ NoFutureData' /\ StreamsAreThoseCached'
  BY <1>1, <1>2, <1>3, SameCache
<1>5. OnlyAgedLeave
  BY <1>1 DEF OnlyAgedLeave, HeldBy
<1> QED  BY <1>4, <1>5

\* A packet that is cached goes into the deque of its stream and pushes
\* nothing out: no deque is full while there is a packet still to be cached.
LEMMA AddHolds ==
    ASSUME QueueInvariant, CacheInvariant, Add, ~Throws(feed[work])
    PROVE  LET p == feed[work]
           IN  /\ Numbers("cached")' = Numbers("cached") \cup {work}
               /\ DOMAIN mStreamDequeMap' = DOMAIN mStreamDequeMap \cup {p.stream}
               /\ CacheTypeOK'
               /\ \A s : /\ HeldBy(s) \subseteq (HeldBy(s))'
                         /\ (HeldBy(s))' \subseteq HeldBy(s) \cup
                               (IF s = p.stream THEN {Converted(p)} ELSE {})
               /\ \A s : s = p.stream =>
                     \E q \in (HeldBy(s))' : q.startTime = p.startTime
               /\ \A s : (HeldBy(s))' =
                     IF s = p.stream /\ IsNewsTo(HeldBy(s), Converted(p))
                     THEN HeldBy(s) \cup {Converted(p)} ELSE HeldBy(s)
<1> DEFINE p == feed[work]
           c == Converted(p)
           N == Numbers("cached")
           old == IF p.stream \in DOMAIN mStreamDequeMap
                  THEN mStreamDequeMap[p.stream] ELSE <<>>
           new == Added(old, c, MaximumNumberOfPackets)
<1>1. /\ QueueTypeOK /\ AddToMap(p)
      /\ outcome' = [outcome EXCEPT ![work] = "cached"]
  BY DEF Add, QueueInvariant
<1>2. work \in 1..Len(feed) /\ outcome[work] = "pending" /\ p \in Packet
  BY <1>1 DEF Add, QueueInvariant, QueueTypeOK, WorkIsPending
<1>3. N' = N \cup {work} /\ work \notin N
  <2>1. N' = N \cup {work}
    BY <1>1, <1>2, OneSettles
  <2> QED  BY <1>2, <2>1 DEF Numbers
<1>4. /\ Cardinality(N) \in Nat
      /\ Cardinality(N) < MaximumNumberOfPackets
      /\ Cardinality(N)' = Cardinality(N) + 1
  <2>1. /\ IsFiniteSet(N)
        /\ Cardinality(N) \in 0..Len(feed)
        /\ Cardinality(N) < Len(feed)
    BY <1>1, <1>2, NumbersAreFew
  <2>2. /\ Len(feed) \in Nat /\ Len(feed) <= MaxDeliveries
        /\ MaxDeliveries \in Nat /\ MaximumNumberOfPackets \in Nat
        /\ MaxDeliveries <= MaximumNumberOfPackets
    BY <1>1, ImportAssumption, CapacityAssumption, MaximumAssumption
       DEF CacheInvariant, ClockTypeOK, QueueTypeOK
  <2>3. Cardinality(N)' = Cardinality(N) + 1
    <3> HIDE DEF N
    <3> QED  BY <1>3, <2>1, FS_AddElement
  <2> HIDE DEF N
  <2> QED  BY <2>1, <2>2, <2>3
<1>5. /\ c \in Cachable /\ Timed(Cachable)
      /\ c.startTime = p.startTime /\ c.startTime \in Int
  BY <1>2, CachableIsTimed DEF Timed
<1>6. /\ old \in Seq(Cachable) /\ Sorted(old)
      /\ Len(old) <= Cardinality(N)
      /\ Held(old) = HeldBy(p.stream)
  <2>1. CASE p.stream \in DOMAIN mStreamDequeMap
    BY <2>1 DEF CacheInvariant, CacheTypeOK, HeldBy
  <2>2. CASE p.stream \notin DOMAIN mStreamDequeMap
    <3>1. old = <<>> /\ Len(old) = 0
      BY <2>2
    <3>2. old \in Seq(Cachable)
      <4>1. <<>> \in Seq(Cachable)
        OBVIOUS
      <4> HIDE DEF old
      <4> QED  BY <3>1, <4>1
    <3>3. Sorted(old) /\ Held(old) = {}
      BY <3>1 DEF Sorted, Held
    <3> HIDE DEF N
    <3> QED  BY <1>4, <2>2, <3>1, <3>2, <3>3 DEF HeldBy
  <2> QED  BY <2>1, <2>2
<1>7. /\ new \in Seq(Cachable) /\ Sorted(new)
      /\ Held(new) \subseteq Held(old) \cup {c}
      /\ Held(old) \subseteq Held(new)
      /\ Len(new) <= Len(old) + 1
      /\ \E q \in Held(new) : q.startTime = c.startTime
      /\ Held(new) = IF IsNewsTo(Held(old), c) THEN Held(old) \cup {c}
                     ELSE Held(old)
  <2> HIDE DEF old, c, N
  <2>1. MaximumNumberOfPackets \in Nat \ {0}
    BY MaximumAssumption
  <2>2. Len(old) \in Nat /\ Len(old) <= MaximumNumberOfPackets
        /\ ~IsFull(old, MaximumNumberOfPackets)
    BY <1>4, <1>6, <2>1 DEF IsFull
  <2>3. new \in Seq(Cachable) /\ Sorted(new)
    BY <1>5, <1>6, <2>1, <2>2, AddedProperty
  <2> QED  BY <1>5, <1>6, <2>1, <2>2, <2>3, AddedHeld, AddedStart,
               AddedAsSet
<1>8. mStreamDequeMap' =
          [s \in DOMAIN mStreamDequeMap \cup {p.stream} |->
              IF s = p.stream THEN new ELSE mStreamDequeMap[s]]
  BY <1>1 DEF AddToMap
<1>9. /\ DOMAIN mStreamDequeMap' = DOMAIN mStreamDequeMap \cup {p.stream}
      /\ mStreamDequeMap'[p.stream] = new
      /\ \A s \in DOMAIN mStreamDequeMap :
            s # p.stream => mStreamDequeMap'[s] = mStreamDequeMap[s]
  <2> HIDE DEF new
  <2> QED  BY <1>8
<1>10. CacheTypeOK'
  <2> HIDE DEF new, old, N, c, p
  <2>1. IsFiniteSet(DOMAIN mStreamDequeMap')
    BY <1>9, FS_AddElement DEF CacheInvariant, CacheTypeOK
  <2>2. ASSUME NEW s \in DOMAIN mStreamDequeMap'
        PROVE  /\ mStreamDequeMap'[s] \in Seq(Cachable)
               /\ Sorted(mStreamDequeMap'[s])
               /\ Len(mStreamDequeMap'[s]) <= Cardinality(N)'
    <3>1. CASE s = p.stream
      <4>1. Len(new) \in Nat /\ Len(old) \in Nat
        BY <1>6, <1>7
      <4>2. Len(new) <= Cardinality(N)'
        BY <1>4, <1>6, <1>7, <4>1
      <4> QED  BY <1>7, <1>9, <3>1, <4>2
    <3>2. CASE s # p.stream
      <4>1. /\ mStreamDequeMap'[s] = mStreamDequeMap[s]
            /\ mStreamDequeMap[s] \in Seq(Cachable)
            /\ Sorted(mStreamDequeMap[s])
            /\ Len(mStreamDequeMap[s]) <= Cardinality(N)
        BY <1>9, <3>2 DEF CacheInvariant, CacheTypeOK, N
      <4>2. Len(mStreamDequeMap[s]) \in Nat
        BY <4>1
      <4> QED  BY <1>4, <4>1, <4>2
    <3> QED  BY <3>1, <3>2
  <2> QED  BY <2>1, <2>2 DEF CacheTypeOK, N
<1>11. \A s : /\ HeldBy(s) \subseteq (HeldBy(s))'
              /\ (HeldBy(s))' \subseteq HeldBy(s) \cup
                    (IF s = p.stream THEN {c} ELSE {})
  <2> HIDE DEF new, old, c, p
  <2> SUFFICES ASSUME NEW s
               PROVE  /\ HeldBy(s) \subseteq (HeldBy(s))'
                      /\ (HeldBy(s))' \subseteq HeldBy(s) \cup
                            (IF s = p.stream THEN {c} ELSE {})
    OBVIOUS
  <2>1. CASE s = p.stream
    <3>1. (HeldBy(s))' = Held(new)
      BY <1>9, <2>1 DEF HeldBy, Held
    <3> QED  BY <1>6, <1>7, <2>1, <3>1
  <2>2. CASE s # p.stream
    BY <1>9, <2>2 DEF HeldBy, Held
  <2> QED  BY <2>1, <2>2
<1>12. \A s : s = p.stream =>
               \E q \in (HeldBy(s))' : q.startTime = p.startTime
  <2> HIDE DEF new, old, c, N, p
  <2> SUFFICES ASSUME NEW s, s = p.stream
               PROVE  \E q \in (HeldBy(s))' : q.startTime = p.startTime
    OBVIOUS
  <2>1. (HeldBy(s))' = Held(new)
    BY <1>9 DEF HeldBy, Held
  <2> QED  BY <1>5, <1>7, <2>1
<1>13. \A s : (HeldBy(s))' =
                  IF s = p.stream /\ IsNewsTo(HeldBy(s), c)
                  THEN HeldBy(s) \cup {c} ELSE HeldBy(s)
  <2> HIDE DEF new, old, c, N, p
  <2> SUFFICES ASSUME NEW s
               PROVE  (HeldBy(s))' =
                          IF s = p.stream /\ IsNewsTo(HeldBy(s), c)
                          THEN HeldBy(s) \cup {c} ELSE HeldBy(s)
    OBVIOUS
  <2>1. CASE s = p.stream
    <3>1. (HeldBy(s))' = Held(new)
      BY <1>9, <2>1 DEF HeldBy, Held
    <3> QED  BY <1>6, <1>7, <2>1, <3>1
  <2>2. CASE s # p.stream
    BY <1>9, <2>2 DEF HeldBy, Held
  <2> QED  BY <2>1, <2>2
<1> QED  BY <1>3, <1>9, <1>10, <1>11, <1>12, <1>13

\* The cache after a packet has been added, or refused.
LEMMA AddCache ==
    ASSUME QueueInvariant, CacheInvariant, Add
    PROVE  /\ CacheTypeOK' /\ NoFutureData' /\ StreamsAreThoseCached'
           /\ OnlyAgedLeave
<1> DEFINE p == feed[work]
           c == Converted(p)
           N == Numbers("cached")
<1>1. /\ QueueTypeOK
      /\ processor = "add" /\ AddToMap(p)
      /\ outcome' = [outcome EXCEPT ![work] =
                        IF Throws(p) THEN "refused" ELSE "cached"]
      /\ feed' = feed /\ latest' = latest
      /\ latest \in 0..MaxClock
  BY DEF Add, QueueInvariant, CacheInvariant, ClockTypeOK
<1>2. work \in 1..Len(feed) /\ outcome[work] = "pending" /\ p \in Packet
  BY <1>1 DEF QueueInvariant, QueueTypeOK, WorkIsPending
<1>3. CASE Throws(p)
  <2>1. UNCHANGED mStreamDequeMap /\ N' = N
    <3>1. outcome' = [outcome EXCEPT ![work] = "refused"]
      BY <1>1, <1>3
    <3>2. N' = N
      BY <1>1, <1>2, <3>1, OneSettles
    <3> QED  BY <1>1, <1>3, <3>2 DEF AddToMap
  <2>2. latest' \in 0..MaxClock /\ latest <= latest' /\ (\A n \in N : feed'[n] = feed[n])
    BY <1>1
  <2>3. CacheTypeOK' /\ NoFutureData' /\ StreamsAreThoseCached'
    BY <2>1, <2>2, SameCache
  <2>4. OnlyAgedLeave
    BY <2>1 DEF OnlyAgedLeave, HeldBy
  <2> QED  BY <2>3, <2>4
<1>4. CASE ~Throws(p)
  <2>1. /\ N' = N \cup {work} /\ CacheTypeOK'
        /\ DOMAIN mStreamDequeMap' = DOMAIN mStreamDequeMap \cup {p.stream}
        /\ \A s : /\ HeldBy(s) \subseteq (HeldBy(s))'
                  /\ (HeldBy(s))' \subseteq HeldBy(s) \cup {c}
    <3>1. ~Throws(feed[work])
      BY <1>4
    <3> QED  BY <3>1, AddHolds
  <2>2. c.startTime = p.startTime
    BY <1>2, CachableIsTimed
  <2>3. NoFutureData'
    <3> HIDE DEF c, p
    <3> SUFFICES ASSUME MaximumFutureTime >= 0,
                        NEW s, NEW q \in (HeldBy(s))'
                 PROVE  q.startTime <= latest' + MaximumFutureTime
      BY DEF NoFutureData
    <3>1. CASE q = c
      BY <1>1, <2>2, <3>1 DEF CacheInvariant, FutureIsChecked, p
    <3>2. CASE q \in HeldBy(s)
      <4>1. s \in GetAvailableStreams
        BY <3>2 DEF HeldBy, GetAvailableStreams
      <4> QED  BY <1>1, <3>2, <4>1 DEF CacheInvariant, NoFutureData
    <3> QED  BY <2>1, <3>1, <3>2
  <2>4. StreamsAreThoseCached'
    <3>1. DOMAIN mStreamDequeMap = {feed[n].stream : n \in N}
      BY DEF CacheInvariant, StreamsAreThoseCached, GetAvailableStreams
    <3>2. DOMAIN mStreamDequeMap' = {feed[n].stream : n \in N \cup {work}}
      <4> HIDE DEF N
      <4> QED  BY <2>1, <3>1
    <3>3. DOMAIN mStreamDequeMap' = {feed[n].stream : n \in N'}
      <4> HIDE DEF N
      <4> QED  BY <2>1, <3>2
    <3> QED  BY <1>1, <3>3 DEF StreamsAreThoseCached, GetAvailableStreams
  <2>5. OnlyAgedLeave
    BY <2>1 DEF OnlyAgedLeave
  <2> QED  BY <2>1, <2>3, <2>4, <2>5
<1> QED  BY <1>3, <1>4

\* The cleaner removes what has ended before the time it read, and no stream.
LEMMA CleanCache ==
    ASSUME QueueInvariant, CacheInvariant, Clean
    PROVE  /\ CacheTypeOK' /\ NoFutureData' /\ StreamsAreThoseCached'
           /\ OnlyAgedLeave
<1>1. /\ RemoveExpiredFromMap(oldestTime)
      /\ UNCHANGED <<latest, feed, outcome>>
      /\ oldestTime \in Int /\ latest \in Int
      /\ oldestTime <= latest - MaximumDuration
  BY ImportAssumption DEF Clean, history, CacheInvariant, ClockTypeOK
<1>2. Numbers("cached")' = Numbers("cached") /\ Timed(Cachable)
  BY <1>1, CachableIsTimed DEF Numbers
<1>3. /\ DOMAIN mStreamDequeMap' = DOMAIN mStreamDequeMap
      /\ \A s \in DOMAIN mStreamDequeMap :
            mStreamDequeMap'[s] = Unexpired(mStreamDequeMap[s], oldestTime)
  BY <1>1 DEF RemoveExpiredFromMap
<1>4. ASSUME NEW s \in DOMAIN mStreamDequeMap
      PROVE  /\ mStreamDequeMap[s] \in Seq(Cachable)
             /\ mStreamDequeMap'[s] \in Seq(Cachable)
             /\ Sorted(mStreamDequeMap'[s])
             /\ Len(mStreamDequeMap'[s]) <= Len(mStreamDequeMap[s])
             /\ Len(mStreamDequeMap[s]) <= Cardinality(Numbers("cached"))
             /\ (HeldBy(s))' = {p \in HeldBy(s) : p.endTime >= oldestTime}
  <2> DEFINE d == mStreamDequeMap[s]
             e == Unexpired(d, oldestTime)
  <2>1. /\ d \in Seq(Cachable) /\ Sorted(d)
        /\ Len(d) <= Cardinality(Numbers("cached"))
    BY DEF CacheInvariant, CacheTypeOK
  <2>2. mStreamDequeMap'[s] = e
    BY <1>3
  <2> HIDE DEF d
  <2>3. /\ e \in Seq(Cachable) /\ Len(e) <= Len(d) /\ Sorted(e)
        /\ Held(e) = {p \in Held(d) : p.endTime >= oldestTime}
    BY <1>1, <1>2, <2>1, UnexpiredProperty
  <2> HIDE DEF e
  <2>4. (HeldBy(s))' = Held(e) /\ HeldBy(s) = Held(d)
    BY <1>3, <2>2 DEF HeldBy, Held, d
  <2> QED  BY <2>1, <2>2, <2>3, <2>4 DEF d
<1>5. CacheTypeOK'
  <2>1. Cardinality(Numbers("cached")) \in Nat
    BY NumbersAreFew DEF QueueInvariant, QueueTypeOK
  <2>2. ASSUME NEW s \in DOMAIN mStreamDequeMap
        PROVE  Len(mStreamDequeMap'[s]) <= Cardinality(Numbers("cached"))
    <3>1. Len(mStreamDequeMap'[s]) \in Nat /\ Len(mStreamDequeMap[s]) \in Nat
      BY <1>4
    <3> QED  BY <1>4, <2>1, <3>1
  <2> QED  BY <1>2, <1>3, <1>4, <2>2 DEF CacheTypeOK, CacheInvariant
<1>6. NoFutureData'
  BY <1>1, <1>3, <1>4 DEF NoFutureData, GetAvailableStreams, CacheInvariant
<1>7. StreamsAreThoseCached'
  BY <1>1, <1>2, <1>3 DEF StreamsAreThoseCached, GetAvailableStreams, CacheInvariant
<1>8. OnlyAgedLeave
  <2> SUFFICES ASSUME NEW s \in DOMAIN mStreamDequeMap,
                      NEW p \in HeldBy(s), p \notin (HeldBy(s))'
               PROVE  p.endTime < latest - MaximumDuration
    BY DEF OnlyAgedLeave, GetAvailableStreams
  <2>1. ~(p.endTime >= oldestTime)
    BY <1>4
  <2>2. p \in Cachable
    BY <1>4 DEF HeldBy, Held
  <2>3. p.endTime \in Int
    BY <1>2, <2>2 DEF Timed
  <2> QED  BY <1>1, <2>1, <2>3, ImportAssumption
<1> QED  BY <1>5, <1>6, <1>7, <1>8

\* Every step keeps the cache invariant, and only what has aged out leaves.
LEMMA NextCache ==
    QueueInvariant /\ CacheInvariant /\ [Next]_vars
        => CacheInvariant' /\ OnlyAgedLeave
<1> SUFFICES ASSUME QueueInvariant, CacheInvariant, [Next]_vars
             PROVE  CacheInvariant' /\ OnlyAgedLeave
  OBVIOUS
<1>1. ClockTypeOK' /\ latest <= latest' /\ FutureIsChecked'
  BY NextClock, NextFuture DEF CacheInvariant, QueueInvariant
<1>2. CacheTypeOK' /\ NoFutureData' /\ StreamsAreThoseCached' /\ OnlyAgedLeave
  <2>1. CASE Elsewhere
    BY <1>1, <2>1, ElsewhereCache
  <2>2. CASE Add
    BY <2>2, AddCache
  <2>3. CASE Clean
    BY <2>3, CleanCache
  <2> QED  BY <2>1, <2>2, <2>3 DEF Next, Processor, Cleaner, Elsewhere
<1> QED  BY <1>1, <1>2 DEF CacheInvariant

\* The cache invariant holds in every state.
LEMMA SpecCache == Spec => []CacheInvariant
<1> QED  BY InitCache, NextCache, SpecQueue, PTL DEF Spec

\* The future check still holds when the packet is stored and ever after.
THEOREM CacheHasNoFutureData == Spec => []NoFutureData
<1>1. CacheInvariant => NoFutureData
  BY DEF CacheInvariant
<1> QED  BY <1>1, SpecCache, PTL

\* A stream is known exactly if a packet has been cached for it.
THEOREM CachedStreamsAreKnown == Spec => []StreamsAreThoseCached
<1>1. CacheInvariant => StreamsAreThoseCached
  BY DEF CacheInvariant
<1> QED  BY <1>1, SpecCache, PTL

\* Packets leave the cache by ageing only, however stale the cleaner's time.
THEOREM PacketsLeaveByAgeing == Spec => NothingLeavesEarly
<1>1. QueueInvariant /\ CacheInvariant /\ [Next]_vars
        => [\A s \in GetAvailableStreams :
               \A p \in HeldBy(s) \ (HeldBy(s))' :
                   p.endTime < latest - MaximumDuration]_vars
  BY NextCache DEF OnlyAgedLeave
<1> QED  BY <1>1, SpecQueue, SpecCache, PTL DEF Spec, NothingLeavesEarly

-----------------------------------------------------------------------------
(* The types                                                               *)

MetricsTypeOK ==
    metrics \in [{"received", "invalid", "removed", "importOverflow"} -> Nat]

\* The cleaner removes a finite number of packets.
LEMMA RemovesFinitelyMany ==
    ASSUME CacheTypeOK
    PROVE  NumberRemoved \in Nat
<1> DEFINE expired(s) == {s} \X {i \in DOMAIN mStreamDequeMap[s] :
                                    mStreamDequeMap[s][i].endTime < oldestTime}
           T == {expired(s) : s \in DOMAIN mStreamDequeMap}
<1>1. ASSUME NEW s \in DOMAIN mStreamDequeMap
      PROVE  IsFiniteSet(expired(s))
  <2> DEFINE n == Len(mStreamDequeMap[s])
             E == {i \in DOMAIN mStreamDequeMap[s] :
                      mStreamDequeMap[s][i].endTime < oldestTime}
  <2>1. DOMAIN mStreamDequeMap[s] = 1..n /\ n \in Nat
    BY DEF CacheTypeOK
  <2>2. E \subseteq 1..n
    BY <2>1
  <2> HIDE DEF n, E
  <2>3. IsFiniteSet(1..n)
    BY <2>1, FS_Interval
  <2>4. IsFiniteSet(E) /\ IsFiniteSet({s})
    BY <2>2, <2>3, FS_Subset, FS_Singleton
  <2>5. IsFiniteSet({s} \X E)
    BY <2>4, FS_Product
  <2> QED  BY <2>5 DEF E
<1>2. IsFiniteSet(DOMAIN mStreamDequeMap)
  BY DEF CacheTypeOK
<1>3. IsFiniteSet(T)
  <2> DEFINE D == DOMAIN mStreamDequeMap
             f == [s \in D |-> expired(s)]
  <2>1. f \in Surjection(D, T)
    <3> HIDE DEF D, expired
    <3> QED  BY DEF Surjection, D
  <2> HIDE DEF f, T, D
  <2>2. IsFiniteSet(D)
    BY <1>2 DEF D
  <2> QED  BY <2>1, <2>2, FS_Surjection
<1>4. \A S \in T : IsFiniteSet(S)
  <2> HIDE DEF expired
  <2> QED  BY <1>1
<1> HIDE DEF T
<1>5. IsFiniteSet(UNION T)
  BY <1>3, <1>4, FS_UNION
<1>6. Cardinality(UNION T) \in Nat
  BY <1>5, FS_CardinalityType
<1> QED  BY <1>6 DEF NumberRemoved, T

\* Counters only grow.
LEMMA NextMetrics ==
    MetricsTypeOK /\ CacheInvariant /\ [Next]_vars => MetricsTypeOK'
<1> SUFFICES ASSUME MetricsTypeOK, CacheInvariant, [Next]_vars
             PROVE  MetricsTypeOK'
  OBVIOUS
<1>1. CASE Take
  BY <1>1 DEF Take, MetricsTypeOK
<1>2. CASE Reject
  BY <1>2 DEF Reject, MetricsTypeOK
<1>3. CASE Clean
  <2>1. NumberRemoved \in Nat
    BY RemovesFinitelyMany DEF CacheInvariant
  <2>2. metrics' = [metrics EXCEPT !.removed = @ + NumberRemoved]
    BY <1>3 DEF Clean
  <2> HIDE DEF NumberRemoved
  <2> QED  BY <2>1, <2>2 DEF MetricsTypeOK
<1>4. CASE ~(Take \/ Reject \/ Clean)
  <2>1. UNCHANGED metrics
    BY <1>4 DEF Next, Clock, Tick, SetBack, Deliver, Importer, CheckRoom, PopOldest, PopNothing,
                Push, Processor, Accept, Add, Cleaner, WakeUp, vars
  <2> QED  BY <2>1 DEF MetricsTypeOK
<1> QED  BY <1>1, <1>2, <1>3, <1>4

\* The invariants say of every variable what type it has.
LEMMA ImportTypes == QueueInvariant /\ CacheInvariant /\ MetricsTypeOK => TypeOK
<1> SUFFICES ASSUME QueueInvariant, CacheInvariant, MetricsTypeOK
             PROVE  TypeOK
  OBVIOUS
<1>1. DOMAIN feed = 1..Len(feed) /\ Len(feed) \in Nat
  BY DEF QueueInvariant, QueueTypeOK
<1>2. /\ feed \in Seq(Packet)
      /\ outcome \in [DOMAIN feed -> Outcomes]
      /\ mImportQueue \in Seq(DOMAIN feed)
      /\ importer \in {"idle", "check", "pop", "push"}
      /\ processor \in {"take", "check", "add"}
      /\ work \in {0} \cup DOMAIN feed
  BY <1>1 DEF QueueInvariant, QueueTypeOK
<1>3. /\ latest \in 0..MaxClock
      /\ now \in (latest - MaxSetBack)..latest
      /\ cleaner \in {"asleep", "clean"}
      /\ oldestTime \in Int
      /\ \A s \in GetAvailableStreams :
            mStreamDequeMap[s] \in Seq({Converted(p) : p \in Packet})
  BY DEF CacheInvariant, ClockTypeOK, CacheTypeOK, Cachable, GetAvailableStreams
<1> QED  BY <1>2, <1>3 DEF TypeOK, MetricsTypeOK

\* Every variable always has its type.
THEOREM ImportTypeCorrect == Spec => []TypeOK
<1>1. Init => MetricsTypeOK
  BY DEF Init, MetricsTypeOK
<1> QED  BY <1>1, ImportTypes, NextMetrics, SpecQueue, SpecCache, PTL DEF Spec
=============================================================================
