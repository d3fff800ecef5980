------------------------ MODULE ImportAccountProofs ------------------------
(***************************************************************************)
(* Proofs about PacketImport: where every delivered packet is, how many    *)
(* are lost, and that what was cached is served, for any feed and any      *)
(* queue size.                                                             *)
(***************************************************************************)
EXTENDS PacketImportProofs

USE DEF clock

Dropped == Cardinality(Numbers("dropped"))
Holding == IF importer = "idle" THEN 0 ELSE 1
Queued == {mImportQueue[i] : i \in 1..Len(mImportQueue)}
InWork == IF processor = "take" THEN {} ELSE {work}
InImport == IF importer = "idle" THEN {} ELSE {Len(feed)}

\* A packet without an outcome is queued, or one of the threads holds it.
PlacesOK == Numbers("pending") = Queued \cup InWork \cup InImport

\* Every packet delivered is lost, received, queued or being added.
Balance == Len(feed) = Dropped + metrics.received + Len(mImportQueue) + Holding

InvalidCounted == metrics.invalid = Cardinality(Numbers("invalid"))

\* When the importer has found the queue full there were that many packets
\* besides the lost ones and its own; they may have been taken since.
RoomWasNeeded ==
    importer = "pop" => Dropped + MaximumImportQueueSize + 1 <= Len(feed)

\* LossIsBounded is not inductive: the size the importer has read may be
\* stale, so that it is the balance of all packets that bounds the loss.
AccountInvariant ==
    /\ PlacesOK
    /\ Balance
    /\ InvalidCounted
    /\ RoomWasNeeded
    /\ LossIsBounded

\* The counts are natural numbers.
LEMMA AccountTypes ==
    ASSUME QueueTypeOK, MetricsTypeOK
    PROVE  /\ Dropped \in Nat /\ Holding \in Nat
           /\ Len(feed) \in Nat /\ Len(mImportQueue) \in Nat
           /\ metrics.received \in Nat /\ metrics.invalid \in Nat
           /\ Cardinality(Numbers("invalid")) \in Nat
           /\ MaximumImportQueueSize \in Nat \ {0}
<1>1. Dropped \in 0..Len(feed) /\ Cardinality(Numbers("invalid")) \in 0..Len(feed)
  BY NumbersAreFew DEF Dropped
<1> QED  BY <1>1, ImportAssumption DEF QueueTypeOK, MetricsTypeOK, Holding

\* A packet that settles is counted once, under its own outcome.
LEMMA OneIsCounted ==
    ASSUME QueueTypeOK, NEW n \in 1..Len(feed), outcome[n] = "pending",
           NEW result \in Outcomes \ {"pending"},
           outcome' = [outcome EXCEPT ![n] = result]
    PROVE  /\ Numbers("pending")' = Numbers("pending") \ {n}
           /\ Cardinality(Numbers(result)') = Cardinality(Numbers(result)) + 1
           /\ \A r \in Outcomes \ {"pending", result} : Numbers(r)' = Numbers(r)
<1>1. /\ DOMAIN outcome = 1..Len(feed) /\ DOMAIN outcome' = 1..Len(feed)
      /\ outcome'[n] = result
      /\ \A m \in 1..Len(feed) : m # n => outcome'[m] = outcome[m]
  BY DEF QueueTypeOK
<1>2. Numbers("pending")' = Numbers("pending") \ {n}
  BY <1>1 DEF Numbers
<1>3. Cardinality(Numbers(result)') = Cardinality(Numbers(result)) + 1
  <2>1. Numbers(result)' = Numbers(result) \cup {n} /\ n \notin Numbers(result)
    BY <1>1 DEF Numbers
  <2>2. IsFiniteSet(Numbers(result))
    BY NumbersAreFew
  <2> QED  BY <2>1, <2>2, FS_AddElement
<1>4. \A r \in Outcomes \ {"pending", result} : Numbers(r)' = Numbers(r)
  BY <1>1 DEF Numbers
<1> QED  BY <1>2, <1>3, <1>4

\* Nothing has been delivered and nothing counted.
LEMMA InitAccount == Init => AccountInvariant
<1> SUFFICES ASSUME Init
             PROVE  AccountInvariant
  OBVIOUS
<1>1. Len(feed) = 0 /\ Len(mImportQueue) = 0 /\ DOMAIN outcome = {}
  BY DEF Init
<1>2. \A r \in Outcomes : Numbers(r) = {}
  BY <1>1 DEF Numbers
<1>3. Dropped = 0 /\ Cardinality(Numbers("invalid")) = 0
  BY <1>2, FS_EmptySet DEF Dropped, Outcomes
<1>4. PlacesOK
  BY <1>1, <1>2 DEF PlacesOK, Queued, InWork, InImport, Init, Outcomes
<1>5. Balance /\ InvalidCounted /\ RoomWasNeeded /\ LossIsBounded
  BY <1>1, <1>3, ImportAssumption
     DEF Balance, Holding, InvalidCounted, RoomWasNeeded, LossIsBounded,
         Dropped, Init
<1> QED  BY <1>4, <1>5 DEF AccountInvariant

\* A delivered packet is held by the importer, which was idle.
LEMMA DeliverAccount ==
    ASSUME QueueInvariant, MetricsTypeOK, AccountInvariant,
           NEW p \in Packet, Deliver(p)
    PROVE  AccountInvariant'
<1> USE DEF QueueInvariant, AccountInvariant
<1> DEFINE n == Len(feed)
<1>1. /\ n \in Nat /\ Len(feed') = n + 1
      /\ DOMAIN outcome = 1..n /\ DOMAIN outcome' = 1..(n + 1)
      /\ outcome'[n + 1] = "pending"
      /\ \A i \in 1..n : outcome'[i] = outcome[i]
  <2>1. n \in Nat /\ outcome \in Seq(Outcomes) /\ Len(outcome) = n
    BY DEF QueueTypeOK
  <2>2. Len(feed') = n + 1
    BY DEF Deliver, QueueTypeOK
  <2>3. outcome' = Append(outcome, "pending") /\ "pending" \in Outcomes
    BY DEF Deliver, Outcomes
  <2> HIDE DEF n
  <2> QED  BY <2>1, <2>2, <2>3
<1>2. /\ mImportQueue' = mImportQueue /\ work' = work /\ processor' = processor
      /\ metrics' = metrics /\ importer' = "check" /\ importer = "idle"
  BY DEF Deliver
<1> HIDE DEF n
<1>3. /\ Numbers("pending")' = Numbers("pending") \cup {n + 1}
      /\ Numbers("dropped")' = Numbers("dropped")
      /\ Numbers("invalid")' = Numbers("invalid")
  BY <1>1 DEF Numbers
<1>4. Dropped' = Dropped /\ Holding = 0 /\ Holding' = 1
  BY <1>2, <1>3 DEF Dropped, Holding
<1>5. PlacesOK'
  BY <1>1, <1>2, <1>3 DEF PlacesOK, Queued, InWork, InImport
<1>6. Balance' /\ RoomWasNeeded'
  BY <1>1, <1>2, <1>4, AccountTypes DEF Balance, RoomWasNeeded, n
<1>7. InvalidCounted'
  BY <1>2, <1>3 DEF InvalidCounted
<1>8. LossIsBounded'
  BY <1>1, <1>3, <1>4, AccountTypes DEF LossIsBounded, Dropped, n
<1> QED  BY <1>5, <1>6, <1>7, <1>8

\* The importer pops only when the queue has been full.
LEMMA CheckRoomAccount ==
    ASSUME QueueInvariant, MetricsTypeOK, AccountInvariant, CheckRoom
    PROVE  AccountInvariant'
<1> USE DEF QueueInvariant, AccountInvariant
<1>1. /\ UNCHANGED <<feed, outcome, mImportQueue, work, processor, metrics>>
      /\ importer = "check" /\ importer' # "idle"
      /\ importer' = "pop" => IsFullQueue
  BY DEF CheckRoom, history
<1>2. PlacesOK' /\ Balance' /\ InvalidCounted' /\ LossIsBounded'
  <2>1. \A r : Numbers(r)' = Numbers(r)
    BY <1>1 DEF Numbers
  <2>2. PlacesOK'
    BY <1>1, <2>1 DEF PlacesOK, Queued, InWork, InImport
  <2>3. Balance'
    BY <1>1, <2>1 DEF Balance, Dropped, Holding
  <2>4. InvalidCounted' /\ LossIsBounded'
    BY <1>1, <2>1 DEF InvalidCounted, LossIsBounded
  <2> QED  BY <2>2, <2>3, <2>4
<1>3. RoomWasNeeded'
  <2>1. Dropped' = Dropped /\ Holding = 1
    BY <1>1 DEF Dropped, Numbers, Holding
  <2> DEFINE k == Len(mImportQueue)
             received == metrics.received
  <2>2. /\ Len(feed) = Dropped + received + k + 1
        /\ Dropped \in Nat /\ received \in Nat /\ k \in Nat
        /\ MaximumImportQueueSize \in Nat
    BY <2>1, AccountTypes DEF Balance
  <2>3. importer' = "pop" => k >= MaximumImportQueueSize
    BY <1>1 DEF IsFullQueue
  <2> HIDE DEF k, received
  <2>4. importer' = "pop" => Dropped + MaximumImportQueueSize + 1 <= Len(feed)
    BY <2>2, <2>3
  <2> QED  BY <1>1, <2>1, <2>4 DEF RoomWasNeeded
<1> QED  BY <1>2, <1>3

\* What a queue's front and rest hold between them, without repetition.
LEMMA QueuedSplit ==
    ASSUME QueueInvariant, mImportQueue # <<>>
    PROVE  /\ Head(mImportQueue) \in 1..Len(feed)
           /\ outcome[Head(mImportQueue)] = "pending"
           /\ Len(Tail(mImportQueue)) = Len(mImportQueue) - 1
           /\ {Tail(mImportQueue)[i] : i \in 1..Len(Tail(mImportQueue))}
                 = Queued \ {Head(mImportQueue)}
           /\ Head(mImportQueue) \in Queued
           /\ Head(mImportQueue) # work
           /\ importer # "idle" => Head(mImportQueue) # Len(feed)
<1> USE DEF QueueInvariant, QueueTypeOK
<1> DEFINE q == mImportQueue
           h == Head(mImportQueue)
           r == Tail(mImportQueue)
<1>1. /\ Len(q) \in Nat \ {0}
      /\ h = q[1] /\ h \in 1..Len(feed)
      /\ r \in Seq(1..Len(feed)) /\ Len(r) = Len(q) - 1
      /\ \A i \in 1..Len(r) : i + 1 \in 1..Len(q) /\ r[i] = q[i + 1]
  BY QueueTail
<1>2. 1 \in 1..Len(q)
  BY <1>1
<1>3. outcome[h] = "pending"
  BY <1>1, <1>2 DEF WorkIsPending
<1>4. h # work
  BY <1>1, <1>2 DEF OverflowCostsOldest
<1>5. importer # "idle" => h # Len(feed)
  BY <1>1, <1>2 DEF LatestIsHeld
<1> HIDE DEF h, r
<1>6. h \in Queued
  BY <1>1, <1>2 DEF Queued
<1>7. {r[i] : i \in 1..Len(r)} = Queued \ {h}
  <2>1. ASSUME NEW i \in 1..Len(r)
        PROVE  r[i] \in Queued \ {h}
    <3>1. i + 1 \in 1..Len(q) /\ r[i] = q[i + 1] /\ 1 < i + 1
      BY <1>1
    <3>2. q[1] < q[i + 1]
      BY <1>2, <3>1 DEF OverflowCostsOldest
    <3>3. q[1] # q[i + 1]
      BY <1>1, <3>2
    <3> QED  BY <1>1, <3>1, <3>3 DEF Queued
  <2>2. ASSUME NEW x \in Queued, x # h
        PROVE  \E i \in 1..Len(r) : x = r[i]
    <3>1. PICK j \in 1..Len(q) : x = q[j]
      BY DEF Queued
    <3>2. j # 1
      BY <1>1, <2>2, <3>1
    <3>3. j - 1 \in 1..Len(r)
      BY <1>1, <3>1, <3>2
    <3>4. r[j - 1] = q[(j - 1) + 1] /\ (j - 1) + 1 = j
      BY <1>1, <3>3
    <3> QED  BY <3>1, <3>3, <3>4
  <2> QED  BY <2>1, <2>2
<1> QED  BY <1>1, <1>3, <1>4, <1>5, <1>6, <1>7 DEF h, r

\* A popped packet is lost; there were enough others to need the room.
LEMMA PopOldestAccount ==
    ASSUME QueueInvariant, MetricsTypeOK, AccountInvariant, PopOldest
    PROVE  AccountInvariant'
<1> DEFINE h == Head(mImportQueue)
<1>1. /\ mImportQueue # <<>> /\ mImportQueue' = Tail(mImportQueue)
      /\ outcome' = [outcome EXCEPT ![h] = "dropped"]
      /\ UNCHANGED <<feed, work, processor, metrics>>
      /\ importer = "pop" /\ importer' = "check"
  BY DEF PopOldest
<1>2. /\ h \in 1..Len(feed) /\ outcome[h] = "pending"
      /\ Len(mImportQueue') = Len(mImportQueue) - 1
      /\ Queued' = Queued \ {h}
      /\ h # work /\ h # Len(feed)
  BY <1>1, QueuedSplit DEF Queued
<1> HIDE DEF h
<1>3. /\ Numbers("pending")' = Numbers("pending") \ {h}
      /\ Dropped' = Dropped + 1
      /\ Numbers("invalid")' = Numbers("invalid")
  <2>1. "dropped" \in Outcomes \ {"pending"} /\ "invalid" \in Outcomes \ {"pending", "dropped"}
    BY DEF Outcomes
  <2> QED  BY <1>1, <1>2, <2>1, OneIsCounted DEF Dropped, QueueInvariant
<1>4. Holding = 1 /\ Holding' = 1
  BY <1>1 DEF Holding
<1>5. PlacesOK'
  BY <1>1, <1>2, <1>3 DEF PlacesOK, InWork, InImport, AccountInvariant
<1>6. Balance' /\ RoomWasNeeded' /\ LossIsBounded'
  <2>1. /\ Len(feed) = Dropped + metrics.received + Len(mImportQueue) + 1
        /\ Dropped + MaximumImportQueueSize + 1 <= Len(feed)
    BY <1>1, <1>4 DEF AccountInvariant, Balance, RoomWasNeeded
  <2>2. Balance'
    <3>1. /\ Len(feed') = Len(feed) /\ metrics'.received = metrics.received
          /\ Len(mImportQueue') = Len(mImportQueue) - 1
          /\ Dropped' = Dropped + 1 /\ Holding' = 1
      BY <1>1, <1>2, <1>3, <1>4
    <3>2. /\ Dropped \in Nat /\ Len(mImportQueue) \in Nat
          /\ metrics.received \in Nat /\ Len(feed) \in Nat
      BY AccountTypes DEF QueueInvariant
    <3> DEFINE k == Len(mImportQueue)
               received == metrics.received
    <3>3. Len(feed) = (Dropped + 1) + received + (k - 1) + 1
      <4>1. /\ Len(feed) = Dropped + received + k + 1
            /\ Dropped \in Nat /\ received \in Nat /\ k \in Nat
        BY <2>1, <3>2
      <4> HIDE DEF k, received
      <4> QED  BY <4>1
    <3>4. Len(feed') = Dropped' + metrics'.received + Len(mImportQueue') + Holding'
      BY <3>1, <3>3
    <3> QED  BY <3>4 DEF Balance
  <2>3. Dropped' + MaximumImportQueueSize <= Len(feed') /\ Len(feed') > MaximumImportQueueSize
    <3>1. /\ Dropped \in Nat /\ MaximumImportQueueSize \in Nat
          /\ Len(feed) \in Nat
      BY AccountTypes DEF QueueInvariant
    <3>2. Dropped' = Dropped + 1 /\ Len(feed') = Len(feed)
      BY <1>1, <1>3
    <3> QED  BY <2>1, <3>1, <3>2
  <2> QED  BY <1>1, <2>2, <2>3 DEF RoomWasNeeded, LossIsBounded, Dropped
<1>7. InvalidCounted'
  BY <1>1, <1>3 DEF InvalidCounted, AccountInvariant
<1> QED  BY <1>5, <1>6, <1>7 DEF AccountInvariant

\* The held packet moves to the back of the queue, which has room.
LEMMA PushAccount ==
    ASSUME QueueInvariant, MetricsTypeOK, AccountInvariant, Push
    PROVE  AccountInvariant'
<1> DEFINE n == Len(feed)
           q == mImportQueue
<1>1. /\ UNCHANGED <<feed, outcome, work, processor, metrics>>
      /\ importer' = "idle" /\ importer = "push"
      /\ q' = Append(q, n)
  BY DEF Push, PushHasRoom, QueueInvariant
<1>2. /\ Len(q') = Len(q) + 1 /\ Len(q) \in Nat
      /\ q'[Len(q) + 1] = n
      /\ \A i \in 1..Len(q) : q'[i] = q[i]
  BY <1>1 DEF QueueInvariant, QueueTypeOK
<1>3. Queued' = Queued \cup {n}
  <2>1. \A i \in 1..Len(q') : i \in 1..Len(q) \/ i = Len(q) + 1
    BY <1>2
  <2>2. \A i \in 1..Len(q) : i \in 1..Len(q')
    BY <1>2
  <2>3. Len(q) + 1 \in 1..Len(q')
    BY <1>2
  <2> HIDE DEF n
  <2> QED  BY <1>2, <2>1, <2>2, <2>3 DEF Queued
<1>4. \A r : Numbers(r)' = Numbers(r)
  BY <1>1 DEF Numbers
<1>5. PlacesOK'
  BY <1>1, <1>3, <1>4 DEF PlacesOK, InWork, InImport, AccountInvariant
<1>6. Balance'
  <2>1. Dropped' = Dropped /\ Holding = 1 /\ Holding' = 0
    BY <1>1, <1>4 DEF Dropped, Holding
  <2>2. Len(feed) = Dropped + metrics.received + Len(q) + 1
    BY <2>1 DEF AccountInvariant, Balance
  <2>3. /\ Dropped \in Nat /\ metrics.received \in Nat
        /\ Len(q) \in Nat /\ Len(feed) \in Nat
    BY AccountTypes DEF QueueInvariant
  <2> DEFINE k == Len(q)
             received == metrics.received
  <2>4. Len(feed) = Dropped + received + (k + 1) + 0
    <3>1. /\ Len(feed) = Dropped + received + k + 1
          /\ Dropped \in Nat /\ received \in Nat /\ k \in Nat
      BY <2>2, <2>3
    <3> HIDE DEF k, received
    <3> QED  BY <3>1
  <2>5. Len(feed') = Dropped' + metrics'.received + Len(mImportQueue') + Holding'
    BY <1>1, <1>2, <2>1, <2>4
  <2> QED  BY <2>5 DEF Balance
<1>7. InvalidCounted' /\ RoomWasNeeded' /\ LossIsBounded'
  BY <1>1, <1>4 DEF InvalidCounted, RoomWasNeeded, LossIsBounded, AccountInvariant
<1> QED  BY <1>5, <1>6, <1>7 DEF AccountInvariant

\* The packet taken is received, and moves from the queue to the processor.
LEMMA TakeAccount ==
    ASSUME QueueInvariant, MetricsTypeOK, AccountInvariant, Take
    PROVE  AccountInvariant'
<1> DEFINE h == Head(mImportQueue)
<1>1. /\ mImportQueue # <<>> /\ mImportQueue' = Tail(mImportQueue)
      /\ UNCHANGED <<feed, outcome, importer>>
      /\ work' = h
      /\ metrics' = [metrics EXCEPT !.received = @ + 1]
      /\ processor = "take" /\ processor' = "check"
  BY DEF Take, history
<1>2. /\ h \in Queued
      /\ Len(mImportQueue') = Len(mImportQueue) - 1
      /\ Queued' = Queued \ {h}
  BY <1>1, QueuedSplit DEF Queued
<1> HIDE DEF h
<1>3. metrics'.received = metrics.received + 1 /\ metrics'.invalid = metrics.invalid
  BY <1>1 DEF MetricsTypeOK
<1>4. \A r : Numbers(r)' = Numbers(r)
  BY <1>1 DEF Numbers
<1>5. Dropped' = Dropped /\ Holding' = Holding
  BY <1>1, <1>4 DEF Dropped, Holding
<1>6. PlacesOK'
  BY <1>1, <1>2, <1>4 DEF PlacesOK, InWork, InImport, AccountInvariant
<1>7. Balance'
  <2>1. Len(feed) = Dropped + metrics.received + Len(mImportQueue) + Holding
    BY DEF AccountInvariant, Balance
  <2>2. /\ Dropped \in Nat /\ metrics.received \in Nat /\ Holding \in Nat
        /\ Len(mImportQueue) \in Nat /\ Len(feed) \in Nat
    BY AccountTypes DEF QueueInvariant, Holding
  <2>3. Len(feed) = Dropped + (metrics.received + 1) + (Len(mImportQueue) - 1) + Holding
    <3> DEFINE k == Len(mImportQueue)
               received == metrics.received
    <3>1. /\ Len(feed) = Dropped + received + k + Holding
          /\ Dropped \in Nat /\ received \in Nat /\ k \in Nat /\ Holding \in Nat
      BY <2>1, <2>2
    <3> HIDE DEF k, received
    <3>2. Len(feed) = Dropped + (received + 1) + (k - 1) + Holding
      BY <3>1
    <3> QED  BY <3>2 DEF k, received
  <2>4. Len(feed') = Dropped' + metrics'.received + Len(mImportQueue') + Holding'
    BY <1>1, <1>2, <1>3, <1>5, <2>3
  <2> QED  BY <2>4 DEF Balance
<1>8. InvalidCounted' /\ RoomWasNeeded' /\ LossIsBounded'
  BY <1>1, <1>3, <1>4, <1>5
     DEF InvalidCounted, RoomWasNeeded, LossIsBounded, AccountInvariant, Dropped
<1> QED  BY <1>6, <1>7, <1>8 DEF AccountInvariant

\* The processor settles its packet, and counts it if it is rejected.
LEMMA DoneAccount ==
    ASSUME QueueInvariant, MetricsTypeOK, AccountInvariant, processor # "take",
           NEW result \in {"invalid", "refused", "cached"},
           outcome' = [outcome EXCEPT ![work] = result],
           processor' = "take",
           UNCHANGED <<feed, mImportQueue, importer>>,
           metrics'.received = metrics.received,
           metrics'.invalid = IF result = "invalid" THEN metrics.invalid + 1
                                                    ELSE metrics.invalid
    PROVE  AccountInvariant'
<1> USE DEF QueueInvariant, AccountInvariant
<1>1. /\ work \in 1..Len(feed) /\ outcome[work] = "pending"
      /\ work \notin Queued /\ work \notin InImport
  <2>1. work \in 1..Len(feed) /\ outcome[work] = "pending"
    BY DEF WorkIsPending, QueueTypeOK
  <2>2. \A i \in 1..Len(mImportQueue) : mImportQueue[i] # work
    BY <2>1 DEF OverflowCostsOldest, QueueTypeOK
  <2>3. importer # "idle" => work # Len(feed)
    BY <2>1 DEF LatestIsHeld, QueueTypeOK
  <2> QED  BY <2>1, <2>2, <2>3 DEF Queued, InImport
<1>2. /\ Numbers("pending")' = Numbers("pending") \ {work}
      /\ Numbers("dropped")' = Numbers("dropped")
      /\ IF result = "invalid"
         THEN Cardinality(Numbers("invalid")') = Cardinality(Numbers("invalid")) + 1
         ELSE Numbers("invalid")' = Numbers("invalid")
  <2>1. /\ result \in Outcomes \ {"pending"}
        /\ "dropped" \in Outcomes \ {"pending", result}
        /\ result # "invalid" => "invalid" \in Outcomes \ {"pending", result}
    BY DEF Outcomes
  <2> QED  BY <1>1, <2>1, OneIsCounted
<1>3. PlacesOK'
  BY <1>1, <1>2 DEF PlacesOK, Queued, InWork, InImport
<1>4. InvalidCounted'
  BY <1>2 DEF InvalidCounted
<1>5. Balance' /\ RoomWasNeeded' /\ LossIsBounded'
  BY <1>2 DEF Balance, Holding, RoomWasNeeded, LossIsBounded, Dropped
<1> QED  BY <1>3, <1>4, <1>5

\* The accounts are inductive; cleaning and time do not concern them.
LEMMA NextAccount ==
    QueueInvariant /\ MetricsTypeOK /\ AccountInvariant /\ [Next]_vars
        => AccountInvariant'
<1> SUFFICES ASSUME QueueInvariant, MetricsTypeOK, AccountInvariant, [Next]_vars
             PROVE  AccountInvariant'
  OBVIOUS
<1>1. ASSUME UNCHANGED <<mImportQueue, feed, outcome, work>>,
             metrics'.received = metrics.received,
             metrics'.invalid = metrics.invalid,
             processor' = processor \/ (processor # "take" /\ processor' # "take"),
             importer' = importer \/ (importer = "pop" /\ importer' = "push")
      PROVE  AccountInvariant'
  <2>1. PlacesOK'
    BY <1>1 DEF AccountInvariant, PlacesOK, Queued, InWork, InImport, Numbers
  <2>2. Balance' /\ InvalidCounted'
    BY <1>1 DEF AccountInvariant, Balance, Dropped, Holding, InvalidCounted, Numbers
  <2>3. RoomWasNeeded' /\ LossIsBounded'
    BY <1>1 DEF AccountInvariant, RoomWasNeeded, LossIsBounded, Dropped, Numbers
  <2> QED  BY <2>1, <2>2, <2>3 DEF AccountInvariant
<1>2. CASE Clock \/ WakeUp \/ UNCHANGED vars
  <2>1. /\ UNCHANGED <<mImportQueue, feed, outcome, work, processor, importer>>
        /\ metrics' = metrics
    BY <1>2 DEF Clock, Tick, SetBack, WakeUp, threads, history, vars
  <2>2. metrics'.received = metrics.received /\ metrics'.invalid = metrics.invalid
    BY <2>1
  <2> QED  BY <1>1, <2>1, <2>2
<1>3. CASE Clean
  <2>1. metrics' = [metrics EXCEPT !.removed = @ + NumberRemoved]
    BY <1>3 DEF Clean
  <2>2. metrics'.received = metrics.received /\ metrics'.invalid = metrics.invalid
    BY <2>1 DEF MetricsTypeOK
  <2> QED  BY <1>1, <1>3, <2>2 DEF Clean, history
<1>4. CASE \E p \in Packet : Deliver(p)
  BY <1>4, DeliverAccount
<1>5. CASE PopNothing
  BY <1>1, <1>5 DEF PopNothing, history
<1>6. CASE CheckRoom \/ PopOldest \/ Push
  BY <1>6, CheckRoomAccount, PopOldestAccount, PushAccount
<1>7. CASE Take
  BY <1>7, TakeAccount
<1>8. CASE Accept
  BY <1>1, <1>8 DEF Accept, history
<1>9. CASE Reject
  <2>1. metrics'.received = metrics.received /\ metrics'.invalid = metrics.invalid + 1
    BY <1>9 DEF Reject, MetricsTypeOK
  <2> QED  BY <1>9, <2>1, DoneAccount DEF Reject
<1>10. CASE Add
  BY <1>10, DoneAccount DEF Add
<1> QED  BY <1>2, <1>3, <1>4, <1>5, <1>6, <1>7, <1>8, <1>9, <1>10
         DEF Next, Importer, Processor, Cleaner

-----------------------------------------------------------------------------

\* The accounts as the runs check them.
LEMMA AccountImplies ==
    QueueInvariant /\ MetricsTypeOK /\ AccountInvariant => EveryPacketAccounted
<1> SUFFICES ASSUME QueueInvariant, MetricsTypeOK, AccountInvariant
             PROVE  EveryPacketAccounted
  OBVIOUS
<1> DEFINE S == 1..Len(feed)
           D == Numbers("dropped")
<1>1. DOMAIN feed = S /\ Len(feed) \in Nat
  BY DEF QueueInvariant, QueueTypeOK
<1>2. IsFiniteSet(S) /\ Cardinality(S) = Len(feed)
  <2>1. CASE Len(feed) = 0
    BY <2>1, FS_EmptySet
  <2>2. CASE Len(feed) # 0
    <3>1. ~(1 > Len(feed)) /\ 1 \in Int /\ Len(feed) \in Int
      BY <1>1, <2>2
    <3> QED  BY <1>1, <3>1, FS_Interval
  <2> QED  BY <2>1, <2>2
<1>3. D \subseteq S
  BY DEF Numbers, QueueInvariant, QueueTypeOK
<1> HIDE DEF S, D
<1>4. Cardinality(S \ D) = Len(feed) - Cardinality(D)
  <2>1. S \cap D = D
    BY <1>3
  <2>2. Cardinality(S \ D) = Cardinality(S) - Cardinality(S \cap D)
    BY <1>2, FS_Difference
  <2> QED  BY <1>2, <2>1, <2>2, Zenon
<1>5. metrics.received = Cardinality(S \ D) - Len(mImportQueue) - Holding
  <2>1. Len(feed) = Dropped + metrics.received + Len(mImportQueue) + Holding
    BY DEF AccountInvariant, Balance
  <2>2. /\ Dropped \in Nat /\ metrics.received \in Nat /\ Holding \in Nat
        /\ Len(mImportQueue) \in Nat /\ Len(feed) \in Nat
    BY AccountTypes DEF QueueInvariant, Holding
  <2>3. Cardinality(S \ D) = Len(feed) - Dropped
    BY <1>4 DEF Dropped, D
  <2> DEFINE k == Len(mImportQueue)
             received == metrics.received
             n == Len(feed)
  <2>4. n = Dropped + received + k + Holding
    BY <2>1
  <2>5. /\ Dropped \in Nat /\ received \in Nat /\ k \in Nat /\ Holding \in Nat
        /\ n \in Nat
    BY <2>2
  <2> HIDE DEF k, received, n
  <2>6. received = (n - Dropped) - k - Holding
    BY <2>4, <2>5
  <2> QED  BY <2>3, <2>6 DEF k, received, n
<1>6. Numbers("pending") = Queued \cup InWork \cup InImport
  BY DEF AccountInvariant, PlacesOK
<1>7. metrics.invalid = Cardinality(Numbers("invalid"))
  BY DEF AccountInvariant, InvalidCounted
<1> QED  BY <1>1, <1>5, <1>6, <1>7
         DEF EveryPacketAccounted, Queued, InWork, InImport, Holding, D

\* The types of the counters and the accounts hold in every state.
LEMMA SpecAccount == Spec => [](MetricsTypeOK /\ AccountInvariant)
<1>1. Init => MetricsTypeOK
  BY DEF Init, MetricsTypeOK
<1> QED  BY <1>1, InitAccount, NextMetrics, NextAccount, SpecQueue, SpecCache,
            PTL DEF Spec

\* No delivered packet disappears: it is queued, held by a thread, or has an
\* outcome; and the counters of the import agree with the outcomes.
THEOREM PacketsAreAccounted == Spec => []EveryPacketAccounted
<1> QED  BY AccountImplies, SpecQueue, SpecAccount, PTL

\* A delivery costs at most one packet, and the first ones that fit into the
\* queue cost none, although the sizes the importer reads may be stale.
THEOREM LossStaysBounded == Spec => []LossIsBounded
<1>1. AccountInvariant => LossIsBounded
  BY DEF AccountInvariant
<1> QED  BY <1>1, SpecAccount, PTL

-----------------------------------------------------------------------------
(* From the feed to the client                                             *)

\* Whatever is held was delivered for its stream and cached.
HeldIsFed ==
    \A s \in GetAvailableStreams : \A q \in HeldBy(s) :
        \E m \in Numbers("cached") : feed[m].stream = s /\ q = Converted(feed[m])

\* No packet of the n-th one's stream and start time has aged out.
Fresh(n) == \A m \in SameStart(n) : feed[m].endTime >= latest - MaximumDuration

FreshIsHeld ==
    \A n \in Numbers("cached") :
        Fresh(n) => \E q \in HeldBy(feed[n].stream) :
                        q.startTime = feed[n].startTime

\* CachedDataIsServed is a property of the reply; that the data is still in
\* the deque needs the origin of what the cleaner removes.
FeedInvariant == HeldIsFed /\ FreshIsHeld

\* The packets that were cached are packets of the feed.
LEMMA CachedAreFed ==
    ASSUME QueueTypeOK
    PROVE  /\ Numbers("cached") \subseteq 1..Len(feed)
           /\ \A n \in Numbers("cached") : /\ feed[n] \in Packet
                                           /\ feed[n].startTime \in Int
                                           /\ feed[n].endTime \in Int
                                           /\ feed[n].startTime <= feed[n].endTime
<1>1. Numbers("cached") \subseteq 1..Len(feed)
  BY DEF QueueTypeOK, Numbers
<1>2. \A n \in Numbers("cached") : feed[n] \in Packet
  BY <1>1 DEF QueueTypeOK
<1> QED  BY <1>1, <1>2, ImportAssumption

\* What was fresh still is, when only the present and the feed change.
LEMMA SameFeed ==
    ASSUME QueueTypeOK, FeedInvariant, UNCHANGED mStreamDequeMap,
           latest \in Int, latest' \in Int, latest <= latest',
           Numbers("cached")' = Numbers("cached"),
           \A n \in Numbers("cached") : feed'[n] = feed[n]
    PROVE  FeedInvariant'
<1>1. \A s : (HeldBy(s))' = HeldBy(s)
  BY DEF HeldBy
<1>2. HeldIsFed'
  BY <1>1 DEF FeedInvariant, HeldIsFed, GetAvailableStreams
<1>3. FreshIsHeld'
  <2> SUFFICES ASSUME NEW n \in Numbers("cached"), Fresh(n)'
               PROVE  \E q \in HeldBy(feed[n].stream) :
                          q.startTime = feed[n].startTime
    BY <1>1 DEF FreshIsHeld
  <2>1. ASSUME NEW m \in SameStart(n)
        PROVE  feed[m].endTime >= latest - MaximumDuration
    <3>1. m \in SameStart(n)'
      BY <2>1 DEF SameStart
    <3>2. feed[m].endTime >= latest' - MaximumDuration
      BY <2>1, <3>1 DEF Fresh, SameStart
    <3>3. feed[m].endTime \in Int
      BY <2>1, CachedAreFed DEF SameStart
    <3> QED  BY <3>2, <3>3, ImportAssumption
  <2> QED  BY <2>1 DEF FeedInvariant, FreshIsHeld, Fresh
<1> QED  BY <1>2, <1>3 DEF FeedInvariant

\* A packet that is cached is held, and nothing leaves for it.
LEMMA AddFeed ==
    ASSUME QueueInvariant, CacheInvariant, FeedInvariant, Add
    PROVE  FeedInvariant'
<1> DEFINE p == feed[work]
           N == Numbers("cached")
<1>1. /\ feed' = feed /\ latest' = latest /\ latest \in Int
      /\ QueueTypeOK /\ N \subseteq 1..Len(feed)
      /\ work \in 1..Len(feed) /\ outcome[work] = "pending"
      /\ outcome' = [outcome EXCEPT ![work] =
                        IF Throws(p) THEN "refused" ELSE "cached"]
  BY CachedAreFed DEF Add, QueueInvariant, QueueTypeOK, WorkIsPending,
                      CacheInvariant, ClockTypeOK
<1>2. CASE Throws(p)
  <2>1. UNCHANGED mStreamDequeMap
    BY <1>2 DEF Add, AddToMap
  <2>2. N' = N
    <3>1. outcome' = [outcome EXCEPT ![work] = "refused"]
      BY <1>1, <1>2
    <3>2. "refused" # "cached"
      OBVIOUS
    <3> QED  BY <1>1, <3>1, <3>2, OneSettles
  <2> QED  BY <1>1, <2>1, <2>2, SameFeed
<1>3. CASE ~Throws(p)
  <2>1. /\ N' = N \cup {work}
        /\ DOMAIN mStreamDequeMap' = DOMAIN mStreamDequeMap \cup {p.stream}
        /\ \A s : /\ HeldBy(s) \subseteq (HeldBy(s))'
                  /\ (HeldBy(s))' \subseteq HeldBy(s) \cup
                        (IF s = p.stream THEN {Converted(p)} ELSE {})
        /\ \A s : s = p.stream =>
              \E q \in (HeldBy(s))' : q.startTime = p.startTime
    BY <1>3, AddHolds
  <2> HIDE DEF p, N
  <2>2. HeldIsFed'
    <3> SUFFICES ASSUME NEW s, NEW q \in (HeldBy(s))'
                 PROVE  \E m \in N' : feed[m].stream = s /\ q = Converted(feed[m])
      BY <1>1 DEF HeldIsFed, N
    <3>1. CASE q \in HeldBy(s)
      <4>1. s \in GetAvailableStreams
        BY <3>1 DEF HeldBy, GetAvailableStreams
      <4>2. \E m \in N : feed[m].stream = s /\ q = Converted(feed[m])
        BY <3>1, <4>1 DEF FeedInvariant, HeldIsFed, N
      <4> QED  BY <2>1, <4>2
    <3>2. CASE s = p.stream /\ q = Converted(p)
      BY <2>1, <3>2 DEF p
    <3> QED  BY <2>1, <3>1, <3>2
  <2>3. FreshIsHeld'
    <3>1. ASSUME NEW n \in N', Fresh(n)', NEW s, s = feed[n].stream
          PROVE  \E q \in (HeldBy(s))' : q.startTime = feed[n].startTime
      <4>1. CASE n \in N
        <5>1. \A m \in SameStart(n) : m \in SameStart(n)'
          BY <1>1, <2>1 DEF SameStart, N
        <5>2. Fresh(n)
          BY <1>1, <3>1, <5>1 DEF Fresh
        <5>3. \E q \in HeldBy(s) : q.startTime = feed[n].startTime
          BY <3>1, <4>1, <5>2 DEF FeedInvariant, FreshIsHeld, N
        <5> QED  BY <2>1, <5>3
      <4>2. CASE n = work
        BY <2>1, <3>1, <4>2 DEF p
      <4> QED  BY <2>1, <4>1, <4>2
    <3>2. \A n : (HeldBy(feed[n].stream))' =
                     IF feed[n].stream \in DOMAIN mStreamDequeMap'
                     THEN Held(mStreamDequeMap'[feed[n].stream]) ELSE {}
      BY <1>1 DEF HeldBy, Held
    <3>3. \A s : (HeldBy(s))' = IF s \in DOMAIN mStreamDequeMap'
                                THEN Held(mStreamDequeMap'[s]) ELSE {}
      BY DEF HeldBy, Held
    <3> QED  BY <1>1, <3>1, <3>2, <3>3 DEF FreshIsHeld, N
  <2> QED  BY <2>2, <2>3 DEF FeedInvariant
<1> QED  BY <1>2, <1>3

\* The cleaner forgets no stream and leaves the packets that have not aged.
LEMMA CleanRemoves ==
    ASSUME CacheInvariant, Clean
    PROVE  /\ DOMAIN mStreamDequeMap' = DOMAIN mStreamDequeMap
           /\ \A s : (HeldBy(s))' = {p \in HeldBy(s) : p.endTime >= oldestTime}
<1>1. /\ DOMAIN mStreamDequeMap' = DOMAIN mStreamDequeMap
      /\ \A s \in DOMAIN mStreamDequeMap :
            mStreamDequeMap'[s] = Unexpired(mStreamDequeMap[s], oldestTime)
      /\ oldestTime \in Int
  BY DEF Clean, RemoveExpiredFromMap, CacheInvariant, ClockTypeOK
<1>2. ASSUME NEW s \in DOMAIN mStreamDequeMap
      PROVE  Held(mStreamDequeMap'[s]) =
                 {p \in Held(mStreamDequeMap[s]) : p.endTime >= oldestTime}
  <2> DEFINE d == mStreamDequeMap[s]
  <2>1. d \in Seq(Cachable) /\ Sorted(d)
    BY DEF CacheInvariant, CacheTypeOK
  <2> HIDE DEF d
  <2>2. Held(Unexpired(d, oldestTime)) = {p \in Held(d) : p.endTime >= oldestTime}
    BY <1>1, <2>1, CachableIsTimed, UnexpiredProperty
  <2> QED  BY <1>1, <2>2 DEF d
<1>3. ASSUME NEW s
      PROVE  (HeldBy(s))' = {p \in HeldBy(s) : p.endTime >= oldestTime}
  <2>1. CASE s \in DOMAIN mStreamDequeMap
    BY <1>1, <1>2, <2>1 DEF HeldBy, Held
  <2>2. CASE s \notin DOMAIN mStreamDequeMap
    BY <1>1, <2>2 DEF HeldBy
  <2> QED  BY <2>1, <2>2
<1> QED  BY <1>1, <1>3

\* The cleaner takes no packet of a start time that is still fresh.
LEMMA CleanFeed ==
    ASSUME QueueInvariant, CacheInvariant, FeedInvariant, Clean
    PROVE  FeedInvariant'
<1>1. /\ UNCHANGED <<latest, feed, outcome>> /\ latest \in Int
      /\ DOMAIN mStreamDequeMap' = DOMAIN mStreamDequeMap
      /\ \A s : (HeldBy(s))' \subseteq HeldBy(s)
      /\ OnlyAgedLeave
  <2>1. \A s : (HeldBy(s))' \subseteq HeldBy(s)
    BY CleanRemoves
  <2> QED  BY <2>1, CleanCache, CleanRemoves
           DEF Clean, history, CacheInvariant, ClockTypeOK
<1>2. Numbers("cached")' = Numbers("cached") /\ \A n : SameStart(n)' = SameStart(n)
  BY <1>1 DEF Numbers, SameStart
<1>3. HeldIsFed'
  BY <1>1, <1>2 DEF FeedInvariant, HeldIsFed, GetAvailableStreams
<1>4. FreshIsHeld'
  <2> SUFFICES ASSUME NEW n \in Numbers("cached"), Fresh(n)'
               PROVE  \E q \in (HeldBy(feed[n].stream))' :
                          q.startTime = feed[n].startTime
    BY <1>1, <1>2 DEF FreshIsHeld
  <2>1. Fresh(n)
    BY <1>1, <1>2 DEF Fresh
  <2>2. PICK q \in HeldBy(feed[n].stream) : q.startTime = feed[n].startTime
    BY <2>1 DEF FeedInvariant, FreshIsHeld
  <2>3. feed[n].stream \in GetAvailableStreams
    BY <2>2 DEF HeldBy, GetAvailableStreams
  <2>4. PICK m \in Numbers("cached") : /\ feed[m].stream = feed[n].stream
                                       /\ q = Converted(feed[m])
    BY <2>2, <2>3 DEF FeedInvariant, HeldIsFed
  <2>5. q.endTime = feed[m].endTime /\ m \in SameStart(n)
    BY <2>2, <2>4 DEF Converted, SameStart
  <2>6. q.endTime >= latest - MaximumDuration /\ q.endTime \in Int
    BY <2>1, <2>4, <2>5, CachedAreFed DEF Fresh, QueueInvariant
  <2>7. ~(q.endTime < latest - MaximumDuration)
    BY <1>1, <2>6, ImportAssumption
  <2>8. q \in (HeldBy(feed[n].stream))'
    BY <1>1, <2>2, <2>3, <2>7 DEF OnlyAgedLeave
  <2> QED  BY <2>2, <2>8
<1> QED  BY <1>3, <1>4 DEF FeedInvariant

\* Every step keeps what the cache holds and the feed together.
LEMMA NextFeed ==
    QueueInvariant /\ CacheInvariant /\ FeedInvariant /\ [Next]_vars
        => FeedInvariant'
<1> SUFFICES ASSUME QueueInvariant, CacheInvariant, FeedInvariant, [Next]_vars
             PROVE  FeedInvariant'
  OBVIOUS
<1>1. CASE Elsewhere
  <2>1. latest \in Int /\ latest' \in Int /\ latest <= latest' /\ QueueTypeOK
    BY NextClock DEF CacheInvariant, ClockTypeOK, QueueInvariant
  <2>2. Numbers("cached") \subseteq 1..Len(feed)
    BY <2>1, CachedAreFed
  <2> QED  BY <1>1, <2>1, <2>2, ElsewhereCachesNothing, SameFeed
<1>2. CASE Add
  BY <1>2, AddFeed
<1>3. CASE Clean
  BY <1>3, CleanFeed
<1> QED  BY <1>1, <1>2, <1>3 DEF Next, Processor, Cleaner, Elsewhere

\* What is still held is served: the reply to a packet's own time range has
\* a packet of its start time.
LEMMA FeedImplies ==
    QueueInvariant /\ CacheInvariant /\ FeedInvariant => CachedDataIsServed
<1> SUFFICES ASSUME QueueInvariant, CacheInvariant, FeedInvariant,
                    NEW n \in Numbers("cached"), Fresh(n)
             PROVE  \E r \in Held(GetPacketsFromMap(feed[n].stream,
                                      feed[n].startTime, feed[n].endTime)) :
                        r.startTime = feed[n].startTime
  BY DEF CachedDataIsServed, Fresh
<1> DEFINE s == feed[n].stream
           d == mStreamDequeMap[s]
           qs == feed[n].startTime
           qe == feed[n].endTime
<1>1. qs \in Int /\ qe \in Int /\ qs <= qe
  BY CachedAreFed DEF QueueInvariant
<1>2. PICK q \in HeldBy(s) : q.startTime = qs
  BY DEF FeedInvariant, FreshIsHeld
<1>3. s \in DOMAIN mStreamDequeMap /\ HeldBy(s) = Held(d)
  BY <1>2 DEF HeldBy
<1>4. d \in Seq(Cachable) /\ Sorted(d)
  BY <1>3 DEF CacheInvariant, CacheTypeOK
<1>5. PICK j \in 1..Len(d) : d[j].startTime = qs
  BY <1>2, <1>3 DEF Held
<1> HIDE DEF s, d, qs, qe
<1>6. \E r \in Held(GetPackets(d, qs, qe)) : r.startTime = qs
  BY <1>1, <1>4, <1>5, CachableIsTimed, ReplyHasStart
<1> QED  BY <1>3, <1>6 DEF GetPacketsFromMap, s, d, qs, qe

\* What the cache holds and the history of the feed stay together.
LEMMA SpecFeed == Spec => []FeedInvariant
<1>1. Init => FeedInvariant
  BY DEF Init, FeedInvariant, HeldIsFed, FreshIsHeld, GetAvailableStreams,
         Numbers
<1> QED  BY <1>1, NextFeed, SpecQueue, SpecCache, PTL DEF Spec

\* A packet that was cached and has not aged out is served, or one with its
\* start time is, however stale the cleaner's clock and whatever has arrived
\* since.
THEOREM CachedIsServed == Spec => []CachedDataIsServed
BY SpecFeed, FeedImplies, SpecQueue, SpecCache, PTL

-----------------------------------------------------------------------------
(* The import keeps its promise: each step maps to one of ImportPromise, or *)
(* to none.                                                                 *)

FateOf == [n \in DOMAIN outcome |-> Fate(n)]
CacheAsSets == [s \in GetAvailableStreams |-> HeldBy(s)]

\* What the processor is about to add has passed isValid.
ValidIsChecked == processor = "add" => feed[work].quality # "invalid"

LEMMA NextValid ==
    ASSUME QueueInvariant, ValidIsChecked, [Next]_vars
    PROVE  ValidIsChecked'
<1> SUFFICES ASSUME processor' = "add"
             PROVE  feed'[work'].quality # "invalid"
  BY DEF ValidIsChecked
<1>1. CASE Accept
  BY <1>1 DEF Accept, history, IsRejected
<1>2. CASE ~Accept
  BY <1>2, WorkStays DEF ValidIsChecked
<1> QED  BY <1>1, <1>2

\* ImportPromise counts as we do.
LEMMA PromiseCounts == \A S : Promise!Cardinality(S) = Cardinality(S)
BY Zenon DEF Promise!Cardinality, Cardinality

\* Every packet delivered has a fate.
LEMMA FateIs ==
    ASSUME QueueTypeOK
    PROVE  /\ DOMAIN FateOf = 1..Len(feed)
           /\ \A n \in 1..Len(feed) : FateOf[n] = Fate(n)
BY DEF FateOf, QueueTypeOK

\* The packets by their fates: those that wait are in the queue or held by
\* the importer, and one at most has been taken up.
LEMMA ThoseAre ==
    ASSUME QueueInvariant, AccountInvariant
    PROVE  /\ Promise!Those("waiting") = Queued \cup InImport
           /\ Promise!Those("taken") = InWork
           /\ Promise!Those("dropped") = Numbers("dropped")
<1> DEFINE those(f) == {n \in 1..Len(feed) : Fate(n) = f}
<1>1. \A f : Promise!Those(f) = those(f)
  BY FateIs DEF Promise!Those, FateOf, QueueInvariant
<1>2. /\ DOMAIN outcome = 1..Len(feed) /\ Numbers("pending") \subseteq 1..Len(feed)
      /\ \A n \in 1..Len(feed) : outcome[n] \in Outcomes
      /\ "waiting" \notin Outcomes /\ "taken" \notin Outcomes
  BY DEF QueueInvariant, QueueTypeOK, Numbers, Outcomes
<1>3. Numbers("pending") = Queued \cup InWork \cup InImport
  BY DEF AccountInvariant, PlacesOK
<1>4. InWork \cap (Queued \cup InImport) = {}
  <2>1. \A i \in 1..Len(mImportQueue) : mImportQueue[i] # work
    <3>1. \A i \in 1..Len(mImportQueue) : /\ work < mImportQueue[i]
                                          /\ mImportQueue[i] \in Int
      BY DEF QueueInvariant, QueueTypeOK, OverflowCostsOldest
    <3>2. work \in Int
      BY DEF QueueInvariant, QueueTypeOK
    <3> QED  BY <3>1, <3>2
  <2>2. importer # "idle" => work # Len(feed)
    <3>1. importer # "idle" => work < Len(feed)
      BY DEF QueueInvariant, LatestIsHeld
    <3>2. work \in Int /\ Len(feed) \in Int
      BY DEF QueueInvariant, QueueTypeOK
    <3> QED  BY <3>1, <3>2
  <2> QED  BY <2>1, <2>2 DEF InWork, InImport, Queued
<1>5. those("waiting") = Numbers("pending") \ InWork
  BY <1>2 DEF Fate, InWork, Numbers
<1>6. those("taken") = Numbers("pending") \cap InWork
  BY <1>2 DEF Fate, InWork, Numbers
<1>7. those("dropped") = Numbers("dropped")
  BY <1>2 DEF Fate, Numbers
<1> HIDE DEF those
<1> QED  BY <1>1, <1>3, <1>4, <1>5, <1>6, <1>7

\* The front of the queue is the packet that waits longest.
LEMMA FrontIsNext ==
    ASSUME QueueInvariant, AccountInvariant, mImportQueue # <<>>
    PROVE  Promise!IsNext(Head(mImportQueue))
<1> DEFINE h == Head(mImportQueue)
<1>1. h \in Queued
  BY QueuedSplit
<1>2. /\ h = mImportQueue[1] /\ Len(mImportQueue) \in Nat \ {0}
      /\ h \in 1..Len(feed) /\ Len(feed) \in Nat
  BY QueueTail DEF QueueInvariant, QueueTypeOK
<1>3. ASSUME NEW m \in Queued
      PROVE  h <= m
  <2>1. PICK i \in 1..Len(mImportQueue) : m = mImportQueue[i]
    BY DEF Queued
  <2>2. CASE i = 1
    BY <1>2, <2>1, <2>2
  <2>3. CASE i # 1
    <3>1. 1 \in 1..Len(mImportQueue) /\ 1 < i
      BY <1>2, <2>1, <2>3
    <3>2. h < m
      BY <1>2, <2>1, <3>1 DEF QueueInvariant, OverflowCostsOldest
    <3>3. m \in Int
      BY <2>1 DEF QueueInvariant, QueueTypeOK
    <3> QED  BY <1>2, <3>2, <3>3
  <2> QED  BY <2>2, <2>3
<1>4. ASSUME NEW m \in InImport
      PROVE  h <= m
  BY <1>2, <1>4 DEF InImport
<1> HIDE DEF h
<1>5. h \in Promise!Those("waiting") /\ \A m \in Promise!Those("waiting") : h <= m
  BY <1>1, <1>3, <1>4, ThoseAre
<1> QED  BY <1>5 DEF Promise!IsNext, h

\* An outcome settles a packet.
LEMMA OutcomeSettles ==
    ASSUME QueueTypeOK, NEW n \in 1..Len(feed),
           NEW result \in Outcomes \ {"pending"},
           outcome' = [outcome EXCEPT ![n] = result],
           \/ UNCHANGED <<processor, work>>
           \/ n = work /\ processor' = "take"
    PROVE  Promise!Settle(n, result)
<1>1. /\ DOMAIN outcome = 1..Len(feed) /\ DOMAIN outcome' = 1..Len(feed)
      /\ outcome'[n] = result
      /\ \A m \in 1..Len(feed) : m # n => outcome'[m] = outcome[m]
  BY DEF QueueTypeOK
<1>2. Fate(n)' = result
  BY <1>1 DEF Fate
<1>3. \A m \in 1..Len(feed) : m # n => Fate(m)' = Fate(m)
  BY <1>1 DEF Fate
<1>4. FateOf' = [FateOf EXCEPT ![n] = result]
  BY <1>1, <1>2, <1>3 DEF FateOf
<1> QED  BY <1>4 DEF Promise!Settle, FateOf

\* The deques of a map that is left alone hold what they held.
LEMMA SameSets == UNCHANGED mStreamDequeMap => UNCHANGED CacheAsSets
BY DEF CacheAsSets, GetAvailableStreams, HeldBy, Held

\* The fates stay when the outcomes do and the processor keeps its packet.
LEMMA SameFates ==
    ASSUME UNCHANGED outcome, UNCHANGED work,
           processor' = "take" <=> processor = "take"
    PROVE  UNCHANGED FateOf
<1>1. \A n : Fate(n)' = Fate(n)
  BY DEF Fate
<1> QED  BY <1>1 DEF FateOf

\* A delivery.
LEMMA DeliverPromised ==
    ASSUME QueueInvariant, NEW p \in Packet, Deliver(p)
    PROVE  Promise!Deliver(p)
<1> DEFINE n == Len(feed)
           S == Outcomes \cup {"waiting", "taken"}
<1>1. /\ n \in Nat /\ outcome \in Seq(Outcomes) /\ Len(outcome) = n
      /\ feed' = Append(feed, p) /\ outcome' = Append(outcome, "pending")
      /\ UNCHANGED <<latest, mStreamDequeMap, processor, work>>
      /\ work \in 0..n
  <2>1. n \in Nat /\ outcome \in Seq(Outcomes) /\ Len(outcome) = n /\ work \in 0..n
    BY DEF QueueInvariant, QueueTypeOK
  <2> QED  BY <2>1 DEF Deliver
<1>2. /\ DOMAIN outcome = 1..n /\ DOMAIN outcome' = 1..(n + 1)
      /\ outcome'[n + 1] = "pending"
      /\ \A i \in 1..n : outcome'[i] = outcome[i] /\ outcome[i] \in Outcomes
  <2> HIDE DEF n
  <2>1. "pending" \in Outcomes
    BY DEF Outcomes
  <2> QED  BY <1>1, <2>1
<1> HIDE DEF n
<1>3. /\ \A i : i = n + 1 => Fate(i)' = "waiting"
      /\ \A i \in 1..n : Fate(i)' = Fate(i) /\ Fate(i) \in S
  <2>1. n + 1 # work
    BY <1>1
  <2>2. \A i : i = n + 1 => Fate(i)' = "waiting"
    BY <1>1, <1>2, <2>1 DEF Fate
  <2> QED  BY <1>1, <1>2, <2>2 DEF Fate
<1>4. FateOf \in Seq(S) /\ Len(FateOf) = n
  BY <1>1, <1>2, <1>3 DEF FateOf
<1>5. DOMAIN FateOf = 1..n /\ DOMAIN FateOf' = 1..(n + 1)
  BY <1>2 DEF FateOf
<1>6. FateOf'[n + 1] = "waiting" /\ \A i \in 1..n : FateOf'[i] = FateOf[i]
  BY <1>1, <1>2, <1>3 DEF FateOf
<1>7. FateOf' = [i \in 1..(n + 1) |-> FateOf'[i]]
  BY <1>5 DEF FateOf
<1> HIDE DEF S
<1>8. FateOf' = Append(FateOf, "waiting")
  BY <1>1, <1>4, <1>6, <1>7
<1> QED  BY <1>1, <1>8, SameSets DEF Promise!Deliver, FateOf, CacheAsSets

\* A packet that is popped to make room is lost, which was needed.
LEMMA PopOldestPromised ==
    ASSUME QueueInvariant, MetricsTypeOK, AccountInvariant, PopOldest
    PROVE  Promise!Lose(Head(mImportQueue))
<1> DEFINE h == Head(mImportQueue)
<1>1. /\ mImportQueue # <<>> /\ importer = "pop"
      /\ outcome' = [outcome EXCEPT ![h] = "dropped"]
      /\ UNCHANGED <<latest, feed, mStreamDequeMap, processor, work>>
  BY DEF PopOldest
<1>2. /\ h \in 1..Len(feed) /\ h # Len(feed) /\ Len(feed) \in Nat
  BY <1>1, QueuedSplit DEF QueueInvariant, QueueTypeOK
<1> HIDE DEF h
<1>3. h < Len(feed)
  BY <1>2
<1>4. Promise!Cardinality(Promise!Those("dropped")) + MaximumImportQueueSize < Len(feed)
  <2>1. Promise!Cardinality(Promise!Those("dropped")) = Dropped
    BY PromiseCounts, ThoseAre DEF Dropped
  <2>2. Dropped + MaximumImportQueueSize + 1 <= Len(feed)
    BY <1>1 DEF AccountInvariant, RoomWasNeeded
  <2>3. Dropped \in Nat /\ MaximumImportQueueSize \in Nat
    BY AccountTypes DEF QueueInvariant
  <2> QED  BY <1>2, <2>1, <2>2, <2>3
<1>5. Promise!Settle(h, "dropped")
  <2>1. "dropped" \in Outcomes \ {"pending"}
    BY DEF Outcomes
  <2> QED  BY <1>1, <1>2, <2>1, OutcomeSettles DEF QueueInvariant
<1>6. Promise!IsNext(h)
  BY <1>1, FrontIsNext DEF h
<1> QED  BY <1>1, <1>3, <1>4, <1>5, <1>6, SameSets
         DEF Promise!Lose, CacheAsSets, h

\* The processor takes up the packet that waits longest, and no second one.
LEMMA TakePromised ==
    ASSUME QueueInvariant, AccountInvariant, Take
    PROVE  Promise!TakeUp(Head(mImportQueue))
<1> DEFINE h == Head(mImportQueue)
<1>1. /\ mImportQueue # <<>> /\ processor = "take" /\ processor' = "check"
      /\ work' = h
      /\ UNCHANGED <<latest, feed, outcome, mStreamDequeMap>>
  BY DEF Take, history
<1>2. h \in 1..Len(feed) /\ outcome[h] = "pending" /\ DOMAIN outcome = 1..Len(feed)
  BY <1>1, QueuedSplit DEF QueueInvariant, QueueTypeOK
<1> HIDE DEF h
<1>3. \A m \in 1..Len(feed) : Fate(m)' = IF m = h THEN "taken" ELSE Fate(m)
  BY <1>1, <1>2 DEF Fate
<1>4. FateOf' = [FateOf EXCEPT ![h] = "taken"]
  BY <1>1, <1>2, <1>3 DEF FateOf
<1>5. Promise!Settle(h, "taken")
  BY <1>4 DEF Promise!Settle, FateOf
<1>6. Promise!Those("taken") = {}
  BY <1>1, ThoseAre DEF InWork
<1>7. Promise!IsNext(h)
  BY <1>1, FrontIsNext DEF h
<1> QED  BY <1>1, <1>5, <1>6, <1>7, SameSets DEF Promise!TakeUp, CacheAsSets, h

\* A rejected packet is bad by the time the clock shows.
LEMMA RejectPromised ==
    ASSUME QueueInvariant, CacheInvariant, AccountInvariant, Reject
    PROVE  Promise!Reject(work)
<1>1. /\ processor = "check" /\ processor' = "take" /\ IsRejected(feed[work])
      /\ outcome' = [outcome EXCEPT ![work] = "invalid"]
      /\ UNCHANGED <<latest, feed, mStreamDequeMap>>
  BY DEF Reject
<1>2. work \in 1..Len(feed) /\ work \in Promise!Those("taken")
  BY <1>1, ThoseAre DEF InWork, QueueInvariant, QueueTypeOK, WorkIsPending
<1>3. Promise!Settle(work, "invalid")
  <2>1. "invalid" \in Outcomes \ {"pending"}
    BY DEF Outcomes
  <2> QED  BY <1>1, <1>2, <2>1, OutcomeSettles DEF QueueInvariant
<1>4. now \in Promise!Showing /\ Promise!IsBad(feed[work], now)
  BY <1>1 DEF Promise!Showing, CacheInvariant, ClockTypeOK, IsRejected, IsTooOld,
              IsFromFuture, Promise!IsBad
<1> QED  BY <1>1, <1>2, <1>3, <1>4, SameSets DEF Promise!Reject, CacheAsSets

\* A packet whose conversion throws leaves no trace.
LEMMA RefusePromised ==
    ASSUME QueueInvariant, AccountInvariant, ValidIsChecked, Add,
           Throws(feed[work])
    PROVE  Promise!Refuse(work)
<1>1. /\ processor = "add" /\ processor' = "take"
      /\ outcome' = [outcome EXCEPT ![work] = "refused"]
      /\ UNCHANGED <<latest, feed, mStreamDequeMap>>
  BY DEF Add, AddToMap
<1>2. work \in 1..Len(feed) /\ work \in Promise!Those("taken") /\ feed[work] \in Packet
  BY <1>1, ThoseAre DEF InWork, QueueInvariant, QueueTypeOK, WorkIsPending
<1>3. Promise!Settle(work, "refused")
  <2>1. "refused" \in Outcomes \ {"pending"}
    BY DEF Outcomes
  <2> QED  BY <1>1, <1>2, <2>1, OutcomeSettles DEF QueueInvariant
<1>4. feed[work].quality = "unconvertible"
  BY <1>1, <1>2, ImportAssumption DEF ValidIsChecked, Throws
<1> QED  BY <1>1, <1>2, <1>3, <1>4, SameSets DEF Promise!Refuse, CacheAsSets

\* An unknown stream holds nothing on either side.
LEMMA SetsAre ==
    /\ DOMAIN CacheAsSets = DOMAIN mStreamDequeMap
    /\ \A s \in DOMAIN mStreamDequeMap : CacheAsSets[s] = HeldBy(s)
    /\ \A s : Promise!CacheOf(s) = HeldBy(s)
<1>1. /\ DOMAIN CacheAsSets = DOMAIN mStreamDequeMap
      /\ \A s \in DOMAIN mStreamDequeMap : CacheAsSets[s] = HeldBy(s)
  BY DEF CacheAsSets, GetAvailableStreams
<1>2. \A s : Promise!CacheOf(s) = HeldBy(s)
  BY DEF Promise!CacheOf, HeldBy, GetAvailableStreams
<1> QED  BY <1>1, <1>2

\* A packet that is added is stored as in a set: the bounded, sorted deque
\* of its stream does not show.
LEMMA StorePromised ==
    ASSUME QueueInvariant, CacheInvariant, AccountInvariant, Add,
           ~Throws(feed[work])
    PROVE  Promise!Store(work)
<1> DEFINE p == feed[work]
           c == Converted(p)
           T == DOMAIN mStreamDequeMap \cup {p.stream}
<1>1. /\ processor = "add" /\ processor' = "take"
      /\ outcome' = [outcome EXCEPT ![work] = "cached"]
      /\ UNCHANGED <<latest, feed>>
  BY DEF Add
<1>2. work \in 1..Len(feed) /\ work \in Promise!Those("taken")
  BY <1>1, ThoseAre DEF InWork, QueueInvariant, QueueTypeOK, WorkIsPending
<1>3. Promise!Settle(work, "cached")
  <2>1. "cached" \in Outcomes \ {"pending"}
    BY DEF Outcomes
  <2> QED  BY <1>1, <1>2, <2>1, OutcomeSettles DEF QueueInvariant
<1>4. /\ p.quality = "good"
      /\ MaximumFutureTime >= 0 => p.startTime <= latest + MaximumFutureTime
  BY <1>1 DEF Throws, CacheInvariant, FutureIsChecked
<1>5. /\ DOMAIN mStreamDequeMap' = T
      /\ \A s : (HeldBy(s))' = IF s = p.stream /\ IsNewsTo(HeldBy(s), c)
                               THEN HeldBy(s) \cup {c} ELSE HeldBy(s)
  BY AddHolds
<1>6. \A S : Promise!Stored(S, p) = IF IsNewsTo(S, c) THEN S \cup {c} ELSE S
  BY DEF Promise!Stored, Promise!IsNews, IsNewsTo, Converted
<1> HIDE DEF p, c, T
<1>7. \A s \in T : (HeldBy(s))' =
          IF s = p.stream THEN Promise!Stored(Promise!CacheOf(s), p)
          ELSE CacheAsSets[s]
  BY <1>5, <1>6, SetsAre DEF T
<1>8. CacheAsSets' = [s \in T |-> (HeldBy(s))']
  BY <1>5 DEF CacheAsSets, GetAvailableStreams
<1>9. CacheAsSets' =
          [s \in DOMAIN CacheAsSets \cup {p.stream} |->
              IF s = p.stream THEN Promise!Stored(Promise!CacheOf(s), p)
              ELSE CacheAsSets[s]]
  BY <1>7, <1>8, SetsAre DEF T
<1> QED  BY <1>1, <1>2, <1>3, <1>4, <1>9 DEF Promise!Store, CacheAsSets, p

\* The cleaner ages all streams at once, by a time that was shown.
LEMMA CleanPromised ==
    ASSUME CacheInvariant, Clean
    PROVE  Promise!Age
<1> DEFINE t == oldestTime + MaximumDuration
<1>1. /\ cleaner = "clean" /\ UNCHANGED <<latest, feed, outcome, processor, work>>
      /\ oldestTime \in Int /\ MaximumDuration \in Int
  BY ImportAssumption DEF Clean, history, CacheInvariant, ClockTypeOK
<1>2. t \in Promise!Shown /\ t - MaximumDuration = oldestTime
  BY <1>1 DEF Promise!Shown, CacheInvariant, ClockTypeOK
<1>3. CacheAsSets' =
          [s \in DOMAIN CacheAsSets |-> {p \in CacheAsSets[s] : p.endTime >= oldestTime}]
  <2>1. CacheAsSets' = [s \in DOMAIN mStreamDequeMap |-> (HeldBy(s))']
    BY CleanRemoves DEF CacheAsSets, GetAvailableStreams
  <2>2. \A s \in DOMAIN mStreamDequeMap :
            (HeldBy(s))' = {p \in CacheAsSets[s] : p.endTime >= oldestTime}
    BY CleanRemoves, SetsAre
  <2> QED  BY <2>1, <2>2, SetsAre
<1>4. UNCHANGED FateOf
  BY <1>1, SameFates
<1> HIDE DEF t
<1>5. CacheAsSets' =
          [s \in DOMAIN CacheAsSets |->
              {p \in CacheAsSets[s] : p.endTime >= t - MaximumDuration}]
  BY <1>2, <1>3
<1> QED  BY <1>1, <1>2, <1>4, <1>5 DEF Promise!Age, CacheAsSets, FateOf

\* Every step is one that was promised, or does not show.
LEMMA StepPromised ==
    ASSUME QueueInvariant, CacheInvariant, MetricsTypeOK, AccountInvariant,
           ValidIsChecked, [Next]_vars
    PROVE  [Promise!Next]_<<latest, feed, FateOf, CacheAsSets>>
<1> DEFINE Unseen == UNCHANGED <<latest, feed, FateOf, CacheAsSets>>
<1>1. ASSUME UNCHANGED <<latest, feed, outcome, mStreamDequeMap, work>>,
             processor' = "take" <=> processor = "take"
      PROVE  Unseen
  BY <1>1, SameFates, SameSets
<1>2. \A n \in 1..Len(feed) :
          \/ Promise!Lose(n) \/ Promise!TakeUp(n)
          \/ Promise!Reject(n) \/ Promise!Refuse(n) \/ Promise!Store(n)
          => Promise!Next
  BY FateIs DEF Promise!Next, FateOf, QueueInvariant
<1>3. CASE Tick
  <2>1. /\ UNCHANGED <<feed, outcome, mStreamDequeMap, work, processor>>
        /\ latest' = latest \/ latest' = latest + 1
    <3>1. now \in Int /\ latest \in Int /\ now <= latest
      BY ImportAssumption DEF CacheInvariant, ClockTypeOK
    <3> QED  BY <1>3, <3>1 DEF Tick, history, threads
  <2>2. CASE latest' = latest
    BY <1>1, <2>1, <2>2
  <2>3. CASE latest' = latest + 1
    <3>1. UNCHANGED <<FateOf, CacheAsSets>>
      BY <2>1, SameFates, SameSets
    <3> QED  BY <2>1, <2>3, <3>1
             DEF Promise!Next, Promise!Advance, FateOf, CacheAsSets
  <2> QED  BY <2>1, <2>2, <2>3
<1>4. CASE SetBack \/ CheckRoom \/ PopNothing \/ Accept \/ WakeUp \/ UNCHANGED vars
  BY <1>1, <1>4 DEF SetBack, CheckRoom, PopNothing, Accept, WakeUp, vars, threads, history
<1>5. CASE Push
  <2>1. ~IsFullQueue
    BY <1>5 DEF Push, PushHasRoom, QueueInvariant
  <2> QED  BY <1>1, <1>5, <2>1 DEF Push
<1>6. ASSUME NEW p \in Packet, Deliver(p)
      PROVE  Promise!Next
  BY <1>6, DeliverPromised DEF Promise!Next
<1>7. CASE PopOldest
  <2>1. Head(mImportQueue) \in 1..Len(feed)
    BY <1>7, QueuedSplit DEF PopOldest
  <2> QED  BY <1>2, <1>7, <2>1, PopOldestPromised
<1>8. CASE Take
  <2>1. Head(mImportQueue) \in 1..Len(feed)
    BY <1>8, QueuedSplit DEF Take
  <2> QED  BY <1>2, <1>8, <2>1, TakePromised
<1>9. CASE Reject \/ Add
  <2>1. work \in 1..Len(feed)
    BY <1>9 DEF Reject, Add, QueueInvariant, QueueTypeOK, WorkIsPending
  <2> QED  BY <1>2, <1>9, <2>1, RejectPromised, RefusePromised, StorePromised
<1>10. CASE Clean
  BY <1>10, CleanPromised DEF Promise!Next
<1> HIDE DEF Unseen
<1>11. Unseen \/ Promise!Next
  BY <1>3, <1>4, <1>5, <1>6, <1>7, <1>8, <1>9, <1>10
     DEF Next, Clock, Importer, Processor, Cleaner, Unseen
<1> QED  BY <1>11 DEF Unseen

\* Nothing has been delivered and nothing is cached.
LEMMA InitPromised == Init => Promise!Init
<1> SUFFICES ASSUME Init
             PROVE  Promise!Init
  OBVIOUS
<1>1. DOMAIN outcome = {} /\ DOMAIN mStreamDequeMap = {}
  BY DEF Init
<1>2. FateOf = <<>> /\ CacheAsSets = <<>>
  BY <1>1 DEF FateOf, CacheAsSets, GetAvailableStreams
<1> QED  BY <1>2 DEF Init, Promise!Init, FateOf, CacheAsSets

\* What was checked stays so, and the step is promised.
LEMMA NextPromised ==
    QueueInvariant /\ CacheInvariant /\ MetricsTypeOK /\ AccountInvariant
      /\ ValidIsChecked /\ [Next]_vars
    => ValidIsChecked' /\ [Promise!Next]_(Promise!vars)
<1>1. QueueInvariant /\ ValidIsChecked /\ [Next]_vars => ValidIsChecked'
  BY NextValid
<1>2. QueueInvariant /\ CacheInvariant /\ MetricsTypeOK /\ AccountInvariant
        /\ ValidIsChecked /\ [Next]_vars
        => [Promise!Next]_(Promise!vars)
  BY StepPromised DEF Promise!vars, FateOf, CacheAsSets
<1> QED  BY <1>1, <1>2

\* The import implements its promise: for any feed, queue size, limits and
\* clock and every interleaving, the threads, the queue and the deques do
\* not show in what becomes of the packets and what the cache holds.
THEOREM ImportKeepsPromise == Spec => KeepsPromise
<1>1. Init => ValidIsChecked
  BY DEF Init, ValidIsChecked
<1> QED  BY <1>1, NextPromised, InitPromised, SpecQueue, SpecCache, SpecAccount, PTL
         DEF Spec, KeepsPromise, Promise!Spec
=============================================================================
