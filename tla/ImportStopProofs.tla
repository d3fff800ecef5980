-------------------------- MODULE ImportStopProofs --------------------------
(***************************************************************************)
(* Proofs about ImportStop: the stop changes nothing but when the threads  *)
(* take their steps, so that all that holds of PacketImport still holds,   *)
(* and it gives up the queue, one packet, and what still arrives.          *)
(***************************************************************************)
EXTENDS ImportStop, ImportAccountProofs

\* What is known of the import, before and after the stop.
ImportInvariant ==
    /\ QueueInvariant
    /\ CacheInvariant
    /\ MetricsTypeOK
    /\ AccountInvariant

\* Only a successful push makes the queue longer.
QueueIsBounded == Len(mImportQueue) <= MaximumImportQueueSize

\* The part of StopTypeOK that is about the stop.
StopStateOK ==
    /\ mSubscribing \in BOOLEAN /\ feedOpen \in BOOLEAN
    /\ mKeepRunning \in BOOLEAN /\ looked \in BOOLEAN
    /\ ended \subseteq {"processor", "cleaner"}
    /\ mSubscribing => feedOpen /\ mKeepRunning
    /\ mKeepRunning => ended = {}
    /\ ~feedOpen => importer = "idle"
    /\ looked => processor = "take" /\ "processor" \notin ended
    /\ "processor" \in ended => processor = "take"
    /\ "cleaner" \in ended => cleaner = "asleep"

StopInvariant ==
    /\ ImportInvariant
    /\ QueueIsBounded
    /\ StopStateOK

-----------------------------------------------------------------------------

\* With the stop the import does nothing that it may not do without.
LEMMA StopNextImport == [StopNext]_allVars => [Next]_vars
<1> SUFFICES ASSUME [StopNext]_allVars
             PROVE  [Next]_vars
  OBVIOUS
<1>1. CASE StopSubscriber \/ StopPackets \/ CloseFeed \/ UNCHANGED allVars
  BY <1>1 DEF StopSubscriber, StopPackets, CloseFeed, allVars
<1>2. CASE Clock \/ (\E p \in Packet : Deliver(p)) \/ ImporterStep
  BY <1>2 DEF Next, ImporterStep
<1>3. CASE ProcessorStep
  BY <1>3 DEF Next, ProcessorStep, Look, FindNothing
<1>4. CASE CleanerStep
  BY <1>4 DEF Next, CleanerStep
<1> QED  BY <1>1, <1>2, <1>3, <1>4 DEF StopNext

\* The import that can be stopped implements the one that runs for ever, but
\* for its fairness: a stopped thread takes no more steps.
THEOREM StopImplementsImport == StopSpec => Init /\ [][Next]_vars
<1>1. StopInit => Init
  BY DEF StopInit
<1> QED  BY <1>1, StopNextImport, PTL DEF StopSpec

\* What is known of the import is inductive.
LEMMA InitImport == Init => ImportInvariant
<1>1. Init => MetricsTypeOK
  BY DEF Init, MetricsTypeOK
<1> QED  BY <1>1, InitQueue, InitCache, InitAccount DEF ImportInvariant

LEMMA NextImport == ImportInvariant /\ [Next]_vars => ImportInvariant'
BY NextQueue, NextCache, NextMetrics, NextAccount DEF ImportInvariant

\* The queue is never longer than its capacity.
LEMMA NextQueueLength ==
    ImportInvariant /\ QueueIsBounded /\ [Next]_vars => QueueIsBounded'
<1> SUFFICES ASSUME ImportInvariant, QueueIsBounded, [Next]_vars
             PROVE  QueueIsBounded'
  OBVIOUS
<1> USE DEF QueueIsBounded
<1>1. /\ Len(mImportQueue) \in Nat /\ mImportQueue \in Seq(1..Len(feed))
      /\ MaximumImportQueueSize \in Nat
  BY ImportAssumption DEF ImportInvariant, QueueInvariant, QueueTypeOK
<1>2. CASE UNCHANGED mImportQueue
  BY <1>2
<1>3. CASE Take \/ PopOldest
  <2>1. mImportQueue # <<>> /\ mImportQueue' = Tail(mImportQueue)
    BY <1>3 DEF Take, PopOldest
  <2>2. Len(mImportQueue') = Len(mImportQueue) - 1
    BY <1>1, <2>1, QueueTail
  <2> QED  BY <1>1, <2>2
<1>4. CASE Push /\ ~IsFullQueue
  <2>1. mImportQueue' = Append(mImportQueue, Len(feed))
    BY <1>4 DEF Push
  <2>2. Len(mImportQueue') = Len(mImportQueue) + 1
    BY <1>1, <2>1
  <2> QED  BY <1>1, <1>4, <2>2 DEF IsFullQueue
<1>5. CASE Push /\ IsFullQueue
  BY <1>5 DEF Push
<1> QED  BY <1>2, <1>3, <1>4, <1>5
         DEF Next, Clock, Tick, SetBack, Deliver, Importer, CheckRoom, PopNothing, Processor,
             Reject, Accept, Add, Cleaner, WakeUp, Clean, vars

\* The flags are cleared in order, and a thread that has seen its flag
\* cleared stays where it is.
LEMMA NextStopState ==
    StopInvariant /\ [StopNext]_allVars => StopStateOK'
<1> SUFFICES ASSUME StopInvariant, [StopNext]_allVars
             PROVE  StopStateOK'
  OBVIOUS
<1> USE DEF StopInvariant, StopStateOK
<1>1. CASE StopSubscriber \/ StopPackets \/ CloseFeed \/ UNCHANGED allVars
  <2>1. /\ importer' = importer /\ processor' = processor /\ cleaner' = cleaner
        /\ looked' = looked /\ ended' = ended
    BY <1>1 DEF StopSubscriber, StopPackets, CloseFeed, allVars, stopVars, vars, threads
  <2>2. CASE StopSubscriber
    <3>1. mSubscribing' = FALSE /\ feedOpen' = feedOpen /\ mKeepRunning' = mKeepRunning
      BY <2>2 DEF StopSubscriber
    <3> QED  BY <2>1, <3>1
  <2>3. CASE StopPackets
    <3>1. /\ ~mSubscribing /\ mSubscribing' = mSubscribing
          /\ feedOpen' = feedOpen /\ mKeepRunning' = FALSE
      BY <2>3 DEF StopPackets
    <3> QED  BY <2>1, <3>1
  <2>4. CASE CloseFeed
    <3>1. /\ ~mSubscribing /\ mSubscribing' = mSubscribing /\ importer = "idle"
          /\ feedOpen' = FALSE /\ mKeepRunning' = mKeepRunning
      BY <2>4 DEF CloseFeed
    <3> QED  BY <2>1, <3>1
  <2>5. CASE UNCHANGED allVars
    <3>1. /\ mSubscribing' = mSubscribing /\ feedOpen' = feedOpen
          /\ mKeepRunning' = mKeepRunning
      BY <2>5 DEF allVars, stopVars
    <3> QED  BY <2>1, <3>1
  <2> QED  BY <1>1, <2>2, <2>3, <2>4, <2>5
<1>2. CASE Clock /\ UNCHANGED stopVars
  BY <1>2 DEF Clock, Tick, SetBack, stopVars, threads
<1>3. CASE \E p \in Packet : feedOpen /\ Deliver(p) /\ UNCHANGED stopVars
  BY <1>3 DEF Deliver, stopVars
<1>4. CASE ImporterStep
  <2>1. /\ UNCHANGED <<processor, cleaner, stopVars>>
        /\ importer # "idle"
    BY <1>4 DEF ImporterStep, Importer, CheckRoom, PopOldest, PopNothing, Push
  <2> QED  BY <2>1 DEF stopVars
<1>5. CASE Look \/ FindNothing
  <2>1. /\ processor = "take" /\ "processor" \notin ended
        /\ UNCHANGED <<importer, processor, cleaner>>
        /\ UNCHANGED <<mSubscribing, feedOpen, mKeepRunning>>
    BY <1>5 DEF Look, FindNothing, vars, threads
  <2>2. CASE mKeepRunning \/ FindNothing
    <3>1. ended' = ended /\ looked' \in BOOLEAN
      BY <1>5, <2>2 DEF Look, FindNothing
    <3> QED  BY <2>1, <3>1
  <2>3. CASE ~mKeepRunning /\ Look
    <3>1. ended' = ended \cup {"processor"} /\ looked' = FALSE
      BY <2>3 DEF Look
    <3> QED  BY <2>1, <2>3, <3>1
  <2> QED  BY <1>5, <2>2, <2>3
<1>6. CASE /\ processor = "take" => looked
           /\ Processor
           /\ looked' = FALSE
           /\ UNCHANGED <<mSubscribing, feedOpen, mKeepRunning, ended>>
  <2>1. UNCHANGED <<importer, cleaner>>
    BY <1>6 DEF Processor, Take, Reject, Accept, Add
  <2>2. "processor" \notin ended
    BY <1>6 DEF Processor, Take, Reject, Accept, Add
  <2>3. /\ mSubscribing' = mSubscribing /\ feedOpen' = feedOpen
        /\ mKeepRunning' = mKeepRunning
        /\ ended' = ended /\ looked' = FALSE
    BY <1>6
  <2> QED  BY <2>1, <2>2, <2>3
<1>7. CASE /\ cleaner = "asleep" => mKeepRunning
           /\ Cleaner
           /\ UNCHANGED stopVars
  <2>1. UNCHANGED <<importer, processor>>
    BY <1>7 DEF Cleaner, WakeUp, Clean
  <2>2. "cleaner" \notin ended
    BY <1>7 DEF Cleaner, WakeUp, Clean
  <2> QED  BY <1>7, <2>1, <2>2 DEF stopVars
<1>8. CASE /\ cleaner = "asleep" /\ ~mKeepRunning /\ "cleaner" \notin ended
           /\ ended' = ended \cup {"cleaner"}
           /\ UNCHANGED <<vars, mSubscribing, feedOpen, mKeepRunning, looked>>
  BY <1>8 DEF vars, threads
<1> QED  BY <1>1, <1>2, <1>3, <1>4, <1>5, <1>6, <1>7, <1>8
         DEF StopNext, ProcessorStep, CleanerStep

\* The whole of it is inductive.
LEMMA StopInductive == StopSpec => []StopInvariant
<1>1. StopInit => StopInvariant
  <2> SUFFICES ASSUME StopInit
               PROVE  StopInvariant
    OBVIOUS
  <2>1. Init /\ Len(mImportQueue) = 0
    BY DEF StopInit, Init
  <2>2. QueueIsBounded
    BY <2>1, ImportAssumption DEF QueueIsBounded
  <2>3. StopStateOK
    BY DEF StopInit, Init, StopStateOK
  <2> QED  BY <2>1, <2>2, <2>3, InitImport DEF StopInvariant
<1>2. StopInvariant /\ [StopNext]_allVars => StopInvariant'
  BY StopNextImport, NextImport, NextQueueLength, NextStopState DEF StopInvariant
<1> QED  BY <1>1, <1>2, PTL DEF StopSpec

\* The packets of a queue are no more than its length.
LEMMA QueuedAreFew ==
    ASSUME QueueTypeOK
    PROVE  IsFiniteSet(Queued) /\ Cardinality(Queued) <= Len(mImportQueue)
<1> DEFINE k == Len(mImportQueue)
           f == [i \in 1..k |-> mImportQueue[i]]
<1>1. k \in Nat
  BY DEF QueueTypeOK
<1>2. f \in Surjection(1..k, Queued)
  BY DEF Surjection, Queued
<1> HIDE DEF k, f
<1>3. /\ IsFiniteSet(1..k)
      /\ Cardinality(1..k) = k
  <2>1. CASE k = 0
    <3>1. 1..k = {}
      BY <2>1
    <3> QED  BY <2>1, <3>1, FS_EmptySet
  <2>2. CASE k # 0
    <3>1. ~(1 > k) /\ 1 \in Int /\ k \in Int
      BY <1>1, <2>2
    <3> QED  BY <1>1, <3>1, FS_Interval
  <2> QED  BY <2>1, <2>2
<1>4. IsFiniteSet(Queued) /\ Cardinality(Queued) <= Cardinality(1..k)
  BY <1>2, <1>3, FS_Surjection
<1> QED  BY <1>3, <1>4 DEF k

\* When the processor ends, what is given up is in the queue, or is the
\* packet that is being added: never one that was taken.
LEMMA EndingLeavesFew ==
    ASSUME StopInvariant, Look
    PROVE  Cardinality(Numbers("pending")) <=
               MaximumImportQueueSize + (IF importer = "idle" THEN 0 ELSE 1)
<1> USE DEF StopInvariant, ImportInvariant
<1>1. Numbers("pending") = Queued \cup InImport
  BY DEF AccountInvariant, PlacesOK, InWork, Look
<1>2. /\ IsFiniteSet(Queued)
      /\ Cardinality(Queued) \in Nat
      /\ Cardinality(Queued) <= MaximumImportQueueSize
      /\ MaximumImportQueueSize \in Nat
  <2>1. /\ IsFiniteSet(Queued) /\ Cardinality(Queued) <= Len(mImportQueue)
        /\ Len(mImportQueue) \in Nat
    BY QueuedAreFew DEF QueueInvariant, QueueTypeOK
  <2>2. Cardinality(Queued) \in Nat
    BY <2>1, FS_CardinalityType
  <2> QED  BY <2>1, <2>2, ImportAssumption DEF QueueIsBounded
<1>3. CASE importer = "idle"
  <2>1. Numbers("pending") = Queued
    BY <1>1, <1>3 DEF InImport
  <2> QED  BY <1>2, <1>3, <2>1
<1>4. CASE importer # "idle"
  <2>1. Numbers("pending") = Queued \cup {Len(feed)}
    BY <1>1, <1>4 DEF InImport
  <2>2. Cardinality(Numbers("pending")) \in {Cardinality(Queued), Cardinality(Queued) + 1}
    BY <1>2, <2>1, FS_AddElement
  <2> QED  BY <1>2, <1>4, <2>2
<1> QED  BY <1>3, <1>4

\* What the other threads may still do to the packets and the two counters.
OnlyDrops ==
    /\ \A n \in DOMAIN outcome :
          outcome'[n] # outcome[n] =>
              outcome[n] = "pending" /\ outcome'[n] = "dropped"
    /\ metrics'.received = metrics.received
    /\ metrics'.invalid = metrics.invalid

\* The subscriber's thread settles packets by losing them only.
LEMMA ImporterOnlyDrops ==
    ASSUME QueueInvariant,
           Importer \/ \E p \in Packet : Deliver(p)
    PROVE  OnlyDrops
<1> USE DEF OnlyDrops
<1>1. DOMAIN outcome = 1..Len(feed)
  BY DEF QueueInvariant, QueueTypeOK
<1>2. CASE CheckRoom \/ PopNothing
  BY <1>2 DEF CheckRoom, PopNothing, history
<1>3. CASE PopOldest
  <2>1. /\ outcome' = [outcome EXCEPT ![Head(mImportQueue)] = "dropped"]
        /\ mImportQueue # <<>> /\ metrics' = metrics
    BY <1>3 DEF PopOldest
  <2>2. outcome[Head(mImportQueue)] = "pending"
    BY <2>1, QueuedSplit
  <2> QED  BY <2>1, <2>2
<1>4. CASE Push
  <2>1. outcome' = outcome /\ metrics' = metrics
    BY <1>4 DEF Push, QueueInvariant, PushHasRoom
  <2> QED  BY <2>1
<1>5. CASE \E p \in Packet : Deliver(p)
  <2>1. /\ outcome' = Append(outcome, "pending") /\ "pending" \in Outcomes
        /\ metrics' = metrics
    BY <1>5 DEF Deliver, Outcomes
  <2>2. outcome \in Seq(Outcomes)
    BY DEF QueueInvariant, QueueTypeOK
  <2>3. \A n \in DOMAIN outcome : outcome'[n] = outcome[n]
    BY <2>1, <2>2
  <2> QED  BY <2>1, <2>3
<1> QED  BY <1>2, <1>3, <1>4, <1>5 DEF Importer

\* The cleaner counts what it removes, and nothing else.
LEMMA CleanerOnlyDrops ==
    ASSUME MetricsTypeOK, Cleaner
    PROVE  OnlyDrops
<1>1. outcome' = outcome
  BY DEF Cleaner, WakeUp, Clean, history
<1>2. metrics'.received = metrics.received /\ metrics'.invalid = metrics.invalid
  <2>1. CASE WakeUp
    BY <2>1 DEF WakeUp
  <2>2. CASE Clean
    BY <2>2 DEF Clean, MetricsTypeOK
  <2> QED  BY <2>1, <2>2 DEF Cleaner
<1> QED  BY <1>1, <1>2 DEF OnlyDrops

\* Once the processor has ended, packets are lost in the queue or wait in it.
LEMMA AfterTheEnd ==
    ASSUME StopInvariant, [StopNext]_allVars, "processor" \in ended
    PROVE  OnlyDrops
<1> USE DEF StopInvariant, ImportInvariant
<1>1. processor = "take" /\ ~looked
  BY DEF StopStateOK
<1>2. CASE UNCHANGED <<outcome, metrics>>
  BY <1>2 DEF OnlyDrops
<1>3. CASE Importer \/ \E p \in Packet : Deliver(p)
  BY <1>3, ImporterOnlyDrops
<1>4. CASE Cleaner
  BY <1>4, CleanerOnlyDrops
<1>5. ~ProcessorStep
  BY <1>1 DEF ProcessorStep, Look, FindNothing
<1>6. StopSubscriber \/ StopPackets \/ CloseFeed \/ Clock \/ UNCHANGED allVars
        => UNCHANGED <<outcome, metrics>>
  BY DEF StopSubscriber, StopPackets, CloseFeed, Clock, Tick, SetBack, allVars, vars, history
<1>7. CleanerStep => Cleaner \/ UNCHANGED <<outcome, metrics>>
  BY DEF CleanerStep, vars, history
<1> QED  BY <1>2, <1>3, <1>4, <1>5, <1>6, <1>7 DEF StopNext, ImporterStep

\* Whenever the stop comes, it gives up what is queued when the processor
\* ends, the packet being added, and those that the feed delivers later;
\* each of these is lost in the queue, or stays there, uncounted.
THEOREM StopLosesLittle == StopSpec => StopLosesOnlyQueued
<1>1. StopInvariant /\ [StopNext]_allVars =>
        /\ "processor" \in ended' \ ended =>
             Cardinality(Numbers("pending")) <=
                 MaximumImportQueueSize + (IF importer = "idle" THEN 0 ELSE 1)
        /\ "processor" \in ended => OnlyDrops
  <2> SUFFICES ASSUME StopInvariant, [StopNext]_allVars
               PROVE  /\ "processor" \in ended' \ ended =>
                           Cardinality(Numbers("pending")) <=
                               MaximumImportQueueSize
                                 + (IF importer = "idle" THEN 0 ELSE 1)
                      /\ "processor" \in ended => OnlyDrops
    OBVIOUS
  <2>1. "processor" \in ended' \ ended => Look
    BY DEF StopNext, StopSubscriber, StopPackets, CloseFeed, ImporterStep,
           ProcessorStep, FindNothing, CleanerStep, stopVars, allVars
  <2> QED  BY <2>1, EndingLeavesFew, AfterTheEnd
<1> QED  BY <1>1, StopInductive, PTL DEF StopSpec, StopLosesOnlyQueued, OnlyDrops

\* Every variable has its type and the flags are cleared in order.
THEOREM StopTypeCorrect == StopSpec => []StopTypeOK
<1>1. StopInvariant => StopTypeOK
  <2> SUFFICES ASSUME StopInvariant
               PROVE  StopTypeOK
    OBVIOUS
  <2>1. TypeOK
    BY ImportTypes DEF StopInvariant, ImportInvariant
  <2> QED  BY <2>1 DEF StopTypeOK, StopInvariant, StopStateOK
<1> QED  BY <1>1, StopInductive, PTL

\* What is proved of the import alone holds of the one that is stopped: a
\* push has room, the oldest packets are the lost ones, the loss is bounded
\* and every packet accounted for.
THEOREM StopKeepsAccounts ==
    StopSpec => [](PushHasRoom /\ OverflowCostsOldest /\ LossIsBounded
                     /\ EveryPacketAccounted)
<1>1. StopInvariant => /\ PushHasRoom /\ OverflowCostsOldest /\ LossIsBounded
                       /\ EveryPacketAccounted
  BY AccountImplies DEF StopInvariant, ImportInvariant, QueueInvariant, AccountInvariant
<1> QED  BY <1>1, StopInductive, PTL

\* The import that can be stopped keeps the promise, too: what it gives up
\* waits for ever, and nothing is settled or cached in another way.
THEOREM StopKeepsPromise == StopSpec => KeepsPromise
<1>1. StopInit => Promise!Init /\ ValidIsChecked
  BY InitPromised DEF StopInit, Init, ValidIsChecked
<1>2. StopInvariant /\ ValidIsChecked /\ [StopNext]_allVars
        => ValidIsChecked' /\ [Promise!Next]_(Promise!vars)
  <2> SUFFICES ASSUME StopInvariant, ValidIsChecked, [StopNext]_allVars
               PROVE  ValidIsChecked' /\ [Promise!Next]_(Promise!vars)
    OBVIOUS
  <2>1. [Next]_vars
    BY StopNextImport
  <2> QED  BY <2>1, NextPromised DEF StopInvariant, ImportInvariant
<1> QED  BY <1>1, <1>2, StopInductive, PTL DEF StopSpec, KeepsPromise, Promise!Spec
=============================================================================
