---------------------------- MODULE PacketImport ----------------------------
(***************************************************************************)
(* The import side of class Process (src/src/main.cpp): three threads that *)
(* share a bounded queue and the map of deques.                            *)
(*                                                                         *)
(*   - the subscriber's thread calls Process::addPacket for every packet   *)
(*     of the feed, and makes room in the queue by popping the oldest;     *)
(*   - processPackets takes packets off the queue, rejects bad, old and    *)
(*     future ones, and adds the others to the map;                        *)
(*   - cleanDeques wakes up now and then and expires old packets.          *)
(*                                                                         *)
(* Each call into the queue, the clock or the map is a step of its own, so *)
(* that sizes, times and packets may be stale when they are used.          *)
(*                                                                         *)
(* The packet delivered n-th is known by its number n in feed.  feed,      *)
(* outcome and latest are history: the code keeps none of them.            *)
(***************************************************************************)
EXTENDS StreamDequeMap

CONSTANTS
    Packet,                 \* what the feed may deliver
    MaximumImportQueueSize, \* ProgramOptions
    MaximumLatency,         \* ProgramOptions; no check unless positive
    MaximumFutureTime,      \* ProgramOptions; no check if negative
    MaximumDuration,        \* StreamDequeMapOptions: how long packets stay
    MaxDeliveries,          \* bound: packets delivered
    MaxClock,               \* bound: how far the wall clock advances
    MaxSetBack              \* bound: how far it is set back

ASSUME ImportAssumption ==
    /\ \A p \in Packet : /\ p.startTime \in Int
                         /\ p.endTime \in Int
                         /\ p.startTime <= p.endTime
                         /\ p.quality \in {"good", "invalid", "unconvertible"}
    /\ MaximumImportQueueSize \in Nat \ {0}
    /\ MaximumLatency \in Int
    /\ MaximumFutureTime \in Int
    /\ MaximumDuration \in Nat \ {0}
    /\ MaxDeliveries \in Nat
    /\ MaxClock \in Nat
    /\ MaxSetBack \in Nat

\* Process makes its deques with default options, so that their capacity is
\* the largest int: within the bound no deque is ever full.
ASSUME CapacityAssumption == MaxDeliveries <= MaximumNumberOfPackets

VARIABLES
    now,            \* the wall clock
    latest,         \* the latest time it has shown
    feed,           \* the packets delivered so far
    outcome,        \* what became of each of them
    mImportQueue,   \* tbb::concurrent_bounded_queue, as numbers in feed
    importer,       \* where the subscriber's thread is in addPacket
    processor,      \* where processPackets is ...
    work,           \* ... and the packet it works on, 0 if none
    cleaner,        \* where cleanDeques is ...
    oldestTime,     \* ... and the time it has computed
    metrics         \* the counters of MetricsSingleton the import uses

clock == <<now, latest>>
threads == <<importer, processor, work, cleaner, oldestTime>>
history == <<feed, outcome>>
vars == <<clock, mImportQueue, mStreamDequeMap, metrics, threads, history>>

Outcomes == {"pending", "dropped", "invalid", "refused", "cached"}

Init ==
    /\ now = 0 /\ latest = 0
    /\ mStreamDequeMap = <<>>
    /\ mImportQueue = <<>>
    /\ feed = <<>> /\ outcome = <<>>
    /\ importer = "idle"
    /\ processor = "take" /\ work = 0
    /\ cleaner = "asleep" /\ oldestTime = 0
    /\ metrics = [received |-> 0, invalid |-> 0, removed |-> 0,
                  importOverflow |-> 0]

Tick ==
    /\ now < MaxClock
    /\ now' = now + 1
    /\ latest' = IF now' > latest THEN now' ELSE latest
    /\ UNCHANGED <<mImportQueue, mStreamDequeMap, metrics, threads, history>>

\* high_resolution_clock is the system's clock, which may be corrected.
SetBack ==
    /\ now' \in (latest - MaxSetBack)..(now - 1)
    /\ UNCHANGED <<latest, mImportQueue, mStreamDequeMap, metrics, threads, history>>

Clock == Tick \/ SetBack

-----------------------------------------------------------------------------
(* Process::addPacket, on the subscriber's thread                          *)

IsFullQueue == Len(mImportQueue) >= MaximumImportQueueSize

\* The subscriber calls back with the next packet.
Deliver(p) ==
    /\ importer = "idle"
    /\ Len(feed) < MaxDeliveries
    /\ feed' = Append(feed, p)
    /\ outcome' = Append(outcome, "pending")
    /\ importer' = "check"
    /\ UNCHANGED <<clock, mImportQueue, mStreamDequeMap, metrics,
                   processor, work, cleaner, oldestTime>>

\* Mutation: room is made once the queue is over its maximum.
CheckRoomLate ==
    /\ importer = "check"
    /\ importer' = IF Len(mImportQueue) > MaximumImportQueueSize
                   THEN "pop" ELSE "push"
    /\ UNCHANGED <<clock, mImportQueue, mStreamDequeMap, metrics, history,
                   processor, work, cleaner, oldestTime>>

\* Mutation: room is made one packet too soon.
CheckRoomEarly ==
    /\ importer = "check"
    /\ importer' = IF Len(mImportQueue) + 1 >= MaximumImportQueueSize
                   THEN "pop" ELSE "push"
    /\ UNCHANGED <<clock, mImportQueue, mStreamDequeMap, metrics, history,
                   processor, work, cleaner, oldestTime>>

\* while (mImportQueue.size() >= mMaximumImportQueueSize)
CheckRoom ==
    /\ importer = "check"
    /\ importer' = IF IsFullQueue THEN "pop" ELSE "push"
    /\ UNCHANGED <<clock, mImportQueue, mStreamDequeMap, metrics, history,
                   processor, work, cleaner, oldestTime>>

\* Mutation: the newest packet of the queue is lost.
PopNewest ==
    /\ importer = "pop"
    /\ mImportQueue # <<>>
    /\ outcome' = [outcome EXCEPT ![Back(mImportQueue)] = "dropped"]
    /\ mImportQueue' = SubSeq(mImportQueue, 1, Len(mImportQueue) - 1)
    /\ importer' = "check"
    /\ UNCHANGED <<clock, mStreamDequeMap, metrics, feed,
                   processor, work, cleaner, oldestTime>>

\* try_pop: the oldest packet of the queue is lost; back to the size check.
PopOldest ==
    /\ importer = "pop"
    /\ mImportQueue # <<>>
    /\ outcome' = [outcome EXCEPT ![Head(mImportQueue)] = "dropped"]
    /\ mImportQueue' = Tail(mImportQueue)
    /\ importer' = "check"
    /\ UNCHANGED <<clock, mStreamDequeMap, metrics, feed,
                   processor, work, cleaner, oldestTime>>

\* Mutation: the importer waits in pop() for a packet to lose.
PopWaits ==
    /\ importer = "pop"
    /\ mImportQueue = <<>>
    /\ UNCHANGED vars

\* try_pop finds nothing, because the processor was faster: break.
PopNothing ==
    /\ importer = "pop"
    /\ mImportQueue = <<>>
    /\ importer' = "push"
    /\ UNCHANGED <<clock, mImportQueue, mStreamDequeMap, metrics, history,
                   processor, work, cleaner, oldestTime>>

\* try_push: the packet is lost if the queue is at its capacity.
Push ==
    /\ importer = "push"
    /\ importer' = "idle"
    /\ IF IsFullQueue
       THEN /\ outcome' = [outcome EXCEPT ![Len(feed)] = "dropped"]
            /\ UNCHANGED mImportQueue
       ELSE /\ mImportQueue' = Append(mImportQueue, Len(feed))
            /\ UNCHANGED outcome
    /\ UNCHANGED <<clock, mStreamDequeMap, metrics, feed,
                   processor, work, cleaner, oldestTime>>

Importer == CheckRoom \/ PopOldest \/ PopNothing \/ Push

-----------------------------------------------------------------------------
(* Process::processPackets                                                 *)

\* try_pop and the count of packets received.
Take ==
    /\ processor = "take"
    /\ mImportQueue # <<>>
    /\ work' = Head(mImportQueue)
    /\ mImportQueue' = Tail(mImportQueue)
    /\ metrics' = [metrics EXCEPT !.received = @ + 1]
    /\ processor' = "check"
    /\ UNCHANGED <<clock, mStreamDequeMap, history, importer, cleaner, oldestTime>>

IsTooOld(p) == MaximumLatency > 0 /\ p.startTime < now - MaximumLatency

\* Mutation: zero turns the check off, as it does for the latency.
IsFromFutureUnlessZero(p) ==
    MaximumFutureTime > 0 /\ p.startTime > now + MaximumFutureTime

\* The code's endTime is the packet's start time (lines 361-364).
IsFromFuture(p) ==
    MaximumFutureTime >= 0 /\ p.startTime > now + MaximumFutureTime

\* isValid and the two time checks against one reading of the clock.
IsRejected(p) == p.quality = "invalid" \/ IsTooOld(p) \/ IsFromFuture(p)

\* Mutation: a rejected packet is not counted.
RejectUncounted ==
    /\ processor = "check"
    /\ IsRejected(feed[work])
    /\ outcome' = [outcome EXCEPT ![work] = "invalid"]
    /\ processor' = "take" /\ work' = 0
    /\ UNCHANGED <<clock, mImportQueue, mStreamDequeMap, metrics, feed,
                   importer, cleaner, oldestTime>>

Reject ==
    /\ processor = "check"
    /\ IsRejected(feed[work])
    /\ metrics' = [metrics EXCEPT !.invalid = @ + 1]
    /\ outcome' = [outcome EXCEPT ![work] = "invalid"]
    /\ processor' = "take" /\ work' = 0
    /\ UNCHANGED <<clock, mImportQueue, mStreamDequeMap, feed,
                   importer, cleaner, oldestTime>>

Accept ==
    /\ processor = "check"
    /\ ~IsRejected(feed[work])
    /\ processor' = "add"
    /\ UNCHANGED <<clock, mImportQueue, mStreamDequeMap, metrics, history,
                   importer, work, cleaner, oldestTime>>

\* Mutation: the packet is taken by reference, and the importer has gone on.
AddLatest ==
    /\ processor = "add"
    /\ AddToMap(feed[Len(feed)])
    /\ outcome' = [outcome EXCEPT
                     ![work] = IF Throws(feed[work]) THEN "refused" ELSE "cached"]
    /\ processor' = "take" /\ work' = 0
    /\ UNCHANGED <<clock, mImportQueue, metrics, feed,
                   importer, cleaner, oldestTime>>

\* mStreamDequeMap->addPacket, whose exceptions are logged and not counted.
Add ==
    /\ processor = "add"
    /\ AddToMap(feed[work])
    /\ outcome' = [outcome EXCEPT
                     ![work] = IF Throws(feed[work]) THEN "refused" ELSE "cached"]
    /\ processor' = "take" /\ work' = 0
    /\ UNCHANGED <<clock, mImportQueue, metrics, feed,
                   importer, cleaner, oldestTime>>

Processor == Take \/ Reject \/ Accept \/ Add

-----------------------------------------------------------------------------
(* Process::cleanDeques                                                    *)

\* Mutation: everything that has ended by now is expired.
WakeUpWithoutDuration ==
    /\ cleaner = "asleep"
    /\ oldestTime' = now
    /\ cleaner' = "clean"
    /\ UNCHANGED <<clock, mImportQueue, mStreamDequeMap, metrics, history,
                   importer, processor, work>>

\* The 30 s wait is over; the clock is read before the map is locked.
WakeUp ==
    /\ cleaner = "asleep"
    /\ oldestTime' = now - MaximumDuration
    /\ cleaner' = "clean"
    /\ UNCHANGED <<clock, mImportQueue, mStreamDequeMap, metrics, history,
                   importer, processor, work>>

\* Mutation: the sizes before and after are subtracted the wrong way round.
NumberRemovedReversed ==
    0 - Cardinality(UNION {{s} \X {i \in DOMAIN mStreamDequeMap[s] :
                                     mStreamDequeMap[s][i].endTime < oldestTime} :
                             s \in DOMAIN mStreamDequeMap})

NumberRemoved ==
    Cardinality(UNION {{s} \X {i \in DOMAIN mStreamDequeMap[s] :
                                 mStreamDequeMap[s][i].endTime < oldestTime} :
                         s \in DOMAIN mStreamDequeMap})

\* Mutation: the loop ends when there is nothing left to remove.
CleanUntilNothing ==
    /\ cleaner = "clean"
    /\ RemoveExpiredFromMap(oldestTime)
    /\ metrics' = [metrics EXCEPT !.removed = @ + NumberRemoved]
    /\ cleaner' = IF NumberRemoved = 0 THEN "ended" ELSE "asleep"
    /\ oldestTime' = 0
    /\ UNCHANGED <<clock, mImportQueue, history, importer, processor, work>>

\* Mutation: the map is locked for each stream, and one is all that gets done.
CleanOneStream ==
    /\ cleaner = "clean"
    /\ \E s \in GetAvailableStreams :
          mStreamDequeMap' = [mStreamDequeMap EXCEPT ![s] = Unexpired(@, oldestTime)]
    /\ metrics' = [metrics EXCEPT !.removed = @ + NumberRemoved]
    /\ cleaner' = "asleep" /\ oldestTime' = 0
    /\ UNCHANGED <<clock, mImportQueue, history, importer, processor, work>>

Clean ==
    /\ cleaner = "clean"
    /\ RemoveExpiredFromMap(oldestTime)
    /\ metrics' = [metrics EXCEPT !.removed = @ + NumberRemoved]
    /\ cleaner' = "asleep" /\ oldestTime' = 0
    /\ UNCHANGED <<clock, mImportQueue, history, importer, processor, work>>

Cleaner == WakeUp \/ Clean

-----------------------------------------------------------------------------

Next ==
    \/ Clock
    \/ \E p \in Packet : Deliver(p)
    \/ Importer
    \/ Processor
    \/ Cleaner

\* The operating system runs every thread again and again, and the
\* cleaner's wait times out.  The feed and the clock promise nothing.
Fairness == WF_vars(Importer) /\ WF_vars(Processor) /\ WF_vars(Cleaner)

Spec == Init /\ [][Next]_vars /\ Fairness

-----------------------------------------------------------------------------
(* Properties                                                              *)

TypeOK ==
    /\ latest \in 0..MaxClock
    /\ now \in (latest - MaxSetBack)..latest
    /\ feed \in Seq(Packet)
    /\ outcome \in [DOMAIN feed -> Outcomes]
    /\ mImportQueue \in Seq(DOMAIN feed)
    /\ importer \in {"idle", "check", "pop", "push"}
    /\ processor \in {"take", "check", "add"}
    /\ work \in {0} \cup DOMAIN feed
    /\ cleaner \in {"asleep", "clean"}
    /\ oldestTime \in Int
    /\ metrics \in [{"received", "invalid", "removed", "importOverflow"} -> Nat]
    /\ \A s \in GetAvailableStreams :
          mStreamDequeMap[s] \in Seq({Converted(p) : p \in Packet})

Numbers(result) == {n \in DOMAIN outcome : outcome[n] = result}

\* The size check and the push are two calls, yet try_push never fails: the
\* processor only makes more room, and there is no second producer.  (The
\* queue's capacity is the limit that the check uses, line 57.)
PushHasRoom == importer = "push" => ~IsFullQueue

\* When the queue overflows the oldest packets are lost, and the others keep
\* their order: whatever is queued was delivered after every lost packet
\* and after the packet that the processor works on.
OverflowCostsOldest ==
    \A i \in 1..Len(mImportQueue) :
        /\ work < mImportQueue[i]
        /\ \A n \in Numbers("dropped") : n < mImportQueue[i]
        /\ \A j \in 1..Len(mImportQueue) : i < j => mImportQueue[i] < mImportQueue[j]

\* The importer may pop a packet needlessly, because the size it read is
\* stale; but a delivery never costs more than one packet, and the first
\* mMaximumImportQueueSize deliveries cost none.
LossIsBounded ==
    Cardinality(Numbers("dropped")) + MaximumImportQueueSize
        <= IF Len(feed) > MaximumImportQueueSize
           THEN Len(feed) ELSE MaximumImportQueueSize

\* No packet is lost or counted without being accounted for: a packet that
\* has no outcome yet is in one place, and the two counters of the import
\* agree with the packets taken and rejected.
EveryPacketAccounted ==
    /\ Numbers("pending") =
           {mImportQueue[i] : i \in 1..Len(mImportQueue)}
             \cup (IF processor = "take" THEN {} ELSE {work})
             \cup (IF importer = "idle" THEN {} ELSE {Len(feed)})
    /\ metrics.received =
           Cardinality(DOMAIN feed \ Numbers("dropped"))
             - Len(mImportQueue) - (IF importer = "idle" THEN 0 ELSE 1)
    /\ metrics.invalid = Cardinality(Numbers("invalid"))

\* No cached packet starts later than the future check has ever allowed,
\* although the clock is read well before the packet is stored and may be
\* set back in between.
NoFutureData ==
    MaximumFutureTime >= 0 =>
        \A s \in GetAvailableStreams : \A p \in HeldBy(s) :
            p.startTime <= latest + MaximumFutureTime

\* The streams a client can ask for are exactly those that a packet was
\* cached for, also after a packet that could not be converted or after
\* all the stream's packets have expired.
StreamsAreThoseCached ==
    GetAvailableStreams = {feed[n].stream : n \in Numbers("cached")}

SameStart(n) == {m \in Numbers("cached") : /\ feed[m].stream = feed[n].stream
                                           /\ feed[m].startTime = feed[n].startTime}

\* From the feed to the client: a packet that was cached and has not aged
\* out is in the reply to a query for its own time range, or a packet with
\* the same start time is; whatever arrived since, in whatever order, and
\* however wrong the cleaner's clock is.  (When a short packet made the
\* cache skip a longer one with its start time, the data is gone as soon as
\* the short one has aged out.)
CachedDataIsServed ==
    \A n \in Numbers("cached") :
        (\A m \in SameStart(n) : feed[m].endTime >= latest - MaximumDuration)
        => \E r \in Held(GetPacketsFromMap(feed[n].stream, feed[n].startTime,
                                           feed[n].endTime)) :
              r.startTime = feed[n].startTime

\* A packet leaves the cache only by ageing: it ended more than
\* MaximumDuration before a time that the clock has shown, although the
\* cleaner works with the time it read earlier.
NothingLeavesEarly ==
    [][\A s \in GetAvailableStreams :
          \A p \in HeldBy(s) \ (HeldBy(s))' : p.endTime < latest - MaximumDuration
      ]_vars

-----------------------------------------------------------------------------
(* The import implements what ImportPromise promises.                      *)

Fate(n) ==
    IF outcome[n] # "pending" THEN outcome[n]
    ELSE IF processor # "take" /\ n = work THEN "taken" ELSE "waiting"

Promise == INSTANCE ImportPromise
               WITH fate <- [n \in DOMAIN outcome |-> Fate(n)],
                    cache <- [s \in GetAvailableStreams |-> HeldBy(s)]

\* Whatever the interleaving of the three threads and the clock, each step
\* settles a packet as promised, ages the cache, or cannot be seen: stale
\* sizes, times and packets never show, and deques behave like sets.
KeepsPromise == Promise!Spec

-----------------------------------------------------------------------------
(* What a log message says and the code does not do, refuted by a run.     *)

\* main.cpp line 369: a packet with data from the future is skipped.
FutureDataIsRejected ==
    MaximumFutureTime >= 0 =>
        \A s \in GetAvailableStreams : \A p \in HeldBy(s) :
            p.endTime <= latest + MaximumFutureTime
=============================================================================
