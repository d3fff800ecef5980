----------------------------- MODULE ImportStop -----------------------------
(***************************************************************************)
(* Stopping the import: the pipeline of PacketImport together with what    *)
(* Process::stop does to it (src/src/main.cpp).  The main thread stops the *)
(* subscriber, whose call to the feed ends some time later, and does not   *)
(* wait for that before it clears mKeepRunning, which the processor and    *)
(* the cleaner look at once in each turn of their loops.                   *)
(***************************************************************************)
EXTENDS PacketImport

VARIABLES
    mSubscribing,       \* the subscriber's mKeepRunning
    feedOpen,           \* whether the feed's callback may still be called
    mKeepRunning,
    looked,             \* the processor has seen mKeepRunning set ...
    ended               \* ... and the threads that have seen it cleared

stopVars == <<mSubscribing, feedOpen, mKeepRunning, looked, ended>>
allVars == <<vars, stopVars>>

StopInit ==
    /\ Init
    /\ mSubscribing = TRUE /\ feedOpen = TRUE /\ mKeepRunning = TRUE
    /\ looked = FALSE /\ ended = {}

-----------------------------------------------------------------------------
(* Process::stop, and the end of the call to the feed                      *)

StopSubscriber ==
    /\ mSubscribing
    /\ mSubscribing' = FALSE
    /\ UNCHANGED <<vars, feedOpen, mKeepRunning, looked, ended>>

\* OnDone: gRPC calls it after the last OnReadDone has returned.
CloseFeed ==
    /\ ~mSubscribing /\ feedOpen /\ importer = "idle"
    /\ feedOpen' = FALSE
    /\ UNCHANGED <<vars, mSubscribing, mKeepRunning, looked, ended>>

StopPackets ==
    /\ ~mSubscribing /\ mKeepRunning
    /\ mKeepRunning' = FALSE
    /\ UNCHANGED <<vars, mSubscribing, feedOpen, looked, ended>>

-----------------------------------------------------------------------------
(* The loops, as far as the flag goes                                      *)

\* Mutation: the flag is looked at after a packet has been taken.
LookAfterTaking ==
    /\ processor # "add" /\ ~looked /\ "processor" \notin ended
    /\ processor = "check" => ~mKeepRunning
    /\ looked' = mKeepRunning
    /\ ended' = IF mKeepRunning THEN ended ELSE ended \cup {"processor"}
    /\ UNCHANGED <<vars, mSubscribing, feedOpen, mKeepRunning>>

\* while (mKeepRunning.load()) in processPackets
Look ==
    /\ processor = "take" /\ ~looked /\ "processor" \notin ended
    /\ looked' = mKeepRunning
    /\ ended' = IF mKeepRunning THEN ended ELSE ended \cup {"processor"}
    /\ UNCHANGED <<vars, mSubscribing, feedOpen, mKeepRunning>>

\* Mutation: pop() waits for a packet.
WaitForPacket ==
    /\ processor = "take" /\ looked /\ mImportQueue # <<>>
    /\ looked' = FALSE
    /\ UNCHANGED <<vars, mSubscribing, feedOpen, mKeepRunning, ended>>

\* try_pop finds nothing; after 10 ms the loop begins again.
FindNothing ==
    /\ processor = "take" /\ looked /\ mImportQueue = <<>>
    /\ looked' = FALSE
    /\ UNCHANGED <<vars, mSubscribing, feedOpen, mKeepRunning, ended>>

ProcessorStep ==
    \/ Look
    \/ FindNothing
    \/ /\ processor = "take" => looked
       /\ Processor
       /\ looked' = FALSE
       /\ UNCHANGED <<mSubscribing, feedOpen, mKeepRunning, ended>>

\* while (mKeepRunning.load()) in cleanDeques: when it is still set the clock
\* is read.  stop() ends the wait before.
CleanerStep ==
    \/ /\ cleaner = "asleep" => mKeepRunning
       /\ Cleaner
       /\ UNCHANGED stopVars
    \/ /\ cleaner = "asleep" /\ ~mKeepRunning /\ "cleaner" \notin ended
       /\ ended' = ended \cup {"cleaner"}
       /\ UNCHANGED <<vars, mSubscribing, feedOpen, mKeepRunning, looked>>

ImporterStep == Importer /\ UNCHANGED stopVars

StopNext ==
    \/ StopSubscriber
    \/ StopPackets
    \/ CloseFeed
    \/ Clock /\ UNCHANGED stopVars
    \/ \E p \in Packet : feedOpen /\ Deliver(p) /\ UNCHANGED stopVars
    \/ ImporterStep
    \/ ProcessorStep
    \/ CleanerStep

\* As for PacketImport; stop() goes on once it has begun, and gRPC ends a
\* call that is cancelled.
StopFairness ==
    /\ WF_allVars(ImporterStep)
    /\ WF_allVars(ProcessorStep)
    /\ WF_allVars(CleanerStep)
    /\ WF_allVars(StopPackets)
    /\ WF_allVars(CloseFeed)

StopSpec == StopInit /\ [][StopNext]_allVars /\ StopFairness

-----------------------------------------------------------------------------
(* Properties                                                              *)

\* The two flags are cleared in this order, and nobody ends before; a thread
\* that has ended is at the top of its loop for good.
StopTypeOK ==
    /\ TypeOK
    /\ <<mSubscribing, feedOpen, mKeepRunning, looked>> \in
          BOOLEAN \X BOOLEAN \X BOOLEAN \X BOOLEAN
    /\ ended \subseteq {"processor", "cleaner"}
    /\ mSubscribing => feedOpen /\ mKeepRunning
    /\ mKeepRunning => ended = {}
    /\ ~feedOpen => importer = "idle"
    /\ looked => processor = "take" /\ "processor" \notin ended
    /\ "processor" \in ended => processor = "take"
    /\ "cleaner" \in ended => cleaner = "asleep"

\* `Stop propagating the packets (that aren't coming)': they may be coming
\* still.  What the processor has taken it finishes, so that when it ends the
\* packets without an outcome are those in the queue and the one, if any,
\* that the subscriber's thread is adding.  These are given up, and so is
\* each packet that the feed delivers afterwards: it stays in the queue, or
\* it is lost there or pushes another one out, but none is cached, rejected
\* or counted any more.
StopLosesOnlyQueued ==
    [][/\ "processor" \in ended' \ ended =>
             Cardinality(Numbers("pending")) <=
                 MaximumImportQueueSize + (IF importer = "idle" THEN 0 ELSE 1)
       /\ "processor" \in ended =>
             /\ \A n \in DOMAIN outcome :
                   outcome'[n] # outcome[n] =>
                       outcome[n] = "pending" /\ outcome'[n] = "dropped"
             /\ metrics'.received = metrics.received
             /\ metrics'.invalid = metrics.invalid
      ]_allVars

\* Once stop() has begun every part of the import ends, whatever the feed
\* still delivers: nobody waits for a packet, for room or for a clock.
StopEndsImport ==
    ~mSubscribing ~> ended = {"processor", "cleaner"} /\ ~feedOpen

\* Every delivered packet is eventually cached, rejected or dropped, unless
\* the import is stopped: the three threads never wait for each other.
EveryPacketSettles ==
    \A n \in 1..MaxDeliveries :
        n \in Numbers("pending")
            ~> (n \in DOMAIN outcome /\ outcome[n] # "pending") \/ ~mKeepRunning

\* A packet that has aged out does not stay in the cache for ever, unless
\* the clock is set back or the import is stopped.
ExpiredPacketsLeave ==
    \A q \in Packet :
        LET held == Converted(q) \in HeldBy(q.stream)
            aged == q.endTime < now - MaximumDuration
        IN  held /\ aged ~> ~held \/ ~aged \/ ~mKeepRunning
=============================================================================
