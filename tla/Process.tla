------------------------------ MODULE Process ------------------------------
(***************************************************************************)
(* The life of class Process (src/src/main.cpp) once start() has launched  *)
(* its four threads and entered handleMainThread: a signal, or the end of  *)
(* a thread, makes the main thread stop the others and wait for them.      *)
(*                                                                         *)
(* The threads are the cleaner, the packet processor, the subscriber       *)
(* (module Subscriber) and Service::start, which builds the gRPC server    *)
(* and waits in it.  What they do with packets is in PacketImport and      *)
(* Service.                                                                *)
(***************************************************************************)
EXTENDS Subscriber

VARIABLES
    main,                   \* where the main thread is
    mInterrupted,           \* set by the signal handler
    mIsRunning,
    mTerminateRequested,
    mKeepRunning,
    cleaner,                \* where cleanDeques is
    processor,              \* where processPackets is
    serviceThread,          \* where Service::start is
    mServer,                \* "none" stands for a null pointer
    mServerStarted,
    taken,                  \* the futures that get() was called on
    exitCode

mainVars == <<main, mIsRunning, mTerminateRequested, mKeepRunning, taken, exitCode>>
serviceVars == <<serviceThread, mServer, mServerStarted>>
vars == <<subscriberVars, mainVars, mInterrupted, cleaner, processor, serviceVars>>

ProcessInit ==
    /\ SubscriberInit
    /\ main = "run"
    /\ mInterrupted = FALSE /\ mIsRunning = TRUE /\ mTerminateRequested = FALSE
    /\ mKeepRunning = TRUE
    /\ cleaner = "top" /\ processor = "top"
    /\ serviceThread = "build" /\ mServer = "none" /\ mServerStarted = FALSE
    /\ taken = {}
    /\ exitCode = "none"

\* The keys of mFuturesMap, in the map's order.
Futures == <<"CleanDeques", "DataPacketSubscriber", "PacketProcessor", "gRPCService">>

IsReady(future) ==
    CASE future = "CleanDeques" -> cleaner = "ended"
      [] future = "DataPacketSubscriber" -> acquirer \in {"ended", "failed"}
      [] future = "PacketProcessor" -> processor = "ended"
      [] future = "gRPCService" -> serviceThread = "ended"

\* get() rethrows.
Rethrows(future) == future = "DataPacketSubscriber" /\ acquirer = "failed"

Ready == {Futures[i] : i \in {j \in 1..Len(Futures) : IsReady(Futures[j])}}

Alive == exitCode = "none"

-----------------------------------------------------------------------------
(* The main thread: handleMainThread, areFuturesOkay and stop              *)

Signal ==
    /\ Alive
    /\ mInterrupted' = TRUE
    /\ UNCHANGED <<subscriberVars, mainVars, cleaner, processor, serviceVars>>

\* Mutation: what the threads throw is logged and no more.
PollSignalsOnly ==
    /\ main = "run" /\ Alive
    /\ main' = IF mInterrupted THEN "stop" ELSE "run"
    /\ taken' = IF mInterrupted THEN taken ELSE taken \cup Ready
    /\ UNCHANGED <<subscriberVars, mInterrupted, mIsRunning, mTerminateRequested,
                   mKeepRunning, exitCode, cleaner, processor, serviceVars>>

\* One turn of the loop.  A future that get() was called on in an earlier
\* turn is not valid any more: wait_for throws, too.
Poll ==
    /\ main = "run" /\ Alive
    /\ IF mInterrupted
       THEN main' = "stop" /\ UNCHANGED taken
       ELSE /\ taken' = taken \cup Ready
            /\ main' = IF taken # {} \/ \E future \in Ready : Rethrows(future)
                       THEN "stop" ELSE "run"
    /\ UNCHANGED <<subscriberVars, mInterrupted, mIsRunning, mTerminateRequested,
                   mKeepRunning, exitCode, cleaner, processor, serviceVars>>

\* stop() wakes the cleaner, and does the rest only once.
Stop ==
    /\ main = "stop" /\ Alive
    /\ mTerminateRequested' = TRUE
    /\ mIsRunning' = FALSE
    /\ main' = IF mIsRunning THEN "stopImport" ELSE "join"
    /\ UNCHANGED <<subscriberVars, mInterrupted, mKeepRunning, taken, exitCode,
                   cleaner, processor, serviceVars>>

\* Subscriber::stop, whose two steps are far enough apart for a reconnect.
StopImport ==
    /\ main = "stopImport" /\ Alive
    /\ IF mShutdownRequested
       THEN StopSubscribing /\ main' = "stopPackets"
       ELSE RequestShutdown /\ UNCHANGED main
    /\ UNCHANGED <<mInterrupted, mIsRunning, mTerminateRequested, mKeepRunning,
                   taken, exitCode, cleaner, processor, serviceVars>>

StopPackets ==
    /\ main = "stopPackets" /\ Alive
    /\ mKeepRunning' = FALSE
    /\ main' = "stopService"
    /\ UNCHANGED <<subscriberVars, mInterrupted, mIsRunning, mTerminateRequested,
                   taken, exitCode, cleaner, processor, serviceVars>>

\* Mutation: the server is given up without being shut down.
StopServiceQuietly ==
    /\ main = "stopService" /\ Alive
    /\ mServerStarted' = FALSE
    /\ main' = "join"
    /\ UNCHANGED <<subscriberVars, mInterrupted, mIsRunning, mTerminateRequested,
                   mKeepRunning, taken, exitCode, cleaner, processor,
                   serviceThread, mServer>>

\* Service::stop shuts down and deletes a server that has been started, and
\* otherwise does nothing: a server being built is not stopped.
StopService ==
    /\ main = "stopService" /\ Alive
    /\ mServer' = IF mServerStarted THEN "none" ELSE mServer
    /\ mServerStarted' = FALSE
    /\ main' = "join"
    /\ UNCHANGED <<subscriberVars, mInterrupted, mIsRunning, mTerminateRequested,
                   mKeepRunning, taken, exitCode, cleaner, processor, serviceThread>>

Untaken == {i \in 1..Len(Futures) : Futures[i] \notin taken}

\* Mutation: an exception that leaves stop() leaves the other threads alone.
JoinUntilFailure ==
    /\ main = "join" /\ Alive
    /\ IF Untaken = {}
       THEN exitCode' = "success" /\ UNCHANGED <<main, taken>>
       ELSE LET future == Futures[CHOOSE i \in Untaken : \A j \in Untaken : i <= j]
            IN  /\ IsReady(future)
                /\ taken' = taken \cup {future}
                /\ exitCode' = IF Rethrows(future) THEN "failure" ELSE exitCode
                /\ UNCHANGED main
    /\ UNCHANGED <<subscriberVars, mInterrupted, mIsRunning, mTerminateRequested,
                   mKeepRunning, cleaner, processor, serviceVars>>

\* The last loop of stop(): wait for one future after the other.  What get()
\* rethrows leaves stop() and start(), and the destructor of Process calls
\* stop() again to wait for the rest.
Join ==
    /\ main \in {"join", "joinAfterFailure"} /\ Alive
    /\ IF Untaken = {}
       THEN /\ exitCode' = IF main = "join" THEN "success" ELSE "failure"
            /\ UNCHANGED <<main, taken>>
       ELSE LET future == Futures[CHOOSE i \in Untaken : \A j \in Untaken : i <= j]
            IN  /\ IsReady(future)
                /\ taken' = taken \cup {future}
                /\ main' = IF Rethrows(future) THEN "joinAfterFailure" ELSE main
                /\ UNCHANGED exitCode
    /\ UNCHANGED <<subscriberVars, mInterrupted, mIsRunning, mTerminateRequested,
                   mKeepRunning, cleaner, processor, serviceVars>>

Main == Poll \/ Stop \/ StopImport \/ StopPackets \/ StopService \/ Join

-----------------------------------------------------------------------------
(* The other threads                                                       *)

\* cleanDeques looks at mKeepRunning, cleans and waits ...
CleanerTop ==
    /\ cleaner = "top" /\ Alive
    /\ cleaner' = IF mKeepRunning THEN "wait" ELSE "ended"
    /\ UNCHANGED <<subscriberVars, mainVars, mInterrupted, processor, serviceVars>>

\* ... until 30 s are over or mTerminateRequested is set.
CleanerWakesUp ==
    /\ cleaner = "wait" /\ Alive
    /\ cleaner' = "top"
    /\ UNCHANGED <<subscriberVars, mainVars, mInterrupted, processor, serviceVars>>

ProcessorEnds ==
    /\ processor = "top" /\ ~mKeepRunning /\ Alive
    /\ processor' = "ended"
    /\ UNCHANGED <<subscriberVars, mainVars, mInterrupted, cleaner, serviceVars>>

\* BuildAndStart, which answers a null pointer when it cannot listen.
BuildServer ==
    /\ serviceThread = "build" /\ Alive
    /\ mServer' \in {"up", "none"}
    /\ serviceThread' = "built"
    /\ UNCHANGED <<subscriberVars, mainVars, mInterrupted, cleaner, processor,
                   mServerStarted>>

MarkStarted ==
    /\ serviceThread = "built" /\ Alive
    /\ mServerStarted' = TRUE
    /\ serviceThread' = "started"
    /\ UNCHANGED <<subscriberVars, mainVars, mInterrupted, cleaner, processor, mServer>>

\* mServer->Wait(): through a null pointer if nothing was built, or if
\* Service::stop has already deleted the server.
EnterWait ==
    /\ serviceThread = "started" /\ Alive
    /\ IF mServer = "up"
       THEN serviceThread' = "waiting" /\ UNCHANGED exitCode
       ELSE exitCode' = "crash" /\ UNCHANGED serviceThread
    /\ UNCHANGED <<subscriberVars, mInterrupted, cleaner, processor, mServer,
                   mServerStarted, main, mIsRunning, mTerminateRequested,
                   mKeepRunning, taken>>

\* Wait() returns once the server has been shut down.
LeaveWait ==
    /\ serviceThread = "waiting" /\ mServer = "none" /\ Alive
    /\ mServerStarted' = FALSE
    /\ serviceThread' = "ended"
    /\ UNCHANGED <<subscriberVars, mainVars, mInterrupted, cleaner, processor, mServer>>

ServiceThread == BuildServer \/ MarkStarted \/ EnterWait \/ LeaveWait

Cleaner == CleanerTop \/ CleanerWakesUp

\* The subscriber's threads, as far as the process lives.
SubscriberStep(A) ==
    /\ Alive
    /\ A
    /\ UNCHANGED <<mainVars, mInterrupted, cleaner, processor, serviceVars>>

Next ==
    \/ Signal
    \/ Main
    \/ Cleaner
    \/ ProcessorEnds
    \/ ServiceThread
    \/ SubscriberStep(Acquire)
    \/ SubscriberStep(Feed)

\* Every thread is run again and again, waits with a timeout time out, and
\* gRPC ends a call that was cancelled.  Nobody has to send a signal, and
\* the feed may be silent.
Fairness ==
    /\ WF_vars(Main)
    /\ WF_vars(Cleaner)
    /\ WF_vars(ProcessorEnds)
    /\ WF_vars(ServiceThread)
    /\ WF_vars(SubscriberStep(Acquire))
    /\ WF_vars(SubscriberStep(OnCancelled))

Spec == ProcessInit /\ [][Next]_vars /\ Fairness

-----------------------------------------------------------------------------
(* Properties                                                              *)

TypeOK ==
    /\ SubscriberTypeOK
    /\ main \in {"run", "stop", "stopImport", "stopPackets", "stopService", "join",
                 "joinAfterFailure"}
    /\ mInterrupted \in BOOLEAN /\ mIsRunning \in BOOLEAN
    /\ mTerminateRequested \in BOOLEAN /\ mKeepRunning \in BOOLEAN
    /\ cleaner \in {"top", "wait", "ended"} /\ processor \in {"top", "ended"}
    /\ serviceThread \in {"build", "built", "started", "waiting", "ended"}
    /\ mServer \in {"none", "up"} /\ mServerStarted \in BOOLEAN
    /\ taken \subseteq {Futures[i] : i \in 1..Len(Futures)}
    /\ exitCode \in {"none", "success", "failure", "crash"}

\* Unless it crashes the process ends only after all its threads, also when
\* stop() is left by the exception of one of them: none of them still uses
\* the members of Process when it is destroyed.
ThreadsEndFirst ==
    exitCode \in {"success", "failure"} =>
        /\ cleaner = "ended" /\ processor = "ended" /\ serviceThread = "ended"
        /\ acquirer \in {"ended", "failed"}

\* Once Subscriber::stop has cleared mKeepRunning the acquisition ends, also
\* in a pause, in the middle of a reconnect or on a feed that is silent.
StopEndsAcquisition ==
    ~mSubscribing ~> acquirer \in {"ended", "failed"} \/ ~Alive

\* A signal that the main thread sees when the server is up and being
\* waited in ends the process: no thread waits for another in a
\* circle, whatever the feed does and whether or not the subscriber fails
\* in the meantime.
SignalEndsServingProcess ==
    main = "run" /\ mInterrupted /\ serviceThread = "waiting" ~> ~Alive

\* A subscriber that has given up takes the process down with it.
DeadFeedEndsProcess ==
    main = "run" /\ acquirer = "failed" /\ serviceThread = "waiting" ~> ~Alive

-----------------------------------------------------------------------------
(* What comments say and the code does not do, refuted by a run.           *)

\* `SIGINT/SIGTERM signal received!' (main.cpp line 478), `Stops processes'
\* (line 207) and `Stops the service' (service.hpp): a signal ends the
\* process.
SignalEndsProcess == mInterrupted ~> ~Alive
=============================================================================
