--------------------------- MODULE ProgramProofs ----------------------------
(***************************************************************************)
(* Proofs about Subscriber, Process, ProgramOptions and Program: for a     *)
(* reconnect schedule of any length, every set of ini files, with and      *)
(* without the gRPC exporters, whatever the feed does and whenever a       *)
(* signal comes.                                                           *)
(***************************************************************************)
EXTENDS Program, TLAPS

-----------------------------------------------------------------------------
(* The acquisition                                                         *)

\* The reactor's call is open only while acquirePackets waits for it.
CallIsAwaited == acquirer # "await" => call.state # "open"

\* A call is made only within the schedule.
CallInSchedule ==
    /\ acquirer \in {"pause", "connect", "await"} => kReconnect < NumberOfReconnects
    /\ PauseInSchedule

\* The loop variable counts the calls since the last packet, or since the
\* one before the last call that brought one: that call is counted, too, if
\* the schedule has begun with it.
ScheduleCountsCalls ==
    /\ acquirer \in {"top", "pause", "connect"} =>
          kReconnect <= fruitless /\ fruitless <= kReconnect + 1
    /\ acquirer = "await" =>
          IF call.mHadSuccessfulRead THEN fruitless = 0
          ELSE kReconnect + 1 <= fruitless /\ fruitless <= kReconnect + 2

\* Why the loop was left.
EndHasReason ==
    acquirer \in {"finish", "failed"} =>
        \/ acquirer = "finish" /\ ~mSubscribing
        \/ call.status = "other"
        \/ fruitless >= NumberOfReconnects

AcquisitionInvariant ==
    /\ SubscriberTypeOK
    /\ CallIsAwaited
    /\ CallInSchedule
    /\ ScheduleCountsCalls
    /\ RetriesAreBounded
    /\ EndHasReason

\* A call as SubscriberTypeOK has it.
Call == [state : {"none", "open", "done"}, reading : BOOLEAN,
         mHadSuccessfulRead : BOOLEAN, mTryCancel : BOOLEAN,
         status : Statuses \cup {"none"}]

\* The loop begins before the schedule and without a call.
LEMMA InitAcquisition == SubscriberInit => AcquisitionInvariant
<1> SUFFICES ASSUME SubscriberInit
             PROVE  AcquisitionInvariant
  OBVIOUS
<1>1. NoCall \in Call /\ NoCall.state = "none"
  BY DEF NoCall, Call, Statuses
<1>2. -1 \in -1..NumberOfReconnects /\ 0 \in Nat
  BY ScheduleAssumption
<1>3. SubscriberTypeOK
  BY <1>1, <1>2 DEF SubscriberInit, SubscriberTypeOK, PauseInSchedule, Call
<1> QED
  BY <1>1, <1>3, ScheduleAssumption
  DEF SubscriberInit, AcquisitionInvariant, CallIsAwaited, CallInSchedule,
      PauseInSchedule, ScheduleCountsCalls, RetriesAreBounded, EndHasReason

\* Steps of acquirePackets.
LEMMA AcquireAcquisition == AcquisitionInvariant /\ Acquire => AcquisitionInvariant'
<1> SUFFICES ASSUME AcquisitionInvariant, Acquire
             PROVE  AcquisitionInvariant'
  OBVIOUS
<1> USE ScheduleAssumption
    DEF AcquisitionInvariant, SubscriberTypeOK, CallIsAwaited, CallInSchedule,
        PauseInSchedule, ScheduleCountsCalls, RetriesAreBounded, EndHasReason
<1>1. CASE Top
  BY <1>1 DEF Top
<1>2. CASE EndPause
  BY <1>2 DEF EndPause
<1>3. CASE Connect
  <2>1. NewCall \in Call /\ ~NewCall.mHadSuccessfulRead
    BY DEF NewCall, NoCall, Call, Statuses
  <2> QED  BY <1>3, <2>1 DEF Connect, Call
<1>4. CASE Cancel
  BY <1>4 DEF Cancel, Statuses
<1>5. CASE Awaited
  BY <1>5 DEF Awaited, Breaks
<1>6. CASE Finish
  BY <1>6 DEF Finish
<1> QED  BY <1>1, <1>2, <1>3, <1>4, <1>5, <1>6 DEF Acquire

\* Steps of gRPC's threads.
LEMMA FeedAcquisition == AcquisitionInvariant /\ Feed => AcquisitionInvariant'
<1> SUFFICES ASSUME AcquisitionInvariant, Feed
             PROVE  AcquisitionInvariant'
  OBVIOUS
<1> USE ScheduleAssumption
    DEF AcquisitionInvariant, SubscriberTypeOK, CallIsAwaited, CallInSchedule,
        PauseInSchedule, ScheduleCountsCalls, RetriesAreBounded, EndHasReason
<1>1. CASE OnReadDone
  <2>1. call' \in Call
    BY <1>1 DEF OnReadDone, Call
  <2>2. call'.mHadSuccessfulRead /\ call'.state = "open" /\ acquirer = "await"
    BY <1>1 DEF OnReadDone, Call
  <2> QED  BY <1>1, <2>1, <2>2 DEF OnReadDone, Call
<1>2. ASSUME NEW status \in Statuses, OnDone(status)
      PROVE  AcquisitionInvariant'
  BY <1>2 DEF OnDone
<1> QED  BY <1>1, <1>2 DEF Feed

\* stop() only clears a flag and sets another.
LEMMA StopAcquisition ==
    AcquisitionInvariant /\ (RequestShutdown \/ StopSubscribing)
        => AcquisitionInvariant'
<1> SUFFICES ASSUME AcquisitionInvariant, RequestShutdown \/ StopSubscribing
             PROVE  AcquisitionInvariant'
  OBVIOUS
<1>1. UNCHANGED <<acquirer, kReconnect, call, fruitless>>
  BY DEF RequestShutdown, StopSubscribing, acquisition
<1>2. mSubscribing' \in BOOLEAN /\ mShutdownRequested' \in BOOLEAN
  BY DEF RequestShutdown, StopSubscribing, AcquisitionInvariant, SubscriberTypeOK
<1>3. ~mSubscribing => ~mSubscribing'
  BY DEF RequestShutdown, StopSubscribing
<1> QED
  BY <1>1, <1>2, <1>3
  DEF AcquisitionInvariant, SubscriberTypeOK, CallIsAwaited, CallInSchedule,
      PauseInSchedule, ScheduleCountsCalls, RetriesAreBounded, EndHasReason

LEMMA SameAcquisition ==
    AcquisitionInvariant /\ UNCHANGED subscriberVars => AcquisitionInvariant'
BY DEF subscriberVars, acquisition, AcquisitionInvariant, SubscriberTypeOK,
   CallIsAwaited, CallInSchedule, PauseInSchedule, ScheduleCountsCalls,
   RetriesAreBounded, EndHasReason

-----------------------------------------------------------------------------
(* The process                                                             *)

\* get() was called only on the futures of threads that have ended, and the
\* process ends by itself only after it was called on all of them.
TakenHaveEnded ==
    /\ \A future \in taken : IsReady(future)
    /\ exitCode \in {"success", "failure"} => Untaken = {}

\* Only the subscriber's exception can leave stop(), which has joined the
\* cleaner before.
OnlyFeedFails ==
    main = "joinAfterFailure" => {"CleanDeques", "DataPacketSubscriber"} \subseteq taken

ProcessInvariant ==
    /\ AcquisitionInvariant
    /\ TypeOK
    /\ TakenHaveEnded
    /\ OnlyFeedFails

\* The keys of mFuturesMap.
LEMMA FourFutures ==
    /\ Len(Futures) = 4
    /\ {Futures[i] : i \in 1..Len(Futures)} =
          {"CleanDeques", "DataPacketSubscriber", "PacketProcessor", "gRPCService"}
BY DEF Futures

\* A thread that has ended stays so.
LEMMA ReadyStays ==
    ASSUME acquirer \in {"ended", "failed"} => acquirer' = acquirer,
           cleaner = "ended" => cleaner' = "ended",
           processor = "ended" => processor' = "ended",
           serviceThread = "ended" => serviceThread' = "ended",
           NEW future \in {Futures[i] : i \in 1..Len(Futures)}, IsReady(future)
    PROVE  IsReady(future)'
BY FourFutures DEF IsReady

LEMMA InitProcess == ProcessInit => ProcessInvariant
<1> SUFFICES ASSUME ProcessInit
             PROVE  ProcessInvariant
  OBVIOUS
<1>1. AcquisitionInvariant
  BY InitAcquisition DEF ProcessInit
<1>2. TypeOK
  BY <1>1 DEF ProcessInit, TypeOK, AcquisitionInvariant
<1> QED
  BY <1>1, <1>2 DEF ProcessInit, ProcessInvariant, TakenHaveEnded, OnlyFeedFails

\* A turn of the main loop takes the futures that are ready.
LEMMA PollProcess == ProcessInvariant /\ Poll => ProcessInvariant'
<1> SUFFICES ASSUME ProcessInvariant, Poll
             PROVE  ProcessInvariant'
  OBVIOUS
<1>1. AcquisitionInvariant'
  BY SameAcquisition DEF ProcessInvariant, Poll
<1>2. taken' \subseteq taken \cup Ready
  BY DEF Poll
<1>3. Ready \subseteq {Futures[i] : i \in 1..Len(Futures)}
      /\ \A future \in Ready : IsReady(future)
  BY DEF Ready
<1>4. TypeOK'
  BY <1>1, <1>2, <1>3
  DEF Poll, ProcessInvariant, TypeOK, AcquisitionInvariant, serviceVars
<1>5. \A future \in taken' : IsReady(future)'
  BY <1>2, <1>3, ReadyStays
  DEF Poll, ProcessInvariant, TypeOK, TakenHaveEnded, subscriberVars, acquisition, serviceVars
<1>6. exitCode' = "none"
  BY DEF Poll, Alive
<1>7. main' # "joinAfterFailure"
  BY DEF Poll
<1> QED
  BY <1>1, <1>4, <1>5, <1>6, <1>7 DEF ProcessInvariant, TakenHaveEnded, OnlyFeedFails

\* Of the steps of stop() only its last loop takes futures.
LEMMA StopProcess ==
    ProcessInvariant /\ (Stop \/ StopImport \/ StopPackets \/ StopService)
        => ProcessInvariant'
<1> SUFFICES ASSUME ProcessInvariant,
                    Stop \/ StopImport \/ StopPackets \/ StopService
             PROVE  ProcessInvariant'
  OBVIOUS
<1>1. AcquisitionInvariant'
  BY SameAcquisition, StopAcquisition
  DEF ProcessInvariant, Stop, StopImport, StopPackets, StopService
<1>2. UNCHANGED <<acquirer, cleaner, processor, serviceThread, taken, exitCode>>
      /\ Alive /\ main' # "joinAfterFailure"
  BY DEF Stop, StopImport, StopPackets, StopService, RequestShutdown,
         StopSubscribing, subscriberVars, acquisition, serviceVars
<1>3. TypeOK'
  BY <1>1
  DEF Stop, StopImport, StopPackets, StopService, ProcessInvariant, TypeOK,
      AcquisitionInvariant, serviceVars
<1> QED
  BY <1>1, <1>2, <1>3, ReadyStays
  DEF ProcessInvariant, TypeOK, TakenHaveEnded, Untaken, Alive, OnlyFeedFails

\* The last loop of stop() takes the future of a thread that has ended.
LEMMA JoinProcess == ProcessInvariant /\ Join => ProcessInvariant'
<1> SUFFICES ASSUME ProcessInvariant, Join
             PROVE  ProcessInvariant'
  OBVIOUS
<1>1. AcquisitionInvariant'
  BY SameAcquisition DEF ProcessInvariant, Join
<1>2. UNCHANGED <<acquirer, cleaner, processor, serviceThread>> /\ Alive
  BY DEF Join, subscriberVars, acquisition, serviceVars
<1>3. CASE Untaken = {}
  <2>1. taken' = taken /\ main' = main /\ exitCode' \in {"success", "failure"}
    BY <1>3 DEF Join
  <2>2. TypeOK'
    <3>1. UNCHANGED <<mInterrupted, mIsRunning, mTerminateRequested, mKeepRunning,
                      cleaner, processor, serviceThread, mServer, mServerStarted>>
      BY <1>3 DEF Join, serviceVars
    <3>2. SubscriberTypeOK'
      BY <1>1 DEF AcquisitionInvariant
    <3>3. TypeOK
      BY DEF ProcessInvariant
    <3> QED  BY <2>1, <3>1, <3>2, <3>3 DEF TypeOK
  <2>3. Untaken' = {}
    BY <1>3, <2>1 DEF Untaken
  <2> QED
    BY <1>1, <1>2, <2>1, <2>2, <2>3, ReadyStays
    DEF ProcessInvariant, TypeOK, TakenHaveEnded, OnlyFeedFails
<1>4. CASE Untaken # {}
  <2> DEFINE k == CHOOSE i \in Untaken : \A j \in Untaken : i <= j
             future == Futures[k]
  <2>1. k \in Untaken /\ \A j \in Untaken : k <= j
    BY <1>4, FourFutures, SMTT(20) DEF Untaken
  <2>2. /\ IsReady(future)
        /\ taken' = taken \cup {future}
        /\ main' = IF Rethrows(future) THEN "joinAfterFailure" ELSE main
        /\ exitCode' = exitCode
    BY <1>4 DEF Join
  <2>3. future \in {Futures[i] : i \in 1..Len(Futures)}
    BY <2>1 DEF Untaken
  <2>4. TypeOK'
    <3>1. UNCHANGED <<mInterrupted, mIsRunning, mTerminateRequested, mKeepRunning,
                      cleaner, processor, serviceThread, mServer, mServerStarted>>
          /\ main' \in {"join", "joinAfterFailure"}
      BY <2>2 DEF Join, serviceVars
    <3>2. taken' \subseteq {Futures[i] : i \in 1..Len(Futures)}
      BY <2>2, <2>3 DEF ProcessInvariant, TypeOK
    <3>3. SubscriberTypeOK'
      BY <1>1 DEF AcquisitionInvariant
    <3>4. TypeOK
      BY DEF ProcessInvariant
    <3>5. /\ mInterrupted' \in BOOLEAN /\ mIsRunning' \in BOOLEAN
          /\ mTerminateRequested' \in BOOLEAN /\ mKeepRunning' \in BOOLEAN
          /\ cleaner' \in {"top", "wait", "ended"} /\ processor' \in {"top", "ended"}
          /\ serviceThread' \in {"build", "built", "started", "waiting", "ended"}
          /\ mServer' \in {"none", "up"} /\ mServerStarted' \in BOOLEAN
          /\ exitCode' \in {"none", "success", "failure", "crash"}
      BY <2>2, <3>1, <3>4 DEF TypeOK
    <3> HIDE DEF future
    <3> QED  BY <3>1, <3>2, <3>3, <3>5 DEF TypeOK
  <2>5. \A f \in taken' : IsReady(f)'
    BY <1>2, <2>2, <2>3, ReadyStays DEF ProcessInvariant, TypeOK, TakenHaveEnded
  <2>6. ASSUME Rethrows(future)
        PROVE  {"CleanDeques", "DataPacketSubscriber"} \subseteq taken'
    <3>1. future = "DataPacketSubscriber"
      BY <2>6 DEF Rethrows
    <3>2. k = 2
      BY <2>1, <3>1, FourFutures DEF Untaken, Futures
    <3>3. 1 \notin Untaken
      BY <2>1, <3>2
    <3>4. "CleanDeques" \in taken
      BY <3>3 DEF Untaken, Futures
    <3> QED  BY <2>2, <3>1, <3>4
  <2> QED
    BY <1>1, <1>2, <2>2, <2>4, <2>5, <2>6
    DEF ProcessInvariant, TakenHaveEnded, OnlyFeedFails, Alive
<1> QED  BY <1>3, <1>4

\* The signal, and the threads other than the main one.
LEMMA ThreadsProcess ==
    ProcessInvariant /\ (Signal \/ Cleaner \/ ProcessorEnds \/ ServiceThread)
        => ProcessInvariant'
<1> SUFFICES ASSUME ProcessInvariant,
                    Signal \/ Cleaner \/ ProcessorEnds \/ ServiceThread
             PROVE  ProcessInvariant'
  OBVIOUS
<1> USE DEF Signal, Cleaner, CleanerTop, CleanerWakesUp, ProcessorEnds, ServiceThread,
            BuildServer, MarkStarted, EnterWait, LeaveWait, mainVars, serviceVars
<1>1. UNCHANGED subscriberVars
  OBVIOUS
<1>2. AcquisitionInvariant'
  BY <1>1, SameAcquisition DEF ProcessInvariant
<1>3. TypeOK'
  <2>1. TypeOK /\ SubscriberTypeOK'
    BY <1>2 DEF ProcessInvariant, AcquisitionInvariant
  <2>2. UNCHANGED <<main, taken, mIsRunning, mTerminateRequested, mKeepRunning>>
    OBVIOUS
  <2>3. /\ mInterrupted' = mInterrupted \/ mInterrupted' = TRUE
        /\ mServerStarted' = mServerStarted \/ mServerStarted' \in BOOLEAN
        /\ mServer' = mServer \/ mServer' \in {"none", "up"}
    OBVIOUS
  <2>4. /\ cleaner' = cleaner \/ cleaner' \in {"top", "wait", "ended"}
        /\ processor' = processor \/ processor' = "ended"
        /\ exitCode' = exitCode \/ exitCode' = "crash"
    OBVIOUS
  <2>5. \/ serviceThread' = serviceThread
        \/ serviceThread' \in {"build", "built", "started", "waiting", "ended"}
    OBVIOUS
  <2> HIDE DEF Signal, Cleaner, ProcessorEnds, ServiceThread
  <2>6. mInterrupted' \in BOOLEAN /\ mServerStarted' \in BOOLEAN
    BY <2>1, <2>3, Zenon DEF TypeOK
  <2>7. /\ cleaner' \in {"top", "wait", "ended"} /\ processor' \in {"top", "ended"}
        /\ exitCode' \in {"none", "success", "failure", "crash"}
    BY <2>1, <2>4 DEF TypeOK
  <2>8. /\ serviceThread' \in {"build", "built", "started", "waiting", "ended"}
        /\ mServer' \in {"none", "up"}
    BY <2>1, <2>3, <2>5 DEF TypeOK
  <2> QED  BY <2>1, <2>2, <2>6, <2>7, <2>8, Zenon DEF TypeOK
<1>4. /\ UNCHANGED <<acquirer, main, taken>>
      /\ cleaner = "ended" => cleaner' = "ended"
      /\ processor = "ended" => processor' = "ended"
      /\ serviceThread = "ended" => serviceThread' = "ended"
      /\ exitCode' \in {"none", "crash"}
  BY <1>1 DEF subscriberVars, acquisition, Alive
<1> QED
  BY <1>2, <1>3, <1>4, ReadyStays
  DEF ProcessInvariant, TypeOK, TakenHaveEnded, OnlyFeedFails

\* The subscriber's threads.
LEMMA SubscriberProcess ==
    ProcessInvariant /\ (SubscriberStep(Acquire) \/ SubscriberStep(Feed))
        => ProcessInvariant'
<1> SUFFICES ASSUME ProcessInvariant,
                    SubscriberStep(Acquire) \/ SubscriberStep(Feed)
             PROVE  ProcessInvariant'
  OBVIOUS
<1>1. AcquisitionInvariant'
  BY AcquireAcquisition, FeedAcquisition DEF SubscriberStep, ProcessInvariant
<1>2. UNCHANGED <<mainVars, mInterrupted, cleaner, processor, serviceVars>> /\ Alive
  BY DEF SubscriberStep
<1>3. TypeOK'
  BY <1>1, <1>2
  DEF ProcessInvariant, TypeOK, AcquisitionInvariant, mainVars, serviceVars
<1>4. acquirer \in {"ended", "failed"} => acquirer' = acquirer
  BY DEF SubscriberStep, Acquire, Top, EndPause, Connect, Cancel, Awaited, Finish,
         Feed, OnReadDone, OnDone
<1> QED
  BY <1>1, <1>2, <1>3, <1>4, ReadyStays
  DEF ProcessInvariant, TypeOK, TakenHaveEnded, OnlyFeedFails, Alive, mainVars,
      serviceVars

LEMMA SameProcess == ProcessInvariant /\ UNCHANGED vars => ProcessInvariant'
<1> SUFFICES ASSUME ProcessInvariant, UNCHANGED vars
             PROVE  ProcessInvariant'
  OBVIOUS
<1>1. AcquisitionInvariant'
  BY SameAcquisition DEF ProcessInvariant, vars
<1>2. UNCHANGED <<acquirer, mainVars, mInterrupted, cleaner, processor, serviceVars>>
  BY DEF vars, subscriberVars, acquisition
<1>3. TypeOK'
  BY <1>1, <1>2
  DEF ProcessInvariant, TypeOK, AcquisitionInvariant, mainVars, serviceVars
<1> QED
  BY <1>1, <1>2, <1>3, ReadyStays
  DEF ProcessInvariant, TypeOK, TakenHaveEnded, OnlyFeedFails, Untaken, mainVars,
      serviceVars

LEMMA NextProcess == ProcessInvariant /\ [Next]_vars => ProcessInvariant'
BY PollProcess, StopProcess, JoinProcess, ThreadsProcess, SubscriberProcess,
   SameProcess DEF Next, Main

\* What the invariant says of the properties of the runs.
LEMMA ProcessImplies ==
    ProcessInvariant =>
        TypeOK /\ GivesUpOnlyWhenExhausted /\ RetriesAreBounded /\ ThreadsEndFirst
<1> SUFFICES ASSUME ProcessInvariant
             PROVE  /\ TypeOK /\ GivesUpOnlyWhenExhausted
                    /\ RetriesAreBounded /\ ThreadsEndFirst
  OBVIOUS
<1>1. GivesUpOnlyWhenExhausted
  BY DEF ProcessInvariant, AcquisitionInvariant, EndHasReason,
         GivesUpOnlyWhenExhausted
<1>2. ASSUME exitCode \in {"success", "failure"}
      PROVE  \A i \in 1..Len(Futures) : IsReady(Futures[i])
  BY <1>2 DEF ProcessInvariant, TakenHaveEnded, Untaken
<1>3. ThreadsEndFirst
  <2> SUFFICES ASSUME exitCode \in {"success", "failure"}
               PROVE  /\ cleaner = "ended" /\ processor = "ended"
                      /\ serviceThread = "ended"
                      /\ acquirer \in {"ended", "failed"}
    BY DEF ThreadsEndFirst
  <2>1. /\ IsReady(Futures[1]) /\ IsReady(Futures[2])
        /\ IsReady(Futures[3]) /\ IsReady(Futures[4])
    BY <1>2, FourFutures
  <2>2. /\ IsReady("CleanDeques") /\ IsReady("DataPacketSubscriber")
        /\ IsReady("PacketProcessor") /\ IsReady("gRPCService")
    BY <2>1 DEF Futures
  <2> QED  BY <2>2 DEF IsReady
<1> QED  BY <1>1, <1>3 DEF ProcessInvariant, AcquisitionInvariant

\* The invariant holds throughout every behaviour of Process, fair or not.
LEMMA SafetyProcess == ProcessInit /\ [][Next]_vars => []ProcessInvariant
BY InitProcess, NextProcess, PTL

\* Variables keep their types, and the reconnect schedule is never indexed
\* out of its range, for a schedule of any length.
THEOREM ProcessTypeCorrect == Spec => []TypeOK
BY SafetyProcess, ProcessImplies, PTL DEF Spec

\* SubscriberImpl::acquirePackets gives up by itself only after as many
\* calls without a packet as there are pauses, or when it is refused for
\* good.
THEOREM GivesUpExhausted == Spec => []GivesUpOnlyWhenExhausted
BY SafetyProcess, ProcessImplies, PTL DEF Spec

\* It does not retry for ever: no schedule allows more calls in a row than
\* it has pauses, and one.
THEOREM RetriesEnd == Spec => []RetriesAreBounded
BY SafetyProcess, ProcessImplies, PTL DEF Spec

\* Process::stop: unless it crashes the process ends after its threads.
THEOREM ProcessOutlivesThreads == Spec => []ThreadsEndFirst
BY SafetyProcess, ProcessImplies, PTL DEF Spec

-----------------------------------------------------------------------------
(* What parseIniFile accepts                                               *)

\* A number is one of the type that was asked for, or the default.
LEMMA NumberIsInt ==
    ASSUME NEW ini1, NEW section, NEW name, NEW default \in Int
    PROVE  Number(ini1, section, name, Int32, default) \in Int
<1>1. MaximumInt \in Int
  BY SMT DEF MaximumInt
<1>2. \A x \in Int32 : x \in Int
  BY <1>1 DEF Int32
<1> QED  BY <1>2 DEF Number

LEMMA DefaultDurationIsInt == IntOfNanoseconds(DefaultDurationInSeconds) \in Int
<1>1. 300 * 51712 = 15513600 /\ 15513600 \div 65536 = 236
  BY SMT
<1>2. (300 * 15258 + 236) % 65536 = 55652 /\ 15513600 % 65536 = 47104
  BY SMT
<1>3. IntOfNanoseconds(300) = (55652 - 65536) * 65536 + 47104
  BY <1>1, <1>2, SMT DEF IntOfNanoseconds
<1> QED  BY <1>3, SMT DEF DefaultDurationInSeconds

LEMMA LimitsArePositive ==
    ASSUME NEW file, ~RefusesIniFile(file)
    PROVE  /\ MaximumImportQueueSize(file) > 0
           /\ MaximumDuration(file) > 0
           /\ MaximumNumberOfConcurrentStreams(file) > 0
<1>1. /\ MaximumImportQueueSize(file) \in Int
      /\ MaximumDuration(file) \in Int
      /\ MaximumNumberOfConcurrentStreams(file) \in Int
  BY NumberIsInt, DefaultDurationIsInt
  DEF MaximumImportQueueSize, MaximumDuration, MaximumNumberOfConcurrentStreams
<1>2. /\ ~(MaximumImportQueueSize(file) < 1)
      /\ ~(MaximumDuration(file) < 1)
      /\ ~(MaximumNumberOfConcurrentStreams(file) < 1)
  BY DEF RefusesIniFile, RefusesServiceOptions
<1> QED  BY <1>1, <1>2

\* A token comes with the certificates that make it count.
LEMMA TokensAreSecured ==
    ASSUME NEW file, ~RefusesIniFile(file)
    PROVE  /\ HasToken(file, "Service") => IsServerSecured(file)
           /\ HasToken(file, "DataPacketSubscriber") => HasServerCertificate(file)
BY DEF RefusesIniFile, RefusesServiceOptions, RefusesGRPCServerOptions,
       RefusesGRPCClientOptions, RefusesToken

\* The exporter for gRPC is chosen only if the build has it.
LEMMA ExporterIsBuilt ==
    ASSUME NEW file, ~RefusesIniFile(file),
           ~IsWithHTTP(file, "OTelHTTPLogOptions", "OTelGRPCLogOptions")
    PROVE  WithOTLPGRPC
BY DEF RefusesIniFile, RefusesExporter, IsWithHTTP, IsExporting, ExporterSection

\* Whatever an ini file says, it is refused or can be worked with.
LEMMA AcceptedIsUsable ==
    ASSUME NEW file, ~RefusesIniFile(file)
    PROVE  IsUsable(ParseIniFile(file))
<1> DEFINE options == ParseIniFile(file)
<1>1. /\ options.maximumImportQueueSize > 0
      /\ options.maximumDuration > 0
      /\ options.maximumNumberOfConcurrentStreams > 0
  BY LimitsArePositive DEF ParseIniFile
<1>2. options.server.accessToken # {} =>
         options.server.serverKey # {} /\ options.server.serverCertificate # {}
  BY TokensAreSecured DEF ParseIniFile, GRPCServerOptions, Optional
<1>3. options.client.accessToken # {} => options.client.serverCertificate # {}
  BY TokensAreSecured DEF ParseIniFile, GRPCClientOptions, Optional
<1>4. ~options.exportLogsWithHTTP => WithOTLPGRPC
  BY ExporterIsBuilt DEF ParseIniFile
<1> QED  BY <1>1, <1>2, <1>3, <1>4 DEF IsUsable

\* The options of a program that found no file export nothing, either.
LEMMA DefaultsUseHTTP ==
    /\ DefaultOptions.exportLogsWithHTTP
    /\ ~DefaultOptions.hasGRPCOptions
<1>1. ~HasSection(<<>>, "OTelHTTPLogOptions") /\ ~HasSection(<<>>, "OTelGRPCLogOptions")
  BY DEF HasSection
<1>2. IsWithHTTP(<<>>, "OTelHTTPLogOptions", "OTelGRPCLogOptions")
  BY <1>1 DEF IsWithHTTP, IsExporting, ExporterSection
<1>3. ParseIniFile(<<>>).exportLogsWithHTTP
  BY <1>2 DEF ParseIniFile
<1> QED  BY <1>3 DEF DefaultOptions, ParseIniFile

-----------------------------------------------------------------------------
(* main() implements the life of Process                                   *)

\* Every step of the program is one of Process, or leaves it alone.
LEMMA ProgramStepIsProcessStep == [ProgramNext]_programVars => [Next]_vars
<1>1. StartUp => UNCHANGED vars
  BY DEF StartUp, CommandLine, ReadOptions, InitializeLogger, Construct
<1>2. CleanUp => UNCHANGED vars
  BY DEF CleanUp
<1>3. UNCHANGED programVars => UNCHANGED vars
  BY DEF programVars
<1> QED  BY <1>1, <1>2, <1>3 DEF ProgramNext, Runs, MainThread, Next

\* The abstract specification is the safety part of Process.
LEMMA ProgramSafety == ProgramSpec => ProcessInit /\ [][Next]_vars
BY ProgramStepIsProcessStep, PTL DEF ProgramSpec, ProgramInit

\* main() as a whole implements Process: what is proved of the life of
\* Process, its start-up and clean-up do not change.
THEOREM ProgramImplementsProcess == ProgramSpec => ProcessInit /\ [][Next]_vars
BY ProgramSafety

-----------------------------------------------------------------------------
(* Start-up and clean-up                                                   *)

\* The options come from an accepted file, or there was no file.
OptionsAreAccepted ==
    \A options \in programOptions :
        \/ options = DefaultOptions
        \/ \E file \in IniFiles : ~RefusesIniFile(file) /\ options = ParseIniFile(file)

\* Once telemetry has been cleaned up start() is over, and stays so.
CleanedAfterStart == program = "cleaned" => IsStarted

ProgramInvariant ==
    /\ ProcessInvariant
    /\ ProgramTypeOK
    /\ OptionsAreAccepted
    /\ StartUpNeverCrashes
    /\ CleanedAfterStart

LEMMA InitProgram == ProgramInit => ProgramInvariant
<1> SUFFICES ASSUME ProgramInit
             PROVE  ProgramInvariant
  OBVIOUS
<1>1. ProcessInvariant
  BY InitProcess DEF ProgramInit
<1> QED
  BY <1>1
  DEF ProgramInit, ProgramInvariant, ProcessInvariant, ProgramTypeOK,
      OptionsAreAccepted, StartUpNeverCrashes, CleanedAfterStart

\* The logger of an accepted file, or of no file, can be made.
LEMMA LoggerCanBeMade ==
    ASSUME OptionsAreAccepted, NEW options \in programOptions
    PROVE  options.exportLogsWithHTTP \/ WithOTLPGRPC
<1>1. CASE options = DefaultOptions
  BY <1>1, DefaultsUseHTTP
<1>2. ASSUME NEW file \in IniFiles, ~RefusesIniFile(file),
             options = ParseIniFile(file)
      PROVE  options.exportLogsWithHTTP \/ WithOTLPGRPC
  BY <1>2, AcceptedIsUsable DEF IsUsable
<1> QED  BY <1>1, <1>2 DEF OptionsAreAccepted

\* Reading the options.
LEMMA ReadProgram == ProgramInvariant /\ ReadOptions => ProgramInvariant'
<1> SUFFICES ASSUME ProgramInvariant, ReadOptions
             PROVE  ProgramInvariant'
  OBVIOUS
<1>1. UNCHANGED <<vars, provider>> /\ program' \in {"failed", "logger"}
  BY DEF ReadOptions
<1>2. ProcessInvariant'
  BY <1>1, SameProcess DEF ProgramInvariant
<1>3. OptionsAreAccepted' /\ \A file \in ini' : file \in IniFiles
  <2>1. ASSUME NEW file \in IniFiles, ini' = {file},
               programOptions' = Optional(~RefusesIniFile(file), ParseIniFile(file))
        PROVE  OptionsAreAccepted' /\ \A f \in ini' : f \in IniFiles
    BY <2>1 DEF OptionsAreAccepted, Optional
  <2>2. ASSUME programOptions' = {DefaultOptions}, UNCHANGED ini
        PROVE  OptionsAreAccepted' /\ \A f \in ini' : f \in IniFiles
    BY <2>2 DEF OptionsAreAccepted, ProgramInvariant, ProgramTypeOK
  <2> QED  BY <2>1, <2>2 DEF ReadOptions
<1> QED
  BY <1>1, <1>2, <1>3
  DEF ProgramInvariant, ProcessInvariant, ProgramTypeOK, OptionsAreAccepted,
      StartUpNeverCrashes, CleanedAfterStart

\* The other steps before there is a Process.
LEMMA StartUpProgram == ProgramInvariant /\ StartUp => ProgramInvariant'
<1> SUFFICES ASSUME ProgramInvariant, CommandLine \/ InitializeLogger \/ Construct
             PROVE  ProgramInvariant'
  BY ReadProgram DEF StartUp
<1>1. UNCHANGED vars
  BY DEF CommandLine, InitializeLogger, Construct
<1>2. ProcessInvariant'
  BY <1>1, SameProcess DEF ProgramInvariant
<1>3. CASE CommandLine
  BY <1>2, <1>3
  DEF CommandLine, startUpVars, ProgramInvariant, ProcessInvariant, ProgramTypeOK,
      OptionsAreAccepted, StartUpNeverCrashes, CleanedAfterStart
<1>4. CASE InitializeLogger
  <2>1. UNCHANGED startUpVars /\ program' = "construct" /\ provider' \in {"sdk", provider}
    BY <1>4, LoggerCanBeMade DEF InitializeLogger, ProgramInvariant
  <2> QED
    BY <1>2, <2>1
    DEF startUpVars, ProgramInvariant, ProcessInvariant, ProgramTypeOK,
        OptionsAreAccepted, StartUpNeverCrashes, CleanedAfterStart
<1>5. CASE Construct
  BY <1>2, <1>5
  DEF Construct, CleanedUp, ProgramInvariant, ProcessInvariant, ProgramTypeOK,
      OptionsAreAccepted, StartUpNeverCrashes, CleanedAfterStart
<1> QED  BY <1>3, <1>4, <1>5

LEMMA CleanUpProgram == ProgramInvariant /\ CleanUp => ProgramInvariant'
<1> SUFFICES ASSUME ProgramInvariant, CleanUp
             PROVE  ProgramInvariant'
  OBVIOUS
<1>1. ProcessInvariant'
  BY SameProcess DEF ProgramInvariant, CleanUp
<1>2. IsStarted'
  BY DEF CleanUp, IsStarted, Untaken, vars, mainVars
<1> QED
  BY <1>1, <1>2
  DEF CleanUp, CleanedUp, startUpVars, ProgramInvariant, ProcessInvariant,
      ProgramTypeOK, OptionsAreAccepted, StartUpNeverCrashes, CleanedAfterStart

\* The futures that start() has joined stay joined.
LEMMA StartedStays == IsStarted /\ [Next]_vars => IsStarted'
<1> SUFFICES ASSUME IsStarted, [Next]_vars
             PROVE  IsStarted'
  OBVIOUS
<1>1. main \in {"join", "joinAfterFailure"}
  BY DEF IsStarted
<1>2. CASE Join
  <2>1. CASE Untaken = {}
    BY <1>2, <2>1 DEF Join, IsStarted, Untaken
  <2>2. CASE Untaken # {}
    BY <1>2, <2>2 DEF Join, IsStarted
  <2> QED  BY <2>1, <2>2
<1>3. CASE UNCHANGED <<main, taken>>
  BY <1>3 DEF IsStarted, Untaken
<1>4. Join \/ UNCHANGED <<main, taken>>
  BY <1>1
  DEF Next, Main, Poll, Stop, StopImport, StopPackets, StopService, Signal, Cleaner,
      CleanerTop, CleanerWakesUp, ProcessorEnds, ServiceThread, BuildServer,
      MarkStarted, EnterWait, LeaveWait, SubscriberStep, vars, mainVars
<1> QED  BY <1>2, <1>3, <1>4

LEMMA RunsProgram ==
    ProgramInvariant /\ [Next]_vars /\ UNCHANGED <<program, startUpVars, provider>>
        => ProgramInvariant'
<1> SUFFICES ASSUME ProgramInvariant, [Next]_vars,
                    UNCHANGED <<program, startUpVars, provider>>
             PROVE  ProgramInvariant'
  OBVIOUS
<1>1. ProcessInvariant'
  BY NextProcess DEF ProgramInvariant
<1>2. CleanedAfterStart'
  BY StartedStays DEF ProgramInvariant, CleanedAfterStart
<1> QED
  BY <1>1, <1>2
  DEF startUpVars, ProgramInvariant, ProcessInvariant, ProgramTypeOK,
      OptionsAreAccepted, StartUpNeverCrashes

LEMMA NextProgram == ProgramInvariant /\ [ProgramNext]_programVars => ProgramInvariant'
<1> SUFFICES ASSUME ProgramInvariant, [ProgramNext]_programVars
             PROVE  ProgramInvariant'
  OBVIOUS
<1>1. \/ StartUp \/ CleanUp
      \/ UNCHANGED <<program, startUpVars, provider>>
  BY DEF ProgramNext, Runs, programVars
<1> QED
  BY <1>1, StartUpProgram, CleanUpProgram, RunsProgram, ProgramStepIsProcessStep

LEMMA SafetyProgram == ProgramSpec => []ProgramInvariant
BY InitProgram, NextProgram, PTL DEF ProgramSpec

-----------------------------------------------------------------------------
(* Theorems                                                                *)

\* The variables of main() keep their types, whatever the ini file says.
THEOREM ProgramTypeCorrect == ProgramSpec => []ProgramTypeOK
<1>1. ProgramInvariant => ProgramTypeOK
  BY DEF ProgramInvariant
<1> QED  BY <1>1, SafetyProgram, PTL

\* parseIniFile: whatever the ini file says, the options are refused or can
\* be worked with; an access token is never accepted without certificates.
THEOREM AcceptedAreUsable == ProgramSpec => []AcceptedOptionsAreUsable
<1>1. ProgramInvariant => AcceptedOptionsAreUsable
  BY AcceptedIsUsable, DefaultsUseHTTP
  DEF ProgramInvariant, OptionsAreAccepted, AcceptedOptionsAreUsable
<1> QED  BY <1>1, SafetyProgram, PTL

\* The logger's error handler in main(), which would throw, is never
\* reached.
THEOREM StartUpIsCaught == ProgramSpec => []StartUpNeverCrashes
<1>1. ProgramInvariant => StartUpNeverCrashes
  BY DEF ProgramInvariant
<1> QED  BY <1>1, SafetyProgram, PTL

\* Logger::cleanup comes after the threads that might log, except for those
\* that the subscriber's exception has left running.
THEOREM TelemetryOutlivesThreads == ProgramSpec => []QuietAfterCleanUp
<1>1. ASSUME ProgramInvariant, program = "cleaned"
      PROVE  /\ cleaner = "ended" /\ acquirer \in {"ended", "failed"}
             /\ main = "join" => processor = "ended" /\ serviceThread = "ended"
  <2>1. CASE main = "join"
    <3>1. \A i \in 1..Len(Futures) : IsReady(Futures[i])
      BY <1>1, <2>1
      DEF ProgramInvariant, ProcessInvariant, TakenHaveEnded, CleanedAfterStart,
          IsStarted, Untaken
    <3> QED  BY <3>1, FourFutures DEF IsReady
  <2>2. CASE main = "joinAfterFailure"
    BY <1>1, <2>2
    DEF ProgramInvariant, ProcessInvariant, TakenHaveEnded, OnlyFeedFails, IsReady
  <2> QED  BY <1>1, <2>1, <2>2 DEF ProgramInvariant, CleanedAfterStart, IsStarted
<1>2. ProgramInvariant => QuietAfterCleanUp
  BY <1>1 DEF QuietAfterCleanUp
<1> QED  BY <1>2, SafetyProgram, PTL
=============================================================================
