---------------------------- MODULE Subscriber -----------------------------
(***************************************************************************)
(* The client of the packet feed: class Subscriber                         *)
(* (src/src/subscriber.cpp).  acquirePackets runs on a thread of its own   *)
(* and makes one call after another, with a pause from the reconnect       *)
(* schedule before each repeated one; gRPC's threads call the reactor of   *)
(* the present call (class AsyncSubscriber); stop is called by the main    *)
(* thread.  Module Process says when.                                      *)
(***************************************************************************)
EXTENDS Integers, Sequences, FiniteSets

CONSTANT NumberOfReconnects     \* the length of the reconnect schedule

\* The default schedule has four entries; setReconnectSchedule takes one of
\* any length.
ASSUME ScheduleAssumption == NumberOfReconnects \in Nat

VARIABLES
    mSubscribing,           \* SubscriberImpl::mKeepRunning
    mShutdownRequested,
    acquirer,               \* where acquirePackets is
    kReconnect,             \* its loop variable
    call,                   \* the present call and its reactor
    fruitless               \* history: calls since the last packet

acquisition == <<acquirer, kReconnect, call, fruitless>>
subscriberVars == <<mSubscribing, mShutdownRequested, acquisition>>

\* AsyncSubscriber's members; state is "open" until OnDone.
NoCall == [state |-> "none", reading |-> FALSE, mHadSuccessfulRead |-> FALSE,
           mTryCancel |-> FALSE, status |-> "none"]

NewCall == [NoCall EXCEPT !.state = "open", !.reading = TRUE]

Statuses == {"OK", "UNAVAILABLE", "CANCELLED", "other"}

SubscriberInit ==
    /\ mSubscribing = TRUE /\ mShutdownRequested = FALSE
    /\ acquirer = "top" /\ kReconnect = -1
    /\ call = NoCall
    /\ fruitless = 0

-----------------------------------------------------------------------------
(* acquirePackets                                                          *)

\* Mutation: the loop runs once more than there are pauses.
TopOnceMore ==
    /\ acquirer = "top"
    /\ acquirer' = IF kReconnect > NumberOfReconnects \/ ~mSubscribing THEN "finish"
                   ELSE IF kReconnect >= 0 THEN "pause" ELSE "connect"
    /\ UNCHANGED <<mSubscribing, mShutdownRequested, kReconnect, call, fruitless>>

\* The loop's condition and the first look at mKeepRunning.
Top ==
    /\ acquirer = "top"
    /\ acquirer' = IF kReconnect >= NumberOfReconnects \/ ~mSubscribing THEN "finish"
                   ELSE IF kReconnect >= 0 THEN "pause" ELSE "connect"
    /\ UNCHANGED <<mSubscribing, mShutdownRequested, kReconnect, call, fruitless>>

\* The pause ends with its time or with a request to shut down; the flag is
\* then looked at again, which stop() sets last.
EndPause ==
    /\ acquirer = "pause"
    /\ acquirer' = IF mSubscribing THEN "connect" ELSE "finish"
    /\ UNCHANGED <<mSubscribing, mShutdownRequested, kReconnect, call, fruitless>>

\* A new channel and a new reactor, whose constructor starts the first read.
Connect ==
    /\ acquirer = "connect"
    /\ call' = NewCall
    /\ acquirer' = "await"
    /\ fruitless' = fruitless + 1
    /\ UNCHANGED <<mSubscribing, mShutdownRequested, kReconnect>>

\* Mutation: only a call that has brought packets is cancelled.
CancelIfRead ==
    /\ acquirer = "await" /\ call.state = "open"
    /\ ~mSubscribing /\ ~call.mTryCancel /\ call.mHadSuccessfulRead
    /\ call' = [call EXCEPT !.mTryCancel = TRUE]
    /\ UNCHANGED <<mSubscribing, mShutdownRequested, acquirer, kReconnect, fruitless>>

\* await() wakes up every 250 ms to cancel a call that must end.
Cancel ==
    /\ acquirer = "await" /\ call.state = "open"
    /\ ~mSubscribing /\ ~call.mTryCancel
    /\ call' = [call EXCEPT !.mTryCancel = TRUE]
    /\ UNCHANGED <<mSubscribing, mShutdownRequested, acquirer, kReconnect, fruitless>>

\* Whether the status ends the loop.
Breaks(status) ==
    \/ status = "other"
    \/ status \in {"OK", "CANCELLED"} /\ ~mSubscribing

\* Mutation: a call that brought packets does not start the schedule again.
AwaitedWithoutReset ==
    /\ acquirer = "await" /\ call.state = "done"
    /\ IF Breaks(call.status)
       THEN acquirer' = "finish" /\ UNCHANGED kReconnect
       ELSE acquirer' = "top" /\ kReconnect' = kReconnect + 1
    /\ UNCHANGED <<mSubscribing, mShutdownRequested, call, fruitless>>

\* Mutation: the schedule starts again with every call, not every packet.
AwaitedAlwaysReset ==
    /\ acquirer = "await" /\ call.state = "done"
    /\ IF Breaks(call.status)
       THEN acquirer' = "finish" /\ UNCHANGED kReconnect
       ELSE acquirer' = "top" /\ kReconnect' = 0
    /\ UNCHANGED <<mSubscribing, mShutdownRequested, call, fruitless>>

\* await() returns; a successful read has reset kReconnect before the loop
\* increments it.
Awaited ==
    /\ acquirer = "await" /\ call.state = "done"
    /\ LET k == IF call.mHadSuccessfulRead THEN -1 ELSE kReconnect
       IN  IF Breaks(call.status)
           THEN acquirer' = "finish" /\ kReconnect' = k
           ELSE acquirer' = "top" /\ kReconnect' = k + 1
    /\ UNCHANGED <<mSubscribing, mShutdownRequested, call, fruitless>>

\* After the loop: an end that nobody asked for is an exception, which the
\* future keeps.
Finish ==
    /\ acquirer = "finish"
    /\ acquirer' = IF mSubscribing THEN "failed" ELSE "ended"
    /\ UNCHANGED <<mSubscribing, mShutdownRequested, kReconnect, call, fruitless>>

Acquire == Top \/ EndPause \/ Connect \/ Cancel \/ Awaited \/ Finish

-----------------------------------------------------------------------------
(* gRPC's threads                                                          *)

\* OnReadDone(true): the packet goes to the callback; then the next read is
\* started, or the call cancelled.
OnReadDone ==
    /\ call.state = "open" /\ call.reading
    /\ call' = [call EXCEPT !.mHadSuccessfulRead = TRUE,
                            !.reading = mSubscribing,
                            !.mTryCancel = @ \/ ~mSubscribing]
    /\ fruitless' = 0
    /\ UNCHANGED <<mSubscribing, mShutdownRequested, acquirer, kReconnect>>

\* OnReadDone(false) and OnDone: the server ends the call or cannot be
\* reached, or the cancellation has come through.
OnDone(status) ==
    /\ call.state = "open"
    /\ call' = [call EXCEPT !.state = "done", !.reading = FALSE, !.status = status]
    /\ UNCHANGED <<mSubscribing, mShutdownRequested, acquirer, kReconnect, fruitless>>

Feed == OnReadDone \/ \E status \in Statuses : OnDone(status)

\* A call that was cancelled ends.
OnCancelled == call.mTryCancel /\ \E status \in Statuses : OnDone(status)

-----------------------------------------------------------------------------
(* stop(), in the order it does it                                         *)

RequestShutdown ==
    /\ mShutdownRequested' = TRUE
    /\ UNCHANGED <<mSubscribing, acquisition>>

StopSubscribing ==
    /\ mSubscribing' = FALSE
    /\ UNCHANGED <<mShutdownRequested, acquisition>>

-----------------------------------------------------------------------------
(* Properties                                                              *)

\* reconnectSchedule.at(kReconnect) never throws, although a successful
\* read moves kReconnect backwards at any time.
PauseInSchedule == acquirer = "pause" => kReconnect \in 0..(NumberOfReconnects - 1)

SubscriberTypeOK ==
    /\ mSubscribing \in BOOLEAN /\ mShutdownRequested \in BOOLEAN
    /\ acquirer \in {"top", "pause", "connect", "await", "finish", "ended", "failed"}
    /\ kReconnect \in -1..NumberOfReconnects
    /\ call \in [state : {"none", "open", "done"}, reading : BOOLEAN,
                 mHadSuccessfulRead : BOOLEAN, mTryCancel : BOOLEAN,
                 status : Statuses \cup {"none"}]
    /\ fruitless \in Nat
    /\ PauseInSchedule

\* The acquisition gives the feed up by itself only when the server refuses
\* for good, or after as many calls in a row without a packet as there are
\* pauses in the schedule: a feed that brings a packet now and then is
\* followed for ever.
GivesUpOnlyWhenExhausted ==
    acquirer = "failed" => call.status = "other" \/ fruitless >= NumberOfReconnects

\* It does give up: no more calls in a row than pauses, and the first one.
RetriesAreBounded == fruitless <= NumberOfReconnects + 1
=============================================================================
