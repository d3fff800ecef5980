# A verification development for uDataPacketCacheService

The service subscribes to a feed of seismic data packets, keeps the packets of
the last few minutes in memory, one deque per stream, and answers gRPC
requests for them. This directory has TLA+ models of it, TLC runs that check
them on small instances, and theorems that TLAPS proves for every value of the
constants. `PROJECT.json` lists the runs, the mutations that each property is
known to catch, the source lines of each definition, the hazards, the findings
and the theorems. Line numbers below are those of `src/src/`.

## 1. The system

| component | state | operations | modules |
|---|---|---|---|
| `StreamDeque` (streamDeque.cpp) | the deque of one stream, its last update | `addPacket`, `removeExpiredPackets`, `getPackets` | `PacketDeque`, `StreamDeque`, `RecentPackets` |
| `StreamDequeMap` (streamDequeMap.cpp) | the deques of all streams under one mutex | `addPacket`, `removeExpiredPackets`, `getPackets`, `getAvailableStreams` | `StreamDequeMap` |
| import pipeline (`Process` in main.cpp) | the bounded import queue, counters | `addPacket`, `processPackets`, `cleanDeques`; what `stop` does to them | `PacketImport`, `ImportPromise`, `ImportStop` |
| `Service` (service.cpp) | one reactor per call, metrics | `GetAvailableStreams`, `GetTimeSeries`, `OnDone` | `Service` |
| import and service over one cache (`Process` in main.cpp) | both of the above | a step of either | `CacheService` |
| names (utilities.cpp) | | `toString`, `fromString` | `StreamNames` |
| `Subscriber` (subscriber.cpp) | the call to the feed, the reconnect schedule | `acquirePackets`, `OnReadDone`, `OnDone`, `await`, `stop` | `Subscriber` |
| life of `Process` (main.cpp), `Service::start/stop` | flags, futures, the gRPC server | `handleMainThread`, `areFuturesOkay`, `stop`, the signal | `Process` |
| options (programOptions.hpp and the option classes) | | `parseIniFile`, the setters | `ProgramOptions` |
| `main()` (main.cpp, logger.hpp) | the options, the provider of loggers | command line, ini file, logger, construction, clean-up | `Program` |
| metrics (metricsSingleton.hpp) | counters, the gauge of clients | | in the modules that change them |
| exporters of telemetry, protocol files | | | not modelled |

How they interact. `main()` reads the options, builds the logger and the
process, and cleans telemetry up when the process is told to end. The
subscriber's gRPC thread calls `Process::addPacket` for each packet; it pushes
into the import queue. `processPackets` pops, checks and calls
`StreamDequeMap::addPacket`. `cleanDeques` calls `removeExpiredPackets`.
gRPC's server threads build a reactor per call, which calls `getPackets` or
`getAvailableStreams`. The map's mutex makes each of its functions atomic; the
queue makes each of its calls atomic; nothing makes two calls atomic together.
The main thread polls the futures of the four threads and a flag that the
signal handler sets, and `stop()` makes the threads end in a fixed order.

What is hard about it:

- *the deque*: a feed repeats, delays, overlaps and slips packets. `addPacket`
  has six ways out, three of which make room; the binary searches of
  `addPacket` and `getPackets` have their comparators written by hand and
  rely on the order that every path has to keep;
- *stale reads*: the importer's queue size, the processor's and the cleaner's
  clock, and the list of streams are all read before they are used;
- *a queue at its limit*: the producer makes room by popping the consumer's
  packets while the consumer pops, too;
- *names*: the identifier a client is given is taken apart from a name with
  the dots of the feed's identifiers in it, and is put together again when it
  asks;
- *partial failure*: packets that `isValid` accepts and `convert` refuses,
  reactors whose constructor throws, futures that rethrow in the loop that
  joins the others, an error handler of `main()` that throws itself;
- *stopping*: four threads, a reconnect schedule, a silent feed, packets that
  still arrive and a server that may not have been built yet;
- *options*: some forty keys, which the parser reads with defaults that pass
  through units and casts, and which must fit together.

What makes each correct is in section 3; the complete list of hazards, each at
its line and with the properties that watch it, is in `PROJECT.json`.

## 2. The modules

Cache:

- `PacketDeque` is the pure part of `StreamDeque`: `Added`, `Unexpired`,
  `GetPackets` and the searches in them (`StartsAtOrAfter`, `StartsAfter`,
  `FirstMatch`, `EndMatch`) as operators on sequences. C++ positions 0 .. n are
  1 .. n+1 here. No operator is RECURSIVE, so that the modules over it can be
  proved about. `std::erase_if` is `Unexpired`, which is defined without
  recursion by ranks; `MCStreamDeque` compares it with the library's
  `SelectSeq` in an `ASSUME` that TLC evaluates.
- `StreamDeque` is the state machine of one deque: `AddPacket`,
  `RemoveExpiredPackets` and the wall clock. What the wrapper class refuses by
  throwing changes nothing and is not a step. Packets have a start time and an
  end time that is not smaller; the samples are one model value, and packets
  of one sample (`endTime = startTime`) are included.
- `RecentPackets` is the abstract cache, without a sequence: at most one
  packet per start time, the first one offered, and of too many the most
  recent. `StreamDeque` implements it under the mapping
  `cache <- Held(mDeque)` if every packet has at least two samples. With
  one-sample packets it does not: line 83 compares a new start time with the
  *end* time of the newest packet, so that the retransmission of a newest
  packet with one sample is appended again, although the comments at lines 104
  and 145 call such a packet a duplicate that is skipped. That is why the
  refinement run and theorem have the hypothesis.
- `StreamDequeMap` has the map and the four functions over it. `PacketImport`
  (three threads, queue, clock) and `Service` (reactors) both EXTEND it. In
  `Service` the import side is two actions, `Import` and `Expire`, that may
  happen at any time; that this covers what the pipeline does to the map is a
  property of `CacheService`.

Import:

- `PacketImport` has each call to the queue, the clock and the map as an
  action: `CheckRoom`, `PopOldest`, `PopNothing` and `Push` are the statements
  of `Process::addPacket`; `Take`, `Reject`, `Accept` and `Add` those of
  `processPackets`; `WakeUp` and `Clean` those of `cleanDeques`. The processor
  reads the clock once per packet, in `Reject` or `Accept`, and stores the
  packet in a later step. `feed`, `outcome` and `latest` are history variables.
  The clock is the system's (`getNow`, utilities.cpp:178) and may be corrected:
  `Tick` advances it, `SetBack` sets it back, at most `MaxSetBack` behind the
  latest time it has shown.
- `ImportPromise` is the abstract import, without threads, queue, deques or
  the cleaner's copy of the time: a packet waits, is taken up in its turn and
  has one fate; the cache is a set of packets for each stream. A packet may
  be lost only while it is the longest waiting, is not the newest, and more
  were delivered than the queue holds; packets leave the cache by ageing
  only. `PacketImport` implements it (`KeepsPromise`): the mapping makes
  fates of `outcome`, `work` and the processor's place, and forgets the order
  of each deque. What looks like a race in the code cannot be seen through
  it, or is one of the promise's choices.
- `ImportStop` EXTENDS it with what `Process::stop` does: `StopSubscriber`
  and then `StopPackets` clear the two flags; `CloseFeed` is the end of the
  cancelled call, some time after; `Look` is the head of the processor's loop,
  `FindNothing` a `try_pop` in vain, and the cleaner looks when it wakes. Two
  threads look at the flag and then act on a look that may be old. Every step
  of it is one of `PacketImport` or leaves it alone.

Service:

- `StreamNames` has `ToString` and `FromString`. A text is the sequence of the
  pieces between its dots, so that joining by a dot is concatenation, and a
  name is taken apart by counting pieces; `Canonical` says what removing
  blanks and `toupper` make of a piece. A field that is not set is no piece,
  an empty one is one empty piece.
- `Service` has one record per call. `Call` is the beginning of a reactor's
  constructor (gauge of clients), then exactly one of `Deny`, `ListStreams`,
  `Refuse`, `Throw`, `AnswerOne`, `AnswerMany` is the rest of it, `Done` is
  `OnDone`. Since gRPC binds a reactor only after its constructor has
  returned, `OnDone` never overlaps with it. Packets are kept under
  `ToString` of their identifier and listed by `FromString` of the name.
  `AnswerMany` says what the code does, not what it means to do: see the
  findings.
- `CacheService` is the composition: it EXTENDS `PacketImport` and has an
  instance of `Service`, `Serving`, whose map is the import's; a step is one of
  the import (`ImportStep`) or one of a reactor (`ServiceStep`). Only here can
  be said where a reply comes from. The two refinements of the parts say that
  neither is disturbed by the other: the whole implements `PacketImport`
  (reactors only read), and it implements `Service` (`ImportServes`: every
  packet the processor adds is one that `Import` may bring under the name its
  identifier gives, and every time the cleaner uses is an instant of `Expire`).

Life of the program:

- `Subscriber` has the actions of `acquirePackets`, of the reactor's callbacks
  and of `stop`, which are two steps because `mShutdownRequested` is set
  before `mKeepRunning`. The names `mSubscribing` and `mKeepRunning` keep the
  two classes' flags apart.
- `Process` EXTENDS it with the main thread and the other three threads, which
  are reduced to where they look at the flags.
- `ProgramOptions` is `parseIniFile` and all it calls. An ini file is a
  function from keys `<<section, name>>` to values; a `std::optional` is the
  set of its values. A setter that throws is a disjunct of a `Refuses...`
  operator: the program reports the first refusal and ends, whichever it is.
  The cast of a duration in nanoseconds to int is computed with its 32 bits.
- `Program` is `main()`: `CommandLine`, `ReadOptions`, `InitializeLogger`,
  `Construct`, then the life of `Process` (each of its actions under `Runs`),
  `CleanUp` at the point where `start()` returns or is left by an exception,
  and the destructor of `Process` after it, which joins what is left.

`PacketDequeLemmas` and the modules `...Proofs` hold the proofs, section 4.
The `MC*` modules give the sets of packets, requests and ini files for TLC.
Definitions whose comment begins with *Mutation* are not part of any
specification: each replaces the definition after it when the runs are tested
for whether their properties can fail.

## 3. The runs

Passing runs:

| run | bounds | what it shows |
|---|---|---|
| `StreamDeque` | start times 0..4, lengths 0, 1, 3; capacity 4; queries and expiry at -1..7 | sortedness, capacity, eviction of the oldest only, an answer to each offer; for every query on every reachable deque: `IteratorsOrdered`, `ReplyIsARun` (consecutive packets with data in the query, or the one packet behind a gap the query falls in), `ReplyCoversQuery`, `ExactForDisjointPackets` |
| `StreamDequeRefinement` | start times 0..3, lengths 1, 3, two payloads; capacity 3 | the deque implements `RecentPackets` |
| `PacketImport` | `ImportStop` with a queue of 2, 3 deliveries, one good, one invalid and one unconvertible packet of one sample, latency limit and retention 1, clock 0..2 and not set back, a stop at any time | `PushHasRoom`, `OverflowCostsOldest`, `LossIsBounded`, `EveryPacketAccounted`, `StopLosesOnlyQueued`; liveness: `EveryPacketSettles`, `StopEndsImport`, `ExpiredPacketsLeave` |
| `CacheService` | queue of 1, two deliveries; a stream with two start times and lengths 0 and 2, another with one good and one unconvertible packet; latency limit 3, future limit 0, retention 1, clock 0..3 that may be set back by 1; one client with one call: for a stream under another spelling, for two streams, or for the list | `CachedDataIsServed`, `RepliesAreFed`; the import implements `ImportPromise` (`KeepsPromise`), and to the reactors the import is one of `Service` (`ImportServes`) |
| `Service` | two concurrent clients, three calls, seven requests; a stream under two spellings with a gap between its packets and a query that may fall in it, one whose station has a dot, one whose location is a blank | `ClientsAccounted`, `EveryCallCounted`, `SeriesPerRequest`, `SeriesSorted`, `ListedStreamsCanBeAsked`; liveness: `EveryCallEnds` |
| `Process` | `Program` with some 150 ini files, a schedule of two pauses, a build without gRPC exporters, a signal at any time | `GivesUpOnlyWhenExhausted`, `RetriesAreBounded`, `ThreadsEndFirst`, `AcceptedOptionsAreUsable`, `StartUpNeverCrashes`, `QuietAfterCleanUp`; liveness: `StopEndsAcquisition`, `SignalEndsServingProcess`, `DeadFeedEndsProcess` |

Four of them have their type invariant besides (`TypeOK`, `StopTypeOK`,
`ProgramTypeOK`).

Why the bounds are enough. Five start times with lengths 0, 1 and 3 make
packets that are equal, overlap, touch, leave gaps and contain each other, and
a deque of four has a front, a back and a middle when a packet comes before,
between or after them; full and not full are both met. Queries lie before, within, between and
after the packets. `RepliesAreExact` and `CopiesWholeRange` need one or two
packets and have smaller bounds. A queue of two with
three deliveries overflows, and the processor can take packets at every point
of the importer's loop; three deliveries are what one overflow, and the
needless pop of a stale size, takes; the third may also be delivered after the
processor has ended with the other two in the queue, and push one of them out.
A clock at 2 is when a packet is too old to be accepted, and when one that was
accepted in time has aged out. The deques of the pipeline have the
capacity 2147483647, as in the code, and are never full there
(`CapacityAssumption`); what a full deque does is in the first two runs. In the run
`PacketImport`, which is about the queue and the threads, the clock is not set
back, to keep its liveness check small; in `CacheService`, which is about
times and deques, it is, between the reading and the use of a time as well,
and the theorems are about any `MaxSetBack`. There two deliveries and one call
are enough for a reply that is read after its packets have expired, a second
packet for a start time that is held, and a stream that is listed when its
deque is empty; a queue of one overflows with the second delivery. Three
calls by two clients let a call begin or be lost while another is in each of
its phases. The ini files are a sound one with one group of keys varied
together (a side's credentials, the limits of the service or of the import,
the exporters), so that every key meets absence, a good value and each value
the code refuses; the groups do not meet in the code.

Runs that refute what a comment, an assertion or a document says:

| run | said | what the code does |
|---|---|---|
| `CopiesWholeRange` | assertion, streamDeque.cpp:269 | the copy loop stops at the first packet that reaches the query's end; if the next one overlaps it and starts by the query's end too, fewer packets are copied than the assertion counts, and a debug build aborts |
| `RepliesAreExact` | streamDeque.hpp:53 | packets "with data between the desired start and end time": a query that starts after the newest packet's start gets nothing although that packet reaches into the query, and a query before all packets or in a gap gets the packet behind it, which has no data in the query |
| `FutureDataIsRejected` | main.cpp:369 | `endTime` is read with `getStartTime`: the future check compares the start |
| `EveryStreamIsAnswered` | data_response.proto:12 | a request for more than one stream is answered with empty time series: `requests` is never filled |
| `SignalEndsProcess` | main.cpp:207, service.hpp | a signal while the server is being built stops nothing, and the process waits for it for ever |
| `DefaultRetentionIsFiveMinutes` | streamDequeMapOptions.hpp:38 | the default of five minutes in nanoseconds is cast to int (programOptions.hpp:422-423), becomes negative and is refused: an ini file without the key does not start the program |

Deadlock is checked but in the runs of a system that ends: `PacketImport`
(the import is stopped), `Process`, `SignalEndsProcess` and
`DefaultRetentionIsFiveMinutes`.

Fairness. Every thread is weakly fair: the operating system runs it again
and again, and each wait in the code has a timeout or a thread that ends it
(the cleaner's 30 s, the processor's 10 ms, the 250 ms of `await`, the main
thread's 100 ms). gRPC's threads run a reactor to its end and end a call that
was cancelled (`CloseFeed`, `OnCancelled`). `stop()` goes on once it has begun
(`StopPackets`), and `main()` is a thread like the others. The feed, the
clock, the signal and the first step of a stop have no fairness: the feed may
be silent for ever, nobody has to send a signal. `WF_vars(Importer)` and the
like are fairness of a thread, whose actions exclude each other.

What the liveness properties do not promise. `SignalEndsServingProcess` and
`DeadFeedEndsProcess` are stated for a process whose server is being waited
in. Before that the system can hang (`SignalEndsProcess`) or crash: `Wait()`
is called through a pointer that is null if the port was taken, or if `stop()`
came between lines 612 and 613 of service.cpp. `Process` has that crash as an
outcome (`exitCode = "crash"`). `EveryPacketSettles` and `ExpiredPacketsLeave`
hold until the import is stopped; what a stop may cost is
`StopLosesOnlyQueued`: what is queued or being added when the processor ends,
and every packet that the feed delivers until its call has ended. Nothing
bounds the number of the latter. `QuietAfterCleanUp` excludes two threads that an
exception of the subscriber leaves running over the clean-up.
`ExpiredPacketsLeave` promises nothing of a packet that has not aged out any
more because the clock was set back.

Not every theorem has a run of its own. `NoFutureData` (no packet is cached
whose start was in the future by more than the limit) and `NothingLeavesEarly`
(a packet that leaves a deque had aged out by a time the clock has shown) say
part of what `KeepsPromise` says, and `StreamsAreThoseCached` and
`FreshDataIsAnswered` speak of what `CachedDataIsServed` and `RepliesAreFed`
are about; `ServiceIsCorrect` repeats the properties of the run `Service` for
the composition. These five are stated in the modules and proved (section 4),
but in no run of their own.

## 4. The proofs

Every safety property and action property of the passing runs is a theorem.
Liveness is only model-checked, because fairness and ENABLED are out of the
prover's reach. Nothing here needs induction over data or a RECURSIVE
operator.

Assumptions (each an `ASSUME` that the runs evaluate): packets have integer
times with `startTime <= endTime`; the instants of expiry are integers; the
capacity, the queue's size and the maximum duration are positive (the setters
refuse others, and `AcceptedOptionsAreUsable` says that the options that get
through are such); the limits on latency and future time are integers; the
bounds on clock, its setting back, feed, calls and pauses are natural numbers,
and the feed is no longer than the capacity of a deque, which in the service is
the largest int; a packet is good, invalid or cannot be converted, and one that
`isValid` accepts has an identifier that `toString` makes its stream's name of
(`CacheAssumption`); making a text canonical twice is the same as once. Nothing
else: the sets of packets, instants, clients, requests, names and ini files may
be infinite.

`StreamDequeProofs`, about one deque. The inductive invariant is
`DequeInvariant == TypeOK /\ SortedDeque /\ BoundedDeque`. The parts need each
other: the place that the search finds is right only in a sorted deque, so
that an unsorted one would be left unsorted (and its search could run off the
end); a call pops at most one packet, so that only a deque that fits is left
fitting. From it follow `TypeCorrect`, `DequeIsSorted`, `DequeIsBounded`, the
action properties `OnlyOldestIsEvicted` and `EveryOfferIsAnswered`, the
refinement `DequeImplementsRecentPackets`, and what queries find:
`IteratorsAreOrdered`, `RepliesCoverQueries`, `RepliesAreRuns`,
`DisjointPacketsAreExact`. `PacketDequeLemmas` has the argument:
`StartsAtOrAfterProperty` says what the search returns; `InsertionSorted`,
`TailSorted` and `TailKeeps` what one insertion and one pop do; `AddedCases`
shows that `addPacket` comes down to four cases and that the path on which
nothing is found is dead; `AddedProperty` collects what the invariants need;
`RankStep` and `SubsequenceAtProperty` show that erasing keeps the order;
`IteratorsProperty`, `CopiedUpToProperty`, `ReplyProperty` and `RangeProperty`
follow `getPackets` from its two searches to the copy; `ReplyInQuery` says
which packets have data in the query, and that one without comes alone.

`PacketImportProofs`, for every interleaving of the three threads and a clock
that may be set back between any two of their steps, has two inductive
invariants. `QueueInvariant` is about the two ends of the queue: `OverflowCostsOldest` is not inductive alone, because that the next
packet goes behind all others needs `LatestIsHeld` (while the importer is in
`addPacket` its packet is the latest of the feed, and nobody else has it), that
a failed push loses nothing needs `PushHasRoom`, and that a packet is settled
once needs `WorkIsPending`. `CacheInvariant` is about the map and the clock,
and is preserved only together with `QueueInvariant`: `FutureIsChecked` carries
the check over the steps between `Accept` and `Add`, on the packet that
`QueueInvariant` says is still the same; `ClockTypeOK` bounds the cleaner's
stale time by the latest time the clock has shown; `CacheTypeOK` has every
deque sorted and no longer than the number of packets cached, so that (`NumbersAreFew`, by counting) no
deque is full while a packet is still to be cached and none is pushed out.

`ImportAccountProofs` counts. `AccountInvariant` says where packets are
(`PlacesOK`: a packet without an outcome is queued, in the processor's hands
or in the importer's), and that deliveries balance (`Balance`). The bound on
the loss is not inductive because the importer pops on a size it has read
before: `RoomWasNeeded` says that while it may pop, the deliveries exceed what
was lost by more than the queue holds, whatever the processor has taken
meanwhile. This gives `PacketsAreAccounted` and `LossStaysBounded`. Its second
part goes from the feed to the client: `FeedInvariant == HeldIsFed /\
FreshIsHeld` ties the deques to the history of the feed, and with the lemmas
on replies gives `CachedIsServed`. Its third part is the refinement
`ImportKeepsPromise`. `ThoseAre` reads the abstract fates off the places:
waiting is what is queued or held by the importer, taken is what the processor
works on. Then each action is one of the promise or a stutter (`StepPromised`
has the cases): a pop for room is `Lose`, since the front of the queue waits
longest (`FrontIsNext`), the importer's own packet is newer, and `RoomWasNeeded`
bounds the loss; `Reject` reads the clock in the same step; a packet that is
refused after `Accept` is unconvertible, because `ValidIsChecked` carries the
check over; `Add` is `Store`, whose condition `IsNews` is what the four cases of
`addPacket` come down to when the order of the deque is forgotten
(`StorePromised`); and `Clean` is `Age` at a time the clock has shown, although
not always at one it shows now.

`ImportStopProofs` has the refinement `StopImplementsImport` (each step of the
import with its stop is one of the import or a stutter), so that all of the
above carries over, and `StopInvariant`, which adds the length of the queue and
the places a thread can end in: `StopTypeCorrect`, `StopKeepsAccounts`, and
`StopKeepsPromise`: also an import that is being stopped keeps the promise.
`StopLosesLittle` has two parts. `EndingLeavesFew` counts what is given up when
the processor sees the flag, from `PlacesOK` and the length of the queue;
`AfterTheEnd` goes through the steps of the other threads, which settle packets
by losing them from the queue only (`OnlyDrops`).

`ServiceProofs`, for any number of calls in progress. `ServiceInvariant` has
the map (`MapOK`: sorted deques under names that `toString` makes), each
reactor on its own (`ReactorsOK`: which phases, statuses and replies go
together) and the counters (`CountInvariant`, which ties each counter to the
number of reactors in a phase). One reactor's step is a `Becomes` fact, from
which both the reactors and the counts follow. Theorems: `ServiceTypeCorrect`,
`GaugeIsAccounted`, `CallsAreCounted`, `SeriesMatchRequests`,
`SeriesAreSorted` (by `ReplyInQuery`, also that packets have data in the query
but for the one behind a gap), `ListedCanBeAsked`; the last one is the round
trip of an identifier through a name, `FromStringNames`.

`ProgramProofs` is, in its first part, about `Process` with any schedule.
`AcquisitionInvariant` links the place in the schedule with the calls made since the last read (`CallInSchedule`,
`ScheduleCountsCalls`) and a call in progress with the thread that awaits it
(`CallIsAwaited`); `ProcessInvariant` adds why a thread has ended
(`EndHasReason`). Theorems: `ProcessTypeCorrect`, `GivesUpExhausted`,
`RetriesEnd`, `ProcessOutlivesThreads`.

Its second part has the refinement `ProgramImplementsProcess`, which carries
these over to `main()`, and `ProgramInvariant`: options that are moved on are
accepted ones (`OptionsAreAccepted`), and telemetry is cleaned up only where
`start()` has returned or thrown (`CleanedAfterStart`). Theorems:
`ProgramTypeCorrect`, `AcceptedAreUsable` for every ini file,
`StartUpIsCaught`, `TelemetryOutlivesThreads`.

`CacheServiceProofs` puts the import and the service together. `ServiceReads`
(no reactor changes the map) gives `CacheImplementsImport`, so that all that
is proved of the import holds while it is read. The other direction,
`CacheImplementsService`, needs the import's invariants: that the processor's
packet was valid when it is added (`AddIsImport`), and that the cleaner's time
is within the clock's bounds (`CleanIsExpire`). `RepliesComeFromFeed` has the
invariant `ReactorsAreFed`: a reactor's packets and names come from packets
that were cached. A reply is taken from the map in one step and read by the
client later; it stays true because what was cached stays on record
(`CachedStay`), and it is true when it is made because a reply has only what
the deque holds (`ReplyIsHeld`, which needs the query's times in their order,
`AskedInOrder`) and a deque only what the feed brought (`FeedInvariant`).
`FreshIsAnswered` joins `CachedIsServed` to the reactor's step: a client that
asks for the time of a packet that was cached and has not aged out is answered
with one that starts there. Last, `ServiceIsUndisturbed` brings what
`ServiceProofs` has proved over to the composition: that module is instantiated
with the packets and instants of the import, the assumptions it makes of its
constants are proved of them (`ReactorsAssumption`), the two instances of
`Service` are shown to be one (`SameService`), and `SafeService`, which is
`ServiceProofs` without fairness, is cited through the instance.

## 5. Not modelled, and other observations

Not modelled:

- *Data*: samples and sampling rates. `isValid` and `convert` appear as the
  quality of a packet and of a request. The end time that `utilities.cpp:91`
  computes from a very small sampling rate exceeds 64 bits; times are integers
  here.
- *Options no behaviour depends on*: URLs of collectors, the application's
  name, verbosity.
- *Exporters*: how the exporters of logs and metrics are set up, and the
  observers that copy a counter. `Metrics::initialize` is never called, so
  that no metrics are exported whatever the ini file says.
- *Protocol files* hold no logic; the models keep the fields that decide
  something.
- *Data races*: `await` reads `mDone` without the mutex that `OnDone` holds
  (subscriber.cpp:205), and `Wait()` is called through a pointer that `stop()`
  may reset at the same time (service.cpp:613); a model of the outcomes would
  say nothing about the code beyond that it must not happen.

- *Branches that nothing reaches*: the catch of a failing `getPackets` in a
  single request (service.cpp:388-397), since it throws only on times outside
  64 bits; the cleaner's own exception after more than five errors in a row
  (main.cpp:296-300), since nothing it calls throws; and the store that sets a
  negative gauge of clients to zero (metricsSingleton.cpp:146-153), which makes
  `Decremented` one step: `ClientsAccounted` shows the gauge never negative.

Observations made on the way, beside the findings:

- Nothing increments the overflow counter of metricsSingleton.hpp, and the
  importer's loop always pops one packet.
- A stream whose location is a blank, or whose network, station or channel
  has a dot, is kept under a name that cannot be asked for, or that another
  stream may have as well; a dotted one makes every later
  `GetAvailableStreams` fail, also after its packets have expired. This is why
  `ListedStreamsCanBeAsked` speaks of identifiers without a blank part.
- The deduplication of requests in `GetTimeSeries` (service.cpp lines 425-435
  and 473-483) never sees a request; its copy loop has source and destination
  the wrong way round.
- `SetMaxSendMessageSize` of 1024 (service.cpp:562) limits every reply of the
  server to one kilobyte.
- The observer of invalid packets is added to the counter of received packets
  (main.cpp:119).
- `mIsRunning` is stored after the threads have been launched (main.cpp:203).
- After a fatal error in a thread the process may end with success, because
  `areFuturesOkay` has used the exception up (main.cpp:487).
- The default interval of the summary, 900 s, is taken for minutes
  (programOptions.hpp:374-381), and the summary reads its counters one by one.

## 6. Plan

Done: every component with state of its own is modelled, the import and the
service also over one cache; every safety property, action property and
refinement of the passing runs is proved, for a clock that may be set back.

Left, in this order:

1. The end time of a packet in 64 bits: `convert` as an operator on start,
   number of samples and rate, with the packets it makes that end before they
   start.
2. A promise of the service like that of the import: a call is made, answered
   once or lost, and counted as one thing, without the reactors' fields; with
   `Service` proved to implement it.
3. The sizes of replies against the server's limit on messages.
