------------------------------ MODULE Service ------------------------------
(***************************************************************************)
(* The gRPC service: the reactors of class Service (src/src/service.cpp)   *)
(* over the map of deques, which the import side changes at the same time. *)
(*                                                                         *)
(* gRPC makes a reactor for each call, on a thread of its own: its         *)
(* constructor does all the work, ends with Finish, and OnDone deletes the *)
(* reactor later.  An exception that leaves the constructor takes the      *)
(* reactor with it; gRPC catches it and answers UNIMPLEMENTED.             *)
(*                                                                         *)
(* A request has a method, tells whether it carries the access token, and  *)
(* for GetTimeSeries has a sequence of stream requests.  The map's streams *)
(* are known by the names of module StreamNames.                           *)
(***************************************************************************)
EXTENDS StreamDequeMap, StreamNames

CONSTANTS
    Client,         \* the calls that may be in progress at once
    Request,        \* what they may ask
    TokenRequired,  \* TLS is on and an access token is configured
    Packet,         \* what the import side may add
    Instant,        \* the times it may expire at
    MaxCalls        \* bound: calls made

ASSUME ServiceAssumption ==
    /\ TokenRequired \in BOOLEAN
    /\ Instant \subseteq Int
    /\ MaxCalls \in Nat
    /\ \A p \in Packet : /\ p.startTime \in Int /\ p.endTime \in Int
                         /\ p.startTime <= p.endTime
                         /\ p.identifier \in Identifier
                         /\ ~ToStringRefuses(p.identifier)
    /\ \A r \in Request : r.streams \in
          Seq([identifier : Identifier, hasTimes : BOOLEAN, start : Int, end : Int])

VARIABLES
    rpc,                \* the reactor of each call
    mNumberOfClients,   \* MetricsSingleton's gauge
    metrics,            \* its counters of answered calls
    calls,              \* history: calls made,
    lost                \* ... and calls whose reactor was never finished

vars == <<mStreamDequeMap, rpc, mNumberOfClients, metrics, calls, lost>>

Idle == [phase |-> "idle", request |-> [method |-> "none"], status |-> "none",
         mSuccess |-> FALSE, listed |-> {}, series |-> <<>>]

Init ==
    /\ mStreamDequeMap = <<>>
    /\ rpc = [c \in Client |-> Idle]
    /\ mNumberOfClients = 0
    /\ metrics = [success |-> 0, invalidAccess |-> 0, invalidRequest |-> 0,
                  serverError |-> 0]
    /\ calls = 0 /\ lost = 0

-----------------------------------------------------------------------------
(* The import side, as the service sees it                                 *)

\* A packet that isValid accepts, and convert, too; under its stream's name.
Import(p) ==
    /\ AddToMap([stream |-> ToString(p.identifier), startTime |-> p.startTime,
                 endTime |-> p.endTime, quality |-> "good"])
    /\ UNCHANGED <<rpc, mNumberOfClients, metrics, calls, lost>>

Expire(t) ==
    /\ RemoveExpiredFromMap(t)
    /\ UNCHANGED <<rpc, mNumberOfClients, metrics, calls, lost>>

-----------------------------------------------------------------------------
(* The reactors' constructors                                              *)

\* incrementNumberOfClients comes before every check.
Call(c, request) ==
    /\ rpc[c].phase = "idle"
    /\ calls < MaxCalls
    /\ rpc' = [rpc EXCEPT ![c] = [Idle EXCEPT !.phase = "new", !.request = request]]
    /\ mNumberOfClients' = mNumberOfClients + 1
    /\ calls' = calls + 1
    /\ UNCHANGED <<mStreamDequeMap, metrics, lost>>

\* Finish with an error status, which one of the counters counts.
Fail(c, status, counter) ==
    /\ rpc' = [rpc EXCEPT ![c].phase = "answered", ![c].status = status]
    /\ metrics' = [metrics EXCEPT ![counter] = @ + 1]
    /\ UNCHANGED <<mStreamDequeMap, mNumberOfClients, calls, lost>>

IsDenied(c) == TokenRequired /\ ~rpc[c].request.token

\* Mutation: mSuccess is initialised with true.
DenySuccessfully(c) ==
    /\ rpc[c].phase = "new"
    /\ IsDenied(c)
    /\ rpc' = [rpc EXCEPT ![c].phase = "answered", ![c].status = "UNAUTHENTICATED",
                          ![c].mSuccess = TRUE]
    /\ metrics' = [metrics EXCEPT !.invalidAccess = @ + 1]
    /\ UNCHANGED <<mStreamDequeMap, mNumberOfClients, calls, lost>>

Deny(c) ==
    /\ rpc[c].phase = "new"
    /\ IsDenied(c)
    /\ Fail(c, "UNAUTHENTICATED", "invalidAccess")

Serves(c, method) ==
    /\ rpc[c].phase = "new"
    /\ ~IsDenied(c)
    /\ rpc[c].request.method = method

ListAll(c) ==
    /\ rpc' = [rpc EXCEPT ![c].phase = "answered", ![c].status = "OK",
                          ![c].mSuccess = TRUE,
                          ![c].listed = {FromString(s) : s \in GetAvailableStreams}]
    /\ UNCHANGED <<mStreamDequeMap, mNumberOfClients, metrics, calls, lost>>

\* One name that fromString refuses fails the whole list.
ListRefuses == \E s \in GetAvailableStreams : FromStringRefuses(s)

\* Mutation: what fromString throws is not caught and the call hangs.
ListStreamsUncaught(c) ==
    /\ Serves(c, "GetAvailableStreams")
    /\ ~ListRefuses
    /\ ListAll(c)

ListStreams(c) ==
    /\ Serves(c, "GetAvailableStreams")
    /\ IF ListRefuses THEN Fail(c, "INTERNAL", "serverError") ELSE ListAll(c)

\* Utilities::isValid: every field is set, and the times are in order.
IsValid(q) ==
    /\ \A part \in {"network", "station", "channel", "location"} :
          q.identifier[part] # Unset
    /\ q.hasTimes /\ q.start <= q.end

\* isValid says so, or accepts it although toString refuses its identifier.
Fault(q) ==
    CASE ~IsValid(q) -> "invalid"
      [] IsValid(q) /\ ToStringRefuses(q.identifier) -> "nameless"
      [] OTHER -> "none"

\* The stream requests are looked at in their order, up to the first fault.
Verdict(request) ==
    LET faults == {i \in 1..Len(request.streams) : Fault(request.streams[i]) # "none"}
    IN  IF faults = {} THEN "none"
        ELSE Fault(request.streams[CHOOSE i \in faults : \A j \in faults : i <= j])

Refuse(c) ==
    /\ Serves(c, "GetTimeSeries")
    /\ \/ rpc[c].request.streams = <<>>
       \/ Verdict(rpc[c].request) = "invalid"
    /\ Fail(c, "INVALID_ARGUMENT", "invalidRequest")

\* The constructor of struct Request throws, outside of any try block: the
\* reactor is gone, OnDone is never called.
Throw(c) ==
    /\ Serves(c, "GetTimeSeries")
    /\ Verdict(rpc[c].request) = "nameless"
    /\ rpc' = [rpc EXCEPT ![c] = Idle]
    /\ lost' = lost + 1
    /\ UNCHANGED <<mStreamDequeMap, mNumberOfClients, metrics, calls>>

\* The identifier is the one asked for, as it was spelled.
EmptySeries == [identifier |-> {}, packets |-> <<>>]

\* setDataPackets: without packets Clear() takes the identifier, too.
Series(identifier, packets) ==
    IF packets = <<>> THEN EmptySeries
    ELSE [identifier |-> {identifier}, packets |-> packets]

Find(q) == GetPacketsFromMap(ToString(q.identifier), q.start, q.end)

Answer(c, series, success) ==
    /\ rpc' = [rpc EXCEPT ![c].phase = "answered", ![c].status = "OK",
                          ![c].mSuccess = success, ![c].series = series]
    /\ UNCHANGED <<mStreamDequeMap, mNumberOfClients, calls, lost>>

IsGood(c, size) ==
    /\ Serves(c, "GetTimeSeries")
    /\ size = (Len(rpc[c].request.streams) > 1)
    /\ rpc[c].request.streams # <<>>
    /\ Verdict(rpc[c].request) = "none"

\* Mutation: mSuccess is set as well, so that OnDone counts the call again.
AnswerOneTwice(c) ==
    /\ IsGood(c, FALSE)
    /\ LET q == rpc[c].request.streams[1]
       IN  Answer(c, <<Series(q.identifier, Find(q))>>, TRUE)
    /\ metrics' = [metrics EXCEPT !.success = @ + 1]

\* A single stream request: counted here and not in OnDone.  A good request
\* gives getPackets nothing to throw about.
AnswerOne(c) ==
    /\ IsGood(c, FALSE)
    /\ LET q == rpc[c].request.streams[1]
       IN  Answer(c, <<Series(q.identifier, Find(q))>>, FALSE)
    /\ metrics' = [metrics EXCEPT !.success = @ + 1]

\* Mutation: the reply is built from the vector of requests.
AnswerManyFromRequests(c) ==
    /\ IsGood(c, TRUE)
    /\ Answer(c, <<>>, TRUE)
    /\ UNCHANGED metrics

\* Several stream requests: the vector `requests' is reserved and never
\* filled, so that the loops over it do nothing and each time series is
\* left as resize() made it.
AnswerMany(c) ==
    /\ IsGood(c, TRUE)
    /\ Answer(c, [i \in 1..Len(rpc[c].request.streams) |-> EmptySeries], TRUE)
    /\ UNCHANGED metrics

-----------------------------------------------------------------------------
(* OnDone                                                                  *)

\* fetch_sub, and the store that is meant to clamp the gauge at zero.
Decremented(n) == IF n <= 0 THEN 0 ELSE n - 1

\* Mutation: only successful calls are subtracted.
DoneIfSuccessful(c) ==
    /\ rpc[c].phase = "answered"
    /\ mNumberOfClients' = IF rpc[c].status = "OK"
                           THEN Decremented(mNumberOfClients) ELSE mNumberOfClients
    /\ metrics' = IF rpc[c].mSuccess
                  THEN [metrics EXCEPT !.success = @ + 1] ELSE metrics
    /\ rpc' = [rpc EXCEPT ![c] = Idle]
    /\ UNCHANGED <<mStreamDequeMap, calls, lost>>

Done(c) ==
    /\ rpc[c].phase = "answered"
    /\ mNumberOfClients' = Decremented(mNumberOfClients)
    /\ metrics' = IF rpc[c].mSuccess
                  THEN [metrics EXCEPT !.success = @ + 1] ELSE metrics
    /\ rpc' = [rpc EXCEPT ![c] = Idle]
    /\ UNCHANGED <<mStreamDequeMap, calls, lost>>

Serve(c) ==
    \/ Deny(c)
    \/ ListStreams(c)
    \/ Refuse(c)
    \/ Throw(c)
    \/ AnswerOne(c)
    \/ AnswerMany(c)
    \/ Done(c)

Next ==
    \/ \E p \in Packet : Import(p)
    \/ \E t \in Instant : Expire(t)
    \/ \E c \in Client : \/ \E request \in Request : Call(c, request)
                         \/ Serve(c)

\* gRPC's threads run every reactor to its end.
Fairness == \A c \in Client : WF_vars(Serve(c))

Spec == Init /\ [][Next]_vars /\ Fairness

-----------------------------------------------------------------------------
(* Properties                                                              *)

InPhase(phase) == {c \in Client : rpc[c].phase = phase}

TypeOK ==
    /\ \A c \in Client :
          /\ rpc[c].phase \in {"idle", "new", "answered"}
          /\ rpc[c].status \in {"none", "OK", "UNAUTHENTICATED",
                                "INVALID_ARGUMENT", "INTERNAL"}
          /\ rpc[c].mSuccess => rpc[c].status = "OK"
          /\ rpc[c].phase = "answered" <=> rpc[c].status # "none"
    /\ mNumberOfClients \in 0..MaxCalls
    /\ metrics \in [{"success", "invalidAccess", "invalidRequest", "serverError"}
                       -> 0..MaxCalls]
    /\ calls \in 0..MaxCalls
    /\ lost \in 0..calls

\* The gauge of clients is the number of calls in progress plus the number
\* of calls that were lost to an exception: every other path subtracts what
\* it added, once, and the clamp at zero is never needed.
ClientsAccounted ==
    mNumberOfClients = Cardinality(InPhase("new") \cup InPhase("answered")) + lost

\* Every call that was not lost is counted once and as one thing, whether
\* it is counted in the constructor or in OnDone.
EveryCallCounted ==
    metrics.success + metrics.invalidAccess + metrics.invalidRequest
        + metrics.serverError
    = calls - lost - Cardinality(InPhase("new"))
        - Cardinality({c \in InPhase("answered") : rpc[c].mSuccess})

\* data_response.proto: a successful reply has one time series for each
\* stream request, at its place; one that has packets is about the stream
\* asked for.
SeriesPerRequest ==
    \A c \in Client : rpc[c].status = "OK" /\ rpc[c].request.method = "GetTimeSeries" =>
        /\ Len(rpc[c].series) = Len(rpc[c].request.streams)
        /\ \A i \in 1..Len(rpc[c].series) :
              rpc[c].series[i].packets # <<>>
              => rpc[c].series[i].identifier = {rpc[c].request.streams[i].identifier}

\* time_series.proto: the packets of a time series are sorted by start
\* time.  Each has data between the start and the end of its query; it may
\* start before, as stream_request.proto line 9 allows, and end after it.
\* The exception is that of ReplyIsARun: a query that fell in a gap of the
\* stream was answered with the packet behind the gap, which comes alone and
\* has only data from after the query.
SeriesSorted ==
    \A c \in Client : \A i \in 1..Len(rpc[c].series) :
        LET packets == rpc[c].series[i].packets
            q == rpc[c].request.streams[i]
        IN  /\ Sorted(packets)
            /\ \/ \A k \in 1..Len(packets) :
                     HasDataBetween(packets[k], q.start, q.end)
               \/ Len(packets) = 1 /\ q.end < packets[1].startTime

\* An identifier that was listed can be asked for as it stands when the
\* client gets the list, whatever expires in the meantime: isValid and
\* toString accept it, and it names a stream of the cache.  The exception is
\* a part of blanks: without it the name has an empty piece, and toString
\* refuses the identifier made of it, or takes it for another location.
ListedStreamsCanBeAsked ==
    \A c \in Client : \A identifier \in rpc[c].listed :
        ~HasBlankPart(identifier) =>
            /\ IsValid([identifier |-> identifier, hasTimes |-> TRUE,
                        start |-> 0, end |-> 0])
            /\ ~ToStringRefuses(identifier)
            /\ ToString(identifier) \in GetAvailableStreams

\* Every call ends, also when the list of streams cannot be made.
EveryCallEnds ==
    \A c \in Client : rpc[c].phase # "idle" ~> rpc[c].phase = "idle"

-----------------------------------------------------------------------------
(* What documentation says and the code does not do, refuted by a run.     *)

\* data_response.proto line 12: the reply has the time series corresponding
\* to each specified stream, here: a stream in which getPackets finds packets
\* for its query when the reply is made is not missing from the reply.
EveryStreamIsAnswered ==
    [][\A c \in Client : AnswerMany(c) =>
          \A i \in 1..Len(rpc[c].request.streams) :
              Find(rpc[c].request.streams[i]) # <<>>
              => (rpc[c].series[i].packets)' # <<>>
      ]_vars
=============================================================================
