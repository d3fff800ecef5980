------------------------- MODULE CacheServiceProofs -------------------------
(***************************************************************************)
(* Proofs about CacheService: the import and the service over one map      *)
(* implement each of the two modules that describe them apart, and what a  *)
(* client is given can be traced to the feed.                              *)
(***************************************************************************)
EXTENDS CacheService, ImportAccountProofs

-----------------------------------------------------------------------------
(* The service's operators are those of the import, by another path.       *)

\* addPacket, ...
LEMMA SameAdded ==
    \A d, p, max : Serving!Added(d, p, max) = Added(d, p, max)
BY DEF Serving!Added, Added, Serving!IsNewest, IsNewest,
       Serving!StartsAtOrAfter, StartsAtOrAfter, Serving!PushBack, PushBack,
       Serving!IsFull, IsFull, Serving!IsSkippedAtFront, IsSkippedAtFront,
       Serving!InsertBefore, InsertBefore, Serving!Back, Back

\* ... removeExpiredPackets, ...
LEMMA SameUnexpired ==
    \A d, t : Serving!Unexpired(d, t) = Unexpired(d, t)
BY DEF Serving!Unexpired, Unexpired, Serving!SubsequenceAt, SubsequenceAt,
       Serving!Rank, Rank, Serving!Cardinality, Cardinality

\* ... getPackets ...
LEMMA SameReplies ==
    \A s, qs, qe : Serving!GetPacketsFromMap(s, qs, qe) = GetPacketsFromMap(s, qs, qe)
BY DEF Serving!GetPacketsFromMap, GetPacketsFromMap, Serving!GetPackets, GetPackets,
       Serving!FirstMatch, FirstMatch, Serving!EndMatch, EndMatch,
       Serving!CopiedUpTo, CopiedUpTo, Serving!StartsAtOrAfter, StartsAtOrAfter,
       Serving!StartsAfter, StartsAfter, Serving!Back, Back

\* ... and the names of streams.
LEMMA SameNames ==
    \A identifier : /\ Serving!ToString(identifier) = ToString(identifier)
                    /\ Serving!FromString(identifier) = FromString(identifier)
BY DEF Serving!ToString, ToString, Serving!FromString, FromString,
       Serving!Location, Location, Serving!Unset, Unset, Serving!Empty, Empty

-----------------------------------------------------------------------------
(* The import is undisturbed                                               *)

\* The reactors only read the map.
LEMMA ServiceReads ==
    ServiceStep => UNCHANGED vars
<1> SUFFICES ASSUME NEW c \in Client,
                    \/ \E request \in Request : Serving!Call(c, request)
                    \/ Serving!Serve(c)
             PROVE  UNCHANGED mStreamDequeMap
  BY DEF ServiceStep, importVars, vars
<1> QED  BY DEF Serving!Call, Serving!Serve, Serving!Deny, Serving!Fail,
                Serving!ListStreams, Serving!ListAll, Serving!Refuse,
                Serving!Throw, Serving!AnswerOne, Serving!AnswerMany,
                Serving!Answer, Serving!Done

\* A step of the whole is one of the import, or leaves it alone.
LEMMA NextIsImport == [CacheNext]_cacheVars => [Next]_vars
BY ServiceReads DEF CacheNext, ImportStep, cacheVars

\* The import with its reactors is the import, with its fairness: all that is
\* proved of PacketImport holds here.
THEOREM CacheImplementsImport == CacheSpec => Spec
<1>1. CacheInit => Init
  BY DEF CacheInit
<1> QED  BY <1>1, NextIsImport, PTL DEF CacheSpec, Spec

-----------------------------------------------------------------------------
(* The import is one that the service allows for                           *)

\* What the processor adds is a packet that the map takes, under its name.
LEMMA AddIsImport ==
    ASSUME QueueInvariant, Add, ~Throws(feed[work]), UNCHANGED serviceVars
    PROVE  Serving!Next
<1> DEFINE p == feed[work]
           q == [stream |-> ToString(p.identifier), startTime |-> p.startTime,
                 endTime |-> p.endTime, quality |-> "good"]
<1>1. p \in Packet /\ p.quality = "good"
  BY DEF Add, QueueInvariant, QueueTypeOK, WorkIsPending, Throws
<1>2. p.stream = ToString(p.identifier)
  BY <1>1, CacheAssumption
<1>3. /\ q.stream = p.stream /\ ~Throws(q) /\ Converted(q) = Converted(p)
  BY <1>2 DEF Throws, Converted
<1>4. AddToMap(q)
  <2>1. AddToMap(p) /\ ~Throws(p)
    BY DEF Add
  <2> HIDE DEF p, q
  <2> QED  BY <1>3, <2>1 DEF AddToMap
<1>5. Serving!AddToMap(q)
  <2> HIDE DEF q
  <2> QED  BY <1>4, SameAdded
           DEF AddToMap, Serving!AddToMap, Throws, Serving!Throws,
               Converted, Serving!Converted
<1>6. Serving!Import(p)
  BY <1>5, SameNames DEF Serving!Import, serviceVars
<1> QED  BY <1>1, <1>6 DEF Serving!Next

\* The cleaner's time is one that the bounds on the clock allow.
LEMMA CleanIsExpire ==
    ASSUME CacheInvariant, Clean, UNCHANGED serviceVars
    PROVE  Serving!Next
<1>1. oldestTime \in (0 - MaxSetBack - MaximumDuration)..(MaxClock - MaximumDuration)
  <2>1. /\ oldestTime \in Int
        /\ oldestTime + MaximumDuration \in (0 - MaxSetBack)..latest
        /\ latest \in 0..MaxClock
    BY DEF Clean, CacheInvariant, ClockTypeOK
  <2> QED  BY <2>1, ImportAssumption
<1>2. Serving!RemoveExpiredFromMap(oldestTime)
  BY SameUnexpired DEF Clean, RemoveExpiredFromMap, Serving!RemoveExpiredFromMap
<1>3. Serving!Expire(oldestTime)
  BY <1>2 DEF Serving!Expire, serviceVars
<1> QED  BY <1>1, <1>3 DEF Serving!Next

\* A step of the whole is one that Service allows, or is not seen by it.
LEMMA NextIsService ==
    ASSUME QueueInvariant, CacheInvariant, [CacheNext]_cacheVars
    PROVE  [Serving!Next]_(Serving!vars)
<1>1. CASE ServiceStep
  BY <1>1 DEF ServiceStep, Serving!Next
<1>2. CASE UNCHANGED <<mStreamDequeMap, serviceVars>>
  BY <1>2 DEF serviceVars, Serving!vars
<1>3. CASE ImportStep
  <2>1. UNCHANGED serviceVars /\ Next
    BY <1>3 DEF ImportStep
  <2>2. CASE Elsewhere
    BY <1>2, <2>1, <2>2, ElsewhereCachesNothing
  <2>3. CASE Add /\ Throws(feed[work])
    BY <1>2, <2>1, <2>3 DEF Add, AddToMap
  <2>4. CASE Add /\ ~Throws(feed[work])
    BY <2>1, <2>4, AddIsImport
  <2>5. CASE Clean
    BY <2>1, <2>5, CleanIsExpire
  <2> QED  BY <2>1, <2>2, <2>3, <2>4, <2>5 DEF Next, Processor, Cleaner, Elsewhere
<1>4. CASE UNCHANGED cacheVars
  BY <1>2, <1>4 DEF cacheVars, vars
<1> QED  BY <1>1, <1>3, <1>4 DEF CacheNext

\* Over the real import the reactors take the steps that Service lets them
\* take over an import of which it knows nothing.
THEOREM CacheImplementsService == CacheSpec => ImportServes /\ Serving!Spec
<1>1. CacheInit => Serving!Init
  BY DEF CacheInit
<1> QED  BY <1>1, NextIsService, CacheImplementsImport, SpecQueue, SpecCache, PTL
         DEF CacheSpec, ImportServes, Serving!Spec

-----------------------------------------------------------------------------
(* Replies                                                                 *)

\* A reactor has the fields that the service gives it.
IsReactor(r) ==
    \E P, Q, S, M, L, T : r \in [phase : P, request : Q, status : S,
                                 mSuccess : M, listed : L, series : T]

CachedNames == {FromString(feed[n].stream) : n \in Numbers("cached")}

\* What RepliesAreFed says of one reactor.
IsFed(r) ==
    /\ \A i \in DOMAIN r.series :
          \A k \in 1..Len(r.series[i].packets) :
              IsCached(ToString(r.request.streams[i].identifier),
                       r.series[i].packets[k])
    /\ r.listed \subseteq CachedNames

ReactorsAreFed ==
    /\ rpc = [c \in Client |-> rpc[c]]
    /\ \A c \in Client : /\ IsReactor(rpc[c])
                          /\ rpc[c].request \in Request \cup {Serving!Idle.request}
                          /\ IsFed(rpc[c])

\* What was cached stays on record.
LEMMA CachedStay ==
    ASSUME QueueInvariant, CacheInvariant, [Next]_vars
    PROVE  /\ \A s, packet : IsCached(s, packet) => IsCached(s, packet)'
           /\ CachedNames \subseteq CachedNames'
<1>1. Numbers("cached") \subseteq 1..Len(feed)
  BY CachedAreFed DEF QueueInvariant
<1>2. /\ Numbers("cached") \subseteq Numbers("cached")'
      /\ \A n \in Numbers("cached") : feed'[n] = feed[n]
  <2>1. CASE Elsewhere
    BY <1>1, <2>1, ElsewhereCachesNothing
  <2>2. CASE Add
    <3>1. work \in 1..Len(feed) /\ outcome[work] = "pending" /\ QueueTypeOK
      BY <2>2 DEF Add, QueueInvariant, QueueTypeOK, WorkIsPending
    <3> QED  BY <2>2, <3>1, OneSettles DEF Add
  <2>3. CASE Clean
    BY <2>3 DEF Clean, history, Numbers
  <2> QED  BY <2>1, <2>2, <2>3 DEF Next, Processor, Cleaner, Elsewhere
<1> QED  BY <1>2 DEF IsCached, CachedNames

\* A request that is answered has times in their order.
LEMMA AskedInOrder ==
    ASSUME ReactorsAreFed, NEW c \in Client, Serving!IsGood(c, FALSE)
    PROVE  LET q == rpc[c].request.streams[1]
           IN  q.start \in Int /\ q.end \in Int /\ q.start <= q.end
<1> DEFINE request == rpc[c].request
           streams == request.streams
           faults == {i \in 1..Len(streams) : Serving!Fault(streams[i]) # "none"}
           StreamRequest == [identifier : Identifier, hasTimes : BOOLEAN,
                             start : Int, end : Int]
<1>1. /\ request.method = "GetTimeSeries" /\ ~(Len(streams) > 1)
      /\ streams # <<>> /\ Serving!Verdict(request) = "none"
  BY DEF Serving!IsGood, Serving!Serves
<1>2. request # Serving!Idle.request
  BY <1>1 DEF Serving!Idle
<1>3. streams \in Seq(StreamRequest)
  BY <1>2, CacheAssumption DEF ReactorsAreFed
<1>4. Len(streams) = 1 /\ streams[1].start \in Int /\ streams[1].end \in Int
  <2> HIDE DEF streams
  <2>1. Len(streams) = 1
    <3> DEFINE n == Len(streams)
    <3>1. n \in Nat \ {0} /\ ~(n > 1)
      <4> HIDE DEF StreamRequest
      <4> QED  BY <1>1, <1>3, EmptySeq
    <3>2. n = 1
      <4> HIDE DEF n
      <4> QED  BY <3>1
    <3> QED  BY <3>2
  <2>2. streams[1] \in StreamRequest
    <3> HIDE DEF StreamRequest
    <3> QED  BY <1>3, <2>1
  <2> QED  BY <2>1, <2>2
<1>5. Serving!Fault(streams[1]) = "none"
  <2> SUFFICES ASSUME Serving!Fault(streams[1]) # "none"
               PROVE  FALSE
    OBVIOUS
  <2>1. faults = {1}
    <3> HIDE DEF streams
    <3> QED  BY <1>4
  <2>2. (CHOOSE i \in faults : \A j \in faults : i <= j) = 1
    <3> HIDE DEF faults
    <3> QED  BY <2>1
  <2>3. Serving!Verdict(request) =
            IF faults = {} THEN "none"
            ELSE Serving!Fault(streams[CHOOSE i \in faults : \A j \in faults : i <= j])
    BY DEF Serving!Verdict
  <2> HIDE DEF faults, streams, request
  <2> QED  BY <1>1, <2>1, <2>2, <2>3
<1>6. Serving!IsValid(streams[1])
  <2> HIDE DEF streams
  <2> QED  BY <1>5 DEF Serving!Fault
<1> QED  BY <1>4, <1>6 DEF Serving!IsValid

\* A reply has nothing that the map does not hold.
LEMMA ReplyIsHeld ==
    ASSUME CacheInvariant, NEW s, NEW qs \in Int, NEW qe \in Int, qs <= qe
    PROVE  LET reply == GetPacketsFromMap(s, qs, qe)
           IN  \A k \in 1..Len(reply) : s \in GetAvailableStreams /\ reply[k] \in HeldBy(s)
<1>1. CASE s \notin DOMAIN mStreamDequeMap
  BY <1>1 DEF GetPacketsFromMap
<1>2. CASE s \in DOMAIN mStreamDequeMap
  <2> DEFINE d == mStreamDequeMap[s]
             reply == GetPackets(d, qs, qe)
  <2>1. d \in Seq(Cachable) /\ Sorted(d)
    BY <1>2 DEF CacheInvariant, CacheTypeOK
  <2> HIDE DEF d
  <2>2. d \in Seq(Held(d)) /\ Timed(Held(d))
    BY <2>1, CachableIsTimed DEF Held, Timed
  <2>3. reply \in Seq(Held(d))
    BY <2>1, <2>2, ReplySorted
  <2> HIDE DEF reply
  <2>4. \A k \in 1..Len(reply) : reply[k] \in Held(d)
    BY <2>3
  <2> QED  BY <1>2, <2>4 DEF GetPacketsFromMap, GetAvailableStreams, HeldBy, reply, d
<1> QED  BY <1>1, <1>2

\* The step of one call replaces its reactor by one that is fed as well.
FeedsReactor(c, r) ==
    /\ IsReactor(r)
    /\ r.request \in Request \cup {Serving!Idle.request}
    /\ IsFed(r)
    /\ rpc' = [rpc EXCEPT ![c] = r]

\* A reactor that has no call yet, or none any more.
LEMMA IdleIsFed ==
    /\ IsReactor(Serving!Idle) /\ IsFed(Serving!Idle)
    /\ Serving!Idle.listed = {} /\ Serving!Idle.series = <<>>
<1>1. /\ Serving!Idle.listed = {} /\ Serving!Idle.series = <<>>
      /\ Serving!Idle \in [phase : {"idle"}, request : {Serving!Idle.request},
                           status : {"none"}, mSuccess : {FALSE},
                           listed : {{}}, series : {<<>>}]
  BY DEF Serving!Idle
<1>2. DOMAIN Serving!Idle.series = {}
  BY <1>1
<1>3. IsReactor(Serving!Idle)
  BY <1>1 DEF IsReactor
<1> QED  BY <1>1, <1>2, <1>3 DEF IsFed

\* A new call has no reply.
LEMMA CallFeeds ==
    ASSUME NEW c \in Client, NEW request \in Request, Serving!Call(c, request)
    PROVE  \E r : FeedsReactor(c, r)
<1> DEFINE r == [Serving!Idle EXCEPT !.phase = "new", !.request = request]
<1>1. /\ r.request = request /\ r.listed = {} /\ r.series = <<>>
      /\ r \in [phase : {"new"}, request : {request}, status : {"none"},
                mSuccess : {FALSE}, listed : {{}}, series : {<<>>}]
  BY DEF Serving!Idle
<1>2. rpc' = [rpc EXCEPT ![c] = r]
  BY DEF Serving!Call
<1> HIDE DEF r
<1>3. DOMAIN r.series = {}
  BY <1>1
<1>4. IsReactor(r)
  BY <1>1 DEF IsReactor
<1> QED  BY <1>1, <1>2, <1>3, <1>4 DEF FeedsReactor, IsFed

\* A call that fails is given no data.
LEMMA FailFeeds ==
    ASSUME ReactorsAreFed, NEW c \in Client, NEW status, NEW counter,
           Serving!Fail(c, status, counter)
    PROVE  \E r : FeedsReactor(c, r)
<1> DEFINE r == [rpc[c] EXCEPT !.phase = "answered", !.status = status]
           phases == {"answered"}
           results == {status}
<1>1. rpc' = [rpc EXCEPT ![c] = r]
  BY DEF Serving!Fail, ReactorsAreFed
<1>2. PICK P, Q, S, M, L, T : rpc[c] \in [phase : P, request : Q, status : S,
                                         mSuccess : M, listed : L, series : T]
  BY DEF ReactorsAreFed, IsReactor
<1>3. /\ r.request = rpc[c].request
      /\ r.listed = rpc[c].listed /\ r.series = rpc[c].series
      /\ r \in [phase : phases, request : Q, status : results,
                mSuccess : M, listed : L, series : T]
  BY <1>2
<1> HIDE DEF r, phases, results
<1>4. IsReactor(r)
  BY <1>3 DEF IsReactor
<1> QED  BY <1>1, <1>3, <1>4 DEF FeedsReactor, IsFed, ReactorsAreFed

\* The names listed are of streams that packets were cached for.
LEMMA ListFeeds ==
    ASSUME CacheInvariant, ReactorsAreFed, NEW c \in Client, Serving!ListAll(c)
    PROVE  \E r : FeedsReactor(c, r)
<1> DEFINE all == {Serving!FromString(s) : s \in Serving!GetAvailableStreams}
           r == [rpc[c] EXCEPT !.phase = "answered", !.status = "OK",
                               !.mSuccess = TRUE, !.listed = all]
           phases == {"answered"}
           results == {"OK"}
           truths == {TRUE}
           lists == {all}
<1>1. all \subseteq CachedNames
  BY SameNames DEF CacheInvariant, StreamsAreThoseCached, CachedNames,
                   GetAvailableStreams, Serving!GetAvailableStreams
<1>2. rpc' = [rpc EXCEPT ![c] = r]
  BY DEF Serving!ListAll, ReactorsAreFed
<1> HIDE DEF all
<1>3. PICK P, Q, S, M, L, T : rpc[c] \in [phase : P, request : Q, status : S,
                                         mSuccess : M, listed : L, series : T]
  BY DEF ReactorsAreFed, IsReactor
<1>4. /\ r.request = rpc[c].request
      /\ r.listed = all /\ r.series = rpc[c].series
      /\ r \in [phase : phases, request : Q, status : results,
                mSuccess : truths, listed : lists, series : T]
  BY <1>3
<1> HIDE DEF r, phases, results, truths, lists
<1>5. IsReactor(r)
  BY <1>4 DEF IsReactor
<1> QED  BY <1>1, <1>2, <1>4, <1>5 DEF FeedsReactor, IsFed, ReactorsAreFed

\* An answer whose packets are on record for the stream asked for.
LEMMA AnswerFeeds ==
    ASSUME ReactorsAreFed, NEW c \in Client, NEW series, NEW success \in BOOLEAN,
           Serving!Answer(c, series, success),
           \A i \in DOMAIN series : \A k \in 1..Len(series[i].packets) :
               IsCached(ToString(rpc[c].request.streams[i].identifier),
                        series[i].packets[k])
    PROVE  \E r : FeedsReactor(c, r)
<1> DEFINE r == [rpc[c] EXCEPT !.phase = "answered", !.status = "OK",
                               !.mSuccess = success, !.series = series]
           phases == {"answered"}
           results == {"OK"}
           truths == BOOLEAN
           replied == {series}
<1>1. rpc' = [rpc EXCEPT ![c] = r]
  BY DEF Serving!Answer, ReactorsAreFed
<1>2. PICK P, Q, S, M, L, T : rpc[c] \in [phase : P, request : Q, status : S,
                                         mSuccess : M, listed : L, series : T]
  BY DEF ReactorsAreFed, IsReactor
<1>3. /\ r.request = rpc[c].request
      /\ r.listed = rpc[c].listed /\ r.series = series
      /\ r \in [phase : phases, request : Q, status : results,
                mSuccess : truths, listed : L, series : replied]
  BY <1>2
<1> HIDE DEF r, phases, results, truths, replied
<1>4. IsReactor(r)
  BY <1>3 DEF IsReactor
<1> QED  BY <1>1, <1>3, <1>4 DEF FeedsReactor, IsFed, ReactorsAreFed

\* The packets of a reply were held by the deque, and those were delivered.
LEMMA AnswerOneFeeds ==
    ASSUME CacheInvariant, FeedInvariant, ReactorsAreFed,
           NEW c \in Client, Serving!AnswerOne(c)
    PROVE  \E r : FeedsReactor(c, r)
<1> DEFINE q == rpc[c].request.streams[1]
           s == ToString(q.identifier)
           reply == GetPacketsFromMap(s, q.start, q.end)
           series == Serving!Series(q.identifier, reply)
<1>1. Serving!IsGood(c, FALSE) /\ Serving!Answer(c, <<series>>, FALSE)
  BY SameNames, SameReplies DEF Serving!AnswerOne, Serving!Find
<1>2. q.start \in Int /\ q.end \in Int /\ q.start <= q.end
  BY <1>1, AskedInOrder
<1>3. \A k \in 1..Len(reply) : IsCached(s, reply[k])
  <2> HIDE DEF q, s
  <2>1. \A k \in 1..Len(reply) : s \in GetAvailableStreams /\ reply[k] \in HeldBy(s)
    BY <1>2, ReplyIsHeld
  <2> HIDE DEF reply
  <2> QED  BY <2>1 DEF FeedInvariant, HeldIsFed, IsCached
<1>4. \A k \in 1..Len(series.packets) : IsCached(s, series.packets[k])
  <2>1. series.packets = reply
    BY DEF Serving!Series, Serving!EmptySeries
  <2> HIDE DEF series, reply, s
  <2> QED  BY <1>3, <2>1
<1> HIDE DEF series
<1> DEFINE all == <<series>>
<1>5. \A i \in DOMAIN all : i = 1 /\ all[i] = series
  OBVIOUS
<1>6. Serving!Answer(c, all, FALSE)
  BY <1>1
<1> HIDE DEF all
<1>7. \A i \in DOMAIN all : \A k \in 1..Len(all[i].packets) :
          IsCached(ToString(rpc[c].request.streams[i].identifier),
                   all[i].packets[k])
  BY <1>4, <1>5
<1> HIDE DEF q, s, reply
<1> QED  BY <1>6, <1>7, AnswerFeeds

\* Every time series of the others is empty.
LEMMA AnswerManyFeeds ==
    ASSUME ReactorsAreFed, NEW c \in Client, Serving!AnswerMany(c)
    PROVE  \E r : FeedsReactor(c, r)
<1> DEFINE series == [i \in 1..Len(rpc[c].request.streams) |-> Serving!EmptySeries]
<1>1. Serving!Answer(c, series, TRUE)
  BY DEF Serving!AnswerMany
<1>2. \A i \in DOMAIN series : series[i].packets = <<>>
  BY DEF Serving!EmptySeries
<1> HIDE DEF series
<1>3. \A i \in DOMAIN series : Len(series[i].packets) = 0
  BY <1>2
<1>4. \A i \in DOMAIN series : \A k \in 1..Len(series[i].packets) :
          IsCached(ToString(rpc[c].request.streams[i].identifier),
                   series[i].packets[k])
  BY <1>3
<1> QED  BY <1>1, <1>4, AnswerFeeds

\* Each step of a reactor, by its kind.
LEMMA ServiceFeeds ==
    ASSUME CacheInvariant, FeedInvariant, ReactorsAreFed, ServiceStep
    PROVE  \E c \in Client : \E r : FeedsReactor(c, r)
<1>1. PICK c \in Client : \/ \E request \in Request : Serving!Call(c, request)
                         \/ Serving!Serve(c)
  BY DEF ServiceStep
<1>2. CASE \E request \in Request : Serving!Call(c, request)
  BY <1>2, CallFeeds
<1>3. CASE Serving!Deny(c) \/ Serving!Refuse(c)
  BY <1>3, FailFeeds DEF Serving!Deny, Serving!Refuse
<1>4. CASE Serving!ListStreams(c)
  BY <1>4, FailFeeds, ListFeeds DEF Serving!ListStreams
<1>5. CASE Serving!Throw(c) \/ Serving!Done(c)
  BY <1>5, IdleIsFed DEF Serving!Throw, Serving!Done, FeedsReactor
<1>6. CASE Serving!AnswerOne(c)
  BY <1>6, AnswerOneFeeds
<1>7. CASE Serving!AnswerMany(c)
  BY <1>7, AnswerManyFeeds
<1> QED  BY <1>1, <1>2, <1>3, <1>4, <1>5, <1>6, <1>7 DEF Serving!Serve

\* What a reply has stays on record while the import goes on.
LEMMA NextFeeds ==
    ASSUME QueueInvariant, CacheInvariant, FeedInvariant, ReactorsAreFed,
           [CacheNext]_cacheVars
    PROVE  ReactorsAreFed'
<1>1. /\ \A s, packet : IsCached(s, packet) => IsCached(s, packet)'
      /\ CachedNames \subseteq CachedNames'
  BY NextIsImport, CachedStay
<1>2. \A r : IsFed(r) => IsFed(r)'
  BY <1>1 DEF IsFed
<1>3. CASE ServiceStep
  <2>1. PICK c \in Client : \E r : FeedsReactor(c, r)
    BY <1>3, ServiceFeeds
  <2>2. PICK r : FeedsReactor(c, r)
    BY <2>1
  <2> QED  BY <1>2, <2>2 DEF FeedsReactor, ReactorsAreFed
<1>4. CASE UNCHANGED rpc
  BY <1>2, <1>4 DEF ReactorsAreFed
<1> QED  BY <1>3, <1>4 DEF CacheNext, ImportStep, serviceVars, cacheVars

\* The invariant of the replies, over those of the import.
LEMMA SpecReactors == CacheSpec => []ReactorsAreFed
<1>1. CacheInit => ReactorsAreFed
  BY IdleIsFed DEF CacheInit, Serving!Init, ReactorsAreFed
<1> QED  BY <1>1, NextFeeds, CacheImplementsImport, SpecQueue, SpecCache,
            SpecFeed, PTL DEF CacheSpec

\* Each packet of a reply was delivered and cached for the stream asked for,
\* and each stream listed has had a packet.
THEOREM RepliesComeFromFeed == CacheSpec => []RepliesAreFed
<1>1. ReactorsAreFed => RepliesAreFed
  BY DEF ReactorsAreFed, RepliesAreFed, IsFed, CachedNames
<1> QED  BY <1>1, SpecReactors, PTL

\* Whoever asks for the time of a packet that was cached and has not aged out
\* is given data that starts with it.
THEOREM FreshIsAnswered == CacheSpec => FreshDataIsAnswered
<1>1. ASSUME CachedDataIsServed, ReactorsAreFed, NEW c \in Client, Serving!AnswerOne(c),
             NEW n \in Numbers("cached"),
             feed[n].stream = ToString(rpc[c].request.streams[1].identifier),
             rpc[c].request.streams[1].start = feed[n].startTime,
             rpc[c].request.streams[1].end = feed[n].endTime,
             \A m \in SameStart(n) : feed[m].endTime >= latest - MaximumDuration
      PROVE  \E r \in Held((rpc[c].series[1].packets)') :
                 r.startTime = feed[n].startTime
  <2> DEFINE q == rpc[c].request.streams[1]
             reply == GetPacketsFromMap(feed[n].stream, feed[n].startTime,
                                        feed[n].endTime)
             series == Serving!Series(q.identifier, reply)
  <2>1. \E r \in Held(reply) : r.startTime = feed[n].startTime
    BY <1>1 DEF CachedDataIsServed
  <2>2. Serving!Answer(c, <<series>>, FALSE)
    BY <1>1, SameNames, SameReplies DEF Serving!AnswerOne, Serving!Find
  <2>3. series.packets = reply
    BY DEF Serving!Series, Serving!EmptySeries
  <2> HIDE DEF series, reply
  <2>4. rpc'[c].series = <<series>>
    <3>1. PICK P, Q, S, M, L, T : rpc[c] \in [phase : P, request : Q, status : S,
                                             mSuccess : M, listed : L, series : T]
      BY <1>1 DEF ReactorsAreFed, IsReactor
    <3> DEFINE r == [rpc[c] EXCEPT !.phase = "answered", !.status = "OK",
                                   !.mSuccess = FALSE, !.series = <<series>>]
    <3>2. rpc' = [rpc EXCEPT ![c] = r]
      BY <1>1, <2>2 DEF Serving!Answer, ReactorsAreFed
    <3>3. r.series = <<series>>
      BY <3>1
    <3> HIDE DEF r
    <3> QED  BY <1>1, <3>2, <3>3 DEF ReactorsAreFed
  <2>5. rpc'[c].series[1].packets = reply
    BY <2>3, <2>4
  <2> QED  BY <2>1, <2>5
<1>2. CachedDataIsServed /\ ReactorsAreFed
          => \A c \in Client : Serving!AnswerOne(c) =>
                LET q == rpc[c].request.streams[1]
                IN  \A n \in Numbers("cached") :
                       /\ feed[n].stream = ToString(q.identifier)
                       /\ q.start = feed[n].startTime
                       /\ q.end = feed[n].endTime
                       /\ \A m \in SameStart(n) :
                              feed[m].endTime >= latest - MaximumDuration
                       => \E r \in Held((rpc[c].series[1].packets)') :
                             r.startTime = feed[n].startTime
  BY <1>1
<1> QED  BY <1>2, CacheImplementsImport, CachedIsServed, SpecReactors, PTL
         DEF FreshDataIsAnswered

-----------------------------------------------------------------------------
(* What was proved of the service alone holds over the real import.        *)

Reactors == INSTANCE ServiceProofs
                WITH Packet <- {p \in Packet : p.quality = "good"},
                     Instant <- (0 - MaxSetBack - MaximumDuration)
                                    ..(MaxClock - MaximumDuration),
                     metrics <- replies

\* What Service assumes of its constants is true of this instance.
LEMMA ReactorsAssumption == Reactors!ServiceAssumption
<1>1. (0 - MaxSetBack - MaximumDuration)..(MaxClock - MaximumDuration) \subseteq Int
  BY ImportAssumption
<1>2. Reactors!Identifier = Identifier
  BY DEF Reactors!Identifier, Identifier
<1>3. \A identifier :
         Reactors!ToStringRefuses(identifier) <=> ToStringRefuses(identifier)
  BY DEF Reactors!ToStringRefuses, ToStringRefuses, Reactors!Unset, Unset,
         Reactors!Empty, Empty
<1>4. \A p \in {p \in Packet : p.quality = "good"} :
         /\ p.startTime \in Int /\ p.endTime \in Int
         /\ p.startTime <= p.endTime
         /\ p.identifier \in Identifier
         /\ ~ToStringRefuses(p.identifier)
  BY ImportAssumption, CacheAssumption
<1>5. /\ TokenRequired \in BOOLEAN /\ MaxCalls \in Nat
      /\ \A r \in Request : r.streams \in
            Seq([identifier : Identifier, hasTimes : BOOLEAN, start : Int, end : Int])
  BY CacheAssumption
<1> QED  BY <1>1, <1>2, <1>3, <1>4, <1>5 DEF Reactors!ServiceAssumption

\* Both instances have the same state machine.
LEMMA SameInit ==
    /\ Serving!Init <=> Reactors!Init
    /\ Serving!vars = Reactors!vars
BY DEF Serving!Init, Reactors!Init, Serving!Idle, Reactors!Idle,
       Serving!vars, Reactors!vars

\* ... over the map, ...
LEMMA SameMap ==
    /\ \A p : Serving!Import(p) <=> Reactors!Import(p)
    /\ \A t : Serving!Expire(t) <=> Reactors!Expire(t)
    /\ \A q : Serving!Find(q) = Reactors!Find(q)
<1> USE DEF Serving!Back, Reactors!Back,
            Serving!StartsAtOrAfter, Reactors!StartsAtOrAfter
<1>0. \A identifier : Serving!ToString(identifier) = Reactors!ToString(identifier)
  BY DEF Serving!ToString, Reactors!ToString, Serving!Location, Reactors!Location,
         Serving!Unset, Reactors!Unset, Serving!Empty, Reactors!Empty
<1>1. \A p : Serving!Import(p) <=> Reactors!Import(p)
  <2>1. \A d, p, max : Serving!Added(d, p, max) = Reactors!Added(d, p, max)
    <3>1. \A d, it, p, max : Serving!InsertBefore(d, it, p, max)
                                = Reactors!InsertBefore(d, it, p, max)
      BY DEF Serving!InsertBefore, Reactors!InsertBefore,
             Serving!IsFull, Reactors!IsFull
    <3>2. \A d, p, max :
             /\ Serving!PushBack(d, p, max) = Reactors!PushBack(d, p, max)
             /\ Serving!IsNewest(d, p) <=> Reactors!IsNewest(d, p)
             /\ Serving!IsSkippedAtFront(d, p, max)
                   <=> Reactors!IsSkippedAtFront(d, p, max)
             /\ Serving!IsFull(d, max) <=> Reactors!IsFull(d, max)
      BY DEF Serving!PushBack, Reactors!PushBack, Serving!IsNewest, Reactors!IsNewest,
             Serving!IsFull, Reactors!IsFull,
             Serving!IsSkippedAtFront, Reactors!IsSkippedAtFront
    <3> QED  BY <3>1, <3>2 DEF Serving!Added, Reactors!Added
  <2>2. \A q : Serving!AddToMap(q) <=> Reactors!AddToMap(q)
    BY <2>1 DEF Serving!AddToMap, Reactors!AddToMap, Serving!Throws, Reactors!Throws,
                Serving!Converted, Reactors!Converted
  <2> QED  BY <1>0, <2>2 DEF Serving!Import, Reactors!Import
<1>2. \A t : Serving!Expire(t) <=> Reactors!Expire(t)
  BY DEF Serving!Expire, Reactors!Expire,
         Serving!RemoveExpiredFromMap, Reactors!RemoveExpiredFromMap,
         Serving!Unexpired, Reactors!Unexpired,
         Serving!SubsequenceAt, Reactors!SubsequenceAt, Serving!Rank, Reactors!Rank,
         Serving!Cardinality, Reactors!Cardinality
<1>3. \A q : Serving!Find(q) = Reactors!Find(q)
  <2>1. \A d, qs, qe : Serving!GetPackets(d, qs, qe) = Reactors!GetPackets(d, qs, qe)
    BY DEF Serving!GetPackets, Reactors!GetPackets,
           Serving!FirstMatch, Reactors!FirstMatch, Serving!EndMatch, Reactors!EndMatch,
           Serving!CopiedUpTo, Reactors!CopiedUpTo,
           Serving!StartsAfter, Reactors!StartsAfter
  <2> QED  BY <1>0, <2>1 DEF Serving!Find, Reactors!Find,
              Serving!GetPacketsFromMap, Reactors!GetPacketsFromMap
<1> QED  BY <1>1, <1>2, <1>3

\* ... with the same checks of a request ...
LEMMA SameChecks ==
    /\ \A q : Serving!IsValid(q) <=> Reactors!IsValid(q)
    /\ \A identifier : /\ Serving!ToStringRefuses(identifier)
                             <=> Reactors!ToStringRefuses(identifier)
                       /\ Serving!HasBlankPart(identifier)
                             <=> Reactors!HasBlankPart(identifier)
                       /\ Serving!ToString(identifier) = Reactors!ToString(identifier)
    /\ \A request : Serving!Verdict(request) = Reactors!Verdict(request)
    /\ Serving!GetAvailableStreams = Reactors!GetAvailableStreams
<1>1. \A q : Serving!IsValid(q) <=> Reactors!IsValid(q)
  BY DEF Serving!IsValid, Reactors!IsValid, Serving!Unset, Reactors!Unset
<1>2. \A identifier : /\ Serving!ToStringRefuses(identifier)
                            <=> Reactors!ToStringRefuses(identifier)
                      /\ Serving!HasBlankPart(identifier)
                            <=> Reactors!HasBlankPart(identifier)
                      /\ Serving!ToString(identifier) = Reactors!ToString(identifier)
  BY DEF Serving!ToStringRefuses, Reactors!ToStringRefuses,
         Serving!HasBlankPart, Reactors!HasBlankPart,
         Serving!ToString, Reactors!ToString, Serving!Location, Reactors!Location,
         Serving!Unset, Reactors!Unset, Serving!Empty, Reactors!Empty
<1>3. \A request : Serving!Verdict(request) = Reactors!Verdict(request)
  BY DEF Serving!Verdict, Reactors!Verdict, Serving!Fault, Reactors!Fault,
         Serving!IsValid, Reactors!IsValid,
         Serving!ToStringRefuses, Reactors!ToStringRefuses,
         Serving!Unset, Reactors!Unset, Serving!Empty, Reactors!Empty
<1>4. Serving!GetAvailableStreams = Reactors!GetAvailableStreams
  BY DEF Serving!GetAvailableStreams, Reactors!GetAvailableStreams
<1> QED  BY <1>1, <1>2, <1>3, <1>4

\* ... and the same reactors, ...
LEMMA SameReactors ==
    \A c \in Client :
        /\ \A request \in Request : Serving!Call(c, request) <=> Reactors!Call(c, request)
        /\ Serving!Serve(c) <=> Reactors!Serve(c)
<1> SUFFICES ASSUME NEW c \in Client
             PROVE  /\ \A request \in Request :
                          Serving!Call(c, request) <=> Reactors!Call(c, request)
                    /\ Serving!Serve(c) <=> Reactors!Serve(c)
  OBVIOUS
<1>1. \A request : Serving!Call(c, request) <=> Reactors!Call(c, request)
  BY DEF Serving!Call, Reactors!Call, Serving!Idle, Reactors!Idle
<1>2. \A method : Serving!Serves(c, method) <=> Reactors!Serves(c, method)
  BY DEF Serving!Serves, Reactors!Serves, Serving!IsDenied, Reactors!IsDenied
<1>3. \A status, counter :
         Serving!Fail(c, status, counter) <=> Reactors!Fail(c, status, counter)
  BY DEF Serving!Fail, Reactors!Fail
<1>4. /\ Serving!Deny(c) <=> Reactors!Deny(c)
      /\ Serving!Refuse(c) <=> Reactors!Refuse(c)
  BY <1>2, <1>3, SameChecks DEF Serving!Deny, Reactors!Deny, Serving!Refuse,
     Reactors!Refuse, Serving!IsDenied, Reactors!IsDenied
<1>5. Serving!ListStreams(c) <=> Reactors!ListStreams(c)
  <2>1. Serving!ListAll(c) <=> Reactors!ListAll(c)
    BY DEF Serving!ListAll, Reactors!ListAll, Serving!FromString, Reactors!FromString,
           Serving!GetAvailableStreams, Reactors!GetAvailableStreams
  <2>2. Serving!ListRefuses <=> Reactors!ListRefuses
    BY DEF Serving!ListRefuses, Reactors!ListRefuses,
           Serving!FromStringRefuses, Reactors!FromStringRefuses,
           Serving!GetAvailableStreams, Reactors!GetAvailableStreams
  <2> QED  BY <1>2, <1>3, <2>1, <2>2 DEF Serving!ListStreams, Reactors!ListStreams
<1>6. Serving!Throw(c) <=> Reactors!Throw(c)
  BY <1>2, SameChecks
     DEF Serving!Throw, Reactors!Throw, Serving!Idle, Reactors!Idle
<1>7. \A size : Serving!IsGood(c, size) <=> Reactors!IsGood(c, size)
  BY <1>2, SameChecks DEF Serving!IsGood, Reactors!IsGood
<1>8. \A series, success :
         Serving!Answer(c, series, success) <=> Reactors!Answer(c, series, success)
  BY DEF Serving!Answer, Reactors!Answer
<1>9. Serving!AnswerOne(c) <=> Reactors!AnswerOne(c)
  <2>1. \A identifier, packets :
           Serving!Series(identifier, packets) = Reactors!Series(identifier, packets)
    BY DEF Serving!Series, Reactors!Series, Serving!EmptySeries, Reactors!EmptySeries
  <2> QED  BY <1>7, <1>8, <2>1, SameMap DEF Serving!AnswerOne, Reactors!AnswerOne
<1>10. Serving!AnswerMany(c) <=> Reactors!AnswerMany(c)
  BY <1>7, <1>8 DEF Serving!AnswerMany, Reactors!AnswerMany,
                    Serving!EmptySeries, Reactors!EmptySeries
<1>11. Serving!Done(c) <=> Reactors!Done(c)
  BY DEF Serving!Done, Reactors!Done, Serving!Decremented, Reactors!Decremented,
         Serving!Idle, Reactors!Idle
<1> QED  BY <1>1, <1>4, <1>5, <1>6, <1>9, <1>10, <1>11
         DEF Serving!Serve, Reactors!Serve

\* ... and so the same steps.
LEMMA SameService == [Serving!Next]_(Serving!vars) <=> [Reactors!Next]_(Reactors!vars)
<1> DEFINE Packets == {p \in Packet : p.quality = "good"}
           Instants == (0 - MaxSetBack - MaximumDuration)..(MaxClock - MaximumDuration)
<1>1. /\ (\E p \in Packets : Serving!Import(p)) <=> \E p \in Packets : Reactors!Import(p)
      /\ (\E t \in Instants : Serving!Expire(t)) <=> \E t \in Instants : Reactors!Expire(t)
  <2> HIDE DEF Packets, Instants
  <2> QED  BY SameMap
<1>2. (\E c \in Client : \/ \E request \in Request : Serving!Call(c, request)
                         \/ Serving!Serve(c))
      <=> \E c \in Client : \/ \E request \in Request : Reactors!Call(c, request)
                            \/ Reactors!Serve(c)
  BY SameReactors
<1>3. Serving!Next <=> Reactors!Next
  BY <1>1, <1>2 DEF Serving!Next, Reactors!Next
<1> QED  BY <1>3 DEF Serving!vars, Reactors!vars

\* ... and the same properties.
LEMMA SameProperties ==
    ASSUME Reactors!ServiceInvariant
    PROVE  ServiceIsCorrect
<1>1. /\ Reactors!TypeOK
      /\ Reactors!ClientsAccounted
      /\ Reactors!EveryCallCounted
      /\ Reactors!SeriesPerRequest
      /\ Reactors!SeriesSorted
      /\ Reactors!ListedStreamsCanBeAsked
  BY ReactorsAssumption, NamesAssumption, MaximumAssumption,
     Reactors!ServiceTypes, Reactors!ServiceSafety
<1>2. Serving!TypeOK
  BY <1>1 DEF Serving!TypeOK, Reactors!TypeOK
<1>3. Serving!ClientsAccounted /\ Serving!EveryCallCounted
  BY <1>1 DEF Serving!ClientsAccounted, Reactors!ClientsAccounted,
              Serving!EveryCallCounted, Reactors!EveryCallCounted,
              Serving!InPhase, Reactors!InPhase,
              Serving!Cardinality, Reactors!Cardinality
<1>4. Serving!SeriesPerRequest /\ Serving!SeriesSorted
  <2>1. Serving!SeriesPerRequest <=> Reactors!SeriesPerRequest
    BY DEF Serving!SeriesPerRequest, Reactors!SeriesPerRequest
  <2>2. \A packets : Serving!Sorted(packets) <=> Reactors!Sorted(packets)
    BY DEF Serving!Sorted, Reactors!Sorted, Serving!Precedes, Reactors!Precedes
  <2>3. \A p, qs, qe :
           Serving!HasDataBetween(p, qs, qe) <=> Reactors!HasDataBetween(p, qs, qe)
    BY DEF Serving!HasDataBetween, Reactors!HasDataBetween
  <2>4. Serving!SeriesSorted <=> Reactors!SeriesSorted
    BY <2>2, <2>3, Zenon DEF Serving!SeriesSorted, Reactors!SeriesSorted
  <2> QED  BY <1>1, <2>1, <2>4
<1>5. Serving!ListedStreamsCanBeAsked
  BY <1>1, SameChecks
     DEF Serving!ListedStreamsCanBeAsked, Reactors!ListedStreamsCanBeAsked
<1> QED  BY <1>2, <1>3, <1>4, <1>5 DEF ServiceIsCorrect

\* Over the real import, too, the gauge of clients and the counters are right,
\* replies are sorted and answer what was asked, and what is listed can be
\* asked for.
THEOREM ServiceIsUndisturbed == CacheSpec => []ServiceIsCorrect
<1>1. Reactors!Init /\ [][Reactors!Next]_(Reactors!vars) => []Reactors!ServiceInvariant
  BY ReactorsAssumption, NamesAssumption, MaximumAssumption, Reactors!SafeService, PTL
<1> QED  BY <1>1, CacheImplementsService, SameInit, SameService, SameProperties, PTL
         DEF ImportServes
=============================================================================
