--------------------------- MODULE ServiceProofs ---------------------------
(***************************************************************************)
(* Proofs about Service, for any number of calls in progress, any requests *)
(* and any packets: every call is counted once, the gauge of clients loses *)
(* only what an exception takes with it, and what a reply contains.        *)
(***************************************************************************)
EXTENDS Service, PacketDequeLemmas

-----------------------------------------------------------------------------
(* The names of streams                                                    *)

\* The names that toString makes: a piece for each part at least.
IsName(name) ==
    /\ name \in Seq(Piece)
    /\ Len(name) >= 4
    /\ \A i \in 1..Len(name) : Canonical[name[i]] = name[i]

\* toString does not refuse an identifier whose first parts have text, and
\* puts "--" for a location that has none.
LEMMA ToStringNames ==
    ASSUME NEW identifier \in Identifier, ~ToStringRefuses(identifier)
    PROVE  IsName(ToString(identifier))
<1> DEFINE a == identifier.network
           b == identifier.station
           c == identifier.channel
           d == Location(identifier)
           name == a \o b \o c \o d
<1>1. a \in Seq(Piece) /\ b \in Seq(Piece) /\ c \in Seq(Piece) /\ d \in Seq(Piece)
  <2>1. <<"--">> \in Seq(Piece)
    <3>1. "--" \in Piece
      BY NamesAssumption
    <3>2. \A piece \in Piece : <<piece>> \in Seq(Piece)
      OBVIOUS
    <3> QED  BY <3>1, <3>2
  <2> QED  BY <2>1 DEF Identifier, Location
<1>2. a # <<>> /\ b # <<>> /\ c # <<>> /\ d # <<>>
  <2>1. /\ identifier["network"] # Unset
        /\ identifier["station"] # Unset
        /\ identifier["channel"] # Unset
    BY DEF ToStringRefuses
  <2>2. Location(identifier) # <<>>
    BY DEF Location, Unset
  <2> QED  BY <2>1, <2>2 DEF Unset
<1> HIDE DEF a, b, c, d
<1>3. name \in Seq(Piece) /\ Len(name) = Len(a) + Len(b) + Len(c) + Len(d)
  <2>1. a \o b \in Seq(Piece) /\ Len(a \o b) = Len(a) + Len(b)
    BY <1>1
  <2>2. a \o b \o c \in Seq(Piece) /\ Len(a \o b \o c) = Len(a \o b) + Len(c)
    BY <1>1, <2>1
  <2> QED  BY <1>1, <2>1, <2>2
<1>4. Len(name) \in Nat /\ Len(name) >= 4
  <2>1. /\ Len(a) \in Nat \ {0} /\ Len(b) \in Nat \ {0}
        /\ Len(c) \in Nat \ {0} /\ Len(d) \in Nat \ {0}
    BY <1>1, <1>2, EmptySeq
  <2> QED  BY <1>3, <2>1
<1>5. ToString(identifier) = [i \in 1..Len(name) |-> Canonical[name[i]]]
  BY DEF ToString, a, b, c, d
<1> HIDE DEF name
<1>6. \A i \in 1..Len(name) : name[i] \in Piece
  BY <1>3
<1>7. \A i \in 1..Len(name) : /\ Canonical[name[i]] \in Piece
                              /\ Canonical[Canonical[name[i]]] = Canonical[name[i]]
  BY <1>6, NamesAssumption
<1>8. ToString(identifier) \in Seq(Piece) /\ Len(ToString(identifier)) = Len(name)
  BY <1>4, <1>5, <1>7, IsASeq
<1> QED  BY <1>4, <1>5, <1>7, <1>8 DEF IsName

\* A text of a single piece adds that piece to a name.
LEMMA JoinedPiece ==
    ASSUME NEW P, NEW s \in Seq(P), NEW a \in P
    PROVE  /\ s \o <<a>> \in Seq(P)
           /\ Len(s \o <<a>>) = Len(s) + 1
           /\ \A i \in 1..Len(s) : (s \o <<a>>)[i] = s[i]
           /\ (s \o <<a>>)[Len(s) + 1] = a
BY AppendIsConcat, AppendProperties

\* Four such texts make a name of four pieces.
LEMMA JoinedPieces ==
    ASSUME NEW P, NEW a \in P, NEW b \in P, NEW c \in P, NEW d \in P
    PROVE  <<a>> \o <<b>> \o <<c>> \o <<d>> = <<a, b, c, d>>
<1> DEFINE ab == <<a>> \o <<b>>
           abc == ab \o <<c>>
           abcd == abc \o <<d>>
<1>1. ab \in Seq(P) /\ Len(ab) = 2 /\ ab[1] = a /\ ab[2] = b
  <2>1. <<a>> \in Seq(P) /\ Len(<<a>>) = 1 /\ <<a>>[1] = a
    OBVIOUS
  <2> QED  BY <2>1, JoinedPiece
<1> HIDE DEF ab
<1>2. abc \in Seq(P) /\ Len(abc) = 3 /\ abc[1] = a /\ abc[2] = b /\ abc[3] = c
  <2>1. /\ abc \in Seq(P) /\ Len(abc) = Len(ab) + 1
        /\ \A i \in 1..Len(ab) : abc[i] = ab[i]
        /\ abc[Len(ab) + 1] = c
    <3>1. ab \in Seq(P)
      BY <1>1
    <3> QED  BY <3>1, JoinedPiece
  <2> HIDE DEF abc
  <2> QED  BY <1>1, <2>1
<1> HIDE DEF abc
<1>3. /\ abcd \in Seq(P) /\ Len(abcd) = 4
      /\ abcd[1] = a /\ abcd[2] = b /\ abcd[3] = c /\ abcd[4] = d
  <2>1. /\ abcd \in Seq(P) /\ Len(abcd) = Len(abc) + 1
        /\ \A i \in 1..Len(abc) : abcd[i] = abc[i]
        /\ abcd[Len(abc) + 1] = d
    <3>1. abc \in Seq(P)
      BY <1>2
    <3> QED  BY <3>1, JoinedPiece
  <2> HIDE DEF abcd
  <2> QED  BY <1>2, <2>1
<1> HIDE DEF abcd
<1>4. abcd = <<abcd[1], abcd[2], abcd[3], abcd[4]>>
  BY <1>3
<1> QED  BY <1>3, <1>4 DEF abcd, abc, ab

\* A name that can be taken apart gives an identifier that toString maps to
\* the same name, unless one of its pieces is empty.
LEMMA FromStringNames ==
    ASSUME NEW name, IsName(name), ~FromStringRefuses(name)
    PROVE  LET identifier == FromString(name)
           IN  /\ identifier \in Identifier
               /\ ~HasBlankPart(identifier) =>
                     /\ \A part \in {"network", "station", "channel", "location"} :
                           identifier[part] # Unset
                     /\ ~ToStringRefuses(identifier)
                     /\ ToString(identifier) = name
<1> DEFINE identifier == FromString(name)
<1>1. /\ Len(name) = 4 /\ name \in Seq(Piece)
      /\ name[1] \in Piece /\ name[2] \in Piece
      /\ name[3] \in Piece /\ name[4] \in Piece
  BY DEF FromStringRefuses, IsName
<1>2. identifier = [network |-> <<name[1]>>, station |-> <<name[2]>>,
                    channel |-> <<name[3]>>, location |-> <<name[4]>>]
  BY <1>1 DEF FromString
<1> HIDE DEF identifier
<1>3. identifier \in Identifier
  <2>1. \A piece \in Piece : <<piece>> \in Seq(Piece)
    OBVIOUS
  <2> QED  BY <1>1, <1>2, <2>1 DEF Identifier
<1>4. ASSUME ~HasBlankPart(identifier)
      PROVE  /\ \A part \in {"network", "station", "channel", "location"} :
                   identifier[part] # Unset
             /\ ~ToStringRefuses(identifier)
             /\ ToString(identifier) = name
  <2>1. \A piece : <<piece>> # <<>>
    OBVIOUS
  <2>2. \A part \in {"network", "station", "channel", "location"} :
           identifier[part] # Unset /\ identifier[part] # Empty
    <3>1. /\ identifier["network"] = <<name[1]>>
          /\ identifier["station"] = <<name[2]>>
          /\ identifier["channel"] = <<name[3]>>
          /\ identifier["location"] = <<name[4]>>
      BY <1>2
    <3> QED  BY <1>4, <2>1, <3>1 DEF HasBlankPart, Unset
  <2>3. ~ToStringRefuses(identifier)
    BY <2>2 DEF ToStringRefuses
  <2>4. Location(identifier) = <<name[4]>>
    BY <1>2, <2>2 DEF Location
  <2>5. <<name[1]>> \o <<name[2]>> \o <<name[3]>> \o <<name[4]>>
           = <<name[1], name[2], name[3], name[4]>>
    BY <1>1, JoinedPieces
  <2>6. name = <<name[1], name[2], name[3], name[4]>>
    BY <1>1
  <2>7. ToString(identifier) = [i \in 1..Len(name) |-> Canonical[name[i]]]
    BY <1>2, <2>4, <2>5, <2>6 DEF ToString
  <2>8. ToString(identifier) = [i \in 1..Len(name) |-> name[i]]
    BY <2>7 DEF IsName
  <2>9. name = [i \in 1..Len(name) |-> name[i]]
    BY <1>1
  <2> QED  BY <2>2, <2>3, <2>8, <2>9
<1> QED  BY <1>3, <1>4 DEF identifier

-----------------------------------------------------------------------------
(* The map                                                                 *)

\* What Utilities::convert makes of the packets.
Cachable == {Converted(p) : p \in Packet}

MapOK ==
    \A s \in DOMAIN mStreamDequeMap :
        /\ mStreamDequeMap[s] \in Seq(Cachable)
        /\ Sorted(mStreamDequeMap[s])
        /\ Len(mStreamDequeMap[s]) <= MaximumNumberOfPackets
        /\ IsName(s)

LEMMA CachableIsTimed ==
    /\ Timed(Cachable)
    /\ \A p \in Packet : Converted(p) \in Cachable
BY ServiceAssumption DEF Cachable, Converted, Timed

\* A packet is imported under a name that toString made.
LEMMA ImportMap ==
    ASSUME MapOK, NEW p \in Packet, Import(p)
    PROVE  /\ MapOK'
           /\ DOMAIN mStreamDequeMap \subseteq DOMAIN mStreamDequeMap'
<1> DEFINE name == ToString(p.identifier)
           old == IF name \in DOMAIN mStreamDequeMap
                  THEN mStreamDequeMap[name] ELSE <<>>
           new == Added(old, Converted(p), MaximumNumberOfPackets)
<1>1. mStreamDequeMap' =
          [s \in DOMAIN mStreamDequeMap \cup {name} |->
              IF s = name THEN new ELSE mStreamDequeMap[s]]
  BY DEF Import, AddToMap, Throws, Converted
<1>2. IsName(name)
  BY ServiceAssumption, ToStringNames
<1>3. MaximumNumberOfPackets \in Nat \ {0}
  BY MaximumAssumption
<1>4. /\ old \in Seq(Cachable) /\ Sorted(old)
      /\ Len(old) <= MaximumNumberOfPackets
  <2>1. CASE name \in DOMAIN mStreamDequeMap
    BY <2>1 DEF MapOK
  <2>2. CASE name \notin DOMAIN mStreamDequeMap
    <3>1. old = <<>>
      BY <2>2
    <3>2. <<>> \in Seq(Cachable) /\ Sorted(<<>>) /\ Len(<<>>) = 0
      BY DEF Sorted
    <3> HIDE DEF old
    <3> QED  BY <1>3, <3>1, <3>2
  <2> QED  BY <2>1, <2>2
<1> HIDE DEF name, old
<1>5. /\ new \in Seq(Cachable) /\ Sorted(new)
      /\ Len(new) <= MaximumNumberOfPackets
  BY <1>3, <1>4, CachableIsTimed, AddedProperty
<1> HIDE DEF new
<1> QED  BY <1>1, <1>2, <1>5 DEF MapOK

\* Expiry leaves subsequences and forgets no stream.
LEMMA ExpireMap ==
    ASSUME MapOK, NEW t \in Instant, Expire(t)
    PROVE  /\ MapOK'
           /\ DOMAIN mStreamDequeMap \subseteq DOMAIN mStreamDequeMap'
<1>1. /\ DOMAIN mStreamDequeMap' = DOMAIN mStreamDequeMap
      /\ \A s \in DOMAIN mStreamDequeMap :
            mStreamDequeMap'[s] = Unexpired(mStreamDequeMap[s], t)
      /\ t \in Int
  BY ServiceAssumption DEF Expire, RemoveExpiredFromMap
<1>2. ASSUME NEW s \in DOMAIN mStreamDequeMap
      PROVE  /\ mStreamDequeMap'[s] \in Seq(Cachable)
             /\ Sorted(mStreamDequeMap'[s])
             /\ Len(mStreamDequeMap'[s]) <= MaximumNumberOfPackets
  <2> DEFINE d == mStreamDequeMap[s]
             e == Unexpired(d, t)
  <2>1. d \in Seq(Cachable) /\ Sorted(d) /\ Len(d) <= MaximumNumberOfPackets
    BY DEF MapOK
  <2> HIDE DEF d
  <2>2. e \in Seq(Cachable) /\ Len(e) <= Len(d) /\ Sorted(e)
    BY <1>1, <2>1, CachableIsTimed, UnexpiredProperty
  <2> HIDE DEF e
  <2>3. Len(e) \in Nat /\ Len(d) \in Nat /\ MaximumNumberOfPackets \in Nat
    BY <2>1, <2>2, MaximumAssumption
  <2>4. mStreamDequeMap'[s] = e
    BY <1>1 DEF d, e
  <2> QED  BY <2>1, <2>2, <2>3, <2>4
<1> QED  BY <1>1, <1>2 DEF MapOK

-----------------------------------------------------------------------------
(* The reactors                                                            *)

Statuses == {"none", "OK", "UNAUTHENTICATED", "INVALID_ARGUMENT", "INTERNAL"}

TimeSeries == [identifier : SUBSET Identifier, packets : Seq(Cachable)]

Reactor ==
    [phase : {"idle", "new", "answered"},
     request : Request \cup {Idle.request},
     status : Statuses,
     mSuccess : BOOLEAN,
     listed : SUBSET Identifier,
     series : Seq(TimeSeries)]

\* A time series answers its stream request.
Answers(series, q) ==
    /\ series.packets # <<>> => series.identifier = {q.identifier}
    /\ Sorted(series.packets)
    /\ \/ \A k \in 1..Len(series.packets) :
             HasDataBetween(series.packets[k], q.start, q.end)
       \/ Len(series.packets) = 1 /\ q.end < series.packets[1].startTime

\* What a reactor holds agrees with its request and with how far it is.
ReactorOK(r) ==
    /\ r.phase = "new" => r.request \in Request
    /\ r.phase # "answered" => /\ r.status = "none" /\ r.mSuccess = FALSE
                               /\ r.listed = {} /\ r.series = <<>>
    /\ r.phase = "answered" => r.status # "none"
    /\ r.mSuccess => r.status = "OK"
    /\ r.status = "OK" /\ r.request.method = "GetTimeSeries" =>
          Len(r.series) = Len(r.request.streams)
    /\ \A i \in 1..Len(r.series) : Answers(r.series[i], r.request.streams[i])

\* What fromString has made of a name that the map still has.
Askable(identifier) ==
    ~HasBlankPart(identifier) =>
        /\ \A part \in {"network", "station", "channel", "location"} :
              identifier[part] # Unset
        /\ ~ToStringRefuses(identifier)
        /\ ToString(identifier) \in DOMAIN mStreamDequeMap

ReactorsOK ==
    /\ rpc \in [Client -> Reactor]
    /\ \A c \in Client : ReactorOK(rpc[c])
    /\ \A c \in Client : \A identifier \in rpc[c].listed : Askable(identifier)

\* The step of one call replaces its reactor and leaves the others alone.
Becomes(c, r) ==
    /\ r \in Reactor
    /\ ReactorOK(r)
    /\ \A identifier \in r.listed : Askable(identifier)
    /\ rpc' = [rpc EXCEPT ![c] = r]
    /\ UNCHANGED mStreamDequeMap

LEMMA OneReactor ==
    ASSUME ReactorsOK, NEW c \in Client, NEW r, Becomes(c, r)
    PROVE  /\ ReactorsOK'
           /\ rpc'[c] = r
           /\ \A x \in Client : x # c => rpc'[x] = rpc[x]
<1>1. /\ rpc' \in [Client -> Reactor]
      /\ rpc'[c] = r
      /\ \A x \in Client : x # c => rpc'[x] = rpc[x]
  BY DEF ReactorsOK, Becomes
<1>2. \A x \in Client : ReactorOK(rpc'[x])
  BY <1>1 DEF ReactorsOK, Becomes
<1>3. \A identifier : Askable(identifier)' = Askable(identifier)
  BY DEF Askable, Becomes
<1>4. \A x \in Client : \A identifier \in rpc'[x].listed : Askable(identifier)
  BY <1>1 DEF ReactorsOK, Becomes
<1> QED  BY <1>1, <1>2, <1>3, <1>4 DEF ReactorsOK

\* A reactor's type, and what it agrees with.
LEMMA ReactorParts ==
    ASSUME ReactorsOK, NEW c \in Client
    PROVE  /\ rpc[c] \in Reactor /\ ReactorOK(rpc[c])
           /\ rpc \in [Client -> Reactor]
BY DEF ReactorsOK

\* An idle reactor holds nothing.
LEMMA IdleIsOK ==
    /\ Idle \in Reactor /\ ReactorOK(Idle) /\ Idle.listed = {}
    /\ Idle.phase = "idle" /\ Idle.mSuccess = FALSE
<1>1. <<>> \in Seq(TimeSeries) /\ Len(<<>>) = 0
  OBVIOUS
<1> QED  BY <1>1 DEF Idle, Reactor, ReactorOK, Statuses

LEMMA CallBecomes ==
    ASSUME ReactorsOK, NEW c \in Client, NEW request \in Request, Call(c, request)
    PROVE  \E r : Becomes(c, r) /\ r.phase = "new" /\ r.mSuccess = FALSE
<1> DEFINE r == [Idle EXCEPT !.phase = "new", !.request = request]
<1>1. /\ r.phase = "new" /\ r.request = request /\ r.status = "none"
      /\ r.mSuccess = FALSE /\ r.listed = {} /\ r.series = <<>>
  BY DEF Idle
<1>2. r \in Reactor
  BY IdleIsOK DEF Reactor
<1>3. rpc' = [rpc EXCEPT ![c] = r] /\ UNCHANGED mStreamDequeMap
  BY DEF Call
<1> HIDE DEF r
<1>4. ReactorOK(r)
  <2>1. Len(r.series) = 0
    BY <1>1
  <2> QED  BY <1>1, <2>1 DEF ReactorOK
<1> QED  BY <1>1, <1>2, <1>3, <1>4 DEF Becomes

\* Throw and Done leave an idle reactor.
LEMMA IdleBecomes ==
    ASSUME ReactorsOK, NEW c \in Client, Throw(c) \/ Done(c)
    PROVE  \E r : Becomes(c, r) /\ r.phase = "idle" /\ r.mSuccess = FALSE
BY IdleIsOK DEF Throw, Done, Becomes

\* An error is a status alone.
LEMMA FailBecomes ==
    ASSUME ReactorsOK, NEW c \in Client, rpc[c].phase = "new",
           NEW status \in Statuses \ {"none", "OK"}, NEW counter,
           Fail(c, status, counter)
    PROVE  \E r : Becomes(c, r) /\ r.phase = "answered" /\ r.mSuccess = FALSE
<1> DEFINE r == [rpc[c] EXCEPT !.phase = "answered", !.status = status]
<1>1. rpc' = [rpc EXCEPT ![c] = r] /\ UNCHANGED mStreamDequeMap
  BY ReactorParts DEF Fail
<1>2. r.mSuccess = FALSE /\ r.listed = {} /\ r.series = <<>> /\ r.phase = "answered"
  BY ReactorParts DEF ReactorOK, Reactor
<1>3. r \in Reactor
  BY ReactorParts DEF Reactor
<1>4. r.status = status
  BY ReactorParts DEF Reactor
<1> HIDE DEF r
<1>5. ReactorOK(r)
  <2>1. Len(r.series) = 0
    BY <1>2
  <2> QED  BY <1>2, <1>4, <2>1 DEF ReactorOK
<1> QED  BY <1>1, <1>2, <1>3, <1>5 DEF Becomes

\* The names listed are those of the map.
LEMMA ListBecomes ==
    ASSUME MapOK, ReactorsOK, NEW c \in Client,
           Serves(c, "GetAvailableStreams"), ~ListRefuses, ListAll(c)
    PROVE  \E r : Becomes(c, r) /\ r.phase = "answered" /\ r.mSuccess = TRUE
<1> DEFINE all == {FromString(s) : s \in GetAvailableStreams}
           r == [rpc[c] EXCEPT !.phase = "answered", !.status = "OK",
                               !.mSuccess = TRUE, !.listed = all]
<1>1. /\ rpc' = [rpc EXCEPT ![c] = r] /\ UNCHANGED mStreamDequeMap
      /\ rpc[c].phase = "new" /\ rpc[c].request.method = "GetAvailableStreams"
  BY ReactorParts DEF ListAll, Serves
<1>2. \A identifier \in all : identifier \in Identifier /\ Askable(identifier)
  <2> SUFFICES ASSUME NEW s \in DOMAIN mStreamDequeMap
               PROVE  FromString(s) \in Identifier /\ Askable(FromString(s))
    BY DEF GetAvailableStreams
  <2>1. IsName(s) /\ ~FromStringRefuses(s)
    BY DEF MapOK, ListRefuses, GetAvailableStreams
  <2> QED  BY <2>1, FromStringNames DEF Askable
<1> HIDE DEF all
<1>3. /\ r.series = <<>> /\ r.phase = "answered" /\ r.mSuccess = TRUE
      /\ r.status = "OK" /\ r.listed = all
      /\ r.request.method = "GetAvailableStreams"
  BY <1>1, ReactorParts DEF ReactorOK, Reactor
<1>4. r \in Reactor
  <2>1. all \in SUBSET Identifier
    BY <1>2
  <2> QED  BY <2>1, ReactorParts DEF Reactor, Statuses
<1> HIDE DEF r
<1>5. ReactorOK(r)
  <2>1. Len(r.series) = 0
    BY <1>3
  <2> QED  BY <1>3, <2>1 DEF ReactorOK
<1> QED  BY <1>1, <1>2, <1>3, <1>4, <1>5 DEF Becomes

\* A request that passes the checks has no fault: the first one would have
\* been the verdict.
LEMMA GoodRequests ==
    ASSUME ReactorsOK, NEW c \in Client, NEW size, IsGood(c, size)
    PROVE  LET streams == rpc[c].request.streams
           IN  /\ rpc[c].phase = "new"
               /\ Len(streams) \in Nat \ {0}
               /\ size = (Len(streams) > 1)
               /\ \A i \in 1..Len(streams) :
                     /\ streams[i].start \in Int /\ streams[i].end \in Int
                     /\ streams[i].start <= streams[i].end
                     /\ streams[i].identifier \in Identifier
<1> DEFINE request == rpc[c].request
           streams == request.streams
           faults == {i \in 1..Len(streams) : Fault(streams[i]) # "none"}
           StreamRequest == [identifier : Identifier, hasTimes : BOOLEAN,
                             start : Int, end : Int]
<1>1. /\ rpc[c].phase = "new" /\ size = (Len(streams) > 1)
      /\ streams # <<>> /\ Verdict(request) = "none"
  BY DEF IsGood, Serves
<1>2. streams \in Seq(StreamRequest)
  <2>1. request \in Request
    BY <1>1, ReactorParts DEF ReactorOK
  <2> QED  BY <2>1, ServiceAssumption
<1>3. Verdict(request) = IF faults = {} THEN "none"
                         ELSE Fault(streams[CHOOSE i \in faults : \A j \in faults : i <= j])
  BY DEF Verdict
<1> HIDE DEF request
<1>4. Len(streams) \in Nat \ {0}
  <2> HIDE DEF streams, StreamRequest
  <2> QED  BY <1>1, <1>2, EmptySeq
<1>5. faults = {}
  <2> SUFFICES ASSUME faults # {}
               PROVE  FALSE
    OBVIOUS
  <2>1. IsFiniteSet(faults) /\ \A x \in faults : x \in Int
    <3>1. IsFiniteSet(1..Len(streams))
      BY <1>4, FS_Interval
    <3>2. faults \in SUBSET (1..Len(streams)) /\ \A x \in faults : x \in Int
      BY <1>4
    <3>3. IsFiniteSet(faults)
      <4> HIDE DEF faults
      <4> QED  BY <3>1, <3>2, FS_Subset
    <3> QED  BY <3>2, <3>3
  <2> DEFINE first == CHOOSE i \in faults : \A j \in faults : i <= j
  <2>2. first \in faults
    <3> HIDE DEF faults
    <3>1. \E m \in faults : \A n \in faults : m <= n
      BY <2>1, LeastElement
    <3> QED  BY <3>1
  <2>3. Fault(streams[first]) # "none"
    <3> HIDE DEF first, streams
    <3> QED  BY <2>2
  <2> QED  BY <1>1, <1>3, <2>3
<1>6. ASSUME NEW i \in 1..Len(streams)
      PROVE  /\ streams[i].start \in Int /\ streams[i].end \in Int
             /\ streams[i].start <= streams[i].end
             /\ streams[i].identifier \in Identifier
  <2>1. Fault(streams[i]) = "none"
    BY <1>5
  <2>2. IsValid(streams[i])
    BY <2>1 DEF Fault
  <2>3. streams[i] \in StreamRequest
    <3> HIDE DEF streams, StreamRequest
    <3> QED  BY <1>2, <1>6, ElementOfSeq
  <2> QED  BY <2>2, <2>3 DEF IsValid
<1> QED  BY <1>1, <1>4, <1>6 DEF request

\* What getPackets finds answers the stream request.
LEMMA SeriesAnswers ==
    ASSUME MapOK, NEW q, q.start \in Int, q.end \in Int, q.start <= q.end,
           q.identifier \in Identifier
    PROVE  LET series == Series(q.identifier, Find(q))
           IN  series \in TimeSeries /\ Answers(series, q)
<1> DEFINE name == ToString(q.identifier)
           found == Find(q)
           series == Series(q.identifier, found)
<1>1. /\ found \in Seq(Cachable) /\ Sorted(found)
      /\ \/ \A k \in 1..Len(found) : HasDataBetween(found[k], q.start, q.end)
         \/ Len(found) = 1 /\ q.end < found[1].startTime
  <2>1. CASE name \in DOMAIN mStreamDequeMap
    <3> DEFINE d == mStreamDequeMap[name]
    <3>1. d \in Seq(Cachable) /\ Sorted(d)
      BY <2>1 DEF MapOK
    <3>2. found = GetPackets(d, q.start, q.end)
      BY <2>1 DEF Find, GetPacketsFromMap
    <3>3. /\ found \in Seq(Cachable) /\ Sorted(found)
          /\ \/ \A k \in 1..Len(found) :
                   HasDataBetween(found[k], q.start, q.end)
             \/ \E i \in 1..Len(d) : q.end < d[i].startTime /\ found = <<d[i]>>
      <4> HIDE DEF d, found
      <4> QED  BY <3>1, <3>2, CachableIsTimed, ReplySorted, ReplyInQuery
    <3> HIDE DEF d, found
    <3> QED  BY <3>3
  <2>2. CASE name \notin DOMAIN mStreamDequeMap
    <3>1. found = <<>>
      BY <2>2 DEF Find, GetPacketsFromMap
    <3>2. <<>> \in Seq(Cachable) /\ Len(<<>>) = 0
      OBVIOUS
    <3> HIDE DEF found
    <3> QED  BY <3>1, <3>2 DEF Sorted
  <2> QED  BY <2>1, <2>2
<1> HIDE DEF found
<1>2. series.packets = found /\ (found # <<>> => series.identifier = {q.identifier})
  BY DEF Series, EmptySeries
<1>3. series \in TimeSeries
  BY <1>1 DEF Series, EmptySeries, TimeSeries
<1> QED  BY <1>1, <1>2, <1>3 DEF Answers, found

\* A time series without packets answers everything.
LEMMA EmptyAnswers == EmptySeries \in TimeSeries /\ \A q : Answers(EmptySeries, q)
<1>1. <<>> \in Seq(Cachable) /\ Len(<<>>) = 0
  OBVIOUS
<1> QED  BY <1>1 DEF EmptySeries, TimeSeries, Answers, Sorted

\* An answer keeps the request, and its series are what it says.
LEMMA AnswerBecomes ==
    ASSUME ReactorsOK, NEW c \in Client, rpc[c].phase = "new",
           NEW series \in Seq(TimeSeries), NEW success \in BOOLEAN,
           Len(series) = Len(rpc[c].request.streams),
           \A i \in 1..Len(series) : Answers(series[i], rpc[c].request.streams[i]),
           Answer(c, series, success)
    PROVE  \E r : Becomes(c, r) /\ r.phase = "answered" /\ r.mSuccess = success
<1> DEFINE r == [rpc[c] EXCEPT !.phase = "answered", !.status = "OK",
                               !.mSuccess = success, !.series = series]
<1>1. rpc' = [rpc EXCEPT ![c] = r] /\ UNCHANGED mStreamDequeMap
  BY ReactorParts DEF Answer
<1>2. /\ r.mSuccess = success /\ r.phase = "answered" /\ r.status = "OK"
      /\ r.listed = {} /\ r.series = series /\ r.request = rpc[c].request
  BY ReactorParts DEF ReactorOK, Reactor
<1>3. r \in Reactor
  BY ReactorParts DEF Reactor, Statuses
<1> HIDE DEF r
<1>4. ReactorOK(r)
  BY <1>2 DEF ReactorOK
<1> QED  BY <1>1, <1>2, <1>3, <1>4 DEF Becomes

\* A single stream request is answered with what was found ...
LEMMA OneBecomes ==
    ASSUME MapOK, ReactorsOK, NEW c \in Client, AnswerOne(c)
    PROVE  \E r : Becomes(c, r) /\ r.phase = "answered" /\ r.mSuccess = FALSE
<1> DEFINE streams == rpc[c].request.streams
           q == streams[1]
           found == Series(q.identifier, Find(q))
<1>1. /\ rpc[c].phase = "new" /\ Len(streams) = 1
      /\ q.start \in Int /\ q.end \in Int /\ q.start <= q.end
      /\ q.identifier \in Identifier
  <2>1. IsGood(c, FALSE)
    BY DEF AnswerOne
  <2>2. /\ rpc[c].phase = "new"
        /\ Len(streams) \in Nat \ {0}
        /\ FALSE = (Len(streams) > 1)
        /\ \A i \in 1..Len(streams) :
              /\ streams[i].start \in Int /\ streams[i].end \in Int
              /\ streams[i].start <= streams[i].end
              /\ streams[i].identifier \in Identifier
    BY <2>1, GoodRequests
  <2> HIDE DEF streams
  <2>3. 1 \in 1..Len(streams) /\ Len(streams) = 1
    <3>1. ~(Len(streams) > 1)
      BY <2>2, Zenon
    <3>2. \A n \in Nat \ {0} : ~(n > 1) => 1 \in 1..n /\ n = 1
      OBVIOUS
    <3> QED  BY <2>2, <3>1, <3>2, Zenon
  <2> QED  BY <2>2, <2>3
<1>2. found \in TimeSeries /\ Answers(found, q)
  BY <1>1, SeriesAnswers
<1>3. Answer(c, <<found>>, FALSE)
  BY DEF AnswerOne
<1> HIDE DEF found, q
<1>4. /\ <<found>> \in Seq(TimeSeries) /\ Len(<<found>>) = 1
      /\ \A i \in 1..Len(<<found>>) : i = 1 /\ <<found>>[i] = found
  BY <1>2
<1>5. \A i \in 1..Len(<<found>>) : Answers(<<found>>[i], streams[i])
  BY <1>2, <1>4 DEF q
<1> QED  BY <1>1, <1>3, <1>4, <1>5, AnswerBecomes

\* ... and several with time series that are all empty.
LEMMA ManyBecomes ==
    ASSUME ReactorsOK, NEW c \in Client, AnswerMany(c)
    PROVE  \E r : Becomes(c, r) /\ r.phase = "answered" /\ r.mSuccess = TRUE
<1> DEFINE n == Len(rpc[c].request.streams)
           series == [i \in 1..n |-> EmptySeries]
<1>1. rpc[c].phase = "new" /\ n \in Nat
  BY GoodRequests DEF AnswerMany
<1>2. Answer(c, series, TRUE)
  BY DEF AnswerMany
<1> HIDE DEF n
<1>3. series \in Seq(TimeSeries) /\ Len(series) = n
  BY <1>1, EmptyAnswers, IsASeq
<1>4. \A i \in 1..n : Answers(series[i], rpc[c].request.streams[i])
  BY EmptyAnswers
<1> HIDE DEF series
<1> QED  BY <1>1, <1>2, <1>3, <1>4, AnswerBecomes DEF n

-----------------------------------------------------------------------------
(* The counters                                                            *)

Active == InPhase("new") \cup InPhase("answered")
New == InPhase("new")
Uncounted == {c \in InPhase("answered") : rpc[c].mSuccess}

Answered ==
    metrics.success + metrics.invalidAccess + metrics.invalidRequest
        + metrics.serverError

CountersOK ==
    /\ metrics \in [{"success", "invalidAccess", "invalidRequest", "serverError"} -> Nat]
    /\ calls \in 0..MaxCalls
    /\ lost \in Nat
    /\ mNumberOfClients \in Nat

\* The counts are those of the reactors; that the gauge is never clamped
\* needs the calls in progress to be finitely many, whatever Client is.
CountInvariant ==
    /\ CountersOK
    /\ IsFiniteSet(Active)
    /\ mNumberOfClients = Cardinality(Active) + lost
    /\ Answered = calls - lost - Cardinality(New) - Cardinality(Uncounted)
    /\ mNumberOfClients <= calls

One(b) == IF b THEN 1 ELSE 0

\* A set that changes by one element at most.
LEMMA OneChanges ==
    ASSUME NEW S, NEW T, NEW c, IsFiniteSet(S), T \ {c} = S \ {c}
    PROVE  /\ IsFiniteSet(T)
           /\ Cardinality(S) \in Nat /\ Cardinality(T) \in Nat
           /\ Cardinality(T) = Cardinality(S) + One(c \in T) - One(c \in S)
           /\ Cardinality(S) >= One(c \in S)
<1>1. Cardinality(S) \in Nat
  BY FS_CardinalityType
<1>2. /\ IsFiniteSet(S \ {c})
      /\ Cardinality(S \ {c}) = Cardinality(S) - One(c \in S)
  BY <1>1, FS_RemoveElement DEF One
<1>3. Cardinality(S \ {c}) \in Nat
  BY <1>2, FS_CardinalityType
<1>4. CASE c \in T
  <2>1. T = (S \ {c}) \cup {c}
    BY <1>4
  <2>2. IsFiniteSet(T) /\ Cardinality(T) = Cardinality(S \ {c}) + 1
    BY <1>2, <2>1, FS_AddElement
  <2> QED  BY <1>1, <1>2, <1>3, <1>4, <2>2 DEF One
<1>5. CASE c \notin T
  <2>1. T = S \ {c}
    BY <1>5
  <2> QED  BY <1>1, <1>2, <1>3, <1>5, <2>1 DEF One
<1> QED  BY <1>4, <1>5

\* The counts of reactors after the step of one call.
LEMMA ReactorCounts ==
    ASSUME ReactorsOK, IsFiniteSet(Active), NEW c \in Client, NEW r, Becomes(c, r)
    PROVE  /\ IsFiniteSet(Active')
           /\ Cardinality(Active) \in Nat /\ Cardinality(Active)' \in Nat
           /\ Cardinality(New) \in Nat /\ Cardinality(New)' \in Nat
           /\ Cardinality(Uncounted) \in Nat /\ Cardinality(Uncounted)' \in Nat
           /\ Cardinality(Active)' = Cardinality(Active)
                 + One(r.phase # "idle") - One(rpc[c].phase # "idle")
           /\ Cardinality(New)' = Cardinality(New)
                 + One(r.phase = "new") - One(rpc[c].phase = "new")
           /\ Cardinality(Uncounted)' = Cardinality(Uncounted)
                 + One(r.phase = "answered" /\ r.mSuccess)
                 - One(rpc[c].phase = "answered" /\ rpc[c].mSuccess)
           /\ Cardinality(Active) >= One(rpc[c].phase # "idle")
           /\ Cardinality(New) + Cardinality(Uncounted) >= 0
<1>1. /\ rpc'[c] = r
      /\ \A x \in Client : x # c => rpc'[x] = rpc[x]
      /\ r.phase \in {"idle", "new", "answered"}
      /\ rpc[c].phase \in {"idle", "new", "answered"}
  BY OneReactor, ReactorParts DEF Becomes, Reactor
<1>2. /\ Active' \ {c} = Active \ {c}
      /\ c \in Active' <=> r.phase # "idle"
      /\ c \in Active <=> rpc[c].phase # "idle"
  BY <1>1 DEF Active, InPhase
<1>3. /\ New' \ {c} = New \ {c}
      /\ c \in New' <=> r.phase = "new"
      /\ c \in New <=> rpc[c].phase = "new"
  BY <1>1 DEF New, InPhase
<1>4. /\ Uncounted' \ {c} = Uncounted \ {c}
      /\ c \in Uncounted' <=> r.phase = "answered" /\ r.mSuccess
      /\ c \in Uncounted <=> rpc[c].phase = "answered" /\ rpc[c].mSuccess
  BY <1>1 DEF Uncounted, InPhase
<1>5. IsFiniteSet(New) /\ IsFiniteSet(Uncounted)
  <2>1. New \in SUBSET Active /\ Uncounted \in SUBSET Active
    BY DEF New, Uncounted, Active, InPhase
  <2> QED  BY <2>1, FS_Subset
<1> HIDE DEF Active
<1>6. /\ IsFiniteSet(Active')
      /\ Cardinality(Active) \in Nat /\ Cardinality(Active)' \in Nat
      /\ Cardinality(Active)' = Cardinality(Active)
            + One(r.phase # "idle") - One(rpc[c].phase # "idle")
      /\ Cardinality(Active) >= One(rpc[c].phase # "idle")
  BY <1>2, OneChanges DEF One
<1>7. /\ Cardinality(New) \in Nat /\ Cardinality(New)' \in Nat
      /\ Cardinality(New)' = Cardinality(New)
            + One(r.phase = "new") - One(rpc[c].phase = "new")
  BY <1>3, <1>5, OneChanges DEF One
<1>8. /\ Cardinality(Uncounted) \in Nat /\ Cardinality(Uncounted)' \in Nat
      /\ Cardinality(Uncounted)' = Cardinality(Uncounted)
            + One(r.phase = "answered" /\ r.mSuccess)
            - One(rpc[c].phase = "answered" /\ rpc[c].mSuccess)
  BY <1>4, <1>5, OneChanges DEF One
<1> QED  BY <1>6, <1>7, <1>8

\* The counts in a state of the invariant.
LEMMA Counts ==
    ASSUME CountInvariant
    PROVE  /\ calls \in Nat /\ lost \in Nat /\ mNumberOfClients \in Nat
           /\ MaxCalls \in Nat /\ Answered \in Nat
           /\ metrics.success \in Nat /\ metrics.invalidAccess \in Nat
           /\ metrics.invalidRequest \in Nat /\ metrics.serverError \in Nat
           /\ IsFiniteSet(Active)
           /\ mNumberOfClients = Cardinality(Active) + lost
           /\ Answered = calls - lost - Cardinality(New) - Cardinality(Uncounted)
           /\ mNumberOfClients <= calls /\ calls <= MaxCalls
BY ServiceAssumption DEF CountInvariant, CountersOK, Answered

\* A call adds one to the gauge before anything is looked at.
LEMMA CallCounts ==
    ASSUME ReactorsOK, CountInvariant, NEW c \in Client,
           NEW request \in Request, Call(c, request)
    PROVE  CountInvariant'
<1>1. PICK r : Becomes(c, r) /\ r.phase = "new" /\ r.mSuccess = FALSE
  BY CallBecomes
<1>2. /\ rpc[c].phase = "idle" /\ calls < MaxCalls
      /\ mNumberOfClients' = mNumberOfClients + 1 /\ calls' = calls + 1
      /\ metrics' = metrics /\ lost' = lost
  BY DEF Call
<1>3. /\ IsFiniteSet(Active')
      /\ Cardinality(Active)' = Cardinality(Active) + 1
      /\ Cardinality(New)' = Cardinality(New) + 1
      /\ Cardinality(Uncounted)' = Cardinality(Uncounted)
      /\ Cardinality(Active) \in Nat /\ Cardinality(New) \in Nat
      /\ Cardinality(Uncounted) \in Nat
  <2>1. /\ One(r.phase # "idle") = 1 /\ One(rpc[c].phase # "idle") = 0
        /\ One(r.phase = "new") = 1 /\ One(rpc[c].phase = "new") = 0
        /\ One(r.phase = "answered" /\ r.mSuccess) = 0
        /\ One(rpc[c].phase = "answered" /\ rpc[c].mSuccess) = 0
    BY <1>1, <1>2 DEF One
  <2>2. IsFiniteSet(Active)
    BY Counts
  <2> QED  BY <1>1, <2>1, <2>2, ReactorCounts
<1>4. CountersOK'
  BY <1>2, Counts DEF CountInvariant, CountersOK
<1>5. Answered' = Answered
  BY <1>2 DEF Answered
<1> QED  BY <1>2, <1>3, <1>4, <1>5, Counts DEF CountInvariant

\* An answer is counted at once or has yet to be.
LEMMA AnswerCounts ==
    ASSUME ReactorsOK, CountInvariant, NEW c \in Client, rpc[c].phase = "new",
           NEW r, Becomes(c, r), r.phase = "answered",
           UNCHANGED <<mNumberOfClients, calls, lost>>,
           CountersOK',
           \/ r.mSuccess = TRUE /\ Answered' = Answered
           \/ r.mSuccess = FALSE /\ Answered' = Answered + 1
    PROVE  CountInvariant'
<1>1. /\ IsFiniteSet(Active')
      /\ Cardinality(Active)' = Cardinality(Active)
      /\ Cardinality(New)' = Cardinality(New) - 1
      /\ Cardinality(Uncounted)' = Cardinality(Uncounted) + One(r.mSuccess)
      /\ Cardinality(Active) \in Nat /\ Cardinality(New) \in Nat
      /\ Cardinality(Uncounted) \in Nat
  BY Counts, ReactorCounts DEF One
<1> QED  BY <1>1, Counts DEF CountInvariant, One

\* A call that is lost stays in the gauge.
LEMMA ThrowCounts ==
    ASSUME ReactorsOK, CountInvariant, NEW c \in Client, Throw(c)
    PROVE  CountInvariant'
<1>1. PICK r : Becomes(c, r) /\ r.phase = "idle" /\ r.mSuccess = FALSE
  BY IdleBecomes
<1>2. /\ rpc[c].phase = "new" /\ lost' = lost + 1
      /\ mNumberOfClients' = mNumberOfClients /\ calls' = calls
      /\ metrics' = metrics
  BY DEF Throw, Serves
<1>3. /\ IsFiniteSet(Active')
      /\ Cardinality(Active)' = Cardinality(Active) - 1
      /\ Cardinality(New)' = Cardinality(New) - 1
      /\ Cardinality(Uncounted)' = Cardinality(Uncounted)
      /\ Cardinality(Active) \in Nat /\ Cardinality(New) \in Nat
      /\ Cardinality(Uncounted) \in Nat
  BY <1>1, <1>2, Counts, ReactorCounts DEF One
<1>4. CountersOK'
  BY <1>2, Counts DEF CountInvariant, CountersOK
<1>5. Answered' = Answered
  BY <1>2 DEF Answered
<1> QED  BY <1>2, <1>3, <1>4, <1>5, Counts DEF CountInvariant

\* A call that ends leaves the gauge, which is not at zero.
LEMMA DoneCounts ==
    ASSUME ReactorsOK, CountInvariant, NEW c \in Client, Done(c)
    PROVE  CountInvariant'
<1>1. PICK r : Becomes(c, r) /\ r.phase = "idle" /\ r.mSuccess = FALSE
  BY IdleBecomes
<1>2. /\ rpc[c].phase = "answered"
      /\ mNumberOfClients' = Decremented(mNumberOfClients)
      /\ calls' = calls /\ lost' = lost
      /\ metrics' = IF rpc[c].mSuccess
                    THEN [metrics EXCEPT !.success = @ + 1] ELSE metrics
      /\ rpc[c].mSuccess \in BOOLEAN
  BY ReactorParts DEF Done, Reactor
<1>3. /\ IsFiniteSet(Active')
      /\ Cardinality(Active)' = Cardinality(Active) - 1
      /\ Cardinality(Active) >= 1
      /\ Cardinality(New)' = Cardinality(New)
      /\ Cardinality(Uncounted)' = Cardinality(Uncounted) - One(rpc[c].mSuccess)
      /\ Cardinality(Active) \in Nat /\ Cardinality(New) \in Nat
      /\ Cardinality(Uncounted) \in Nat
  BY <1>1, <1>2, Counts, ReactorCounts DEF One
<1>4. mNumberOfClients' = mNumberOfClients - 1 /\ mNumberOfClients >= 1
  BY <1>2, <1>3, Counts DEF Decremented
<1>5. CASE rpc[c].mSuccess = TRUE
  <2>1. metrics' = [metrics EXCEPT !.success = @ + 1]
    BY <1>2, <1>5
  <2>2. Answered' = Answered + 1 /\ CountersOK'
    BY <1>2, <1>4, <2>1, Counts DEF CountInvariant, CountersOK, Answered
  <2> QED  BY <1>2, <1>3, <1>4, <1>5, <2>2, Counts DEF CountInvariant, One
<1>6. CASE rpc[c].mSuccess = FALSE
  <2>1. metrics' = metrics
    BY <1>2, <1>6
  <2>2. Answered' = Answered /\ CountersOK'
    BY <1>2, <1>4, <2>1, Counts DEF CountInvariant, CountersOK, Answered
  <2> QED  BY <1>2, <1>3, <1>4, <1>6, <2>2, Counts DEF CountInvariant, One
<1> QED  BY <1>2, <1>5, <1>6

\* One of the counters is counted up.
LEMMA OneCounted ==
    ASSUME CountInvariant,
           NEW counter \in {"success", "invalidAccess", "invalidRequest", "serverError"},
           metrics' = [metrics EXCEPT ![counter] = @ + 1],
           UNCHANGED <<mNumberOfClients, calls, lost>>
    PROVE  CountersOK' /\ Answered' = Answered + 1
<1>1. CountersOK'
  BY DEF CountInvariant, CountersOK
<1>2. /\ metrics'[counter] = metrics[counter] + 1
      /\ \A other \in {"success", "invalidAccess", "invalidRequest", "serverError"} :
            other # counter => metrics'[other] = metrics[other]
  BY DEF CountInvariant, CountersOK
<1>3. Answered' = Answered + 1
  BY <1>2, Counts DEF Answered
<1> QED  BY <1>1, <1>3

-----------------------------------------------------------------------------

ServiceInvariant == MapOK /\ ReactorsOK /\ CountInvariant

\* No call is in progress and no stream is known.
LEMMA InitService == Init => ServiceInvariant
<1> SUFFICES ASSUME Init
             PROVE  ServiceInvariant
  OBVIOUS
<1>1. MapOK
  BY DEF Init, MapOK
<1>2. ReactorsOK
  BY IdleIsOK DEF Init, ReactorsOK
<1>3. Active = {} /\ New = {} /\ Uncounted = {}
  BY IdleIsOK DEF Init, Active, New, Uncounted, InPhase
<1>4. CountersOK /\ Answered = 0
  BY ServiceAssumption DEF Init, CountersOK, Answered
<1>5. IsFiniteSet({}) /\ Cardinality({}) = 0
  BY FS_EmptySet
<1>6. CountInvariant
  BY <1>3, <1>4, <1>5 DEF Init, CountInvariant
<1> QED  BY <1>1, <1>2, <1>6 DEF ServiceInvariant

\* A step of the import side keeps the names a client has been given.
LEMMA ImportService ==
    ASSUME ServiceInvariant, MapOK',
           DOMAIN mStreamDequeMap \subseteq DOMAIN mStreamDequeMap',
           UNCHANGED <<rpc, mNumberOfClients, metrics, calls, lost>>
    PROVE  ServiceInvariant'
<1>1. ReactorsOK'
  <2>1. \A identifier : Askable(identifier) => Askable(identifier)'
    BY DEF Askable
  <2> QED  BY <2>1 DEF ServiceInvariant, ReactorsOK
<1>2. CountInvariant'
  BY DEF ServiceInvariant, CountInvariant, CountersOK, Answered, Active, New,
         Uncounted, InPhase
<1> QED  BY <1>1, <1>2 DEF ServiceInvariant

\* The step of a reactor, once what it becomes and the counts are known.
LEMMA ReactorService ==
    ASSUME ServiceInvariant, NEW c \in Client, NEW r, Becomes(c, r), CountInvariant'
    PROVE  ServiceInvariant'
<1>1. ReactorsOK'
  BY OneReactor DEF ServiceInvariant
<1>2. MapOK'
  BY DEF ServiceInvariant, MapOK, Becomes
<1> QED  BY <1>1, <1>2 DEF ServiceInvariant

\* Every way a call fails.
LEMMA FailService ==
    ASSUME ServiceInvariant, NEW c \in Client, rpc[c].phase = "new",
           NEW status \in Statuses \ {"none", "OK"},
           NEW counter \in {"success", "invalidAccess", "invalidRequest", "serverError"},
           Fail(c, status, counter)
    PROVE  ServiceInvariant'
<1>1. PICK r : Becomes(c, r) /\ r.phase = "answered" /\ r.mSuccess = FALSE
  BY FailBecomes DEF ServiceInvariant
<1>2. /\ metrics' = [metrics EXCEPT ![counter] = @ + 1]
      /\ UNCHANGED <<mNumberOfClients, calls, lost>>
  BY DEF Fail
<1>3. CountersOK' /\ Answered' = Answered + 1
  BY <1>2, OneCounted DEF ServiceInvariant
<1>4. CountInvariant'
  BY <1>1, <1>2, <1>3, AnswerCounts DEF ServiceInvariant
<1> QED  BY <1>1, <1>4, ReactorService

\* The answers that OnDone will count.
LEMMA SuccessService ==
    ASSUME ServiceInvariant, NEW c \in Client, rpc[c].phase = "new",
           NEW r, Becomes(c, r), r.phase = "answered", r.mSuccess = TRUE,
           UNCHANGED <<metrics, mNumberOfClients, calls, lost>>
    PROVE  ServiceInvariant'
<1>1. CountersOK' /\ Answered' = Answered
  BY DEF ServiceInvariant, CountInvariant, CountersOK, Answered
<1>2. CountInvariant'
  BY <1>1, AnswerCounts DEF ServiceInvariant
<1> QED  BY <1>2, ReactorService

\* Every step keeps the invariant.
LEMMA NextService == ServiceInvariant /\ [Next]_vars => ServiceInvariant'
<1> SUFFICES ASSUME ServiceInvariant, [Next]_vars
             PROVE  ServiceInvariant'
  OBVIOUS
<1>1. CASE \E p \in Packet : Import(p)
  BY <1>1, ImportMap, ImportService DEF ServiceInvariant, Import
<1>2. CASE \E t \in Instant : Expire(t)
  BY <1>2, ExpireMap, ImportService DEF ServiceInvariant, Expire
<1>3. CASE UNCHANGED vars
  <2>1. MapOK' /\ DOMAIN mStreamDequeMap' = DOMAIN mStreamDequeMap
    BY <1>3 DEF vars, ServiceInvariant, MapOK
  <2> QED  BY <1>3, <2>1, ImportService DEF vars
<1>4. ASSUME NEW c \in Client, NEW request \in Request, Call(c, request)
      PROVE  ServiceInvariant'
  <2>1. CountInvariant'
    BY <1>4, CallCounts DEF ServiceInvariant
  <2> QED  BY <1>4, <2>1, CallBecomes, ReactorService DEF ServiceInvariant
<1>5. ASSUME NEW c \in Client, Serve(c)
      PROVE  ServiceInvariant'
  <2>1. CASE Deny(c)
    BY <2>1, FailService DEF Deny, Statuses
  <2>2. CASE ListStreams(c)
    <3>1. Serves(c, "GetAvailableStreams") /\ rpc[c].phase = "new"
      BY <2>2 DEF ListStreams, Serves
    <3>2. CASE ListRefuses
      <4>1. Fail(c, "INTERNAL", "serverError")
        BY <2>2, <3>2 DEF ListStreams
      <4> QED  BY <3>1, <4>1, FailService DEF Statuses
    <3>3. CASE ~ListRefuses
      <4>1. ListAll(c)
        BY <2>2, <3>3 DEF ListStreams
      <4>2. PICK r : Becomes(c, r) /\ r.phase = "answered" /\ r.mSuccess = TRUE
        BY <3>1, <3>3, <4>1, ListBecomes DEF ServiceInvariant
      <4>3. UNCHANGED <<metrics, mNumberOfClients, calls, lost>>
        BY <4>1 DEF ListAll
      <4> QED  BY <3>1, <4>2, <4>3, SuccessService
    <3> QED  BY <3>2, <3>3
  <2>3. CASE Refuse(c)
    BY <2>3, FailService DEF Refuse, Serves, Statuses
  <2>4. CASE Throw(c) \/ Done(c)
    <3>1. CountInvariant'
      BY <2>4, ThrowCounts, DoneCounts DEF ServiceInvariant
    <3> QED  BY <2>4, <3>1, IdleBecomes, ReactorService DEF ServiceInvariant
  <2>5. CASE AnswerOne(c)
    <3>1. PICK r : Becomes(c, r) /\ r.phase = "answered" /\ r.mSuccess = FALSE
      BY <2>5, OneBecomes DEF ServiceInvariant
    <3>2. /\ metrics' = [metrics EXCEPT !.success = @ + 1]
          /\ UNCHANGED <<mNumberOfClients, calls, lost>>
          /\ rpc[c].phase = "new"
      BY <2>5 DEF AnswerOne, Answer, IsGood, Serves
    <3>3. CountersOK' /\ Answered' = Answered + 1
      BY <3>2, OneCounted DEF ServiceInvariant
    <3>4. CountInvariant'
      BY <3>1, <3>2, <3>3, AnswerCounts DEF ServiceInvariant
    <3> QED  BY <3>1, <3>4, ReactorService
  <2>6. CASE AnswerMany(c)
    <3>1. PICK r : Becomes(c, r) /\ r.phase = "answered" /\ r.mSuccess = TRUE
      BY <2>6, ManyBecomes DEF ServiceInvariant
    <3>2. /\ UNCHANGED <<metrics, mNumberOfClients, calls, lost>>
          /\ rpc[c].phase = "new"
      BY <2>6 DEF AnswerMany, Answer, IsGood, Serves
    <3> QED  BY <3>1, <3>2, SuccessService
  <2> QED  BY <1>5, <2>1, <2>2, <2>3, <2>4, <2>5, <2>6 DEF Serve
<1> QED  BY <1>1, <1>2, <1>3, <1>4, <1>5 DEF Next

\* The types and the bounds of the counters.
LEMMA ServiceTypes == ServiceInvariant => TypeOK
<1> SUFFICES ASSUME ServiceInvariant
             PROVE  TypeOK
  OBVIOUS
<1>1. ASSUME NEW c \in Client
      PROVE  /\ rpc[c].phase \in {"idle", "new", "answered"}
             /\ rpc[c].status \in {"none", "OK", "UNAUTHENTICATED",
                                   "INVALID_ARGUMENT", "INTERNAL"}
             /\ rpc[c].mSuccess => rpc[c].status = "OK"
             /\ rpc[c].phase = "answered" <=> rpc[c].status # "none"
  BY ReactorParts DEF ServiceInvariant, Reactor, ReactorOK, Statuses
<1>2. CountInvariant
  BY DEF ServiceInvariant
<1>3. /\ Cardinality(Active) \in Nat /\ Cardinality(New) \in Nat
      /\ Cardinality(Uncounted) \in Nat
  <2>1. New \in SUBSET Active /\ Uncounted \in SUBSET Active
    BY DEF New, Uncounted, Active, InPhase
  <2>2. IsFiniteSet(Active) /\ IsFiniteSet(New) /\ IsFiniteSet(Uncounted)
    BY <1>2, <2>1, Counts, FS_Subset
  <2> QED  BY <2>2, FS_CardinalityType
<1>4. /\ mNumberOfClients \in 0..MaxCalls
      /\ calls \in 0..MaxCalls /\ lost \in 0..calls
      /\ Answered <= calls
  BY <1>2, <1>3, Counts
<1>5. metrics \in [{"success", "invalidAccess", "invalidRequest", "serverError"}
                      -> 0..MaxCalls]
  <2>1. \A counter \in {"success", "invalidAccess", "invalidRequest", "serverError"} :
           metrics[counter] \in 0..MaxCalls
    BY <1>2, <1>4, Counts DEF Answered
  <2>2. metrics \in [{"success", "invalidAccess", "invalidRequest", "serverError"}
                        -> Nat]
    BY <1>2 DEF CountInvariant, CountersOK
  <2> QED  BY <2>1, <2>2
<1> QED  BY <1>1, <1>4, <1>5 DEF TypeOK

\* What the invariant says of a call, of the gauge and of replies.
LEMMA ServiceSafety ==
    ServiceInvariant =>
        /\ ClientsAccounted
        /\ EveryCallCounted
        /\ SeriesPerRequest
        /\ SeriesSorted
        /\ ListedStreamsCanBeAsked
<1>1. ServiceInvariant => ListedStreamsCanBeAsked
  <2> SUFFICES ASSUME ServiceInvariant, NEW c \in Client,
                      NEW identifier \in rpc[c].listed, ~HasBlankPart(identifier)
               PROVE  /\ IsValid([identifier |-> identifier, hasTimes |-> TRUE,
                                  start |-> 0, end |-> 0])
                      /\ ~ToStringRefuses(identifier)
                      /\ ToString(identifier) \in GetAvailableStreams
    BY DEF ListedStreamsCanBeAsked
  <2>1. Askable(identifier)
    BY DEF ServiceInvariant, ReactorsOK
  <2> QED  BY <2>1 DEF Askable, IsValid, GetAvailableStreams
<1>2. ServiceInvariant => ClientsAccounted /\ EveryCallCounted
  BY DEF ServiceInvariant, CountInvariant, ClientsAccounted, EveryCallCounted,
         Active, Answered, New, Uncounted
<1>3. ServiceInvariant => SeriesPerRequest /\ SeriesSorted
  BY DEF ServiceInvariant, ReactorsOK, ReactorOK, Answers, SeriesPerRequest,
         SeriesSorted
<1> QED  BY <1>1, <1>2, <1>3

\* Whether the calls go on or not.
LEMMA SafeService == Init /\ [][Next]_vars => []ServiceInvariant
<1> QED  BY InitService, NextService, PTL

LEMMA SpecService == Spec => []ServiceInvariant
<1> QED  BY SafeService, PTL DEF Spec

-----------------------------------------------------------------------------

\* The types and the bounds of the counters.
THEOREM ServiceTypeCorrect == Spec => []TypeOK
<1> QED  BY SpecService, ServiceTypes, PTL

\* The gauge of clients counts the calls in progress and those an exception
\* has taken away, and no more.
THEOREM GaugeIsAccounted == Spec => []ClientsAccounted
<1> QED  BY SpecService, ServiceSafety, PTL

\* Every call that is not lost is counted once and as one thing.
THEOREM CallsAreCounted == Spec => []EveryCallCounted
<1> QED  BY SpecService, ServiceSafety, PTL

\* A successful reply has a time series for each stream request, and one
\* that has packets names the stream asked for.
THEOREM SeriesMatchRequests == Spec => []SeriesPerRequest
<1> QED  BY SpecService, ServiceSafety, PTL

\* The packets of a time series are sorted and reach into the query, for any
\* deques the import side makes.
THEOREM SeriesAreSorted == Spec => []SeriesSorted
<1> QED  BY SpecService, ServiceSafety, PTL

\* What was listed can be asked for, but for blank parts; for any names.
THEOREM ListedCanBeAsked == Spec => []ListedStreamsCanBeAsked
<1> QED  BY SpecService, ServiceSafety, PTL
=============================================================================
