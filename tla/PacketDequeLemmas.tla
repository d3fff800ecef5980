------------------------- MODULE PacketDequeLemmas -------------------------
(***************************************************************************)
(* What the operators of PacketDeque return, preserve and bound.  A set P  *)
(* of packets stands for whatever the feed may deliver.                    *)
(***************************************************************************)
EXTENDS PacketDeque, FiniteSetTheorems, SequenceTheorems,
        WellFoundedInduction, TLAPS

\* Packets have times, and the wrapper's checks leave none that ends before
\* it starts.
Timed(P) ==
    \A p \in P : /\ p.startTime \in Int
                 /\ p.endTime \in Int
                 /\ p.startTime <= p.endTime

-----------------------------------------------------------------------------
(* Minimal and maximal elements                                            *)

\* Every non-empty finite set of integers has a least element: its initial
\* segments are ordered by inclusion, which is well founded on finite sets.
LEMMA LeastElement ==
    ASSUME NEW S, IsFiniteSet(S), \A x \in S : x \in Int, S # {}
    PROVE  \E m \in S : \A n \in S : m <= n
<1> DEFINE below(m) == {x \in S : x <= m}
           T == {below(m) : m \in S}
<1>1. /\ T \subseteq FiniteSubsetsOf(S)
      /\ T # {}
  <2>1. \A m \in S : below(m) \in FiniteSubsetsOf(S)
    BY FS_Subset DEF FiniteSubsetsOf
  <2> QED  BY <2>1
<1> HIDE DEF T
<1>2. PICK B \in T : \A C \in T : ~(<<C, B>> \in StrictSubsetOrdering(S))
  BY <1>1, FS_StrictSubsetOrderingWellFounded, WFMin
<1> USE DEF T
<1>3. PICK m \in S : B = below(m)
  BY <1>2
<1>4. ASSUME NEW n \in S, n < m
      PROVE  FALSE
  <2>1. /\ below(n) \subseteq below(m)
        /\ m \in below(m)
        /\ m \notin below(n)
    BY <1>4
  <2>2. <<below(n), B>> \in StrictSubsetOrdering(S)
    BY <2>1, <1>3 DEF StrictSubsetOrdering
  <2> QED  BY <2>2, <1>2
<1> QED  BY <1>4

-----------------------------------------------------------------------------
(* The searches                                                            *)

\* In a sorted deque start times do not decrease.
LEMMA StartsNondecreasing ==
    ASSUME NEW P, Timed(P), NEW d \in Seq(P), Sorted(d),
           NEW i \in 1..Len(d), NEW j \in 1..Len(d), i <= j
    PROVE  d[i].startTime <= d[j].startTime
<1>1. d[i].startTime \in Int /\ d[j].startTime \in Int
  BY DEF Timed
<1> QED  BY <1>1 DEF Sorted, Precedes

\* upper_bound answers the first packet that starts at or after t.
LEMMA StartsAtOrAfterProperty ==
    ASSUME NEW P, Timed(P), NEW d \in Seq(P), Sorted(d), NEW t \in Int
    PROVE  LET it == StartsAtOrAfter(d, t)
           IN  /\ it \in 1..(Len(d) + 1)
               /\ \A j \in 1..Len(d) : j >= it <=> d[j].startTime >= t
<1> DEFINE S == {i \in 1..(Len(d) + 1) :
                    i = Len(d) + 1 \/ d[i].startTime >= t}
<1>1. \A j \in 1..Len(d) : d[j].startTime \in Int
  BY DEF Timed
<1>2. PICK m \in S : \A n \in S : m <= n
  <2>1. IsFiniteSet(1..(Len(d) + 1))  BY FS_Interval
  <2>2. IsFiniteSet(S)  BY <2>1, FS_Subset
  <2>3. S # {} /\ \A x \in S : x \in Int  OBVIOUS
  <2> HIDE DEF S
  <2> QED  BY <2>2, <2>3, LeastElement
<1>3. ASSUME NEW j \in 1..Len(d)
      PROVE  j >= m <=> d[j].startTime >= t
  <2>1. CASE j >= m
    <3>1. m \in 1..Len(d) /\ d[m].startTime >= t  BY <2>1
    <3>2. d[m].startTime <= d[j].startTime
      BY <2>1, <3>1, StartsNondecreasing
    <3> QED  BY <2>1, <3>1, <3>2, <1>1
  <2>2. CASE ~(j >= m)
    BY <1>2, <2>2
  <2> QED  BY <2>1, <2>2
<1> QED  BY <1>3 DEF StartsAtOrAfter

\* lower_bound answers the first packet that starts strictly after t.
LEMMA StartsAfterProperty ==
    ASSUME NEW P, Timed(P), NEW d \in Seq(P), Sorted(d), NEW t \in Int
    PROVE  LET it == StartsAfter(d, t)
           IN  /\ it \in 1..(Len(d) + 1)
               /\ \A j \in 1..Len(d) : j >= it <=> d[j].startTime > t
<1>1. PICK it \in 1..(Len(d) + 1) :
          \A j \in 1..Len(d) : j >= it <=> d[j].startTime >= t + 1
  <2> DEFINE u == t + 1
  <2>1. u \in Int  OBVIOUS
  <2> HIDE DEF u
  <2>2. \E it \in 1..(Len(d) + 1) :
          \A j \in 1..Len(d) : j >= it <=> d[j].startTime >= u
    BY <2>1, StartsAtOrAfterProperty
  <2> QED  BY <2>2 DEF u
<1>2. \A j \in 1..Len(d) : d[j].startTime \in Int
  BY DEF Timed
<1>3. \A j \in 1..Len(d) : d[j].startTime >= t + 1 <=> d[j].startTime > t
  BY <1>2
<1> QED  BY <1>1, <1>3 DEF StartsAfter

-----------------------------------------------------------------------------
(* erase_if                                                                *)

\* How the rank grows from one index to the next.
LEMMA RankStep ==
    ASSUME NEW n \in Nat, NEW keep \in SUBSET (1..n)
    PROVE  /\ Cardinality(keep) \in 0..n
           /\ Rank(keep, 0) = 0
           /\ Rank(keep, n) = Cardinality(keep)
           /\ \A i \in 0..n : Rank(keep, i) \in Nat
           /\ \A i, j \in 0..n : i <= j => Rank(keep, i) <= Rank(keep, j)
           /\ \A i \in 1..n : i \in keep => Rank(keep, i) = Rank(keep, i - 1) + 1
           /\ \A i \in 1..n : i \notin keep => Rank(keep, i) = Rank(keep, i - 1)
<1> DEFINE upTo(i) == {j \in keep : j <= i}
<1>0. \A j \in keep : j \in 1..n
  OBVIOUS
<1>1. IsFiniteSet(1..n) /\ Cardinality(1..n) = n
  BY FS_Interval
<1>2. IsFiniteSet(keep) /\ Cardinality(keep) \in 0..n
  <2>1. IsFiniteSet(keep) /\ Cardinality(keep) <= n
    BY <1>1, FS_Subset
  <2> QED  BY <2>1, FS_CardinalityType
<1>3. \A i \in 0..n : IsFiniteSet(upTo(i)) /\ Cardinality(upTo(i)) \in Nat
  BY <1>2, FS_Subset, FS_CardinalityType
<1>4. upTo(0) = {} /\ upTo(n) = keep
  <2>1. \A j \in keep : ~(j <= 0) /\ j <= n  BY <1>0
  <2> QED  BY <2>1
<1>5. ASSUME NEW i \in 1..n, i \in keep
      PROVE  Cardinality(upTo(i)) = Cardinality(upTo(i - 1)) + 1
  <2>1. upTo(i) = upTo(i - 1) \cup {i} /\ i \notin upTo(i - 1)
    <3>1. \A j \in keep : j <= i <=> (j <= i - 1 \/ j = i)  BY <1>0
    <3>2. ~(i <= i - 1) /\ i <= i  OBVIOUS
    <3> QED  BY <1>5, <3>1, <3>2
  <2>2. i - 1 \in 0..n  OBVIOUS
  <2> HIDE DEF upTo
  <2> QED  BY <2>1, <2>2, <1>3, FS_AddElement
<1>6. ASSUME NEW i \in 1..n, i \notin keep
      PROVE  upTo(i) = upTo(i - 1)
  <2>1. \A j \in keep : j <= i <=> (j <= i - 1 \/ j = i)  BY <1>0
  <2> QED  BY <1>6, <2>1
<1>7. Cardinality(upTo(0)) = 0
  BY <1>4, FS_EmptySet
<1>8. ASSUME NEW i \in 0..n, NEW j \in 0..n, i <= j
      PROVE  Cardinality(upTo(i)) <= Cardinality(upTo(j))
  <2>1. upTo(i) \subseteq upTo(j)
    <3>1. \A k \in keep : k <= i => k <= j  BY <1>0, <1>8
    <3> QED  BY <3>1
  <2> HIDE DEF upTo
  <2> QED  BY <2>1, <1>3, FS_Subset
<1> QED  BY <1>2, <1>3, <1>4, <1>5, <1>6, <1>7, <1>8 DEF Rank

\* Erasing keeps the chosen packets, all of them, in their order: the result
\* enumerates the indices in keep increasingly.
LEMMA SubsequenceAtProperty ==
    ASSUME NEW P, NEW d \in Seq(P), NEW keep \in SUBSET (1..Len(d))
    PROVE  LET s == SubsequenceAt(d, keep)
           IN  /\ s \in Seq(P)
               /\ Len(s) <= Len(d)
               /\ \E f \in [1..Len(s) -> keep] :
                     /\ \A k \in 1..Len(s) : s[k] = d[f[k]]
                     /\ \A k, l \in 1..Len(s) : k < l => f[k] < f[l]
                     /\ \A i \in keep : \E k \in 1..Len(s) : f[k] = i
<1> DEFINE n == Len(d)
           c == Cardinality(keep)
           at(k) == CHOOSE i \in keep : Rank(keep, i) = k
           f == [k \in 1..c |-> at(k)]
<1>0. n \in Nat /\ \A i \in keep : i \in 1..n
  OBVIOUS
<1>1. /\ c \in 0..n
      /\ Rank(keep, 0) = 0
      /\ Rank(keep, n) = c
      /\ \A i \in 0..n : Rank(keep, i) \in Nat
      /\ \A i, j \in 0..n : i <= j => Rank(keep, i) <= Rank(keep, j)
      /\ \A i \in 1..n : i \in keep => Rank(keep, i) = Rank(keep, i - 1) + 1
      /\ \A i \in 1..n : i \notin keep => Rank(keep, i) = Rank(keep, i - 1)
  BY <1>0, RankStep
<1> HIDE DEF n, c
<1>2. ASSUME NEW k \in 1..c
      PROVE  \E i \in keep : Rank(keep, i) = k
  <2> DEFINE T == {i \in 1..n : Rank(keep, i) >= k}
  <2>1. PICK m \in T : \A i \in T : m <= i
    <3>1. IsFiniteSet(1..n)  BY <1>0, FS_Interval
    <3>2. IsFiniteSet(T)  BY <3>1, FS_Subset
    <3>3. n \in T  BY <1>0, <1>1
    <3>4. T # {} /\ \A x \in T : x \in Int  BY <1>0, <3>3
    <3> HIDE DEF T
    <3> QED  BY <3>2, <3>4, LeastElement
  <2>2. Rank(keep, m - 1) < k
    <3>1. CASE m = 1  BY <3>1, <1>1
    <3>2. CASE m # 1
      <4>1. m - 1 \in 1..n /\ m - 1 \notin T  BY <1>0, <2>1, <3>2
      <4>2. Rank(keep, m - 1) \in Nat  BY <1>0, <1>1, <4>1
      <4> QED  BY <4>1, <4>2
    <3> QED  BY <3>1, <3>2
  <2>3. m \in 1..n /\ m - 1 \in 0..n /\ Rank(keep, m) >= k
    BY <1>0
  <2>4. Rank(keep, m) \in Nat /\ Rank(keep, m - 1) \in Nat
    BY <1>0, <1>1, <2>3
  <2>5. m \in keep  BY <1>1, <2>2, <2>3, <2>4
  <2>6. Rank(keep, m) = k  BY <1>1, <2>2, <2>3, <2>4, <2>5
  <2> QED  BY <2>5, <2>6
<1>3. \A k \in 1..c : f[k] \in keep /\ Rank(keep, f[k]) = k
  BY <1>2
<1>3a. \A k \in 1..c : f[k] \in 1..n
  BY <1>0, <1>3, Zenon
<1>4. SubsequenceAt(d, keep) = [k \in 1..c |-> d[f[k]]]
  BY DEF SubsequenceAt, c
<1> HIDE DEF f
<1>5. ASSUME NEW k \in 1..c, NEW l \in 1..c, k < l
      PROVE  f[k] < f[l]
  <2>1. f[k] \in 0..n /\ f[l] \in 0..n  BY <1>0, <1>3a
  <2>2. f[l] <= f[k] => l <= k  BY <1>1, <1>3, <2>1
  <2> QED  BY <1>0, <1>1, <1>5, <2>1, <2>2
<1>6. ASSUME NEW i \in keep
      PROVE  \E k \in 1..c : f[k] = i
  <2>1. i \in 1..n /\ i - 1 \in 0..n /\ i \in 0..n  BY <1>0
  <2>2. Rank(keep, i) = Rank(keep, i - 1) + 1  BY <1>1, <2>1
  <2> DEFINE k == Rank(keep, i)
  <2>3. k \in 1..c
    <3>1. Rank(keep, i) \in Nat /\ Rank(keep, i - 1) \in Nat
      BY <1>1, <2>1
    <3>2. n \in 0..n /\ i <= n  BY <1>0, <2>1
    <3>3. Rank(keep, i) <= c  BY <1>1, <2>1, <3>2
    <3> QED  BY <2>2, <3>1, <3>3
  <2>4. f[k] \in keep /\ Rank(keep, f[k]) = k  BY <1>3, <2>3
  <2>5. f[k] \in 1..n /\ f[k] - 1 \in 0..n /\ f[k] \in 0..n  BY <1>0, <1>3a, <2>3
  <2>6. Rank(keep, f[k]) = Rank(keep, f[k] - 1) + 1  BY <1>1, <2>4, <2>5
  <2>7. Rank(keep, f[k] - 1) \in Nat /\ Rank(keep, i - 1) \in Nat
    BY <1>1, <2>1, <2>5
  <2> HIDE DEF k
  <2>8. ~(f[k] < i)
    <3>1. f[k] < i => Rank(keep, f[k]) <= Rank(keep, i - 1)
      BY <1>1, <2>1, <2>5
    <3> QED  BY <3>1, <2>2, <2>4, <2>7 DEF k
  <2>9. ~(i < f[k])
    <3>1. i < f[k] => Rank(keep, i) <= Rank(keep, f[k] - 1)
      BY <1>1, <2>1, <2>5
    <3> QED  BY <3>1, <2>2, <2>4, <2>6, <2>7 DEF k
  <2> QED  BY <2>1, <2>3, <2>5, <2>8, <2>9
<1>7. f \in [1..c -> keep]
  BY <1>3 DEF f
<1>8. \A k \in 1..c : d[f[k]] \in P
  <2>1. \A i \in 1..n : d[i] \in P  BY DEF n
  <2> QED  BY <1>3a, <2>1, Zenon
<1> DEFINE s == [k \in 1..c |-> d[f[k]]]
<1>9. s \in Seq(P) /\ Len(s) = c
  <2>1. c \in Nat  BY <1>0, <1>1
  <2> QED  BY <1>8, <2>1
<1>10. \A k \in 1..c : s[k] = d[f[k]]
  OBVIOUS
<1>11. Len(s) <= Len(d)
  BY <1>0, <1>1, <1>9 DEF n
<1> HIDE DEF s
<1>12. SubsequenceAt(d, keep) = s
  BY <1>4 DEF s
<1> QED  BY <1>5, <1>6, <1>7, <1>9, <1>10, <1>11, <1>12, ZenonT(30)

\* removeExpiredPackets erases exactly the packets that end too early, and
\* leaves the rest sorted.
LEMMA UnexpiredProperty ==
    ASSUME NEW P, Timed(P), NEW d \in Seq(P), Sorted(d), NEW t \in Int
    PROVE  /\ Unexpired(d, t) \in Seq(P)
           /\ Len(Unexpired(d, t)) <= Len(d)
           /\ Sorted(Unexpired(d, t))
           /\ Held(Unexpired(d, t)) = {p \in Held(d) : p.endTime >= t}
<1> DEFINE keep == {i \in 1..Len(d) : ~(d[i].endTime < t)}
           s == SubsequenceAt(d, keep)
<1>0. keep \in SUBSET (1..Len(d))
  <2>1. keep \subseteq 1..Len(d)
    OBVIOUS
  <2> HIDE DEF keep
  <2> QED  BY <2>1
<1>1. s \in Seq(P) /\ Len(s) <= Len(d)
  <2> HIDE DEF keep
  <2> QED  BY <1>0, SubsequenceAtProperty
<1>2. PICK f \in [1..Len(s) -> keep] :
          /\ \A k \in 1..Len(s) : s[k] = d[f[k]]
          /\ \A k, l \in 1..Len(s) : k < l => f[k] < f[l]
          /\ \A i \in keep : \E k \in 1..Len(s) : f[k] = i
  <2> HIDE DEF keep
  <2> QED  BY <1>0, SubsequenceAtProperty, SMTT(20)
<1>3. Unexpired(d, t) = s
  BY DEF Unexpired
<1> HIDE DEF s
<1>4. \A k \in 1..Len(s) : f[k] \in 1..Len(d)
  OBVIOUS
<1>5. Sorted(s)
  BY <1>2, <1>4 DEF Sorted
<1>6. \A i \in 1..Len(d) : d[i] \in P /\ d[i].endTime \in Int
  BY DEF Timed
<1>7. \A i \in 1..Len(d) : i \in keep <=> d[i].endTime >= t
  BY <1>6
<1>8. \A k \in 1..Len(s) : f[k] \in keep
  OBVIOUS
<1> HIDE DEF keep
<1>9. ASSUME NEW p \in Held(s)
      PROVE  p \in Held(d) /\ p.endTime >= t
  <2>1. PICK k \in 1..Len(s) : p = s[k]  BY DEF Held
  <2> QED  BY <2>1, <1>2, <1>4, <1>7, <1>8 DEF Held
<1>10. ASSUME NEW p \in Held(d), p.endTime >= t
       PROVE  p \in Held(s)
  <2>1. PICK i \in 1..Len(d) : p = d[i]  BY DEF Held
  <2>2. i \in keep  BY <2>1, <1>7, <1>10
  <2>3. PICK k \in 1..Len(s) : f[k] = i  BY <2>2, <1>2
  <2> QED  BY <2>1, <2>3, <1>2 DEF Held
<1> QED  BY <1>1, <1>3, <1>5, <1>9, <1>10

-----------------------------------------------------------------------------
(* addPacket                                                               *)

\* s is d with p inserted at the index at, where it keeps the order.
IsInsertion(s, d, at, p) ==
    /\ at \in 1..(Len(d) + 1)
    /\ Len(s) = Len(d) + 1
    /\ s[at] = p
    /\ \A i \in 1..Len(s) : i < at => s[i] = d[i]
    /\ \A i \in 1..Len(s) : i > at => s[i] = d[i - 1]
    /\ \A i \in 1..Len(d) : i < at => Precedes(d[i], p)
    /\ \A i \in 1..Len(d) : i >= at => Precedes(p, d[i])

\* Inserting a packet where the search says keeps the deque sorted.
LEMMA InsertionSorted ==
    ASSUME NEW P, NEW d \in Seq(P), Sorted(d), NEW p \in P,
           NEW s \in Seq(P), NEW at, IsInsertion(s, d, at, p)
    PROVE  Sorted(s) /\ Held(s) = Held(d) \cup {p}
<1> USE DEF IsInsertion
<1>1. Sorted(s)
  <2> SUFFICES ASSUME NEW i \in 1..Len(s), NEW j \in 1..Len(s), i < j
               PROVE  Precedes(s[i], s[j])
    BY DEF Sorted
  <2>1. CASE j < at
    <3>1. /\ i \in 1..Len(d) /\ j \in 1..Len(d)
          /\ s[i] = d[i] /\ s[j] = d[j]
      BY <2>1
    <3> QED  BY <3>1 DEF Sorted
  <2>2. CASE j = at
    <3>1. i \in 1..Len(d) /\ i < at /\ s[i] = d[i] /\ s[j] = p  BY <2>2
    <3> QED  BY <3>1
  <2>3. CASE j > at /\ i = at
    <3>1. j - 1 \in 1..Len(d) /\ j - 1 >= at /\ s[i] = p /\ s[j] = d[j - 1]
      BY <2>3
    <3> QED  BY <3>1
  <2>4. CASE j > at /\ i < at
    <3>1. /\ i \in 1..Len(d) /\ j - 1 \in 1..Len(d) /\ i < j - 1
          /\ s[i] = d[i] /\ s[j] = d[j - 1]
      BY <2>4
    <3> QED  BY <3>1 DEF Sorted
  <2>5. CASE i > at
    <3>1. /\ i - 1 \in 1..Len(d) /\ j - 1 \in 1..Len(d) /\ i - 1 < j - 1
          /\ s[i] = d[i - 1] /\ s[j] = d[j - 1]
      BY <2>5
    <3> QED  BY <3>1 DEF Sorted
  <2> QED  BY <2>1, <2>2, <2>3, <2>4, <2>5
<1>2. ASSUME NEW i \in 1..Len(s)
      PROVE  s[i] \in Held(d) \cup {p}
  BY DEF Held
<1>3. ASSUME NEW i \in 1..Len(d)
      PROVE  d[i] \in Held(s)
  <2>1. CASE i < at  BY <2>1 DEF Held
  <2>2. CASE i >= at
    <3>1. i + 1 \in 1..Len(s) /\ s[i + 1] = d[i]  BY <2>2
    <3> QED  BY <3>1 DEF Held
  <2> QED  BY <2>1, <2>2
<1>4. p \in Held(s)
  <2>1. at \in 1..Len(s) /\ s[at] = p  OBVIOUS
  <2> QED  BY <2>1 DEF Held
<1>5. Held(s) \subseteq Held(d) \cup {p}
  BY <1>2 DEF Held
<1>6. Held(d) \subseteq Held(s)
  BY <1>3 DEF Held
<1> QED  BY <1>1, <1>4, <1>5, <1>6

\* pop_front keeps the order and loses the front only.
LEMMA TailSorted ==
    ASSUME NEW P, NEW d \in Seq(P), Sorted(d), d # <<>>
    PROVE  /\ Tail(d) \in Seq(P)
           /\ Len(Tail(d)) = Len(d) - 1
           /\ Sorted(Tail(d))
           /\ Held(d) = Held(Tail(d)) \cup {d[1]}
           /\ \A q \in Held(Tail(d)) : Precedes(d[1], q)
<1>1. /\ Tail(d) \in Seq(P)
      /\ Len(Tail(d)) = Len(d) - 1
      /\ \A i \in 1..Len(Tail(d)) : Tail(d)[i] = d[i + 1]
      /\ Len(d) \in Nat \ {0}
  BY HeadTailProperties, EmptySeq
<1> DEFINE r == Tail(d)
<1> HIDE DEF r
<1>2. \A i \in 1..Len(r) : i + 1 \in 1..Len(d) /\ r[i] = d[i + 1] /\ 1 < i + 1
  BY <1>1 DEF r
<1>3. 1 \in 1..Len(d)
  BY <1>1
<1>4. Sorted(r)
  <2> SUFFICES ASSUME NEW i \in 1..Len(r), NEW j \in 1..Len(r), i < j
               PROVE  Precedes(r[i], r[j])
    BY DEF Sorted
  <2>1. i + 1 < j + 1  OBVIOUS
  <2> QED  BY <1>2, <2>1 DEF Sorted
<1>5. \A q \in Held(r) : q \in Held(d) /\ Precedes(d[1], q)
  BY <1>2, <1>3 DEF Held, Sorted
<1>6. ASSUME NEW i \in 1..Len(d), i # 1
      PROVE  d[i] \in Held(r)
  <2>1. i - 1 \in 1..Len(r) /\ (i - 1) + 1 = i  BY <1>1, <1>6 DEF r
  <2>2. r[i - 1] = d[i]  BY <1>1, <2>1 DEF r
  <2> QED  BY <2>1, <2>2 DEF Held
<1> QED  BY <1>1, <1>3, <1>4, <1>5, <1>6 DEF Held, r

\* pop_front keeps everything behind the front.
LEMMA TailKeeps ==
    ASSUME NEW P, NEW s \in Seq(P), NEW i \in 2..Len(s)
    PROVE  s[i] \in Held(Tail(s))
<1>1. s # <<>> /\ Len(s) \in Nat
  BY EmptySeq
<1>2. i - 1 \in 1..Len(Tail(s)) /\ Tail(s)[i - 1] = s[(i - 1) + 1]
  BY <1>1, HeadTailProperties
<1>3. (i - 1) + 1 = i
  OBVIOUS
<1> QED  BY <1>2, <1>3 DEF Held

\* What addPacket makes of a sorted deque.  It leaves the deque alone when
\* the packet's start time is there already, or is older than all of a full
\* deque; otherwise it inserts the packet in its place, and pops the front
\* of the result if the deque was full.  A start time is repeated only after
\* a packet of one sample.
Skips(d, p, max) ==
    /\ Added(d, p, max) = d
    /\ \/ \E q \in Held(d) : q.startTime = p.startTime
       \/ IsFull(d, max) /\ d # <<>> /\ p.startTime < d[1].startTime

InsertsAs(d, p, max, s) ==
    /\ Sorted(s)
    /\ Len(s) = Len(d) + 1
    /\ Held(s) = Held(d) \cup {p}
    /\ \A q \in Held(d) : \/ q.startTime # p.startTime
                          \/ q.startTime = q.endTime
    /\ \/ ~IsFull(d, max) /\ Added(d, p, max) = s
       \/ /\ IsFull(d, max) /\ s[1] = d[1]
          /\ Added(d, p, max) = Tail(s) /\ p \in Held(Tail(s))

\* The new packet becomes the back.
LEMMA AppendCase ==
    ASSUME NEW P, Timed(P), NEW d \in Seq(P), Sorted(d), NEW p \in P,
           NEW max \in Nat \ {0}, d # <<>>, IsNewest(d, p)
    PROVE  \E s \in Seq(P) : InsertsAs(d, p, max, s)
<1> DEFINE s == Append(d, p)
           n == Len(d)
<1>1. n \in Nat \ {0} /\ n \in 1..n
  BY EmptySeq
<1>2. /\ s \in Seq(P)
      /\ Len(s) = n + 1
      /\ \A i \in 1..n : s[i] = d[i]
      /\ s[n + 1] = p
  BY AppendProperties
<1>3. /\ p.startTime \in Int
      /\ \A i \in 1..n : /\ d[i].startTime \in Int
                         /\ d[i].endTime \in Int
                         /\ d[i].startTime <= d[i].endTime
  BY DEF Timed
<1>4. Back(d) = d[n] /\ d[n].startTime <= p.startTime
  BY <1>1, <1>3 DEF IsNewest, Back
<1>5. d[n].startTime = p.startTime => d[n].endTime = d[n].startTime
  BY <1>1, <1>3, <1>4 DEF IsNewest
<1>6. \A i \in 1..n : Precedes(d[i], p)
  <2> TAKE i \in 1..n
  <2>1. CASE i = n  BY <2>1, <1>3, <1>4, <1>5 DEF Precedes
  <2>2. CASE i # n
    <3>1. i < n  BY <2>2, <1>1
    <3>2. Precedes(d[i], d[n])  BY <1>1, <3>1 DEF Sorted
    <3> QED  BY <1>1, <1>3, <1>4, <3>2 DEF Precedes
  <2> QED  BY <2>1, <2>2
<1>7. Sorted(s) /\ Held(s) = Held(d) \cup {p}
  <2>1. /\ s[n + 1] = p
        /\ \A i \in 1..Len(s) : i < n + 1 => s[i] = d[i]
        /\ \A i \in 1..Len(s) : i > n + 1 => s[i] = d[i - 1]
    BY <1>1, <1>2
  <2>2. n + 1 \in 1..(Len(d) + 1)  BY <1>1
  <2>3. /\ \A i \in 1..Len(d) : i < n + 1 => Precedes(d[i], p)
        /\ \A i \in 1..Len(d) : i >= n + 1 => Precedes(p, d[i])
    BY <1>1, <1>6
  <2>4. IsInsertion(s, d, n + 1, p)
    BY <1>2, <2>1, <2>2, <2>3 DEF IsInsertion
  <2> HIDE DEF s
  <2> QED  BY <1>2, <2>4, InsertionSorted
<1>8. \A q \in Held(d) : q.startTime # p.startTime \/ q.startTime = q.endTime
  BY <1>3, <1>6 DEF Held, Precedes
<1>9. CASE IsFull(d, max)
  <2>1. Added(d, p, max) = Append(Tail(d), p)
    BY <1>9 DEF Added, PushBack
  <2>2. Tail(s) = Append(Tail(d), p)  BY HeadTailAppend
  <2>3. s[1] = d[1]  BY <1>1, <1>2
  <2>4. p \in Held(Tail(s))
    <3>1. n + 1 \in 2..Len(s) /\ s[n + 1] = p  BY <1>1, <1>2
    <3> HIDE DEF s, n
    <3> QED  BY <1>2, <3>1, TailKeeps
  <2> QED  BY <1>2, <1>7, <1>8, <1>9, <2>1, <2>2, <2>3, <2>4 DEF InsertsAs
<1>10. CASE ~IsFull(d, max)
  <2>1. Added(d, p, max) = s
    BY <1>10 DEF Added, PushBack
  <2> QED  BY <1>2, <1>7, <1>8, <1>10, <2>1 DEF InsertsAs
<1> QED  BY <1>9, <1>10

\* The packet goes before the element the search found.
LEMMA InsertCase ==
    ASSUME NEW P, Timed(P), NEW d \in Seq(P), Sorted(d), NEW p \in P,
           NEW max \in Nat \ {0}, NEW it \in 1..Len(d),
           \A j \in 1..Len(d) : j < it => d[j].startTime < p.startTime,
           \A j \in 1..Len(d) : j >= it => p.startTime < d[j].startTime,
           IsFull(d, max) => it # 1,
           \/ Added(d, p, max) = InsertBefore(d, it, p, max)
           \/ /\ it = 1 /\ ~IsFull(d, max)
              /\ Added(d, p, max) = <<p>> \o d
    PROVE  \E s \in Seq(P) : InsertsAs(d, p, max, s)
<1> DEFINE n == Len(d)
           front == SubSeq(d, 1, it - 1)
           back == SubSeq(d, it, n)
           s == front \o <<p>> \o back
<1>1. n \in Nat \ {0} /\ it \in 1..n
  OBVIOUS
<1>2. /\ front \in Seq(P) /\ Len(front) = it - 1
      /\ \A i \in 1..(it - 1) : front[i] = d[i]
  <2>1. \A i \in 1..(it - 1) : d[i] \in P  BY <1>1
  <2>2. it - 1 \in Int /\ (it - 1) - 1 + 1 = it - 1  BY <1>1
  <2>3. \A i \in 1..(it - 1) : 1 + i - 1 = i  BY <1>1
  <2> QED  BY <2>1, <2>2, <2>3, <1>1, SubSeqProperties
<1>3. /\ back \in Seq(P) /\ Len(back) = n - it + 1
      /\ \A i \in 1..(n - it + 1) : back[i] = d[it + i - 1]
  <2>1. \A i \in it..n : d[i] \in P  BY <1>1
  <2> QED  BY <2>1, <1>1, SubSeqProperties
<1>4. <<p>> \in Seq(P) /\ Len(<<p>>) = 1 /\ <<p>>[1] = p
  OBVIOUS
<1> HIDE DEF front, back
<1>5. /\ front \o <<p>> \in Seq(P)
      /\ Len(front \o <<p>>) = it
      /\ \A i \in 1..it : (front \o <<p>>)[i] = IF i < it THEN d[i] ELSE p
  BY <1>1, <1>2, <1>4, ConcatProperties
<1>6. /\ s \in Seq(P)
      /\ Len(s) = n + 1
      /\ \A i \in 1..(n + 1) : s[i] = IF i < it THEN d[i]
                                      ELSE IF i = it THEN p ELSE d[i - 1]
  <2> DEFINE f == front \o <<p>>
  <2>1. f \in Seq(P) /\ Len(f) = it
        /\ \A i \in 1..it : f[i] = IF i < it THEN d[i] ELSE p
    BY <1>5
  <2> HIDE DEF f
  <2>2. /\ f \o back \in Seq(P)
        /\ Len(f \o back) = Len(f) + Len(back)
        /\ \A i \in 1..(Len(f) + Len(back)) :
              (f \o back)[i] = IF i <= Len(f) THEN f[i] ELSE back[i - Len(f)]
    BY <1>3, <2>1, ConcatProperties
  <2>3. Len(f) + Len(back) = n + 1  BY <1>1, <1>3, <2>1
  <2>4. ASSUME NEW i \in 1..(n + 1)
        PROVE  (f \o back)[i] = IF i < it THEN d[i]
                                ELSE IF i = it THEN p ELSE d[i - 1]
    <3>1. CASE i <= it
      BY <3>1, <1>1, <2>1, <2>2, <2>3
    <3>2. CASE i > it
      <4>1. i - it \in 1..(n - it + 1) /\ it + (i - it) - 1 = i - 1
        BY <3>2, <1>1
      <4>2. back[i - it] = d[i - 1]  BY <4>1, <1>3
      <4> QED  BY <3>2, <4>2, <1>1, <2>1, <2>2, <2>3
    <3>3. i <= it \/ i > it  BY <1>1
    <3> HIDE DEF n, s
    <3> QED  BY <3>1, <3>2, <3>3
  <2> QED  BY <2>2, <2>3, <2>4 DEF f
<1> HIDE DEF s
<1>7. Sorted(s) /\ Held(s) = Held(d) \cup {p}
  <2>1. /\ \A i \in 1..Len(d) : i < it => Precedes(d[i], p)
        /\ \A i \in 1..Len(d) : i >= it => Precedes(p, d[i])
    BY DEF Precedes
  <2>2. /\ s[it] = p
        /\ \A i \in 1..Len(s) : i < it => s[i] = d[i]
        /\ \A i \in 1..Len(s) : i > it => s[i] = d[i - 1]
    BY <1>1, <1>6
  <2>3. IsInsertion(s, d, it, p)
    BY <1>1, <1>6, <2>1, <2>2 DEF IsInsertion
  <2> QED  BY <1>6, <2>3, InsertionSorted
<1>8. \A q \in Held(d) : q.startTime # p.startTime \/ q.startTime = q.endTime
  <2>1. \A i \in 1..Len(d) : d[i].startTime \in Int /\ p.startTime \in Int
    BY DEF Timed
  <2> QED  BY <1>1, <2>1 DEF Held
<1>9. CASE IsFull(d, max)
  <2>1. Added(d, p, max) = Tail(s)
    BY <1>9 DEF InsertBefore, s, front, back
  <2>2. s[1] = d[1]  BY <1>1, <1>6, <1>9
  <2>3. it \in 2..Len(s) /\ s[it] = p  BY <1>1, <1>6, <1>9
  <2>4. p \in Held(Tail(s))  BY <1>6, <2>3, TailKeeps
  <2> QED  BY <1>6, <1>7, <1>8, <1>9, <2>1, <2>2, <2>4 DEF InsertsAs
<1>10. CASE ~IsFull(d, max)
  <2>1. Added(d, p, max) = s
    <3>1. CASE Added(d, p, max) = InsertBefore(d, it, p, max)
      BY <1>10, <3>1 DEF InsertBefore, s, front, back
    <3>2. CASE it = 1 /\ Added(d, p, max) = <<p>> \o d
      <4>1. front = <<>>  BY <3>2, SubSeqEmpty DEF front
      <4>2. back = d  BY <3>2, SubSeqFull DEF back
      <4>3. <<>> \o <<p>> = <<p>>  BY <1>4, ConcatEmptySeq
      <4> QED  BY <3>2, <4>1, <4>2, <4>3 DEF s
    <3> QED  BY <1>10, <3>1, <3>2
  <2> QED  BY <1>6, <1>7, <1>8, <1>10, <2>1 DEF InsertsAs
<1> QED  BY <1>9, <1>10

\* Every call of addPacket skips or inserts, and marks an update: the
\* search never runs off the end of a sorted deque.
LEMMA AddedCases ==
    ASSUME NEW P, Timed(P), NEW d \in Seq(P), Sorted(d), NEW p \in P,
           NEW max \in Nat \ {0}
    PROVE  /\ MarksUpdate(d, p, max)
           /\ Skips(d, p, max) \/ \E s \in Seq(P) : InsertsAs(d, p, max, s)
<1> DEFINE it == StartsAtOrAfter(d, p.startTime)
           n == Len(d)
<1>1. /\ n \in Nat
      /\ p.startTime \in Int /\ p.endTime \in Int
      /\ p.startTime <= p.endTime
      /\ \A i \in 1..n : /\ d[i].startTime \in Int
                         /\ d[i].endTime \in Int
                         /\ d[i].startTime <= d[i].endTime
  BY DEF Timed
<1>2. CASE d = <<>>
  <2>1. Added(d, p, max) = <<p>>  BY <1>2 DEF Added
  <2>2. Len(d) = 0 /\ Held(d) = {}  BY <1>2 DEF Held
  <2>3. Sorted(<<p>>) /\ Held(<<p>>) = {p}  BY DEF Sorted, Held
  <2>4. ~IsFull(d, max)  BY <2>2 DEF IsFull
  <2>5. InsertsAs(d, p, max, <<p>>)
    BY <2>1, <2>2, <2>3, <2>4 DEF InsertsAs
  <2>6. <<p>> \in Seq(P)  OBVIOUS
  <2> QED  BY <1>2, <2>5, <2>6 DEF MarksUpdate
<1>3. CASE d # <<>> /\ IsNewest(d, p)
  BY <1>3, AppendCase DEF MarksUpdate
<1>4. CASE d # <<>> /\ ~IsNewest(d, p) /\ IsSkippedAtFront(d, p, max)
  <2>1. Added(d, p, max) = d  BY <1>4 DEF Added
  <2>2. 1 \in 1..n  BY <1>1, <1>4, EmptySeq
  <2>3. d[1] \in Held(d)  BY <2>2 DEF Held
  <2>4. Skips(d, p, max)  BY <1>4, <2>1, <2>3 DEF Skips, IsSkippedAtFront
  <2> QED  BY <1>4, <2>4 DEF MarksUpdate
<1>5. CASE d # <<>> /\ ~IsNewest(d, p) /\ ~IsSkippedAtFront(d, p, max)
  <2>1. n \in 1..n /\ 1 \in 1..n  BY <1>1, <1>5, EmptySeq
  <2>2. Back(d) = d[n] /\ p.startTime <= d[n].startTime
    BY <1>1, <1>5, <2>1 DEF IsNewest, Back
  <2>3. /\ it \in 1..(n + 1)
        /\ \A j \in 1..n : j >= it <=> d[j].startTime >= p.startTime
    BY <1>1, StartsAtOrAfterProperty
  <2> HIDE DEF it
  <2>4. it \in 1..n  BY <1>1, <2>1, <2>2, <2>3
  <2>5. MarksUpdate(d, p, max)  BY <2>4 DEF MarksUpdate, it
  <2>6. /\ \A j \in 1..n : j < it => d[j].startTime < p.startTime
        /\ d[it].startTime >= p.startTime
    BY <1>1, <2>3, <2>4
  <2>7. IsFull(d, max) => it # 1
    <3>1. IsFull(d, max) => d[1].startTime < p.startTime
      BY <1>1, <1>5, <2>1 DEF IsSkippedAtFront
    <3> QED  BY <1>1, <2>1, <2>6, <3>1
  <2>8. ASSUME p.startTime < d[it].startTime, NEW j \in 1..n, j >= it
        PROVE  p.startTime < d[j].startTime
    <3>1. d[it].startTime <= d[j].startTime
      BY <2>4, <2>8, StartsNondecreasing
    <3> QED  BY <1>1, <2>4, <2>8, <3>1
  <2>9. CASE p.endTime <= d[1].startTime /\ ~IsFull(d, max)
    <3>1. Added(d, p, max) = <<p>> \o d
      BY <1>5, <2>9 DEF Added
    <3>2. p.startTime < d[1].startTime
      BY <1>1, <1>5, <2>1, <2>9 DEF IsSkippedAtFront
    <3>3. it = 1  BY <1>1, <2>1, <2>3, <3>2
    <3>4. p.startTime < d[it].startTime  BY <3>2, <3>3
    <3> QED  BY <2>4, <2>5, <2>6, <2>8, <2>9, <3>1, <3>3, <3>4, InsertCase
  <2>10. CASE ~(p.endTime <= d[1].startTime /\ ~IsFull(d, max))
    <3>1. CASE d[it].startTime = p.startTime
      <4>1. Added(d, p, max) = d
        BY <1>5, <2>10, <3>1 DEF Added, it
      <4>2. d[it] \in Held(d)  BY <2>4 DEF Held
      <4> QED  BY <2>5, <3>1, <4>1, <4>2 DEF Skips
    <3>2. CASE d[it].startTime # p.startTime
      <4>1. Added(d, p, max) = InsertBefore(d, it, p, max)
        <5>1. it # n + 1  BY <1>1, <2>4
        <5> QED  BY <1>5, <2>10, <3>2, <5>1 DEF Added, it
      <4>2. p.startTime < d[it].startTime  BY <1>1, <2>4, <2>6, <3>2
      <4> QED  BY <2>4, <2>5, <2>6, <2>7, <2>8, <4>1, <4>2, InsertCase
    <3> QED  BY <3>1, <3>2
  <2> QED  BY <2>9, <2>10
<1> QED  BY <1>2, <1>3, <1>4, <1>5

\* addPacket keeps a deque of packets sorted and bounded.
LEMMA AddedProperty ==
    ASSUME NEW P, Timed(P), NEW d \in Seq(P), Sorted(d), NEW p \in P,
           NEW max \in Nat \ {0}, Len(d) <= max
    PROVE  /\ Added(d, p, max) \in Seq(P)
           /\ Sorted(Added(d, p, max))
           /\ Len(Added(d, p, max)) <= max
<1>1. CASE Skips(d, p, max)
  BY <1>1 DEF Skips
<1>2. ASSUME NEW s \in Seq(P), InsertsAs(d, p, max, s)
      PROVE  /\ Added(d, p, max) \in Seq(P)
             /\ Sorted(Added(d, p, max))
             /\ Len(Added(d, p, max)) <= max
  <2>1. CASE ~IsFull(d, max) /\ Added(d, p, max) = s
    BY <1>2, <2>1 DEF InsertsAs, IsFull
  <2>2. CASE IsFull(d, max) /\ Added(d, p, max) = Tail(s)
    <3>1. s # <<>> /\ Sorted(s) /\ Len(s) = Len(d) + 1
      BY <1>2 DEF InsertsAs
    <3>2. Tail(s) \in Seq(P) /\ Len(Tail(s)) = Len(s) - 1 /\ Sorted(Tail(s))
      BY <3>1, TailSorted
    <3> QED  BY <2>2, <3>1, <3>2
  <2> QED  BY <1>2, <2>1, <2>2 DEF InsertsAs
<1> QED  BY <1>1, <1>2, AddedCases

\* addPacket brings nothing but the packet into the deque, and loses nothing
\* while there is room.
LEMMA AddedHeld ==
    ASSUME NEW P, Timed(P), NEW d \in Seq(P), Sorted(d), NEW p \in P,
           NEW max \in Nat \ {0}
    PROVE  /\ Held(Added(d, p, max)) \subseteq Held(d) \cup {p}
           /\ ~IsFull(d, max) => /\ Held(d) \subseteq Held(Added(d, p, max))
                                 /\ Len(Added(d, p, max)) <= Len(d) + 1
<1>1. CASE Skips(d, p, max)
  <2>1. Len(d) \in Nat
    OBVIOUS
  <2> QED  BY <1>1, <2>1 DEF Skips
<1>2. ASSUME NEW s \in Seq(P), InsertsAs(d, p, max, s)
      PROVE  /\ Held(Added(d, p, max)) \subseteq Held(d) \cup {p}
             /\ ~IsFull(d, max) => /\ Held(d) \subseteq Held(Added(d, p, max))
                                   /\ Len(Added(d, p, max)) <= Len(d) + 1
  <2>1. Held(s) = Held(d) \cup {p} /\ Sorted(s) /\ Len(s) = Len(d) + 1
    BY <1>2 DEF InsertsAs
  <2>2. CASE ~IsFull(d, max) /\ Added(d, p, max) = s
    BY <2>1, <2>2
  <2>3. CASE IsFull(d, max) /\ Added(d, p, max) = Tail(s)
    <3>1. s # <<>>
      BY <2>1
    <3>2. Held(Tail(s)) \subseteq Held(s)
      BY <2>1, <3>1, TailSorted
    <3> QED  BY <2>1, <2>3, <3>2
  <2> QED  BY <1>2, <2>2, <2>3 DEF InsertsAs
<1> QED  BY <1>1, <1>2, AddedCases

\* While there is room a packet's start time is in the deque afterwards.
LEMMA AddedStart ==
    ASSUME NEW P, Timed(P), NEW d \in Seq(P), Sorted(d), NEW p \in P,
           NEW max \in Nat \ {0}, ~IsFull(d, max)
    PROVE  \E q \in Held(Added(d, p, max)) : q.startTime = p.startTime
<1>1. CASE Skips(d, p, max)
  BY <1>1 DEF Skips
<1>2. ASSUME NEW s \in Seq(P), InsertsAs(d, p, max, s)
      PROVE  p \in Held(Added(d, p, max))
  BY <1>2 DEF InsertsAs
<1> QED  BY <1>1, <1>2, AddedCases

\* What a deque with room does, as far as the set of its packets goes: the
\* packet has a new start time, or it is the newest of all and has only
\* single samples beside it.
IsNewsTo(S, p) ==
    \/ \A q \in S : q.startTime # p.startTime
    \/ \A q \in S : \/ q.startTime < p.startTime
                    \/ q.startTime = p.startTime /\ q.endTime = q.startTime

\* A packet that is not the newest is dropped if its start time is taken.
LEMMA AddedTwice ==
    ASSUME NEW P, Timed(P), NEW d \in Seq(P), Sorted(d), NEW p \in P,
           NEW max \in Nat \ {0}, ~IsFull(d, max),
           ~IsNewest(d, p), NEW k \in 1..Len(d), d[k].startTime = p.startTime
    PROVE  Added(d, p, max) = d
<1> DEFINE it == StartsAtOrAfter(d, p.startTime)
           n == Len(d)
<1>1. /\ n \in Nat /\ 1 \in 1..n /\ d # <<>>
      /\ p.startTime \in Int /\ p.endTime \in Int /\ p.startTime <= p.endTime
      /\ d[1].startTime \in Int
  BY EmptySeq DEF Timed
<1>2. /\ it \in 1..(n + 1)
      /\ \A j \in 1..n : j >= it <=> d[j].startTime >= p.startTime
  BY <1>1, StartsAtOrAfterProperty
<1> HIDE DEF it
<1>3. it \in 1..n /\ it <= k
  BY <1>1, <1>2
<1>4. d[it].startTime = p.startTime
  <2>1. d[it].startTime <= d[k].startTime
    BY <1>3, StartsNondecreasing
  <2>2. d[it].startTime >= p.startTime
    BY <1>2, <1>3
  <2>3. d[it].startTime \in Int
    BY <1>3 DEF Timed
  <2> QED  BY <1>1, <2>1, <2>2, <2>3
<1>5. p.endTime <= d[1].startTime => d[1].startTime = p.startTime
  <2>1. d[1].startTime <= d[k].startTime
    BY <1>1, StartsNondecreasing
  <2> QED  BY <1>1, <2>1
<1>6. p.endTime <= d[1].startTime => IsSkippedAtFront(d, p, max)
  BY <1>5 DEF IsSkippedAtFront
<1> QED  BY <1>1, <1>4, <1>6 DEF Added, it

\* As a set, a deque with room gains the packet if it is news, and stays as
\* it is otherwise.
LEMMA AddedAsSet ==
    ASSUME NEW P, Timed(P), NEW d \in Seq(P), Sorted(d), NEW p \in P,
           NEW max \in Nat \ {0}, ~IsFull(d, max)
    PROVE  Held(Added(d, p, max)) =
               IF IsNewsTo(Held(d), p) THEN Held(d) \cup {p} ELSE Held(d)
<1> DEFINE n == Len(d)
<1>1. /\ n \in Nat
      /\ p.startTime \in Int /\ p.endTime \in Int
      /\ \A i \in 1..n : /\ d[i].startTime \in Int /\ d[i].endTime \in Int
                         /\ d[i].startTime <= d[i].endTime
  BY DEF Timed
<1>2. CASE d = <<>>
  <2>1. Added(d, p, max) = <<p>> /\ Len(d) = 0
    BY <1>2 DEF Added
  <2>2. Held(d) = {} /\ Held(<<p>>) = {p}
    BY <2>1 DEF Held
  <2> QED  BY <2>1, <2>2 DEF IsNewsTo
<1>3. CASE d # <<>> /\ IsNewest(d, p)
  <2>1. PICK s \in Seq(P) : InsertsAs(d, p, max, s)
    BY <1>3, AppendCase
  <2>2. Held(Added(d, p, max)) = Held(d) \cup {p}
    BY <2>1 DEF InsertsAs
  <2>3. n \in 1..n /\ Back(d) = d[n]
    BY <1>1, <1>3, EmptySeq DEF Back
  <2>4. /\ d[n].startTime <= p.startTime
        /\ d[n].startTime = p.startTime => d[n].endTime = d[n].startTime
    BY <1>1, <1>3, <2>3 DEF IsNewest
  <2>5. ASSUME NEW i \in 1..n
        PROVE  \/ d[i].startTime < p.startTime
               \/ d[i].startTime = p.startTime /\ d[i].endTime = d[i].startTime
    <3>1. CASE i = n
      BY <1>1, <2>4, <3>1
    <3>2. CASE i # n
      <4>1. Precedes(d[i], d[n])
        BY <1>1, <2>3, <3>2 DEF Sorted
      <4> QED  BY <1>1, <2>3, <2>4, <4>1 DEF Precedes
    <3> QED  BY <3>1, <3>2
  <2>6. IsNewsTo(Held(d), p)
    BY <2>5 DEF IsNewsTo, Held
  <2> QED  BY <2>2, <2>6
<1>4. CASE d # <<>> /\ ~IsNewest(d, p)
  <2>1. n \in 1..n /\ Back(d) = d[n] /\ d[n] \in Held(d)
    BY <1>1, <1>4, EmptySeq DEF Back, Held
  <2>2. /\ ~(d[n].startTime < p.startTime)
        /\ ~(d[n].startTime = p.startTime /\ d[n].endTime = d[n].startTime)
    BY <1>1, <1>4, <2>1 DEF IsNewest
  <2>3. IsNewsTo(Held(d), p) <=> \A q \in Held(d) : q.startTime # p.startTime
    BY <2>1, <2>2 DEF IsNewsTo
  <2>4. CASE \E q \in Held(d) : q.startTime = p.startTime
    <3>1. PICK k \in 1..n : d[k].startTime = p.startTime
      BY <2>4 DEF Held
    <3>2. Added(d, p, max) = d
      BY <1>4, <3>1, AddedTwice
    <3> QED  BY <2>3, <2>4, <3>2
  <2>5. CASE \A q \in Held(d) : q.startTime # p.startTime
    <3>1. ~Skips(d, p, max)
      BY <2>5 DEF Skips
    <3>2. PICK s \in Seq(P) : InsertsAs(d, p, max, s)
      BY <3>1, AddedCases
    <3>3. Held(Added(d, p, max)) = Held(d) \cup {p}
      BY <3>2 DEF InsertsAs
    <3> QED  BY <2>3, <2>5, <3>3
  <2> QED  BY <2>4, <2>5
<1> QED  BY <1>2, <1>3, <1>4

-----------------------------------------------------------------------------
(* getPackets                                                              *)

\* Where the two iterators of a query point, when the first search finds a
\* packet: all packets from the first one on reach the query's start, and
\* those before the last one are those that start by the query's end.
LEMMA IteratorsProperty ==
    ASSUME NEW P, Timed(P), NEW d \in Seq(P), Sorted(d), d # <<>>,
           NEW qs \in Int, NEW qe \in Int, qs <= qe,
           StartsAtOrAfter(d, qs) <= Len(d)
    PROVE  LET it == StartsAtOrAfter(d, qs)
               it0 == FirstMatch(d, qs)
               it1 == EndMatch(d, qe)
           IN  /\ it \in 1..Len(d) /\ it0 \in 1..Len(d) /\ it1 \in 1..(Len(d) + 1)
               /\ it0 <= it1
               /\ it0 = it \/ (it0 = it - 1 /\ d[it].startTime > qs)
               /\ \A j \in 1..Len(d) : j >= it <=> d[j].startTime >= qs
               /\ \A j \in 1..Len(d) : j >= it0 => qs <= d[j].endTime
               /\ \A j \in 1..Len(d) : j < it1 <=> d[j].startTime <= qe
<1> DEFINE n == Len(d)
           it == StartsAtOrAfter(d, qs)
           it0 == FirstMatch(d, qs)
           it1 == EndMatch(d, qe)
           after == StartsAfter(d, qe)
<1>1. /\ n \in Nat \ {0} /\ n \in 1..n
      /\ \A j \in 1..n : /\ d[j].startTime \in Int /\ d[j].endTime \in Int
                         /\ d[j].startTime <= d[j].endTime
  <2>1. n \in Nat \ {0}
    BY EmptySeq
  <2> QED  BY <2>1 DEF Timed
<1>2. /\ it \in 1..n
      /\ \A j \in 1..n : j >= it <=> d[j].startTime >= qs
  <2>1. /\ it \in 1..(n + 1)
        /\ \A j \in 1..n : j >= it <=> d[j].startTime >= qs
    BY StartsAtOrAfterProperty
  <2> HIDE DEF it
  <2> QED  BY <1>1, <2>1 DEF it
<1>3. /\ after \in 1..(n + 1)
      /\ \A j \in 1..n : j >= after <=> d[j].startTime > qe
  BY StartsAfterProperty
<1>4. /\ it0 \in 1..n
      /\ \/ it0 = it
         \/ it0 = it - 1 /\ d[it].startTime > qs /\ ~(d[it0].endTime < qs)
  <2> HIDE DEF it
  <2>1. \/ it0 = it
        \/ /\ it \in 2..n /\ d[it].startTime > qs
           /\ ~(d[it - 1].endTime < qs) /\ it0 = it - 1
    BY DEF FirstMatch, it
  <2> HIDE DEF it0
  <2> QED  BY <1>1, <1>2, <2>1
<1>5. /\ it1 \in 1..(n + 1)
      /\ \A j \in 1..n : j < it1 <=> d[j].startTime <= qe
  <2>1. CASE qe < Back(d).startTime
    <3>1. it1 = after
      BY <2>1 DEF EndMatch
    <3> HIDE DEF it1, after
    <3> QED  BY <1>1, <1>3, <3>1
  <2>2. CASE ~(qe < Back(d).startTime)
    <3>1. it1 = n + 1
      BY <2>2 DEF EndMatch
    <3>2. \A j \in 1..n : d[j].startTime <= d[n].startTime
      BY <1>1, StartsNondecreasing
    <3>3. d[n].startTime <= qe
      BY <1>1, <2>2 DEF Back
    <3> HIDE DEF it1
    <3> QED  BY <1>1, <3>1, <3>2, <3>3
  <2> QED  BY <2>1, <2>2
<1> HIDE DEF it, it0, it1, after
<1>6. it0 <= it1
  <2>1. it0 <= it
    BY <1>2, <1>4
  <2>2. CASE it1 \in 1..n
    <3>1. d[it1].startTime > qe
      BY <1>1, <1>5, <2>2
    <3>2. it1 >= it
      BY <1>1, <1>2, <2>2, <3>1
    <3> QED  BY <1>2, <1>4, <2>1, <2>2, <3>2
  <2>3. CASE it1 = n + 1
    BY <1>1, <1>4, <2>3
  <2> QED  BY <1>1, <1>5, <2>2, <2>3
<1>7. \A j \in 1..n : j >= it0 => qs <= d[j].endTime
  <2> SUFFICES ASSUME NEW j \in 1..n, j >= it0
               PROVE  qs <= d[j].endTime
    OBVIOUS
  <2>1. CASE j >= it
    BY <1>1, <1>2, <2>1
  <2>2. CASE j < it
    <3>1. j = it0 /\ ~(d[it0].endTime < qs)
      BY <1>2, <1>4, <2>2
    <3> QED  BY <1>1, <3>1
  <2> QED  BY <1>2, <2>1, <2>2
<1> QED  BY <1>2, <1>4, <1>5, <1>6, <1>7 DEF n, it, it0, it1

\* The copy loop stops at the first packet that reaches the query's end, or
\* at the last candidate.
LEMMA CopiedUpToProperty ==
    ASSUME NEW P, Timed(P), NEW d \in Seq(P), NEW qe \in Int,
           NEW it0 \in 1..Len(d), NEW it1 \in 1..(Len(d) + 1), it0 < it1
    PROVE  LET k == CopiedUpTo(d, it0, it1, qe)
           IN  /\ k \in it0..(it1 - 1)
               /\ k = it1 - 1 \/ qe <= d[k].endTime
<1> DEFINE S == {k \in it0..(it1 - 1) : k = it1 - 1 \/ qe <= d[k].endTime}
<1>1. PICK m \in S : \A j \in S : m <= j
  <2>1. IsFiniteSet(it0..(it1 - 1))
    BY FS_Interval
  <2>2. IsFiniteSet(S) /\ \A x \in S : x \in Int
    BY <2>1, FS_Subset
  <2>3. it1 - 1 \in S
    OBVIOUS
  <2>4. S # {}
    BY <2>3
  <2> HIDE DEF S
  <2> QED  BY <2>2, <2>4, LeastElement
<1>2. \A j \in it0..(m - 1) : d[j].endTime < qe
  <2> SUFFICES ASSUME NEW j \in it0..(m - 1)
               PROVE  d[j].endTime < qe
    OBVIOUS
  <2>1. m \in it0..(it1 - 1)
    BY <1>1
  <2>2. j \in it0..(it1 - 1) /\ j # it1 - 1 /\ j \in 1..Len(d) /\ ~(m <= j)
    BY <2>1
  <2>3. j \notin S
    BY <1>1, <2>2
  <2>4. d[j].endTime \in Int
    BY <2>2 DEF Timed
  <2> QED  BY <2>2, <2>3, <2>4
<1>3. \E k \in it0..(it1 - 1) :
          /\ \A j \in it0..(k - 1) : d[j].endTime < qe
          /\ k = it1 - 1 \/ qe <= d[k].endTime
  BY <1>1, <1>2
<1> QED  BY <1>3 DEF CopiedUpTo

\* A range of a deque that is not empty.
LEMMA RangeProperty ==
    ASSUME NEW P, NEW d \in Seq(P), NEW i \in 1..Len(d), NEW k \in i..Len(d)
    PROVE  /\ SubSeq(d, i, k) \in Seq(P)
           /\ Len(SubSeq(d, i, k)) = k - i + 1
           /\ \A m \in 1..(k - i + 1) :
                 /\ i + m - 1 \in i..k
                 /\ i + m - 1 \in 1..Len(d)
                 /\ SubSeq(d, i, k)[m] = d[i + m - 1]
           /\ \A j \in i..k : d[j] \in Held(SubSeq(d, i, k))
           /\ \A q \in Held(SubSeq(d, i, k)) : \E j \in i..k : q = d[j]
           /\ Sorted(d) => Sorted(SubSeq(d, i, k))
<1> DEFINE s == SubSeq(d, i, k)
<1>1. /\ s \in Seq(P) /\ Len(s) = k - i + 1
      /\ \A m \in 1..(k - i + 1) : s[m] = d[i + m - 1]
  BY SubSeqProperties
<1>2. \A m \in 1..(k - i + 1) : i + m - 1 \in i..k /\ i + m - 1 \in 1..Len(d)
  OBVIOUS
<1> HIDE DEF s
<1>3. \A j \in i..k : d[j] \in Held(s)
  <2> SUFFICES ASSUME NEW j \in i..k
               PROVE  d[j] \in Held(s)
    OBVIOUS
  <2>1. j - i + 1 \in 1..Len(s) /\ i + (j - i + 1) - 1 = j
    BY <1>1
  <2>2. s[j - i + 1] = d[j]
    BY <1>1, <2>1
  <2> QED  BY <2>1, <2>2 DEF Held
<1>4. \A q \in Held(s) : \E j \in i..k : q = d[j]
  BY <1>1, <1>2 DEF Held
<1>5. ASSUME Sorted(d)
      PROVE  Sorted(s)
  <2> SUFFICES ASSUME NEW l \in 1..Len(s), NEW m \in 1..Len(s), l < m
               PROVE  Precedes(s[l], s[m])
    BY DEF Sorted
  <2>1. i + l - 1 \in 1..Len(d) /\ i + m - 1 \in 1..Len(d) /\ i + l - 1 < i + m - 1
    BY <1>1, <1>2
  <2> QED  BY <1>1, <1>5, <2>1 DEF Sorted
<1> QED  BY <1>1, <1>2, <1>3, <1>4, <1>5 DEF s

\* A sequence of one element.
LEMMA SingletonProperty ==
    ASSUME NEW P, NEW s \in Seq(P), Len(s) = 1
    PROVE  s = <<s[1]>>
OBVIOUS

\* A reply is empty when every packet starts before the query, and else a
\* range of the deque from the first match on, which ends at the first
\* match, at the last candidate or at the query's end.
LEMMA ReplyProperty ==
    ASSUME NEW P, Timed(P), NEW d \in Seq(P), Sorted(d),
           NEW qs \in Int, NEW qe \in Int, qs <= qe
    PROVE  LET reply == GetPackets(d, qs, qe)
               it0 == FirstMatch(d, qs)
               it1 == EndMatch(d, qe)
           IN  \/ /\ d = <<>> \/ StartsAtOrAfter(d, qs) = Len(d) + 1
                  /\ reply = <<>>
               \/ /\ d # <<>> /\ StartsAtOrAfter(d, qs) <= Len(d)
                  /\ \E k \in it0..Len(d) :
                       /\ reply = SubSeq(d, it0, k)
                       /\ \/ k = it0 /\ (qs = qe \/ it0 = it1)
                          \/ /\ k < it1 /\ it0 < it1
                             /\ k = it1 - 1 \/ qe <= d[k].endTime
<1> DEFINE reply == GetPackets(d, qs, qe)
           it == StartsAtOrAfter(d, qs)
           it0 == FirstMatch(d, qs)
           it1 == EndMatch(d, qe)
           n == Len(d)
<1>1. n \in Nat /\ it \in 1..(n + 1)
  BY StartsAtOrAfterProperty
<1>2. CASE d = <<>> \/ it = n + 1
  BY <1>2 DEF GetPackets
<1>3. CASE d # <<>> /\ it # n + 1
  <2> HIDE DEF n, it
  <2>1. it <= n
    BY <1>1, <1>3
  <2>2. it0 \in 1..n /\ it1 \in 1..(n + 1) /\ it0 <= it1
    BY <1>3, <2>1, IteratorsProperty DEF n, it
  <2>3. CASE qs = qe \/ it0 = it1
    <3>1. reply = <<d[it0]>>
      BY <1>3, <2>3 DEF GetPackets, n, it
    <3> HIDE DEF reply, it0, it1
    <3>2. SubSeq(d, it0, it0) = <<d[it0]>>
      <4>1. it0 \in it0..Len(d)
        BY <2>2 DEF n
      <4>2. /\ SubSeq(d, it0, it0) \in Seq(P)
            /\ Len(SubSeq(d, it0, it0)) = 1
            /\ SubSeq(d, it0, it0)[1] = d[it0]
        <5>1. 1 \in 1..(it0 - it0 + 1) /\ it0 + 1 - 1 = it0 /\ it0 - it0 + 1 = 1
          BY <2>2
        <5> QED  BY <2>2, <4>1, <5>1, RangeProperty DEF n
      <4> DEFINE s == SubSeq(d, it0, it0)
      <4> HIDE DEF s
      <4>3. s = <<s[1]>>
        BY <4>2, SingletonProperty DEF s
      <4> QED  BY <4>2, <4>3 DEF s
    <3>3. it0 \in it0..n
      BY <1>1, <2>2
    <3> QED  BY <1>3, <2>1, <2>3, <3>1, <3>2, <3>3 DEF reply, it0, it1, n, it
  <2>4. CASE ~(qs = qe \/ it0 = it1)
    <3> DEFINE k == CopiedUpTo(d, it0, it1, qe)
    <3>1. it0 < it1 /\ ~(it1 < it0)
      BY <1>1, <2>2, <2>4
    <3>2. reply = SubSeq(d, it0, k)
      BY <1>3, <2>4, <3>1 DEF GetPackets, n, it
    <3>3. k \in it0..(it1 - 1) /\ (k = it1 - 1 \/ qe <= d[k].endTime)
      BY <2>2, <3>1, CopiedUpToProperty DEF n
    <3> HIDE DEF reply, it0, it1, k
    <3>4. k \in it0..n /\ k < it1
      BY <1>1, <2>2, <3>3
    <3> QED  BY <1>3, <2>1, <3>1, <3>2, <3>3, <3>4 DEF reply, it0, it1, n, it
  <2> QED  BY <2>3, <2>4
<1> QED  BY <1>1, <1>2, <1>3

\* A reply is a sorted sequence of packets that reach into the query.
LEMMA ReplySorted ==
    ASSUME NEW P, Timed(P), NEW d \in Seq(P), Sorted(d),
           NEW qs \in Int, NEW qe \in Int, qs <= qe
    PROVE  LET reply == GetPackets(d, qs, qe)
           IN  /\ reply \in Seq(P)
               /\ Sorted(reply)
               /\ \A k \in 1..Len(reply) : qs <= reply[k].endTime
<1> DEFINE reply == GetPackets(d, qs, qe)
           it0 == FirstMatch(d, qs)
<1>1. CASE reply = <<>>
  BY <1>1 DEF Sorted
<1>2. ASSUME d # <<>>, StartsAtOrAfter(d, qs) <= Len(d),
             NEW k \in it0..Len(d), reply = SubSeq(d, it0, k)
      PROVE  /\ reply \in Seq(P)
             /\ Sorted(reply)
             /\ \A m \in 1..Len(reply) : qs <= reply[m].endTime
  <2>1. /\ it0 \in 1..Len(d)
        /\ \A j \in 1..Len(d) : j >= it0 => qs <= d[j].endTime
    BY <1>2, IteratorsProperty
  <2> HIDE DEF it0, reply
  <2>2. /\ reply \in Seq(P) /\ Sorted(reply)
        /\ Len(reply) = k - it0 + 1
        /\ \A m \in 1..(k - it0 + 1) : /\ it0 + m - 1 \in it0..k
                                       /\ it0 + m - 1 \in 1..Len(d)
                                       /\ reply[m] = d[it0 + m - 1]
    BY <1>2, <2>1, RangeProperty
  <2>3. ASSUME NEW m \in 1..Len(reply)
        PROVE  qs <= reply[m].endTime
    <3>1. /\ it0 + m - 1 \in 1..Len(d) /\ it0 + m - 1 >= it0
          /\ reply[m] = d[it0 + m - 1]
      BY <2>1, <2>2
    <3> QED  BY <2>1, <3>1
  <2> QED  BY <2>2, <2>3
<1> HIDE DEF reply, it0
<1>3. \/ reply = <<>>
      \/ /\ d # <<>> /\ StartsAtOrAfter(d, qs) <= Len(d)
         /\ \E k \in it0..Len(d) : reply = SubSeq(d, it0, k)
  BY ReplyProperty DEF reply, it0
<1> QED  BY <1>1, <1>2, <1>3 DEF reply

\* Each packet of a reply has data in the query, unless the query falls in a
\* gap of the deque: then the reply is the packet behind the gap.
LEMMA ReplyInQuery ==
    ASSUME NEW P, Timed(P), NEW d \in Seq(P), Sorted(d),
           NEW qs \in Int, NEW qe \in Int, qs <= qe
    PROVE  LET reply == GetPackets(d, qs, qe)
           IN  \/ \A k \in 1..Len(reply) : HasDataBetween(reply[k], qs, qe)
               \/ \E i \in 1..Len(d) :
                     /\ i > 1 => d[i - 1].endTime < qs
                     /\ qe < d[i].startTime
                     /\ reply = <<d[i]>>
<1> DEFINE reply == GetPackets(d, qs, qe)
           it == StartsAtOrAfter(d, qs)
           it0 == FirstMatch(d, qs)
           it1 == EndMatch(d, qe)
           n == Len(d)
<1>1. reply \in Seq(P) /\ \A k \in 1..Len(reply) : qs <= reply[k].endTime
  BY ReplySorted
<1>2. SUFFICES ASSUME NEW m \in 1..Len(reply), reply[m].startTime > qe
               PROVE  \E i \in 1..n : /\ i > 1 => d[i - 1].endTime < qs
                                      /\ qe < d[i].startTime
                                      /\ reply = <<d[i]>>
  <2>1. \A k \in 1..Len(reply) : reply[k].startTime \in Int
    <3> HIDE DEF reply
    <3> QED  BY <1>1 DEF Timed
  <2> HIDE DEF reply, n
  <2>2. \A k \in 1..Len(reply) :
            ~(reply[k].startTime > qe) => HasDataBetween(reply[k], qs, qe)
    BY <1>1, <2>1 DEF HasDataBetween
  <2> QED  BY <2>2 DEF reply, n
<1>3. /\ n \in Nat
      /\ \A j \in 1..n : d[j].startTime \in Int /\ d[j].endTime \in Int
  BY DEF Timed
<1>4. reply # <<>>
  <2> HIDE DEF reply
  <2> QED  BY <1>2
<1>5. /\ d # <<>> /\ it <= n
      /\ \E k \in it0..n : /\ reply = SubSeq(d, it0, k)
                           /\ k = it0 \/ k < it1
  <2>1. \/ /\ d = <<>> \/ it = n + 1
           /\ reply = <<>>
        \/ /\ d # <<>> /\ it <= n
           /\ \E k \in it0..n :
                /\ reply = SubSeq(d, it0, k)
                /\ \/ k = it0 /\ (qs = qe \/ it0 = it1)
                   \/ /\ k < it1 /\ it0 < it1
                      /\ k = it1 - 1 \/ qe <= d[k].endTime
    BY ReplyProperty
  <2> HIDE DEF reply, it, it0, it1, n
  <2> QED  BY <1>4, <2>1
<1>6. /\ it \in 1..n /\ it0 \in 1..n
      /\ it0 = it \/ (it0 = it - 1 /\ d[it].startTime > qs)
      /\ \A j \in 1..n : j >= it <=> d[j].startTime >= qs
      /\ \A j \in 1..n : j < it1 <=> d[j].startTime <= qe
  BY <1>5, IteratorsProperty
<1>7. PICK k \in it0..n : reply = SubSeq(d, it0, k) /\ (k = it0 \/ k < it1)
  BY <1>5
<1>8. /\ Len(reply) = k - it0 + 1
      /\ \A l \in 1..(k - it0 + 1) : /\ it0 + l - 1 \in it0..k
                                     /\ it0 + l - 1 \in 1..n
                                     /\ reply[l] = d[it0 + l - 1]
  <2> HIDE DEF it, it0, it1, reply
  <2>1. /\ Len(SubSeq(d, it0, k)) = k - it0 + 1
        /\ \A l \in 1..(k - it0 + 1) :
              /\ it0 + l - 1 \in it0..k
              /\ it0 + l - 1 \in 1..n
              /\ SubSeq(d, it0, k)[l] = d[it0 + l - 1]
    BY <1>6, RangeProperty
  <2> QED  BY <1>7, <2>1, Zenon
<1> HIDE DEF it, it0, it1, reply, n
\* All but a lone packet start by the query's end.
<1>9. k = it0
  <2> SUFFICES ASSUME k < it1
               PROVE  FALSE
    BY <1>7
  <2>1. /\ it0 + m - 1 \in it0..k /\ it0 + m - 1 \in 1..n
        /\ d[it0 + m - 1].startTime > qe
    BY <1>2, <1>8
  <2>2. it0 + m - 1 < it1
    <3>1. k \in 1..n /\ it0 + m - 1 <= k
      BY <1>3, <1>6, <1>7, <2>1
    <3>2. d[k].startTime <= qe
      BY <1>6, <3>1
    <3>3. d[it0 + m - 1].startTime <= d[k].startTime
      BY <2>1, <3>1, StartsNondecreasing DEF n
    <3> QED  BY <1>3, <1>6, <2>1, <3>1, <3>2, <3>3
  <2> QED  BY <1>3, <1>6, <2>1, <2>2
<1>10. m = 1 /\ Len(reply) = 1 /\ reply[1] = d[it0]
  <2>1. k - it0 + 1 = 1
    BY <1>6, <1>9
  <2>2. m = 1 /\ Len(reply) = 1 /\ it0 + 1 - 1 = it0
    BY <1>2, <1>6, <1>8, <2>1
  <2> QED  BY <1>8, <2>1, <2>2
<1>11. reply = <<d[it0]>>
  BY <1>1, <1>10, SingletonProperty
<1>12. qe < d[it0].startTime
  BY <1>2, <1>3, <1>6, <1>10
\* The search did not step back to it, nor past a packet that reaches qs.
<1>13. it0 = it
  <2>1. d[it0].startTime >= qs
    BY <1>3, <1>6, <1>12
  <2> QED  BY <1>6, <2>1
<1>14. ASSUME it0 > 1
       PROVE  d[it0 - 1].endTime < qs
  <2>1. d[it].startTime > qs /\ it > 1
    BY <1>3, <1>6, <1>12, <1>13, <1>14
  <2>2. it \in 2..Len(d)
    BY <1>3, <1>6, <2>1 DEF n
  <2>3. ~(d[it - 1].endTime < qs) => it0 = it - 1
    BY <2>1, <2>2 DEF FirstMatch, it, it0
  <2> QED  BY <1>6, <1>13, <2>3
<1> QED  BY <1>6, <1>11, <1>12, <1>14 DEF reply, n

\* A packet that starts with the query is in the reply, or one with its start
\* time is: the search lands on the first of them and does not step back.
LEMMA ReplyHasStart ==
    ASSUME NEW P, Timed(P), NEW d \in Seq(P), Sorted(d),
           NEW qs \in Int, NEW qe \in Int, qs <= qe,
           NEW j \in 1..Len(d), d[j].startTime = qs
    PROVE  \E r \in Held(GetPackets(d, qs, qe)) : r.startTime = qs
<1> DEFINE reply == GetPackets(d, qs, qe)
           it == StartsAtOrAfter(d, qs)
           it0 == FirstMatch(d, qs)
           it1 == EndMatch(d, qe)
<1>1. /\ it \in 1..(Len(d) + 1)
      /\ \A i \in 1..Len(d) : i >= it <=> d[i].startTime >= qs
  BY StartsAtOrAfterProperty
<1>0. Len(d) \in Nat /\ d # <<>>
  OBVIOUS
<1> HIDE DEF it
<1>2. it <= j /\ it \in 1..Len(d)
  BY <1>1
<1>3. d[it].startTime = qs
  <2>1. d[it].startTime <= d[j].startTime
    BY <1>2, StartsNondecreasing
  <2>2. d[it].startTime >= qs /\ d[it].startTime \in Int
    BY <1>1, <1>2 DEF Timed
  <2> QED  BY <2>1, <2>2
<1>4. it0 = it
  BY <1>3 DEF FirstMatch, it
<1>5. \E k \in it..Len(d) : reply = SubSeq(d, it, k)
  <2>1. \/ /\ d = <<>> \/ it = Len(d) + 1
           /\ reply = <<>>
        \/ /\ d # <<>> /\ it <= Len(d)
           /\ \E k \in it0..Len(d) :
                /\ reply = SubSeq(d, it0, k)
                /\ \/ k = it0 /\ (qs = qe \/ it0 = it1)
                   \/ /\ k < it1 /\ it0 < it1
                      /\ k = it1 - 1 \/ qe <= d[k].endTime
    BY ReplyProperty DEF it
  <2> HIDE DEF reply, it0, it1
  <2> QED  BY <1>0, <1>1, <1>2, <1>4, <2>1
<1> HIDE DEF reply, it0, it1
<1>6. d[it] \in Held(reply)
  <2>1. PICK k \in it..Len(d) : reply = SubSeq(d, it, k)
    BY <1>5
  <2>2. it \in it..k
    BY <1>2
  <2>3. \A i \in it..k : d[i] \in Held(SubSeq(d, it, k))
    BY <1>2, RangeProperty
  <2> QED  BY <2>1, <2>2, <2>3
<1> QED  BY <1>3, <1>6 DEF reply
=============================================================================
