--------------------------- MODULE MCStreamDeque ---------------------------
(***************************************************************************)
(* Instances of StreamDeque for TLC.  Starts and lengths are chosen so     *)
(* that packets can be duplicates, overlap, touch, leave gaps and contain  *)
(* each other, and that a full deque meets newer, older and middle ones.   *)
(***************************************************************************)
EXTENDS StreamDeque

CONSTANTS LastStart, Lengths, Data

MCPacket ==
    {[startTime |-> s, endTime |-> s + l, data |-> x] :
        s \in 0..LastStart, l \in Lengths, x \in Data}

\* Queries and expiry may lie before and after all packets.
MCInstant == -1..(LastStart + 3)

\* SubsequenceAt is the filter std::erase_if performs, here against the
\* library's SelectSeq for every deque of up to three packets.
ASSUME ErasesLikeSelectSeq ==
    \A n \in 0..3 : \A d \in [1..n -> [startTime : 0..1, endTime : 0..2]] :
        \A t \in 0..3 :
            LET Keep(p) == p.endTime >= t
            IN  Unexpired(d, t) = SelectSeq(d, Keep)
=============================================================================
