---------------------------- MODULE StreamNames -----------------------------
(***************************************************************************)
(* The names of streams (src/src/utilities.cpp): an identifier's network,  *)
(* station, channel and location code joined by dots, and a name taken     *)
(* apart again.                                                            *)
(*                                                                         *)
(* A text is the sequence of the pieces between its dots, so that joining  *)
(* two texts by a dot is their concatenation.  The empty text is one empty *)
(* piece; a field that is not set is no piece.                             *)
(***************************************************************************)
EXTENDS Integers, Sequences

CONSTANTS
    Piece,          \* texts without a dot
    Canonical       \* what removing blanks and toupper make of each

ASSUME NamesAssumption ==
    /\ {"", "--"} \subseteq Piece
    /\ Canonical \in [Piece -> Piece]
    /\ \A piece \in Piece : Canonical[Canonical[piece]] = Canonical[piece]
    /\ Canonical[""] = "" /\ Canonical["--"] = "--"

Unset == <<>>
Empty == <<"">>

Identifier == [network : Seq(Piece), station : Seq(Piece), channel : Seq(Piece),
               location : Seq(Piece)]

\* What toString throws about: blanks are still there when it looks.
ToStringRefuses(identifier) ==
    \E part \in {"network", "station", "channel"} :
        identifier[part] \in {Unset, Empty}

Location(identifier) ==
    IF identifier.location \in {Unset, Empty} THEN <<"--">> ELSE identifier.location

ToString(identifier) ==
    LET name == identifier.network \o identifier.station \o identifier.channel
                    \o Location(identifier)
    IN  [i \in 1..Len(name) |-> Canonical[name[i]]]

\* A name whose parts have dots of their own cannot be taken apart.
FromStringRefuses(name) == Len(name) \notin {3, 4}

FromString(name) ==
    [network |-> <<name[1]>>, station |-> <<name[2]>>, channel |-> <<name[3]>>,
     location |-> IF Len(name) = 4 THEN <<name[4]>> ELSE <<"--">>]

\* A part of blanks only leaves an empty piece in the name.
HasBlankPart(identifier) ==
    \E part \in {"network", "station", "channel", "location"} :
        identifier[part] = Empty
=============================================================================
