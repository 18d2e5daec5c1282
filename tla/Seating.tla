--------------------------------- MODULE Seating -------------------------------
(***************************************************************************)
(* The seating and the walks over it (game-core/src/engine/dispatch/       *)
(* cursor.rs): every step taken in player order goes through the players   *)
(* still in the game, from the lead on.                                    *)
(***************************************************************************)
EXTENDS Integers, Sequences, FiniteSets

CONSTANTS
    Order,      \* the seating, from the lead on
    None

Elems(s) == {s[k] : k \in DOMAIN s}
Investigators == Elems(Order)

ASSUME OrderAssumption ==
    /\ Order \in Seq(Investigators) /\ Order # <<>>
    /\ \A j, k \in DOMAIN Order : Order[j] = Order[k] => j = k
    /\ None \notin Investigators

Active(status) == {i \in Investigators : status[i] = "Active"}

\* The elements of s that are in S, in their order.
Among(s, S) ==
    LET among[k \in 0..Len(s)] ==
            IF k = 0 THEN <<>>
            ELSE IF s[k] \in S THEN Append(among[k - 1], s[k]) ELSE among[k - 1]
    IN  among[Len(s)]

PlayerOrder(status) == Among(Order, Active(status))
Position(i) == CHOOSE k \in DOMAIN Order : Order[k] = i
FirstOf(S) == IF S = {} THEN None ELSE CHOOSE i \in S : \A j \in S : Position(i) <= Position(j)
FirstInPlayerOrder(status) == FirstOf(Active(status))
NextInPlayerOrder(status, i) == FirstOf({j \in Active(status) : Position(j) > Position(i)})
================================================================================
