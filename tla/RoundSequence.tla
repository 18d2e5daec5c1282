----------------------------- MODULE RoundSequence -----------------------------
(***************************************************************************)
(* What the framework promises of a game's rounds.  The phases follow each *)
(* other; each phase has a part every player takes once, drawing an        *)
(* encounter card, a turn, the attacks on them, the upkeep draw.  Outside  *)
(* the Investigation phase they take it in player order.  No phase ends    *)
(* before every player still in the game has taken its part, a player who  *)
(* is out takes none, and once the scenario has ended nothing follows.     *)
(***************************************************************************)
EXTENDS Integers, Sequences

CONSTANT Order      \* the seating, from the lead on

VARIABLES
    phase,
    in,         \* the investigators still in the game
    taken,      \* who has taken their part of the phase, in order
    over        \* whether the scenario has ended

vars == <<phase, in, taken, over>>

Elems(s) == {s[k] : k \in DOMAIN s}
Everyone == Elems(Order)

Following(p) ==
    CASE p = "Mythos" -> "Investigation" [] p = "Investigation" -> "Enemy"
      [] p = "Enemy" -> "Upkeep" [] p = "Upkeep" -> "Mythos"

Before(k) == {Order[j] : j \in 1..(k - 1)}

Init == phase = "Investigation" /\ in = Everyone /\ taken = <<>> /\ over = FALSE

TakePart(k) ==
    /\ ~over /\ Order[k] \in in \ Elems(taken)
    /\ phase # "Investigation" => Before(k) \cap in \subseteq Elems(taken)
    /\ taken' = Append(taken, Order[k]) /\ UNCHANGED <<phase, in, over>>

NextPhase ==
    /\ ~over /\ in # {} /\ in \subseteq Elems(taken)
    /\ phase' = Following(phase) /\ taken' = <<>> /\ UNCHANGED <<in, over>>

\* The last to go may end the scenario as they go.
Out(i) ==
    /\ i \in in /\ in' = in \ {i}
    /\ over' \in {over, over \/ in' = {}} /\ UNCHANGED <<phase, taken>>

End == ~over /\ over' = TRUE /\ UNCHANGED <<phase, in, taken>>

Next == NextPhase \/ End \/ (\E k \in DOMAIN Order : TakePart(k)) \/ \E i \in Everyone : Out(i)

Spec == Init /\ [][Next]_vars
================================================================================
