------------------------------- MODULE GameEngine -----------------------------
(***************************************************************************)
(* The rules engine (game-core) as a started game's session sees it: a     *)
(* deterministic machine that asks, accepts or rejects an answer, and      *)
(* draws from a seeded RNG.                                                *)
(***************************************************************************)
EXTENDS Naturals

CONSTANTS
    Accounts, Members, Creator, Investigators, Responses,
    States,             \* the engine's states
    Opened,             \* the state scenario setup leaves
    Awaiting(_),        \* whether it awaits an answer in a state
    Accepts(_, _),      \* whether it accepts an answer there, and the log can
                        \* record it
    Step(_, _),         \* the state it then goes to
    Draws(_)            \* how often its RNG has drawn in a state

Answer == [investigator : Investigators, response : Responses]

ASSUME EngineAssumption ==
    /\ Creator \in Members
    /\ Members \subseteq Accounts
    /\ Opened \in States
    /\ \A s \in States : Draws(s) \in Nat
    /\ \A s \in States, a \in Answer :
          Accepts(s, a) => Awaiting(s) /\ Step(s, a) \in States

\* A log with an entry at position n.
Extend(l, n, entry) == [k \in DOMAIN l \cup {n} |-> IF k = n THEN entry ELSE l[k]]
===============================================================================
