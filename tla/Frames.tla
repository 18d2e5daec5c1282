--------------------------------- MODULE Frames --------------------------------
(***************************************************************************)
(* The continuation frames of the engine (game-core/src/state/             *)
(* continuation.rs) that carry a game round: each frame's kind and where   *)
(* it stands, and the two facts the drive loop reads off it, its profile.  *)
(*                                                                         *)
(* A frame has every field; those its kind does not use hold None, <<>>    *)
(* and 0.  An ability is one frame, Ability, whatever it takes to resolve: *)
(* its effect frames, a skill test or a deal of damage.  It may ask, and   *)
(* the game's end lets it finish; so do the frames it stands for.          *)
(***************************************************************************)
EXTENDS Seating

Phases == {"Mythos", "Investigation", "Enemy", "Upkeep"}

Frame(kind, at, who, queue, n) ==
    [kind |-> kind, at |-> at, who |-> who, queue |-> queue, n |-> n]
Plain(kind, at) == Frame(kind, at, None, <<>>, 0)
Of(kind, at, who) == Frame(kind, at, who, <<>>, 0)
Asking(kind, queue) == Frame(kind, "", None, queue, 0)

Entry(phase) == Plain(phase, "Entry")
Emit == Plain("Emit", "Queued")
FastWindow == Plain("FastWindow", "")
Ability(at) == Plain("Ability", at)
EngagementTie == Plain("EngagementTie", "")

IsPhaseAnchor(f) == f.kind \in Phases
IsQueuedAbility(f) == f.kind \in {"Emit", "Ability", "Reaction", "Elimination"}

\* `n` is 1 while the turn owes its player window.
AwaitsMenu(f) == f.at = "Open" /\ f.n = 0

AwaitsInput(f) ==
    \/ f.kind \in {"Mulligan", "TurnChoice", "EncounterDraw", "HandSizeDiscard",
                   "HunterMove", "EngagementTie", "FastWindow", "Reaction"}
    \/ f.kind = "InvestigatorTurn" /\ AwaitsMenu(f)
    \/ f.kind \in {"AttackLoop", "OpportunityAttacks"} /\ f.at = "PickOrder"
    \/ f.kind = "Ability" /\ f.at = "Asks"
    \/ f.kind = "AdvanceReverse" /\ f.at = "AwaitAck"

CancelledByScenarioEnd(f) ==
    \/ IsPhaseAnchor(f)
    \/ f.kind \in {"Mulligan", "TurnChoice", "EncounterDraw", "HandSizeDiscard",
                   "HunterMove", "EngagementTie", "FastWindow", "Reaction",
                   "InvestigatorTurn", "AttackLoop", "OpportunityAttacks", "PlayerDraw"}
================================================================================
