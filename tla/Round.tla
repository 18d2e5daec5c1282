---------------------------------- MODULE Round --------------------------------
(***************************************************************************)
(* The engine's drive loop (game-core/src/engine/dispatch/mod.rs) running  *)
(* a game's rounds over the continuation stack: the phases (phases.rs),    *)
(* the encounter draws, the attack loop, eliminations and the scenario's   *)
(* ending.  The top of the stack is its head.                              *)
(*                                                                         *)
(* An apply answers the prompt on top and drives until a prompt is on top  *)
(* again or the game is over.  Each pass of the loop is one action here,   *)
(* and so is each answer accepted.  An apply that is rejected leaves the   *)
(* state as it was and is no step.                                         *)
(*                                                                         *)
(* What an emit queues is at most one ability or reaction window; what an  *)
(* ability does is left open: it may ask, eliminate an investigator,       *)
(* advance the act or the agenda, end the scenario, or none of these.      *)
(***************************************************************************)
EXTENDS Frames

CONSTANTS
    Surges,         \* the longest chain of encounter cards one draw may become
    Attackers,      \* the most enemies engaged with one investigator
    Hunters,        \* the hunter enemies in play
    interactive_acknowledge

ASSUME BoundAssumption ==
    /\ Surges \in Nat \ {0} /\ Attackers \in Nat /\ Hunters \in Nat
    /\ interactive_acknowledge \in BOOLEAN

VARIABLES
    stack,      \* the continuation stack, top first
    status,     \* each investigator's status
    active,     \* active_investigator
    phase,
    ending,     \* whether the scenario's ending has latched
    running,    \* whether an apply is driving the stack
    taken       \* who has taken their part of the phase, in order (history)

game == <<status, active, phase, ending, taken>>
vars == <<stack, game, running>>

Top == Head(stack)
Beneath == Tail(stack)
At(f, at) == [f EXCEPT !.at = at]

CancelsTop == ending /\ CancelledByScenarioEnd(Top)
Drives(kind, at) ==
    running /\ stack # <<>> /\ Top.kind = kind /\ Top.at = at /\ ~CancelsTop
Answers(kind) ==
    ~running /\ stack # <<>> /\ Top.kind = kind /\ running' = TRUE

\* What resolving something leaves to be resolved first: nothing, or an ability.
Effects == {<<>>, <<Ability("Acts")>>, <<Ability("Asks")>>}
Players == PlayerOrder(status)
Ties == IF Len(Players) >= 2 THEN {<<>>, <<EngagementTie>>} ELSE {<<>>}

Init ==
    /\ stack = <<Asking("Mulligan", Order)>> /\ running = FALSE
    /\ status = [i \in Investigators |-> "Active"] /\ active = None
    /\ phase = "Investigation" /\ ending = FALSE /\ taken = <<>>

------------------------------------------------------------------------------
(* The loop itself. *)

Cancel == running /\ stack # <<>> /\ CancelsTop /\ stack' = Beneath /\ UNCHANGED <<game, running>>

\* Mutant: the prompt of a cancelled frame is asked.
Rest_Cancelled ==
    running /\ stack # <<>> /\ AwaitsInput(Top) /\ running' = FALSE /\ UNCHANGED <<stack, game>>

Rest ==
    /\ running /\ stack # <<>> /\ ~CancelsTop /\ AwaitsInput(Top)
    /\ running' = FALSE /\ UNCHANGED <<stack, game>>

\* A window nobody holds a play or a reaction for is closed unasked.
CloseWindow ==
    /\ running /\ stack # <<>> /\ ~CancelsTop /\ Top.kind \in {"FastWindow", "Reaction"}
    /\ stack' = Beneath /\ UNCHANGED <<game, running>>

\* Mutant: the step is not advanced before the emit.
EmitGameEnd_NotAdvanced ==
    Drives("ScenarioEnd", "EmitGameEnd") /\ stack' = <<Emit>> \o stack /\ UNCHANGED <<game, running>>

EmitGameEnd ==
    /\ Drives("ScenarioEnd", "EmitGameEnd")
    /\ stack' = <<Emit, At(Top, "Finalize")>> \o Beneath /\ UNCHANGED <<game, running>>

FinalizeScenarioEnd ==
    /\ Drives("ScenarioEnd", "Finalize")
    /\ stack' = Beneath /\ running' = FALSE /\ UNCHANGED game

------------------------------------------------------------------------------
(* Emits and what they queue. *)

DispatchEmitEvent ==
    /\ Drives("Emit", "Queued")
    /\ \E queued \in Effects \cup {<<Plain("Reaction", "")>>} :
          stack' = queued \o <<At(Top, "Walked")>> \o Beneath
    /\ UNCHANGED <<game, running>>

EmitDone == Drives("Emit", "Walked") /\ stack' = Beneath /\ UNCHANGED <<game, running>>

AbilityDone == Drives("Ability", "Acts") /\ stack' = Beneath /\ UNCHANGED <<game, running>>

\* Mutant: a second ending latches too.
Latched_Again(s) == Append(s, Plain("ScenarioEnd", "EmitGameEnd"))

\* end_scenario: the first ending stays, and its frame goes beneath everything.
Latched(s) == IF ending THEN s ELSE Append(s, Plain("ScenarioEnd", "EmitGameEnd"))

AbilityEndsScenario ==
    /\ Drives("Ability", "Acts") /\ ~ending
    /\ stack' = Latched(Beneath) /\ ending' = TRUE
    /\ UNCHANGED <<status, active, phase, running, taken>>

Advance(trigger) == Plain("AdvanceReverse", trigger)
Advancing == \E k \in DOMAIN stack : stack[k].kind = "AdvanceReverse"

\* A reverse does not advance its own deck again.
AbilityAdvances ==
    /\ Drives("Ability", "Acts") /\ ~Advancing
    /\ \E trigger \in {"AnnounceForced", "AnnounceDeliberate"} : stack' = <<Advance(trigger)>> \o Beneath
    /\ UNCHANGED <<game, running>>

Announce ==
    /\ \E trigger \in {"AnnounceForced", "AnnounceDeliberate"} :
          /\ Drives("AdvanceReverse", trigger)
          /\ stack' = <<At(Top, IF interactive_acknowledge /\ trigger = "AnnounceForced"
                                THEN "AwaitAck" ELSE "FireReverse")>> \o Beneath
    /\ UNCHANGED <<game, running>>

FireReverse ==
    /\ Drives("AdvanceReverse", "FireReverse")
    /\ stack' = <<Emit, At(Top, "Finalize")>> \o Beneath /\ UNCHANGED <<game, running>>

FinalizeAdvance ==
    Drives("AdvanceReverse", "Finalize") /\ stack' = Beneath /\ UNCHANGED <<game, running>>

------------------------------------------------------------------------------
(* Elimination.  A weakness with a game-end ability has it resolve first,  *)
(* with the rest of the elimination parked beneath it.                     *)

\* Mutant: every frame of the investigator is armed.
EndTurnOnElimination_AnyFrame(s, i) ==
    [k \in DOMAIN s |-> IF s[k].who = i THEN At(s[k], "Ending") ELSE s[k]]

EndTurnOnElimination(s, i) ==
    [k \in DOMAIN s |->
        IF s[k].kind = "InvestigatorTurn" /\ s[k].who = i THEN At(s[k], "Ending") ELSE s[k]]

\* check_all_eliminated
AllOut(live) == live = {}

RunEliminationSteps(s, live) ==
    /\ \E tied \in IF Cardinality(live) >= 2 THEN {<<>>, <<EngagementTie>>} ELSE {<<>>} :
          stack' = IF AllOut(live) THEN Latched(tied \o s) ELSE tied \o s
    /\ ending' = (ending \/ AllOut(live))

\* Mutant: the steps count the one who goes as still in.
ApplyInvestigatorElimination_StepsFirst(i, s) ==
    /\ status' = [status EXCEPT ![i] = "Eliminated"]
    /\ RunEliminationSteps(EndTurnOnElimination(s, i), Active(status))

ApplyInvestigatorElimination(i, s) ==
    /\ status' = [status EXCEPT ![i] = "Eliminated"]
    /\ \/ RunEliminationSteps(EndTurnOnElimination(s, i), Active(status) \ {i})
       \/ /\ stack' = <<Of("Elimination", "FireWeaknessGameEnd", i)>> \o EndTurnOnElimination(s, i)
          /\ UNCHANGED ending

AbilityEliminates ==
    /\ Drives("Ability", "Acts")
    /\ \E i \in Active(status) : ApplyInvestigatorElimination(i, Beneath)
    /\ UNCHANGED <<active, phase, running, taken>>

FireWeaknessGameEnd ==
    /\ Drives("Elimination", "FireWeaknessGameEnd")
    /\ stack' = <<Emit, At(Top, "RunSteps")>> \o Beneath /\ UNCHANGED <<game, running>>

RunSteps ==
    /\ Drives("Elimination", "RunSteps")
    /\ RunEliminationSteps(Beneath, Active(status))
    /\ UNCHANGED <<status, active, phase, running, taken>>

------------------------------------------------------------------------------
(* Phases open and close.  Each parks its anchor before it emits, so that  *)
(* what the emit queues resolves above the anchor and wakes it after.      *)

\* Mutant: the emit first, the anchor over it.
Opened_EmitFirst(p, s) == <<Plain(p, "AfterPhaseStartForced"), Emit>> \o s

Opened(p, s) == <<Emit, Plain(p, "AfterPhaseStartForced")>> \o s
Ended(anchor, s) == <<Emit, At(anchor, "AfterPhaseEndForced")>> \o s

BeginPhase ==
    /\ \E p \in Phases : Drives(p, "Entry") /\ stack' = Opened(p, Beneath)
    /\ UNCHANGED <<game, running>>

\* Mutant: the anchor is pushed upon, not replaced.
Transition_Pushed(p, at, next) ==
    /\ Drives(p, at) /\ stack' = <<Entry(next)>> \o stack
    /\ phase' = next /\ taken' = <<>> /\ UNCHANGED <<status, active, ending, running>>

Transition(p, at, next) ==
    /\ Drives(p, at) /\ stack' = <<Entry(next)>> \o Beneath
    /\ phase' = next /\ taken' = <<>> /\ UNCHANGED <<status, active, ending, running>>

EndPhase ==
    \/ Transition("Mythos", "AfterPhaseEndForced", "Investigation")
    \/ Transition("Investigation", "AfterPhaseEndForced", "Enemy")
    \/ Transition("Enemy", "AfterPhaseEndForced", "Upkeep")
    \/ Transition("Upkeep", "AfterRoundEnd", "Mythos")

\* The anchors that open a player window and wait for it.
Windowed == {<<"Investigation", "AfterPhaseStartForced", "Begins">>,
             <<"Investigation", "AfterTurnBegan", "TurnBegins">>,
             <<"Upkeep", "AfterPhaseStartForced", "Begins">>}

OpenWindow ==
    /\ \E w \in Windowed :
          Drives(w[1], w[2]) /\ stack' = <<FastWindow, At(Top, w[3])>> \o Beneath
    /\ UNCHANGED <<game, running>>

------------------------------------------------------------------------------
(* Mythos. *)

MythosAfterPhaseStart ==
    /\ Drives("Mythos", "AfterPhaseStartForced")
    /\ \E advance \in {<<>>, <<Advance("AnnounceForced")>>} :   \* the doom threshold
          stack' = advance \o <<At(Top, "Draws")>> \o Beneath
    /\ UNCHANGED <<game, running>>

RunMythosDraws ==
    /\ Drives("Mythos", "Draws")
    /\ stack' = <<IF Players = <<>> THEN FastWindow ELSE Asking("EncounterDraw", Players),
                  At(Top, "AfterDraws")>> \o Beneath
    /\ UNCHANGED <<game, running>>

MythosPhaseEnd ==
    Drives("Mythos", "AfterDraws") /\ stack' = Ended(Top, Beneath) /\ UNCHANGED <<game, running>>

ResumeEncounterDraw ==
    /\ Answers("EncounterDraw")
    /\ stack' = <<Of("PlayerDraw", "Draws", Head(Top.queue))>> \o stack /\ UNCHANGED game

DrawEncounterCard ==
    /\ Drives("PlayerDraw", "Draws")
    /\ \E surge \in BOOLEAN, revelation \in Effects :
          /\ surge => Top.n + 1 < Surges
          /\ stack' = revelation
                      \o <<Plain("EncounterCard", ""),
                           [Top EXCEPT !.at = IF surge THEN "Draws" ELSE "Over", !.n = @ + 1]>>
                      \o Beneath
    /\ taken' = IF Top.n = 0 THEN Append(taken, Top.who) ELSE taken
    /\ UNCHANGED <<status, active, phase, ending, running>>

DisposeEncounterCard ==
    /\ Drives("EncounterCard", "")
    /\ \E tied \in Ties : stack' = tied \o Beneath
    /\ UNCHANGED <<game, running>>

\* Mutant: nobody is skipped.
SkipEliminated_None(q) == q

\* The queue without those at its head who are out.
SkipEliminated(q) ==
    LET in == {k \in DOMAIN q : status[q[k]] = "Active"} IN
    IF in = {} THEN <<>> ELSE SubSeq(q, CHOOSE k \in in : \A m \in in : k <= m, Len(q))

AdvanceEncounterDraw ==
    /\ Drives("PlayerDraw", "Over")
    /\ LET left == SkipEliminated(Tail(Head(Beneath).queue)) IN
       stack' = <<IF left = <<>> THEN FastWindow ELSE Asking("EncounterDraw", left)>> \o Tail(Beneath)
    /\ UNCHANGED <<game, running>>

------------------------------------------------------------------------------
(* Investigation.  The anchor's queue is turns_taken. *)

BeginInvestigatorTurn(i, anchor, s) ==
    /\ active' = i /\ taken' = Append(taken, i)
    /\ stack' = <<Emit, At(anchor, "AfterTurnBegan")>> \o s

\* Mutant: turns_taken is not read.
Waiting_All(anchor) == Players

Waiting(anchor) == Among(Players, Investigators \ Elems(anchor.queue))

NextInvestigatorTurn(anchor, s) ==
    LET waiting == Waiting(anchor) IN
    \/ /\ Len(waiting) = 0 /\ active' = None /\ UNCHANGED taken
       /\ stack' = IF Players = <<>> THEN <<anchor>> \o s ELSE Ended(anchor, s)
    \/ Len(waiting) = 1 /\ BeginInvestigatorTurn(waiting[1], anchor, s)
    \/ /\ Len(waiting) > 1 /\ active' = None /\ UNCHANGED taken
       /\ stack' = <<Asking("TurnChoice", waiting), anchor>> \o s

\* A phase with nobody Active is parked: the loop stops over its anchor.
InvestigationBegins ==
    /\ Drives("Investigation", "Begins") /\ NextInvestigatorTurn(Top, Beneath)
    /\ running' = (Players # <<>>) /\ UNCHANGED <<status, phase, ending>>

ResumeTurnChoice ==
    /\ Answers("TurnChoice")
    /\ \E i \in Elems(Top.queue) : BeginInvestigatorTurn(i, Head(Beneath), Tail(Beneath))
    /\ UNCHANGED <<status, phase, ending>>

OpenTurn ==
    /\ Drives("Investigation", "TurnBegins")
    /\ stack' = <<Of("InvestigatorTurn", "Open", active)>> \o stack /\ UNCHANGED <<game, running>>

EndTurn ==
    /\ Answers("InvestigatorTurn")
    /\ stack' = <<Emit, At(Top, "Ending")>> \o Beneath /\ UNCHANGED game

PlayerWindowOwed(turn) == [turn EXCEPT !.n = 1]

TakeAction ==
    /\ Answers("InvestigatorTurn") /\ status[Top.who] = "Active"
    /\ \E effect \in Effects : stack' = effect \o <<PlayerWindowOwed(Top)>> \o Beneath
    /\ UNCHANGED game

PlayAtOpenTurn ==
    /\ Answers("InvestigatorTurn") /\ status[Top.who] = "Active"
    /\ \E effect \in Effects \ {<<>>} : stack' = effect \o stack
    /\ UNCHANGED game

ResumeEndTurn ==
    /\ NextInvestigatorTurn([Head(Beneath) EXCEPT !.queue = Append(@, Top.who)], Tail(Beneath))
    /\ UNCHANGED <<status, phase, ending, running>>

\* Mutant: the window stays owed.
ReopenPlayerWindow_StillOwed == stack' = <<FastWindow>> \o stack /\ UNCHANGED <<game, running>>

ReopenPlayerWindow ==
    /\ stack' = <<FastWindow, [Top EXCEPT !.n = 0]>> \o Beneath /\ UNCHANGED <<game, running>>

DriveOpenTurn ==
    /\ \E at \in {"Open", "Ending"} : Drives("InvestigatorTurn", at)
    /\ ~AwaitsMenu(Top)
    /\ IF Top.n = 1 THEN ReopenPlayerWindow ELSE ResumeEndTurn

------------------------------------------------------------------------------
(* Attacks: of the enemy phase (AttackLoop), and of opportunity on an      *)
(* action that provokes them (OpportunityAttacks), the action parked       *)
(* beneath.  The frame's n counts the attackers left.                      *)

AttackWindow(i, s) ==
    <<FastWindow, Of("Enemy", IF i = None THEN "AfterAllAttacked" ELSE "BeforeInvestigatorAttacked", i)>>
    \o Tail(s)

FinishAttackLoop(kind, i, s) ==
    IF kind = "AttackLoop" THEN AttackWindow(NextInPlayerOrder(status, i), s) ELSE s

BeginHeadAttack(kind, i, n, s) == <<Emit, Frame(kind, "Attacking", i, <<>>, n)>> \o s

DriveAttackLoop(kind, i, n, s) ==
    IF i \notin Active(status) \/ n = 0 THEN FinishAttackLoop(kind, i, s)
    ELSE IF n = 1 THEN BeginHeadAttack(kind, i, n, s)
    ELSE <<Frame(kind, "PickOrder", i, <<>>, n)>> \o s

ResolveAttacksForInvestigator ==
    /\ Drives("Enemy", "BeforeInvestigatorAttacked")
    /\ \E n \in IF Top.who \in Active(status) THEN 0..Attackers ELSE {0} :
          stack' = DriveAttackLoop("AttackLoop", Top.who, n, stack)
    /\ taken' = IF Top.who \in Active(status) THEN Append(taken, Top.who) ELSE taken
    /\ UNCHANGED <<status, active, phase, ending, running>>

TakeProvokingAction ==
    /\ Answers("InvestigatorTurn") /\ status[Top.who] = "Active"
    /\ \E n \in 0..Attackers :
          stack' = DriveAttackLoop("OpportunityAttacks", Top.who, n,
                       <<Of("ActionResolution", "", Top.who), PlayerWindowOwed(Top)>> \o Beneath)
    /\ UNCHANGED game

ResumeActionResolution ==
    /\ Drives("ActionResolution", "")
    /\ \E effect \in Effects :
          stack' = IF status[Top.who] = "Active" THEN effect \o Beneath ELSE Beneath
    /\ UNCHANGED <<game, running>>

ResumeAttackOrderPick ==
    /\ \E kind \in {"AttackLoop", "OpportunityAttacks"} :
          Answers(kind) /\ stack' = BeginHeadAttack(kind, Top.who, Top.n, Beneath)
    /\ UNCHANGED game

DriveParkedAttackLoop ==
    /\ \E kind \in {"AttackLoop", "OpportunityAttacks"} :
          Drives(kind, "Attacking") /\ stack' = DriveAttackLoop(kind, Top.who, Top.n - 1, Beneath)
    /\ UNCHANGED <<game, running>>

------------------------------------------------------------------------------
(* Enemy.  The anchor's n is the last hunter moved. *)

EnemyHuntersAfter ==
    /\ \E at \in {"AfterPhaseStartForced", "HuntersAfter"} : Drives("Enemy", at)
    /\ \/ \E h \in (Top.n + 1)..Hunters, choice \in {<<Plain("HunterMove", "")>>} \cup (Ties \ {<<>>}) :
             stack' = choice \o <<Frame("Enemy", "HuntersAfter", None, <<>>, h)>> \o Beneath
       \/ stack' = AttackWindow(FirstInPlayerOrder(status), stack)
    /\ UNCHANGED <<game, running>>

ResumeHunterChoice ==
    Answers("HunterMove") /\ (\E tied \in Ties : stack' = tied \o Beneath) /\ UNCHANGED game

ResumeEngagementTie == Answers("EngagementTie") /\ stack' = Beneath /\ UNCHANGED game

EnemyPhaseEnd ==
    Drives("Enemy", "AfterAllAttacked") /\ stack' = Ended(Top, Beneath) /\ UNCHANGED <<game, running>>

------------------------------------------------------------------------------
(* Upkeep.  Each player's draw parks the anchor on them first; a draw that *)
(* pushed nothing goes on to the next as a woken anchor does.              *)

ReadyExhausted ==
    /\ Drives("Upkeep", "Begins")
    /\ \E tied \in Ties : stack' = tied \o <<At(Top, "AfterReady")>> \o Beneath
    /\ UNCHANGED <<game, running>>

NextDrawer ==
    IF Top.at = "AfterReady" THEN FirstInPlayerOrder(status) ELSE NextInPlayerOrder(status, Top.who)

UpkeepDraws ==
    /\ \E at \in {"AfterReady", "Drawing"} : Drives("Upkeep", at)
    /\ NextDrawer # None /\ taken' = Append(taken, NextDrawer)
    /\ \E effect \in Effects : stack' = effect \o <<Of("Upkeep", "Drawing", NextDrawer)>> \o Beneath
    /\ UNCHANGED <<status, active, phase, ending, running>>

UpkeepAfterDraw ==
    /\ \E at \in {"AfterReady", "Drawing"} : Drives("Upkeep", at)
    /\ NextDrawer = None
    /\ \E over \in SUBSET Active(status) :
          stack' = IF over = {} THEN Ended(Top, Beneath)
                   ELSE <<Asking("HandSizeDiscard", Among(Players, over))>> \o stack
    /\ UNCHANGED <<game, running>>

ResumeHandSizeDiscard ==
    /\ Answers("HandSizeDiscard")
    /\ stack' = IF Len(Top.queue) = 1 THEN Ended(Head(Beneath), Tail(Beneath))
                ELSE <<Asking("HandSizeDiscard", Tail(Top.queue))>> \o Beneath
    /\ UNCHANGED game

UpkeepRoundEnd ==
    /\ Drives("Upkeep", "AfterPhaseEndForced")
    /\ stack' = <<Emit, At(Top, "AfterRoundEnd")>> \o Beneath /\ UNCHANGED <<game, running>>

------------------------------------------------------------------------------
(* The other prompts. *)

ResumeMulligan ==
    /\ Answers("Mulligan")
    /\ stack' = IF Len(Top.queue) = 1 THEN Opened("Investigation", Beneath)
                ELSE <<Asking("Mulligan", Tail(Top.queue))>> \o Beneath
    /\ UNCHANGED game

ResumeAbility == Answers("Ability") /\ stack' = <<At(Top, "Acts")>> \o Beneath /\ UNCHANGED game

ResumeAdvance ==
    Answers("AdvanceReverse") /\ stack' = <<At(Top, "FireReverse")>> \o Beneath /\ UNCHANGED game

\* A play or a pass; a pass closes the window once nobody else holds a play.
ResumeWindow ==
    /\ Answers("FastWindow") \/ Answers("Reaction")
    /\ \/ \E effect \in Effects \ {<<>>} : stack' = effect \o stack
       \/ stack' \in {stack, Beneath}
    /\ UNCHANGED game

------------------------------------------------------------------------------
Drive ==
    \/ Cancel \/ Rest \/ CloseWindow \/ EmitGameEnd \/ FinalizeScenarioEnd
    \/ DispatchEmitEvent \/ EmitDone \/ AbilityDone \/ AbilityEndsScenario \/ AbilityAdvances
    \/ Announce \/ FireReverse \/ FinalizeAdvance
    \/ AbilityEliminates \/ FireWeaknessGameEnd \/ RunSteps
    \/ BeginPhase \/ EndPhase \/ OpenWindow
    \/ MythosAfterPhaseStart \/ RunMythosDraws \/ MythosPhaseEnd
    \/ DrawEncounterCard \/ DisposeEncounterCard \/ AdvanceEncounterDraw
    \/ InvestigationBegins \/ OpenTurn \/ DriveOpenTurn
    \/ ResolveAttacksForInvestigator \/ ResumeActionResolution \/ DriveParkedAttackLoop
    \/ EnemyHuntersAfter \/ EnemyPhaseEnd
    \/ ReadyExhausted \/ UpkeepDraws \/ UpkeepAfterDraw \/ UpkeepRoundEnd

Answer ==
    \/ ResumeMulligan \/ ResumeAbility \/ ResumeAdvance \/ ResumeWindow
    \/ ResumeEncounterDraw \/ ResumeTurnChoice
    \/ EndTurn \/ TakeAction \/ PlayAtOpenTurn \/ TakeProvokingAction
    \/ ResumeAttackOrderPick \/ ResumeHunterChoice \/ ResumeEngagementTie
    \/ ResumeHandSizeDiscard

GameOver == stack = <<>> /\ UNCHANGED vars

Next == Drive \/ Answer \/ GameOver

Spec == Init /\ [][Next]_vars
FairSpec == Spec /\ WF_vars(Drive) /\ WF_vars(Answer)

------------------------------------------------------------------------------
(* Properties. *)

Sequence == INSTANCE RoundSequence WITH in <- Active(status), over <- ending

\* The steps a frame of each kind can stand at.
Resting == {"Mulligan", "TurnChoice", "EncounterDraw", "HandSizeDiscard", "HunterMove",
            "EngagementTie", "FastWindow", "Reaction", "ActionResolution", "EncounterCard"}
PhaseSteps == {"Entry", "AfterPhaseStartForced", "AfterPhaseEndForced"}
Steps(kind) ==
    CASE kind = "Mythos" -> PhaseSteps \cup {"Draws", "AfterDraws"}
      [] kind = "Investigation" -> PhaseSteps \cup {"Begins", "AfterTurnBegan", "TurnBegins"}
      [] kind = "Enemy" ->
            PhaseSteps \cup {"HuntersAfter", "BeforeInvestigatorAttacked", "AfterAllAttacked"}
      [] kind = "Upkeep" -> PhaseSteps \cup {"Begins", "AfterReady", "Drawing", "AfterRoundEnd"}
      [] kind = "InvestigatorTurn" -> {"Open", "Ending"}
      [] kind \in {"AttackLoop", "OpportunityAttacks"} -> {"PickOrder", "Attacking"}
      [] kind = "PlayerDraw" -> {"Draws", "Over"}
      [] kind = "Emit" -> {"Queued", "Walked"}
      [] kind = "Ability" -> {"Acts", "Asks"}
      [] kind = "AdvanceReverse" ->
            {"AnnounceForced", "AnnounceDeliberate", "AwaitAck", "FireReverse", "Finalize"}
      [] kind = "Elimination" -> {"FireWeaknessGameEnd", "RunSteps"}
      [] kind = "ScenarioEnd" -> {"EmitGameEnd", "Finalize"}
      [] kind \in Resting -> {""}

\* The shape of the state: every frame at a step of its kind, its counts in bounds.
TypeOK ==
    /\ \A k \in DOMAIN stack :
          LET f == stack[k] IN
          /\ f.at \in Steps(f.kind) /\ f.who \in Investigators \cup {None}
          /\ Elems(f.queue) \subseteq Investigators
          /\ f.n \in CASE f.kind = "InvestigatorTurn" -> 0..1
                       [] f.kind \in {"AttackLoop", "OpportunityAttacks"} -> 1..Attackers
                       [] f.kind = "PlayerDraw" -> 0..Surges
                       [] f.kind = "Enemy" -> 0..Hunters
                       [] OTHER -> {0}
    /\ status \in [Investigators -> {"Active", "Eliminated"}]
    /\ active \in Investigators \cup {None} /\ phase \in Phases
    /\ ending \in BOOLEAN /\ running \in BOOLEAN /\ Elems(taken) \subseteq Investigators

\* Between two applies a prompt is on top that the scenario's ending has not
\* cancelled, or the scenario is over and nothing is left: apply's check of where
\* it stopped (apply_via).
AtRest ==
    ~running => IF stack = <<>> THEN ending ELSE AwaitsInput(Top) /\ ~CancelsTop

\* A phase anchor never covers work an emit has queued: anchors are replaced and
\* not drained, so what lies beneath one is stranded (the checked push, ADR 0003).
NoAbilityBuried ==
    \A j, k \in DOMAIN stack : j < k /\ IsPhaseAnchor(stack[j]) => ~IsQueuedAbility(stack[k])

\* Once an ending has latched its frame is the bottom of the stack, and the only
\* one, until the stack is done: the loop's cancelling can never drain the stack.
\* With every investigator out it has latched, or an elimination is still to latch
\* it: no round goes on with nobody in it.
EndingAtBottom ==
    /\ Active(status) = {} => ending \/ \E k \in DOMAIN stack : stack[k].kind = "Elimination"
    /\ \A k \in DOMAIN stack : stack[k].kind = "ScenarioEnd" => ending /\ k = Len(stack)
    /\ ending /\ stack # <<>> => stack[Len(stack)].kind = "ScenarioEnd"

Anchors == {k \in DOMAIN stack : IsPhaseAnchor(stack[k])}
StandsOn(k, kinds) == k < Len(stack) /\ stack[k + 1].kind \in kinds

\* Every frame stands on the one its driver pops it onto, and there is one anchor at
\* most, that of the phase in progress: what pop_expect, top_expect and topmost_of
\* panic over when it is otherwise.
FramesInPlace ==
    /\ \A j, k \in Anchors : j = k
    /\ \A k \in Anchors : stack[k].kind = phase
    /\ \A k \in DOMAIN stack :
          LET f == stack[k] IN
          /\ f.kind \in {"InvestigatorTurn", "TurnChoice"} => StandsOn(k, {"Investigation"})
          /\ f.kind = "InvestigatorTurn" => f.who = active
          /\ f.kind = "AttackLoop" => StandsOn(k, {"Enemy"}) /\ stack[k + 1].who = f.who
          /\ f.kind = "OpportunityAttacks" => StandsOn(k, {"ActionResolution"})
          /\ f.kind = "ActionResolution" => StandsOn(k, {"InvestigatorTurn"})
          /\ f.kind = "EncounterDraw" => StandsOn(k, {"Mythos"}) /\ f.queue # <<>>
          /\ f.kind = "PlayerDraw" => StandsOn(k, {"EncounterDraw"}) /\ f.who = Head(stack[k + 1].queue)
          /\ f.kind = "HandSizeDiscard" => StandsOn(k, {"Upkeep"})

\* The stack is one its drivers can work on.
StackInPlace == TypeOK /\ FramesInPlace /\ NoAbilityBuried

\* What the framework asks of one investigator it asks of one still in the game:
\* the mythos draw, the turn choice, the discard to hand size, the attack order.
FrameworkAsksTheLiving ==
    ~running /\ stack # <<>> =>
        /\ Top.kind \in {"EncounterDraw", "HandSizeDiscard"} => Head(Top.queue) \in Active(status)
        /\ Top.kind = "TurnChoice" => Elems(Top.queue) \subseteq Active(status)
        /\ Top.kind \in {"AttackLoop", "OpportunityAttacks"} => Top.who \in Active(status)

\* The open turn's menu is asked of an investigator still in the game (the turn of
\* one who is eliminated is over, elimination.rs).
TurnAsksTheLiving ==
    ~running /\ stack # <<>> /\ Top.kind = "InvestigatorTurn" => Top.who \in Active(status)

\* The rounds are those the framework promises: every player in the game takes each
\* phase's part once, in player order, before the phase ends, and nothing follows
\* the ending.
ImplementsSequence == Sequence!Spec

\* Every apply ends.
ComesToRest == running ~> ~running

\* Once the scenario has ended the game closes, if what is under way is answered.
ScenarioFinishes == ending ~> stack = <<>>

\* The loop never turns for ever, and an ended scenario is wound down.
EverythingEnds == ComesToRest /\ ScenarioFinishes
================================================================================
