------------------------------- MODULE EnemyPhase ------------------------------
(***************************************************************************)
(* One Enemy phase of the engine (phases.rs, hunters.rs, engagement.rs,    *)
(* combat.rs, elimination.rs) with the timing sequence of each attack: the *)
(* hunters move, then each player is attacked by the ready enemies engaged *)
(* with them, in the order that player picks.  An attack is cancelled in   *)
(* its When cell, or deals damage and horror that a player shares out with *)
(* an asset, that is placed, and that may defeat an enemy or a player.     *)
(*                                                                         *)
(* One action is one pass of the drive loop, or one answer accepted.  The  *)
(* cards that listen are one for each cell the attack opens: Dodge (When   *)
(* an enemy attacks), Guard Dog (When it deals damage), Agnes Baker (After *)
(* horror is placed), Roland Banks (After an enemy is defeated) and the    *)
(* Acolyte's forced doom (After it attacks).  Nobody holds a fast play, so *)
(* the phase's player windows close as they open.                          *)
(***************************************************************************)
EXTENDS Seating, Timing, Functions

CONSTANTS
    Foes,           \* the enemies, by id
    Adjacent,       \* the locations, each with those it connects to
    Hunter,         \* the enemies with the keyword
    Bearer,         \* the investigator a bearer-only enemy hunts, or None
    max_health,     \* of each enemy
    attack,         \* the damage and the horror of each enemy's attack
    Acolytes, Agnes, Roland,    \* who carries those cards' abilities
    Weakness,       \* investigators with a weakness that resolves when they leave
    Boards          \* the boards the phase may start from

Enemies == Elems(Foes)
Locations == DOMAIN Adjacent

\* Damage and horror go in pairs.
Damage == 1
Horror == 2
Points == [{Damage, Horror} -> Nat]

ASSUME EnemyAssumption ==
    /\ Foes \in Seq(Enemies) /\ \A j, k \in DOMAIN Foes : Foes[j] = Foes[k] => j = k
    /\ None \notin Locations /\ \A l \in Locations : Adjacent[l] \subseteq Locations
    /\ Hunter \subseteq Enemies /\ Acolytes \subseteq Enemies
    /\ max_health \in [Enemies -> Nat \ {0}] /\ attack \in [Enemies -> Points]
    /\ Bearer \in [Enemies -> Investigators \cup {None}]

VARIABLES
    stack,      \* the continuation stack, top first
    running,    \* whether an apply is driving the stack
    status,     \* each investigator's status
    at,         \* each investigator's location
    enemies,    \* the enemies in play
    left,       \* what each investigator can still take: damage and horror
    asset,      \* what each Guard Dog can still take; None once it is gone
    dodge,      \* who holds Dodge
    used,       \* the reactions at their limit
    doom,
    ending,     \* whether the scenario's ending has latched
    struck,     \* the attacks each enemy has begun (history)
    cancelled,  \* the enemies whose attack was cancelled (history)
    announced   \* the defeated enemies whose After cell is done (history)

players == <<status, at, left, asset, dodge, used>>
histories == <<struck, cancelled, announced>>
board == <<players, enemies, doom, ending>>
vars == <<stack, running, board, histories>>

Top == Head(stack)
Beneath == Tail(stack)

CancelledByScenarioEnd(f) ==
    f.kind \in {"EnemyPhase", "AttackLoop", "HunterMove", "EngagementTie", "TimingPointWindow"}

CancelsTop == ending /\ CancelledByScenarioEnd(Top)
Drives(kind) == running /\ stack # <<>> /\ Top.kind = kind /\ ~CancelsTop
Answers(kind) == ~running /\ stack # <<>> /\ Top.kind = kind /\ running' = TRUE
Replace(frames) == stack' = frames \o Beneath
OnlyStack == UNCHANGED <<running, board, histories>>

Anchor(resume, who) == [kind |-> "EnemyPhase", resume |-> resume, who |-> who]

Init ==
    /\ \E b \in Boards :
          /\ at = b.at /\ enemies = b.enemies /\ left = b.left
          /\ asset = b.asset /\ dodge = b.dodge
    /\ stack = <<Anchor("HuntersAfter", None)>> /\ running = TRUE
    /\ status = [i \in Investigators |-> IF at[i] = None THEN "Defeated" ELSE "Active"]
    /\ used = {} /\ doom = 0 /\ ending = FALSE
    /\ struck = [e \in Enemies |-> 0] /\ cancelled = {} /\ announced = {}

------------------------------------------------------------------------------
(* Engagement (engagement.rs). *)

InPlay == DOMAIN enemies
InOrder(S) == Among(Foes, S)
Pursues(e, i) == Bearer[e] \in {None, i}
ActiveAt(st, l) == {i \in Active(st) : at[i] = l}
Candidates(st, e, l) == {i \in ActiveAt(st, l) : Pursues(e, i)}

\* What each Guard Dog can still take, and what each enemy is while it is in play.
Capacities == [Investigators -> [{Damage, Horror} -> Nat \ {0}] \cup {None}]
FoesInPlay(S) ==
    {foes \in [S -> [at : Locations, with : Investigators \cup {None}, exhausted : BOOLEAN, damage : Nat]] :
        \A e \in S : foes[e].damage < max_health[e]}

\* The phase starts with every enemy in play: one that is engaged stands with
\* its investigator, and a ready one that is not stands with nobody it hunts.
ASSUME BoardsAssumption ==
    \A b \in Boards :
        /\ b.at \in [Investigators -> Locations \cup {None}]
        /\ b.left \in [Investigators -> Points] /\ b.asset \in Capacities
        /\ b.dodge \subseteq Investigators /\ b.enemies \in FoesInPlay(Enemies)
        /\ \A e \in Enemies :
              LET foe == b.enemies[e] IN
              IF foe.with # None THEN b.at[foe.with] = foe.at
              ELSE foe.exhausted \/ \A i \in Investigators : b.at[i] = foe.at => ~Pursues(e, i)

\* engage_or_report_tie over several enemies: those with one candidate engage.
Engaged(st, foes, S) ==
    [e \in DOMAIN foes |->
        LET here == Candidates(st, e, foes[e].at)
        IN  IF e \in S /\ ~foes[e].exhausted /\ Cardinality(here) = 1
            THEN [foes[e] EXCEPT !.with = CHOOSE i \in here : TRUE] ELSE foes[e]]

Tied(st, foes, S) ==
    {e \in S : ~foes[e].exhausted /\ Cardinality(Candidates(st, e, foes[e].at)) >= 2}

EngagementTie(ties) == [kind |-> "EngagementTie", ties |-> ties]
Ties(st, foes, S) ==
    IF Tied(st, foes, S) = {} THEN <<>> ELSE <<EngagementTie(InOrder(Tied(st, foes, S)))>>

ResumeEngagementTie ==
    /\ Answers("EngagementTie")
    /\ LET e == Head(Top.ties) IN
       \E i \in Candidates(status, e, enemies[e].at) : enemies' = [enemies EXCEPT ![e].with = i]
    /\ Replace(IF Len(Top.ties) = 1 THEN <<>> ELSE <<EngagementTie(Tail(Top.ties))>>)
    /\ UNCHANGED <<players, doom, ending, histories>>

------------------------------------------------------------------------------
(* Hunters (hunters.rs, pathfinding.rs). *)

\* The locations within n moves of l.
Within[l \in Locations, n \in 0..Cardinality(Locations)] ==
    IF n = 0 THEN {l} ELSE UNION {Adjacent[m] \cup {m} : m \in Within[l, n - 1]}

Distance(l, m) == Min({n \in 0..Cardinality(Locations) : m \in Within[l, n]})

ASSUME ConnectedAssumption == \A l, m \in Locations : m \in Within[l, Cardinality(Locations)]

Hunts(e) ==
    e \in Hunter /\ ~enemies[e].exhausted /\ enemies[e].with = None

NextHunter(after) ==
    LET rest == {e \in InPlay : Hunts(e) /\
                    (after = None \/ \E j, k \in DOMAIN Foes : Foes[j] = after /\ Foes[k] = e /\ j < k)}
    IN  IF rest = {} THEN None ELSE Head(InOrder(rest))

Pinned(e) == Candidates(status, e, enemies[e].at) # {}

\* The first steps of the shortest ways to the nearest prey.
Destinations(e) ==
    LET from == enemies[e].at
        prey == {i \in Active(status) : Pursues(e, i)}
        near == Min({Distance(from, at[i]) : i \in prey})
    IN  IF prey = {} THEN {}
        ELSE {l \in Adjacent[from] : \E i \in prey :
                 Distance(from, at[i]) = near /\ Distance(l, at[i]) = near - 1}

ArrivesAt(e, l, beneath) ==
    LET moved == [enemies EXCEPT ![e].at = l]
    IN  /\ enemies' = Engaged(status, moved, {e})
        /\ stack' = Ties(status, moved, {e}) \o beneath

OpenAttackWindow(next) ==
    IF next = None THEN Anchor("AfterAllAttacked", None)
    ELSE Anchor("BeforeInvestigatorAttacked", next)

MoveHunter ==
    /\ Drives("EnemyPhase") /\ Top.resume = "HuntersAfter"
    /\ LET e == NextHunter(Top.who)
           beneath == <<Anchor("HuntersAfter", e)>> \o Beneath
       IN  /\ e # None
           /\ \/ Pinned(e) /\ ArrivesAt(e, enemies[e].at, beneath)
              \/ /\ ~Pinned(e) /\ Cardinality(Destinations(e)) = 1
                 /\ \E l \in Destinations(e) : ArrivesAt(e, l, beneath)
              \/ /\ ~Pinned(e) /\ Cardinality(Destinations(e)) # 1
                 /\ stack' = (IF Destinations(e) = {} THEN <<>>
                              ELSE <<[kind |-> "HunterMove", enemy |-> e]>>) \o beneath
                 /\ UNCHANGED enemies
    /\ UNCHANGED <<running, players, doom, ending, histories>>

ResumeHunterChoice ==
    /\ Answers("HunterMove")
    /\ \E l \in Destinations(Top.enemy) : ArrivesAt(Top.enemy, l, Beneath)
    /\ UNCHANGED <<players, doom, ending, histories>>

HuntersDone ==
    /\ Drives("EnemyPhase") /\ Top.resume = "HuntersAfter" /\ NextHunter(Top.who) = None
    /\ Replace(<<OpenAttackWindow(FirstInPlayerOrder(status))>>) /\ OnlyStack

------------------------------------------------------------------------------
(* The attack loop (combat.rs). *)

AttackLoop(who, list, stage) ==
    [kind |-> "AttackLoop", who |-> who, list |-> list, stage |-> stage]
Attacks(e, i) == [kind |-> "EnemyAttacks", enemy |-> e, who |-> i]

ReadyEngagedAttackers(i) == {e \in InPlay : enemies[e].with = i /\ ~enemies[e].exhausted}

\* The head stays on the list until its attack is over.
BeginHeadAttack(i, list, beneath) ==
    /\ stack' = <<EmitEvent(Attacks(Head(list), i)), AttackLoop(i, list, "Attacking")>> \o beneath
    /\ struck' = [struck EXCEPT ![Head(list)] = @ + 1]

\* Mutant: the attacks on somebody who is out go on.
DriveAttackLoop_OnTheDefeated(i, list, beneath) ==
    \/ /\ list = <<>>
       /\ stack' = <<OpenAttackWindow(NextInPlayerOrder(status, i))>> \o Tail(beneath)
       /\ UNCHANGED struck
    \/ Len(list) = 1 /\ BeginHeadAttack(i, list, beneath)
    \/ Len(list) >= 2 /\ stack' = <<AttackLoop(i, list, "PickOrder")>> \o beneath /\ UNCHANGED struck

\* `beneath` is the phase's anchor and what is under it.
DriveAttackLoop(i, list, beneath) ==
    \/ /\ list = <<>> \/ status[i] # "Active"
       /\ stack' = <<OpenAttackWindow(NextInPlayerOrder(status, i))>> \o Tail(beneath)
       /\ UNCHANGED struck
    \/ Len(list) = 1 /\ status[i] = "Active" /\ BeginHeadAttack(i, list, beneath)
    \/ /\ Len(list) >= 2 /\ status[i] = "Active"
       /\ stack' = <<AttackLoop(i, list, "PickOrder")>> \o beneath /\ UNCHANGED struck

ResolveAttacksForInvestigator ==
    /\ Drives("EnemyPhase") /\ Top.resume = "BeforeInvestigatorAttacked"
    /\ DriveAttackLoop(Top.who, InOrder(ReadyEngagedAttackers(Top.who)), stack)
    /\ UNCHANGED <<running, board, cancelled, announced>>

ResumeAttackOrderPick ==
    /\ Answers("AttackLoop") /\ Top.stage = "PickOrder"
    /\ \E e \in Elems(Top.list) :
          BeginHeadAttack(Top.who, <<e>> \o Among(Top.list, Enemies \ {e}), Beneath)
    /\ UNCHANGED <<board, cancelled, announced>>

\* Mutant: an attack that was cancelled does not exhaust its enemy.
ExhaustAfterAttack_Landed(e) ==
    enemies' = IF e \in InPlay \ cancelled THEN [enemies EXCEPT ![e].exhausted = TRUE] ELSE enemies

ExhaustAfterAttack(e) ==
    enemies' = IF e \in InPlay THEN [enemies EXCEPT ![e].exhausted = TRUE] ELSE enemies

DriveParkedAttackLoop ==
    /\ Drives("AttackLoop") /\ Top.stage = "Attacking"
    /\ ExhaustAfterAttack(Head(Top.list)) /\ DriveAttackLoop(Top.who, Tail(Top.list), Beneath)
    /\ UNCHANGED <<running, players, doom, ending, cancelled, announced>>

EnemyPhaseEnd ==
    Drives("EnemyPhase") /\ Top.resume = "AfterAllAttacked" /\ Replace(<<>>) /\ OnlyStack

------------------------------------------------------------------------------
(* Elimination (elimination.rs). *)

Elimination(i, step) == [kind |-> "Elimination", who |-> i, step |-> step]

TakeLimboCards(s, i) ==
    [k \in DOMAIN s |-> IF s[k].kind = "PlayFromHand" /\ s[k].who = i
                        THEN [s[k] EXCEPT !.card = None] ELSE s[k]]

\* Mutant: nobody else is engaged by the enemies an investigator leaves behind.
RunEliminationSteps_NoEngage(st, i, beneath) ==
    /\ enemies' = [e \in InPlay |->
          IF enemies[e].with = i THEN [enemies[e] EXCEPT !.with = None] ELSE enemies[e]]
    /\ stack' = TakeLimboCards(beneath, i)
    /\ asset' = [asset EXCEPT ![i] = None] /\ dodge' = dodge \ {i}
    /\ at' = [at EXCEPT ![i] = None] /\ ending' = (Active(st) = {})

\* Mutant: the enemies stay engaged with the investigator who leaves.
RunEliminationSteps_Kept(st, i, beneath) ==
    /\ stack' = TakeLimboCards(beneath, i) /\ UNCHANGED enemies
    /\ asset' = [asset EXCEPT ![i] = None] /\ dodge' = dodge \ {i}
    /\ at' = [at EXCEPT ![i] = None] /\ ending' = (Active(st) = {})

RunEliminationSteps(st, i, beneath) ==
    LET affected == {e \in InPlay : enemies[e].with = i}
        freed == [e \in InPlay |-> IF e \in affected THEN [enemies[e] EXCEPT !.with = None] ELSE enemies[e]]
    IN  /\ enemies' = Engaged(st, freed, affected)
        /\ stack' = Ties(st, freed, affected) \o TakeLimboCards(beneath, i)
        /\ asset' = [asset EXCEPT ![i] = None] /\ dodge' = dodge \ {i}
        /\ at' = [at EXCEPT ![i] = None] /\ ending' = (Active(st) = {})

ApplyInvestigatorElimination(i, beneath) ==
    LET st == [status EXCEPT ![i] = "Defeated"]
    IN  /\ status' = st
        /\ \/ i \notin Weakness /\ RunEliminationSteps(st, i, beneath)
           \/ /\ i \in Weakness /\ stack' = <<Elimination(i, "FireWeaknessGameEnd")>> \o beneath
              /\ UNCHANGED <<at, enemies, asset, dodge, ending>>

FireWeaknessGameEnd ==
    /\ Drives("Elimination") /\ Top.step = "FireWeaknessGameEnd"
    /\ Replace(<<EmitEvent([kind |-> "EliminationGameEnd", enemy |-> None, who |-> Top.who]),
                 Elimination(Top.who, "RunSteps")>>)
    /\ OnlyStack

RunSteps ==
    /\ Drives("Elimination") /\ Top.step = "RunSteps"
    /\ RunEliminationSteps(status, Top.who, Beneath)
    /\ UNCHANGED <<running, status, left, used, doom, histories>>

------------------------------------------------------------------------------
(* A deal of damage and horror. *)

Nothing == [k \in {Damage, Horror} |-> 0]

DealDamage(e, i, remaining, share, step) ==
    [kind |-> "DealDamage", enemy |-> e, who |-> i, remaining |-> remaining, share |-> share, step |-> step]
Unassigned == [self |-> Nothing, asset |-> Nothing]

NextPoint(f) == IF f.remaining[Damage] > 0 THEN Damage ELSE Horror
\* Mutant: a point the asset has taken already leaves its room as it was.
Contested_Unspent(f, k) == asset[f.who] # None /\ asset[f.who][k] > 0

Contested(f, k) == asset[f.who] # None /\ asset[f.who][k] > f.share.asset[k]

DistributeUncontested ==
    /\ Drives("DealDamage") /\ Top.step = "Distribute" /\ Top.remaining # Nothing
    /\ LET k == NextPoint(Top) IN
       /\ ~Contested(Top, k)
       /\ Replace(<<[Top EXCEPT !.share.self[k] = @ + Top.remaining[k], !.remaining[k] = 0]>>)
    /\ OnlyStack

AskDistribution ==
    /\ Drives("DealDamage") /\ Top.step = "Distribute" /\ Top.remaining # Nothing
    /\ Contested(Top, NextPoint(Top))
    /\ running' = FALSE /\ UNCHANGED <<stack, board, histories>>

ResumeDamageDistribution ==
    /\ Answers("DealDamage")
    /\ \E target \in {"self", "asset"} :
          Replace(<<[Top EXCEPT !.share[target][NextPoint(Top)] = @ + 1,
                                !.remaining[NextPoint(Top)] = @ - 1]>>)
    /\ UNCHANGED <<board, histories>>

Distributed ==
    /\ Drives("DealDamage") /\ Top.step = "Distribute" /\ Top.remaining = Nothing
    /\ Replace(<<[Top EXCEPT !.step = "Announce"]>>) /\ OnlyStack

\* DamageDealt and DamagePlaced carry the shares.
Harm(kind, f) == [kind |-> kind, enemy |-> f.enemy, who |-> f.who, share |-> f.share]

Announce ==
    /\ Drives("DealDamage") /\ Top.step = "Announce"
    /\ Replace(<<EmitEvent(Harm("DamageDealt", Top)), [Top EXCEPT !.step = "Finish"]>>) /\ OnlyStack

FinishDeal == Drives("DealDamage") /\ Top.step = "Finish" /\ Replace(<<>>) /\ OnlyStack

Minus(a, b) == [k \in {Damage, Horror} |-> IF b[k] > a[k] THEN 0 ELSE a[k] - b[k]]
SomeZero(a) == a[Damage] = 0 \/ a[Horror] = 0

\* Everything is placed before anybody is defeated.  An investigator who is
\* defeated takes the asset along, whatever it soaked.
PlaceAssignment(event, beneath) ==
    LET i == event.who
        soaked == IF asset[i] = None THEN None ELSE Minus(asset[i], event.share.asset)
        taken == Minus(left[i], event.share.self)
        kept == IF soaked # None /\ SomeZero(soaked) THEN None ELSE soaked
    IN  /\ left' = [left EXCEPT ![i] = taken]
        /\ \/ /\ SomeZero(taken) /\ ApplyInvestigatorElimination(i, beneath)
           \/ /\ ~SomeZero(taken) /\ asset' = [asset EXCEPT ![i] = kept]
              /\ stack' = beneath /\ UNCHANGED <<status, at, enemies, dodge, ending>>

------------------------------------------------------------------------------
(* Who listens to a cell (trigger_scan.rs, initiation.rs). *)

Listener(card, i) == [card |-> card, who |-> i]
EnemiesHere(i) == {e \in InPlay : enemies[e].at = at[i]}

Dodgers(event) ==
    {Listener("Dodge", i) : i \in {j \in dodge \cap Active(status) : at[j] = at[event.who]}}
Retaliators(event) ==
    {Listener("Guard Dog", i) :
        i \in {j \in {event.who} \cap Active(status) : asset[j] # None /\ event.share.asset[Damage] > 0}}
Stricken(event) ==
    {Listener("Agnes", i) :
        i \in {j \in {event.who} \cap Agnes \cap Active(status) :
                  event.share.self[Horror] > 0 /\ "Agnes" \notin used /\ EnemiesHere(j) # {}}}
Victors(event) ==
    {Listener("Roland", i) :
        i \in {j \in {event.who} \cap Roland \cap Active(status) : "Roland" \notin used}}

Reactions(event, bucket) ==
    CASE event.kind = "EnemyAttacks" /\ bucket = "When" -> Dodgers(event)
      [] event.kind = "DamageDealt" /\ bucket = "When" -> Retaliators(event)
      [] event.kind = "DamagePlaced" /\ bucket = "After" -> Stricken(event)
      [] event.kind = "EnemyDefeated" /\ bucket = "After" -> Victors(event)
      [] OTHER -> {}

Forced(event, bucket) ==
    CASE event.kind = "EnemyAttacks" /\ bucket = "After" ->
            {Listener("Acolyte", i) : i \in {j \in {event.who} : event.enemy \in Acolytes \cap InPlay}}
      [] event.kind = "EliminationGameEnd" /\ bucket = "When" -> {Listener("Weakness", event.who)}
      [] OTHER -> {}

Effect(c, event) == [kind |-> "Effect", does |-> c.card, who |-> c.who, enemy |-> event.enemy]
PushEffect(c, event) == <<Effect(c, event), EffectBase>>

------------------------------------------------------------------------------
(* The walk over the cells (coordinator.rs). *)

\* An emit of a defeat that finishes has had its After cell.
Announces(emit) ==
    announced' = IF emit.step = "After" /\ emit.event.kind = "EnemyDefeated"
                 THEN announced \cup {emit.event.enemy} ELSE announced

Park ==
    Drives("EmitEvent") /\ Top.step = "At" /\ Parks(stack) /\ stack' = Parked(stack) /\ OnlyStack

\* Mutant: a step is not parked, and opens above the effect that raised it.
AtCell_NotParked == Drives("EmitEvent") /\ Top.step # "ResolveCondition"

AtCell == Drives("EmitEvent") /\ Top.step # "ResolveCondition" /\ ~(Top.step = "At" /\ Parks(stack))
Listened == Forced(Top.event, Top.step) # {} \/ Reactions(Top.event, Top.step) # {}

OpenCell ==
    /\ AtCell /\ Listened
    /\ stack' = <<TimingPoint(Top.event, Top.step, Forced(Top.event, Top.step))>> \o stack
    /\ OnlyStack

SkipCell ==
    /\ AtCell /\ ~Listened
    /\ stack' = AdvanceOrFinish(stack) /\ Announces(Top)
    /\ UNCHANGED <<running, board, struck, cancelled>>

AtResolution(kind) == Drives("EmitEvent") /\ Top.step = "ResolveCondition" /\ Top.event.kind = kind

AbandonEmit ==
    /\ Drives("EmitEvent") /\ Top.step = "ResolveCondition" /\ Top.prevented
    /\ Replace(<<>>) /\ OnlyStack

\* Mutant: the attack lands whether or not it was prevented.
ResolveEnemyAttack_Prevented ==
    LET e == Top.event.enemy IN
    /\ AtResolution("EnemyAttacks") /\ e \in InPlay
    /\ stack' = <<DealDamage(e, Top.event.who, attack[e], Unassigned, "Distribute")>> \o AdvanceOrFinish(stack)
    /\ OnlyStack

\* deal_enemy_attack asserts that the attacker is in play.
ResolveEnemyAttack ==
    LET e == Top.event.enemy IN
    /\ AtResolution("EnemyAttacks") /\ ~Top.prevented /\ e \in InPlay
    /\ stack' = (IF attack[e] = Nothing THEN <<>>
                 ELSE <<DealDamage(e, Top.event.who, attack[e], Unassigned, "Distribute")>>)
                \o AdvanceOrFinish(stack)
    /\ OnlyStack

ResolveDamageDealt ==
    /\ AtResolution("DamageDealt")
    /\ LET deal == stack[Min({k \in DOMAIN stack : stack[k].kind = "DealDamage"})] IN
       stack' = <<EmitEvent([Top.event EXCEPT !.kind = "DamagePlaced", !.share = deal.share])>>
                \o AdvanceOrFinish(stack)
    /\ OnlyStack

ResolveDamagePlaced ==
    /\ AtResolution("DamagePlaced") /\ PlaceAssignment(Top.event, AdvanceOrFinish(stack))
    /\ UNCHANGED <<running, used, doom, histories>>

\* A defeat is resolved by whoever raised it, and the game's end resolves nothing.
ResolveBare ==
    /\ AtResolution("EnemyDefeated") \/ AtResolution("EliminationGameEnd")
    /\ stack' = AdvanceOrFinish(stack) /\ OnlyStack

------------------------------------------------------------------------------
(* One cell: its forced abilities, then the reactions offered in a window. *)

PointPrevented == Top.bucket = "When" /\ ConditionIsPrevented(stack)
AtSub(sub) == Drives("TimingPoint") /\ Top.sub = sub /\ ~PointPrevented
Offered == Reactions(Top.event, Top.bucket)

FinishPoint ==
    /\ Drives("TimingPoint")
    /\ PointPrevented \/ Top.sub = "Done" \/ (Top.sub = "Reaction" /\ Offered = {})
    /\ stack' = FinishTimingPoint(stack) /\ Announces(Head(Beneath))
    /\ UNCHANGED <<running, board, struck, cancelled>>

\* Each cell of the cards modelled has at most one forced ability.
QueueForced ==
    /\ AtSub("Forced")
    /\ \/ /\ Top.forced = {} /\ stack' = SetSub(stack, "Reaction")
       \/ \E c \in Top.forced : stack' = PushEffect(c, Top.event) \o SetSub(stack, "Reaction")
    /\ OnlyStack

OpenReactionRun ==
    /\ AtSub("Reaction") /\ Offered # {}
    /\ stack' = <<Window(Top.event, Top.bucket, Offered)>> \o SetSub(stack, "Done")
    /\ OnlyStack

\* A window re-exposed withdraws what lapsed, and closes or asks.
AdvanceResolution ==
    /\ Drives("TimingPointWindow")
    /\ LET s == Withdrawn(stack, Offered) IN
       \/ Head(s).candidates = {} /\ Replace(<<>>) /\ UNCHANGED running
       \/ Head(s).candidates # {} /\ stack' = s /\ running' = FALSE
    /\ UNCHANGED <<board, histories>>

\* Mutant: the window is driven again, and the pass forgotten.
Pass_Forgotten(i) == UNCHANGED stack /\ running' = TRUE

\* It closes once nobody who has not passed holds an option.
Pass(i) ==
    LET s == PassedBy(stack, i) IN
    IF Holders(Head(s)) = {} THEN Replace(<<>>) /\ running' = TRUE
    ELSE stack' = s /\ running' = FALSE

ResumePass ==
    /\ ~running /\ stack # <<>> /\ Top.kind = "TimingPointWindow"
    /\ \E i \in Holders(Top) : Pass(i)
    /\ UNCHANGED <<board, histories>>

\* Dodge is played: its frame holds the card beneath the effect.
PlayFromHand(i) == [kind |-> "PlayFromHand", who |-> i, card |-> "Dodge"]

FirePendingTrigger ==
    /\ Answers("TimingPointWindow")
    /\ \E c \in Top.candidates \cap Offered :
          /\ c.who \notin Top.passed
          /\ \/ /\ c.card = "Dodge" /\ dodge' = dodge \ {c.who} /\ UNCHANGED used
                /\ stack' = PushEffect(c, Top.event) \o <<PlayFromHand(c.who)>> \o Fired(stack, c)
             \/ /\ c.card # "Dodge" /\ used' = used \cup ({c.card} \ {"Guard Dog"}) /\ UNCHANGED dodge
                /\ stack' = PushEffect(c, Top.event) \o Fired(stack, c)
    /\ UNCHANGED <<status, at, left, asset, enemies, doom, ending, histories>>

------------------------------------------------------------------------------
(* Effects (evaluator.rs). *)

\* Mutant: an enemy falls one point late.
DamageEnemy_Late(e, by, beneath) ==
    IF enemies[e].damage >= max_health[e]
    THEN /\ enemies' = Restrict(enemies, InPlay \ {e})
         /\ stack' = <<EmitEvent([kind |-> "EnemyDefeated", enemy |-> e, who |-> by])>> \o beneath
    ELSE enemies' = [enemies EXCEPT ![e].damage = @ + 1] /\ stack' = beneath

DamageEnemy(e, by, beneath) ==
    IF enemies[e].damage + 1 >= max_health[e]
    THEN /\ enemies' = Restrict(enemies, InPlay \ {e})
         /\ stack' = <<EmitEvent([kind |-> "EnemyDefeated", enemy |-> e, who |-> by])>> \o beneath
    ELSE enemies' = [enemies EXCEPT ![e].damage = @ + 1] /\ stack' = beneath

StepEffect(does) == Drives("Effect") /\ Top.does = does

CancelAttack ==
    /\ StepEffect("Dodge") /\ stack' = CancelCurrentImpact(Beneath)
    /\ cancelled' = cancelled \cup {Top.enemy}
    /\ UNCHANGED <<running, board, struck, announced>>

Retaliate ==
    /\ StepEffect("Guard Dog") /\ DamageEnemy(Top.enemy, Top.who, Beneath)
    /\ UNCHANGED <<running, players, doom, ending, histories>>

\* An enemy at the location: the only one, or one the player is asked for.
StrikeTheOnlyOne ==
    /\ StepEffect("Agnes")
    /\ \E e \in EnemiesHere(Top.who) : EnemiesHere(Top.who) = {e} /\ DamageEnemy(e, Top.who, Beneath)
    /\ UNCHANGED <<running, players, doom, ending, histories>>

AskWhom ==
    /\ StepEffect("Agnes") /\ Cardinality(EnemiesHere(Top.who)) >= 2
    /\ running' = FALSE /\ UNCHANGED <<stack, board, histories>>

StrikeOne ==
    /\ Answers("Effect")
    /\ \E e \in EnemiesHere(Top.who) : DamageEnemy(e, Top.who, Beneath)
    /\ UNCHANGED <<players, doom, ending, histories>>

PlaceDoom ==
    /\ StepEffect("Acolyte") /\ doom' = doom + 1 /\ Replace(<<>>)
    /\ UNCHANGED <<running, players, enemies, ending, histories>>

\* Roland's clue and a weakness's trauma change nothing on this board.
StepElsewhere == StepEffect("Roland") \/ StepEffect("Weakness")
EffectElsewhere == StepElsewhere /\ Replace(<<>>) /\ OnlyStack

CloseBase == Drives("EffectBase") /\ stack' = CloseEffectBase(stack) /\ OnlyStack
DisposePlayFromHand == Drives("PlayFromHand") /\ Replace(<<>>) /\ OnlyStack

------------------------------------------------------------------------------
Rest ==
    /\ running /\ stack # <<>> /\ ~CancelsTop
    /\ \/ Top.kind \in {"HunterMove", "EngagementTie"}
       \/ Top.kind = "AttackLoop" /\ Top.stage = "PickOrder"
    /\ running' = FALSE /\ UNCHANGED <<stack, board, histories>>

Cancel == running /\ stack # <<>> /\ CancelsTop /\ Replace(<<>>) /\ OnlyStack

Driver ==
    \/ Rest \/ Cancel \/ MoveHunter \/ HuntersDone \/ ResolveAttacksForInvestigator
    \/ DriveParkedAttackLoop \/ EnemyPhaseEnd \/ FireWeaknessGameEnd \/ RunSteps
    \/ DistributeUncontested \/ AskDistribution \/ Distributed \/ Announce \/ FinishDeal
    \/ Park \/ OpenCell \/ SkipCell \/ AbandonEmit \/ ResolveEnemyAttack \/ ResolveDamageDealt
    \/ ResolveDamagePlaced \/ ResolveBare \/ FinishPoint \/ QueueForced \/ OpenReactionRun
    \/ AdvanceResolution \/ CancelAttack \/ Retaliate \/ StrikeTheOnlyOne \/ AskWhom \/ PlaceDoom
    \/ EffectElsewhere \/ CloseBase \/ DisposePlayFromHand

Answer ==
    \/ ResumeEngagementTie \/ ResumeHunterChoice \/ ResumeAttackOrderPick
    \/ ResumeDamageDistribution \/ ResumePass \/ FirePendingTrigger \/ StrikeOne

PhaseOver == stack = <<>> /\ UNCHANGED vars

Next == Driver \/ Answer \/ PhaseOver

Spec == Init /\ [][Next]_vars
FairSpec == Spec /\ WF_vars(Driver) /\ WF_vars(Answer)

------------------------------------------------------------------------------
Frames == {stack[k] : k \in DOMAIN stack}
Emits == {f \in Frames : f.kind = "EmitEvent"}
Deals == {f \in Frames : f.kind = "DealDamage"}
Leaving == {f.who : f \in {g \in Frames : g.kind = "Elimination"}}

\* Every variable has its type: what is placed never exceeds what can be taken,
\* and a frame is one of the kinds the phase pushes.
TypeOK ==
    /\ running \in BOOLEAN /\ ending \in BOOLEAN /\ doom \in Nat
    /\ status \in [Investigators -> {"Active", "Defeated"}]
    /\ at \in [Investigators -> Locations \cup {None}]
    /\ left \in [Investigators -> Points] /\ asset \in Capacities /\ dodge \subseteq Investigators
    /\ InPlay \subseteq Enemies /\ enemies \in FoesInPlay(InPlay)
    /\ \A f \in Frames :
          f.kind \in {"EnemyPhase", "HunterMove", "EngagementTie", "AttackLoop", "EmitEvent",
                      "TimingPoint", "TimingPointWindow", "EffectBase", "Effect",
                      "PlayFromHand", "DealDamage", "Elimination"}

\* An engaged enemy stands with an investigator still in the game; only while an
\* elimination waits for its weakness does it stay with one who is leaving
\* (engagement.rs, elimination.rs).
EngagedTogether ==
    \A e \in {f \in InPlay : enemies[f].with # None} :
        LET i == enemies[e].with IN
        \/ status[i] = "Active" /\ at[i] = enemies[e].at
        \/ i \in Leaving

\* A ready enemy that stands with somebody it hunts is engaged, unless the lead
\* has still to say with whom: after a move, and after an elimination freed it
\* (engage_each_or_push_ties).
NoIdleEnemy ==
    \A e \in {f \in InPlay : enemies[f].with = None /\ ~enemies[f].exhausted} :
        \/ Candidates(status, e, enemies[e].at) = {}
        \/ \E f \in Frames : f.kind = "EngagementTie" /\ e \in Elems(f.ties)

\* The board and its engagements.
BoardSound == TypeOK /\ EngagedTogether /\ NoIdleEnemy

\* No enemy attacks twice in the phase, although one whose prey it defeats
\* engages a player whose attacks are still to come (exhaust_after_attack).
AttacksOnce == \A e \in Enemies : struck[e] <= 1

\* An attack that has not landed is by an enemy in play, ready and engaged with
\* the player it attacks, and that player is in the game, although the
\* attackers were listed before the attacks ahead of it were resolved
\* (drive_attack_loop).
OnlyTheEngagedAttack ==
    \A f \in {g \in Emits : g.event.kind = "EnemyAttacks" /\ g.step \in {"When", "ResolveCondition"}} :
        /\ status[f.event.who] = "Active" /\ f.event.enemy \in InPlay
        /\ enemies[f.event.enemy].with = f.event.who /\ ~enemies[f.event.enemy].exhausted

\* Who attacks.
AttackersFair == AttacksOnce /\ OnlyTheEngagedAttack

\* deal_enemy_attack's assertion: the enemy whose attack is to be dealt is in
\* play (combat.rs).
AttackerInPlay ==
    \A f \in Emits :
        f.event.kind = "EnemyAttacks" /\ f.step = "ResolveCondition" /\ ~f.prevented
            => f.event.enemy \in InPlay

\* An attack that was cancelled deals nothing and has no At or After cell: no
\* deal is under way for it, and no Acolyte places doom for it (coordinator.rs,
\* abandon_emit).
CancelledLandsNothing ==
    /\ \A f \in Emits : f.prevented => f.step \in {"When", "ResolveCondition"}
    /\ \A f \in Deals : f.enemy \notin cancelled
    /\ doom <= Cardinality({e \in Acolytes \ cancelled : struck[e] > 0})

\* Points of a deal are never lost or invented while a player shares them out,
\* and an asset is never given more than it can still take (drive_deal_damage).
DealsInFull ==
    \A f \in Deals : \A k \in {Damage, Horror} :
        /\ f.share.self[k] + f.share.asset[k] + f.remaining[k] = attack[f.enemy][k]
        /\ f.step # "Finish" /\ f.share.asset[k] > 0
               => asset[f.who] # None /\ f.share.asset[k] <= asset[f.who][k]

\* No At or After cell opens above an effect that raised its condition and is
\* still resolving (coordinator.rs, park_in_effect_base).
EffectFinishesFirst ==
    \A j, k \in DOMAIN stack :
        /\ j < k /\ stack[j].kind = "TimingPoint" /\ stack[j].bucket # "When"
        /\ stack[k].kind = "EffectBase"
        => \E m \in (j + 1)..(k - 1) : BoundsEffectDeferral(stack[m])

\* A defeat is never forgotten: until its After cell is done its coordinator is
\* on the stack, or parked in an effect that is (close_effect_base).
DefeatsAnnounced ==
    \A e \in Enemies \ (InPlay \cup announced) :
        \E f \in Emits \cup UNION {Elems(g.parked) : g \in {h \in Frames : h.kind = "EffectBase"}} :
            f.event.kind = "EnemyDefeated" /\ f.event.enemy = e

\* Effects resolve whole, and what they raised is not lost.
EffectsWhole == EffectFinishesFirst /\ DefeatsAnnounced

\* The phase ends, whatever is cancelled, shared out, defeated or eliminated on
\* the way: no frame waits for one that was dropped, and no answer asks for
\* itself again.
PhaseEnds == <>(stack = <<>>)
================================================================================
