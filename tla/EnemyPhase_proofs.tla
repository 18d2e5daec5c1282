---------------------------- MODULE EnemyPhase_proofs ---------------------------
(***************************************************************************)
(* Theorems about the Enemy phase (EnemyPhase): for any seats, map, boards *)
(* and cards, no enemy attacks twice, a cancelled attack lands nothing, a  *)
(* deal loses no point, effects resolve whole and the engagements stay     *)
(* sound, whatever is defeated or eliminated on the way.                   *)
(***************************************************************************)
EXTENDS EnemyPhase, SequenceTheorems, FiniteSetTheorems, WellFoundedInduction, TLAPS

------------------------------------------------------------------------------
(* The frames of the phase. *)

Cards == {"Dodge", "Guard Dog", "Agnes", "Roland", "Acolyte", "Weakness"}
Listeners == [card : Cards, who : Investigators]
Shares == [self : Points, asset : Points]

AttackEvents == [kind : {"EnemyAttacks"}, enemy : Enemies, who : Investigators]
HarmEvents == [kind : {"DamageDealt", "DamagePlaced"}, enemy : Enemies, who : Investigators, share : Shares]
DefeatEvents == [kind : {"EnemyDefeated"}, enemy : Enemies, who : Investigators]
GameEndEvents == [kind : {"EliminationGameEnd"}, enemy : {None}, who : Investigators]
Events == AttackEvents \cup HarmEvents \cup DefeatEvents \cup GameEndEvents

CellSteps == {"When", "ResolveCondition", "At", "After"}
Anchors == [kind : {"EnemyPhase"}, resume : {"HuntersAfter", "BeforeInvestigatorAttacked", "AfterAllAttacked"},
            who : Enemies \cup Investigators \cup {None}]
HunterMoves == [kind : {"HunterMove"}, enemy : Enemies]
EngagementTies == [kind : {"EngagementTie"}, ties : Seq(Enemies)]
AttackLoops == [kind : {"AttackLoop"}, who : Investigators, list : Seq(Enemies), stage : {"PickOrder", "Attacking"}]
EmitEvents == [kind : {"EmitEvent"}, event : Events, step : CellSteps, prevented : BOOLEAN]
TimingPoints == [kind : {"TimingPoint"}, event : Events, bucket : CellSteps,
                 sub : {"Forced", "Reaction", "Done"}, forced : SUBSET Listeners]
Windows == [kind : {"TimingPointWindow"}, event : Events, bucket : CellSteps,
            candidates : SUBSET Listeners, passed : SUBSET Investigators]
EffectBases == [kind : {"EffectBase"}, parked : Seq(EmitEvents)]
Effects == [kind : {"Effect"}, does : Cards, who : Investigators, enemy : Enemies \cup {None}]
PlaysFromHand == [kind : {"PlayFromHand"}, who : Investigators, card : {"Dodge", None}]
DealsOfDamage == [kind : {"DealDamage"}, enemy : Enemies, who : Investigators, remaining : Points,
                  share : Shares, step : {"Distribute", "Announce", "Finish"}]
Eliminations == [kind : {"Elimination"}, who : Investigators, step : {"FireWeaknessGameEnd", "RunSteps"}]

PhaseFrames == Anchors \cup HunterMoves \cup EngagementTies \cup AttackLoops
CellFrames == EmitEvents \cup TimingPoints \cup Windows
EffectFrames == EffectBases \cup Effects \cup PlaysFromHand
AllFrames == PhaseFrames \cup CellFrames \cup EffectFrames \cup DealsOfDamage \cup Eliminations

------------------------------------------------------------------------------
(* How the frames stand on each other: `r` is what is under a frame. *)

Distinct(q) == \A j, k \in DOMAIN q : q[j] = q[k] => j = k
IsEmit(f, kind) == f.kind = "EmitEvent" /\ f.event.kind = kind

\* Frames that are only ever on top: those that ask, a deal being shared out, an
\* effect, and a point that has yet to queue its forced abilities.
AsksOrActs(f) ==
    \/ f.kind \in {"HunterMove", "EngagementTie", "Effect"}
    \/ f.kind = "TimingPoint" /\ f.sub = "Forced"
    \/ f.kind = "AttackLoop" /\ f.stage = "PickOrder"
    \/ f.kind = "DealDamage" /\ f.step # "Finish"

\* An attack whose After cell is next, or open.
Ending(f) == IsEmit(f, "EnemyAttacks") /\ f.step = "After"

\* No attack is still to land, and no card is being played.
Quiet(r) ==
    \A k \in 1..Len(r) :
        /\ r[k].kind # "PlayFromHand"
        /\ IsEmit(r[k], "EnemyAttacks") => r[k].step \notin {"When", "ResolveCondition"}

\* No base without a boundary above it.
Boundless(r) ==
    \A k \in 1..Len(r) : r[k].kind = "EffectBase" => \E j \in 1..k : BoundsEffectDeferral(r[j])

OverAnchor(r) == Len(r) = 1 /\ r[1].kind = "EnemyPhase"

StandsPhase(f, r) ==
    /\ f.kind = "EnemyPhase" =>
          r = <<>> /\ (f.resume = "BeforeInvestigatorAttacked" => f.who \in Investigators)
    /\ f.kind = "HunterMove" => OverAnchor(r)
    /\ f.kind = "AttackLoop" => OverAnchor(r) /\ f.list # <<>> /\ Distinct(f.list)
    /\ f.kind = "EngagementTie" => Quiet(r) /\ f.ties # <<>> /\ Distinct(f.ties)

StandsHarm(f, r) ==
    /\ f.kind = "DealDamage" =>
          /\ Quiet(r) /\ Boundless(r)
          /\ \A k \in {Damage, Horror} :
                f.share.self[k] + f.share.asset[k] + f.remaining[k] = attack[f.enemy][k]
    /\ f.kind = "Elimination" => Quiet(r)

StandsEmit(f, r) ==
    /\ Quiet(r)
    /\ f.prevented => f.event.kind = "EnemyAttacks" /\ f.step \in {"When", "ResolveCondition"}
    /\ f.step = "After" \/ f.event.kind # "EnemyDefeated" => Boundless(r)
    /\ f.event.kind = "EnemyAttacks" => Len(r) = 2 /\ r[1].kind = "AttackLoop" /\ r[2].kind = "EnemyPhase"
    /\ f.event.kind = "DamageDealt" => Len(r) >= 1 /\ r[1].kind = "DealDamage"

\* A point is of the cell its coordinator is at, and a window of its point's.
StandsCell(f, r) ==
    /\ f.kind = "TimingPoint" =>
          /\ Len(r) >= 1 /\ r[1].kind = "EmitEvent" /\ r[1].event = f.event /\ r[1].step = f.bucket
          /\ f.bucket \in {"When", "After"}
          /\ \A c \in f.forced :
                \/ c.card = "Acolyte" /\ f.bucket = "After" /\ f.event.kind = "EnemyAttacks" /\ f.event.enemy \in Acolytes
                \/ c.card = "Weakness"
    /\ f.kind = "TimingPointWindow" =>
          Len(r) >= 1 /\ r[1].kind = "TimingPoint" /\ r[1].event = f.event /\ r[1].bucket = f.bucket
    /\ f.kind \in {"TimingPoint", "TimingPointWindow"} /\ f.event.kind # "EnemyAttacks" => Quiet(r)

StandsEffect(f, r) ==
    /\ f.kind = "EffectBase" =>
          /\ \A k \in 1..Len(f.parked) :
                f.parked[k].event.kind = "EnemyDefeated" /\ f.parked[k].step = "At" /\ ~f.parked[k].prevented
          /\ f.parked # <<>> => Quiet(r)
    /\ f.kind = "Effect" =>
          /\ f.does = "Dodge" =>
                /\ Len(r) = 7 /\ IsEmit(r[5], "EnemyAttacks") /\ r[5].step = "When" /\ r[5].event.enemy = f.enemy
                /\ \A k \in 1..4 : r[k].kind \in {"EffectBase", "PlayFromHand", "TimingPointWindow", "TimingPoint"}
                /\ r[6].kind = "AttackLoop" /\ r[7].kind = "EnemyPhase"
          /\ f.does \in {"Guard Dog", "Agnes"} => Quiet(r) /\ (f.does = "Guard Dog" => f.enemy \in Enemies)
          /\ f.does = "Agnes" => f.who \in Agnes
          /\ f.does = "Acolyte" =>
                f.enemy \in Acolytes /\ \E k \in 1..Len(r) : Ending(r[k]) /\ r[k].event.enemy = f.enemy

Stands(f, r) ==
    /\ \A k \in 1..Len(r) : ~AsksOrActs(r[k])
    /\ Len(r) >= 1 /\ Ending(r[1]) => f.kind = "TimingPoint"
    /\ StandsPhase(f, r) /\ StandsHarm(f, r) /\ StandsCell(f, r) /\ StandsEffect(f, r)
    /\ f.kind = "EmitEvent" => StandsEmit(f, r)

Good(s) == s \in Seq(AllFrames) /\ \A k \in 1..Len(s) : Stands(s[k], SubSeq(s, k + 1, Len(s)))

------------------------------------------------------------------------------
(* How the stack and the board fit. *)

\* The one point of damage Agnes Baker deals defeats no enemy by itself.
Hardy == Agnes = {} \/ \A b \in Boards : \A e \in Enemies : b.enemies[e].damage + 1 < max_health[e]

\* The attacks a loop has still to begin.
ToBegin(f) == IF f.stage = "Attacking" THEN {f.list[k] : k \in 2..Len(f.list)} ELSE Elems(f.list)
Attackable(e, i) == e \in InPlay => enemies[e].with = i /\ ~enemies[e].exhausted

FitsPhase(f) ==
    /\ f.kind = "HunterMove" => f.enemy \in InPlay /\ enemies[f.enemy].with = None
    /\ f.kind = "EngagementTie" => \A e \in Elems(f.ties) : e \in InPlay /\ enemies[e].with = None
    /\ f.kind = "AttackLoop" =>
          /\ \A e \in ToBegin(f) : struck[e] = 0 /\ (status[f.who] = "Active" => Attackable(e, f.who))
          /\ f.stage = "PickOrder" => status[f.who] = "Active" /\ ~ending
    /\ f.kind = "Elimination" => status[f.who] # "Active"

\* What a frame of an attack, and of the harm it does, says of the board.
FitsBlow(f) ==
    /\ IsEmit(f, "EnemyAttacks") =>
          /\ ~f.prevented => f.event.enemy \notin cancelled
          /\ f.step \in {"When", "ResolveCondition"} =>
                /\ status[f.event.who] = "Active" /\ Attackable(f.event.enemy, f.event.who)
                /\ Hardy => f.event.enemy \in InPlay
    /\ f.kind \in {"EmitEvent", "TimingPoint", "TimingPointWindow"}
          /\ f.event.kind \in {"EnemyAttacks", "DamageDealt", "DamagePlaced"} => struck[f.event.enemy] > 0
    /\ f.kind = "DealDamage" =>
          /\ struck[f.enemy] > 0 /\ f.enemy \notin cancelled
          /\ \A k \in {Damage, Horror} : f.step # "Finish" /\ f.share.asset[k] > 0
                => asset[f.who] # None /\ f.share.asset[k] <= asset[f.who][k]

FitsAttack(f) ==
    /\ FitsBlow(f)
    /\ f.kind = "Effect" => /\ f.does = "Guard Dog" => struck[f.enemy] > 0
                            /\ f.does = "Agnes" => "Agnes" \in used

Fits == \A f \in Frames : FitsPhase(f) /\ FitsAttack(f)

BoardTyped ==
    /\ running \in BOOLEAN /\ ending \in BOOLEAN /\ doom \in Nat
    /\ status \in [Investigators -> {"Active", "Defeated"}]
    /\ at \in [Investigators -> Locations \cup {None}]
    /\ left \in [Investigators -> Points] /\ asset \in Capacities /\ dodge \subseteq Investigators
    /\ InPlay \subseteq Enemies /\ enemies \in FoesInPlay(InPlay)

\* What waits for an answer.
Asked(f) ==
    /\ f.kind = "DealDamage" => f.step = "Distribute" /\ f.remaining # Nothing /\ Contested(f, NextPoint(f))
    /\ f.kind = "Effect" => f.does = "Agnes"
Asking == ~running /\ stack # <<>> => Asked(Top)

\* Whose attack is under way.
Attacker(e) == \E f \in Frames : f.kind = "AttackLoop" /\ f.stage = "Attacking" /\ f.list[1] = e

\* An enemy that has begun its attack is exhausted, or its attack is under way.
Strikes ==
    /\ struck \in [Enemies -> Nat] /\ AttacksOnce /\ cancelled \subseteq {e \in Enemies : struck[e] > 0}
    /\ \A e \in InPlay : struck[e] > 0 => ending \/ enemies[e].exhausted \/ Attacker(e)

Striking(s) == s # <<>> /\ Head(s).kind = "Effect" /\ Head(s).does = "Agnes"

\* Before it attacks, only Agnes can have hurt an enemy.
Spared ==
    Hardy => \A e \in Enemies : struck[e] = 0 =>
        /\ e \in InPlay
        /\ Agnes = {} \/ enemies[e].damage + 1 < max_health[e] \/ ("Agnes" \in used /\ ~Striking(stack))

\* Its Acolyte's doom may still be placed for this attack.
OwedBy(f, e) ==
    \/ f.kind = "Effect" /\ f.does = "Acolyte" /\ f.enemy = e
    \/ /\ f.kind = "TimingPoint" /\ f.event.kind = "EnemyAttacks" /\ f.event.enemy = e
       /\ f.bucket = "After" /\ f.sub = "Forced"
    \/ IsEmit(f, "EnemyAttacks") /\ f.event.enemy = e /\ f.step # "After"
Owed(e) ==
    \/ \E f \in Frames : OwedBy(f, e)
    \/ stack # <<>> /\ Ending(Top) /\ Top.event.enemy = e

\* Each point of doom is an Acolyte's whose attack landed, and no other's.
DoomCounted ==
    \E D \in SUBSET (Acolytes \ cancelled) :
        doom = Cardinality(D) /\ \A e \in D : struck[e] > 0 /\ ~Owed(e)

\* A defeat whose After cell is still to come.
Tells(f, e) ==
    \/ IsEmit(f, "EnemyDefeated") /\ f.event.enemy = e
    \/ f.kind = "EffectBase" /\ \E g \in Elems(f.parked) : g.event.kind = "EnemyDefeated" /\ g.event.enemy = e
Defeats == \A e \in Enemies \ (InPlay \cup announced) : \E f \in Frames : Tells(f, e)

IndInv ==
    /\ Good(stack) /\ Fits /\ BoardTyped /\ Asking /\ (ending => Active(status) = {}) /\ EngagedTogether /\ NoIdleEnemy
    /\ Defeats /\ Strikes /\ Spared /\ DoomCounted

------------------------------------------------------------------------------
(* Sequences, a frame at a time. *)

Over(f, s) == <<f>> \o s

LEMMA OverSeq ==
    ASSUME NEW S, NEW f \in S, NEW s \in Seq(S)
    PROVE  /\ Over(f, s) \in Seq(S) /\ Over(f, s) # <<>>
           /\ Len(Over(f, s)) = Len(s) + 1
           /\ Over(f, s)[1] = f
           /\ \A k \in 1..Len(s) : Over(f, s)[k + 1] = s[k]
           /\ Head(Over(f, s)) = f /\ Tail(Over(f, s)) = s
<1>1. Over(f, s) \in Seq(S) /\ Len(Over(f, s)) = Len(s) + 1
      BY DEF Over
<1>2. Over(f, s)[1] = f /\ \A k \in 1..Len(s) : Over(f, s)[k + 1] = s[k]
      BY DEF Over
<1>3. Over(f, s) # <<>> /\ Head(Over(f, s)) = f
      BY <1>1, <1>2
<1>4. Tail(Over(f, s)) = s
  <2>1. /\ Tail(Over(f, s)) \in Seq(S) /\ Len(Tail(Over(f, s))) = Len(s)
        /\ \A k \in 1..Len(s) : Tail(Over(f, s))[k] = s[k]
        BY <1>1, <1>2, <1>3
  <2> QED BY <2>1, SeqEqual
<1> QED BY <1>1, <1>2, <1>3, <1>4

LEMMA HeadOver ==
    ASSUME NEW S, NEW s \in Seq(S), s # <<>>
    PROVE  /\ Head(s) \in S /\ Tail(s) \in Seq(S) /\ Over(Head(s), Tail(s)) = s
           /\ Len(s) = Len(Tail(s)) + 1 /\ Len(s) \in Nat /\ s[1] = Head(s)
           /\ \A k \in 1..Len(Tail(s)) : s[k + 1] = Tail(s)[k]
<1>1. /\ Head(s) \in S /\ Tail(s) \in Seq(S) /\ Len(s) = Len(Tail(s)) + 1
      /\ Len(s) \in Nat /\ s[1] = Head(s)
      /\ \A k \in 1..Len(Tail(s)) : s[k + 1] = Tail(s)[k]
      OBVIOUS
<1>2. /\ Over(Head(s), Tail(s)) \in Seq(S) /\ Len(Over(Head(s), Tail(s))) = Len(s)
      /\ \A k \in 1..Len(s) : Over(Head(s), Tail(s))[k] = s[k]
  <2>1. /\ Over(Head(s), Tail(s)) \in Seq(S)
        /\ Len(Over(Head(s), Tail(s))) = Len(Tail(s)) + 1
        /\ Over(Head(s), Tail(s))[1] = Head(s)
        /\ \A k \in 1..Len(Tail(s)) : Over(Head(s), Tail(s))[k + 1] = Tail(s)[k]
        BY <1>1, OverSeq, ZenonT(40)
  <2>2. ASSUME NEW k \in 1..Len(s), k # 1 PROVE Over(Head(s), Tail(s))[k] = s[k]
    <3>1. k - 1 \in 1..Len(Tail(s)) /\ (k - 1) + 1 = k
          BY <1>1, <2>2
    <3>2. Over(Head(s), Tail(s))[(k - 1) + 1] = s[(k - 1) + 1]
          BY <1>1, <2>1, <3>1
    <3> QED BY <3>1, <3>2
  <2> QED BY <1>1, <2>1, <2>2
<1> QED BY <1>1, <1>2, SeqEqual

LEMMA OverTwo ==
    ASSUME NEW S, NEW s \in Seq(S)
    PROVE  /\ <<>> \o s = s
           /\ \A f \in S : <<f>> \o s = Over(f, s)
           /\ \A f, g \in S : <<f, g>> \o s = Over(f, Over(g, s))
           /\ \A f, g, h \in S : <<f, g, h>> \o s = Over(f, Over(g, Over(h, s)))
           /\ \A t, u \in Seq(S) : t \o (u \o s) = (t \o u) \o s
           /\ s \o <<>> = s
<1>1. <<>> \o s = s /\ s \o <<>> = s
      BY SeqEqual
<1>2. \A f \in S : <<f>> \o s = Over(f, s)
      BY DEF Over
<1>3. ASSUME NEW f \in S, NEW g \in S PROVE <<f, g>> \o s = Over(f, Over(g, s))
  <2>1. <<f>> \o (<<g>> \o s) = (<<f>> \o <<g>>) \o s
        BY ConcatAssociative, <<f>> \in Seq(S), <<g>> \in Seq(S)
  <2>2. <<f>> \o <<g>> = <<f, g>>
    <3>1. /\ <<f>> \o <<g>> \in Seq(S) /\ <<f, g>> \in Seq(S) /\ Len(<<f>> \o <<g>>) = 2
          /\ (<<f>> \o <<g>>)[1] = f /\ (<<f>> \o <<g>>)[2] = g
          /\ Len(<<f, g>>) = 2 /\ <<f, g>>[1] = f /\ <<f, g>>[2] = g
          OBVIOUS
    <3>2. \A k \in 1..2 : (<<f>> \o <<g>>)[k] = <<f, g>>[k]
      <4>1. \A k \in 1..2 : k = 1 \/ k = 2
            OBVIOUS
      <4> QED BY <3>1, <4>1
    <3> QED BY <3>1, <3>2, SeqEqual
  <2> QED BY <2>1, <2>2 DEF Over
<1>4. ASSUME NEW f \in S, NEW g \in S, NEW h \in S
      PROVE  <<f, g, h>> \o s = Over(f, Over(g, Over(h, s)))
  <2>1. <<f>> \o (<<g, h>> \o s) = (<<f>> \o <<g, h>>) \o s
        BY ConcatAssociative, <<f>> \in Seq(S), <<g, h>> \in Seq(S)
  <2>2. <<f>> \o <<g, h>> = <<f, g, h>>
    <3>1. /\ <<f>> \o <<g, h>> \in Seq(S) /\ <<f, g, h>> \in Seq(S)
          /\ Len(<<f>> \o <<g, h>>) = 3
          /\ (<<f>> \o <<g, h>>)[1] = f /\ (<<f>> \o <<g, h>>)[2] = g
          /\ (<<f>> \o <<g, h>>)[3] = h
          /\ Len(<<f, g, h>>) = 3 /\ <<f, g, h>>[1] = f /\ <<f, g, h>>[2] = g
          /\ <<f, g, h>>[3] = h
          OBVIOUS
    <3>2. \A k \in 1..3 : (<<f>> \o <<g, h>>)[k] = <<f, g, h>>[k]
      <4>1. \A k \in 1..3 : k = 1 \/ k = 2 \/ k = 3
            OBVIOUS
      <4> QED BY <3>1, <4>1
    <3> QED BY <3>1, <3>2, SeqEqual
  <2> QED BY <1>3, <2>1, <2>2 DEF Over
<1>5. \A t, u \in Seq(S) : t \o (u \o s) = (t \o u) \o s
  <2> TAKE t, u \in Seq(S)
  <2>1. (t \o u) \o s = t \o (u \o s)
        BY ConcatAssociative, SMTT(30)
  <2> QED BY <2>1, Zenon
<1> QED BY <1>1, <1>2, <1>3, <1>4, <1>5

\* Induction over the naturals, said of a set so that it can be cited: a set of
\* naturals that held back a least one would, with it, make an infinite descent.
LEMMA NatInduct ==
    ASSUME NEW T \in SUBSET Nat, 0 \in T, \A n \in T : n + 1 \in T
    PROVE  T = Nat
<1>1. SUFFICES ASSUME NEW t \in Nat \ T PROVE FALSE
      OBVIOUS
<1> DEFINE S == 0..t
           F == {0..k : k \in {n \in Nat \ T : n <= t}}
<1>2. IsWellFoundedOn(StrictSubsetOrdering(S), SUBSET S)
  <2>1. IsFiniteSet(S)
        BY FS_Interval
  <2> QED BY <2>1, FS_FiniteSubsetsOfFinite, FS_StrictSubsetOrderingWellFounded
<1>3. PICK x \in F : \A y \in F : ~(<<y, x>> \in StrictSubsetOrdering(S))
  <2>1. F \subseteq SUBSET S /\ F # {}
        BY <1>1
  <2> HIDE DEF F, S
  <2> QED BY <1>2, <2>1, WFMin
<1>4. PICK m \in Nat \ T : m <= t /\ x = 0..m
      BY <1>3
<1>5. m - 1 \in Nat \ T
      BY <1>4
<1>6. /\ 0..(m - 1) \in F
      /\ 0..(m - 1) \subseteq 0..m /\ 0..(m - 1) # 0..m
      /\ F \subseteq SUBSET S
      BY <1>4, <1>5
<1>7. <<0..(m - 1), x>> \in StrictSubsetOrdering(S)
      BY <1>4, <1>6, Zenon DEF StrictSubsetOrdering
<1> QED BY <1>3, <1>6, <1>7

\* What Among computes: the elements that are in G, in their order.
LEMMA AmongProperties ==
    ASSUME NEW S, NEW s \in Seq(S), NEW G
    PROVE  /\ Among(s, G) \in Seq(S)
           /\ Len(Among(s, G)) <= Len(s)
           /\ Elems(Among(s, G)) = Elems(s) \cap G
           /\ \E place \in [DOMAIN Among(s, G) -> DOMAIN s] :
                 /\ \A k \in DOMAIN Among(s, G) : Among(s, G)[k] = s[place[k]]
                 /\ \A j, k \in DOMAIN Among(s, G) : j < k => place[j] < place[k]
<1> DEFINE Body(f, i) == IF i = 0 THEN <<>>
                         ELSE IF s[i] \in G THEN Append(f[i - 1], s[i]) ELSE f[i - 1]
           among[i \in 0..Len(s)] ==
               IF i = 0 THEN <<>>
               ELSE IF s[i] \in G THEN Append(among[i - 1], s[i]) ELSE among[i - 1]
<1>1. Len(s) \in Nat /\ DOMAIN s = 1..Len(s)
      BY LenProperties
<1>2. among = [i \in 0..Len(s) |-> Body(among, i)]
  <2> DEFINE Computed == {n \in Nat : \E f : f = [i \in 0..n |-> Body(f, i)]}
  <2>1. 0 \in Computed
    <3> DEFINE f == [i \in 0..0 |-> <<>>]
    <3>1. f = [i \in 0..0 |-> Body(f, i)]
          OBVIOUS
    <3> HIDE DEF f
    <3> QED BY <3>1
  <2>2. ASSUME NEW n \in Computed PROVE n + 1 \in Computed
    <3>1. PICK f : f = [i \in 0..n |-> Body(f, i)]
          BY <2>2
    <3> DEFINE g == [i \in 0..(n + 1) |-> IF i = n + 1 THEN Body(f, i) ELSE f[i]]
    <3>2. ASSUME NEW i \in 0..(n + 1) PROVE g[i] = Body(g, i)
      <4>1. CASE i = 0
            BY <3>1, <4>1
      <4>2. CASE i \in 1..n
        <5>1. g[i] = f[i] /\ g[i - 1] = f[i - 1]
              BY <4>2
        <5>2. f[i] = Body(f, i)
          <6> HIDE DEF Body
          <6>1. i \in 0..n
                BY <4>2
          <6> QED BY <3>1, <6>1, Zenon
        <5> HIDE DEF g
        <5> QED BY <4>2, <5>1, <5>2
      <4>3. CASE i = n + 1
            BY <4>3
      <4> QED BY <4>1, <4>2, <4>3
    <3>3. g = [i \in 0..(n + 1) |-> Body(g, i)]
      <4> DEFINE h == [i \in 0..(n + 1) |-> Body(g, i)]
      <4>1. \A i \in 0..(n + 1) : h[i] = g[i]
            BY <3>2
      <4>2. DOMAIN g = DOMAIN h /\ DOMAIN h = 0..(n + 1)
            OBVIOUS
      <4> QED BY <3>2
    <3> HIDE DEF g, Body
    <3> QED BY <3>3
  <2>3. Len(s) \in Computed
    <3> HIDE DEF Computed
    <3>1. Computed \in SUBSET Nat
          BY DEF Computed
    <3> QED BY <1>1, <2>1, <2>2, <3>1, NatInduct
  <2>4. PICK f : f = [i \in 0..Len(s) |-> Body(f, i)]
        BY <2>3
  <2>5. among = CHOOSE g : g = [i \in 0..Len(s) |-> Body(g, i)]
        BY DEF among
  <2> HIDE DEF among
  <2> QED BY <2>4, <2>5, ZenonT(30)
<1>3. /\ among[0] = <<>>
      /\ \A i \in 1..Len(s) : among[i] = IF s[i] \in G THEN Append(among[i - 1], s[i])
                                       ELSE among[i - 1]
  <2>1. \A i \in 0..Len(s) : among[i] = Body(among, i)
    <3> HIDE DEF among, Body
    <3> QED BY <1>2
  <2> HIDE DEF among
  <2> QED BY <1>1, <2>1
<1>4. Among(s, G) = among[Len(s)]
      BY DEF Among
<1> DEFINE InPlace(r, n) == \E place \in [DOMAIN r -> 1..n] :
                              /\ \A k \in DOMAIN r : r[k] = s[place[k]]
                              /\ \A j, k \in DOMAIN r : j < k => place[j] < place[k]
           Right(r, n) == /\ r \in Seq(S)
                          /\ Len(r) <= n
                          /\ \A k \in DOMAIN r : r[k] \in G
                          /\ \A j \in 1..n : s[j] \in G => \E k \in DOMAIN r : r[k] = s[j]
                          /\ InPlace(r, n)
           Reached == {n \in Nat : n <= Len(s) => Right(among[n], n)}
<1> HIDE DEF among, InPlace, Right, Reached
<1>5. 0 \in Reached
  <2>1. <<>> \in Seq(S) /\ Len(<<>>) = 0 /\ DOMAIN <<>> = {}
        BY EmptySeq, LenProperties
  <2>2. InPlace(<<>>, 0)
    <3>1. [k \in {} |-> k] \in [DOMAIN <<>> -> 1..0]
          BY <2>1
    <3> QED BY <2>1, <3>1 DEF InPlace
  <2>3. Right(<<>>, 0)
        BY <2>1, <2>2 DEF Right
  <2> QED BY <1>3, <2>3 DEF Reached
<1>6. ASSUME NEW n \in Nat, n \in Reached PROVE n + 1 \in Reached
  <2> SUFFICES ASSUME n + 1 <= Len(s) PROVE Right(among[n + 1], n + 1)
      BY <1>6 DEF Reached
  <2> DEFINE r == among[n]
             e == s[n + 1]
  <2>1. Right(r, n)
        BY <1>1, <1>6 DEF Reached
  <2>2. /\ r \in Seq(S) /\ Len(r) \in Nat /\ DOMAIN r = 1..Len(r) /\ Len(r) <= n
        /\ e \in S
        BY <1>1, <1>6, <2>1, LenProperties, ElementOfSeq DEF Right
  <2>3. PICK f \in [DOMAIN r -> 1..n] : /\ \A k \in DOMAIN r : r[k] = s[f[k]]
                                        /\ \A j, k \in DOMAIN r : j < k => f[j] < f[k]
        BY <2>1 DEF Right, InPlace
  <2>4. /\ \A k \in DOMAIN r : r[k] \in G
        /\ \A j \in 1..n : s[j] \in G => \E k \in DOMAIN r : r[k] = s[j]
        BY <2>1 DEF Right
  <2>5. among[n + 1] = IF e \in G THEN Append(r, e) ELSE r
        BY <1>1, <1>3
  <2> HIDE DEF r, e
  <2>6. \A j \in 1..(n + 1) : j = n + 1 \/ j \in 1..n
        OBVIOUS
  <2>7. CASE e \notin G
    <3>1. f \in [DOMAIN r -> 1..(n + 1)]
          BY <2>2
    <3>2. InPlace(r, n + 1)
          BY <2>3, <3>1 DEF InPlace
    <3>3. \A j \in 1..(n + 1) : s[j] \in G => \E k \in DOMAIN r : r[k] = s[j]
          BY <2>4, <2>6, <2>7 DEF e
    <3>4. Right(r, n + 1)
          BY <2>2, <2>4, <3>2, <3>3 DEF Right
    <3> QED BY <2>5, <2>7, <3>4
  <2>8. CASE e \in G
    <3> DEFINE t == Append(r, e)
    <3>1. /\ t \in Seq(S) /\ Len(t) = Len(r) + 1 /\ DOMAIN t = 1..(Len(r) + 1)
          /\ \A k \in 1..Len(r) : t[k] = r[k]
          /\ t[Len(r) + 1] = e
          BY <2>2, AppendProperties, LenProperties
    <3> HIDE DEF t
    <3> DEFINE g == [k \in DOMAIN t |-> IF k = Len(r) + 1 THEN n + 1 ELSE f[k]]
    <3>2. g \in [DOMAIN t -> 1..(n + 1)]
          BY <2>2, <3>1
    <3>3. \A k \in DOMAIN t : t[k] = s[g[k]]
          BY <2>2, <2>3, <3>1 DEF e
    <3>4. \A j, k \in DOMAIN t : j < k => g[j] < g[k]
          BY <2>2, <2>3, <3>1
    <3> HIDE DEF g
    <3>5. InPlace(t, n + 1)
          BY <3>2, <3>3, <3>4 DEF InPlace
    <3>6. \A k \in DOMAIN t : t[k] \in G
          BY <2>2, <2>4, <2>8, <3>1
    <3>7. \A j \in 1..(n + 1) : s[j] \in G => \E k \in DOMAIN t : t[k] = s[j]
      <4>1. s[n + 1] = e /\ Len(r) + 1 \in DOMAIN t
            BY <2>2, <3>1 DEF e
      <4>2. \A k \in DOMAIN r : k \in DOMAIN t /\ t[k] = r[k]
            BY <2>2, <3>1
      <4> QED BY <2>4, <2>6, <3>1, <4>1, <4>2
    <3>8. Right(t, n + 1)
          BY <2>2, <3>1, <3>5, <3>6, <3>7 DEF Right
    <3> QED BY <2>5, <2>8, <3>8 DEF t
  <2> QED BY <2>7, <2>8
<1>7. Right(Among(s, G), Len(s))
  <2>1. Reached \in SUBSET Nat
        BY DEF Reached
  <2>2. Len(s) \in Reached
        BY <1>1, <1>5, <1>6, <2>1, NatInduct
  <2> QED BY <1>1, <1>4, <2>2 DEF Reached
<1>8. Elems(Among(s, G)) = Elems(s) \cap G
  <2>1. \A k \in DOMAIN Among(s, G) : \E j \in DOMAIN s : Among(s, G)[k] = s[j]
        BY <1>1, <1>7 DEF Right, InPlace
  <2>2. \A j \in DOMAIN s : s[j] \in G =>
             \E k \in DOMAIN Among(s, G) : Among(s, G)[k] = s[j]
        BY <1>1, <1>7 DEF Right
  <2>3. \A k \in DOMAIN Among(s, G) : Among(s, G)[k] \in G
        BY <1>7 DEF Right
  <2> QED BY <2>1, <2>2, <2>3 DEF Elems
<1> QED BY <1>1, <1>7, <1>8 DEF Right, InPlace

\* A set of naturals that is not empty has a least one.
LEMMA Least ==
    ASSUME NEW T \in SUBSET Nat, T # {}
    PROVE  \E m \in T : \A k \in T : m <= k
<1> DEFINE B == {n \in Nat : \A k \in T : n <= k}
<1>1. SUFFICES ASSUME \A m \in T : \E k \in T : k < m PROVE FALSE
  <2>1. \A m \in Nat, k \in Nat : m <= k \/ k < m
        OBVIOUS
  <2> QED BY <2>1
<1>2. 0 \in B
      OBVIOUS
<1>3. \A n \in B : n + 1 \in B
  <2> SUFFICES ASSUME NEW n \in B, NEW k \in T PROVE n + 1 <= k
      OBVIOUS
  <2>1. n \in Nat /\ n <= k /\ k \in Nat
        OBVIOUS
  <2>2. n # k
    <3>1. ASSUME n = k PROVE FALSE
      <4>1. PICK j \in T : j < k
            BY <1>1
      <4> QED BY <2>1, <3>1, <4>1
    <3> QED BY <3>1
  <2> QED BY <2>1, <2>2
<1>4. B = Nat
  <2>1. B \in SUBSET Nat
        OBVIOUS
  <2> HIDE DEF B
  <2> QED BY <1>2, <1>3, <2>1, NatInduct
<1>5. PICK m : m \in T
      OBVIOUS
<1>6. m + 1 \in B
  <2>1. m + 1 \in Nat
        BY <1>5
  <2> HIDE DEF B
  <2> QED BY <1>4, <2>1
<1>7. m + 1 <= m
      BY <1>5, <1>6
<1> QED BY <1>5, <1>7

\* Each investigator has one place in the seating.
LEMMA Seats ==
    /\ Len(Order) \in Nat /\ DOMAIN Order = 1..Len(Order) /\ Order \in Seq(Investigators)
    /\ \A i \in Investigators : Position(i) \in 1..Len(Order) /\ Order[Position(i)] = i
    /\ \A k \in 1..Len(Order) : Order[k] \in Investigators /\ Position(Order[k]) = k
    /\ \A i, j \in Investigators : Position(i) = Position(j) => i = j
<1>1. /\ Len(Order) \in Nat /\ DOMAIN Order = 1..Len(Order) /\ Order \in Seq(Investigators)
      BY OrderAssumption, LenProperties
<1>2. ASSUME NEW i \in Investigators PROVE Position(i) \in 1..Len(Order) /\ Order[Position(i)] = i
  <2>1. \E k \in DOMAIN Order : Order[k] = i
        BY DEF Investigators, Elems
  <2>2. Position(i) \in DOMAIN Order /\ Order[Position(i)] = i
        BY <2>1 DEF Position
  <2> QED BY <1>1, <2>2
<1>3. ASSUME NEW k \in 1..Len(Order) PROVE Order[k] \in Investigators /\ Position(Order[k]) = k
  <2>1. Order[k] \in Investigators
        BY <1>1 DEF Investigators, Elems
  <2>2. Position(Order[k]) \in DOMAIN Order /\ Order[Position(Order[k])] = Order[k]
        BY <1>1, <1>2, <2>1
  <2>3. Position(Order[k]) = k
        BY <1>1, <2>2, OrderAssumption
  <2> QED BY <2>1, <2>3
<1>4. \A i, j \in Investigators : Position(i) = Position(j) => i = j
      BY <1>2
<1> QED BY <1>1, <1>2, <1>3, <1>4

\* The first of a set of investigators in player order.
LEMMA FirstIs ==
    ASSUME NEW S \in SUBSET Investigators
    PROVE  /\ S = {} => FirstOf(S) = None
           /\ S # {} => FirstOf(S) \in S /\ \A j \in S : Position(FirstOf(S)) <= Position(j)
           /\ FirstOf(S) = None <=> S = {}
<1>1. ASSUME S # {} PROVE FirstOf(S) \in S /\ \A j \in S : Position(FirstOf(S)) <= Position(j)
  <2> DEFINE T == {Position(j) : j \in S}
  <2>1. T \in SUBSET Nat /\ T # {}
    <3>1. \A j \in S : Position(j) \in Nat
          BY Seats
    <3> QED BY <1>1, <3>1
  <2>2. PICK m \in T : \A k \in T : m <= k
    <3> HIDE DEF T
    <3> QED BY <2>1, Least
  <2>3. PICK i \in S : m = Position(i)
        BY <2>2
  <2>4. \A j \in S : Position(i) <= Position(j)
        BY <2>2, <2>3
  <2>5. \E x \in S : \A j \in S : Position(x) <= Position(j)
        BY <2>4
  <2>6. FirstOf(S) = CHOOSE x \in S : \A j \in S : Position(x) <= Position(j)
        BY <1>1 DEF FirstOf
  <2> QED BY <2>5, <2>6
<1>2. S = {} => FirstOf(S) = None
      BY DEF FirstOf
<1> QED BY <1>1, <1>2, OrderAssumption

\* Leaving some out keeps an order.
LEMMA ElemsOf ==
    ASSUME NEW S, NEW q \in Seq(S)
    PROVE  /\ Elems(q) \subseteq S
           /\ q = <<>> <=> Elems(q) = {}
           /\ q # <<>> => /\ Head(q) \in S /\ Tail(q) \in Seq(S) /\ Elems(q) = {Head(q)} \cup Elems(Tail(q))
           /\ \A e \in S : Append(q, e) \in Seq(S) /\ Elems(Append(q, e)) = Elems(q) \cup {e}
           /\ Len(q) \in Nat /\ (Len(q) = 0 <=> q = <<>>)
           /\ Len(q) = 1 => Tail(q) = <<>> /\ q[1] = Head(q)
           /\ Len(q) > 1 => Tail(q) # <<>>
<1>1. Len(q) \in Nat /\ DOMAIN q = 1..Len(q) /\ (Len(q) = 0 <=> q = <<>>) /\ \A k \in 1..Len(q) : q[k] \in S
      BY LenProperties, ElementOfSeq, EmptySeq
<1>2. Elems(q) \subseteq S /\ (q = <<>> <=> Elems(q) = {})
  <2>1. q # <<>> => 1 \in DOMAIN q
        BY <1>1
  <2>2. q = <<>> => DOMAIN q = {}
        BY <1>1
  <2>3. DOMAIN q = {} => Elems(q) = {}
        BY Zenon DEF Elems
  <2>4. \A k \in DOMAIN q : q[k] \in Elems(q) /\ q[k] \in S
        BY <1>1 DEF Elems
  <2>5. Elems(q) \subseteq S
        BY <2>4 DEF Elems
  <2> QED BY <2>1, <2>2, <2>3, <2>4, <2>5
<1>3. ASSUME q # <<>>
      PROVE  /\ Head(q) \in S /\ Tail(q) \in Seq(S) /\ Elems(q) = {Head(q)} \cup Elems(Tail(q))
             /\ Len(q) = Len(Tail(q)) + 1 /\ Len(Tail(q)) \in Nat /\ q[1] = Head(q)
  <2>1. /\ Head(q) \in S /\ Tail(q) \in Seq(S) /\ Len(q) = Len(Tail(q)) + 1
        /\ q[1] = Head(q) /\ \A k \in 1..Len(Tail(q)) : q[k + 1] = Tail(q)[k]
        BY <1>3, HeadOver
  <2>2. DOMAIN Tail(q) = 1..Len(Tail(q)) /\ Len(Tail(q)) \in Nat
        BY <2>1, LenProperties
  <2>3. \A k \in DOMAIN q : q[k] = Head(q) \/ \E j \in DOMAIN Tail(q) : q[k] = Tail(q)[j]
    <3> SUFFICES ASSUME NEW k \in DOMAIN q, k # 1 PROVE \E j \in DOMAIN Tail(q) : q[k] = Tail(q)[j]
        BY <2>1
    <3>1. k - 1 \in DOMAIN Tail(q) /\ (k - 1) + 1 = k
          BY <1>1, <2>1, <2>2
    <3> QED BY <2>1, <2>2, <3>1
  <2>4. \A j \in DOMAIN Tail(q) : j + 1 \in DOMAIN q /\ q[j + 1] = Tail(q)[j]
        BY <1>1, <2>1, <2>2
  <2>5. 1 \in DOMAIN q
        BY <1>1, <2>1, <2>2
  <2>6. Elems(q) \subseteq {Head(q)} \cup Elems(Tail(q))
        BY <2>3 DEF Elems
  <2>7. {Head(q)} \cup Elems(Tail(q)) \subseteq Elems(q)
        BY <2>1, <2>4, <2>5 DEF Elems
  <2> QED BY <2>1, <2>2, <2>6, <2>7
<1>4. ASSUME NEW e \in S PROVE Append(q, e) \in Seq(S) /\ Elems(Append(q, e)) = Elems(q) \cup {e}
  <2>1. /\ Append(q, e) \in Seq(S) /\ Len(Append(q, e)) = Len(q) + 1
        /\ \A k \in 1..Len(q) : Append(q, e)[k] = q[k]
        /\ Append(q, e)[Len(q) + 1] = e
        BY AppendProperties
  <2>2. DOMAIN Append(q, e) = 1..(Len(q) + 1)
        BY <2>1, LenProperties
  <2>3. \A k \in 1..(Len(q) + 1) : k \in 1..Len(q) \/ k = Len(q) + 1
        BY <1>1
  <2>4. Elems(Append(q, e)) \subseteq Elems(q) \cup {e}
        BY <1>1, <2>1, <2>2, <2>3 DEF Elems
  <2>5. \A k \in 1..Len(q) : k \in 1..(Len(q) + 1)
        BY <1>1
  <2>6. Len(q) + 1 \in 1..(Len(q) + 1)
        BY <1>1
  <2>7. Elems(q) \cup {e} \subseteq Elems(Append(q, e))
        BY <1>1, <2>1, <2>2, <2>5, <2>6 DEF Elems
  <2> QED BY <2>1, <2>4, <2>7
<1>5. Len(q) = 1 => Tail(q) = <<>> /\ q[1] = Head(q)
  <2>1. q # <<>> => (Tail(q) = <<>> <=> Len(Tail(q)) = 0)
        BY <1>3, EmptySeq
  <2> QED BY <1>1, <1>3, <2>1
<1>6. Len(q) > 1 => Tail(q) # <<>>
  <2> SUFFICES ASSUME Len(q) > 1, Tail(q) = <<>> PROVE FALSE
      OBVIOUS
  <2>1. q # <<>>
        BY <1>1
  <2>2. Len(q) = Len(Tail(q)) + 1 /\ Len(Tail(q)) = 0
        BY <1>3, <2>1, EmptySeq
  <2> QED BY <2>2
<1> QED BY <1>1, <1>2, <1>3, <1>4, <1>5, <1>6

\* What lies under each frame of a stack.
LEMMA SubOver ==
    ASSUME NEW S, NEW f \in S, NEW s \in Seq(S)
    PROVE  /\ SubSeq(Over(f, s), 2, Len(Over(f, s))) = s
           /\ \A k \in 1..Len(s) : SubSeq(Over(f, s), k + 2, Len(Over(f, s))) = SubSeq(s, k + 1, Len(s))
<1> DEFINE t == Over(f, s)
<1>1. /\ t \in Seq(S) /\ Len(t) = Len(s) + 1 /\ Len(s) \in Nat
      /\ \A k \in 1..Len(s) : t[k + 1] = s[k]
      BY OverSeq, LenProperties
<1> HIDE DEF t
<1>2. SubSeq(t, 2, Len(t)) = s
  <2>1. /\ SubSeq(t, 2, Len(t)) \in Seq(S) /\ Len(SubSeq(t, 2, Len(t))) = Len(s)
        /\ \A k \in 1..Len(s) : SubSeq(t, 2, Len(t))[k] = t[k + 1]
        BY <1>1, SubSeqProperties
  <2> QED BY <1>1, <2>1, SeqEqual
<1>3. ASSUME NEW k \in 1..Len(s) PROVE SubSeq(t, k + 2, Len(t)) = SubSeq(s, k + 1, Len(s))
  <2> DEFINE n == Len(s) - k
             u == SubSeq(t, k + 2, Len(t))
             v == SubSeq(s, k + 1, Len(s))
  <2>1. n \in Nat /\ k \in Nat
        BY <1>1
  <2>2. u \in Seq(S) /\ Len(u) = n /\ \A j \in 1..n : u[j] = t[k + 1 + j]
        BY <1>1, <2>1, SubSeqProperties
  <2>3. v \in Seq(S) /\ Len(v) = n /\ \A j \in 1..n : v[j] = s[k + j]
        BY <1>1, <2>1, SubSeqProperties
  <2>4. \A j \in 1..n : t[k + 1 + j] = s[k + j]
    <3> TAKE j \in 1..n
    <3>1. k + j \in 1..Len(s) /\ (k + j) + 1 = k + 1 + j
          BY <1>1, <2>1
    <3> QED BY <1>1, <3>1
  <2> HIDE DEF u, v, n
  <2>5. u = v
        BY <2>2, <2>3, <2>4, SeqEqual
  <2> QED BY <2>5 DEF u, v
<1> QED BY <1>2, <1>3 DEF t

LEMMA SubIs ==
    ASSUME NEW S, NEW s \in Seq(S), NEW k \in 1..Len(s)
    PROVE  LET r == SubSeq(s, k + 1, Len(s)) IN
           /\ r \in Seq(S) /\ Len(r) = Len(s) - k /\ Len(r) \in Nat
           /\ \A j \in 1..Len(r) : r[j] = s[k + j] /\ k + j \in 1..Len(s)
           /\ \A j \in (k + 1)..Len(s) : j - k \in 1..Len(r) /\ r[j - k] = s[j]
<1> DEFINE r == SubSeq(s, k + 1, Len(s))
           n == Len(s) - k
<1>1. Len(s) \in Nat /\ k \in Nat /\ n \in Nat
      BY LenProperties
<1>2. r \in Seq(S) /\ Len(r) = n /\ \A j \in 1..n : r[j] = s[k + j]
      BY <1>1, SubSeqProperties
<1> HIDE DEF r
<1>3. \A j \in 1..n : k + j \in 1..Len(s)
      BY <1>1
<1>4. ASSUME NEW j \in (k + 1)..Len(s) PROVE j - k \in 1..n /\ r[j - k] = s[j]
  <2>1. j - k \in 1..n /\ k + (j - k) = j
        BY <1>1
  <2>2. r[j - k] = s[k + (j - k)]
        BY <1>2, <2>1
  <2> QED BY <2>1, <2>2
<1> QED BY <1>1, <1>2, <1>3, <1>4 DEF r

------------------------------------------------------------------------------
(* Stacks that stand. *)

\* A frame's kind says its fields.
LEMMA KindIs ==
    ASSUME NEW f \in AllFrames
    PROVE  /\ f.kind = "EnemyPhase" => f \in Anchors
           /\ f.kind = "HunterMove" => f \in HunterMoves
           /\ f.kind = "EngagementTie" => f \in EngagementTies
           /\ f.kind = "AttackLoop" => f \in AttackLoops
           /\ f.kind = "EmitEvent" => f \in EmitEvents
           /\ f.kind = "TimingPoint" => f \in TimingPoints
           /\ f.kind = "TimingPointWindow" => f \in Windows
           /\ f.kind = "EffectBase" => f \in EffectBases
           /\ f.kind = "Effect" => f \in Effects
           /\ f.kind = "PlayFromHand" => f \in PlaysFromHand
           /\ f.kind = "DealDamage" => f \in DealsOfDamage
           /\ f.kind = "Elimination" => f \in Eliminations
<1>1. /\ f \in PhaseFrames => f.kind \in {"EnemyPhase", "HunterMove", "EngagementTie", "AttackLoop"}
      /\ f \in CellFrames => f.kind \in {"EmitEvent", "TimingPoint", "TimingPointWindow"}
      /\ f \in EffectFrames => f.kind \in {"EffectBase", "Effect", "PlayFromHand"}
      /\ f \in DealsOfDamage => f.kind = "DealDamage"
      /\ f \in Eliminations => f.kind = "Elimination"
      BY DEF PhaseFrames, CellFrames, EffectFrames, DealsOfDamage, Eliminations, Anchors, HunterMoves,
             EngagementTies, AttackLoops, EmitEvents, TimingPoints, Windows, EffectBases, Effects, PlaysFromHand
<1>2. f \in PhaseFrames => /\ f.kind = "EnemyPhase" => f \in Anchors
                           /\ f.kind = "HunterMove" => f \in HunterMoves
                           /\ f.kind = "EngagementTie" => f \in EngagementTies
                           /\ f.kind = "AttackLoop" => f \in AttackLoops
      BY DEF PhaseFrames, Anchors, HunterMoves, EngagementTies, AttackLoops
<1>3. f \in CellFrames => /\ f.kind = "EmitEvent" => f \in EmitEvents
                          /\ f.kind = "TimingPoint" => f \in TimingPoints
                          /\ f.kind = "TimingPointWindow" => f \in Windows
      BY DEF CellFrames, EmitEvents, TimingPoints, Windows
<1>4. f \in EffectFrames => /\ f.kind = "EffectBase" => f \in EffectBases
                            /\ f.kind = "Effect" => f \in Effects
                            /\ f.kind = "PlayFromHand" => f \in PlaysFromHand
      BY DEF EffectFrames, EffectBases, Effects, PlaysFromHand
<1> QED BY <1>1, <1>2, <1>3, <1>4 DEF AllFrames

\* An event's kind says its fields.
LEMMA EventIs ==
    ASSUME NEW ev \in Events
    PROVE  /\ ev.kind = "EnemyAttacks" => ev \in AttackEvents
           /\ ev.kind \in {"DamageDealt", "DamagePlaced"} => ev \in HarmEvents
           /\ ev.kind = "EnemyDefeated" => ev \in DefeatEvents
           /\ ev.kind = "EliminationGameEnd" => ev \in GameEndEvents
           /\ ev.who \in Investigators /\ ev.enemy \in Enemies \cup {None}
           /\ ev.kind # "EliminationGameEnd" => ev.enemy \in Enemies
           /\ ev.kind \in {"EnemyAttacks", "DamageDealt", "DamagePlaced", "EnemyDefeated", "EliminationGameEnd"}
BY DEF Events, AttackEvents, HarmEvents, DefeatEvents, GameEndEvents

LEMMA GoodPush ==
    ASSUME NEW r, Good(r), NEW f \in AllFrames, Stands(f, r)
    PROVE  Good(Over(f, r))
<1> DEFINE t == Over(f, r)
<1>1. r \in Seq(AllFrames)
      BY DEF Good
<1>2. /\ t \in Seq(AllFrames) /\ Len(t) = Len(r) + 1 /\ t[1] = f /\ Len(r) \in Nat
      /\ \A k \in 1..Len(r) : t[k + 1] = r[k]
      BY <1>1, OverSeq, LenProperties
<1>3. /\ SubSeq(t, 2, Len(t)) = r
      /\ \A k \in 1..Len(r) : SubSeq(t, k + 2, Len(t)) = SubSeq(r, k + 1, Len(r))
      BY <1>1, SubOver, ZenonT(30)
<1> HIDE DEF t
<1>4. ASSUME NEW k \in 1..Len(t) PROVE Stands(t[k], SubSeq(t, k + 1, Len(t)))
  <2>1. CASE k = 1
    <3>1. Stands(t[1], SubSeq(t, 2, Len(t)))
          BY <1>2, <1>3
    <3> QED BY <2>1, <3>1
  <2>2. CASE k # 1
    <3> DEFINE j == k - 1
    <3>1. j \in 1..Len(r) /\ k = j + 1 /\ k + 1 = j + 2
          BY <1>2, <2>2
    <3> HIDE DEF j
    <3>2. Stands(r[j], SubSeq(r, j + 1, Len(r)))
          BY <3>1 DEF Good
    <3> QED BY <1>2, <1>3, <3>1, <3>2
  <2> QED BY <2>1, <2>2
<1> QED BY <1>2, <1>4 DEF Good, t

LEMMA GoodPop ==
    ASSUME NEW s, Good(s), s # <<>>
    PROVE  /\ Head(s) \in AllFrames /\ Good(Tail(s)) /\ Stands(Head(s), Tail(s))
           /\ s = Over(Head(s), Tail(s)) /\ s \in Seq(AllFrames) /\ Tail(s) \in Seq(AllFrames)
           /\ Len(s) = Len(Tail(s)) + 1 /\ Len(Tail(s)) \in Nat /\ s[1] = Head(s)
           /\ \A k \in 1..Len(Tail(s)) : s[k + 1] = Tail(s)[k]
<1> DEFINE r == Tail(s)
           f == Head(s)
<1>1. s \in Seq(AllFrames)
      BY DEF Good
<1>2. /\ f \in AllFrames /\ r \in Seq(AllFrames) /\ Over(f, r) = s
      /\ Len(s) = Len(r) + 1 /\ s[1] = f /\ Len(r) \in Nat
      /\ \A k \in 1..Len(r) : s[k + 1] = r[k]
      BY <1>1, HeadOver, LenProperties
<1> HIDE DEF r, f
<1>3. /\ SubSeq(s, 2, Len(s)) = r
      /\ \A k \in 1..Len(r) : SubSeq(s, k + 2, Len(s)) = SubSeq(r, k + 1, Len(r))
      BY <1>2, SubOver
<1>4. Stands(f, r)
  <2>1. 1 \in 1..Len(s) /\ 1 + 1 = 2
        BY <1>2
  <2>2. Stands(s[1], SubSeq(s, 1 + 1, Len(s)))
        BY <2>1 DEF Good
  <2> QED BY <1>2, <1>3, <2>1, <2>2
<1>5. ASSUME NEW k \in 1..Len(r) PROVE Stands(r[k], SubSeq(r, k + 1, Len(r)))
  <2>1. k + 1 \in 1..Len(s) /\ (k + 1) + 1 = k + 2
        BY <1>2
  <2>2. Stands(s[k + 1], SubSeq(s, (k + 1) + 1, Len(s)))
        BY <2>1 DEF Good
  <2> QED BY <1>2, <1>3, <2>1, <2>2
<1> QED BY <1>1, <1>2, <1>4, <1>5 DEF Good, r, f

\* Each frame of a stack stands on what is under it.
LEMMA GoodAt ==
    ASSUME NEW s, Good(s), NEW k \in 1..Len(s)
    PROVE  /\ s[k] \in AllFrames /\ Stands(s[k], SubSeq(s, k + 1, Len(s)))
           /\ s \in Seq(AllFrames) /\ Len(s) \in Nat
BY LenProperties, ElementOfSeq DEF Good

\* A stack on which something can be put.
Resting(r) == (\A k \in 1..Len(r) : ~AsksOrActs(r[k])) /\ ~(Len(r) >= 1 /\ Ending(r[1]))

LEMMA GoodMake ==
    ASSUME NEW r, Good(r), Resting(r), NEW f \in AllFrames,
           StandsPhase(f, r), StandsHarm(f, r), StandsCell(f, r), StandsEffect(f, r),
           f.kind = "EmitEvent" => StandsEmit(f, r)
    PROVE  Good(Over(f, r))
BY GoodPush DEF Stands, Resting

LEMMA GoodPhase ==
    ASSUME NEW r, Good(r), Resting(r), NEW f \in PhaseFrames, StandsPhase(f, r)
    PROVE  Good(Over(f, r))
<1>1. f \in AllFrames /\ f.kind \in {"EnemyPhase", "HunterMove", "EngagementTie", "AttackLoop"}
      BY DEF AllFrames, PhaseFrames, Anchors, HunterMoves, EngagementTies, AttackLoops
<1>2. StandsHarm(f, r) /\ StandsCell(f, r) /\ StandsEffect(f, r)
      BY <1>1 DEF StandsHarm, StandsCell, StandsEffect
<1> QED BY <1>1, <1>2, GoodMake

LEMMA GoodEmit ==
    ASSUME NEW r, Good(r), Resting(r), NEW f \in EmitEvents, StandsEmit(f, r)
    PROVE  Good(Over(f, r))
<1>1. f \in AllFrames /\ f.kind = "EmitEvent"
      BY DEF AllFrames, CellFrames, EmitEvents
<1>2. StandsPhase(f, r) /\ StandsHarm(f, r) /\ StandsCell(f, r) /\ StandsEffect(f, r)
      BY <1>1 DEF StandsPhase, StandsHarm, StandsCell, StandsEffect
<1> QED BY <1>1, <1>2, GoodMake

\* A point is all that may stand on an attack's After cell.
LEMMA GoodPoint ==
    ASSUME NEW r, Good(r), \A k \in 1..Len(r) : ~AsksOrActs(r[k]), NEW f \in TimingPoints, StandsCell(f, r)
    PROVE  Good(Over(f, r))
<1>1. f \in AllFrames /\ f.kind = "TimingPoint"
      BY DEF AllFrames, CellFrames, TimingPoints
<1>2. StandsPhase(f, r) /\ StandsHarm(f, r) /\ StandsEffect(f, r)
      BY <1>1 DEF StandsPhase, StandsHarm, StandsEffect
<1> QED BY <1>1, <1>2, GoodPush DEF Stands

LEMMA GoodWindow ==
    ASSUME NEW r, Good(r), Resting(r), NEW f \in Windows, StandsCell(f, r)
    PROVE  Good(Over(f, r))
<1>1. f \in AllFrames /\ f.kind = "TimingPointWindow"
      BY DEF AllFrames, CellFrames, Windows
<1>2. StandsPhase(f, r) /\ StandsHarm(f, r) /\ StandsEffect(f, r)
      BY <1>1 DEF StandsPhase, StandsHarm, StandsEffect
<1> QED BY <1>1, <1>2, GoodMake

LEMMA GoodEffect ==
    ASSUME NEW r, Good(r), Resting(r), NEW f \in EffectFrames, StandsEffect(f, r)
    PROVE  Good(Over(f, r))
<1>1. f \in AllFrames /\ f.kind \in {"EffectBase", "Effect", "PlayFromHand"}
      BY DEF AllFrames, EffectFrames, EffectBases, Effects, PlaysFromHand
<1>2. StandsPhase(f, r) /\ StandsHarm(f, r) /\ StandsCell(f, r)
      BY <1>1 DEF StandsPhase, StandsHarm, StandsCell
<1> QED BY <1>1, <1>2, GoodMake

LEMMA GoodHarm ==
    ASSUME NEW r, Good(r), Resting(r), NEW f \in DealsOfDamage \cup Eliminations, StandsHarm(f, r)
    PROVE  Good(Over(f, r))
<1>1. f \in AllFrames /\ f.kind \in {"DealDamage", "Elimination"}
      BY DEF AllFrames, DealsOfDamage, Eliminations
<1>2. StandsPhase(f, r) /\ StandsCell(f, r) /\ StandsEffect(f, r)
      BY <1>1 DEF StandsPhase, StandsCell, StandsEffect
<1> QED BY <1>1, <1>2, GoodMake

LEMMA GoodEmpty == Good(<<>>)
<1>1. <<>> \in Seq(AllFrames) /\ Len(<<>>) = 0
      BY EmptySeq
<1>2. \A k \in 1..0 : FALSE
      OBVIOUS
<1> QED BY <1>1, <1>2 DEF Good

\* What is under the top, whatever the top is.
LEMMA UnderTop ==
    ASSUME NEW s, Good(s), s # <<>>
    PROVE  /\ \A k \in 1..Len(Tail(s)) : ~AsksOrActs(Tail(s)[k])
           /\ Head(s).kind # "TimingPoint" => Resting(Tail(s))
BY GoodPop DEF Stands, Resting

\* What holds under a frame holds under both, when both are alike.
LEMMA OverRests ==
    ASSUME NEW r \in Seq(AllFrames), NEW f \in AllFrames, \A k \in 1..Len(r) : ~AsksOrActs(r[k]), ~AsksOrActs(f)
    PROVE  /\ \A k \in 1..Len(Over(f, r)) : ~AsksOrActs(Over(f, r)[k])
           /\ ~Ending(f) => Resting(Over(f, r))
<1> DEFINE t == Over(f, r)
<1>1. Len(t) = Len(r) + 1 /\ t[1] = f /\ Len(r) \in Nat /\ \A k \in 1..Len(r) : t[k + 1] = r[k]
      BY OverSeq, LenProperties
<1> HIDE DEF t
<1>2. ASSUME NEW k \in 1..Len(t) PROVE ~AsksOrActs(t[k])
  <2>1. k = 1 \/ (k - 1 \in 1..Len(r) /\ (k - 1) + 1 = k)
        BY <1>1
  <2> QED BY <1>1, <2>1
<1> QED BY <1>1, <1>2 DEF Resting, t

LEMMA OverQuiet ==
    ASSUME NEW r \in Seq(AllFrames), Quiet(r), NEW f \in AllFrames, f.kind # "PlayFromHand",
           IsEmit(f, "EnemyAttacks") => f.step \notin {"When", "ResolveCondition"}
    PROVE  Quiet(Over(f, r))
<1> DEFINE t == Over(f, r)
<1>1. Len(t) = Len(r) + 1 /\ t[1] = f /\ Len(r) \in Nat /\ \A k \in 1..Len(r) : t[k + 1] = r[k]
      BY OverSeq, LenProperties
<1> HIDE DEF t
<1>2. ASSUME NEW k \in 1..Len(t)
      PROVE  /\ t[k].kind # "PlayFromHand"
             /\ IsEmit(t[k], "EnemyAttacks") => t[k].step \notin {"When", "ResolveCondition"}
  <2>1. k = 1 \/ (k - 1 \in 1..Len(r) /\ (k - 1) + 1 = k)
        BY <1>1
  <2> QED BY <1>1, <2>1 DEF Quiet
<1> QED BY <1>2 DEF Quiet, t

LEMMA OverBoundless ==
    ASSUME NEW r \in Seq(AllFrames), NEW f \in AllFrames, f.kind # "EffectBase", Boundless(r) \/ BoundsEffectDeferral(f)
    PROVE  Boundless(Over(f, r))
<1> DEFINE t == Over(f, r)
<1>1. Len(t) = Len(r) + 1 /\ t[1] = f /\ Len(r) \in Nat /\ \A k \in 1..Len(r) : t[k + 1] = r[k]
      BY OverSeq, LenProperties
<1> HIDE DEF t
<1>2. ASSUME NEW k \in 1..Len(t), t[k].kind = "EffectBase" PROVE \E j \in 1..k : BoundsEffectDeferral(t[j])
  <2>1. k # 1 /\ k - 1 \in 1..Len(r) /\ (k - 1) + 1 = k
        BY <1>1, <1>2
  <2>2. CASE BoundsEffectDeferral(f)
        BY <1>1, <2>2, 1 \in 1..k
  <2>3. CASE Boundless(r)
    <3>1. PICK j \in 1..(k - 1) : BoundsEffectDeferral(r[j])
          BY <1>1, <1>2, <2>1, <2>3 DEF Boundless
    <3>2. j \in 1..Len(r) /\ j + 1 \in 1..k
          BY <1>1, <2>1
    <3> QED BY <1>1, <3>1, <3>2
  <2> QED BY <2>2, <2>3
<1> QED BY <1>2 DEF Boundless, t

LEMMA OverElems ==
    ASSUME NEW S, NEW f \in S, NEW s \in Seq(S)
    PROVE  Elems(Over(f, s)) = {f} \cup Elems(s)
<1>1. /\ Over(f, s) \in Seq(S) /\ Over(f, s) # <<>> /\ Head(Over(f, s)) = f /\ Tail(Over(f, s)) = s
      BY OverSeq
<1> QED BY <1>1, ElemsOf

------------------------------------------------------------------------------
(* Frames changed where they stand. *)

\* What a frame shows to those that stand on it.
Alike(f, g) ==
    /\ f.kind = g.kind
    /\ \/ f = g
       \/ f.kind = "EffectBase"
       \/ f.kind = "EmitEvent" /\ f.event = g.event /\ f.step = g.step

LEMMA AlikeShow ==
    ASSUME NEW f, NEW g, Alike(f, g)
    PROVE  /\ f.kind = g.kind /\ (AsksOrActs(f) <=> AsksOrActs(g)) /\ (Ending(f) <=> Ending(g))
           /\ BoundsEffectDeferral(f) <=> BoundsEffectDeferral(g)
           /\ f.kind = "EmitEvent" => f.event = g.event /\ f.step = g.step
           /\ f.kind = "TimingPoint" => f = g
           /\ \A kind : IsEmit(f, kind) <=> IsEmit(g, kind)
BY DEF Alike, AsksOrActs, Ending, IsEmit, BoundsEffectDeferral

LEMMA StandsAlike ==
    ASSUME NEW r, NEW u, Len(r) \in Nat, Len(u) = Len(r), \A k \in 1..Len(r) : Alike(r[k], u[k]),
           r = <<>> <=> u = <<>>, NEW f, Stands(f, r)
    PROVE  Stands(f, u)
<1>1. \A k \in 1..Len(r) : ~AsksOrActs(u[k])
      BY AlikeShow DEF Stands
<1>2. Len(r) >= 1 => (Ending(r[1]) <=> Ending(u[1])) /\ 1 \in 1..Len(r)
      BY AlikeShow
<1>3. Quiet(r) => Quiet(u)
  <2> SUFFICES ASSUME Quiet(r), NEW k \in 1..Len(u)
               PROVE  /\ u[k].kind # "PlayFromHand"
                      /\ IsEmit(u[k], "EnemyAttacks") => u[k].step \notin {"When", "ResolveCondition"}
      BY DEF Quiet
  <2>1. /\ r[k].kind # "PlayFromHand"
        /\ IsEmit(r[k], "EnemyAttacks") => r[k].step \notin {"When", "ResolveCondition"}
        BY DEF Quiet
  <2>2. r[k].kind = u[k].kind /\ (IsEmit(r[k], "EnemyAttacks") <=> IsEmit(u[k], "EnemyAttacks"))
        /\ (r[k].kind = "EmitEvent" => r[k].step = u[k].step)
        BY AlikeShow
  <2> QED BY <2>1, <2>2 DEF IsEmit
<1>4. Boundless(r) => Boundless(u)
  <2> SUFFICES ASSUME Boundless(r), NEW k \in 1..Len(u), u[k].kind = "EffectBase"
               PROVE  \E j \in 1..k : BoundsEffectDeferral(u[j])
      BY DEF Boundless
  <2>1. r[k].kind = "EffectBase"
        BY AlikeShow
  <2>2. PICK j \in 1..k : BoundsEffectDeferral(r[j])
        BY <2>1 DEF Boundless
  <2>3. j \in 1..Len(r)
        OBVIOUS
  <2> QED BY <2>2, <2>3, AlikeShow
<1>5. OverAnchor(r) => OverAnchor(u)
      BY AlikeShow, 1 \in 1..1 DEF OverAnchor
<1>6. StandsPhase(f, u)
      BY <1>3, <1>5 DEF Stands, StandsPhase
<1>7. StandsHarm(f, u)
      BY <1>3, <1>4 DEF Stands, StandsHarm
<1>8. StandsCell(f, u)
  <2>1. Len(r) >= 1 => /\ r[1].kind = u[1].kind /\ (r[1].kind = "TimingPoint" => r[1] = u[1])
                       /\ r[1].kind = "EmitEvent" => r[1].event = u[1].event /\ r[1].step = u[1].step
        BY <1>2, AlikeShow
  <2>2. StandsCell(f, r)
        BY DEF Stands
  <2> QED BY <1>3, <2>1, <2>2 DEF StandsCell
<1>9. f.kind = "EmitEvent" => StandsEmit(f, u)
  <2> SUFFICES ASSUME f.kind = "EmitEvent" PROVE StandsEmit(f, u)
      OBVIOUS
  <2>1. StandsEmit(f, r)
        BY DEF Stands
  <2>2. Len(r) >= 1 => r[1].kind = u[1].kind
        BY <1>2, AlikeShow
  <2>3. Len(r) = 2 => r[2].kind = u[2].kind
        BY AlikeShow, 2 \in 1..2
  <2> QED BY <1>3, <1>4, <2>1, <2>2, <2>3 DEF StandsEmit
<1>10. StandsEffect(f, u)
  <2>1. StandsEffect(f, r)
        BY DEF Stands
  <2>2. f.kind = "EffectBase" =>
          /\ \A k \in 1..Len(f.parked) :
                f.parked[k].event.kind = "EnemyDefeated" /\ f.parked[k].step = "At" /\ ~f.parked[k].prevented
          /\ f.parked # <<>> => Quiet(u)
        BY <1>3, <2>1 DEF StandsEffect
  <2>3. f.kind = "Effect" /\ f.does = "Dodge" =>
           /\ Len(u) = 7 /\ IsEmit(u[5], "EnemyAttacks") /\ u[5].step = "When" /\ u[5].event.enemy = f.enemy
           /\ \A k \in 1..4 : u[k].kind \in {"EffectBase", "PlayFromHand", "TimingPointWindow", "TimingPoint"}
           /\ u[6].kind = "AttackLoop" /\ u[7].kind = "EnemyPhase"
    <3> SUFFICES ASSUME f.kind = "Effect", f.does = "Dodge"
                 PROVE  /\ Len(u) = 7 /\ IsEmit(u[5], "EnemyAttacks") /\ u[5].step = "When" /\ u[5].event.enemy = f.enemy
                        /\ \A k \in 1..4 : u[k].kind \in {"EffectBase", "PlayFromHand", "TimingPointWindow", "TimingPoint"}
                        /\ u[6].kind = "AttackLoop" /\ u[7].kind = "EnemyPhase"
        OBVIOUS
    <3>1. /\ Len(r) = 7 /\ IsEmit(r[5], "EnemyAttacks") /\ r[5].step = "When" /\ r[5].event.enemy = f.enemy
          /\ \A k \in 1..4 : r[k].kind \in {"EffectBase", "PlayFromHand", "TimingPointWindow", "TimingPoint"}
          /\ r[6].kind = "AttackLoop" /\ r[7].kind = "EnemyPhase"
          BY <2>1 DEF StandsEffect
    <3>2. \A k \in 1..7 : r[k].kind = u[k].kind
          BY <3>1, AlikeShow
    <3>3. IsEmit(u[5], "EnemyAttacks") /\ r[5].event = u[5].event /\ r[5].step = u[5].step
      <4>1. Alike(r[5], u[5])
            BY <3>1
      <4> QED BY <3>1, <4>1, AlikeShow DEF IsEmit
    <3>4. \A k \in 1..4 : k \in 1..7
          OBVIOUS
    <3> QED BY <3>1, <3>2, <3>3, <3>4
  <2>4. f.kind = "Effect" =>
           /\ f.does \in {"Guard Dog", "Agnes"} => Quiet(u) /\ (f.does = "Guard Dog" => f.enemy \in Enemies)
           /\ f.does = "Agnes" => f.who \in Agnes
        BY <1>3, <2>1 DEF StandsEffect
  <2>5. f.kind = "Effect" /\ f.does = "Acolyte" =>
           f.enemy \in Acolytes /\ \E k \in 1..Len(u) : Ending(u[k]) /\ u[k].event.enemy = f.enemy
    <3> SUFFICES ASSUME f.kind = "Effect", f.does = "Acolyte"
                 PROVE  f.enemy \in Acolytes /\ \E k \in 1..Len(u) : Ending(u[k]) /\ u[k].event.enemy = f.enemy
        OBVIOUS
    <3>1. PICK k \in 1..Len(r) : Ending(r[k]) /\ r[k].event.enemy = f.enemy
          BY <2>1 DEF StandsEffect
    <3>2. r[k].kind = "EmitEvent"
          BY <3>1 DEF Ending, IsEmit
    <3>3. Ending(u[k]) /\ u[k].event = r[k].event
          BY <3>1, <3>2, AlikeShow
    <3> QED BY <2>1, <3>1, <3>3 DEF StandsEffect
  <2> QED BY <2>2, <2>3, <2>4, <2>5 DEF StandsEffect
<1>11. Len(u) >= 1 /\ Ending(u[1]) => f.kind = "TimingPoint"
      BY <1>2 DEF Stands
<1> QED BY <1>1, <1>6, <1>7, <1>8, <1>9, <1>10, <1>11 DEF Stands

\* A frame changed for one alike that stands where it stood.
LEMMA GoodChange ==
    ASSUME NEW s, Good(s), NEW b \in 1..Len(s), NEW g \in AllFrames, Alike(s[b], g),
           Stands(g, SubSeq(s, b + 1, Len(s)))
    PROVE  Good([s EXCEPT ![b] = g])
<1> DEFINE t == [s EXCEPT ![b] = g]
<1>1. s \in Seq(AllFrames) /\ Len(s) \in Nat
      BY LenProperties DEF Good
<1>2. /\ t \in Seq(AllFrames) /\ Len(t) = Len(s)
      /\ \A j \in 1..Len(s) : t[j] = IF j = b THEN g ELSE s[j]
      BY <1>1, ExceptSeq
<1> HIDE DEF t
<1>3. \A j \in 1..Len(s) : Alike(s[j], t[j])
      BY <1>2 DEF Alike
<1>4. ASSUME NEW k \in 1..Len(s) PROVE Stands(t[k], SubSeq(t, k + 1, Len(t)))
  <2> DEFINE r == SubSeq(s, k + 1, Len(s))
             u == SubSeq(t, k + 1, Len(t))
  <2>1. /\ r \in Seq(AllFrames) /\ Len(r) = Len(s) - k /\ Len(r) \in Nat
        /\ \A j \in 1..Len(r) : r[j] = s[k + j] /\ k + j \in 1..Len(s)
        BY <1>1, SubIs
  <2>2. /\ u \in Seq(AllFrames) /\ Len(u) = Len(s) - k
        /\ \A j \in 1..Len(u) : u[j] = t[k + j]
        BY <1>2, SubIs
  <2>3. Stands(t[k], r)
    <3>1. CASE k = b
          BY <1>2, <3>1
    <3>2. CASE k # b
          BY <1>2, <3>2 DEF Good
    <3> QED BY <3>1, <3>2
  <2> HIDE DEF r, u
  <2>4. \A j \in 1..Len(r) : Alike(r[j], u[j])
        BY <1>3, <2>1, <2>2
  <2>5. r = <<>> <=> u = <<>>
        BY <2>1, <2>2, EmptySeq
  <2>6. Stands(t[k], u)
        BY <2>1, <2>2, <2>3, <2>4, <2>5, StandsAlike
  <2> QED BY <2>6 DEF u
<1> QED BY <1>2, <1>4 DEF Good, t

------------------------------------------------------------------------------
(* The top. *)

\* The frame on top and what is under it.
LEMMA TopIs ==
    ASSUME Good(stack), stack # <<>>
    PROVE  /\ Top \in AllFrames /\ Good(Beneath) /\ Stands(Top, Beneath) /\ stack = Over(Top, Beneath)
           /\ Beneath \in Seq(AllFrames) /\ stack \in Seq(AllFrames)
           /\ Frames = {Top} \cup Elems(Beneath) /\ Elems(Beneath) \subseteq AllFrames
           /\ \A k \in 1..Len(Beneath) : ~AsksOrActs(Beneath[k])
           /\ \A f \in Elems(Beneath) : ~AsksOrActs(f)
           /\ Top.kind # "TimingPoint" => Resting(Beneath)
<1>1. /\ Top \in AllFrames /\ Good(Beneath) /\ Stands(Top, Beneath) /\ stack = Over(Top, Beneath)
      /\ Beneath \in Seq(AllFrames) /\ stack \in Seq(AllFrames)
      BY GoodPop DEF Top, Beneath
<1>2. Frames = {Top} \cup Elems(Beneath)
  <2>1. Frames = Elems(Over(Top, Beneath))
        BY <1>1, Zenon DEF Frames, Elems
  <2> QED BY <1>1, <2>1, OverElems
<1>3. /\ \A k \in 1..Len(Beneath) : ~AsksOrActs(Beneath[k])
      /\ Top.kind # "TimingPoint" => Resting(Beneath)
      BY UnderTop DEF Top, Beneath
<1>4. \A f \in Elems(Beneath) : ~AsksOrActs(f)
  <2>1. DOMAIN Beneath = 1..Len(Beneath)
        BY <1>1, LenProperties
  <2> QED BY <1>3, <2>1 DEF Elems
<1>5. Elems(Beneath) \subseteq AllFrames
      BY <1>1, ElemsOf
<1> QED BY <1>1, <1>2, <1>3, <1>4, <1>5

\* What a stack tells of its frames, wherever they are.
LEMMA FramesAt ==
    ASSUME NEW s, Good(s)
    PROVE  /\ \A f \in Elems(s) : \E k \in 1..Len(s) : s[k] = f
           /\ \A k \in 1..Len(s) : s[k] \in Elems(s) /\ s[k] \in AllFrames
           /\ Elems(s) \subseteq AllFrames
<1>1. s \in Seq(AllFrames) /\ DOMAIN s = 1..Len(s)
      BY LenProperties DEF Good
<1> QED BY <1>1, ElementOfSeq DEF Elems

------------------------------------------------------------------------------
(* Steps that change no more than the stack, and what has been announced. *)

Same == UNCHANGED <<board, struck, cancelled>>

LEMMA SameIs ==
    ASSUME Same
    PROVE  /\ status' = status /\ at' = at /\ left' = left /\ asset' = asset /\ dodge' = dodge /\ used' = used
           /\ enemies' = enemies /\ doom' = doom /\ ending' = ending
           /\ struck' = struck /\ cancelled' = cancelled /\ InPlay' = InPlay
BY DEF Same, board, players, InPlay

LEMMA SameFits ==
    ASSUME Same, NEW f, FitsPhase(f), FitsAttack(f)
    PROVE  FitsPhase(f)' /\ FitsAttack(f)'
<1>1. \A e, i : Attackable(e, i)' <=> Attackable(e, i)
      BY SameIs DEF Attackable
<1>2. FitsPhase(f)'
      BY <1>1, SameIs DEF FitsPhase, ToBegin
<1>3. FitsAttack(f)'
      BY <1>1, SameIs DEF FitsAttack, FitsBlow, IsEmit
<1> QED BY <1>2, <1>3

\* What may not be forgotten: whom the lead still engages, an attack under way, a player leaving.
Keeps(new) ==
    /\ \A f \in Frames : f.kind = "EngagementTie" \/ (f.kind = "AttackLoop" /\ f.stage = "Attacking")
          => f \in new \/ ending
    /\ \A f \in Frames : f.kind = "Elimination" => \E g \in new : g.kind = "Elimination" /\ g.who = f.who

LEMMA Carried ==
    ASSUME IndInv, Good(stack'), Same, running' \in BOOLEAN,
           \A f \in Frames' : f \in Frames \/ (FitsPhase(f) /\ FitsAttack(f)),
           Keeps(Frames'),
           \A e \in Enemies \ announced' :
               e \notin announced /\ \A f \in Frames : Tells(f, e) => \E g \in Frames' : Tells(g, e),
           \A e \in Enemies : Owed(e)' => Owed(e),
           ~running' /\ stack' # <<>> => Asked(Head(stack')),
           Striking(stack') => Striking(stack)
    PROVE  IndInv'
<1> USE SameIs
<1>1. Fits'
  <2>1. \A f \in Frames' : FitsPhase(f) /\ FitsAttack(f)
        BY DEF IndInv, Fits
  <2>2. \A f \in Frames' : FitsPhase(f)' /\ FitsAttack(f)'
        BY <2>1, SameFits
  <2> QED BY <2>2 DEF Fits
<1>2. BoardTyped'
      BY DEF IndInv, BoardTyped
<1>3. Asking' /\ (ending => Active(status) = {})'
  <2>1. \A f : Asked(f)' <=> Asked(f)
        BY DEF Asked, Contested
  <2>2. Top' = Head(stack')
        BY DEF Top
  <2>3. Asking'
        BY <2>1, <2>2 DEF Asking
  <2> QED BY <2>3 DEF IndInv, Active
<1>4. EngagedTogether'
  <2>1. \A i : i \in Leaving => i \in Leaving'
        BY DEF Leaving, Keeps
  <2> QED BY <2>1 DEF IndInv, EngagedTogether
<1>5. NoIdleEnemy'
  <2> SUFFICES ASSUME NEW e \in InPlay, enemies[e].with = None, ~enemies[e].exhausted,
                      Candidates(status, e, enemies[e].at) # {}
               PROVE  \E f \in Frames' : f.kind = "EngagementTie" /\ e \in Elems(f.ties)
    <3>1. \A st, x, l : Candidates(st, x, l)' = Candidates(st, x, l)
          BY DEF Candidates, ActiveAt, Active
    <3> QED BY <3>1 DEF NoIdleEnemy
  <2>1. PICK f \in Frames : f.kind = "EngagementTie" /\ e \in Elems(f.ties)
        BY DEF IndInv, NoIdleEnemy
  <2>2. ~ending
        BY DEF IndInv, Candidates, ActiveAt
  <2> QED BY <2>1, <2>2 DEF Keeps
<1>6. Defeats'
      BY DEF IndInv, Defeats
<1>7. Strikes'
  <2>1. \A e : Attacker(e) => Attacker(e)' \/ ending
        BY DEF Attacker, Keeps
  <2>2. AttacksOnce'
        BY DEF IndInv, Strikes, AttacksOnce
  <2> QED BY <2>1, <2>2 DEF IndInv, Strikes
<1>8. Spared'
      BY DEF IndInv, Spared
<1>9. DoomCounted'
  <2>1. PICK D \in SUBSET (Acolytes \ cancelled) :
           doom = Cardinality(D) /\ \A e \in D : struck[e] > 0 /\ ~Owed(e)
        BY DEF IndInv, DoomCounted
  <2>2. Acolytes \subseteq Enemies
        BY EnemyAssumption
  <2>3. \A e \in D : ~Owed(e)'
        BY <2>1, <2>2
  <2> QED BY <2>1, <2>3 DEF DoomCounted
<1> QED BY <1>1, <1>2, <1>3, <1>4, <1>5, <1>6, <1>7, <1>8, <1>9 DEF IndInv

\* The frames of a step that changes what is above r.
LEMMA FramesAre ==
    ASSUME NEW r \in Seq(AllFrames), NEW f \in AllFrames, NEW g \in AllFrames, NEW h \in AllFrames
    PROVE  /\ stack' = r => Frames' = Elems(r)
           /\ stack' = Over(f, r) => Frames' = {f} \cup Elems(r) /\ stack' # <<>> /\ Head(stack') = f
           /\ stack' = Over(f, Over(g, r)) => Frames' = {f, g} \cup Elems(r) /\ stack' # <<>> /\ Head(stack') = f
           /\ stack' = Over(f, Over(g, Over(h, r))) =>
                 Frames' = {f, g, h} \cup Elems(r) /\ stack' # <<>> /\ Head(stack') = f
<1>1. Frames' = Elems(stack')
      BY DEF Frames, Elems
<1>2. /\ Over(h, r) \in Seq(AllFrames) /\ Elems(Over(h, r)) = {h} \cup Elems(r)
      /\ Over(g, r) \in Seq(AllFrames) /\ Elems(Over(g, r)) = {g} \cup Elems(r)
      /\ Elems(Over(f, r)) = {f} \cup Elems(r) /\ Over(f, r) # <<>> /\ Head(Over(f, r)) = f
  <2>1. ASSUME NEW x \in AllFrames
        PROVE  /\ Over(x, r) \in Seq(AllFrames) /\ Elems(Over(x, r)) = {x} \cup Elems(r)
               /\ Over(x, r) # <<>> /\ Head(Over(x, r)) = x
        BY OverElems, OverSeq
  <2> QED BY <2>1
<1>3. /\ Elems(Over(f, Over(g, r))) = {f, g} \cup Elems(r)
      /\ Over(f, Over(g, r)) # <<>> /\ Head(Over(f, Over(g, r))) = f
      /\ Over(g, Over(h, r)) \in Seq(AllFrames) /\ Elems(Over(g, Over(h, r))) = {g, h} \cup Elems(r)
  <2>1. /\ Elems(Over(f, Over(g, r))) = {f} \cup Elems(Over(g, r))
        /\ Elems(Over(g, Over(h, r))) = {g} \cup Elems(Over(h, r))
        BY <1>2, OverElems
  <2>2. /\ Over(f, Over(g, r)) # <<>> /\ Head(Over(f, Over(g, r))) = f
        /\ Over(g, Over(h, r)) \in Seq(AllFrames)
        BY <1>2, OverSeq
  <2> QED BY <1>2, <2>1, <2>2
<1>4. /\ Elems(Over(f, Over(g, Over(h, r)))) = {f, g, h} \cup Elems(r)
      /\ Over(f, Over(g, Over(h, r))) # <<>> /\ Head(Over(f, Over(g, Over(h, r)))) = f
  <2>1. Elems(Over(f, Over(g, Over(h, r)))) = {f} \cup Elems(Over(g, Over(h, r)))
        BY <1>3, OverElems
  <2>2. Over(f, Over(g, Over(h, r))) # <<>> /\ Head(Over(f, Over(g, Over(h, r)))) = f
        BY <1>3, OverSeq
  <2> QED BY <1>3, <2>1, <2>2
<1> QED BY <1>1, <1>2, <1>3, <1>4

\* Only the top goes, or only the top changes into the frames of B.
LEMMA Topped ==
    ASSUME IndInv, Same, announced' = announced, running' \in BOOLEAN, stack # <<>>, Good(stack'),
           NEW B, stack' # <<>>, Head(stack') \in B, Frames' = B \cup Elems(Beneath),
           \A f \in B : f = Top \/ (FitsPhase(f) /\ FitsAttack(f)),
           Top.kind \in {"EngagementTie", "AttackLoop"} => Top \in B,
           Top.kind = "Elimination" => \E g \in B : g.kind = "Elimination" /\ g.who = Top.who,
           \A e \in Enemies : Tells(Top, e) => \E g \in B : Tells(g, e),
           \A e \in Enemies : \A f \in B : OwedBy(f, e) => Owed(e),
           Ending(Head(stack')) => Owed(Head(stack').event.enemy),
           ~running' => Asked(Head(stack')), Striking(stack') => Striking(stack)
    PROVE  IndInv'
<1>1. Frames = {Top} \cup Elems(Beneath)
      BY TopIs DEF IndInv
<1>2. Keeps(Frames')
      BY <1>1 DEF Keeps
<1>3. \A e \in Enemies : Owed(e)' => Owed(e)
  <2> SUFFICES ASSUME NEW e \in Enemies, Owed(e)' PROVE Owed(e)
      OBVIOUS
  <2>1. CASE \E f \in Frames' : OwedBy(f, e)
    <3>1. PICK f \in Frames' : OwedBy(f, e)
          BY <2>1
    <3>2. f \in B \/ f \in Frames
          BY <1>1
    <3> QED BY <3>1, <3>2 DEF Owed
  <2>2. CASE Ending(Head(stack')) /\ Head(stack').event.enemy = e
        BY <2>2
  <2> QED BY <2>1, <2>2 DEF Owed, OwedBy, Top
<1>4. \A e \in Enemies \ announced' :
         e \notin announced /\ \A f \in Frames : Tells(f, e) => \E g \in Frames' : Tells(g, e)
      BY <1>1
<1>5. \A f \in Frames' : f \in Frames \/ (FitsPhase(f) /\ FitsAttack(f))
      BY <1>1
<1> QED BY <1>2, <1>3, <1>4, <1>5, Carried

LEMMA ToppedOne ==
    ASSUME IndInv, Same, announced' = announced, running' \in BOOLEAN, stack # <<>>,
           NEW g \in AllFrames, stack' = Over(g, Beneath), Good(stack'), FitsPhase(g), FitsAttack(g),
           Top.kind \in {"EngagementTie", "AttackLoop"} => g = Top,
           Top.kind = "Elimination" => g.kind = "Elimination" /\ g.who = Top.who,
           \A e \in Enemies : Tells(Top, e) => Tells(g, e),
           \A e \in Enemies : OwedBy(g, e) => Owed(e),
           Ending(g) => Owed(g.event.enemy),
           ~running' => Asked(g), g.kind = "Effect" /\ g.does = "Agnes" => Striking(stack)
    PROVE  IndInv'
<1> DEFINE B == {g}
<1>1. Beneath \in Seq(AllFrames)
      BY TopIs DEF IndInv
<1>2. Frames' = B \cup Elems(Beneath) /\ stack' # <<>> /\ Head(stack') = g
      BY <1>1, FramesAre
<1>3. g \in B /\ \A f \in B : f = g
      OBVIOUS
<1> HIDE DEF B
<1>4. Striking(stack') => Striking(stack)
      BY <1>2 DEF Striking
<1>5. \A e \in Enemies : Tells(Top, e) => \E f \in B : Tells(f, e)
      BY <1>3
<1>6. \A e \in Enemies : \A f \in B : OwedBy(f, e) => Owed(e)
      BY <1>3
<1>7. Top.kind \in {"EngagementTie", "AttackLoop"} => Top \in B
      BY <1>3
<1>8. Top.kind = "Elimination" => \E f \in B : f.kind = "Elimination" /\ f.who = Top.who
      BY <1>3
<1>9. \A f \in B : f = Top \/ (FitsPhase(f) /\ FitsAttack(f))
      BY <1>3
<1>10. Head(stack') \in B /\ (Ending(Head(stack')) => Owed(Head(stack').event.enemy)) /\ (~running' => Asked(Head(stack')))
      BY <1>2, <1>3
<1> QED BY <1>2, <1>4, <1>5, <1>6, <1>7, <1>8, <1>9, <1>10, Topped

LEMMA ToppedTwo ==
    ASSUME IndInv, Same, announced' = announced, running' \in BOOLEAN, stack # <<>>,
           NEW g \in AllFrames, NEW h \in AllFrames, stack' = Over(g, Over(h, Beneath)), Good(stack'),
           FitsPhase(g), FitsAttack(g), h = Top \/ (FitsPhase(h) /\ FitsAttack(h)),
           Top.kind \in {"EngagementTie", "AttackLoop"} => h = Top,
           Top.kind = "Elimination" => h.kind = "Elimination" /\ h.who = Top.who,
           \A e \in Enemies : Tells(Top, e) => Tells(g, e) \/ Tells(h, e),
           \A e \in Enemies : OwedBy(g, e) \/ OwedBy(h, e) => Owed(e),
           Ending(g) => Owed(g.event.enemy),
           ~running' => Asked(g), g.kind = "Effect" /\ g.does = "Agnes" => Striking(stack)
    PROVE  IndInv'
<1> DEFINE B == {g, h}
<1>1. Beneath \in Seq(AllFrames)
      BY TopIs DEF IndInv
<1>2. Frames' = B \cup Elems(Beneath) /\ stack' # <<>> /\ Head(stack') = g
      BY <1>1, FramesAre
<1>3. g \in B /\ h \in B /\ \A f \in B : f = g \/ f = h
      OBVIOUS
<1> HIDE DEF B
<1>4. Striking(stack') => Striking(stack)
      BY <1>2 DEF Striking
<1>5. \A e \in Enemies : Tells(Top, e) => \E f \in B : Tells(f, e)
      BY <1>3
<1>6. \A e \in Enemies : \A f \in B : OwedBy(f, e) => Owed(e)
      BY <1>3
<1>7. Top.kind \in {"EngagementTie", "AttackLoop"} => Top \in B
      BY <1>3
<1>8. Top.kind = "Elimination" => \E f \in B : f.kind = "Elimination" /\ f.who = Top.who
      BY <1>3
<1>9. \A f \in B : f = Top \/ (FitsPhase(f) /\ FitsAttack(f))
      BY <1>3
<1>10. Head(stack') \in B /\ (Ending(Head(stack')) => Owed(Head(stack').event.enemy)) /\ (~running' => Asked(Head(stack')))
      BY <1>2, <1>3
<1> QED BY <1>2, <1>4, <1>5, <1>6, <1>7, <1>8, <1>9, <1>10, Topped

LEMMA PopTop ==
    ASSUME IndInv, Same, announced' = announced, running' = TRUE, stack # <<>>, stack' = Beneath,
           Top.kind \notin {"TimingPoint", "Elimination"}, Top.kind \in {"EngagementTie", "AttackLoop"} => ending,
           \A e \in Enemies : ~Tells(Top, e)
    PROVE  IndInv'
<1>1. /\ Frames = {Top} \cup Elems(Beneath) /\ Good(Beneath) /\ Beneath \in Seq(AllFrames)
      /\ Resting(Beneath)
      BY TopIs DEF IndInv
<1>2. Frames' = Elems(Beneath)
      BY <1>1, FramesAre, TopIs DEF IndInv
<1>3. stack' # <<>> => ~Ending(Head(stack')) /\ ~AsksOrActs(Head(stack'))
  <2>1. Beneath # <<>> => Head(Beneath) = Beneath[1] /\ Len(Beneath) >= 1 /\ 1 \in 1..Len(Beneath)
        BY <1>1, HeadOver, LenProperties
  <2> QED BY <1>1, <2>1 DEF Resting
<1>4. Keeps(Frames')
      BY <1>1, <1>2 DEF Keeps
<1>5. \A e \in Enemies : Owed(e)' => Owed(e)
      BY <1>1, <1>2, <1>3 DEF Owed, OwedBy, Top
<1>6. ~Striking(stack')
      BY <1>3 DEF Striking, AsksOrActs
<1> QED BY <1>1, <1>2, <1>4, <1>5, <1>6, Carried

\* What drives: the frame on top, and the apply.
LEMMA Driving ==
    ASSUME IndInv, NEW kind, Drives(kind)
    PROVE  /\ stack # <<>> /\ running /\ running = TRUE /\ Top.kind = kind /\ Good(stack)
           /\ Top \in AllFrames /\ Good(Beneath) /\ Stands(Top, Beneath) /\ stack = Over(Top, Beneath)
           /\ Beneath \in Seq(AllFrames) /\ Frames = {Top} \cup Elems(Beneath)
           /\ <<>> \o Beneath = Beneath /\ (kind # "TimingPoint" => Resting(Beneath))
           /\ \A f \in AllFrames : <<f>> \o Beneath = Over(f, Beneath)
           /\ \A f, g \in AllFrames : <<f, g>> \o Beneath = Over(f, Over(g, Beneath))
           /\ FitsPhase(Top) /\ FitsAttack(Top)
           /\ CancelledByScenarioEnd(Top) => ~ending
<1>1. /\ stack # <<>> /\ running = TRUE /\ Top.kind = kind /\ Good(stack)
      /\ CancelledByScenarioEnd(Top) => ~ending
      BY DEF IndInv, Drives, BoardTyped, CancelsTop
<1>2. /\ Top \in AllFrames /\ Good(Beneath) /\ Stands(Top, Beneath) /\ stack = Over(Top, Beneath)
      /\ Beneath \in Seq(AllFrames) /\ Frames = {Top} \cup Elems(Beneath)
      /\ Top.kind # "TimingPoint" => Resting(Beneath)
      BY <1>1, TopIs
<1>3. FitsPhase(Top) /\ FitsAttack(Top)
      BY <1>2 DEF IndInv, Fits
<1> QED BY <1>1, <1>2, <1>3, OverTwo

LEMMA SameStack == ASSUME OnlyStack PROVE Same /\ announced' = announced /\ running' = running
BY DEF OnlyStack, Same, histories

------------------------------------------------------------------------------
(* Steps that only pop, or only wait. *)

LEMMA StepStays == ASSUME IndInv, stack' = stack, Same, announced' = announced, running' = FALSE, stack # <<>>, Asked(Top)
                   PROVE  IndInv'
<1>1. Frames' = Frames /\ Top' = Top
      BY DEF Frames, Top
<1>2. Keeps(Frames')
      BY <1>1 DEF Keeps
<1>3. \A e \in Enemies : Owed(e)' => Owed(e)
      BY <1>1 DEF Owed, OwedBy, Ending, IsEmit
<1>4. Asked(Head(stack'))
      BY DEF Top
<1> QED BY <1>1, <1>2, <1>3, <1>4, Carried DEF IndInv, Striking

LEMMA StepRest == ASSUME IndInv, Rest PROVE IndInv'
<1>1. stack' = stack /\ Same /\ announced' = announced /\ running' = FALSE /\ stack # <<>>
      BY DEF Rest, Same, histories
<1>2. Asked(Top)
      BY DEF Rest, Asked
<1> QED BY <1>1, <1>2, StepStays

LEMMA StepAskDistribution == ASSUME IndInv, AskDistribution PROVE IndInv'
<1>1. stack' = stack /\ Same /\ announced' = announced /\ running' = FALSE /\ stack # <<>>
      BY DEF AskDistribution, Same, histories, Drives
<1>2. Asked(Top)
      BY DEF AskDistribution, Asked, Drives
<1> QED BY <1>1, <1>2, StepStays

LEMMA StepAskWhom == ASSUME IndInv, AskWhom PROVE IndInv'
<1>1. stack' = stack /\ Same /\ announced' = announced /\ running' = FALSE /\ stack # <<>>
      BY DEF AskWhom, Same, histories, Drives, StepEffect
<1>2. Asked(Top)
      BY DEF AskWhom, Asked, Drives, StepEffect
<1> QED BY <1>1, <1>2, StepStays

LEMMA Stutters == ASSUME IndInv, UNCHANGED vars PROVE IndInv'
<1>1. stack' = stack /\ Same /\ announced' = announced /\ running' = running
      BY DEF vars, Same, histories
<1>2. Frames' = Frames /\ Top' = Top
      BY <1>1 DEF Frames, Top
<1>3. Keeps(Frames')
      BY <1>2 DEF Keeps
<1>4. \A e \in Enemies : Owed(e)' => Owed(e)
      BY <1>1, <1>2 DEF Owed, OwedBy, Ending, IsEmit
<1>5. ~running' /\ stack' # <<>> => Asked(Head(stack'))
      BY <1>1 DEF IndInv, Asking, Top
<1> QED BY <1>1, <1>2, <1>3, <1>4, <1>5, Carried DEF IndInv, Striking, BoardTyped

LEMMA StepCancel == ASSUME IndInv, Cancel PROVE IndInv'
<1>1. /\ running' = TRUE /\ stack # <<>> /\ ending /\ CancelledByScenarioEnd(Top) /\ Same /\ announced' = announced
      /\ stack' = <<>> \o Beneath
      BY SameStack DEF Cancel, CancelsTop, Replace, IndInv, BoardTyped
<1>2. stack' = Beneath
      BY <1>1, OverTwo, TopIs DEF IndInv
<1>3. /\ Top.kind \notin {"TimingPoint", "Elimination"} /\ \A e \in Enemies : ~Tells(Top, e)
      BY <1>1 DEF CancelledByScenarioEnd, Tells, IsEmit
<1> QED BY <1>1, <1>2, <1>3, PopTop

LEMMA PopDriven ==
    ASSUME IndInv, NEW kind \in {"EnemyPhase", "DealDamage", "PlayFromHand", "Effect"}, Drives(kind), OnlyStack,
           Replace(<<>>)
    PROVE  IndInv'
<1>1. /\ Same /\ announced' = announced /\ running' = running /\ stack # <<>> /\ running = TRUE
      /\ Top.kind = kind /\ stack' = Beneath
      BY Driving, SameStack DEF Replace
<1>2. Top.kind \notin {"TimingPoint", "Elimination", "EngagementTie", "AttackLoop"} /\ \A e \in Enemies : ~Tells(Top, e)
      BY <1>1 DEF Tells, IsEmit
<1> QED BY <1>1, <1>2, PopTop

LEMMA StepEnemyPhaseEnd == ASSUME IndInv, EnemyPhaseEnd PROVE IndInv'
BY PopDriven DEF EnemyPhaseEnd

LEMMA StepFinishDeal == ASSUME IndInv, FinishDeal PROVE IndInv'
BY PopDriven DEF FinishDeal

LEMMA StepDisposePlayFromHand == ASSUME IndInv, DisposePlayFromHand PROVE IndInv'
BY PopDriven DEF DisposePlayFromHand

LEMMA StepEffectElsewhere == ASSUME IndInv, EffectElsewhere PROVE IndInv'
BY PopDriven DEF EffectElsewhere, StepElsewhere, StepEffect

\* Only an attack is ever prevented, so that no defeat is abandoned.
LEMMA StepAbandonEmit == ASSUME IndInv, AbandonEmit PROVE IndInv'
<1>1. /\ Drives("EmitEvent") /\ Same /\ announced' = announced /\ running' = running /\ stack' = <<>> \o Beneath
      /\ Top.prevented
      BY SameStack DEF AbandonEmit, Replace
<1>2. Top.kind = "EmitEvent" /\ Top.event.kind = "EnemyAttacks"
      BY <1>1, Driving DEF Stands, StandsEmit
<1> QED BY <1>1, <1>2, Driving, PopTop DEF Tells, IsEmit

------------------------------------------------------------------------------
(* Steps that change the top. *)

LEMMA EmitIs ==
    ASSUME NEW ev \in Events
    PROVE  /\ EmitEvent(ev) \in EmitEvents /\ EmitEvent(ev) \in AllFrames
           /\ EmitEvent(ev).kind = "EmitEvent" /\ EmitEvent(ev).event = ev
           /\ EmitEvent(ev).step = "When" /\ EmitEvent(ev).prevented = FALSE
BY DEF EmitEvent, EmitEvents, CellSteps, AllFrames, CellFrames

\* The window opened next is of a player still in the game, or the last.
LEMMA NextWindow ==
    ASSUME NEW S \in SUBSET Investigators
    PROVE  LET f == OpenAttackWindow(FirstOf(S)) IN
           /\ f \in Anchors /\ f \in PhaseFrames /\ f \in AllFrames /\ f.kind = "EnemyPhase"
           /\ f.resume = "BeforeInvestigatorAttacked" => f.who \in Investigators
<1>1. FirstOf(S) = None \/ FirstOf(S) \in Investigators
      BY FirstIs
<1>2. OpenAttackWindow(FirstOf(S)) \in Anchors
      BY <1>1 DEF OpenAttackWindow, Anchor, Anchors
<1>3. /\ OpenAttackWindow(FirstOf(S)).kind = "EnemyPhase"
      /\ OpenAttackWindow(FirstOf(S)).resume = "BeforeInvestigatorAttacked" =>
            OpenAttackWindow(FirstOf(S)).who \in Investigators
      BY <1>1 DEF OpenAttackWindow, Anchor
<1> QED BY <1>2, <1>3 DEF PhaseFrames, AllFrames

LEMMA StepHuntersDone == ASSUME IndInv, HuntersDone PROVE IndInv'
<1> DEFINE f == OpenAttackWindow(FirstOf(Active(status)))
<1>1. /\ Drives("EnemyPhase") /\ Same /\ announced' = announced /\ running' = running
      /\ stack' = <<f>> \o Beneath
      BY SameStack DEF HuntersDone, Replace, FirstInPlayerOrder
<1>2. /\ f \in PhaseFrames /\ f \in AllFrames /\ f.kind = "EnemyPhase"
      /\ f.resume = "BeforeInvestigatorAttacked" => f.who \in Investigators
      BY NextWindow DEF Active
<1> HIDE DEF f
<1>3. /\ stack # <<>> /\ running = TRUE /\ Top.kind = "EnemyPhase" /\ stack' = Over(f, Beneath)
      /\ Good(Beneath) /\ Resting(Beneath) /\ Stands(Top, Beneath) /\ Beneath \in Seq(AllFrames)
      BY <1>1, <1>2, Driving
<1>4. StandsPhase(f, Beneath)
      BY <1>2, <1>3 DEF Stands, StandsPhase
<1>5. Good(stack')
      BY <1>2, <1>3, <1>4, GoodPhase
<1>6. FitsPhase(f) /\ FitsAttack(f)
      BY <1>2 DEF FitsPhase, FitsAttack, FitsBlow, IsEmit
<1>7. (\A e \in Enemies : ~Tells(Top, e) /\ ~OwedBy(f, e)) /\ ~Ending(f)
      BY <1>2, <1>3 DEF Tells, OwedBy, Ending, IsEmit
<1> QED BY <1>1, <1>2, <1>3, <1>5, <1>6, <1>7, ToppedOne

LEMMA StepFireWeaknessGameEnd == ASSUME IndInv, FireWeaknessGameEnd PROVE IndInv'
<1> DEFINE ev == [kind |-> "EliminationGameEnd", enemy |-> None, who |-> Top.who]
           f == EmitEvent(ev)
           g == Elimination(Top.who, "RunSteps")
<1>1. /\ Drives("Elimination") /\ Same /\ announced' = announced /\ running' = running
      /\ stack' = <<f, g>> \o Beneath
      BY SameStack DEF FireWeaknessGameEnd, Replace
<1>2. /\ stack # <<>> /\ running = TRUE /\ Top.kind = "Elimination" /\ Top \in AllFrames
      /\ Good(Beneath) /\ Resting(Beneath) /\ Stands(Top, Beneath) /\ Beneath \in Seq(AllFrames)
  <2>1. Drives("Elimination")
        BY <1>1
  <2> HIDE DEF ev, f, g
  <2>2. /\ stack # <<>> /\ running = TRUE /\ Top.kind = "Elimination" /\ Top \in AllFrames
        /\ Good(Beneath) /\ Stands(Top, Beneath) /\ Beneath \in Seq(AllFrames)
        BY <2>1, Driving
  <2>3. "Elimination" # "TimingPoint" => Resting(Beneath)
        BY <2>1, Driving
  <2> QED BY <2>2, <2>3
<1>3. Top.who \in Investigators
      BY <1>2, KindIs DEF Eliminations
<1>4. ev \in Events /\ ev.kind = "EliminationGameEnd"
      BY <1>3 DEF Events, GameEndEvents
<1>5. g \in Eliminations /\ g \in AllFrames /\ g.kind = "Elimination" /\ g.who = Top.who
      BY <1>3 DEF Elimination, Eliminations, AllFrames
<1> HIDE DEF ev
<1>6. /\ f \in EmitEvents /\ f \in AllFrames /\ f.kind = "EmitEvent" /\ f.event.kind = "EliminationGameEnd"
      /\ f.step = "When" /\ f.prevented = FALSE
      BY <1>4, EmitIs
<1> HIDE DEF f, g
<1>7. stack' = Over(f, Over(g, Beneath))
      BY <1>1, <1>2, <1>5, <1>6, OverTwo
<1>8. Quiet(Beneath)
      BY <1>2 DEF Stands, StandsHarm
<1>9. Good(Over(g, Beneath)) /\ Quiet(Over(g, Beneath)) /\ Boundless(Over(g, Beneath)) /\ Resting(Over(g, Beneath))
  <2>1. StandsHarm(g, Beneath)
        BY <1>5, <1>8 DEF StandsHarm
  <2>2. ~AsksOrActs(g) /\ ~Ending(g) /\ BoundsEffectDeferral(g) /\ ~IsEmit(g, "EnemyAttacks")
        BY <1>5 DEF AsksOrActs, Ending, IsEmit, BoundsEffectDeferral
  <2>3. Good(Over(g, Beneath))
        BY <1>2, <1>5, <2>1, GoodHarm
  <2>4. Quiet(Over(g, Beneath))
        BY <1>2, <1>5, <1>8, <2>2, OverQuiet
  <2>5. Boundless(Over(g, Beneath))
        BY <1>2, <1>5, <2>2, OverBoundless
  <2>6. Resting(Over(g, Beneath))
        BY <1>2, <1>5, <2>2, OverRests DEF Resting
  <2> QED BY <2>3, <2>4, <2>5, <2>6
<1>10. Good(stack')
  <2>1. StandsEmit(f, Over(g, Beneath))
        BY <1>6, <1>9 DEF StandsEmit
  <2> QED BY <1>6, <1>7, <1>9, <2>1, GoodEmit
<1>11. FitsPhase(f) /\ FitsAttack(f) /\ FitsPhase(g) /\ FitsAttack(g)
  <2>1. FitsAttack(f) /\ FitsAttack(g) /\ FitsPhase(f)
        BY <1>5, <1>6 DEF FitsPhase, FitsAttack, FitsBlow, IsEmit
  <2>2. FitsPhase(Top)
        BY <1>1, Driving
  <2>3. FitsPhase(g)
        BY <1>2, <1>5, <2>2 DEF FitsPhase
  <2> QED BY <2>1, <2>3
<1>12. (\A e \in Enemies : ~Tells(Top, e) /\ ~OwedBy(f, e) /\ ~OwedBy(g, e)) /\ ~Ending(f)
      BY <1>2, <1>5, <1>6 DEF Tells, OwedBy, Ending, IsEmit
<1>13. stack # <<>> /\ Top.kind = "Elimination" /\ g.kind = "Elimination" /\ g.who = Top.who /\ f.kind = "EmitEvent"
      BY <1>2, <1>5, <1>6
<1> QED BY <1>1, <1>2, <1>5, <1>6, <1>7, <1>10, <1>11, <1>12, <1>13, ToppedTwo

------------------------------------------------------------------------------
(* A deal shared out. *)

LEMMA PointsLeft ==
    ASSUME NEW p \in Points
    PROVE  /\ p[Damage] \in Nat /\ p[Horror] \in Nat
           /\ p # Nothing => p[Damage] > 0 \/ p[Horror] > 0
           /\ p = Nothing => p[Damage] = 0 /\ p[Horror] = 0
           /\ Nothing \in Points /\ Nothing[Damage] = 0 /\ Nothing[Horror] = 0
<1>1. p \in [{Damage, Horror} -> Nat]
      BY DEF Points
<1>2. p[Damage] = 0 /\ p[Horror] = 0 => p = Nothing
      BY <1>1 DEF Nothing
<1>3. Nothing \in Points /\ Nothing[Damage] = 0 /\ Nothing[Horror] = 0
      BY DEF Nothing, Points
<1> QED BY <1>1, <1>2, <1>3

\* A deal between two of its steps: the same attack, all of it accounted for.
LEMMA DealGoesOn ==
    ASSUME IndInv, stack # <<>>, Top.kind = "DealDamage", Top.step # "Finish", Same, announced' = announced, running' = TRUE,
           NEW g \in DealsOfDamage, stack' = <<g>> \o Beneath, g.enemy = Top.enemy, g.who = Top.who,
           \A k \in {Damage, Horror} : g.share.self[k] + g.share.asset[k] + g.remaining[k] = attack[g.enemy][k],
           \A k \in {Damage, Horror} : g.share.asset[k] > 0
               => asset[g.who] # None /\ g.share.asset[k] <= asset[g.who][k]
    PROVE  IndInv'
<1>1. /\ Top \in AllFrames /\ Good(Beneath) /\ Resting(Beneath) /\ Stands(Top, Beneath) /\ Beneath \in Seq(AllFrames)
      /\ Frames = {Top} \cup Elems(Beneath)
      BY TopIs DEF IndInv
<1>2. g \in AllFrames /\ g.kind = "DealDamage"
      BY DEF AllFrames, DealsOfDamage
<1>3. StandsHarm(g, Beneath)
      BY <1>1, <1>2 DEF Stands, StandsHarm
<1>4. stack' = Over(g, Beneath)
      BY DEF Over
<1>5. Good(stack')
      BY <1>1, <1>2, <1>3, <1>4, GoodHarm
<1>6. FitsPhase(g) /\ FitsAttack(g)
  <2>1. FitsAttack(Top)
        BY <1>1 DEF IndInv, Fits
  <2> QED BY <1>2, <2>1 DEF FitsPhase, FitsAttack, FitsBlow, IsEmit
<1>7. (\A e \in Enemies : ~Tells(Top, e) /\ ~OwedBy(g, e)) /\ ~Ending(g)
      BY <1>2 DEF Tells, OwedBy, Ending, IsEmit
<1> QED BY <1>2, <1>4, <1>5, <1>6, <1>7, ToppedOne

LEMMA StepDistributed == ASSUME IndInv, Distributed PROVE IndInv'
<1> DEFINE g == [Top EXCEPT !.step = "Announce"]
<1>1. /\ Drives("DealDamage") /\ Same /\ announced' = announced /\ running' = running /\ stack' = <<g>> \o Beneath
      /\ Top.step = "Distribute"
      BY SameStack DEF Distributed, Replace
<1>2. /\ stack # <<>> /\ running = TRUE /\ Top.kind = "DealDamage" /\ Top \in AllFrames /\ Stands(Top, Beneath)
      /\ FitsAttack(Top)
      BY <1>1, Driving
<1>3. /\ g \in DealsOfDamage /\ g.enemy = Top.enemy /\ g.who = Top.who /\ g.share = Top.share /\ g.remaining = Top.remaining
      BY <1>2, KindIs DEF DealsOfDamage
<1>4. /\ \A k \in {Damage, Horror} : g.share.self[k] + g.share.asset[k] + g.remaining[k] = attack[g.enemy][k]
      /\ \A k \in {Damage, Horror} : g.share.asset[k] > 0
               => asset[g.who] # None /\ g.share.asset[k] <= asset[g.who][k]
      BY <1>1, <1>2, <1>3 DEF Stands, StandsHarm, FitsAttack, FitsBlow
<1> HIDE DEF g
<1> QED BY <1>1, <1>2, <1>3, <1>4, DealGoesOn

\* Some points of one kind go from what remains to a share.
LEMMA SharedOut ==
    ASSUME NEW f \in DealsOfDamage, NEW g \in DealsOfDamage, NEW k \in {Damage, Horror}, NEW n \in Nat,
           \A j \in {Damage, Horror} : j # k => /\ g.share.self[j] = f.share.self[j]
                                              /\ g.share.asset[j] = f.share.asset[j] /\ g.remaining[j] = f.remaining[j],
           g.remaining[k] + n = f.remaining[k],
           g.share.self[k] + g.share.asset[k] = f.share.self[k] + f.share.asset[k] + n
    PROVE  \A j \in {Damage, Horror} : g.share.self[j] + g.share.asset[j] + g.remaining[j]
                                       = f.share.self[j] + f.share.asset[j] + f.remaining[j]
<1>1. \A h \in {f, g} : /\ h.share.self[k] \in Nat /\ h.share.asset[k] \in Nat /\ h.remaining[k] \in Nat
      BY DEF DealsOfDamage, Shares, Points
<1>2. g.share.self[k] + g.share.asset[k] + g.remaining[k] = f.share.self[k] + f.share.asset[k] + f.remaining[k]
  <2> DEFINE s1 == g.share.self[k]
             a1 == g.share.asset[k]
             m1 == g.remaining[k]
             s0 == f.share.self[k]
             a0 == f.share.asset[k]
             m0 == f.remaining[k]
  <2>1. s1 \in Nat /\ a1 \in Nat /\ s0 \in Nat /\ a0 \in Nat /\ m0 \in Nat /\ m1 \in Nat
        /\ m1 + n = m0 /\ s1 + a1 = s0 + a0 + n
        BY <1>1
  <2> HIDE DEF s1, a1, s0, a0, m0, m1
  <2>2. s1 + a1 + m1 = s0 + a0 + m0
        BY <2>1
  <2> QED BY <2>2 DEF s1, a1, s0, a0, m0, m1
<1> QED BY <1>2

LEMMA StepDistributeUncontested == ASSUME IndInv, DistributeUncontested PROVE IndInv'
<1> DEFINE k == NextPoint(Top)
           g == [Top EXCEPT !.share.self[k] = @ + Top.remaining[k], !.remaining[k] = 0]
<1>1. /\ Drives("DealDamage") /\ Same /\ announced' = announced /\ running' = running /\ stack' = <<g>> \o Beneath
      /\ Top.step = "Distribute"
      BY SameStack DEF DistributeUncontested, Replace
<1>2. /\ stack # <<>> /\ running = TRUE /\ Top.kind = "DealDamage" /\ Top \in AllFrames /\ Stands(Top, Beneath)
      /\ FitsAttack(Top)
      BY <1>1, Driving
<1>3. k \in {Damage, Horror} /\ Top \in DealsOfDamage
      BY <1>2, KindIs DEF NextPoint
<1> HIDE DEF k
<1>4. /\ Top.share \in Shares /\ Top.share.self \in Points /\ Top.share.asset \in Points /\ Top.remaining \in Points
      /\ Top.remaining[k] \in Nat /\ Top.share.self[k] \in Nat
      BY <1>3 DEF DealsOfDamage, Shares, Points
<1>5. /\ g.enemy = Top.enemy /\ g.who = Top.who /\ g.share.asset = Top.share.asset
      /\ g.share.self = [Top.share.self EXCEPT ![k] = @ + Top.remaining[k]]
      /\ g.remaining = [Top.remaining EXCEPT ![k] = 0]
      BY <1>3, <1>4 DEF DealsOfDamage, Shares
<1>6. g.share.self \in Points /\ g.remaining \in Points /\ g.share.self[k] = Top.share.self[k] + Top.remaining[k]
      /\ g.remaining[k] = 0
      /\ \A j \in {Damage, Horror} : j # k => g.share.self[j] = Top.share.self[j] /\ g.remaining[j] = Top.remaining[j]
      BY <1>3, <1>4, <1>5 DEF Points
<1>7. g \in DealsOfDamage
      BY <1>3, <1>4, <1>5, <1>6 DEF DealsOfDamage, Shares
<1> HIDE DEF g
<1>8. \A j \in {Damage, Horror} : g.share.self[j] + g.share.asset[j] + g.remaining[j]
                                  = Top.share.self[j] + Top.share.asset[j] + Top.remaining[j]
  <2>1. g.share.asset[k] \in Nat
        BY <1>3, <1>4, <1>5 DEF Points
  <2> DEFINE n == Top.remaining[k]
  <2>2. /\ g.remaining[k] + n = Top.remaining[k]
        /\ g.share.self[k] + g.share.asset[k] = Top.share.self[k] + Top.share.asset[k] + n
        BY <1>4, <1>5, <1>6, <2>1
  <2>3. n \in Nat
        BY <1>4
  <2> HIDE DEF n
  <2>4. \A j \in {Damage, Horror} : j # k => /\ g.share.self[j] = Top.share.self[j]
                                             /\ g.share.asset[j] = Top.share.asset[j] /\ g.remaining[j] = Top.remaining[j]
        BY <1>5, <1>6
  <2> QED BY <1>3, <1>7, <2>2, <2>3, <2>4, SharedOut
<1>9. /\ \A j \in {Damage, Horror} : g.share.self[j] + g.share.asset[j] + g.remaining[j] = attack[g.enemy][j]
      /\ \A j \in {Damage, Horror} : g.share.asset[j] > 0
               => asset[g.who] # None /\ g.share.asset[j] <= asset[g.who][j]
      BY <1>1, <1>2, <1>5, <1>8 DEF Stands, StandsHarm, FitsAttack, FitsBlow
<1> QED BY <1>1, <1>2, <1>5, <1>7, <1>9, DealGoesOn

LEMMA StepResumeDamageDistribution == ASSUME IndInv, ResumeDamageDistribution PROVE IndInv'
<1> DEFINE k == NextPoint(Top)
           Next1(t) == [Top EXCEPT !.share[t][k] = @ + 1, !.remaining[k] = @ - 1]
<1>1. /\ ~running /\ stack # <<>> /\ Top.kind = "DealDamage" /\ running' = TRUE /\ Same /\ announced' = announced
      BY DEF ResumeDamageDistribution, Answers, Same, histories
<1>2. PICK t \in {"self", "asset"} : stack' = <<Next1(t)>> \o Beneath
      BY DEF ResumeDamageDistribution, Replace
<1>3. Top \in AllFrames /\ Stands(Top, Beneath) /\ FitsAttack(Top)
      BY <1>1, TopIs DEF IndInv, Fits
<1>4. Top.step = "Distribute" /\ Top.remaining # Nothing /\ Contested(Top, k)
      BY <1>1 DEF IndInv, Asking, Asked
<1>5. Top \in DealsOfDamage
      BY <1>1, <1>3, KindIs
<1>6. /\ Top.share \in Shares /\ Top.share.self \in Points /\ Top.share.asset \in Points /\ Top.remaining \in Points
      BY <1>5 DEF DealsOfDamage, Shares
<1>7. k \in {Damage, Horror} /\ Top.remaining[k] \in Nat \ {0}
      BY <1>4, <1>6, PointsLeft DEF NextPoint
<1> HIDE DEF k
<1> DEFINE g == Next1(t)
<1>8. /\ g.enemy = Top.enemy /\ g.who = Top.who /\ g.step = Top.step
      /\ g.remaining = [Top.remaining EXCEPT ![k] = @ - 1]
      /\ g.share = [Top.share EXCEPT ![t][k] = @ + 1]
      BY <1>5 DEF DealsOfDamage
<1>9. g \in DealsOfDamage
  <2>1. g.remaining \in Points
        BY <1>6, <1>7, <1>8 DEF Points
  <2>2. \A p \in Points : [p EXCEPT ![k] = @ + 1] \in Points
        BY <1>7 DEF Points
  <2>3. g.share \in Shares
        BY <1>2, <1>6, <1>8, <2>2 DEF Shares
  <2> QED BY <1>5, <1>8, <2>1, <2>3 DEF DealsOfDamage
<1>10. g.share.self \in Points /\ g.share.asset \in Points /\ g.remaining \in Points
      BY <1>9 DEF DealsOfDamage, Shares
<1>11. /\ t = "self" => /\ g.share.self = [Top.share.self EXCEPT ![k] = @ + 1] /\ g.share.asset = Top.share.asset
       /\ t = "asset" => /\ g.share.asset = [Top.share.asset EXCEPT ![k] = @ + 1] /\ g.share.self = Top.share.self
      BY <1>6, <1>8 DEF Shares
<1>12. /\ stack' = <<g>> \o Beneath
      BY <1>2
<1> HIDE DEF g
<1>13. /\ g.remaining[k] = Top.remaining[k] - 1
       /\ \A j \in {Damage, Horror} : j # k => g.remaining[j] = Top.remaining[j]
      BY <1>6, <1>8, <1>7 DEF Points
<1>14. /\ \A j \in {Damage, Horror} : j # k => g.share.self[j] = Top.share.self[j] /\ g.share.asset[j] = Top.share.asset[j]
       /\ g.share.self[k] + g.share.asset[k] = Top.share.self[k] + Top.share.asset[k] + 1
       /\ g.share.asset[k] = Top.share.asset[k] \/ g.share.asset[k] = Top.share.asset[k] + 1
  <2>1. \A p \in Points : /\ [p EXCEPT ![k] = @ + 1][k] = p[k] + 1 /\ p[k] \in Nat
                          /\ \A j \in {Damage, Horror} : j # k => [p EXCEPT ![k] = @ + 1][j] = p[j]
        BY <1>7 DEF Points
  <2>2. CASE t = "self"
    <3>1. g.share.self[k] = Top.share.self[k] + 1 /\ g.share.asset[k] = Top.share.asset[k]
      <4>1. g.share.self = [Top.share.self EXCEPT ![k] = @ + 1] /\ g.share.asset = Top.share.asset
            BY <1>11, <2>2
      <4> QED BY <1>6, <2>1, <4>1
    <3>2. Top.share.self[k] \in Nat /\ Top.share.asset[k] \in Nat
          BY <1>6, <2>1
    <3>3. \A j \in {Damage, Horror} : j # k => g.share.self[j] = Top.share.self[j] /\ g.share.asset[j] = Top.share.asset[j]
      <4>1. g.share.self = [Top.share.self EXCEPT ![k] = @ + 1] /\ g.share.asset = Top.share.asset
            BY <1>11, <2>2
      <4> QED BY <1>6, <2>1, <4>1
    <3> QED BY <3>1, <3>2, <3>3
  <2>3. CASE t = "asset"
    <3>1. g.share.asset[k] = Top.share.asset[k] + 1 /\ g.share.self[k] = Top.share.self[k]
      <4>1. g.share.asset = [Top.share.asset EXCEPT ![k] = @ + 1] /\ g.share.self = Top.share.self
            BY <1>11, <2>3
      <4> QED BY <1>6, <2>1, <4>1
    <3>2. Top.share.self[k] \in Nat /\ Top.share.asset[k] \in Nat
          BY <1>6, <2>1
    <3>3. \A j \in {Damage, Horror} : j # k => g.share.self[j] = Top.share.self[j] /\ g.share.asset[j] = Top.share.asset[j]
      <4>1. g.share.asset = [Top.share.asset EXCEPT ![k] = @ + 1] /\ g.share.self = Top.share.self
            BY <1>11, <2>3
      <4> QED BY <1>6, <2>1, <4>1
    <3> QED BY <3>1, <3>2, <3>3
  <2> QED BY <1>2, <2>2, <2>3
<1>18. g.remaining[k] + 1 = Top.remaining[k]
      BY <1>7, <1>13
<1>15. \A j \in {Damage, Horror} : g.share.self[j] + g.share.asset[j] + g.remaining[j]
                                   = Top.share.self[j] + Top.share.asset[j] + Top.remaining[j]
      BY <1>5, <1>7, <1>9, <1>13, <1>14, <1>18, SharedOut
<1>16. \A j \in {Damage, Horror} : g.share.self[j] + g.share.asset[j] + g.remaining[j] = attack[g.enemy][j]
      BY <1>1, <1>3, <1>8, <1>15 DEF Stands, StandsHarm
<1>17. \A j \in {Damage, Horror} : g.share.asset[j] > 0 => asset[g.who] # None /\ g.share.asset[j] <= asset[g.who][j]
  <2>1. asset \in Capacities /\ Top.who \in Investigators
        BY <1>5 DEF IndInv, BoardTyped, DealsOfDamage
  <2>2. asset[Top.who] # None /\ asset[Top.who][k] > Top.share.asset[k]
        BY <1>4 DEF Contested
  <2>3. asset[Top.who][k] \in Nat /\ Top.share.asset[k] \in Nat
        BY <1>6, <1>7, <2>1, <2>2 DEF Capacities, Points
  <2>4. g.share.asset[k] <= asset[Top.who][k]
        BY <1>14, <2>2, <2>3
  <2>5. \A j \in {Damage, Horror} : j # k /\ g.share.asset[j] > 0 => g.share.asset[j] <= asset[Top.who][j]
        BY <1>1, <1>3, <1>4, <1>14 DEF FitsAttack, FitsBlow
  <2> QED BY <1>8, <2>2, <2>4, <2>5
<1> QED BY <1>1, <1>4, <1>8, <1>9, <1>12, <1>16, <1>17, DealGoesOn

------------------------------------------------------------------------------
(* The walk over the cells. *)

LEMMA StepAnnounce == ASSUME IndInv, Announce PROVE IndInv'
<1> DEFINE ev == Harm("DamageDealt", Top)
           f == EmitEvent(ev)
           g == [Top EXCEPT !.step = "Finish"]
<1>1. /\ Drives("DealDamage") /\ Same /\ announced' = announced /\ running' = running
      /\ stack' = <<f, g>> \o Beneath /\ Top.step = "Announce"
      BY SameStack DEF Announce, Replace
<1>2. /\ stack # <<>> /\ running = TRUE /\ Top.kind = "DealDamage" /\ Top \in AllFrames
      /\ Good(Beneath) /\ Resting(Beneath) /\ Stands(Top, Beneath) /\ Beneath \in Seq(AllFrames) /\ FitsAttack(Top)
  <2>1. Drives("DealDamage")
        BY <1>1
  <2> HIDE DEF ev, f, g
  <2>2. /\ stack # <<>> /\ running = TRUE /\ Top.kind = "DealDamage" /\ Top \in AllFrames
        /\ Good(Beneath) /\ Stands(Top, Beneath) /\ Beneath \in Seq(AllFrames) /\ FitsAttack(Top)
        BY <2>1, Driving
  <2>3. "DealDamage" # "TimingPoint" => Resting(Beneath)
        BY <2>1, Driving
  <2> QED BY <2>2, <2>3
<1>3. Top \in DealsOfDamage
      BY <1>2, KindIs
<1>4. ev \in Events /\ ev.kind = "DamageDealt" /\ ev.enemy = Top.enemy
      BY <1>3 DEF Events, HarmEvents, Harm, DealsOfDamage
<1>5. /\ g \in DealsOfDamage /\ g \in AllFrames /\ g.kind = "DealDamage" /\ g.step = "Finish" /\ g.enemy = Top.enemy
      /\ g.share = Top.share /\ g.remaining = Top.remaining
      BY <1>3 DEF DealsOfDamage, AllFrames
<1> HIDE DEF ev
<1>6. /\ f \in EmitEvents /\ f \in AllFrames /\ f.kind = "EmitEvent" /\ f.event.kind = "DamageDealt"
      /\ f.event.enemy = Top.enemy /\ f.step = "When" /\ f.prevented = FALSE
      BY <1>4, EmitIs
<1> HIDE DEF f, g
<1>7. stack' = Over(f, Over(g, Beneath))
      BY <1>1, <1>2, <1>5, <1>6, OverTwo
<1>8. /\ Quiet(Beneath) /\ Boundless(Beneath) /\ StandsHarm(g, Beneath)
      BY <1>2, <1>5 DEF Stands, StandsHarm
<1>9. /\ Good(Over(g, Beneath)) /\ Quiet(Over(g, Beneath)) /\ Boundless(Over(g, Beneath)) /\ Resting(Over(g, Beneath))
      /\ Len(Over(g, Beneath)) >= 1 /\ Over(g, Beneath)[1] = g
  <2>1. ~AsksOrActs(g) /\ ~Ending(g) /\ ~IsEmit(g, "EnemyAttacks")
        BY <1>5 DEF AsksOrActs, Ending, IsEmit
  <2>2. Good(Over(g, Beneath))
        BY <1>2, <1>5, <1>8, GoodHarm
  <2>3. Quiet(Over(g, Beneath))
        BY <1>2, <1>5, <1>8, <2>1, OverQuiet
  <2>4. Boundless(Over(g, Beneath))
        BY <1>2, <1>5, <1>8, OverBoundless
  <2>5. Resting(Over(g, Beneath))
        BY <1>2, <1>5, <2>1, OverRests DEF Resting
  <2>6. Len(Over(g, Beneath)) >= 1 /\ Over(g, Beneath)[1] = g
        BY <1>2, <1>5, OverSeq, LenProperties
  <2> QED BY <2>2, <2>3, <2>4, <2>5, <2>6
<1>10. Good(stack')
  <2>1. StandsEmit(f, Over(g, Beneath))
        BY <1>5, <1>6, <1>9 DEF StandsEmit
  <2> QED BY <1>6, <1>7, <1>9, <2>1, GoodEmit
<1>11. FitsPhase(f) /\ FitsAttack(f) /\ FitsPhase(g) /\ FitsAttack(g)
      BY <1>2, <1>5, <1>6 DEF FitsPhase, FitsAttack, FitsBlow, IsEmit
<1>12. (\A e \in Enemies : ~Tells(Top, e) /\ ~OwedBy(f, e) /\ ~OwedBy(g, e)) /\ ~Ending(f)
      BY <1>2, <1>5, <1>6 DEF Tells, OwedBy, Ending, IsEmit
<1>13. stack # <<>> /\ Top.kind = "DealDamage" /\ f.kind = "EmitEvent" /\ running' = TRUE
      BY <1>1, <1>2, <1>6
<1> QED BY <1>1, <1>5, <1>6, <1>7, <1>10, <1>11, <1>12, <1>13, ToppedTwo

\* A coordinator at its next step.
Advance(f) == [f EXCEPT !.step = StepAfter(@)]

LEMMA AdvanceIs ==
    ASSUME NEW f \in EmitEvents, f.step # "After"
    PROVE  /\ Advance(f) \in EmitEvents /\ Advance(f) \in AllFrames /\ Advance(f).kind = "EmitEvent"
           /\ Advance(f).event = f.event /\ Advance(f).prevented = f.prevented
           /\ f.step = "When" => Advance(f).step = "ResolveCondition"
           /\ f.step = "ResolveCondition" => Advance(f).step = "At"
           /\ f.step = "At" => Advance(f).step = "After"
           /\ f.step \in {"When", "ResolveCondition", "At"} /\ Advance(f).step # "When"
<1>1. f.step \in {"When", "ResolveCondition", "At"}
      BY DEF EmitEvents, CellSteps
<1>2. /\ f.step = "When" => StepAfter(f.step) = "ResolveCondition"
      /\ f.step = "ResolveCondition" => StepAfter(f.step) = "At"
      /\ f.step = "At" => StepAfter(f.step) = "After"
      BY DEF StepAfter
<1>3. Advance(f).step = StepAfter(f.step) /\ Advance(f).kind = "EmitEvent" /\ Advance(f).event = f.event
      /\ Advance(f).prevented = f.prevented
      BY DEF Advance, EmitEvents
<1>4. Advance(f) \in EmitEvents
      BY <1>1, <1>2 DEF Advance, EmitEvents, CellSteps
<1> QED BY <1>1, <1>2, <1>3, <1>4 DEF AllFrames, CellFrames

LEMMA Advanced ==
    ASSUME NEW s, Good(s), s # <<>>, Head(s).kind = "EmitEvent",
           Head(s).prevented => Head(s).step = "When", Head(s).step = "At" => Boundless(Tail(s))
    PROVE  /\ Head(s).step = "After" => AdvanceOrFinish(s) = Tail(s)
           /\ Head(s).step # "After" =>
                 /\ AdvanceOrFinish(s) = Over(Advance(Head(s)), Tail(s)) /\ Good(AdvanceOrFinish(s))
                 /\ AdvanceOrFinish(s) = <<Advance(Head(s))>> \o Tail(s)
<1>1. Head(s).step = "After" => AdvanceOrFinish(s) = Tail(s)
      BY DEF AdvanceOrFinish, Under
<1>2. ASSUME Head(s).step # "After"
      PROVE  /\ AdvanceOrFinish(s) = Over(Advance(Head(s)), Tail(s)) /\ Good(AdvanceOrFinish(s))
             /\ AdvanceOrFinish(s) = <<Advance(Head(s))>> \o Tail(s)
  <2>1. /\ Head(s) \in EmitEvents /\ Good(Tail(s)) /\ Stands(Head(s), Tail(s)) /\ Resting(Tail(s))
        BY GoodPop, UnderTop, KindIs
  <2>2. AdvanceOrFinish(s) = <<Advance(Head(s))>> \o Tail(s)
        BY <1>2 DEF AdvanceOrFinish, Under, Advance
  <2> DEFINE f == Head(s)
             r == Tail(s)
             g == Advance(f)
  <2>3. /\ g \in EmitEvents /\ g \in AllFrames /\ g.event = f.event /\ g.prevented = f.prevented
        /\ (f.step = "When" => g.step = "ResolveCondition") /\ (g.step = "After" => f.step = "At")
        BY <1>2, <2>1, AdvanceIs
  <2>4. StandsEmit(f, r)
        BY <2>1 DEF Stands
  <2>5. f.step = "At" => Boundless(r)
        OBVIOUS
  <2>6. f.prevented => f.step = "When"
        OBVIOUS
  <2>7. AdvanceOrFinish(s) = Over(g, r)
        BY <2>2, <2>3 DEF Over
  <2> HIDE DEF f, r, g
  <2>8. StandsEmit(g, r)
        BY <2>3, <2>4, <2>5, <2>6 DEF StandsEmit
  <2>9. Good(Over(g, r))
        BY <2>1, <2>3, <2>8, GoodEmit DEF r
  <2> QED BY <2>2, <2>7, <2>9 DEF g, f, r
<1> QED BY <1>1, <1>2

\* The coordinator goes on, from its own frame or from the point above it.
LEMMA Walked ==
    ASSUME IndInv, Same, running' = TRUE, stack # <<>>, NEW s, Good(s), s # <<>>,
           s = stack \/ (s = Beneath /\ Top.kind = "TimingPoint"),
           Head(s).kind = "EmitEvent", Head(s).step # "ResolveCondition",
           Head(s).step = "At" => Boundless(Tail(s)),
           stack' = AdvanceOrFinish(s), Announces(Head(s))
    PROVE  IndInv'
<1> DEFINE f == Head(s)
           r == Tail(s)
           g == Advance(f)
<1>1. /\ f \in AllFrames /\ f \in EmitEvents /\ Good(r) /\ r \in Seq(AllFrames) /\ Stands(f, r) /\ Resting(r)
      /\ s = Over(f, r) /\ s \in Seq(AllFrames)
      BY GoodPop, UnderTop, KindIs
<1>2. Elems(s) = {f} \cup Elems(r)
      BY <1>1, OverElems
<1>3. /\ Frames = {Top} \cup Elems(s) /\ (Top = f \/ Top.kind = "TimingPoint")
  <2>1. Frames = {Top} \cup Elems(Beneath)
        BY TopIs DEF IndInv
  <2>2. s = stack => f = Top /\ r = Beneath
        BY DEF Top, Beneath
  <2> QED BY <1>2, <2>1, <2>2
<1>4. f.prevented => f.step = "When"
  <2>1. StandsEmit(f, r)
        BY <1>1 DEF Stands
  <2> QED BY <2>1 DEF StandsEmit
<1>5. f.kind = "EmitEvent" /\ f.step # "ResolveCondition"
      OBVIOUS
<1>6. /\ f.step = "After" => stack' = r
      /\ f.step # "After" => stack' = Over(g, r) /\ Good(stack')
      BY <1>4, Advanced
<1>7. f.step # "After" => /\ g \in AllFrames /\ g.kind = "EmitEvent" /\ g.event = f.event /\ g.prevented = f.prevented
                          /\ (f.step = "When" => g.step = "ResolveCondition") /\ (f.step = "At" => g.step = "After")
                          /\ f.step \in {"When", "At"}
      BY <1>1, <1>5, AdvanceIs
<1>8. announced' = IF f.step = "After" /\ f.event.kind = "EnemyDefeated"
                   THEN announced \cup {f.event.enemy} ELSE announced
      BY DEF Announces
<1> HIDE DEF f, r, g
<1>9. CASE f.step = "After"
  <2>1. stack' = r /\ Frames' = Elems(r) /\ Good(stack')
        BY <1>1, <1>6, <1>9, FramesAre
  <2>2. stack' # <<>> => ~Ending(Head(stack')) /\ ~AsksOrActs(Head(stack'))
    <3>1. r # <<>> => Head(r) = r[1] /\ Len(r) >= 1 /\ 1 \in 1..Len(r)
          BY <1>1, HeadOver, LenProperties
    <3> QED BY <1>1, <2>1, <3>1 DEF Resting
  <2>3. Keeps(Frames')
        BY <1>2, <1>3, <1>5, <2>1 DEF Keeps
  <2>4. \A e \in Enemies \ announced' :
           e \notin announced /\ \A h \in Frames : Tells(h, e) => \E i \in Frames' : Tells(i, e)
    <3>1. \A e \in Enemies \ announced' : e \notin announced /\ ~Tells(f, e) /\ (Top.kind = "TimingPoint" => ~Tells(Top, e))
          BY <1>5, <1>8, <1>9 DEF Tells, IsEmit
    <3> QED BY <1>2, <1>3, <2>1, <3>1
  <2>5. \A e \in Enemies : Owed(e)' => Owed(e)
        BY <1>2, <1>3, <2>1, <2>2 DEF Owed, OwedBy, Top
  <2>6. ~Striking(stack')
        BY <2>2 DEF Striking, AsksOrActs
  <2>7. \A h \in Frames' : h \in Frames
        BY <1>2, <1>3, <2>1
  <2> QED BY <2>1, <2>3, <2>4, <2>5, <2>6, <2>7, Carried
<1>10. CASE f.step # "After"
  <2>1. /\ Frames' = {g} \cup Elems(r) /\ Good(stack') /\ stack' # <<>> /\ Head(stack') = g
        BY <1>1, <1>6, <1>7, <1>10, FramesAre
  <2>2. Keeps(Frames')
        BY <1>2, <1>3, <1>5, <2>1 DEF Keeps
  <2>3. \A e \in Enemies \ announced' :
           e \notin announced /\ \A h \in Frames : Tells(h, e) => \E i \in Frames' : Tells(i, e)
    <3>1. \A e \in Enemies : (Tells(f, e) => Tells(g, e)) /\ (Top.kind = "TimingPoint" => ~Tells(Top, e))
          BY <1>5, <1>7, <1>10 DEF Tells, IsEmit
    <3> QED BY <1>2, <1>3, <1>8, <1>10, <2>1, <3>1
  <2>4. \A e \in Enemies : OwedBy(g, e) \/ (Ending(g) /\ g.event.enemy = e) => OwedBy(f, e)
        BY <1>5, <1>7, <1>10 DEF OwedBy, Ending, IsEmit
  <2>5. \A e \in Enemies : Owed(e)' => Owed(e)
    <3>1. f \in Frames /\ \A h \in Frames' : h = g \/ h \in Frames
          BY <1>2, <1>3, <2>1
    <3>2. Top' = g
          BY <2>1 DEF Top
    <3> QED BY <2>4, <3>1, <3>2 DEF Owed, OwedBy
  <2>6. ~Striking(stack')
        BY <1>7, <1>10, <2>1 DEF Striking
  <2>7. FitsPhase(g) /\ FitsAttack(g)
    <3>1. FitsAttack(f)
          BY <1>2, <1>3 DEF IndInv, Fits
    <3> QED BY <1>5, <1>7, <1>10, <3>1 DEF FitsPhase, FitsAttack, FitsBlow, IsEmit
  <2>8. \A h \in Frames' : h \in Frames \/ (FitsPhase(h) /\ FitsAttack(h))
        BY <1>2, <1>3, <2>1, <2>7
  <2> QED BY <2>1, <2>2, <2>3, <2>5, <2>6, <2>8, Carried
<1> QED BY <1>9, <1>10

\* Where no effect waits, no base is open.
LEMMA NotParked ==
    ASSUME NEW s \in Seq(AllFrames), s # <<>>, ~Parks(s)
    PROVE  Boundless(Tail(s))
<1>1. /\ Len(s) = Len(Tail(s)) + 1 /\ Len(Tail(s)) \in Nat /\ \A k \in 1..Len(Tail(s)) : s[k + 1] = Tail(s)[k]
      BY HeadOver, LenProperties
<1> SUFFICES ASSUME NEW k \in 1..Len(Tail(s)), Tail(s)[k].kind = "EffectBase"
             PROVE  \E j \in 1..k : BoundsEffectDeferral(Tail(s)[j])
    BY DEF Boundless
<1>2. k + 1 \in 2..Len(s) /\ s[k + 1].kind = "EffectBase"
      BY <1>1
<1>3. k + 1 \notin OpenBases(s)
      BY <1>2 DEF Parks
<1>4. PICK j \in 2..(k + 1) : BoundsEffectDeferral(s[j])
      BY <1>2, <1>3 DEF OpenBases
<1>5. j - 1 \in 1..k /\ j - 1 \in 1..Len(Tail(s)) /\ (j - 1) + 1 = j
      BY <1>1
<1>6. Tail(s)[j - 1] = s[j]
      BY <1>1, <1>5
<1> QED BY <1>4, <1>5, <1>6

LEMMA StepSkipCell == ASSUME IndInv, SkipCell PROVE IndInv'
<1>1. /\ Drives("EmitEvent") /\ Top.step # "ResolveCondition" /\ ~(Top.step = "At" /\ Parks(stack))
      /\ stack' = AdvanceOrFinish(stack) /\ Announces(Top) /\ Same /\ running' = running
      BY DEF SkipCell, AtCell, Same
<1>2. stack # <<>> /\ running = TRUE /\ Top.kind = "EmitEvent" /\ Good(stack) /\ stack \in Seq(AllFrames)
      BY <1>1, Driving, TopIs
<1>3. Top.step = "At" => Boundless(Tail(stack))
      BY <1>1, <1>2, NotParked
<1>4. Head(stack) = Top
      BY DEF Top
<1> QED BY <1>1, <1>2, <1>3, <1>4, Walked

\* What a point stands on.
LEMMA PointIs ==
    ASSUME Good(stack), stack # <<>>, Top.kind = "TimingPoint"
    PROVE  /\ Good(Beneath) /\ Beneath # <<>> /\ Head(Beneath).kind = "EmitEvent" /\ Head(Beneath) \in EmitEvents
           /\ Head(Beneath).event = Top.event /\ Head(Beneath).step = Top.bucket /\ Top.bucket \in {"When", "After"}
           /\ Top \in TimingPoints /\ Stands(Head(Beneath), Tail(Beneath)) /\ Head(Beneath) \in Frames
           /\ Beneath = Over(Head(Beneath), Tail(Beneath)) /\ Good(Tail(Beneath)) /\ Resting(Tail(Beneath))
<1>1. /\ Good(Beneath) /\ Stands(Top, Beneath) /\ Top \in TimingPoints /\ Beneath \in Seq(AllFrames)
      /\ Frames = {Top} \cup Elems(Beneath)
      BY TopIs, KindIs
<1>2. /\ Len(Beneath) >= 1 /\ Beneath[1].kind = "EmitEvent" /\ Beneath[1].event = Top.event /\ Beneath[1].step = Top.bucket
      /\ Top.bucket \in {"When", "After"}
      BY <1>1 DEF Stands, StandsCell
<1>3. Beneath # <<>>
      BY <1>2, EmptySeq
<1>4. Head(Beneath) = Beneath[1] /\ Head(Beneath) \in AllFrames /\ Stands(Head(Beneath), Tail(Beneath))
      /\ Beneath = Over(Head(Beneath), Tail(Beneath)) /\ Good(Tail(Beneath))
      BY <1>1, <1>3, GoodPop
<1>5. Head(Beneath) \in Elems(Beneath)
      BY <1>1, <1>3, ElemsOf
<1>6. Resting(Tail(Beneath))
      BY <1>1, <1>2, <1>3, <1>4, UnderTop
<1> QED BY <1>1, <1>2, <1>3, <1>4, <1>5, <1>6, KindIs

LEMMA StepFinishPoint == ASSUME IndInv, FinishPoint PROVE IndInv'
<1>1. /\ Drives("TimingPoint") /\ stack' = AdvanceOrFinish(Beneath) /\ Announces(Head(Beneath)) /\ Same /\ running' = running
      BY DEF FinishPoint, FinishTimingPoint, Under, Beneath, Same
<1>2. stack # <<>> /\ running = TRUE /\ Top.kind = "TimingPoint" /\ Good(stack)
      BY <1>1, Driving
<1>3. /\ Good(Beneath) /\ Beneath # <<>> /\ Head(Beneath).kind = "EmitEvent" /\ Head(Beneath).step \in {"When", "After"}
      BY <1>2, PointIs
<1> QED BY <1>1, <1>2, <1>3, Walked

LEMMA Greatest ==
    ASSUME NEW n \in Nat, NEW T \in SUBSET (1..n), T # {}
    PROVE  Max(T) \in T
<1> DEFINE U == {n - k : k \in T}
<1>0. \A k \in T : k \in Nat /\ k >= 1 /\ k <= n /\ n - k \in Nat
  <2>1. \A k \in 1..n : k \in Nat /\ k >= 1 /\ k <= n /\ n - k \in Nat
        OBVIOUS
  <2> QED BY <2>1
<1>1. U \in SUBSET Nat /\ U # {}
      BY <1>0
<1>2. PICK m \in U : \A k \in U : m <= k
  <2> HIDE DEF U
  <2> QED BY <1>1, Least
<1>3. PICK x \in T : m = n - x
      BY <1>2
<1>4. \A y \in T : x >= y
  <2>1. \A y \in T : n - x <= n - y
        BY <1>2, <1>3
  <2>2. \A y \in T : y \in Nat /\ x \in Nat
        BY <1>0
  <2> QED BY <2>1, <2>2
<1>5. \E z \in T : \A y \in T : z >= y
      BY <1>4
<1> QED BY <1>5 DEF Max

\* Only a defeat is parked: every other condition is raised with no base open.
LEMMA StepPark == ASSUME IndInv, Park PROVE IndInv'
<1> DEFINE b == Max(OpenBases(stack))
           g == [stack[b] EXCEPT !.parked = Append(@, Top)]
           t == [stack EXCEPT ![b] = g]
<1>1. /\ Drives("EmitEvent") /\ Same /\ announced' = announced /\ running' = running
      /\ stack' = Tail(t) /\ Top.step = "At" /\ OpenBases(stack) # {}
      BY SameStack DEF Park, Parks, Parked, Under, Top
<1>2. /\ stack # <<>> /\ running = TRUE /\ Top.kind = "EmitEvent" /\ Good(stack) /\ Stands(Top, Beneath)
      /\ Top \in EmitEvents /\ Beneath \in Seq(AllFrames) /\ stack \in Seq(AllFrames)
      BY <1>1, Driving, KindIs DEF Good
<1>3. Len(stack) \in Nat /\ DOMAIN stack = 1..Len(stack)
      BY <1>2, LenProperties
<1>4. b \in OpenBases(stack)
  <2>1. OpenBases(stack) \in SUBSET (1..Len(stack))
        BY <1>3 DEF OpenBases
  <2> QED BY <1>1, <1>3, <2>1, Greatest
<1>5. /\ b \in 2..Len(stack) /\ b \in 1..Len(stack) /\ stack[b].kind = "EffectBase"
      /\ \A j \in 2..b : ~BoundsEffectDeferral(stack[j])
  <2>1. b \in 2..Len(stack) /\ stack[b].kind = "EffectBase" /\ \A j \in 2..b : ~BoundsEffectDeferral(stack[j])
    <3> HIDE DEF b
    <3> QED BY <1>4 DEF OpenBases
  <2>2. \A k \in 2..Len(stack) : k \in 1..Len(stack)
        BY <1>3
  <2> HIDE DEF b
  <2> QED BY <2>1, <2>2
<1> HIDE DEF b
<1>6. /\ Len(stack) = Len(Beneath) + 1 /\ Len(Beneath) \in Nat /\ stack[1] = Top
      /\ \A k \in 1..Len(Beneath) : stack[k + 1] = Beneath[k]
      BY <1>2, GoodPop DEF Top, Beneath
<1>7. ~Boundless(Beneath)
  <2> SUFFICES ASSUME Boundless(Beneath) PROVE FALSE
      OBVIOUS
  <2>1. b - 1 \in 1..Len(Beneath) /\ (b - 1) + 1 = b
        BY <1>3, <1>5, <1>6
  <2>2. Beneath[b - 1] = stack[b]
        BY <1>6, <2>1
  <2>3. Beneath[b - 1].kind = "EffectBase"
        BY <1>5, <2>2
  <2>4. PICK j \in 1..(b - 1) : BoundsEffectDeferral(Beneath[j])
        BY <2>1, <2>3 DEF Boundless
  <2>5. j \in 1..Len(Beneath) /\ j + 1 \in 2..b
        BY <1>5, <1>6, <2>1
  <2>6. Beneath[j] = stack[j + 1]
        BY <1>6, <2>5
  <2> QED BY <1>5, <2>4, <2>5, <2>6
<1>8. Top.event.kind = "EnemyDefeated" /\ ~Top.prevented /\ Quiet(Beneath)
      BY <1>1, <1>2, <1>7 DEF Stands, StandsEmit
<1>9. stack[b] \in EffectBases /\ Stands(stack[b], SubSeq(stack, b + 1, Len(stack))) /\ stack[b] \in AllFrames
      BY <1>2, <1>5, GoodAt, KindIs
<1>10. stack[b].parked \in Seq(EmitEvents)
      BY <1>9 DEF EffectBases
<1>11. g \in EffectBases /\ g.kind = "EffectBase" /\ g.parked = Append(stack[b].parked, Top)
  <2>1. Append(stack[b].parked, Top) \in Seq(EmitEvents)
        BY <1>2, <1>10
  <2> QED BY <1>9, <2>1 DEF EffectBases
<1> HIDE DEF g
<1>12. \A k \in 1..Len(g.parked) :
           g.parked[k].event.kind = "EnemyDefeated" /\ g.parked[k].step = "At" /\ ~g.parked[k].prevented
  <2> DEFINE p == stack[b].parked
  <2>1. \A k \in 1..Len(p) : p[k].event.kind = "EnemyDefeated" /\ p[k].step = "At" /\ ~p[k].prevented
        BY <1>5, <1>9 DEF Stands, StandsEffect
  <2>2. /\ Len(g.parked) = Len(p) + 1 /\ Len(p) \in Nat /\ \A k \in 1..Len(p) : g.parked[k] = p[k]
        /\ g.parked[Len(p) + 1] = Top
        BY <1>2, <1>10, <1>11, AppendProperties, LenProperties
  <2> HIDE DEF p
  <2>3. \A k \in 1..Len(g.parked) : k \in 1..Len(p) \/ k = Len(p) + 1
        BY <2>2
  <2> QED BY <1>1, <1>8, <2>1, <2>2, <2>3
<1>13. Quiet(SubSeq(stack, b + 1, Len(stack)))
  <2> DEFINE r == SubSeq(stack, b + 1, Len(stack))
  <2>1. Len(r) \in Nat /\ Len(r) = Len(stack) - b /\ \A j \in 1..Len(r) : r[j] = stack[b + j]
        BY <1>2, <1>5, SubIs
  <2> HIDE DEF r
  <2>2. \A j \in 1..Len(r) : b + j - 1 \in 1..Len(Beneath) /\ (b + j - 1) + 1 = b + j
        BY <1>3, <1>5, <1>6, <2>1
  <2>3. \A j \in 1..Len(r) : r[j] = Beneath[b + j - 1]
        BY <1>6, <2>1, <2>2
  <2>4. Quiet(r)
        BY <1>8, <2>2, <2>3 DEF Quiet
  <2> QED BY <2>4 DEF r
<1>14. Alike(stack[b], g) /\ g \in AllFrames
      BY <1>5, <1>11 DEF Alike, AllFrames, EffectFrames
<1>15. Stands(g, SubSeq(stack, b + 1, Len(stack)))
  <2> DEFINE r == SubSeq(stack, b + 1, Len(stack))
  <2>1. Quiet(r) /\ Stands(stack[b], r)
        BY <1>9, <1>13
  <2> HIDE DEF r
  <2>2. (\A k \in 1..Len(r) : ~AsksOrActs(r[k])) /\ ~(Len(r) >= 1 /\ Ending(r[1]))
        BY <1>5, <2>1 DEF Stands
  <2>3. StandsPhase(g, r) /\ StandsHarm(g, r) /\ StandsCell(g, r)
        BY <1>11 DEF StandsPhase, StandsHarm, StandsCell
  <2>4. StandsEffect(g, r)
        BY <1>11, <1>12, <2>1 DEF StandsEffect
  <2>5. Stands(g, r)
        BY <1>11, <2>2, <2>3, <2>4 DEF Stands
  <2> QED BY <2>5 DEF r
<1>16. Good(t)
      BY <1>2, <1>5, <1>14, <1>15, GoodChange
<1>17. /\ Len(t) = Len(stack) /\ DOMAIN t = 1..Len(stack) /\ t \in Seq(AllFrames)
       /\ \A j \in 1..Len(stack) : t[j] = IF j = b THEN g ELSE stack[j]
  <2>1. /\ Len(t) = Len(stack) /\ t \in Seq(AllFrames)
        /\ \A j \in 1..Len(stack) : t[j] = IF j = b THEN g ELSE stack[j]
        BY <1>2, <1>5, <1>14, ExceptSeq
  <2> HIDE DEF t
  <2> QED BY <2>1, LenProperties
<1>18. t # <<>> /\ t[1] = Top /\ 1 \in 1..Len(stack) /\ b # 1
      BY <1>3, <1>5, <1>6, <1>17, EmptySeq
<1> HIDE DEF t
<1>19. /\ Good(stack') /\ Resting(stack') /\ stack' \in Seq(AllFrames) /\ Len(stack) = Len(stack') + 1 /\ Len(stack') \in Nat
       /\ \A k \in 1..Len(stack') : t[k + 1] = stack'[k]
  <2>1. Head(t) = Top /\ Head(t).kind = "EmitEvent"
        BY <1>2, <1>16, <1>18, GoodPop
  <2> QED BY <1>1, <1>16, <1>17, <1>18, <2>1, GoodPop, UnderTop
<1>20. /\ \A k \in 1..Len(stack') : stack'[k] = (IF k + 1 = b THEN g ELSE stack[k + 1]) /\ k + 1 \in 2..Len(stack)
       /\ \A k \in 2..Len(stack) : k - 1 \in 1..Len(stack') /\ stack'[k - 1] = (IF k = b THEN g ELSE stack[k])
  <2>1. \A k \in 1..Len(stack') : k + 1 \in 2..Len(stack) /\ k + 1 \in 1..Len(stack)
        BY <1>3, <1>19
  <2>2. \A k \in 2..Len(stack) : k \in 1..Len(stack) /\ k - 1 \in 1..Len(stack') /\ (k - 1) + 1 = k
        BY <1>3, <1>19
  <2> QED BY <1>17, <1>19, <2>1, <2>2
<1>21. Frames' = {stack'[k] : k \in 1..Len(stack')}
      BY <1>19, LenProperties DEF Frames
<1>22. \A f \in Frames' : f = g \/ f \in Frames
  <2>1. \A k \in 2..Len(stack) : stack[k] \in Frames
        BY <1>3 DEF Frames
  <2> QED BY <1>20, <1>21, <2>1
<1>23. g \in Frames' /\ \A f \in Frames : f = Top \/ f = stack[b] \/ f \in Frames'
  <2>1. \A k \in 1..Len(stack) : k = 1 \/ k \in 2..Len(stack)
        BY <1>3
  <2>2. \A k \in 2..Len(stack) : (IF k = b THEN g ELSE stack[k]) \in Frames'
        BY <1>20, <1>21
  <2>3. \A k \in 1..Len(stack) : stack[k] = Top \/ stack[k] = stack[b] \/ stack[k] \in Frames'
        BY <1>6, <2>1, <2>2
  <2> QED BY <1>3, <1>5, <2>2, <2>3 DEF Frames
<1>24. Keeps(Frames')
      BY <1>2, <1>5, <1>23 DEF Keeps
<1>25. \A e \in Enemies \ announced' :
          e \notin announced /\ \A f \in Frames : Tells(f, e) => \E h \in Frames' : Tells(h, e)
  <2>1. Elems(g.parked) = Elems(stack[b].parked) \cup {Top}
        BY <1>2, <1>10, <1>11, ElemsOf
  <2>2. \A e \in Enemies : Tells(Top, e) \/ Tells(stack[b], e) => Tells(g, e)
        BY <1>2, <1>5, <1>8, <1>11, <2>1 DEF Tells, IsEmit
  <2> QED BY <1>1, <1>23, <2>2
<1>26. \A e \in Enemies : Owed(e)' => Owed(e)
  <2>1. \A e : ~OwedBy(g, e)
        BY <1>11 DEF OwedBy, IsEmit
  <2>2. stack' # <<>> => ~Ending(Head(stack'))
    <3>1. stack' # <<>> => Head(stack') = stack'[1] /\ Len(stack') >= 1
          BY <1>19, HeadOver, LenProperties
    <3> QED BY <1>19, <3>1 DEF Resting
  <2> QED BY <1>22, <2>1, <2>2 DEF Owed, OwedBy, Top
<1>27. ~Striking(stack')
  <2>1. stack' # <<>> => Head(stack') = stack'[1] /\ Len(stack') >= 1 /\ 1 \in 1..Len(stack')
        BY <1>19, HeadOver, LenProperties
  <2> QED BY <1>19, <2>1 DEF Striking, Resting, AsksOrActs
<1>28. FitsPhase(g) /\ FitsAttack(g)
      BY <1>11 DEF FitsPhase, FitsAttack, FitsBlow, IsEmit
<1>29. \A f \in Frames' : f \in Frames \/ (FitsPhase(f) /\ FitsAttack(f))
      BY <1>22, <1>28
<1>30. running' = TRUE
      BY <1>1, <1>2
<1> QED BY <1>1, <1>19, <1>24, <1>25, <1>26, <1>27, <1>29, <1>30, Carried

LEMMA EmitDrives ==
    ASSUME IndInv, Drives("EmitEvent")
    PROVE  /\ stack # <<>> /\ running = TRUE /\ Top.kind = "EmitEvent" /\ Good(stack) /\ stack = Over(Top, Beneath)
           /\ Top \in EmitEvents /\ Top \in AllFrames /\ Top.event \in Events /\ Top.step \in CellSteps
           /\ Good(Beneath) /\ Resting(Beneath) /\ Beneath \in Seq(AllFrames) /\ StandsEmit(Top, Beneath)
           /\ FitsPhase(Top) /\ FitsAttack(Top) /\ Top \in Frames
<1>1. /\ stack # <<>> /\ running = TRUE /\ Top.kind = "EmitEvent" /\ Good(stack) /\ stack = Over(Top, Beneath)
      /\ Top \in AllFrames /\ Good(Beneath) /\ Beneath \in Seq(AllFrames) /\ Stands(Top, Beneath)
      /\ FitsPhase(Top) /\ FitsAttack(Top) /\ Frames = {Top} \cup Elems(Beneath)
      BY Driving
<1>2. Resting(Beneath)
      BY <1>1, TopIs
<1>3. Top \in EmitEvents
      BY <1>1, KindIs
<1>4. Top.event \in Events /\ Top.step \in CellSteps
      BY <1>3 DEF EmitEvents
<1>5. StandsEmit(Top, Beneath)
      BY <1>1 DEF Stands
<1> QED BY <1>1, <1>2, <1>3, <1>4, <1>5

LEMMA ListenersAre ==
    ASSUME NEW S \in SUBSET Investigators, NEW card \in Cards
    PROVE  \A c \in {Listener(card, i) : i \in S} : c \in Listeners /\ c.card = card /\ c.who \in S
<1>1. \A i \in S : Listener(card, i) \in Listeners /\ Listener(card, i).card = card /\ Listener(card, i).who = i
      BY DEF Listener, Listeners
<1> QED BY <1>1

\* Who may listen to a cell.
LEMMA Listening ==
    ASSUME BoardTyped, NEW ev \in Events, NEW bucket
    PROVE  /\ Reactions(ev, bucket) \subseteq Listeners /\ Forced(ev, bucket) \subseteq Listeners
           /\ \A c \in Forced(ev, bucket) :
                 \/ c.card = "Acolyte" /\ bucket = "After" /\ ev.kind = "EnemyAttacks" /\ ev.enemy \in Acolytes
                 \/ c.card = "Weakness" /\ bucket = "When" /\ ev.kind = "EliminationGameEnd"
           /\ \A c \in Reactions(ev, bucket) :
                 \/ c.card = "Dodge" /\ bucket = "When" /\ ev.kind = "EnemyAttacks" /\ c.who \in dodge
                 \/ c.card = "Guard Dog" /\ bucket = "When" /\ ev.kind = "DamageDealt"
                 \/ c.card = "Agnes" /\ bucket = "After" /\ ev.kind = "DamagePlaced" /\ c.who \in Agnes /\ "Agnes" \notin used
                 \/ c.card = "Roland" /\ bucket = "After" /\ ev.kind = "EnemyDefeated"
<1>1. /\ ev.who \in Investigators /\ dodge \subseteq Investigators
      /\ "Dodge" \in Cards /\ "Guard Dog" \in Cards /\ "Agnes" \in Cards /\ "Roland" \in Cards /\ "Acolyte" \in Cards
      /\ "Weakness" \in Cards
      BY EventIs DEF BoardTyped, Cards
<1>2. CASE ev.kind = "EnemyAttacks" /\ bucket = "When"
  <2>1. Reactions(ev, bucket) = Dodgers(ev) /\ Forced(ev, bucket) = {}
        BY <1>2 DEF Reactions, Forced
  <2>2. \A c \in Dodgers(ev) : c \in Listeners /\ c.card = "Dodge" /\ c.who \in dodge
    <3> DEFINE S == {j \in dodge \cap Active(status) : at[j] = at[ev.who]}
    <3>1. S \in SUBSET Investigators /\ S \subseteq dodge
          BY <1>1
    <3>2. Dodgers(ev) = {Listener("Dodge", i) : i \in S}
          BY DEF Dodgers
    <3> HIDE DEF S
    <3>3. \A c \in {Listener("Dodge", i) : i \in S} : c \in Listeners /\ c.card = "Dodge" /\ c.who \in S
          BY <1>1, <3>1, ListenersAre
    <3> QED BY <3>1, <3>2, <3>3
  <2> QED BY <1>2, <2>1, <2>2
<1>3. CASE ev.kind = "DamageDealt" /\ bucket = "When"
  <2>1. Reactions(ev, bucket) = Retaliators(ev) /\ Forced(ev, bucket) = {}
        BY <1>3 DEF Reactions, Forced
  <2>2. \A c \in Retaliators(ev) : c \in Listeners /\ c.card = "Guard Dog"
    <3> DEFINE S == {j \in {ev.who} \cap Active(status) : asset[j] # None /\ ev.share.asset[Damage] > 0}
    <3>1. S \in SUBSET Investigators
          BY <1>1
    <3>2. Retaliators(ev) = {Listener("Guard Dog", i) : i \in S}
          BY DEF Retaliators
    <3> HIDE DEF S
    <3>3. \A c \in {Listener("Guard Dog", i) : i \in S} : c \in Listeners /\ c.card = "Guard Dog" /\ c.who \in S
          BY <1>1, <3>1, ListenersAre
    <3> QED BY <3>1, <3>2, <3>3
  <2> QED BY <1>3, <2>1, <2>2
<1>4. CASE ev.kind = "DamagePlaced" /\ bucket = "After"
  <2>1. Reactions(ev, bucket) = Stricken(ev) /\ Forced(ev, bucket) = {}
        BY <1>4 DEF Reactions, Forced
  <2>2. \A c \in Stricken(ev) : c \in Listeners /\ c.card = "Agnes" /\ c.who \in Agnes /\ "Agnes" \notin used
    <3> DEFINE S == {j \in {ev.who} \cap Agnes \cap Active(status) :
                      ev.share.self[Horror] > 0 /\ "Agnes" \notin used /\ EnemiesHere(j) # {}}
    <3>1. S \in SUBSET Investigators /\ (S # {} => "Agnes" \notin used) /\ S \subseteq Agnes
          BY <1>1
    <3>2. Stricken(ev) = {Listener("Agnes", i) : i \in S}
          BY DEF Stricken
    <3> HIDE DEF S
    <3>3. \A c \in {Listener("Agnes", i) : i \in S} : c \in Listeners /\ c.card = "Agnes" /\ c.who \in S
          BY <1>1, <3>1, ListenersAre
    <3> QED BY <3>1, <3>2, <3>3
  <2> QED BY <1>4, <2>1, <2>2
<1>5. CASE ev.kind = "EnemyDefeated" /\ bucket = "After"
  <2>1. Reactions(ev, bucket) = Victors(ev) /\ Forced(ev, bucket) = {}
        BY <1>5 DEF Reactions, Forced
  <2>2. \A c \in Victors(ev) : c \in Listeners /\ c.card = "Roland"
    <3> DEFINE S == {j \in {ev.who} \cap Roland \cap Active(status) : "Roland" \notin used}
    <3>1. S \in SUBSET Investigators
          BY <1>1
    <3>2. Victors(ev) = {Listener("Roland", i) : i \in S}
          BY DEF Victors
    <3> HIDE DEF S
    <3>3. \A c \in {Listener("Roland", i) : i \in S} : c \in Listeners /\ c.card = "Roland" /\ c.who \in S
          BY <1>1, <3>1, ListenersAre
    <3> QED BY <3>1, <3>2, <3>3
  <2> QED BY <1>5, <2>1, <2>2
<1>6. CASE ev.kind = "EnemyAttacks" /\ bucket = "After"
  <2>1. Reactions(ev, bucket) = {}
        BY <1>6 DEF Reactions
  <2>2. Forced(ev, bucket) = {Listener("Acolyte", i) : i \in {j \in {ev.who} : ev.enemy \in Acolytes \cap InPlay}}
        BY <1>6 DEF Forced
  <2>3. \A c \in Forced(ev, bucket) : c \in Listeners /\ c.card = "Acolyte" /\ ev.enemy \in Acolytes
    <3> DEFINE S == {j \in {ev.who} : ev.enemy \in Acolytes \cap InPlay}
    <3>1. S \in SUBSET Investigators /\ (S # {} => ev.enemy \in Acolytes)
          BY <1>1
    <3> HIDE DEF S
    <3>2. \A c \in {Listener("Acolyte", i) : i \in S} : c \in Listeners /\ c.card = "Acolyte" /\ c.who \in S
          BY <1>1, <3>1, ListenersAre
    <3> QED BY <2>2, <3>1, <3>2 DEF S
  <2> QED BY <1>6, <2>1, <2>3
<1>7. CASE ev.kind = "EliminationGameEnd" /\ bucket = "When"
  <2>1. Reactions(ev, bucket) = {} /\ Forced(ev, bucket) = {Listener("Weakness", ev.who)}
        BY <1>7 DEF Reactions, Forced
  <2>2. Listener("Weakness", ev.who) \in Listeners /\ Listener("Weakness", ev.who).card = "Weakness"
        BY <1>1 DEF Listener, Listeners
  <2> QED BY <1>7, <2>1, <2>2
<1>8. ASSUME ~(ev.kind = "EnemyAttacks" /\ bucket = "When"), ~(ev.kind = "DamageDealt" /\ bucket = "When"),
             ~(ev.kind = "DamagePlaced" /\ bucket = "After"), ~(ev.kind = "EnemyDefeated" /\ bucket = "After"),
             ~(ev.kind = "EnemyAttacks" /\ bucket = "After"), ~(ev.kind = "EliminationGameEnd" /\ bucket = "When")
      PROVE  Reactions(ev, bucket) = {} /\ Forced(ev, bucket) = {}
      BY <1>8 DEF Reactions, Forced
<1>9. CASE Reactions(ev, bucket) = {} /\ Forced(ev, bucket) = {}
      BY <1>9
<1> QED BY <1>2, <1>3, <1>4, <1>5, <1>6, <1>7, <1>8, <1>9

LEMMA StepOpenCell == ASSUME IndInv, OpenCell PROVE IndInv'
<1> DEFINE F == Forced(Top.event, Top.step)
           g == TimingPoint(Top.event, Top.step, F)
<1>1. /\ Drives("EmitEvent") /\ Listened /\ Same /\ announced' = announced /\ running' = running /\ stack' = <<g>> \o stack
      BY SameStack DEF OpenCell, AtCell
<1>2. /\ stack # <<>> /\ running = TRUE /\ Top.kind = "EmitEvent" /\ Good(stack) /\ stack = Over(Top, Beneath)
      /\ Top \in EmitEvents /\ Top \in AllFrames /\ Top.event \in Events /\ Top.step \in CellSteps
      /\ Beneath \in Seq(AllFrames) /\ Resting(Beneath) /\ StandsEmit(Top, Beneath) /\ FitsAttack(Top) /\ Top \in Frames
      BY <1>1, EmitDrives
<1>3. /\ F \subseteq Listeners
      /\ \A c \in F : \/ c.card = "Acolyte" /\ Top.step = "After" /\ Top.event.kind = "EnemyAttacks" /\ Top.event.enemy \in Acolytes
                      \/ c.card = "Weakness"
      /\ Top.step \in {"When", "After"}
  <2>1. BoardTyped
        BY DEF IndInv
  <2>2. /\ F \subseteq Listeners
        /\ \A c \in F : \/ c.card = "Acolyte" /\ Top.step = "After" /\ Top.event.kind = "EnemyAttacks" /\ Top.event.enemy \in Acolytes
                        \/ c.card = "Weakness" /\ Top.step = "When" /\ Top.event.kind = "EliminationGameEnd"
        /\ \A c \in Reactions(Top.event, Top.step) : Top.step = "When" \/ Top.step = "After"
        BY <1>2, <2>1, Listening
  <2>3. F # {} \/ Reactions(Top.event, Top.step) # {}
        BY <1>1 DEF Listened
  <2> QED BY <2>2, <2>3
<1> HIDE DEF F
<1>4. /\ g \in TimingPoints /\ g \in AllFrames /\ g.kind = "TimingPoint" /\ g.event = Top.event /\ g.bucket = Top.step
      /\ g.forced = F /\ g.sub = "Forced"
      BY <1>2, <1>3 DEF TimingPoint, TimingPoints, AllFrames, CellFrames
<1> HIDE DEF g
<1>5. stack' = Over(g, stack) /\ stack' = Over(g, Over(Top, Beneath))
      BY <1>1, <1>2 DEF Over
<1>6. /\ Len(stack) >= 1 /\ stack[1] = Top
      BY <1>2, GoodPop DEF Top
<1>7. g.event.kind # "EnemyAttacks" => Quiet(stack)
  <2> SUFFICES ASSUME g.event.kind # "EnemyAttacks" PROVE Quiet(stack)
      OBVIOUS
  <2>1. Quiet(Beneath) /\ ~IsEmit(Top, "EnemyAttacks")
        BY <1>2, <1>4 DEF StandsEmit, IsEmit
  <2> QED BY <1>2, <2>1, OverQuiet
<1>8. StandsCell(g, stack)
      BY <1>2, <1>3, <1>4, <1>6, <1>7 DEF StandsCell
<1>9. \A k \in 1..Len(stack) : ~AsksOrActs(stack[k])
  <2>1. ~AsksOrActs(Top)
        BY <1>2 DEF AsksOrActs
  <2> QED BY <1>2, <2>1, OverRests DEF Resting
<1>10. Good(stack')
      BY <1>2, <1>4, <1>5, <1>8, <1>9, GoodPoint
<1>11. FitsPhase(g) /\ FitsAttack(g)
      BY <1>2, <1>4 DEF FitsPhase, FitsAttack, FitsBlow, IsEmit
<1>12. \A e \in Enemies : OwedBy(g, e) \/ OwedBy(Top, e) => Owed(e)
  <2>1. \A e : OwedBy(Top, e) => Owed(e)
        BY <1>2 DEF Owed
  <2>2. \A e : OwedBy(g, e) => Ending(Top) /\ Top.event.enemy = e
        BY <1>2, <1>4 DEF OwedBy, Ending, IsEmit
  <2> QED BY <1>2, <2>1, <2>2 DEF Owed
<1>13. ~Ending(g) /\ g.kind # "Effect"
      BY <1>4 DEF Ending, IsEmit
<1>14. /\ Top.kind \notin {"EngagementTie", "AttackLoop", "Elimination"} /\ running' = TRUE
      BY <1>1, <1>2
<1> QED BY <1>1, <1>2, <1>4, <1>5, <1>10, <1>11, <1>12, <1>13, <1>14, ToppedTwo

\* A coordinator moves on, and something may be put on top of it.
LEMMA Resolved ==
    ASSUME IndInv, Drives("EmitEvent"), Top.step = "ResolveCondition", ~Top.prevented
    PROVE  /\ AdvanceOrFinish(stack) = Over(Advance(Top), Beneath) /\ Good(AdvanceOrFinish(stack))
           /\ AdvanceOrFinish(stack) \in Seq(AllFrames)
           /\ Advance(Top) \in AllFrames /\ Advance(Top).kind = "EmitEvent" /\ Advance(Top).event = Top.event
           /\ Advance(Top).step = "At" /\ ~Advance(Top).prevented
           /\ Resting(Over(Advance(Top), Beneath)) /\ Quiet(Over(Advance(Top), Beneath))
           /\ Top.event.kind # "EnemyDefeated" => Boundless(Over(Advance(Top), Beneath))
           /\ FitsPhase(Advance(Top)) /\ FitsAttack(Advance(Top))
           /\ \A e \in Enemies : Tells(Top, e) => Tells(Advance(Top), e)
           /\ \A e \in Enemies : OwedBy(Advance(Top), e) => Owed(e)
           /\ ~Ending(Advance(Top))
<1> DEFINE g == Advance(Top)
<1>1. /\ stack # <<>> /\ Top.kind = "EmitEvent" /\ Good(stack) /\ stack = Over(Top, Beneath)
      /\ Top \in EmitEvents /\ Top \in AllFrames /\ Beneath \in Seq(AllFrames) /\ Resting(Beneath)
      /\ StandsEmit(Top, Beneath) /\ FitsAttack(Top) /\ Top \in Frames
      BY EmitDrives
<1>2. /\ g \in AllFrames /\ g.kind = "EmitEvent" /\ g.event = Top.event /\ g.step = "At" /\ g.prevented = Top.prevented
      BY <1>1, AdvanceIs
<1>3. Head(stack) = Top /\ Tail(stack) = Beneath
      BY DEF Top, Beneath
<1>4. AdvanceOrFinish(stack) = Over(g, Beneath) /\ Good(AdvanceOrFinish(stack))
      BY <1>1, <1>3, Advanced
<1> HIDE DEF g
<1>5. ~AsksOrActs(g) /\ ~Ending(g)
      BY <1>2 DEF AsksOrActs, Ending, IsEmit
<1>6. Resting(Over(g, Beneath))
      BY <1>1, <1>2, <1>5, OverRests DEF Resting
<1>7. Quiet(Over(g, Beneath))
  <2>1. Quiet(Beneath) /\ (IsEmit(g, "EnemyAttacks") => g.step \notin {"When", "ResolveCondition"}) /\ g.kind # "PlayFromHand"
        BY <1>1, <1>2 DEF StandsEmit
  <2> QED BY <1>1, <1>2, <2>1, OverQuiet
<1>8. Top.event.kind # "EnemyDefeated" => Boundless(Over(g, Beneath))
  <2> SUFFICES ASSUME Top.event.kind # "EnemyDefeated" PROVE Boundless(Over(g, Beneath))
      OBVIOUS
  <2>1. Boundless(Beneath) /\ g.kind # "EffectBase"
        BY <1>1, <1>2 DEF StandsEmit
  <2> QED BY <1>1, <1>2, <2>1, OverBoundless
<1>9. FitsPhase(g) /\ FitsAttack(g)
      BY <1>1, <1>2 DEF FitsPhase, FitsAttack, FitsBlow, IsEmit
<1>10. \A e \in Enemies : Tells(Top, e) => Tells(g, e)
      BY <1>1, <1>2 DEF Tells, IsEmit
<1>11. \A e \in Enemies : OwedBy(g, e) => Owed(e)
  <2>1. \A e : OwedBy(g, e) => OwedBy(Top, e)
        BY <1>1, <1>2 DEF OwedBy, IsEmit
  <2> QED BY <1>1, <2>1 DEF Owed
<1>12. AdvanceOrFinish(stack) \in Seq(AllFrames)
      BY <1>4 DEF Good
<1> QED BY <1>2, <1>4, <1>5, <1>6, <1>7, <1>8, <1>9, <1>10, <1>11, <1>12 DEF g

LEMMA StepResolveBare == ASSUME IndInv, ResolveBare PROVE IndInv'
<1>1. /\ Drives("EmitEvent") /\ Top.step = "ResolveCondition" /\ Top.event.kind \in {"EnemyDefeated", "EliminationGameEnd"}
      /\ stack' = AdvanceOrFinish(stack) /\ Same /\ announced' = announced /\ running' = running
      BY SameStack DEF ResolveBare, AtResolution
<1>2. stack # <<>> /\ running = TRUE /\ Top.kind = "EmitEvent" /\ StandsEmit(Top, Beneath)
      BY <1>1, EmitDrives
<1>3. ~Top.prevented
      BY <1>1, <1>2 DEF StandsEmit
<1> DEFINE g == Advance(Top)
<1>4. /\ stack' = Over(g, Beneath) /\ Good(stack') /\ g \in AllFrames /\ g.kind = "EmitEvent"
      /\ FitsPhase(g) /\ FitsAttack(g) /\ (\A e \in Enemies : Tells(Top, e) => Tells(g, e))
      /\ (\A e \in Enemies : OwedBy(g, e) => Owed(e)) /\ ~Ending(g)
      BY <1>1, <1>3, Resolved
<1> HIDE DEF g
<1> QED BY <1>1, <1>2, <1>4, ToppedOne

LEMMA StepResolveEnemyAttack == ASSUME IndInv, ResolveEnemyAttack PROVE IndInv'
<1> DEFINE e == Top.event.enemy
           d == DealDamage(e, Top.event.who, attack[e], Unassigned, "Distribute")
           g == Advance(Top)
           r == AdvanceOrFinish(stack)
<1>1. /\ Drives("EmitEvent") /\ Top.step = "ResolveCondition" /\ Top.event.kind = "EnemyAttacks" /\ ~Top.prevented
      /\ stack' = (IF attack[e] = Nothing THEN <<>> ELSE <<d>>) \o r
      /\ Same /\ announced' = announced /\ running' = running
      BY SameStack DEF ResolveEnemyAttack, AtResolution
<1>2. /\ stack # <<>> /\ running = TRUE /\ Top.kind = "EmitEvent" /\ Top.event \in Events /\ Beneath \in Seq(AllFrames)
      /\ StandsEmit(Top, Beneath) /\ FitsAttack(Top)
      BY <1>1, EmitDrives
<1>3. /\ r = Over(g, Beneath) /\ Good(r) /\ r \in Seq(AllFrames) /\ g \in AllFrames /\ g.kind = "EmitEvent"
      /\ Resting(r) /\ Quiet(r) /\ Boundless(r)
      /\ FitsPhase(g) /\ FitsAttack(g) /\ (\A x \in Enemies : Tells(Top, x) => Tells(g, x))
      /\ (\A x \in Enemies : OwedBy(g, x) => Owed(x)) /\ ~Ending(g)
      BY <1>1, Resolved
<1>4. e \in Enemies /\ Top.event.who \in Investigators
      BY <1>1, <1>2, EventIs
<1> HIDE DEF g, r, e
<1>5. CASE attack[e] = Nothing
  <2>1. stack' = r
        BY <1>1, <1>3, <1>5, OverTwo
  <2> QED BY <1>1, <1>2, <1>3, <2>1, ToppedOne
<1>6. CASE attack[e] # Nothing
  <2>1. attack[e] \in Points
        BY <1>4, EnemyAssumption
  <2>2. /\ d \in DealsOfDamage /\ d.kind = "DealDamage" /\ d.enemy = e /\ d.remaining = attack[e] /\ d.share = Unassigned
        BY <1>4, <2>1, PointsLeft DEF DealDamage, DealsOfDamage, Unassigned, Shares
  <2>3. d \in AllFrames
        BY <2>2 DEF AllFrames
  <2> HIDE DEF d
  <2>4. stack' = Over(d, r)
        BY <1>1, <1>3, <1>6 DEF Over
  <2>5. \A k \in {Damage, Horror} : /\ d.share.self[k] = 0 /\ d.share.asset[k] = 0 /\ d.remaining[k] = attack[e][k]
                                    /\ attack[e][k] \in Nat
        BY <2>1, <2>2 DEF Unassigned, Nothing, Points
  <2>6. StandsHarm(d, r)
        BY <1>3, <2>2, <2>5 DEF StandsHarm
  <2>7. Good(stack')
        BY <1>3, <2>2, <2>3, <2>4, <2>6, GoodHarm
  <2>8. struck[e] > 0 /\ e \notin cancelled
        BY <1>1, <1>2 DEF FitsAttack, FitsBlow, IsEmit, e
  <2>9. FitsPhase(d) /\ FitsAttack(d)
        BY <2>2, <2>5, <2>8 DEF FitsPhase, FitsAttack, FitsBlow, IsEmit
  <2>10. (\A x \in Enemies : ~OwedBy(d, x)) /\ ~Ending(d)
        BY <2>2 DEF OwedBy, Ending, IsEmit
  <2>11. Top.kind \notin {"EngagementTie", "AttackLoop", "Elimination"} /\ running' = TRUE /\ d.kind # "Effect"
        BY <1>1, <1>2, <2>2
  <2>12. stack' = Over(d, Over(g, Beneath))
        BY <1>3, <2>4
  <2> QED BY <1>1, <1>2, <1>3, <2>3, <2>7, <2>9, <2>10, <2>11, <2>12, ToppedTwo
<1> QED BY <1>5, <1>6

\* The condition's deal is the nearest one, right beneath its coordinator.
LEMMA StepResolveDamageDealt == ASSUME IndInv, ResolveDamageDealt PROVE IndInv'
<1> DEFINE K == {k \in DOMAIN stack : stack[k].kind = "DealDamage"}
           deal == stack[Min(K)]
           ev == [Top.event EXCEPT !.kind = "DamagePlaced", !.share = deal.share]
           f == EmitEvent(ev)
           g == Advance(Top)
           r == AdvanceOrFinish(stack)
<1>1. /\ Drives("EmitEvent") /\ Top.step = "ResolveCondition" /\ Top.event.kind = "DamageDealt"
      /\ stack' = <<f>> \o r /\ Same /\ announced' = announced /\ running' = running
      BY SameStack DEF ResolveDamageDealt, AtResolution
<1>2. /\ stack # <<>> /\ running = TRUE /\ Top.kind = "EmitEvent" /\ Top.event \in Events /\ Beneath \in Seq(AllFrames)
      /\ StandsEmit(Top, Beneath) /\ FitsAttack(Top) /\ Good(stack) /\ Good(Beneath) /\ stack \in Seq(AllFrames)
      BY <1>1, EmitDrives DEF Good
<1>3. ~Top.prevented
      BY <1>1, <1>2 DEF StandsEmit
<1>4. /\ r = Over(g, Beneath) /\ Good(r) /\ r \in Seq(AllFrames) /\ g \in AllFrames /\ g.kind = "EmitEvent"
      /\ Resting(r) /\ Quiet(r) /\ Boundless(r)
      /\ FitsPhase(g) /\ FitsAttack(g) /\ (\A x \in Enemies : Tells(Top, x) => Tells(g, x))
      /\ (\A x \in Enemies : OwedBy(g, x) => Owed(x)) /\ ~Ending(g)
      BY <1>1, <1>3, Resolved
<1> HIDE DEF g, r
<1>5. deal \in DealsOfDamage
  <2>1. Len(Beneath) >= 1 /\ Beneath[1].kind = "DealDamage" /\ Beneath[1] \in AllFrames
    <3>1. Len(Beneath) >= 1 /\ Beneath[1].kind = "DealDamage"
          BY <1>1, <1>2 DEF StandsEmit
    <3>2. 1 \in 1..Len(Beneath)
          BY <1>2, <3>1, LenProperties
    <3> QED BY <1>2, <3>1, <3>2, ElementOfSeq
  <2>2. /\ stack[1] = Top /\ stack[2] = Beneath[1] /\ 2 \in DOMAIN stack /\ DOMAIN stack \subseteq Nat \ {0}
    <3>1. /\ Len(stack) = Len(Beneath) + 1 /\ Len(Beneath) \in Nat /\ stack[1] = Top
          /\ \A k \in 1..Len(Beneath) : stack[k + 1] = Beneath[k]
          BY <1>2, GoodPop DEF Top, Beneath
    <3>2. DOMAIN stack = 1..Len(stack) /\ 1 \in 1..Len(Beneath)
          BY <1>2, <2>1, <3>1, LenProperties
    <3> QED BY <3>1, <3>2
  <2>3. 2 \in K /\ \A k \in K : k \in Nat /\ 2 <= k
        BY <1>2, <2>1, <2>2
  <2>4. Min(K) = 2
    <3> HIDE DEF K
    <3>1. \A x \in K : (\A y \in K : x =< y) => x = 2
          BY <2>3
    <3> QED BY <2>3, <3>1 DEF Min
  <2> HIDE DEF K
  <2> QED BY <2>1, <2>2, <2>4, KindIs
<1> HIDE DEF deal
<1>6. ev \in Events /\ ev.kind = "DamagePlaced" /\ ev.enemy = Top.event.enemy
  <2>1. Top.event \in HarmEvents
        BY <1>1, <1>2, EventIs
  <2>2. deal.share \in Shares
        BY <1>5 DEF DealsOfDamage
  <2> QED BY <2>1, <2>2 DEF HarmEvents, Events
<1> HIDE DEF ev
<1>7. /\ f \in EmitEvents /\ f \in AllFrames /\ f.kind = "EmitEvent" /\ f.event.kind = "DamagePlaced"
      /\ f.event.enemy = Top.event.enemy /\ f.step = "When" /\ f.prevented = FALSE
      BY <1>6, EmitIs
<1> HIDE DEF f
<1>8. stack' = Over(f, r)
      BY <1>1, <1>4, <1>7 DEF Over
<1>9. StandsEmit(f, r)
      BY <1>4, <1>7 DEF StandsEmit
<1>10. Good(stack')
      BY <1>4, <1>7, <1>8, <1>9, GoodEmit
<1>11. FitsPhase(f) /\ FitsAttack(f)
      BY <1>1, <1>2, <1>7 DEF FitsPhase, FitsAttack, FitsBlow, IsEmit
<1>12. (\A x \in Enemies : ~OwedBy(f, x)) /\ ~Ending(f)
      BY <1>7 DEF OwedBy, Ending, IsEmit
<1>13. Top.kind \notin {"EngagementTie", "AttackLoop", "Elimination"} /\ running' = TRUE /\ f.kind # "Effect"
      BY <1>1, <1>2, <1>7
<1>14. stack' = Over(f, Over(g, Beneath))
      BY <1>4, <1>8
<1> QED BY <1>1, <1>2, <1>4, <1>7, <1>10, <1>11, <1>12, <1>13, <1>14, ToppedTwo

LEMMA PointDrives ==
    ASSUME IndInv, Drives("TimingPoint")
    PROVE  /\ stack # <<>> /\ running = TRUE /\ Top.kind = "TimingPoint" /\ Good(stack) /\ Top \in TimingPoints
           /\ Good(Beneath) /\ Beneath \in Seq(AllFrames) /\ StandsCell(Top, Beneath) /\ FitsAttack(Top)
           /\ Top.event \in Events /\ Top \in Frames /\ \A k \in 1..Len(Beneath) : ~AsksOrActs(Beneath[k])
<1>1. /\ stack # <<>> /\ running = TRUE /\ Top.kind = "TimingPoint" /\ Good(stack)
      /\ Top \in AllFrames /\ Good(Beneath) /\ Beneath \in Seq(AllFrames) /\ Stands(Top, Beneath)
      /\ FitsAttack(Top) /\ Frames = {Top} \cup Elems(Beneath)
      BY Driving
<1>2. Top \in TimingPoints
      BY <1>1, KindIs
<1>3. Top.event \in Events
      BY <1>2 DEF TimingPoints
<1>4. StandsCell(Top, Beneath) /\ \A k \in 1..Len(Beneath) : ~AsksOrActs(Beneath[k])
      BY <1>1 DEF Stands
<1> QED BY <1>1, <1>2, <1>3, <1>4

\* The point on top at another of its steps.
LEMMA PointGoesOn ==
    ASSUME IndInv, Drives("TimingPoint"), NEW sub \in {"Reaction", "Done"}
    PROVE  LET g == [Top EXCEPT !.sub = sub] IN
           /\ SetSub(stack, sub) = Over(g, Beneath) /\ Good(Over(g, Beneath)) /\ g \in AllFrames /\ g.kind = "TimingPoint"
           /\ g.event = Top.event /\ g.bucket = Top.bucket /\ FitsPhase(g) /\ FitsAttack(g)
           /\ \A e : ~OwedBy(g, e)
           /\ Resting(Over(g, Beneath)) /\ (Top.event.kind # "EnemyAttacks" => Quiet(Over(g, Beneath)))
           /\ Over(g, Beneath) \in Seq(AllFrames) /\ Len(Over(g, Beneath)) >= 1 /\ Over(g, Beneath)[1] = g
<1> DEFINE g == [Top EXCEPT !.sub = sub]
<1>1. /\ stack # <<>> /\ Top.kind = "TimingPoint" /\ Good(stack) /\ Top \in TimingPoints
      /\ Good(Beneath) /\ Beneath \in Seq(AllFrames) /\ StandsCell(Top, Beneath) /\ FitsAttack(Top)
      /\ \A k \in 1..Len(Beneath) : ~AsksOrActs(Beneath[k])
      BY PointDrives
<1>2. /\ g \in TimingPoints /\ g.kind = "TimingPoint" /\ g.event = Top.event /\ g.bucket = Top.bucket /\ g.forced = Top.forced
      /\ g.sub = sub
      BY <1>1 DEF TimingPoints
<1>3. g \in AllFrames
      BY <1>2 DEF AllFrames, CellFrames
<1>4. SetSub(stack, sub) = Over(g, Beneath)
      BY DEF SetSub, Under, Top, Beneath, Over
<1> HIDE DEF g
<1>5. StandsCell(g, Beneath)
      BY <1>1, <1>2 DEF StandsCell
<1>6. Good(Over(g, Beneath))
      BY <1>1, <1>2, <1>5, GoodPoint
<1>7. FitsPhase(g) /\ FitsAttack(g)
      BY <1>1, <1>2 DEF FitsPhase, FitsAttack, FitsBlow, IsEmit
<1>8. \A e : ~OwedBy(g, e)
      BY <1>2 DEF OwedBy, IsEmit
<1>9. ~AsksOrActs(g) /\ ~Ending(g)
      BY <1>2 DEF AsksOrActs, Ending, IsEmit
<1>10. Resting(Over(g, Beneath))
      BY <1>1, <1>3, <1>9, OverRests
<1>11. Top.event.kind # "EnemyAttacks" => Quiet(Over(g, Beneath))
  <2> SUFFICES ASSUME Top.event.kind # "EnemyAttacks" PROVE Quiet(Over(g, Beneath))
      OBVIOUS
  <2>1. Quiet(Beneath) /\ ~IsEmit(g, "EnemyAttacks") /\ g.kind # "PlayFromHand"
        BY <1>1, <1>2 DEF StandsCell, IsEmit
  <2> QED BY <1>1, <1>3, <2>1, OverQuiet
<1>12. Over(g, Beneath) \in Seq(AllFrames) /\ Len(Over(g, Beneath)) >= 1 /\ Over(g, Beneath)[1] = g
      BY <1>1, <1>3, OverSeq, LenProperties
<1> QED BY <1>2, <1>3, <1>4, <1>6, <1>7, <1>8, <1>10, <1>11, <1>12 DEF g

LEMMA BaseIs ==
    /\ EffectBase \in EffectFrames /\ EffectBase \in AllFrames /\ EffectBase.kind = "EffectBase"
    /\ Len(EffectBase.parked) = 0 /\ EffectBase.parked = <<>> /\ EffectBase.parked \in Seq(EmitEvents)
<1>1. EffectBase \in EffectBases /\ EffectBase.kind = "EffectBase" /\ EffectBase.parked = <<>>
      BY EmptySeq DEF EffectBase, EffectBases
<1>2. Len(EffectBase.parked) = 0 /\ EffectBase.parked \in Seq(EmitEvents)
      BY <1>1, EmptySeq
<1> QED BY <1>1, <1>2 DEF EffectFrames, AllFrames

\* A base just put on a stack.
LEMMA BaseOn ==
    ASSUME NEW r, Good(r), Resting(r)
    PROVE  /\ Good(Over(EffectBase, r)) /\ Resting(Over(EffectBase, r)) /\ Over(EffectBase, r) \in Seq(AllFrames)
           /\ Quiet(r) => Quiet(Over(EffectBase, r))
           /\ Len(Over(EffectBase, r)) = Len(r) + 1 /\ Over(EffectBase, r)[1] = EffectBase
           /\ \A k \in 1..Len(r) : Over(EffectBase, r)[k + 1] = r[k]
<1>1. r \in Seq(AllFrames)
      BY DEF Good
<1>2. \A k \in 1..0 : FALSE
      OBVIOUS
<1>3. StandsEffect(EffectBase, r)
      BY <1>2, BaseIs DEF StandsEffect
<1>4. Good(Over(EffectBase, r))
      BY <1>3, BaseIs, GoodEffect
<1>5. ~AsksOrActs(EffectBase) /\ ~Ending(EffectBase) /\ ~IsEmit(EffectBase, "EnemyAttacks")
      BY BaseIs DEF AsksOrActs, Ending, IsEmit
<1>6. Resting(Over(EffectBase, r))
      BY <1>1, <1>5, BaseIs, OverRests DEF Resting
<1>7. Quiet(r) => Quiet(Over(EffectBase, r))
      BY <1>1, <1>5, BaseIs, OverQuiet
<1>8. /\ Over(EffectBase, r) \in Seq(AllFrames) /\ Len(Over(EffectBase, r)) = Len(r) + 1
      /\ Over(EffectBase, r)[1] = EffectBase /\ \A k \in 1..Len(r) : Over(EffectBase, r)[k + 1] = r[k]
  <2>1. EffectBase \in AllFrames
        BY BaseIs
  <2>2. Over(EffectBase, r) \in Seq(AllFrames) /\ Len(Over(EffectBase, r)) = Len(r) + 1
        BY <1>1, <2>1, OverSeq
  <2>3. Over(EffectBase, r)[1] = EffectBase
        BY <1>1, <2>1, OverSeq
  <2>4. \A k \in 1..Len(r) : Over(EffectBase, r)[k + 1] = r[k]
        BY <1>1, <2>1, OverSeq
  <2> QED BY <2>2, <2>3, <2>4
<1> QED BY <1>4, <1>6, <1>7, <1>8

LEMMA StepQueueForced == ASSUME IndInv, QueueForced PROVE IndInv'
<1> DEFINE g == [Top EXCEPT !.sub = "Reaction"]
<1>1. /\ Drives("TimingPoint") /\ Top.sub = "Forced" /\ Same /\ announced' = announced /\ running' = running
      /\ \/ stack' = SetSub(stack, "Reaction")
         \/ \E c \in Top.forced : stack' = PushEffect(c, Top.event) \o SetSub(stack, "Reaction")
      BY SameStack DEF QueueForced, AtSub
<1>2. /\ stack # <<>> /\ running = TRUE /\ Top.kind = "TimingPoint" /\ Good(stack) /\ Top \in TimingPoints
      /\ Good(Beneath) /\ Beneath \in Seq(AllFrames) /\ StandsCell(Top, Beneath) /\ FitsAttack(Top)
      /\ Top.event \in Events /\ Top \in Frames
      BY <1>1, PointDrives
<1>3. /\ SetSub(stack, "Reaction") = Over(g, Beneath) /\ Good(Over(g, Beneath)) /\ g \in AllFrames /\ g.kind = "TimingPoint"
      /\ FitsPhase(g) /\ FitsAttack(g) /\ (\A e : ~OwedBy(g, e)) /\ Resting(Over(g, Beneath))
      /\ Over(g, Beneath) \in Seq(AllFrames)
      BY <1>1, PointGoesOn, "Reaction" \in {"Reaction", "Done"}
<1> HIDE DEF g
<1>4. (\A e : ~Tells(Top, e)) /\ ~Ending(g) /\ running' = TRUE
      BY <1>1, <1>2, <1>3 DEF Tells, Ending, IsEmit
<1>5. CASE stack' = SetSub(stack, "Reaction")
  <2>1. stack' = Over(g, Beneath)
        BY <1>3, <1>5
  <2> QED BY <1>1, <1>2, <1>3, <1>4, <2>1, ToppedOne
<1>6. ASSUME NEW c \in Top.forced, stack' = PushEffect(c, Top.event) \o SetSub(stack, "Reaction") PROVE IndInv'
  <2> DEFINE f == Effect(c, Top.event)
             r == Over(g, Beneath)
             b == Over(EffectBase, r)
  <2>1. /\ c \in Listeners
        /\ \/ /\ c.card = "Acolyte" /\ Top.bucket = "After" /\ Top.event.kind = "EnemyAttacks" /\ Top.event.enemy \in Acolytes
           \/ c.card = "Weakness"
    <3>1. c \in Listeners
          BY <1>2 DEF TimingPoints
    <3> QED BY <1>2, <3>1 DEF StandsCell
  <2>2. /\ f \in Effects /\ f.kind = "Effect" /\ f.does = c.card /\ f.enemy = Top.event.enemy
    <3>1. Top.event.enemy \in Enemies \cup {None}
          BY <1>2, EventIs
    <3> QED BY <2>1, <3>1 DEF Effect, Effects, Listeners
  <2>3. f \in EffectFrames /\ f \in AllFrames
        BY <2>2 DEF EffectFrames, AllFrames
  <2>4. stack' = <<f, EffectBase>> \o r
        BY <1>3, <1>6 DEF PushEffect
  <2> HIDE DEF f
  <2>5. /\ Good(b) /\ Resting(b) /\ b \in Seq(AllFrames) /\ Len(b) = Len(r) + 1 /\ \A k \in 1..Len(r) : b[k + 1] = r[k]
    <3> HIDE DEF r
    <3> QED BY <1>3, BaseOn DEF r
  <2>6. stack' = Over(f, b)
    <3> HIDE DEF r
    <3>1. \A x, y \in AllFrames : <<x, y>> \o r = Over(x, Over(y, r))
          BY <1>3, OverTwo DEF r
    <3> QED BY <2>3, <2>4, <3>1, BaseIs
  <2>7. c.card = "Acolyte" => \E k \in 1..Len(b) : Ending(b[k]) /\ b[k].event.enemy = f.enemy
    <3> SUFFICES ASSUME c.card = "Acolyte" PROVE Ending(b[3]) /\ b[3].event.enemy = f.enemy /\ 3 \in 1..Len(b)
        OBVIOUS
    <3>1. Top.bucket = "After" /\ Top.event.kind = "EnemyAttacks"
          BY <2>1
    <3>2. Len(Beneath) >= 1 /\ Beneath[1].kind = "EmitEvent" /\ Beneath[1].event = Top.event /\ Beneath[1].step = "After"
          BY <1>2, <3>1 DEF StandsCell
    <3>3. Len(r) = Len(Beneath) + 1 /\ Len(Beneath) \in Nat /\ \A k \in 1..Len(Beneath) : r[k + 1] = Beneath[k]
          BY <1>2, <1>3, OverSeq, LenProperties
    <3> HIDE DEF r, b
    <3>4. 1 \in 1..Len(Beneath) /\ 2 \in 1..Len(r) /\ 3 \in 1..Len(b)
          BY <2>5, <3>2, <3>3
    <3>5. r[1 + 1] = Beneath[1] /\ b[2 + 1] = r[2]
          BY <2>5, <3>3, <3>4
    <3>6. b[3] = Beneath[1]
          BY <3>5
    <3> QED BY <2>2, <3>1, <3>2, <3>4, <3>6 DEF Ending, IsEmit
  <2> HIDE DEF b
  <2>8. StandsEffect(f, b)
        BY <2>1, <2>2, <2>7 DEF StandsEffect
  <2>9. Good(stack')
        BY <2>3, <2>5, <2>6, <2>8, GoodEffect
  <2> DEFINE B == {f, EffectBase, g}
  <2>10. Frames' = B \cup Elems(Beneath) /\ stack' # <<>> /\ Head(stack') = f
    <3>1. stack' = Over(f, Over(EffectBase, Over(g, Beneath)))
          BY <2>6 DEF b
    <3> QED BY <1>2, <1>3, <2>3, <3>1, BaseIs, FramesAre
  <2>11. \A x \in B : x = f \/ x = EffectBase \/ x = g
        OBVIOUS
  <2>12. f \in B
        OBVIOUS
  <2> HIDE DEF B
  <2>13. FitsPhase(f) /\ FitsAttack(f) /\ FitsPhase(EffectBase) /\ FitsAttack(EffectBase)
        BY <2>1, <2>2, BaseIs DEF FitsPhase, FitsAttack, FitsBlow, IsEmit
  <2>14. \A x \in B : x = Top \/ (FitsPhase(x) /\ FitsAttack(x))
        BY <1>3, <2>11, <2>13
  <2>15. \A e \in Enemies : \A x \in B : OwedBy(x, e) => Owed(e)
    <3>1. \A e : ~OwedBy(EffectBase, e)
          BY BaseIs DEF OwedBy, IsEmit
    <3>2. \A e : OwedBy(f, e) => OwedBy(Top, e)
          BY <1>1, <1>2, <2>1, <2>2 DEF OwedBy, IsEmit
    <3>3. \A e : OwedBy(f, e) => Owed(e)
          BY <1>2, <3>2 DEF Owed
    <3> QED BY <1>3, <2>11, <3>1, <3>3
  <2>16. ~Ending(Head(stack')) /\ ~Striking(stack')
        BY <2>1, <2>2, <2>10 DEF Ending, IsEmit, Striking
  <2>17. Head(stack') \in B /\ running' # FALSE
        BY <1>4, <2>10, <2>12
  <2> QED BY <1>1, <1>2, <1>4, <2>9, <2>10, <2>14, <2>15, <2>16, <2>17, Topped
<1> QED BY <1>1, <1>5, <1>6

LEMMA StepOpenReactionRun == ASSUME IndInv, OpenReactionRun PROVE IndInv'
<1> DEFINE g == [Top EXCEPT !.sub = "Done"]
           w == Window(Top.event, Top.bucket, Offered)
<1>1. /\ Drives("TimingPoint") /\ Same /\ announced' = announced /\ running' = running
      /\ stack' = <<w>> \o SetSub(stack, "Done")
      BY SameStack DEF OpenReactionRun, AtSub
<1>2. /\ stack # <<>> /\ running = TRUE /\ Top.kind = "TimingPoint" /\ Top \in TimingPoints
      /\ Beneath \in Seq(AllFrames) /\ FitsAttack(Top) /\ Top.event \in Events
      BY <1>1, PointDrives
<1>3. /\ SetSub(stack, "Done") = Over(g, Beneath) /\ Good(Over(g, Beneath)) /\ g \in AllFrames /\ g.kind = "TimingPoint"
      /\ g.event = Top.event /\ g.bucket = Top.bucket
      /\ FitsPhase(g) /\ FitsAttack(g) /\ (\A e : ~OwedBy(g, e)) /\ Resting(Over(g, Beneath))
      /\ Over(g, Beneath) \in Seq(AllFrames) /\ Len(Over(g, Beneath)) >= 1 /\ Over(g, Beneath)[1] = g
      /\ (Top.event.kind # "EnemyAttacks" => Quiet(Over(g, Beneath)))
      BY <1>1, PointGoesOn, "Done" \in {"Reaction", "Done"}
<1> HIDE DEF g
<1>4. /\ w \in Windows /\ w.kind = "TimingPointWindow" /\ w.event = Top.event /\ w.bucket = Top.bucket
  <2>1. Offered \subseteq Listeners
        BY <1>2, Listening DEF IndInv, Offered
  <2> QED BY <1>2, <2>1 DEF Window, Windows, TimingPoints
<1>5. w \in AllFrames
      BY <1>4 DEF AllFrames, CellFrames
<1> HIDE DEF w
<1>6. stack' = Over(w, Over(g, Beneath))
      BY <1>1, <1>3 DEF Over
<1>7. StandsCell(w, Over(g, Beneath))
      BY <1>3, <1>4 DEF StandsCell
<1>8. Good(stack')
      BY <1>3, <1>4, <1>6, <1>7, GoodWindow
<1>9. FitsPhase(w) /\ FitsAttack(w)
      BY <1>2, <1>4 DEF FitsPhase, FitsAttack, FitsBlow, IsEmit
<1>10. (\A e : ~OwedBy(w, e) /\ ~Tells(Top, e)) /\ ~Ending(w) /\ w.kind # "Effect" /\ running' = TRUE
      BY <1>1, <1>2, <1>4 DEF OwedBy, Tells, Ending, IsEmit
<1> QED BY <1>1, <1>2, <1>3, <1>5, <1>6, <1>8, <1>9, <1>10, ToppedTwo

------------------------------------------------------------------------------
(* The windows, and the bases. *)

LEMMA WindowChanged ==
    ASSUME IndInv, Same, announced' = announced, running' \in BOOLEAN, stack # <<>>, Top.kind = "TimingPointWindow",
           NEW w \in Windows, w.event = Top.event, w.bucket = Top.bucket, stack' = Over(w, Beneath)
    PROVE  IndInv'
<1>1. /\ Good(Beneath) /\ Stands(Top, Beneath) /\ Resting(Beneath) /\ Frames = {Top} \cup Elems(Beneath)
      BY TopIs DEF IndInv
<1>2. w \in AllFrames /\ w.kind = "TimingPointWindow"
      BY DEF AllFrames, CellFrames, Windows
<1>3. StandsCell(w, Beneath)
      BY <1>1, <1>2 DEF Stands, StandsCell
<1>4. Good(stack')
      BY <1>1, <1>3, GoodWindow
<1>5. FitsPhase(w) /\ FitsAttack(w)
  <2>1. FitsAttack(Top)
        BY <1>1 DEF IndInv, Fits
  <2> QED BY <1>2, <2>1 DEF FitsPhase, FitsAttack, FitsBlow, IsEmit
<1>6. (\A e : ~OwedBy(w, e) /\ ~Tells(Top, e)) /\ ~Ending(w) /\ w.kind # "Effect" /\ Asked(w)
      BY <1>2 DEF OwedBy, Tells, Ending, IsEmit, Asked
<1> QED BY <1>2, <1>4, <1>5, <1>6, ToppedOne

LEMMA StepAdvanceResolution == ASSUME IndInv, AdvanceResolution PROVE IndInv'
<1> DEFINE s == Withdrawn(stack, Offered)
           kept == IF Top.bucket = "When" /\ ConditionIsPrevented(stack) THEN {} ELSE Top.candidates \cap Offered
           w == [Top EXCEPT !.candidates = kept]
<1>1. /\ Drives("TimingPointWindow") /\ Same /\ announced' = announced
      /\ \/ stack' = <<>> \o Beneath /\ running' = running
         \/ stack' = s /\ running' = FALSE
      BY DEF AdvanceResolution, Replace, Same, histories
<1>2. /\ stack # <<>> /\ running = TRUE /\ Top.kind = "TimingPointWindow" /\ Top \in Windows /\ Beneath \in Seq(AllFrames)
      BY <1>1, Driving, KindIs
<1>3. s = <<w>> \o Beneath
      BY DEF Withdrawn, Under, Top, Beneath
<1>4. kept \subseteq Top.candidates
      OBVIOUS
<1> HIDE DEF s, kept
<1>5. w \in Windows /\ w.event = Top.event /\ w.bucket = Top.bucket
      BY <1>2, <1>4 DEF Windows
<1> HIDE DEF w
<1>6. CASE stack' = <<>> \o Beneath /\ running' = running
  <2>1. stack' = Beneath /\ \A e \in Enemies : ~Tells(Top, e)
        BY <1>2, <1>6, OverTwo DEF Tells, IsEmit
  <2> QED BY <1>1, <1>2, <1>6, <2>1, PopTop
<1>7. CASE stack' = s /\ running' = FALSE
  <2>1. stack' = Over(w, Beneath)
        BY <1>3, <1>7 DEF Over
  <2> QED BY <1>1, <1>2, <1>5, <1>7, <2>1, WindowChanged
<1> QED BY <1>1, <1>6, <1>7, Zenon

LEMMA StepResumePass == ASSUME IndInv, ResumePass PROVE IndInv'
<1>1. /\ stack # <<>> /\ Top.kind = "TimingPointWindow" /\ Same /\ announced' = announced
      /\ \E i \in Holders(Top) : Pass(i)
      BY DEF ResumePass, Same, histories
<1>2. PICK i \in Holders(Top) : Pass(i)
      BY <1>1
<1> DEFINE w == [Top EXCEPT !.passed = @ \cup {i}]
<1>3. Top \in Windows /\ Beneath \in Seq(AllFrames)
      BY <1>1, TopIs, KindIs DEF IndInv
<1>4. i \in Investigators
  <2>1. PICK c \in Top.candidates : c.who = i
        BY <1>2 DEF Holders
  <2> QED BY <1>3, <2>1 DEF Windows, Listeners
<1>5. w \in Windows /\ w.event = Top.event /\ w.bucket = Top.bucket
      BY <1>3, <1>4 DEF Windows
<1>6. PassedBy(stack, i) = <<w>> \o Beneath
      BY DEF PassedBy, Under, Top, Beneath
<1> HIDE DEF w
<1>7. \/ stack' = <<>> \o Beneath /\ running' = TRUE
      \/ stack' = <<w>> \o Beneath /\ running' = FALSE
      BY <1>2, <1>6 DEF Pass, Replace
<1>8. CASE stack' = <<>> \o Beneath /\ running' = TRUE
  <2>1. stack' = Beneath /\ \A e \in Enemies : ~Tells(Top, e)
        BY <1>1, <1>3, <1>8, OverTwo DEF Tells, IsEmit
  <2> QED BY <1>1, <1>8, <2>1, PopTop
<1>9. CASE stack' = <<w>> \o Beneath /\ running' = FALSE
  <2>1. stack' = Over(w, Beneath)
        BY <1>9 DEF Over
  <2> QED BY <1>1, <1>5, <1>9, <2>1, WindowChanged
<1> QED BY <1>7, <1>8, <1>9

\* Conditions put on a stack that none of them disturbs.
LEMMA GoodParked ==
    ASSUME NEW r, Good(r), Resting(r), Quiet(r), NEW p \in Seq(EmitEvents),
           \A k \in 1..Len(p) : p[k].event.kind = "EnemyDefeated" /\ p[k].step = "At" /\ ~p[k].prevented
    PROVE  Good(p \o r) /\ Resting(p \o r)
<1> DEFINE t == p \o r
<1>1. r \in Seq(AllFrames) /\ Len(r) \in Nat /\ Len(p) \in Nat /\ p \in Seq(AllFrames)
  <2>1. EmitEvents \subseteq AllFrames
        BY DEF AllFrames, CellFrames
  <2>2. p \in Seq(AllFrames)
        BY <2>1
  <2> QED BY <2>2, LenProperties DEF Good
<1>2. /\ t \in Seq(AllFrames) /\ Len(t) = Len(p) + Len(r)
      /\ \A k \in 1..Len(p) : t[k] = p[k]
      /\ \A k \in 1..Len(r) : t[Len(p) + k] = r[k]
  <2>1. /\ t \in Seq(AllFrames) /\ Len(t) = Len(p) + Len(r)
        /\ \A k \in 1..(Len(p) + Len(r)) : t[k] = IF k <= Len(p) THEN p[k] ELSE r[k - Len(p)]
        BY <1>1, ConcatProperties
  <2> HIDE DEF t
  <2>2. /\ \A k \in 1..Len(p) : k \in 1..(Len(p) + Len(r)) /\ k <= Len(p)
        /\ \A k \in 1..Len(r) : Len(p) + k \in 1..(Len(p) + Len(r)) /\ ~(Len(p) + k <= Len(p)) /\ (Len(p) + k) - Len(p) = k
        BY <1>1
  <2> QED BY <2>1, <2>2
<1> HIDE DEF t
<1>3. \A k \in 1..Len(p) : /\ p[k] \in EmitEvents /\ p[k].kind = "EmitEvent" /\ ~AsksOrActs(p[k]) /\ ~Ending(p[k])
                           /\ ~IsEmit(p[k], "EnemyAttacks")
  <2>1. \A k \in 1..Len(p) : p[k] \in EmitEvents
        BY <1>1, ElementOfSeq
  <2> QED BY <2>1 DEF EmitEvents, AsksOrActs, Ending, IsEmit
<1>4. \A k \in 1..Len(t) : k \in 1..Len(p) \/ (k - Len(p) \in 1..Len(r) /\ Len(p) + (k - Len(p)) = k)
      BY <1>1, <1>2
<1>5. \A k \in 1..Len(t) : /\ ~AsksOrActs(t[k]) /\ t[k].kind # "PlayFromHand"
                           /\ IsEmit(t[k], "EnemyAttacks") => t[k].step \notin {"When", "ResolveCondition"}
  <2> SUFFICES ASSUME NEW k \in 1..Len(t)
               PROVE  /\ ~AsksOrActs(t[k]) /\ t[k].kind # "PlayFromHand"
                      /\ IsEmit(t[k], "EnemyAttacks") => t[k].step \notin {"When", "ResolveCondition"}
      OBVIOUS
  <2>1. CASE k \in 1..Len(p)
        BY <1>2, <1>3, <2>1
  <2>2. CASE k - Len(p) \in 1..Len(r) /\ Len(p) + (k - Len(p)) = k
    <3>1. t[k] = r[k - Len(p)]
          BY <1>2, <2>2
    <3> QED BY <2>2, <3>1 DEF Resting, Quiet
  <2> QED BY <1>4, <2>1, <2>2
<1>6. \A k \in 1..Len(t) : ~(k <= Len(p) + 1 /\ Ending(t[k]))
  <2> SUFFICES ASSUME NEW k \in 1..Len(t), k <= Len(p) + 1 PROVE ~Ending(t[k])
      OBVIOUS
  <2>1. CASE k \in 1..Len(p)
        BY <1>2, <1>3, <2>1
  <2>2. CASE k = Len(p) + 1
    <3>1. Len(r) >= 1 /\ 1 \in 1..Len(r) /\ t[k] = r[1]
          BY <1>1, <1>2, <2>2
    <3> QED BY <3>1 DEF Resting
  <2> QED BY <1>1, <2>1, <2>2
<1>7. Resting(t)
  <2>1. Len(t) >= 1 => 1 \in 1..Len(t) /\ 1 <= Len(p) + 1
        BY <1>1, <1>2
  <2> QED BY <1>5, <1>6, <2>1 DEF Resting
<1>8. ASSUME NEW k \in 1..Len(t) PROVE Stands(t[k], SubSeq(t, k + 1, Len(t)))
  <2> DEFINE u == SubSeq(t, k + 1, Len(t))
  <2>1. /\ u \in Seq(AllFrames) /\ Len(u) = Len(t) - k /\ Len(u) \in Nat
        /\ \A j \in 1..Len(u) : u[j] = t[k + j] /\ k + j \in 1..Len(t)
        BY <1>2, SubIs
  <2> HIDE DEF u
  <2>2. CASE k \in 1..Len(p)
    <3>1. t[k] = p[k] /\ p[k] \in EmitEvents /\ p[k].kind = "EmitEvent"
          /\ p[k].event.kind = "EnemyDefeated" /\ p[k].step = "At" /\ ~p[k].prevented
          BY <1>2, <1>3, <2>2
    <3>2. Quiet(u)
          BY <1>5, <2>1 DEF Quiet
    <3>3. StandsEmit(p[k], u)
          BY <3>1, <3>2 DEF StandsEmit
    <3>4. \A j \in 1..Len(u) : ~AsksOrActs(u[j])
          BY <1>5, <2>1
    <3>5. Len(u) >= 1 => ~Ending(u[1])
      <4> SUFFICES ASSUME Len(u) >= 1 PROVE ~Ending(u[1])
          OBVIOUS
      <4>1. 1 \in 1..Len(u) /\ k + 1 <= Len(p) + 1
            BY <1>1, <2>1, <2>2
      <4> QED BY <1>6, <2>1, <4>1
    <3>6. StandsPhase(p[k], u) /\ StandsHarm(p[k], u) /\ StandsCell(p[k], u) /\ StandsEffect(p[k], u)
          BY <3>1 DEF StandsPhase, StandsHarm, StandsCell, StandsEffect
    <3>7. Stands(t[k], u)
          BY <3>1, <3>3, <3>4, <3>5, <3>6 DEF Stands
    <3> QED BY <3>7 DEF u
  <2>3. CASE k - Len(p) \in 1..Len(r) /\ Len(p) + (k - Len(p)) = k
    <3> DEFINE m == k - Len(p)
               v == SubSeq(r, m + 1, Len(r))
    <3>1. m \in 1..Len(r) /\ Len(p) + m = k
          BY <2>3
    <3> HIDE DEF m
    <3>2. /\ v \in Seq(AllFrames) /\ Len(v) = Len(r) - m
          /\ \A j \in 1..Len(v) : v[j] = r[m + j] /\ m + j \in 1..Len(r)
          BY <1>1, <3>1, SubIs
    <3>3. Stands(r[m], v) /\ t[k] = r[m]
          BY <1>2, <3>1 DEF Good
    <3> HIDE DEF v
    <3>4. Len(u) = Len(v)
          BY <1>1, <1>2, <2>1, <3>1, <3>2
    <3>5. \A j \in 1..Len(u) : u[j] = v[j]
      <4>1. \A j \in 1..Len(u) : k + j = Len(p) + (m + j)
        <5>1. \A n, x \in Nat : \A j \in 1..Len(u) : (n + x) + j = n + (x + j)
              BY <2>1
        <5>2. m \in Nat /\ Len(p) \in Nat
              BY <1>1, <3>1
        <5> QED BY <3>1, <5>1, <5>2
      <4>2. \A j \in 1..Len(u) : t[Len(p) + (m + j)] = r[m + j]
            BY <1>2, <3>2, <3>4
      <4> QED BY <2>1, <3>2, <3>4, <4>1, <4>2
    <3>6. u = v
          BY <2>1, <3>2, <3>4, <3>5, SeqEqual
    <3> QED BY <3>3, <3>6 DEF u
  <2> QED BY <1>4, <2>2, <2>3
<1> QED BY <1>2, <1>7, <1>8 DEF Good, t

LEMMA StepCloseBase == ASSUME IndInv, CloseBase PROVE IndInv'
<1> DEFINE p == Top.parked
<1>1. /\ Drives("EffectBase") /\ Same /\ announced' = announced /\ running' = running /\ stack' = p \o Beneath
      BY SameStack DEF CloseBase, CloseEffectBase, Under, Top, Beneath
<1>2. /\ stack # <<>> /\ running = TRUE /\ Top.kind = "EffectBase" /\ Good(Beneath) /\ Stands(Top, Beneath)
      /\ Beneath \in Seq(AllFrames) /\ Frames = {Top} \cup Elems(Beneath) /\ Top \in EffectBases
      BY <1>1, Driving, KindIs
<1>3. Resting(Beneath)
      BY <1>2, TopIs DEF IndInv
<1>4. p \in Seq(EmitEvents)
      BY <1>2 DEF EffectBases
<1>5. /\ \A k \in 1..Len(p) : p[k].event.kind = "EnemyDefeated" /\ p[k].step = "At" /\ ~p[k].prevented
      /\ p # <<>> => Quiet(Beneath)
      BY <1>2 DEF Stands, StandsEffect
<1>6. \A f \in Elems(p) : /\ f.kind = "EmitEvent" /\ f.event.kind = "EnemyDefeated"
                          /\ f \in AllFrames
  <2>1. DOMAIN p = 1..Len(p) /\ \A k \in 1..Len(p) : p[k] \in EmitEvents
        BY <1>4, LenProperties, ElementOfSeq
  <2>2. EmitEvents \subseteq AllFrames
        BY DEF AllFrames, CellFrames
  <2> QED BY <1>5, <2>1, <2>2 DEF Elems, EmitEvents
<1>7. Top.kind = "EffectBase" /\ (\A e : Tells(Top, e) => \E f \in Elems(p) : f.event.kind = "EnemyDefeated" /\ f.event.enemy = e)
      BY <1>2 DEF Tells, IsEmit
<1> HIDE DEF p
<1>8. Good(stack') /\ Resting(stack') /\ stack' \in Seq(AllFrames)
  <2>1. CASE p = <<>>
    <3>1. stack' = Beneath
          BY <1>1, <1>2, <2>1, OverTwo
    <3> QED BY <1>2, <1>3, <3>1
  <2>2. CASE p # <<>>
        BY <1>1, <1>2, <1>3, <1>4, <1>5, <2>2, GoodParked DEF Good
  <2> QED BY <2>1, <2>2
<1>9. Frames' = Elems(p) \cup Elems(Beneath)
  <2>1. p \in Seq(AllFrames)
        BY <1>4 DEF AllFrames, CellFrames
  <2>2. /\ Len(p) \in Nat /\ Len(Beneath) \in Nat /\ DOMAIN p = 1..Len(p) /\ DOMAIN Beneath = 1..Len(Beneath)
        /\ DOMAIN stack' = 1..(Len(p) + Len(Beneath))
        /\ \A k \in 1..(Len(p) + Len(Beneath)) : stack'[k] = IF k <= Len(p) THEN p[k] ELSE Beneath[k - Len(p)]
        BY <1>1, <1>2, <2>1, ConcatProperties, LenProperties
  <2>3. \A f \in Frames' : f \in Elems(p) \cup Elems(Beneath)
    <3> SUFFICES ASSUME NEW k \in 1..(Len(p) + Len(Beneath)) PROVE stack'[k] \in Elems(p) \cup Elems(Beneath)
        BY <2>2 DEF Frames
    <3>1. k \in 1..Len(p) \/ (~(k <= Len(p)) /\ k - Len(p) \in 1..Len(Beneath))
          BY <2>2
    <3> QED BY <2>2, <3>1 DEF Elems
  <2>4. \A k \in 1..Len(p) : p[k] \in Frames'
    <3>1. \A k \in 1..Len(p) : k \in 1..(Len(p) + Len(Beneath)) /\ k <= Len(p)
          BY <2>2
    <3> QED BY <2>2, <3>1 DEF Frames
  <2>5. \A k \in 1..Len(Beneath) : Beneath[k] \in Frames'
    <3>1. \A k \in 1..Len(Beneath) : Len(p) + k \in 1..(Len(p) + Len(Beneath)) /\ ~(Len(p) + k <= Len(p)) /\ (Len(p) + k) - Len(p) = k
          BY <2>2
    <3>2. \A k \in 1..Len(Beneath) : Beneath[k] = stack'[Len(p) + k]
          BY <2>2, <3>1
    <3> QED BY <2>2, <3>1, <3>2 DEF Frames
  <2> QED BY <2>2, <2>3, <2>4, <2>5 DEF Elems
<1>10. Keeps(Frames')
      BY <1>2, <1>9 DEF Keeps
<1>11. \A e \in Enemies \ announced' :
          e \notin announced /\ \A f \in Frames : Tells(f, e) => \E h \in Frames' : Tells(h, e)
  <2>1. \A e : Tells(Top, e) => \E f \in Elems(p) : Tells(f, e)
        BY <1>6, <1>7 DEF Tells, IsEmit
  <2> QED BY <1>1, <1>2, <1>9, <2>1
<1>12. stack' # <<>> => ~Ending(Head(stack')) /\ ~AsksOrActs(Head(stack'))
  <2>1. stack' # <<>> => Head(stack') = stack'[1] /\ Len(stack') >= 1 /\ 1 \in 1..Len(stack')
        BY <1>8, HeadOver, LenProperties
  <2> QED BY <1>8, <2>1 DEF Resting
<1>13. \A e \in Enemies : Owed(e)' => Owed(e)
  <2>1. \A f \in Elems(p) : \A e : ~OwedBy(f, e)
        BY <1>6 DEF OwedBy, IsEmit
  <2> QED BY <1>2, <1>9, <1>12, <2>1 DEF Owed, OwedBy, Top
<1>14. ~Striking(stack')
      BY <1>12 DEF Striking, AsksOrActs
<1>15. \A f \in Frames' : f \in Frames \/ (FitsPhase(f) /\ FitsAttack(f))
  <2>1. \A f \in Elems(p) : FitsPhase(f) /\ FitsAttack(f)
        BY <1>6 DEF FitsPhase, FitsAttack, FitsBlow, IsEmit
  <2> QED BY <1>2, <1>9, <2>1
<1>16. running' = TRUE
      BY <1>1, <1>2
<1> QED BY <1>1, <1>8, <1>10, <1>11, <1>13, <1>14, <1>15, <1>16, Carried

------------------------------------------------------------------------------
(* Steps that play a card, cancel an attack or place doom. *)

\* Doom is counted over enemies, of which there are finitely many.
LEMMA FiniteFoes == IsFiniteSet(Enemies)
<1>1. Foes \in Seq(Enemies)
      BY EnemyAssumption
<1>2. Len(Foes) \in Nat /\ DOMAIN Foes = 1..Len(Foes)
      BY <1>1, LenProperties
<1>3. IsFiniteSet(1..Len(Foes))
      BY <1>2, FS_Interval
<1>4. Foes \in Surjection(1..Len(Foes), Enemies)
  <2>1. Foes \in [1..Len(Foes) -> Enemies] /\ \A e \in Enemies : \E k \in 1..Len(Foes) : Foes[k] = e
        BY <1>1, <1>2 DEF Enemies, Elems
  <2> QED BY <2>1 DEF Surjection
<1> QED BY <1>3, <1>4, FS_Surjection

\* There is one attack at a time.
LEMMA OneAttack ==
    ASSUME NEW s, Good(s), NEW j \in 1..Len(s), NEW k \in 1..Len(s),
           IsEmit(s[j], "EnemyAttacks"), IsEmit(s[k], "EnemyAttacks")
    PROVE  j = k /\ k = Len(s) - 2
<1>1. s \in Seq(AllFrames) /\ Len(s) \in Nat
      BY LenProperties DEF Good
<1>2. \A m \in 1..Len(s) : IsEmit(s[m], "EnemyAttacks") => Len(s) - m = 2
  <2> SUFFICES ASSUME NEW m \in 1..Len(s), IsEmit(s[m], "EnemyAttacks") PROVE Len(s) - m = 2
      OBVIOUS
  <2> DEFINE r == SubSeq(s, m + 1, Len(s))
  <2>1. Stands(s[m], r)
        BY DEF Good
  <2>2. Len(r) = Len(s) - m
        BY <1>1, SubIs
  <2> HIDE DEF r
  <2>3. Len(r) = 2
        BY <2>1 DEF Stands, StandsEmit, IsEmit
  <2> QED BY <2>2, <2>3
<1> QED BY <1>1, <1>2

\* Steps that move nobody and hurt nobody.
Still == UNCHANGED <<status, at, left, asset, enemies, ending, struck, announced>>

LEMMA Settled ==
    ASSUME IndInv, Good(stack'), Still, Fits', DoomCounted', running' \in BOOLEAN, doom' \in Nat,
           dodge' \subseteq dodge, used \subseteq used',
           cancelled' \subseteq {e \in Enemies : struck[e] > 0}, Keeps(Frames'),
           \A e \in Enemies : \A f \in Frames : Tells(f, e) => \E g \in Frames' : Tells(g, e),
           ~running' /\ stack' # <<>> => Asked(Head(stack')),
           Striking(stack') => Striking(stack) \/ "Agnes" \notin used
    PROVE  IndInv'
<1>1. /\ status' = status /\ at' = at /\ left' = left /\ asset' = asset /\ enemies' = enemies /\ ending' = ending
      /\ struck' = struck /\ announced' = announced /\ InPlay' = InPlay
      BY DEF Still, InPlay
<1> USE <1>1
<1>2. BoardTyped'
      BY DEF IndInv, BoardTyped
<1>3. Asking' /\ (ending => Active(status) = {})'
  <2>1. \A f : Asked(f)' <=> Asked(f)
        BY DEF Asked, Contested
  <2>2. Top' = Head(stack')
        BY DEF Top
  <2>3. Asking'
        BY <2>1, <2>2 DEF Asking
  <2> QED BY <2>3 DEF IndInv, Active
<1>4. EngagedTogether'
  <2>1. \A i : i \in Leaving => i \in Leaving'
        BY DEF Leaving, Keeps
  <2> QED BY <2>1 DEF IndInv, EngagedTogether
<1>5. NoIdleEnemy'
  <2> SUFFICES ASSUME NEW e \in InPlay, enemies[e].with = None, ~enemies[e].exhausted,
                      Candidates(status, e, enemies[e].at) # {}
               PROVE  \E f \in Frames' : f.kind = "EngagementTie" /\ e \in Elems(f.ties)
    <3>1. \A st, x, l : Candidates(st, x, l)' = Candidates(st, x, l)
          BY DEF Candidates, ActiveAt, Active
    <3> QED BY <3>1 DEF NoIdleEnemy
  <2>1. PICK f \in Frames : f.kind = "EngagementTie" /\ e \in Elems(f.ties)
        BY DEF IndInv, NoIdleEnemy
  <2>2. ~ending
        BY DEF IndInv, Candidates, ActiveAt
  <2> QED BY <2>1, <2>2 DEF Keeps
<1>6. Defeats'
      BY DEF IndInv, Defeats
<1>7. Strikes'
  <2>1. \A e : Attacker(e) => Attacker(e)' \/ ending
        BY DEF Attacker, Keeps
  <2>2. AttacksOnce'
        BY DEF IndInv, Strikes, AttacksOnce
  <2> QED BY <2>1, <2>2 DEF IndInv, Strikes
<1>8. Spared'
      BY DEF IndInv, Spared
<1> QED BY <1>2, <1>3, <1>4, <1>5, <1>6, <1>7, <1>8 DEF IndInv

LEMMA StepPlaceDoom == ASSUME IndInv, PlaceDoom PROVE IndInv'
<1> DEFINE e == Top.enemy
<1>1. /\ Drives("Effect") /\ Top.does = "Acolyte" /\ doom' = doom + 1 /\ stack' = <<>> \o Beneath /\ Still
      /\ running' = running /\ dodge' = dodge /\ used' = used /\ cancelled' = cancelled
      BY DEF PlaceDoom, StepEffect, Replace, Still, players, histories
<1>2. /\ stack # <<>> /\ running = TRUE /\ Top.kind = "Effect" /\ Good(stack) /\ Good(Beneath) /\ Stands(Top, Beneath) /\ Top \in AllFrames
      /\ Beneath \in Seq(AllFrames) /\ Frames = {Top} \cup Elems(Beneath) /\ <<>> \o Beneath = Beneath
      BY <1>1, Driving
<1>3. Resting(Beneath) /\ (\A f \in Elems(Beneath) : ~AsksOrActs(f))
      BY <1>2, TopIs
<1>4. stack' = Beneath /\ Frames' = Elems(Beneath)
      BY <1>1, <1>2, FramesAre
<1>5. e \in Acolytes /\ e \in Enemies
      BY <1>1, <1>2, EnemyAssumption DEF Stands, StandsEffect
<1>6. PICK k \in 1..Len(Beneath) : Ending(Beneath[k]) /\ Beneath[k].event.enemy = e
      BY <1>1, <1>2 DEF Stands, StandsEffect
<1>7. Beneath[k] \in Elems(Beneath) /\ Stands(Beneath[k], SubSeq(Beneath, k + 1, Len(Beneath))) /\ Beneath[k] \in EmitEvents
      BY <1>2, <1>6, FramesAt, GoodAt, KindIs DEF Ending, IsEmit
<1>8. e \notin cancelled /\ struck[e] > 0
  <2>1. FitsAttack(Beneath[k])
        BY <1>2, <1>7 DEF IndInv, Fits
  <2>2. ~Beneath[k].prevented
        BY <1>6, <1>7 DEF Stands, StandsEmit, Ending, IsEmit
  <2> QED BY <1>6, <2>1, <2>2 DEF FitsAttack, FitsBlow, Ending, IsEmit
<1>9. stack' # <<>> => ~Ending(Head(stack')) /\ ~AsksOrActs(Head(stack'))
  <2>1. Beneath # <<>> => Head(Beneath) = Beneath[1] /\ Len(Beneath) >= 1 /\ 1 \in 1..Len(Beneath)
        BY <1>2, HeadOver, LenProperties
  <2> QED BY <1>3, <1>4, <2>1 DEF Resting
<1>10. \A f \in Frames' : ~OwedBy(f, e)
  <2> SUFFICES ASSUME NEW f \in Elems(Beneath), OwedBy(f, e) PROVE FALSE
      BY <1>4
  <2>1. ~AsksOrActs(f)
        BY <1>3
  <2>2. IsEmit(f, "EnemyAttacks") /\ f.step # "After"
        BY <2>1 DEF OwedBy, AsksOrActs
  <2>3. PICK j \in 1..Len(Beneath) : Beneath[j] = f
        BY <1>2, FramesAt
  <2>4. j = k
        BY <1>2, <1>6, <2>2, <2>3, OneAttack DEF Ending
  <2> QED BY <1>6, <2>2, <2>3, <2>4 DEF Ending
<1>11. PICK D \in SUBSET (Acolytes \ cancelled) : doom = Cardinality(D) /\ \A x \in D : struck[x] > 0 /\ ~Owed(x)
      BY DEF IndInv, DoomCounted
<1>12. e \notin D /\ Cardinality(D) \in Nat /\ Cardinality(D \cup {e}) = Cardinality(D) + 1
  <2>1. OwedBy(Top, e) /\ Top \in Frames
        BY <1>1, <1>2 DEF OwedBy
  <2>2. e \notin D
        BY <1>11, <2>1 DEF Owed
  <2>3. IsFiniteSet(D)
    <3>1. D \subseteq Enemies
          BY EnemyAssumption
    <3> QED BY <3>1, FiniteFoes, FS_Subset
  <2> QED BY <2>2, <2>3, FS_AddElement, FS_CardinalityType
<1>13. DoomCounted'
  <2>1. \A x : Owed(x)' => Owed(x)
        BY <1>2, <1>4, <1>9 DEF Owed, OwedBy, Top
  <2>2. \A x : x = e => ~Owed(x)'
        BY <1>9, <1>10 DEF Owed, OwedBy, Top
  <2>3. D \cup {e} \in SUBSET (Acolytes \ cancelled) /\ \A x \in D \cup {e} : struck[x] > 0 /\ ~Owed(x)'
        BY <1>5, <1>8, <1>11, <2>1, <2>2
  <2>4. doom' = Cardinality(D \cup {e})
        BY <1>1, <1>11, <1>12
  <2>5. struck' = struck
        BY <1>1 DEF Still
  <2> QED BY <1>1, <2>3, <2>4, <2>5 DEF DoomCounted
<1>14. Fits'
  <2>1. \A x, i : Attackable(x, i)' <=> Attackable(x, i)
        BY <1>1 DEF Still, Attackable, InPlay
  <2>2. ASSUME NEW f \in Frames' PROVE FitsPhase(f)' /\ FitsAttack(f)'
    <3>1. FitsPhase(f) /\ FitsAttack(f)
          BY <1>2, <1>4 DEF IndInv, Fits
    <3>2. FitsPhase(f)'
          BY <1>1, <2>1, <3>1 DEF FitsPhase, ToBegin, Still, InPlay
    <3> QED BY <1>1, <2>1, <3>1, <3>2 DEF FitsAttack, FitsBlow, IsEmit, Still, InPlay
  <2> QED BY <2>2 DEF Fits
<1>15. Keeps(Frames')
      BY <1>2, <1>4 DEF Keeps
<1>16. \A x \in Enemies : \A f \in Frames : Tells(f, x) => \E g \in Frames' : Tells(g, x)
      BY <1>2, <1>4 DEF Tells, IsEmit
<1>17. ~Striking(stack') /\ running' = TRUE /\ doom' \in Nat /\ cancelled' \subseteq {x \in Enemies : struck[x] > 0}
      BY <1>1, <1>2, <1>9, <1>11, <1>12 DEF Striking, AsksOrActs, IndInv, Strikes
<1> QED BY <1>1, <1>2, <1>4, <1>13, <1>14, <1>15, <1>16, <1>17, Settled

LEMMA StepCancelAttack == ASSUME IndInv, CancelAttack PROVE IndInv'
<1> DEFINE e == Top.enemy
           r == Beneath
           g == [r[5] EXCEPT !.prevented = TRUE]
<1>1. /\ Drives("Effect") /\ Top.does = "Dodge" /\ stack' = CancelCurrentImpact(r) /\ cancelled' = cancelled \cup {e}
      /\ Still /\ running' = running /\ dodge' = dodge /\ used' = used /\ doom' = doom
      BY DEF CancelAttack, StepEffect, Still, players, board
<1>2. /\ stack # <<>> /\ running = TRUE /\ Top.kind = "Effect" /\ Good(stack) /\ Good(r) /\ Stands(Top, r)
      /\ r \in Seq(AllFrames) /\ Frames = {Top} \cup Elems(r)
      BY <1>1, Driving
<1>3. Resting(r)
      BY <1>2, TopIs
<1>4. /\ Len(r) = 7 /\ IsEmit(r[5], "EnemyAttacks") /\ r[5].step = "When" /\ r[5].event.enemy = e
      /\ \A k \in 1..4 : r[k].kind \in {"EffectBase", "PlayFromHand", "TimingPointWindow", "TimingPoint"}
      /\ r[6].kind = "AttackLoop" /\ r[7].kind = "EnemyPhase"
      BY <1>1, <1>2 DEF Stands, StandsEffect
<1> HIDE DEF r
<1>5. DOMAIN r = 1..7 /\ 5 \in 1..7 /\ \A k \in 1..7 : k \in 1..4 \/ k = 5 \/ k = 6 \/ k = 7
      BY <1>2, <1>4, LenProperties
<1>6. r[5] \in EmitEvents /\ Stands(r[5], SubSeq(r, 6, 7)) /\ r[5] \in AllFrames
  <2>1. r[5] \in AllFrames /\ Stands(r[5], SubSeq(r, 5 + 1, Len(r)))
        BY <1>2, <1>4, <1>5, GoodAt
  <2> QED BY <1>4, <2>1, KindIs DEF IsEmit
<1>7. stack' = [r EXCEPT ![5] = g]
  <2> DEFINE open == {k \in Coordinators(r) : r[k].step = "When"}
  <2>1. \A k \in open : k = 5
        BY <1>4, <1>5 DEF Coordinators
  <2>2. 5 \in open
        BY <1>4, <1>5 DEF Coordinators, IsEmit
  <2>3. open = {5}
        BY <2>1, <2>2
  <2>4. Min(open) = 5
    <3> HIDE DEF open
    <3>1. 5 =< 5
          OBVIOUS
    <3> QED BY <2>3, <3>1 DEF Min
  <2>5. CancelCurrentImpact(r) = IF open = {} THEN r ELSE [r EXCEPT ![Min(open)].prevented = TRUE]
        BY DEF CancelCurrentImpact
  <2> HIDE DEF open
  <2> QED BY <1>1, <2>3, <2>4, <2>5
<1>8. /\ g \in EmitEvents /\ g \in AllFrames /\ g.kind = "EmitEvent" /\ g.event = r[5].event /\ g.step = r[5].step
      /\ g.prevented = TRUE
      BY <1>6 DEF EmitEvents, AllFrames, CellFrames
<1> HIDE DEF g
<1>9. Good(stack')
  <2> DEFINE u == SubSeq(r, 6, 7)
  <2>1. Alike(r[5], g)
        BY <1>6, <1>8 DEF Alike, EmitEvents
  <2>2. Stands(r[5], u)
        BY <1>6
  <2> HIDE DEF u
  <2>3. StandsEmit(r[5], u) /\ (\A k \in 1..Len(u) : ~AsksOrActs(u[k])) /\ ~(Len(u) >= 1 /\ Ending(u[1]))
        BY <1>6, <2>2 DEF Stands, EmitEvents
  <2>4. StandsEmit(g, u)
        BY <1>4, <1>8, <2>3 DEF StandsEmit, IsEmit
  <2>5. StandsPhase(g, u) /\ StandsHarm(g, u) /\ StandsCell(g, u) /\ StandsEffect(g, u)
        BY <1>8 DEF StandsPhase, StandsHarm, StandsCell, StandsEffect
  <2>6. Stands(g, u)
        BY <2>3, <2>4, <2>5 DEF Stands
  <2>7. Stands(g, SubSeq(r, 5 + 1, Len(r)))
        BY <1>4, <2>6 DEF u
  <2> QED BY <1>2, <1>4, <1>5, <1>7, <1>8, <2>1, <2>7, GoodChange
<1>10. /\ Len(stack') = 7 /\ DOMAIN stack' = 1..7 /\ stack' \in Seq(AllFrames) /\ stack' # <<>>
       /\ \A k \in 1..7 : stack'[k] = IF k = 5 THEN g ELSE r[k]
  <2>1. 5 \in 1..Len(r)
        BY <1>4
  <2> DEFINE t == [r EXCEPT ![5] = g]
  <2>4. /\ Len(t) = Len(r) /\ t \in Seq(AllFrames) /\ \A k \in 1..Len(r) : t[k] = IF k = 5 THEN g ELSE r[k]
        BY <1>2, <1>8, <2>1, ExceptSeq
  <2>5. stack' = t
        BY <1>7
  <2> HIDE DEF t
  <2>2. /\ Len(stack') = 7 /\ stack' \in Seq(AllFrames) /\ \A k \in 1..7 : stack'[k] = IF k = 5 THEN g ELSE r[k]
        BY <1>4, <2>4, <2>5
  <2>3. stack' = <<>> => Len(stack') = 0
        BY EmptySeq
  <2> QED BY <2>2, <2>3, LenProperties
<1>11. /\ Elems(r) = {r[k] : k \in 1..7} /\ Frames' = {stack'[k] : k \in 1..7}
      BY <1>5, <1>10 DEF Elems, Frames
<1>12. /\ \A f \in Frames' : f = g \/ (f \in Elems(r) /\ f.kind \notin {"EmitEvent", "DealDamage", "Effect"})
       /\ \A f \in Elems(r) : f = r[5] \/ f \in Frames'
       /\ g \in Frames' /\ r[5] \in Elems(r)
  <2>1. \A k \in 1..7 : k = 5 \/ r[k].kind \notin {"EmitEvent", "DealDamage", "Effect"}
        BY <1>4, <1>5
  <2>2. \A k \in 1..7 : stack'[k] = g \/ (stack'[k] = r[k] /\ k # 5)
        BY <1>10
  <2>3. \A k \in 1..7 : r[k] = r[5] \/ r[k] = stack'[k]
        BY <1>10
  <2>4. stack'[5] = g
        BY <1>5, <1>10
  <2> QED BY <1>5, <1>11, <2>1, <2>2, <2>3, <2>4
<1>13. e \in Enemies /\ struck[e] > 0 /\ FitsAttack(r[5]) /\ FitsPhase(r[5])
  <2>1. FitsAttack(r[5]) /\ FitsPhase(r[5])
        BY <1>2, <1>12 DEF IndInv, Fits
  <2>2. r[5].event \in Events
        BY <1>6 DEF EmitEvents
  <2> QED BY <1>4, <2>1, <2>2, EventIs DEF FitsAttack, FitsBlow, IsEmit
<1>14. PICK D \in SUBSET (Acolytes \ cancelled) : doom = Cardinality(D) /\ \A x \in D : struck[x] > 0 /\ ~Owed(x)
      BY DEF IndInv, DoomCounted
<1>15. stack' # <<>> /\ ~Ending(Head(stack')) /\ Head(stack').kind # "Effect"
  <2>1. Head(stack') = stack'[1] /\ 1 \in 1..4 /\ 1 \in 1..7 /\ 1 # 5
        BY <1>10
  <2> QED BY <1>4, <1>10, <2>1 DEF Ending, IsEmit
<1>16. DoomCounted'
  <2>1. \A x : OwedBy(g, x) => OwedBy(r[5], x)
        BY <1>4, <1>8 DEF OwedBy, IsEmit
  <2>2. \A x : Owed(x)' => Owed(x)
    <3> SUFFICES ASSUME NEW x, Owed(x)' PROVE Owed(x)
        OBVIOUS
    <3>1. ~(stack' # <<>> /\ Ending(Head(stack')))
          BY <1>15
    <3>2. PICK f \in Frames' : OwedBy(f, x)
          BY <3>1 DEF Owed, Top
    <3>3. f = g \/ f \in Elems(r)
          BY <1>12, <3>2
    <3>4. f = g \/ f \in Frames
          BY <1>2, <3>3
    <3>5. r[5] \in Frames
          BY <1>2, <1>12
    <3> QED BY <2>1, <3>2, <3>4, <3>5 DEF Owed
  <2>3. e \notin D
    <3>1. OwedBy(r[5], e)
          BY <1>4 DEF OwedBy
    <3> QED BY <1>2, <1>12, <1>14, <3>1 DEF Owed
  <2>4. struck' = struck
        BY <1>1 DEF Still
  <2>5. D \in SUBSET (Acolytes \ cancelled')
        BY <1>1, <1>14, <2>3
  <2> QED BY <1>1, <1>14, <2>2, <2>4, <2>5 DEF DoomCounted
<1>17. Fits'
  <2>1. \A x, i : Attackable(x, i)' <=> Attackable(x, i)
        BY <1>1 DEF Still, Attackable, InPlay
  <2>2. FitsPhase(g) /\ FitsAttack(g)
        BY <1>4, <1>8, <1>13 DEF FitsPhase, FitsAttack, FitsBlow, IsEmit
  <2>3. ASSUME NEW f \in Frames' PROVE FitsPhase(f)' /\ FitsAttack(f)'
    <3>1. FitsPhase(f) /\ FitsAttack(f)
          BY <1>2, <1>12, <2>2 DEF IndInv, Fits
    <3>2. FitsPhase(f)'
          BY <1>1, <2>1, <3>1 DEF FitsPhase, ToBegin, Still, InPlay
    <3>3. CASE f = g
          BY <1>1, <1>4, <1>8, <2>1, <3>1, <3>2, <3>3 DEF FitsAttack, FitsBlow, IsEmit, Still, InPlay
    <3>4. CASE f.kind \notin {"EmitEvent", "DealDamage", "Effect"}
          BY <1>1, <2>1, <3>1, <3>2, <3>4 DEF FitsAttack, FitsBlow, IsEmit, Still
    <3> QED BY <1>12, <3>3, <3>4
  <2> QED BY <2>3 DEF Fits
<1>18. Keeps(Frames')
  <2>1. r[5].kind = "EmitEvent"
        BY <1>4 DEF IsEmit
  <2> QED BY <1>2, <1>12, <2>1 DEF Keeps
<1>19. \A x \in Enemies : \A f \in Frames : Tells(f, x) => \E h \in Frames' : Tells(h, x)
  <2>1. \A x : ~Tells(r[5], x) /\ ~Tells(Top, x)
        BY <1>2, <1>4 DEF Tells, IsEmit
  <2> QED BY <1>2, <1>12, <2>1
<1>20. ~Striking(stack') /\ running' = TRUE /\ doom' \in Nat /\ cancelled' \subseteq {x \in Enemies : struck[x] > 0}
      BY <1>1, <1>2, <1>13, <1>15 DEF Striking, IndInv, Strikes, BoardTyped
<1> QED BY <1>1, <1>9, <1>16, <1>17, <1>18, <1>19, <1>20, Settled

\* A card's effect goes on the stack, above the window it was offered in.
LEMMA Playing ==
    ASSUME IndInv, Still, running' = TRUE, stack # <<>>, Top.kind = "TimingPointWindow",
           doom' = doom, cancelled' = cancelled, dodge' \subseteq dodge, used \subseteq used',
           NEW w \in Windows, w.event = Top.event, NEW q, Good(q), Resting(q),
           \A x \in Elems(q) : x = w \/ x \in Elems(Beneath) \/ x \in PlaysFromHand,
           Elems(Beneath) \subseteq Elems(q),
           NEW f \in Effects, StandsEffect(f, Over(EffectBase, q)), f.does # "Acolyte",
           f.does = "Guard Dog" => struck[f.enemy] > 0,
           f.does = "Agnes" => "Agnes" \in used' /\ "Agnes" \notin used,
           stack' = Over(f, Over(EffectBase, q))
    PROVE  IndInv'
<1>1. /\ Good(Over(EffectBase, q)) /\ Resting(Over(EffectBase, q)) /\ q \in Seq(AllFrames)
      BY BaseOn DEF Good
<1>2. f \in EffectFrames /\ f \in AllFrames /\ f.kind = "Effect"
      BY DEF EffectFrames, AllFrames, Effects
<1>3. Good(stack')
      BY <1>1, <1>2, GoodEffect
<1>4. Frames' = {f, EffectBase} \cup Elems(q) /\ stack' # <<>> /\ Head(stack') = f
      BY <1>1, <1>2, BaseIs, FramesAre
<1>5. Frames = {Top} \cup Elems(Beneath) /\ FitsAttack(Top)
      BY TopIs DEF IndInv, Fits
<1>6. w.kind = "TimingPointWindow" /\ \A x \in PlaysFromHand : x.kind = "PlayFromHand"
      BY DEF Windows, PlaysFromHand
<1>7. \A x \in Frames' : x = f \/ x = EffectBase \/ x = w \/ x \in PlaysFromHand \/ x \in Frames
      BY <1>4, <1>5
<1>8. Fits'
  <2>1. \A x, i : Attackable(x, i)' <=> Attackable(x, i)
        BY DEF Still, Attackable, InPlay
  <2>2. FitsPhase(w) /\ FitsAttack(w) /\ FitsPhase(EffectBase) /\ FitsAttack(EffectBase)
        BY <1>5, <1>6, BaseIs DEF FitsPhase, FitsAttack, FitsBlow, IsEmit
  <2>3. \A x \in PlaysFromHand : FitsPhase(x) /\ FitsAttack(x)
        BY <1>6 DEF FitsPhase, FitsAttack, FitsBlow, IsEmit
  <2>4. ASSUME NEW x, FitsPhase(x), FitsAttack(x) PROVE FitsPhase(x)' /\ FitsAttack(x)'
    <3>1. FitsPhase(x)'
          BY <2>1, <2>4 DEF FitsPhase, ToBegin, Still, InPlay
    <3> QED BY <2>1, <2>4, <3>1 DEF FitsAttack, FitsBlow, IsEmit, Still, InPlay
  <2>5. FitsPhase(f)' /\ FitsAttack(f)'
        BY <1>2 DEF FitsPhase, FitsAttack, FitsBlow, IsEmit, Still
  <2>6. \A x \in Frames : FitsPhase(x) /\ FitsAttack(x)
        BY DEF IndInv, Fits
  <2> QED BY <1>7, <2>2, <2>3, <2>4, <2>5, <2>6 DEF Fits
<1>9. \A e : Owed(e)' => Owed(e)
  <2>1. \A e : ~OwedBy(f, e) /\ ~OwedBy(EffectBase, e) /\ ~OwedBy(w, e)
        BY <1>2, <1>6, BaseIs DEF OwedBy, IsEmit
  <2>2. \A x \in PlaysFromHand : \A e : ~OwedBy(x, e)
        BY <1>6 DEF OwedBy, IsEmit
  <2>3. ~Ending(f)
        BY <1>2 DEF Ending, IsEmit
  <2>4. \A x \in Frames' : \A e : OwedBy(x, e) => x \in Frames
        BY <1>7, <2>1, <2>2
  <2>5. Top' = f
        BY <1>4 DEF Top
  <2>6. ASSUME NEW e, NEW x \in Frames', OwedBy(x, e)' PROVE Owed(e)
    <3>1. OwedBy(x, e)
          BY <2>6 DEF OwedBy, IsEmit
    <3> QED BY <2>4, <3>1 DEF Owed
  <2> QED BY <2>3, <2>5, <2>6 DEF Owed
<1>10. DoomCounted'
  <2>1. struck' = struck
        BY DEF Still
  <2> QED BY <1>9, <2>1 DEF IndInv, DoomCounted
<1>11. Keeps(Frames')
      BY <1>4, <1>5 DEF Keeps
<1>12. \A e \in Enemies : \A x \in Frames : Tells(x, e) => \E g \in Frames' : Tells(g, e)
      BY <1>4, <1>5 DEF Tells, IsEmit
<1>13. Striking(stack') => "Agnes" \notin used
      BY <1>4 DEF Striking
<1>14. doom' \in Nat /\ cancelled' \subseteq {e \in Enemies : struck[e] > 0}
      BY DEF IndInv, BoardTyped, Strikes
<1> QED BY <1>3, <1>8, <1>10, <1>11, <1>12, <1>13, <1>14, Settled

LEMMA StepFirePendingTrigger == ASSUME IndInv, FirePendingTrigger PROVE IndInv'
<1>1. PICK c \in Top.candidates \cap Offered :
          \/ /\ c.card = "Dodge" /\ dodge' = dodge \ {c.who} /\ UNCHANGED used
             /\ stack' = PushEffect(c, Top.event) \o <<PlayFromHand(c.who)>> \o Fired(stack, c)
          \/ /\ c.card # "Dodge" /\ used' = used \cup ({c.card} \ {"Guard Dog"}) /\ UNCHANGED dodge
             /\ stack' = PushEffect(c, Top.event) \o Fired(stack, c)
      BY DEF FirePendingTrigger
<1>2. /\ stack # <<>> /\ Top.kind = "TimingPointWindow" /\ running' = TRUE /\ Still /\ doom' = doom /\ cancelled' = cancelled
      BY DEF FirePendingTrigger, Answers, Still, histories
<1>3. /\ Good(stack) /\ Good(Beneath) /\ Stands(Top, Beneath) /\ Resting(Beneath) /\ Beneath \in Seq(AllFrames)
      /\ Top \in Windows /\ FitsAttack(Top)
      BY <1>2, TopIs, KindIs DEF IndInv, Fits
<1>4. Top.event \in Events /\ c \in Listeners
      BY <1>3 DEF Windows
<1>5. \/ c.card = "Dodge" /\ Top.bucket = "When" /\ Top.event.kind = "EnemyAttacks"
      \/ c.card = "Guard Dog" /\ Top.event.kind = "DamageDealt"
      \/ c.card = "Agnes" /\ Top.event.kind = "DamagePlaced" /\ c.who \in Agnes /\ "Agnes" \notin used
      \/ c.card = "Roland" /\ Top.event.kind = "EnemyDefeated"
      BY <1>4, Listening DEF IndInv, Offered
<1> DEFINE w == [Top EXCEPT !.candidates = @ \ {c}, !.passed = {}]
           f == Effect(c, Top.event)
           r == Over(w, Beneath)
<1>6. w \in Windows /\ w.kind = "TimingPointWindow" /\ w.event = Top.event /\ w.bucket = Top.bucket
      BY <1>3 DEF Windows
<1>7. w \in AllFrames
      BY <1>6 DEF AllFrames, CellFrames
<1>8. Fired(stack, c) = <<w>> \o Beneath
      BY DEF Fired, Under, Top, Beneath
<1> HIDE DEF w
<1>9. Fired(stack, c) = r
      BY <1>8 DEF Over
<1>10. /\ f \in Effects /\ f.kind = "Effect" /\ f.does = c.card /\ f.who = c.who /\ f.enemy = Top.event.enemy
  <2>1. Top.event.enemy \in Enemies \cup {None}
        BY <1>4, EventIs
  <2> QED BY <1>4, <2>1 DEF Effect, Effects, Listeners
<1>11. f \in AllFrames
      BY <1>10 DEF AllFrames, EffectFrames
<1>12. PushEffect(c, Top.event) = <<f, EffectBase>>
      BY DEF PushEffect
<1> HIDE DEF f
<1>13. /\ Good(r) /\ Resting(r) /\ r \in Seq(AllFrames) /\ Elems(r) = {w} \cup Elems(Beneath)
       /\ (Top.event.kind # "EnemyAttacks" => Quiet(r))
       /\ Len(r) = Len(Beneath) + 1 /\ r[1] = w /\ \A k \in 1..Len(Beneath) : r[k + 1] = Beneath[k]
  <2>1. StandsCell(w, Beneath)
        BY <1>2, <1>3, <1>6 DEF Stands, StandsCell
  <2>2. Good(r)
        BY <1>3, <1>6, <2>1, GoodWindow
  <2>3. ~AsksOrActs(w) /\ ~Ending(w) /\ ~IsEmit(w, "EnemyAttacks")
        BY <1>6 DEF AsksOrActs, Ending, IsEmit
  <2>4. Resting(r)
        BY <1>3, <1>7, <2>3, OverRests DEF Resting
  <2>5. Top.event.kind # "EnemyAttacks" => Quiet(r)
    <3> SUFFICES ASSUME Top.event.kind # "EnemyAttacks" PROVE Quiet(r)
        OBVIOUS
    <3>1. Quiet(Beneath)
          BY <1>2, <1>3 DEF Stands, StandsCell
    <3> QED BY <1>3, <1>6, <1>7, <2>3, <3>1, OverQuiet
  <2>6. r \in Seq(AllFrames) /\ Len(r) = Len(Beneath) + 1 /\ r[1] = w /\ \A k \in 1..Len(Beneath) : r[k + 1] = Beneath[k]
    <3>1. Beneath \in Seq(AllFrames)
          BY <1>3
    <3> QED BY <1>7, <3>1, OverSeq
  <2>7. Elems(r) = {w} \cup Elems(Beneath)
        BY <1>3, <1>7, OverElems
  <2> HIDE DEF r
  <2> QED BY <2>2, <2>4, <2>5, <2>6, <2>7
<1> HIDE DEF r
<1>14. CASE c.card = "Dodge"
  <2> DEFINE P == PlayFromHand(c.who)
             q == Over(P, r)
             b == Over(EffectBase, q)
  <2>1. P \in PlaysFromHand /\ P \in EffectFrames /\ P \in AllFrames /\ P.kind = "PlayFromHand"
        BY <1>4 DEF PlayFromHand, PlaysFromHand, EffectFrames, AllFrames, Listeners
  <2>2. stack' = PushEffect(c, Top.event) \o <<P>> \o Fired(stack, c) /\ dodge' = dodge \ {c.who} /\ used' = used
        BY <1>1, <1>14
  <2> HIDE DEF P
  <2>3. stack' = Over(f, b)
    <3>1. /\ <<f, EffectBase>> \in Seq(AllFrames) /\ <<P>> \in Seq(AllFrames)
          BY <1>11, <2>1, BaseIs
    <3>2. (<<f, EffectBase>> \o <<P>>) \o r = <<f, EffectBase>> \o (<<P>> \o r)
          BY <1>13, <3>1, OverTwo
    <3>3. <<P>> \o r = q
          BY DEF Over
    <3>4. q \in Seq(AllFrames)
          BY <1>13, <2>1, OverSeq
    <3>5. <<f, EffectBase>> \o q = Over(f, Over(EffectBase, q))
      <4> HIDE DEF q
      <4> QED BY <1>11, <3>4, BaseIs, OverTwo
    <3> QED BY <1>9, <1>12, <2>2, <3>2, <3>3, <3>5
  <2>4. /\ Good(q) /\ Resting(q) /\ Elems(q) = {P, w} \cup Elems(Beneath)
        /\ Len(q) = Len(r) + 1 /\ q[1] = P /\ \A k \in 1..Len(r) : q[k + 1] = r[k]
    <3>1. StandsEffect(P, r)
          BY <2>1 DEF StandsEffect
    <3>2. Good(q)
          BY <1>13, <2>1, <3>1, GoodEffect
    <3>3. ~AsksOrActs(P) /\ ~Ending(P)
          BY <2>1 DEF AsksOrActs, Ending, IsEmit
    <3>4. Resting(q)
          BY <1>13, <2>1, <3>3, OverRests DEF Resting
    <3>5. Elems(q) = {P} \cup Elems(r)
          BY <1>13, <2>1, OverElems
    <3>6. Len(q) = Len(r) + 1 /\ q[1] = P /\ \A k \in 1..Len(r) : q[k + 1] = r[k]
      <4>1. r \in Seq(AllFrames) /\ P \in AllFrames
            BY <1>13, <2>1
      <4> QED BY <4>1, OverSeq
    <3> HIDE DEF q
    <3> QED BY <1>13, <3>2, <3>4, <3>5, <3>6
  <2> HIDE DEF q
  <2>5. /\ Len(b) = Len(q) + 1 /\ b[1] = EffectBase /\ \A k \in 1..Len(q) : b[k + 1] = q[k]
        BY <2>4, BaseOn
  <2> HIDE DEF b
  <2>6. /\ Len(Beneath) = 4 /\ Beneath[1].kind = "TimingPoint" /\ IsEmit(Beneath[2], "EnemyAttacks") /\ Beneath[2].step = "When"
        /\ Beneath[2].event.enemy = f.enemy /\ Beneath[3].kind = "AttackLoop" /\ Beneath[4].kind = "EnemyPhase"
    <3>1. Top.bucket = "When" /\ Top.event.kind = "EnemyAttacks"
          BY <1>5, <1>14
    <3>2. Len(Beneath) >= 1 /\ Beneath[1].kind = "TimingPoint" /\ Beneath[1].event = Top.event /\ Beneath[1].bucket = Top.bucket
          BY <1>2, <1>3 DEF Stands, StandsCell
    <3>3. Len(Beneath) \in Nat /\ 1 \in 1..Len(Beneath)
          BY <1>3, <3>2, LenProperties
    <3> DEFINE u == SubSeq(Beneath, 2, Len(Beneath))
    <3>4. Stands(Beneath[1], SubSeq(Beneath, 1 + 1, Len(Beneath)))
          BY <1>3, <3>3, GoodAt
    <3>5. Stands(Beneath[1], u)
          BY <3>4
    <3>6. Len(u) = Len(Beneath) - 1 /\ \A j \in 1..Len(u) : u[j] = Beneath[1 + j]
      <4>1. LET v == SubSeq(Beneath, 1 + 1, Len(Beneath))
            IN  Len(v) = Len(Beneath) - 1 /\ \A j \in 1..Len(v) : v[j] = Beneath[1 + j]
            BY <1>3, <3>3, SubIs, ZenonT(30)
      <4> QED BY <4>1
    <3> HIDE DEF u
    <3>7. Len(u) >= 1 /\ u[1].kind = "EmitEvent" /\ u[1].event = Top.event /\ u[1].step = "When"
          BY <3>1, <3>2, <3>5 DEF Stands, StandsCell
    <3>8. 2 \in 1..Len(Beneath) /\ Beneath[2] = u[1]
      <4>1. 1 \in 1..Len(u) /\ 2 \in 1..Len(Beneath)
            BY <3>3, <3>6, <3>7
      <4>2. u[1] = Beneath[1 + 1]
            BY <3>6, <4>1
      <4> QED BY <4>1, <4>2
    <3> DEFINE v == SubSeq(Beneath, 2 + 1, Len(Beneath))
    <3>9. Len(v) = Len(Beneath) - 2 /\ \A j \in 1..Len(v) : v[j] = Beneath[2 + j]
      <4>1. 2 \in 1..Len(Beneath)
            BY <3>8
      <4>2. LET beyond == SubSeq(Beneath, 2 + 1, Len(Beneath))
            IN  Len(beyond) = Len(Beneath) - 2 /\ \A j \in 1..Len(beyond) : beyond[j] = Beneath[2 + j]
            BY <1>3, <4>1, SubIs, ZenonT(30)
      <4> QED BY <4>2
    <3>10. Stands(Beneath[2], v)
          BY <1>3, <3>8, GoodAt
    <3> HIDE DEF v
    <3>11. Len(v) = 2 /\ v[1].kind = "AttackLoop" /\ v[2].kind = "EnemyPhase"
          BY <3>1, <3>7, <3>8, <3>10 DEF Stands, StandsEmit
    <3>12. Beneath[3] = v[1] /\ Beneath[4] = v[2]
      <4>1. 1 \in 1..Len(v) /\ 2 \in 1..Len(v)
            BY <3>11
      <4>2. v[1] = Beneath[2 + 1] /\ v[2] = Beneath[2 + 2]
            BY <3>9, <4>1
      <4> QED BY <4>2
    <3>13. Len(Beneath) = 4
      <4>1. Len(Beneath) - 2 = 2
            BY <3>9, <3>11
      <4> QED BY <3>3, <4>1
    <3> QED BY <1>10, <3>1, <3>2, <3>7, <3>8, <3>11, <3>12, <3>13 DEF IsEmit
  <2>7. /\ Len(b) = 7 /\ b[1] = EffectBase /\ b[2] = P /\ b[3] = w /\ b[4] = Beneath[1] /\ b[5] = Beneath[2]
        /\ b[6] = Beneath[3] /\ b[7] = Beneath[4]
    <3>1. Len(r) = 5 /\ Len(q) = 6 /\ Len(b) = 7
          BY <1>13, <2>4, <2>5, <2>6
    <3>2. \A k \in 1..4 : r[k + 1] = Beneath[k]
          BY <1>13, <2>6
    <3>3. \A k \in 1..5 : q[k + 1] = r[k]
          BY <2>4, <3>1
    <3>4. \A k \in 1..6 : b[k + 1] = q[k]
          BY <2>5, <3>1
    <3>5. b[2] = q[1] /\ b[3] = q[2] /\ b[4] = q[3] /\ b[5] = q[4] /\ b[6] = q[5] /\ b[7] = q[6]
          BY <3>4
    <3>6. q[2] = r[1] /\ q[3] = r[2] /\ q[4] = r[3] /\ q[5] = r[4] /\ q[6] = r[5]
          BY <3>3
    <3>7. r[2] = Beneath[1] /\ r[3] = Beneath[2] /\ r[4] = Beneath[3] /\ r[5] = Beneath[4]
          BY <3>2
    <3> QED BY <1>13, <2>4, <2>5, <3>1, <3>5, <3>6, <3>7
  <2>8. StandsEffect(f, b)
    <3>1. \A k \in 1..4 : b[k].kind \in {"EffectBase", "PlayFromHand", "TimingPointWindow", "TimingPoint"}
      <4>1. \A k \in 1..4 : k = 1 \/ k = 2 \/ k = 3 \/ k = 4
            OBVIOUS
      <4>2. b[1].kind = "EffectBase" /\ b[2].kind = "PlayFromHand" /\ b[3].kind = "TimingPointWindow" /\ b[4].kind = "TimingPoint"
            BY <1>6, <2>1, <2>6, <2>7, BaseIs
      <4> QED BY <4>1, <4>2
    <3> QED BY <1>10, <1>14, <2>6, <2>7, <3>1 DEF StandsEffect
  <2>9. \A x \in Elems(q) : x = w \/ x \in Elems(Beneath) \/ x \in PlaysFromHand
        BY <2>1, <2>4
  <2>10. /\ Elems(Beneath) \subseteq Elems(q) /\ f.does # "Acolyte" /\ f.does # "Guard Dog" /\ f.does # "Agnes"
         /\ dodge' \subseteq dodge /\ used \subseteq used'
        BY <1>10, <1>14, <2>2, <2>4
  <2>11. StandsEffect(f, Over(EffectBase, q)) /\ stack' = Over(f, Over(EffectBase, q))
        BY <2>3, <2>8 DEF b
  <2> QED BY <1>2, <1>6, <1>10, <2>4, <2>9, <2>10, <2>11, Playing
<1>15. CASE c.card # "Dodge"
  <2> DEFINE b == Over(EffectBase, r)
  <2>1. /\ stack' = <<f, EffectBase>> \o r /\ dodge' = dodge /\ used' = used \cup ({c.card} \ {"Guard Dog"})
        BY <1>1, <1>9, <1>12, <1>15
  <2>2. stack' = Over(f, b)
    <3>1. \A x, y \in AllFrames : <<x, y>> \o r = Over(x, Over(y, r))
          BY <1>13, OverTwo
    <3>2. EffectBase \in AllFrames
          BY BaseIs
    <3> QED BY <1>11, <2>1, <3>1, <3>2
  <2>3. Quiet(r)
        BY <1>5, <1>13, <1>15
  <2>4. Quiet(b)
        BY <1>13, <2>3, BaseOn
  <2> HIDE DEF b
  <2>5. f.does = "Guard Dog" => f.enemy \in Enemies /\ struck[f.enemy] > 0
    <3> SUFFICES ASSUME f.does = "Guard Dog" PROVE f.enemy \in Enemies /\ struck[f.enemy] > 0
        OBVIOUS
    <3>1. Top.event.kind = "DamageDealt"
          BY <1>5, <1>10
    <3> QED BY <1>2, <1>3, <1>4, <1>10, <3>1, EventIs DEF FitsAttack, FitsBlow
  <2>6. f.does = "Agnes" => f.who \in Agnes /\ "Agnes" \in used' /\ "Agnes" \notin used
        BY <1>5, <1>10, <2>1
  <2>7. f.does \notin {"Acolyte", "Dodge"}
        BY <1>5, <1>10, <1>15
  <2>8. StandsEffect(f, b)
        BY <1>10, <2>4, <2>5, <2>6, <2>7 DEF StandsEffect
  <2>9. /\ \A x \in Elems(r) : x = w \/ x \in Elems(Beneath)
        /\ Elems(Beneath) \subseteq Elems(r) /\ dodge' \subseteq dodge /\ used \subseteq used'
        BY <1>13, <2>1
  <2>10. StandsEffect(f, Over(EffectBase, r)) /\ stack' = Over(f, Over(EffectBase, r))
        BY <2>2, <2>8 DEF b
  <2> QED BY <1>2, <1>6, <1>10, <1>13, <2>5, <2>6, <2>7, <2>9, <2>10, Playing
<1> QED BY <1>14, <1>15

------------------------------------------------------------------------------
(* The attack loop: the phase's anchor, a player's list of attackers, and    *)
(* the attack at the head of it.                                             *)

LEMMA AnchorIs ==
    ASSUME NEW u, Good(u), OverAnchor(u)
    PROVE  /\ u[1] \in Anchors /\ u[1].kind = "EnemyPhase" /\ Elems(u) = {u[1]} /\ Tail(u) = <<>>
           /\ Resting(u) /\ Quiet(u) /\ Boundless(u) /\ u \in Seq(AllFrames) /\ Len(u) = 1
<1>1. /\ u \in Seq(AllFrames) /\ Len(u) = 1 /\ DOMAIN u = 1..1 /\ u[1].kind = "EnemyPhase" /\ u # <<>>
  <2>1. u \in Seq(AllFrames) /\ Len(u) = 1 /\ u[1].kind = "EnemyPhase"
        BY DEF Good, OverAnchor
  <2> QED BY <2>1, LenProperties, EmptySeq
<1>2. \A k \in 1..1 : k = 1
      OBVIOUS
<1>3. 1 \in 1..Len(u)
      BY <1>1
<1>4. u[1] \in Anchors
      BY <1>1, <1>3, GoodAt, KindIs
<1>5. Elems(u) = {u[1]}
      BY <1>1, <1>2, <1>3 DEF Elems
<1>6. Tail(u) = <<>>
  <2>1. Tail(u) \in Seq(AllFrames) /\ Len(u) = Len(Tail(u)) + 1 /\ Len(Tail(u)) \in Nat
        BY <1>1, GoodPop
  <2> QED BY <1>1, <2>1, EmptySeq
<1>7. Resting(u)
      BY <1>1, <1>2 DEF Resting, AsksOrActs, Ending, IsEmit
<1>8. Quiet(u) /\ Boundless(u)
      BY <1>1, <1>2 DEF Quiet, Boundless, IsEmit
<1> QED BY <1>1, <1>4, <1>5, <1>6, <1>7, <1>8

\* Leaving some out of a list keeps it distinct.
LEMMA DistinctAmong ==
    ASSUME NEW S, NEW q \in Seq(S), Distinct(q), NEW G
    PROVE  Distinct(Among(q, G))
<1> DEFINE a == Among(q, G)
<1>1. PICK place \in [DOMAIN a -> DOMAIN q] :
          /\ \A k \in DOMAIN a : a[k] = q[place[k]]
          /\ \A j, k \in DOMAIN a : j < k => place[j] < place[k]
      BY AmongProperties
<1>2. DOMAIN a \subseteq Nat /\ DOMAIN q \subseteq Nat
      BY AmongProperties, LenProperties
<1> HIDE DEF a
<1>3. ASSUME NEW j \in DOMAIN a, NEW k \in DOMAIN a, a[j] = a[k], j # k PROVE FALSE
  <2>1. place[j] = place[k] /\ place[j] \in Nat /\ place[k] \in Nat
        BY <1>1, <1>2, <1>3 DEF Distinct
  <2>2. j < k \/ k < j
        BY <1>2, <1>3
  <2> QED BY <1>1, <2>1, <2>2
<1>4. Distinct(a)
      BY <1>3 DEF Distinct
<1> QED BY <1>4 DEF a

LEMMA DistinctOver ==
    ASSUME NEW S, NEW q \in Seq(S), Distinct(q), NEW e \in S
    PROVE  /\ e \notin Elems(q) => Distinct(Over(e, q))
           /\ q # <<>> => Distinct(Tail(q)) /\ Head(q) \notin Elems(Tail(q))
                          /\ Elems(Tail(q)) = {q[k] : k \in 2..Len(q)}
<1>1. Len(q) \in Nat /\ DOMAIN q = 1..Len(q)
      BY LenProperties
<1>2. ASSUME e \notin Elems(q) PROVE Distinct(Over(e, q))
  <2> DEFINE p == Over(e, q)
  <2>1. p \in Seq(S) /\ Len(p) = Len(q) + 1 /\ p[1] = e /\ \A k \in 1..Len(q) : p[k + 1] = q[k]
        BY OverSeq
  <2> HIDE DEF p
  <2>2. DOMAIN p = 1..(Len(q) + 1)
        BY <2>1, LenProperties
  <2>3. \A k \in 2..(Len(q) + 1) : k - 1 \in 1..Len(q) /\ p[k] = q[k - 1] /\ p[k] # e
    <3> SUFFICES ASSUME NEW k \in 2..(Len(q) + 1) PROVE k - 1 \in 1..Len(q) /\ p[k] = q[k - 1] /\ p[k] # e
        OBVIOUS
    <3>1. k - 1 \in 1..Len(q) /\ (k - 1) + 1 = k
          BY <1>1
    <3>2. p[(k - 1) + 1] = q[k - 1]
          BY <2>1, <3>1
    <3>3. q[k - 1] \in Elems(q)
          BY <1>1, <3>1 DEF Elems
    <3> QED BY <1>2, <3>1, <3>2, <3>3
  <2>4. ASSUME NEW j \in DOMAIN p, NEW k \in DOMAIN p, p[j] = p[k] PROVE j = k
    <3>1. \A m \in DOMAIN p : m = 1 \/ m \in 2..(Len(q) + 1)
          BY <1>1, <2>2
    <3>2. CASE j = 1 \/ k = 1
          BY <2>1, <2>3, <2>4, <3>1, <3>2
    <3>3. CASE j \in 2..(Len(q) + 1) /\ k \in 2..(Len(q) + 1)
      <4>1. j - 1 = k - 1
            BY <1>1, <2>3, <2>4, <3>3 DEF Distinct
      <4> QED BY <3>3, <4>1
    <3> QED BY <3>1, <3>2, <3>3
  <2>5. Distinct(p)
        BY <2>4 DEF Distinct
  <2> QED BY <2>5 DEF p
<1>3. ASSUME q # <<>>
      PROVE  Distinct(Tail(q)) /\ Head(q) \notin Elems(Tail(q)) /\ Elems(Tail(q)) = {q[k] : k \in 2..Len(q)}
  <2> DEFINE t == Tail(q)
  <2>1. t \in Seq(S) /\ Len(q) = Len(t) + 1 /\ q[1] = Head(q) /\ \A k \in 1..Len(t) : q[k + 1] = t[k]
        BY <1>3, HeadOver
  <2> HIDE DEF t
  <2>2. DOMAIN t = 1..Len(t) /\ Len(t) \in Nat
        BY <2>1, LenProperties
  <2>3. \A k \in 1..Len(t) : k + 1 \in DOMAIN q /\ k + 1 \in 2..Len(q) /\ k + 1 # 1
        BY <1>1, <2>1, <2>2
  <2>4. Distinct(t)
    <3> SUFFICES ASSUME NEW j \in DOMAIN t, NEW k \in DOMAIN t, t[j] = t[k] PROVE j = k
        BY DEF Distinct
    <3>1. j + 1 = k + 1
          BY <2>1, <2>2, <2>3 DEF Distinct
    <3> QED BY <2>2, <3>1
  <2>5. Head(q) \notin Elems(t)
    <3> SUFFICES ASSUME NEW k \in 1..Len(t), t[k] = Head(q) PROVE FALSE
        BY <2>2 DEF Elems
    <3>1. 1 \in DOMAIN q
          BY <1>1, <2>1, <2>2
    <3>2. k + 1 = 1
          BY <2>1, <2>3, <3>1 DEF Distinct
    <3> QED BY <2>3, <3>2
  <2>6. \A k \in 2..Len(q) : k - 1 \in 1..Len(t) /\ q[k] = t[k - 1]
    <3> SUFFICES ASSUME NEW k \in 2..Len(q) PROVE k - 1 \in 1..Len(t) /\ q[k] = t[k - 1]
        OBVIOUS
    <3>1. k - 1 \in 1..Len(t) /\ (k - 1) + 1 = k
          BY <2>1, <2>2
    <3> QED BY <2>1, <3>1
  <2>7. Elems(t) = {q[k] : k \in 2..Len(q)}
    <3>1. \A k \in 1..Len(t) : t[k] \in {q[m] : m \in 2..Len(q)}
          BY <2>1, <2>3
    <3>2. \A k \in 2..Len(q) : q[k] \in {t[m] : m \in 1..Len(t)}
          BY <2>6
    <3> QED BY <2>2, <3>1, <3>2 DEF Elems
  <2> QED BY <2>4, <2>5, <2>7 DEF t
<1> QED BY <1>2, <1>3

\* Enemies may exhaust and attacks may begin, from the loop and to the loop.
Looping ==
    /\ UNCHANGED <<status, at, left, asset, dodge, used, doom, ending, cancelled, announced>>
    /\ running' = TRUE /\ InPlay' = InPlay /\ enemies' \in FoesInPlay(InPlay)
    /\ \A e \in InPlay : /\ enemies'[e].at = enemies[e].at /\ enemies'[e].with = enemies[e].with
                         /\ enemies'[e].damage = enemies[e].damage
                         /\ enemies[e].exhausted => enemies'[e].exhausted

LEMMA Looped ==
    ASSUME IndInv, Looping, Frames \subseteq Anchors \cup AttackLoops,
           Good(stack'), Fits', stack' # <<>>, Head(stack').kind # "Effect", Head(stack').kind # "DealDamage",
           struck' \in [Enemies -> Nat], \A e \in Enemies : struck[e] <= struck'[e] /\ struck'[e] <= 1,
           \A e \in InPlay : struck'[e] > 0 => ending \/ enemies'[e].exhausted \/ Attacker(e)',
           \A e : Owed(e)' => struck[e] = 0
    PROVE  IndInv'
<1>1. \A f \in Frames : f.kind \in {"EnemyPhase", "AttackLoop"}
      BY DEF Anchors, AttackLoops
<1>2. BoardTyped'
      BY DEF Looping, IndInv, BoardTyped
<1>3. Asking' /\ (ending => Active(status) = {})'
      BY DEF Looping, IndInv, Asking, Active
<1>4. EngagedTogether'
  <2>1. Leaving = {}
        BY <1>1 DEF Leaving
  <2> QED BY <2>1 DEF Looping, IndInv, EngagedTogether
<1>5. NoIdleEnemy'
  <2>1. \A st, x, l : Candidates(st, x, l)' = Candidates(st, x, l)
        BY DEF Candidates, ActiveAt, Active, Looping
  <2>2. \A e \in InPlay : enemies[e].with = None /\ ~enemies[e].exhausted => Candidates(status, e, enemies[e].at) = {}
        BY <1>1 DEF IndInv, NoIdleEnemy
  <2> QED BY <2>1, <2>2 DEF Looping, NoIdleEnemy
<1>6. Defeats'
  <2>1. Enemies \ (InPlay \cup announced) = {}
        BY <1>1 DEF IndInv, Defeats, Tells, IsEmit
  <2> QED BY <2>1 DEF Looping, Defeats
<1>7. Strikes'
  <2>1. AttacksOnce'
        BY DEF AttacksOnce
  <2>2. cancelled \subseteq {e \in Enemies : struck[e] > 0} /\ struck \in [Enemies -> Nat]
        BY DEF IndInv, Strikes
  <2>3. cancelled' \subseteq {e \in Enemies : struck'[e] > 0}
    <3> SUFFICES ASSUME NEW e \in cancelled PROVE e \in Enemies /\ struck'[e] > 0
        BY DEF Looping
    <3>1. e \in Enemies /\ struck[e] > 0 /\ struck[e] \in Nat /\ struck'[e] \in Nat /\ struck[e] <= struck'[e]
          BY <2>2
    <3> QED BY <3>1
  <2> QED BY <2>1, <2>3 DEF Looping, Strikes
<1>8. Spared'
  <2>1. ~Striking(stack')
        BY DEF Striking
  <2>2. \A e \in Enemies : struck'[e] = 0 => struck[e] = 0
        BY DEF IndInv, Strikes
  <2> QED BY <2>1, <2>2 DEF Looping, IndInv, Spared
<1>9. DoomCounted'
  <2>1. PICK D \in SUBSET (Acolytes \ cancelled) :
           doom = Cardinality(D) /\ \A e \in D : struck[e] > 0 /\ ~Owed(e)
        BY DEF IndInv, DoomCounted
  <2>2. \A e \in D : struck'[e] > 0 /\ ~Owed(e)'
    <3> SUFFICES ASSUME NEW e \in D PROVE struck'[e] > 0 /\ ~Owed(e)'
        OBVIOUS
    <3>1. e \in Enemies
          BY EnemyAssumption
    <3>2. struck[e] > 0 /\ struck[e] \in Nat /\ struck'[e] \in Nat /\ struck[e] <= struck'[e]
          BY <2>1, <3>1 DEF IndInv, Strikes
    <3> QED BY <3>2
  <2> QED BY <2>1, <2>2 DEF Looping, DoomCounted
<1> QED BY <1>2, <1>3, <1>4, <1>5, <1>6, <1>7, <1>8, <1>9 DEF IndInv

\* What is said of the board before a loop's next step: nobody's attack is under
\* way any more, and those listed have not attacked.
Lined(i, list, u) ==
    /\ Looping /\ i \in Investigators /\ Good(u) /\ OverAnchor(u) /\ FitsPhase(u[1])
    /\ Frames \subseteq Anchors \cup AttackLoops
    /\ list \in Seq(Enemies) /\ Distinct(list)
    /\ \A e \in Elems(list) : struck[e] = 0 /\ (status[i] = "Active" => Attackable(e, i)')
    /\ \A e \in InPlay : struck[e] > 0 => ending \/ enemies'[e].exhausted

LEMMA LoopIs ==
    ASSUME NEW i \in Investigators, NEW list \in Seq(Enemies), NEW stage \in {"PickOrder", "Attacking"}
    PROVE  /\ AttackLoop(i, list, stage) \in AttackLoops /\ AttackLoop(i, list, stage) \in AllFrames
           /\ AttackLoop(i, list, stage) \in PhaseFrames
           /\ AttackLoop(i, list, stage).kind = "AttackLoop" /\ AttackLoop(i, list, stage).who = i
           /\ AttackLoop(i, list, stage).list = list /\ AttackLoop(i, list, stage).stage = stage
BY DEF AttackLoop, AttackLoops, AllFrames, PhaseFrames

LEMMA StillFits == ASSUME NEW f \in Anchors 
             PROVE FitsPhase(f)' /\ FitsAttack(f)' /\ \A e : ~OwedBy(f, e)
<1>1. f.kind = "EnemyPhase"
      BY DEF Anchors
<1>2. FitsPhase(f)'
      BY <1>1 DEF FitsPhase
<1>3. FitsAttack(f)'
      BY <1>1 DEF FitsAttack, FitsBlow, IsEmit
<1>4. \A e : ~OwedBy(f, e)
      BY <1>1 DEF OwedBy, IsEmit
<1> QED BY <1>2, <1>3, <1>4

\* The attack of the head of the list begins.
LEMMA Begun ==
    ASSUME IndInv, NEW i, NEW list, NEW u, Lined(i, list, u), list # <<>>, status[i] = "Active",
           BeginHeadAttack(i, list, u)
    PROVE  IndInv'
<1> DEFINE e == Head(list)
           m == EmitEvent(Attacks(e, i))
           l == AttackLoop(i, list, "Attacking")
           r == Over(l, u)
<1>1. /\ stack' = <<m, l>> \o u /\ struck' = [struck EXCEPT ![e] = @ + 1]
      BY DEF BeginHeadAttack
<1>2. /\ Looping /\ i \in Investigators /\ Good(u) /\ OverAnchor(u) /\ list \in Seq(Enemies) /\ Distinct(list)
      /\ Frames \subseteq Anchors \cup AttackLoops
      /\ \A x \in Elems(list) : struck[x] = 0 /\ Attackable(x, i)'
      /\ \A x \in InPlay : struck[x] > 0 => ending \/ enemies'[x].exhausted
      BY DEF Lined
<1>3. e \in Enemies /\ e \in Elems(list) /\ struck[e] = 0
      BY <1>2, ElemsOf
<1>4. Attacks(e, i) \in Events /\ Attacks(e, i).kind = "EnemyAttacks" /\ Attacks(e, i).enemy = e /\ Attacks(e, i).who = i
      BY <1>2, <1>3 DEF Attacks, Events, AttackEvents
<1>5. /\ m \in EmitEvents /\ m \in AllFrames /\ m.kind = "EmitEvent" /\ m.event.kind = "EnemyAttacks" /\ m.event.enemy = e
      /\ m.event.who = i /\ m.step = "When" /\ m.prevented = FALSE
      BY <1>4, EmitIs
<1>6. /\ l \in AttackLoops /\ l \in AllFrames /\ l \in PhaseFrames /\ l.kind = "AttackLoop" /\ l.who = i
      /\ l.list = list /\ l.stage = "Attacking"
      BY <1>2, LoopIs
<1> HIDE DEF m, l
<1>7. u[1] \in Anchors /\ u[1].kind = "EnemyPhase" /\ Elems(u) = {u[1]} /\ Resting(u) /\ Quiet(u) /\ Boundless(u)
      /\ u \in Seq(AllFrames) /\ Len(u) = 1
      BY <1>2, AnchorIs
<1>8. stack' = Over(m, r)
      BY <1>1, <1>5, <1>6, <1>7, OverTwo
<1>9. Good(r) /\ Resting(r) /\ Quiet(r) /\ Boundless(r) /\ Len(r) = 2 /\ r[1] = l /\ r[2] = u[1]
  <2>1. StandsPhase(l, u)
        BY <1>2, <1>6 DEF StandsPhase
  <2>2. Good(r)
        BY <1>2, <1>6, <1>7, <2>1, GoodPhase
  <2>3. ~AsksOrActs(l) /\ ~Ending(l) /\ ~IsEmit(l, "EnemyAttacks")
        BY <1>6 DEF AsksOrActs, Ending, IsEmit
  <2>4. Resting(r)
        BY <1>6, <1>7, <2>3, OverRests DEF Resting
  <2>5. Quiet(r)
        BY <1>6, <1>7, <2>3, OverQuiet
  <2>6. Boundless(r)
        BY <1>6, <1>7, OverBoundless
  <2>7. Len(r) = Len(u) + 1 /\ r[1] = l /\ \A k \in 1..Len(u) : r[k + 1] = u[k]
    <3>1. u \in Seq(AllFrames) /\ l \in AllFrames
          BY <1>6, <1>7
    <3> QED BY <3>1, OverSeq
  <2>8. r[1 + 1] = u[1]
        BY <1>7, <2>7
  <2> HIDE DEF r
  <2> QED BY <1>7, <2>2, <2>4, <2>5, <2>6, <2>7, <2>8
<1> HIDE DEF r
<1>10. Good(stack')
  <2>1. StandsEmit(m, r)
        BY <1>5, <1>6, <1>7, <1>9 DEF StandsEmit
  <2> QED BY <1>5, <1>8, <1>9, <2>1, GoodEmit
<1>11. Frames' = {m, l} \cup {u[1]} /\ stack' # <<>> /\ Head(stack') = m
      BY <1>5, <1>6, <1>7, <1>8, FramesAre DEF r
<1>12. struck' \in [Enemies -> Nat] /\ struck'[e] = 1 /\ (\A x \in Enemies : x # e => struck'[x] = struck[x])
       /\ struck \in [Enemies -> Nat] /\ (\A x \in Enemies : struck[x] <= 1)
      BY <1>1, <1>3 DEF IndInv, Strikes, AttacksOnce
<1>13. \A x \in Enemies : struck[x] <= struck'[x] /\ struck'[x] <= 1
  <2>1. \A x \in Enemies : struck[x] \in Nat
        BY <1>12
  <2> QED BY <1>3, <1>12, <2>1
<1>14. FitsPhase(l)' /\ FitsAttack(l)'
  <2>1. ToBegin(l) = Elems(Tail(list)) /\ e \notin Elems(Tail(list)) /\ Elems(Tail(list)) \subseteq Elems(list)
        BY <1>2, <1>6, ElemsOf, DistinctOver DEF ToBegin
  <2>2. \A x \in ToBegin(l) : x \in Enemies /\ struck'[x] = 0 /\ Attackable(x, i)'
        BY <1>2, <1>12, <2>1, ElemsOf
  <2>3. ToBegin(l)' = ToBegin(l)
        BY DEF ToBegin
  <2>4. FitsPhase(l)'
        BY <1>6, <2>2, <2>3 DEF FitsPhase
  <2> QED BY <1>6, <2>4 DEF FitsAttack, FitsBlow, IsEmit
<1>15. FitsPhase(m)' /\ FitsAttack(m)'
  <2>1. e \notin cancelled' /\ struck'[e] > 0 /\ status'[i] = "Active" /\ Attackable(e, i)'
        BY <1>2, <1>3, <1>12 DEF Looping, IndInv, Strikes
  <2>2. Hardy => e \in InPlay'
        BY <1>2, <1>3 DEF Looping, IndInv, Spared
  <2> QED BY <1>5, <2>1, <2>2 DEF FitsPhase, FitsAttack, FitsBlow, IsEmit
<1>16. Fits'
      BY <1>2, <1>7, <1>11, <1>14, <1>15, StillFits DEF Fits
<1>17. Attacker(e)'
  <2>1. l.list[1] = e
        BY <1>2, <1>6, HeadOver
  <2> QED BY <1>6, <1>11, <2>1 DEF Attacker
<1>18. \A x \in InPlay : struck'[x] > 0 => ending \/ enemies'[x].exhausted \/ Attacker(x)'
  <2> SUFFICES ASSUME NEW x \in InPlay, struck'[x] > 0 PROVE ending \/ enemies'[x].exhausted \/ Attacker(x)'
      OBVIOUS
  <2>1. x \in Enemies
        BY DEF IndInv, BoardTyped
  <2>2. CASE x = e
        BY <1>17, <2>2
  <2>3. CASE x # e
        BY <1>2, <1>12, <2>1, <2>3
  <2> QED BY <2>2, <2>3
<1>19. \A x : Owed(x)' => struck[x] = 0
  <2>1. \A x : ~OwedBy(l, x) /\ ~OwedBy(u[1], x) /\ (OwedBy(m, x) => x = e)
        BY <1>5, <1>6, <1>7 DEF OwedBy, IsEmit
  <2>2. ~Ending(m) /\ Top' = m
        BY <1>5, <1>11 DEF Ending, Top
  <2>3. ASSUME NEW x, Owed(x)' PROVE struck[x] = 0
    <3>1. \E f \in Frames' : OwedBy(f, x)
          BY <2>2, <2>3 DEF Owed, OwedBy
    <3> QED BY <1>3, <1>11, <2>1, <3>1
  <2> QED BY <2>3
<1> QED BY <1>2, <1>5, <1>10, <1>11, <1>12, <1>13, <1>16, <1>18, <1>19, Looped

LEMMA DriveLoop ==
    ASSUME IndInv, NEW i, NEW list, NEW u, Lined(i, list, u), DriveAttackLoop(i, list, u)
    PROVE  IndInv'
<1>1. /\ Looping /\ i \in Investigators /\ Good(u) /\ OverAnchor(u) /\ list \in Seq(Enemies) /\ Distinct(list)
      /\ Frames \subseteq Anchors \cup AttackLoops
      /\ \A x \in Elems(list) : struck[x] = 0 /\ (status[i] = "Active" => Attackable(x, i)')
      /\ \A x \in InPlay : struck[x] > 0 => ending \/ enemies'[x].exhausted
      BY DEF Lined
<1>2. u[1] \in Anchors /\ u[1].kind = "EnemyPhase" /\ Elems(u) = {u[1]} /\ Tail(u) = <<>> /\ Resting(u)
      /\ u \in Seq(AllFrames) /\ Len(u) = 1
      BY <1>1, AnchorIs
<1>3. /\ struck \in [Enemies -> Nat] /\ \A x \in Enemies : struck[x] <= struck[x] /\ struck[x] <= 1
      BY DEF IndInv, Strikes, AttacksOnce
<1>4. CASE list = <<>> \/ status[i] # "Active"
  <2> DEFINE w == OpenAttackWindow(NextInPlayerOrder(status, i))
  <2>1. /\ stack' = <<w>> \o <<>> /\ struck' = struck
        BY <1>1, <1>2, <1>4, ElemsOf DEF DriveAttackLoop
  <2>2. /\ w \in Anchors /\ w \in PhaseFrames /\ w \in AllFrames /\ w.kind = "EnemyPhase"
        /\ (w.resume = "BeforeInvestigatorAttacked" => w.who \in Investigators)
    <3>1. {j \in Active(status) : Position(j) > Position(i)} \in SUBSET Investigators
          BY DEF Active
    <3> QED BY <3>1, NextWindow DEF NextInPlayerOrder
  <2> HIDE DEF w
  <2>3. <<>> \in Seq(AllFrames) /\ stack' = Over(w, <<>>) /\ Good(<<>>) /\ Resting(<<>>)
        BY <2>1, GoodEmpty DEF Over, Resting
  <2>4. Good(stack')
    <3>1. StandsPhase(w, <<>>)
          BY <2>2 DEF StandsPhase
    <3> QED BY <2>2, <2>3, <3>1, GoodPhase
  <2>5. Frames' = {w} /\ stack' # <<>> /\ Head(stack') = w
    <3>1. Elems(<<>>) = {}
          BY ElemsOf, <2>3
    <3> QED BY <2>2, <2>3, <3>1, FramesAre
  <2>6. Fits'
        BY <1>1, <2>2, <2>5, StillFits DEF Fits
  <2>7. \A e \in InPlay : struck'[e] > 0 => ending \/ enemies'[e].exhausted \/ Attacker(e)'
        BY <1>1, <2>1
  <2>8. \A e : Owed(e)' => struck[e] = 0
    <3>1. \A e : ~OwedBy(w, e)
          BY <2>2, StillFits
    <3>2. ~Ending(w) /\ Top' = w
          BY <2>2, <2>5 DEF Ending, IsEmit, Top
    <3>3. ASSUME NEW e, Owed(e)' PROVE FALSE
      <4>1. \E f \in Frames' : OwedBy(f, e)
            BY <3>2, <3>3 DEF Owed, OwedBy
      <4> QED BY <2>5, <3>1, <4>1
    <3> QED BY <3>3
  <2> QED BY <1>1, <1>3, <2>1, <2>2, <2>4, <2>5, <2>6, <2>7, <2>8, Looped
<1>5. CASE Len(list) = 1 /\ status[i] = "Active" /\ BeginHeadAttack(i, list, u)
  <2>1. list # <<>>
        BY <1>1, <1>5, ElemsOf
  <2> QED BY <1>5, <2>1, Begun
<1>6. CASE Len(list) >= 2 /\ status[i] = "Active" /\ stack' = <<AttackLoop(i, list, "PickOrder")>> \o u /\ UNCHANGED struck
  <2> DEFINE l == AttackLoop(i, list, "PickOrder")
  <2>1. stack' = <<l>> \o u /\ struck' = struck
        BY <1>6
  <2>2. /\ l \in AttackLoops /\ l \in AllFrames /\ l \in PhaseFrames /\ l.kind = "AttackLoop" /\ l.who = i
        /\ l.list = list /\ l.stage = "PickOrder"
        BY <1>1, LoopIs
  <2> HIDE DEF l
  <2>3. stack' = Over(l, u)
        BY <2>1 DEF Over
  <2>4. Good(stack')
    <3>1. list # <<>>
          BY <1>1, <1>6, ElemsOf
    <3>2. StandsPhase(l, u)
          BY <1>1, <2>2, <3>1 DEF StandsPhase
    <3> QED BY <1>1, <1>2, <2>2, <2>3, <3>2, GoodPhase
  <2>5. Frames' = {l} \cup {u[1]} /\ stack' # <<>> /\ Head(stack') = l
        BY <1>2, <2>2, <2>3, FramesAre
  <2>6. Fits'
    <3>1. ~ending' /\ status'[i] = "Active"
          BY <1>1, <1>6 DEF IndInv, Active, Looping
    <3>2. \A x \in ToBegin(l)' : struck'[x] = 0 /\ Attackable(x, i)'
          BY <1>1, <1>6, <2>1, <2>2 DEF ToBegin
    <3>3. FitsPhase(l)' /\ FitsAttack(l)'
          BY <2>2, <3>1, <3>2 DEF FitsPhase, FitsAttack, FitsBlow, IsEmit
    <3> QED BY <1>1, <1>2, <2>5, <3>3, StillFits DEF Fits
  <2>7. \A e \in InPlay : struck'[e] > 0 => ending \/ enemies'[e].exhausted \/ Attacker(e)'
        BY <1>1, <2>1
  <2>8. \A e : Owed(e)' => struck[e] = 0
    <3>1. \A e : ~OwedBy(l, e) /\ ~OwedBy(u[1], e)
          BY <1>2, <2>2 DEF OwedBy, IsEmit
    <3>2. ~Ending(l) /\ Top' = l
          BY <2>2, <2>5 DEF Ending, IsEmit, Top
    <3>3. ASSUME NEW e, Owed(e)' PROVE FALSE
      <4>1. \E f \in Frames' : OwedBy(f, e)
            BY <3>2, <3>3 DEF Owed, OwedBy
      <4> QED BY <2>5, <3>1, <4>1
    <3> QED BY <3>3
  <2> QED BY <1>1, <1>3, <2>1, <2>2, <2>4, <2>5, <2>6, <2>7, <2>8, Looped
<1> QED BY <1>4, <1>5, <1>6 DEF DriveAttackLoop

\* The enemies in a set, in their order.
LEMMA InOrderIs ==
    ASSUME NEW G
    PROVE  /\ InOrder(G) \in Seq(Enemies) /\ Distinct(InOrder(G)) /\ Elems(InOrder(G)) = Enemies \cap G
           /\ (InOrder(G) = <<>> <=> Enemies \cap G = {})
<1>1. Foes \in Seq(Enemies) /\ Distinct(Foes) /\ Elems(Foes) = Enemies
      BY EnemyAssumption DEF Distinct, Enemies
<1>2. InOrder(G) \in Seq(Enemies) /\ Elems(InOrder(G)) = Enemies \cap G
      BY <1>1, AmongProperties DEF InOrder
<1>3. Distinct(InOrder(G))
      BY <1>1, DistinctAmong DEF InOrder
<1> QED BY <1>2, <1>3, ElemsOf

LEMMA StepResolveAttacksForInvestigator == ASSUME IndInv, ResolveAttacksForInvestigator PROVE IndInv'
<1>0. PICK i, attackers, list, u :
          i = Top.who /\ attackers = ReadyEngagedAttackers(i) /\ list = InOrder(attackers) /\ u = stack
      OBVIOUS
<1>1. /\ Drives("EnemyPhase") /\ Top.resume = "BeforeInvestigatorAttacked" /\ DriveAttackLoop(i, list, u)
      /\ UNCHANGED <<running, board, cancelled, announced>>
      BY <1>0 DEF ResolveAttacksForInvestigator
<1>2. /\ stack # <<>> /\ running = TRUE /\ Top.kind = "EnemyPhase" /\ Good(stack) /\ Top \in AllFrames /\ Stands(Top, Beneath)
      /\ stack = Over(Top, Beneath) /\ Beneath \in Seq(AllFrames) /\ Frames = {Top} \cup Elems(Beneath) /\ FitsPhase(Top)
      BY <1>1, Driving
<1>3. ~ending
      BY <1>1, Driving DEF CancelledByScenarioEnd
<1>4. Beneath = <<>> /\ i \in Investigators /\ Top \in Anchors
      BY <1>0, <1>1, <1>2, KindIs DEF Stands, StandsPhase
<1>5. OverAnchor(stack) /\ stack[1] = Top /\ Frames = {Top}
  <2>1. Len(stack) = Len(Beneath) + 1 /\ stack[1] = Top /\ Len(Beneath) = 0
        BY <1>2, <1>4, OverSeq, EmptySeq
  <2>2. Elems(<<>>) = {}
        BY <1>2, <1>4, ElemsOf
  <2> QED BY <1>2, <1>4, <2>1, <2>2 DEF OverAnchor
<1>6. list \in Seq(Enemies) /\ Distinct(list) /\ Elems(list) \subseteq attackers
      BY <1>0, InOrderIs
<1>7. Looping
      BY <1>1, <1>2 DEF Looping, board, players, InPlay, IndInv, BoardTyped
<1>8. \A e : ~Attacker(e)
      BY <1>2, <1>5 DEF Attacker
<1>9. \A e \in attackers : e \in InPlay /\ e \in Enemies /\ enemies[e].with = i /\ ~enemies[e].exhausted
      BY <1>0 DEF ReadyEngagedAttackers, IndInv, BoardTyped
<1>10. \A e \in attackers : struck[e] = 0
  <2>1. \A e \in attackers : ~(struck[e] > 0) /\ struck[e] \in Nat
        BY <1>3, <1>8, <1>9 DEF IndInv, Strikes
  <2> QED BY <2>1
<1>11. \A e \in attackers : Attackable(e, i)'
      BY <1>1, <1>9 DEF Attackable, board, InPlay
<1>12. \A e \in InPlay : struck[e] > 0 => ending \/ enemies'[e].exhausted
      BY <1>1, <1>8 DEF IndInv, Strikes, board
<1>13. Lined(i, list, u)
      BY <1>0, <1>2, <1>4, <1>5, <1>6, <1>7, <1>10, <1>11, <1>12 DEF Lined
<1> QED BY <1>1, <1>13, DriveLoop

\* A loop on top, and the anchor it stands on.
LEMMA LoopOnTop ==
    ASSUME IndInv, stack # <<>>, Top.kind = "AttackLoop"
    PROVE  /\ Top \in AttackLoops /\ Top.who \in Investigators /\ Top.list \in Seq(Enemies) /\ Top.list # <<>>
           /\ Distinct(Top.list) /\ Good(Beneath) /\ OverAnchor(Beneath) /\ FitsPhase(Top) /\ FitsPhase(Beneath[1])
           /\ Frames = {Top, Beneath[1]} /\ Beneath[1].kind = "EnemyPhase"
           /\ Frames \subseteq Anchors \cup AttackLoops
<1>1. /\ Top \in AllFrames /\ Good(Beneath) /\ Stands(Top, Beneath) /\ Frames = {Top} \cup Elems(Beneath)
      BY TopIs DEF IndInv
<1>2. Top \in AttackLoops
      BY <1>1, KindIs
<1>3. OverAnchor(Beneath) /\ Top.list # <<>> /\ Distinct(Top.list)
      BY <1>1 DEF Stands, StandsPhase
<1>4. Elems(Beneath) = {Beneath[1]} /\ Beneath[1] \in Anchors /\ Beneath[1].kind = "EnemyPhase"
      BY <1>1, <1>3, AnchorIs
<1>5. FitsPhase(Top) /\ FitsPhase(Beneath[1])
      BY <1>1, <1>4 DEF IndInv, Fits
<1> QED BY <1>1, <1>2, <1>3, <1>4, <1>5 DEF AttackLoops

LEMMA StepDriveParkedAttackLoop == ASSUME IndInv, DriveParkedAttackLoop PROVE IndInv'
<1>0. PICK i, e, list, u : i = Top.who /\ e = Head(Top.list) /\ list = Tail(Top.list) /\ u = Beneath
      OBVIOUS
<1>1. /\ Drives("AttackLoop") /\ Top.stage = "Attacking" /\ ExhaustAfterAttack(e) /\ DriveAttackLoop(i, list, u)
      /\ UNCHANGED <<running, players, doom, ending, cancelled, announced>>
      BY <1>0 DEF DriveParkedAttackLoop
<1>2. stack # <<>> /\ running = TRUE /\ Top.kind = "AttackLoop"
      BY <1>1, Driving
<1>3. /\ Top \in AttackLoops /\ i \in Investigators /\ Top.list \in Seq(Enemies) /\ Top.list # <<>>
      /\ Distinct(Top.list) /\ Good(Beneath) /\ OverAnchor(Beneath) /\ FitsPhase(Top) /\ FitsPhase(Beneath[1])
      /\ Frames = {Top, Beneath[1]} /\ Beneath[1].kind = "EnemyPhase" /\ Frames \subseteq Anchors \cup AttackLoops
      BY <1>0, <1>2, LoopOnTop
<1>4. /\ e \in Enemies /\ list \in Seq(Enemies) /\ Distinct(list) /\ e \notin Elems(list) /\ Top.list[1] = e
      /\ Elems(list) = {Top.list[k] : k \in 2..Len(Top.list)}
      BY <1>0, <1>3, ElemsOf, HeadOver, DistinctOver
<1>5. enemies' = IF e \in InPlay THEN [enemies EXCEPT ![e].exhausted = TRUE] ELSE enemies
      BY <1>1 DEF ExhaustAfterAttack
<1>6. /\ InPlay' = InPlay /\ enemies' \in FoesInPlay(InPlay)
      /\ \A x \in InPlay : /\ enemies'[x].at = enemies[x].at /\ enemies'[x].with = enemies[x].with
                           /\ enemies'[x].damage = enemies[x].damage
                           /\ enemies[x].exhausted => enemies'[x].exhausted
                           /\ x # e => enemies'[x].exhausted = enemies[x].exhausted
                           /\ x = e => enemies'[x].exhausted
  <2>1. enemies \in FoesInPlay(InPlay)
        BY DEF IndInv, BoardTyped
  <2>2. CASE e \notin InPlay
        BY <1>5, <2>1, <2>2 DEF InPlay
  <2>3. CASE e \in InPlay
    <3>1. enemies' = [enemies EXCEPT ![e].exhausted = TRUE]
          BY <1>5, <2>3
    <3>2. enemies \in [InPlay -> [at : Locations, with : Investigators \cup {None}, exhausted : BOOLEAN, damage : Nat]]
          BY <2>1 DEF FoesInPlay
    <3>3. /\ InPlay' = InPlay
          /\ enemies' \in [InPlay -> [at : Locations, with : Investigators \cup {None}, exhausted : BOOLEAN, damage : Nat]]
          BY <3>1, <3>2 DEF InPlay
    <3>4. \A x \in InPlay : /\ enemies'[x].at = enemies[x].at /\ enemies'[x].with = enemies[x].with
                            /\ enemies'[x].damage = enemies[x].damage
                            /\ enemies'[x].exhausted = IF x = e THEN TRUE ELSE enemies[x].exhausted
          BY <3>1, <3>2
    <3>5. enemies' \in FoesInPlay(InPlay)
          BY <2>1, <3>3, <3>4 DEF FoesInPlay
    <3> QED BY <3>3, <3>4, <3>5
  <2> QED BY <2>2, <2>3
<1>7. Looping
      BY <1>1, <1>2, <1>6 DEF Looping, players
<1>8. \A x : Attacker(x) => x = e
      BY <1>3, <1>4 DEF Attacker
<1>9. \A x \in Elems(list) : struck[x] = 0 /\ (status[i] = "Active" => Attackable(x, i)')
  <2>1. \A x \in Elems(list) : struck[x] = 0 /\ (status[i] = "Active" => Attackable(x, i))
        BY <1>0, <1>1, <1>2, <1>3, <1>4 DEF FitsPhase, ToBegin
  <2>2. \A x \in Elems(list) : Attackable(x, i) => Attackable(x, i)'
        BY <1>4, <1>6 DEF Attackable
  <2> QED BY <2>1, <2>2
<1>10. \A x \in InPlay : struck[x] > 0 => ending \/ enemies'[x].exhausted
      BY <1>6, <1>8 DEF IndInv, Strikes
<1>11. Lined(i, list, u)
      BY <1>0, <1>3, <1>4, <1>7, <1>9, <1>10 DEF Lined
<1> QED BY <1>1, <1>11, DriveLoop

LEMMA StepResumeAttackOrderPick == ASSUME IndInv, ResumeAttackOrderPick PROVE IndInv'
<1>0. PICK i, u : i = Top.who /\ u = Beneath
      OBVIOUS
<1>1. /\ stack # <<>> /\ Top.kind = "AttackLoop" /\ running' = TRUE /\ Top.stage = "PickOrder"
      /\ UNCHANGED <<board, cancelled, announced>>
      BY DEF ResumeAttackOrderPick, Answers
<1>2. PICK e \in Elems(Top.list) : BeginHeadAttack(i, <<e>> \o Among(Top.list, Enemies \ {e}), u)
      BY <1>0 DEF ResumeAttackOrderPick
<1>3. /\ Top \in AttackLoops /\ i \in Investigators /\ Top.list \in Seq(Enemies) /\ Top.list # <<>>
      /\ Distinct(Top.list) /\ Good(Beneath) /\ OverAnchor(Beneath) /\ FitsPhase(Top) /\ FitsPhase(Beneath[1])
      /\ Frames = {Top, Beneath[1]} /\ Beneath[1].kind = "EnemyPhase" /\ Frames \subseteq Anchors \cup AttackLoops
      BY <1>0, <1>1, LoopOnTop
<1>4. PICK q, list : q = Among(Top.list, Enemies \ {e}) /\ list = Over(e, q)
      OBVIOUS
<1>5. e \in Enemies /\ Elems(Top.list) \subseteq Enemies
      BY <1>3, ElemsOf
<1>6. q \in Seq(Enemies) /\ Distinct(q) /\ Elems(q) = Elems(Top.list) \cap (Enemies \ {e})
      BY <1>3, <1>4, AmongProperties, DistinctAmong
<1>7. list \in Seq(Enemies) /\ Distinct(list) /\ Elems(list) = {e} \cup Elems(q) /\ Head(list) = e /\ list # <<>>
  <2>1. e \notin Elems(q)
        BY <1>6
  <2>2. Distinct(Over(e, q))
        BY <1>5, <1>6, <2>1, DistinctOver
  <2>3. Over(e, q) \in Seq(Enemies) /\ Head(Over(e, q)) = e /\ Over(e, q) # <<>>
        BY <1>5, <1>6, OverSeq
  <2>4. Elems(Over(e, q)) = {e} \cup Elems(q)
        BY <1>5, <1>6, OverElems
  <2> QED BY <1>4, <2>2, <2>3, <2>4
<1>8. BeginHeadAttack(i, list, u)
      BY <1>2, <1>4 DEF Over
<1>9. Looping
      BY <1>1 DEF Looping, board, players, InPlay, IndInv, BoardTyped
<1>10. \A x \in Elems(list) : struck[x] = 0 /\ (status[i] = "Active" => Attackable(x, i)')
  <2>1. \A x \in Elems(list) : struck[x] = 0 /\ (status[i] = "Active" => Attackable(x, i))
        BY <1>0, <1>1, <1>3, <1>6, <1>7 DEF FitsPhase, ToBegin
  <2>2. \A x : Attackable(x, i) => Attackable(x, i)'
        BY <1>1 DEF Attackable, board, InPlay
  <2> QED BY <2>1, <2>2
<1>11. \A x \in InPlay : struck[x] > 0 => ending \/ enemies'[x].exhausted
  <2>1. \A x : ~Attacker(x)
        BY <1>1, <1>3 DEF Attacker
  <2> QED BY <1>1, <2>1 DEF IndInv, Strikes, board
<1>12. Lined(i, list, u)
      BY <1>0, <1>3, <1>7, <1>9, <1>10, <1>11 DEF Lined
<1>13. status[i] = "Active"
      BY <1>0, <1>1, <1>3 DEF FitsPhase
<1> QED BY <1>7, <1>8, <1>12, <1>13, Begun

------------------------------------------------------------------------------
(* Steps that move, engage, hurt or defeat: what is under them is quiet.     *)

\* What the board may do beneath a stack: nobody comes back, and an enemy engaged
\* with a player who stays does not leave them, nor is it readied.
Shifting ==
    /\ running' = TRUE /\ UNCHANGED <<struck, cancelled, used, doom>>
    /\ InPlay' \subseteq InPlay /\ (ending => ending')
    /\ \A i \in Investigators : status'[i] = "Active" => status[i] = "Active"
    /\ \A e \in InPlay' :
          /\ enemies'[e].exhausted <=> enemies[e].exhausted
          /\ \A i \in Investigators : status'[i] = "Active" /\ enemies[e].with = i => enemies'[e].with = i

\* The frames under a step, as they stood.
Rested(r) ==
    /\ Good(r) /\ Resting(r) /\ Quiet(r)
    /\ \A f \in Elems(r) : FitsPhase(f) /\ FitsAttack(f) /\ \A e \in Enemies : OwedBy(f, e) => Owed(e)

LEMMA BlowIs ==
    ASSUME NEW f, f.kind # "Effect"
    PROVE  (FitsAttack(f) <=> FitsBlow(f)) /\ (FitsAttack(f)' <=> FitsBlow(f)')
BY Zenon DEF FitsAttack

LEMMA RestedFits ==
    ASSUME NEW r, Rested(r), Shifting, NEW f \in Elems(r)
    PROVE  FitsPhase(f)' /\ FitsAttack(f)' /\ ~AsksOrActs(f)
<1>1. Good(r) /\ Resting(r) /\ Quiet(r) /\ FitsPhase(f) /\ FitsAttack(f)
      BY DEF Rested
<1>2. f \in AllFrames /\ \E k \in 1..Len(r) : r[k] = f
      BY <1>1, FramesAt
<1>3. ~AsksOrActs(f) /\ (IsEmit(f, "EnemyAttacks") => f.step \notin {"When", "ResolveCondition"})
      BY <1>1, <1>2 DEF Resting, Quiet
<1>4. struck' = struck /\ cancelled' = cancelled
      BY DEF Shifting
<1>5. FitsPhase(f)'
  <2>1. f.kind \notin {"HunterMove", "EngagementTie"}
        BY <1>3 DEF AsksOrActs
  <2>2. CASE f.kind = "AttackLoop"
    <3>1. f \in AttackLoops /\ f.stage # "PickOrder" /\ f.who \in Investigators
          BY <1>2, <1>3, <2>2, KindIs DEF AsksOrActs, AttackLoops
    <3>2. \A e : Attackable(e, f.who) /\ status'[f.who] = "Active" => Attackable(e, f.who)'
          BY <3>1 DEF Attackable, Shifting
    <3>3. \A e \in ToBegin(f) : struck[e] = 0 /\ (status[f.who] = "Active" => Attackable(e, f.who))
          BY <1>1, <2>2 DEF FitsPhase
    <3>4. ToBegin(f)' = ToBegin(f)
          BY DEF ToBegin
    <3>5. \A e \in ToBegin(f) : struck'[e] = 0 /\ (status'[f.who] = "Active" => Attackable(e, f.who)')
          BY <1>4, <3>1, <3>2, <3>3 DEF Shifting
    <3> QED BY <2>2, <3>1, <3>4, <3>5 DEF FitsPhase
  <2>3. CASE f.kind = "Elimination"
    <3>1. f.who \in Investigators
          BY <1>2, <2>3, KindIs DEF Eliminations
    <3> QED BY <1>1, <2>3, <3>1 DEF FitsPhase, Shifting
  <2>4. CASE f.kind \notin {"AttackLoop", "Elimination"}
        BY <2>1, <2>4 DEF FitsPhase
  <2> QED BY <2>2, <2>3, <2>4
<1>6. FitsAttack(f)'
  <2>1. f.kind # "Effect" /\ (f.kind = "DealDamage" => f.step = "Finish")
        BY <1>3 DEF AsksOrActs
  <2>2. FitsBlow(f)
        BY <1>1, <2>1, BlowIs
  <2>3. FitsBlow(f)'
        BY <1>3, <1>4, <2>1, <2>2 DEF FitsBlow, IsEmit
  <2> QED BY <2>1, <2>3, BlowIs
<1> QED BY <1>3, <1>5, <1>6

LEMMA Moved ==
    ASSUME IndInv, NEW r, Rested(r), Shifting, Good(stack'), NEW B, Frames' = B \cup Elems(r),
           \A f \in B : FitsPhase(f)' /\ FitsAttack(f)' /\ \A e : ~OwedBy(f, e),
           stack' # <<>> => Head(stack') \in B \/ Head(stack') \in Elems(r),
           stack' # <<>> => ~Ending(Head(stack')),
           \A f \in Frames : f.kind = "AttackLoop" => f \in Elems(r),
           BoardTyped', (ending => Active(status) = {})', EngagedTogether', NoIdleEnemy', Defeats', Spared'
    PROVE  IndInv'
<1>1. struck' = struck /\ cancelled' = cancelled /\ used' = used /\ doom' = doom /\ running' = TRUE
      BY DEF Shifting
<1>2. Fits'
      BY RestedFits DEF Fits
<1>3. Asking'
      BY <1>1 DEF Asking
<1>4. Strikes'
  <2>1. AttacksOnce'
        BY <1>1 DEF IndInv, Strikes, AttacksOnce
  <2>2. \A e : Attacker(e) => Attacker(e)'
        BY DEF Attacker
  <2>3. \A e \in InPlay' : struck'[e] > 0 => ending' \/ enemies'[e].exhausted \/ Attacker(e)'
    <3> SUFFICES ASSUME NEW e \in InPlay', struck'[e] > 0 PROVE ending' \/ enemies'[e].exhausted \/ Attacker(e)'
        OBVIOUS
    <3>1. ending \/ enemies[e].exhausted \/ Attacker(e)
          BY <1>1 DEF Shifting, IndInv, Strikes
    <3> QED BY <2>2, <3>1 DEF Shifting
  <2> QED BY <1>1, <2>1, <2>3 DEF IndInv, Strikes
<1>5. DoomCounted'
  <2>1. PICK D \in SUBSET (Acolytes \ cancelled) :
           doom = Cardinality(D) /\ \A e \in D : struck[e] > 0 /\ ~Owed(e)
        BY DEF IndInv, DoomCounted
  <2>2. \A e \in D : ~Owed(e)'
    <3> SUFFICES ASSUME NEW e \in D, Owed(e)' PROVE FALSE
        OBVIOUS
    <3>1. e \in Enemies
          BY EnemyAssumption
    <3>2. \A f : OwedBy(f, e)' <=> OwedBy(f, e)
          BY DEF OwedBy, IsEmit
    <3>3. Top' = Head(stack')
          BY DEF Top
    <3>4. \E f \in Frames' : OwedBy(f, e)
          BY <3>2, <3>3 DEF Owed
    <3>5. Owed(e)
          BY <3>1, <3>4 DEF Rested
    <3> QED BY <2>1, <3>5
  <2> QED BY <1>1, <2>1, <2>2 DEF DoomCounted
<1> QED BY <1>2, <1>3, <1>4, <1>5 DEF IndInv

------------------------------------------------------------------------------
(* Who engages whom.                                                         *)

LEMMA FiniteSeats == IsFiniteSet(Investigators)
<1>1. Order \in Seq(Investigators)
      BY Seats
<1>2. Len(Order) \in Nat /\ DOMAIN Order = 1..Len(Order)
      BY <1>1, LenProperties
<1>3. IsFiniteSet(1..Len(Order))
      BY <1>2, FS_Interval
<1>4. Order \in Surjection(1..Len(Order), Investigators)
  <2>1. Order \in [1..Len(Order) -> Investigators] /\ \A i \in Investigators : \E k \in 1..Len(Order) : Order[k] = i
        BY <1>1, <1>2 DEF Investigators, Elems
  <2> QED BY <2>1 DEF Surjection
<1> QED BY <1>3, <1>4, FS_Surjection

LEMMA CandidatesAre ==
    ASSUME NEW st, NEW e, NEW l
    PROVE  /\ Candidates(st, e, l) \subseteq Investigators
           /\ Cardinality(Candidates(st, e, l)) \in Nat
           /\ Cardinality(Candidates(st, e, l)) = 0 <=> Candidates(st, e, l) = {}
           /\ \A i \in Candidates(st, e, l) : st[i] = "Active" /\ at[i] = l /\ Pursues(e, i)
<1>1. Candidates(st, e, l) \subseteq Investigators
      BY DEF Candidates, ActiveAt, Active
<1>2. IsFiniteSet(Candidates(st, e, l))
      BY <1>1, FiniteSeats, FS_Subset
<1>3. /\ Cardinality(Candidates(st, e, l)) \in Nat
      /\ Cardinality(Candidates(st, e, l)) = 0 <=> Candidates(st, e, l) = {}
      BY <1>2, FS_CardinalityType, FS_EmptySet
<1>4. \A i \in Candidates(st, e, l) : st[i] = "Active" /\ at[i] = l /\ Pursues(e, i)
      BY DEF Candidates, ActiveAt, Active
<1> QED BY <1>1, <1>3, <1>4

LEMMA FoesAre ==
    ASSUME NEW P, NEW foes
    PROVE  foes \in FoesInPlay(P) <=>
               /\ foes \in [P -> [at : Locations, with : Investigators \cup {None}, exhausted : BOOLEAN, damage : Nat]]
               /\ \A e \in P : foes[e].damage < max_health[e]
BY DEF FoesInPlay

\* Those with one candidate are engaged with it, and those that tie are left.
EngagesWell(st, P, foes, S) ==
    /\ Engaged(st, foes, S) \in FoesInPlay(P) /\ DOMAIN Engaged(st, foes, S) = P
    /\ \A e \in P :
          /\ Engaged(st, foes, S)[e].at = foes[e].at /\ Engaged(st, foes, S)[e].exhausted = foes[e].exhausted
          /\ Engaged(st, foes, S)[e].damage = foes[e].damage
          /\ \/ Engaged(st, foes, S)[e].with = foes[e].with
             \/ /\ e \in S \ Tied(st, foes, S)
                /\ Engaged(st, foes, S)[e].with \in Candidates(st, e, foes[e].at)
          /\ e \in S /\ ~foes[e].exhausted /\ Candidates(st, e, foes[e].at) # {} =>
                \/ e \in Tied(st, foes, S)
                \/ Engaged(st, foes, S)[e].with \in Candidates(st, e, foes[e].at)

LEMMA EngagedAre ==
    ASSUME NEW st, NEW P, NEW foes \in FoesInPlay(P), NEW S \in SUBSET P
    PROVE  EngagesWell(st, P, foes, S)
<1> DEFINE C(e) == Candidates(st, e, foes[e].at)
           R == [at : Locations, with : Investigators \cup {None}, exhausted : BOOLEAN, damage : Nat]
           one(e) == e \in S /\ ~foes[e].exhausted /\ Cardinality(C(e)) = 1
           new == Engaged(st, foes, S)
<1>1. foes \in [P -> R] /\ \A e \in P : foes[e].damage < max_health[e]
      BY FoesAre
<1>2. \A e : C(e) \subseteq Investigators /\ Cardinality(C(e)) \in Nat /\ (Cardinality(C(e)) = 0 <=> C(e) = {})
      BY CandidatesAre
<1>3. new = [e \in P |-> IF one(e) THEN [foes[e] EXCEPT !.with = CHOOSE i \in C(e) : TRUE] ELSE foes[e]]
      BY <1>1 DEF Engaged
<1>4. \A e : e \in Tied(st, foes, S) <=> e \in S /\ ~foes[e].exhausted /\ Cardinality(C(e)) >= 2
      BY DEF Tied
<1> HIDE DEF C, new
<1>5. \A e : one(e) => (CHOOSE i \in C(e) : TRUE) \in C(e)
  <2> SUFFICES ASSUME NEW e, one(e) PROVE (CHOOSE i \in C(e) : TRUE) \in C(e)
      OBVIOUS
  <2>1. C(e) # {}
        BY <1>2
  <2> QED BY <2>1
<1>6. ASSUME NEW e \in P
      PROVE  /\ new[e] \in R /\ new[e].at = foes[e].at /\ new[e].exhausted = foes[e].exhausted
             /\ new[e].damage = foes[e].damage
             /\ new[e].with = foes[e].with \/ (one(e) /\ new[e].with \in C(e))
             /\ one(e) => new[e].with \in C(e)
  <2>1. foes[e] \in R
        BY <1>1
  <2>2. CASE one(e)
    <3>1. PICK i : i = (CHOOSE j \in C(e) : TRUE) /\ i \in C(e)
          BY <1>5, <2>2
    <3>2. new[e] = [foes[e] EXCEPT !.with = i]
          BY <1>3, <2>2, <3>1
    <3>3. i \in Investigators
          BY <1>2, <3>1
    <3> QED BY <2>1, <2>2, <3>1, <3>2, <3>3
  <2>3. CASE ~one(e)
    <3>1. new[e] = foes[e]
          BY <1>3, <2>3
    <3> QED BY <2>1, <2>3, <3>1
  <2> QED BY <2>2, <2>3
<1>7. new \in [P -> R] /\ DOMAIN new = P
  <2>1. DOMAIN new = P /\ new = [e \in P |-> new[e]]
        BY <1>3
  <2> QED BY <1>6, <2>1
<1>8. new \in FoesInPlay(P)
      BY <1>1, <1>6, <1>7, FoesAre
<1>9. ASSUME NEW e \in P
      PROVE  /\ new[e].with = foes[e].with \/ (e \in S \ Tied(st, foes, S) /\ new[e].with \in C(e))
             /\ e \in S /\ ~foes[e].exhausted /\ C(e) # {} => e \in Tied(st, foes, S) \/ new[e].with \in C(e)
  <2>1. one(e) => e \in S /\ e \notin Tied(st, foes, S)
        BY <1>2, <1>4
  <2>2. e \in S /\ ~foes[e].exhausted /\ C(e) # {} => e \in Tied(st, foes, S) \/ one(e)
    <3>1. Cardinality(C(e)) \in Nat /\ (C(e) # {} => Cardinality(C(e)) # 0)
          BY <1>2
    <3>2. C(e) # {} => Cardinality(C(e)) = 1 \/ Cardinality(C(e)) >= 2
          BY <3>1
    <3> QED BY <1>4, <3>2
  <2> QED BY <1>6, <2>1, <2>2
<1> QED BY <1>6, <1>7, <1>8, <1>9 DEF new, C, EngagesWell

\* The lead is asked for the enemies that tie, on top of what is there.
TiesPut(st, foes, S, r) ==
    \/ Tied(st, foes, S) = {} /\ Ties(st, foes, S) \o r = r
    \/ \E t \in EngagementTies :
          /\ Ties(st, foes, S) \o r = Over(t, r) /\ Good(Over(t, r)) /\ t.kind = "EngagementTie"
          /\ Elems(t.ties) = Tied(st, foes, S) /\ t \in AllFrames

LEMMA TiesOn ==
    ASSUME NEW st, NEW foes, NEW S \in SUBSET Enemies, NEW r, Good(r), Resting(r), Quiet(r)
    PROVE  TiesPut(st, foes, S, r)
<1>1. r \in Seq(AllFrames)
      BY DEF Good
<1>2. CASE Tied(st, foes, S) = {}
  <2>1. Ties(st, foes, S) = <<>>
        BY <1>2 DEF Ties
  <2> QED BY <1>1, <1>2, <2>1, OverTwo DEF TiesPut
<1>3. CASE Tied(st, foes, S) # {}
  <2> DEFINE q == InOrder(Tied(st, foes, S))
             t == EngagementTie(q)
  <2>1. Tied(st, foes, S) \subseteq Enemies
        BY DEF Tied
  <2>2. q \in Seq(Enemies) /\ Distinct(q) /\ Elems(q) = Tied(st, foes, S) /\ q # <<>>
    <3>1. Enemies \cap Tied(st, foes, S) = Tied(st, foes, S)
          BY <2>1
    <3>2. \A G : /\ InOrder(G) \in Seq(Enemies) /\ Distinct(InOrder(G)) /\ Elems(InOrder(G)) = Enemies \cap G
                 /\ (InOrder(G) = <<>> <=> Enemies \cap G = {})
          BY InOrderIs
    <3> QED BY <1>3, <3>1, <3>2
  <2>3. Ties(st, foes, S) = <<t>>
        BY <1>3 DEF Ties
  <2> HIDE DEF q
  <2>4. t \in EngagementTies /\ t.kind = "EngagementTie" /\ t.ties = q
        BY <2>2 DEF EngagementTie, EngagementTies
  <2>5. t \in PhaseFrames /\ t \in AllFrames
        BY <2>4 DEF PhaseFrames, AllFrames
  <2> HIDE DEF t
  <2>6. StandsPhase(t, r)
        BY <2>2, <2>4 DEF StandsPhase
  <2>7. Good(Over(t, r)) /\ Ties(st, foes, S) \o r = Over(t, r)
        BY <2>3, <2>5, <2>6, GoodPhase DEF Over
  <2> QED BY <2>2, <2>4, <2>5, <2>7 DEF TiesPut
<1> QED BY <1>2, <1>3

\* Enemies without prey engage it where they stand, after a move or when they are freed.
Rearranges(r, st, foes, S) ==
    /\ Rested(r) /\ foes \in FoesInPlay(InPlay) /\ S \in SUBSET InPlay
    /\ st = status' /\ enemies' = Engaged(st, foes, S) /\ stack' = Ties(st, foes, S) \o r
    /\ running' = TRUE /\ UNCHANGED <<struck, cancelled, used, doom, announced>>
    /\ (ending => ending') /\ (ending' => Active(st) = {}) /\ ending' \in BOOLEAN
    /\ status' \in [Investigators -> {"Active", "Defeated"}]
    /\ at' \in [Investigators -> Locations \cup {None}] /\ left' \in [Investigators -> Points]
    /\ asset' \in Capacities /\ dodge' \subseteq Investigators
    /\ \A i \in Investigators : st[i] = "Active" => status[i] = "Active" /\ at'[i] = at[i]
    /\ \A e \in InPlay : (foes[e].exhausted <=> enemies[e].exhausted) /\ foes[e].damage = enemies[e].damage
    /\ \A e \in S : foes[e].with = None /\ \A i \in Investigators : enemies[e].with = i => st[i] # "Active"
    /\ \A e \in InPlay \ S :
          /\ foes[e] = enemies[e]
          /\ \A i \in Investigators : enemies[e].with = i =>
                (status[i] = "Active" => st[i] = "Active") /\ (i \in Leaving => i \in Leaving')
    /\ \A f \in Frames : f.kind # "EngagementTie" /\ (f.kind = "AttackLoop" => f \in Elems(r))
    /\ \A e \in Enemies : \A f \in Frames : Tells(f, e) => \E g \in Elems(r) : Tells(g, e)

LEMMA Rearranged ==
    ASSUME IndInv, NEW r, NEW st, NEW foes, NEW S, Rearranges(r, st, foes, S)
    PROVE  IndInv'
<1> SUFFICES ASSUME
           Rested(r), foes \in FoesInPlay(InPlay), S \in SUBSET InPlay,
           st = status', enemies' = Engaged(st, foes, S), stack' = Ties(st, foes, S) \o r,
           running' = TRUE, UNCHANGED <<struck, cancelled, used, doom, announced>>,
           ending => ending', ending' => Active(st) = {}, ending' \in BOOLEAN,
           status' \in [Investigators -> {"Active", "Defeated"}],
           at' \in [Investigators -> Locations \cup {None}], left' \in [Investigators -> Points],
           asset' \in Capacities, dodge' \subseteq Investigators,
           \A i \in Investigators : st[i] = "Active" => status[i] = "Active" /\ at'[i] = at[i],
           \A e \in InPlay : (foes[e].exhausted <=> enemies[e].exhausted) /\ foes[e].damage = enemies[e].damage,
           \A e \in S : foes[e].with = None /\ \A i \in Investigators : enemies[e].with = i => st[i] # "Active",
           \A e \in InPlay \ S :
               /\ foes[e] = enemies[e]
               /\ \A i \in Investigators : enemies[e].with = i =>
                     (status[i] = "Active" => st[i] = "Active") /\ (i \in Leaving => i \in Leaving'),
           \A f \in Frames : f.kind # "EngagementTie" /\ (f.kind = "AttackLoop" => f \in Elems(r)),
           \A e \in Enemies : \A f \in Frames : Tells(f, e) => \E g \in Elems(r) : Tells(g, e)
    PROVE  IndInv'
    BY DEF Rearranges
<1>1. InPlay \subseteq Enemies
      BY DEF IndInv, BoardTyped
<1>2. Good(r) /\ Resting(r) /\ Quiet(r) /\ r \in Seq(AllFrames)
      BY DEF Rested, Good
<1>3. \/ Tied(st, foes, S) = {} /\ stack' = r
      \/ \E t \in EngagementTies :
            stack' = Over(t, r) /\ Good(stack') /\ t.kind = "EngagementTie" /\ Elems(t.ties) = Tied(st, foes, S) /\ t \in AllFrames
  <2>1. TiesPut(st, foes, S, r)
        BY <1>1, <1>2, TiesOn
  <2>2. stack' = Ties(st, foes, S) \o r
        OBVIOUS
  <2>3. CASE Tied(st, foes, S) = {} /\ stack' = r
        BY <2>3
  <2>4. ASSUME NEW t \in EngagementTies, stack' = Over(t, r), Good(Over(t, r)), t.kind = "EngagementTie",
               Elems(t.ties) = Tied(st, foes, S), t \in AllFrames
        PROVE  \E u \in EngagementTies :
                  stack' = Over(u, r) /\ Good(stack') /\ u.kind = "EngagementTie" /\ Elems(u.ties) = Tied(st, foes, S) /\ u \in AllFrames
    <3>1. Good(stack')
          BY <2>4
    <3> QED BY <2>4, <3>1
  <2> QED BY <2>1, <2>2, <2>3, <2>4 DEF TiesPut
<1>17. PICK B : /\ Frames' = B \cup Elems(r) /\ Good(stack')
                /\ (stack' # <<>> => Head(stack') \in B \/ (stack' = r /\ Head(stack') \in Elems(r)))
                /\ (\A t \in B : t.kind = "EngagementTie" /\ Elems(t.ties) = Tied(st, foes, S))
                /\ (Tied(st, foes, S) # {} => B # {})
  <2>1. CASE Tied(st, foes, S) = {} /\ stack' = r
    <3>1. Frames' = {} \cup Elems(r)
          BY <1>2, <2>1 DEF Frames, Elems
    <3>2. r # <<>> => Head(r) \in Elems(r)
          BY <1>2, ElemsOf
    <3> WITNESS {}
    <3> QED BY <1>2, <2>1, <3>1, <3>2
  <2>2. CASE \E t \in EngagementTies :
                stack' = Over(t, r) /\ Good(stack') /\ t.kind = "EngagementTie" /\ Elems(t.ties) = Tied(st, foes, S) /\ t \in AllFrames
    <3>1. PICK t \in EngagementTies :
                stack' = Over(t, r) /\ Good(stack') /\ t.kind = "EngagementTie" /\ Elems(t.ties) = Tied(st, foes, S) /\ t \in AllFrames
          BY <2>2
    <3>2. Frames' = {t} \cup Elems(r) /\ Head(stack') = t
          BY <1>2, <3>1, FramesAre
    <3> WITNESS {t}
    <3> QED BY <3>1, <3>2
  <2> QED BY <1>3, <2>1, <2>2
<1>4. /\ enemies' \in FoesInPlay(InPlay) /\ DOMAIN enemies' = InPlay
      /\ \A e \in InPlay :
            /\ enemies'[e].at = foes[e].at /\ enemies'[e].exhausted = foes[e].exhausted /\ enemies'[e].damage = foes[e].damage
            /\ \/ enemies'[e].with = foes[e].with
               \/ e \in S \ Tied(st, foes, S) /\ enemies'[e].with \in Candidates(st, e, foes[e].at)
            /\ e \in S /\ ~foes[e].exhausted /\ Candidates(st, e, foes[e].at) # {} =>
                  e \in Tied(st, foes, S) \/ enemies'[e].with \in Candidates(st, e, foes[e].at)
  <2>1. EngagesWell(st, InPlay, foes, S)
        BY EngagedAre
  <2> QED BY <2>1 DEF EngagesWell
<1>5. InPlay' = InPlay
      BY <1>4 DEF InPlay
<1>6. BoardTyped'
      BY <1>4, <1>5 DEF IndInv, BoardTyped
<1>7. \A e \in InPlay : enemies[e].with \in Investigators \cup {None} /\ None \notin Investigators
      BY OrderAssumption, FoesAre DEF IndInv, BoardTyped
<1>8. Shifting
  <2>1. \A e \in InPlay : enemies'[e].exhausted <=> enemies[e].exhausted
        BY <1>4
  <2>2. ASSUME NEW e \in InPlay, NEW i \in Investigators, st[i] = "Active", enemies[e].with = i
        PROVE  enemies'[e].with = i
    <3>1. e \notin S
          BY <2>2
    <3> QED BY <1>4, <2>2, <3>1
  <2> QED BY <1>5, <2>1, <2>2 DEF Shifting
<1>9. \A t \in B : FitsPhase(t)' /\ FitsAttack(t)' /\ ~Ending(t) /\ \A e : ~OwedBy(t, e)
  <2> SUFFICES ASSUME NEW t \in B PROVE FitsPhase(t)' /\ FitsAttack(t)' /\ ~Ending(t) /\ \A e : ~OwedBy(t, e)
      OBVIOUS
  <2>1. t.kind = "EngagementTie" /\ Elems(t.ties) = Tied(st, foes, S)
        BY <1>17
  <2>2. \A e \in Tied(st, foes, S) : e \in InPlay' /\ enemies'[e].with = None
        BY <1>4, <1>5 DEF Tied
  <2>3. FitsPhase(t)'
        BY <2>1, <2>2 DEF FitsPhase
  <2>4. FitsAttack(t)'
        BY <2>1, BlowIs DEF FitsBlow, IsEmit
  <2> QED BY <2>1, <2>3, <2>4 DEF Ending, OwedBy, IsEmit
<1>10. stack' # <<>> => ~Ending(Head(stack')) /\ Head(stack').kind # "Effect"
  <2>1. CASE stack' # <<>> /\ Head(stack') \in B
        BY <1>17, <1>9, <2>1
  <2>2. CASE stack' # <<>> /\ Head(stack') \notin B
    <3>1. stack' = r
          BY <1>17, <2>2
    <3>2. Head(stack') = r[1] /\ 1 \in 1..Len(r) /\ Len(r) >= 1
          BY <1>2, <2>2, <3>1, HeadOver
    <3> QED BY <1>2, <3>2 DEF Resting, AsksOrActs
  <2> QED BY <2>1, <2>2
<1>11. \A e, l : Candidates(status, e, l)' = Candidates(st, e, l) /\ Candidates(st, e, l) \subseteq Candidates(status, e, l)
      BY DEF Candidates, ActiveAt, Active
<1>12. EngagedTogether'
  <2> SUFFICES ASSUME NEW e \in InPlay, enemies'[e].with # None
               PROVE  \/ status'[enemies'[e].with] = "Active" /\ at'[enemies'[e].with] = enemies'[e].at
                      \/ enemies'[e].with \in Leaving'
      BY <1>5 DEF EngagedTogether
  <2>1. CASE enemies'[e].with = foes[e].with
    <3>1. e \notin S /\ foes[e] = enemies[e]
          BY <2>1
    <3>2. PICK i \in Investigators : i = enemies[e].with
          BY <1>7, <2>1, <3>1
    <3>3. (status[i] = "Active" /\ at[i] = enemies[e].at) \/ i \in Leaving
          BY <2>1, <3>1, <3>2 DEF IndInv, EngagedTogether
    <3>4. (st[i] = "Active" /\ at'[i] = enemies[e].at) \/ i \in Leaving'
          BY <3>1, <3>2, <3>3
    <3> QED BY <1>4, <2>1, <3>1, <3>2, <3>4
  <2>2. CASE enemies'[e].with \in Candidates(st, e, foes[e].at)
    <3>1. PICK i \in Investigators : i = enemies'[e].with /\ st[i] = "Active" /\ at[i] = foes[e].at
          BY <2>2, CandidatesAre
    <3> QED BY <1>4, <3>1
  <2> QED BY <1>4, <2>1, <2>2
<1>13. NoIdleEnemy'
  <2> SUFFICES ASSUME NEW e \in InPlay, enemies'[e].with = None, ~enemies'[e].exhausted,
                      Candidates(st, e, enemies'[e].at) # {}
               PROVE  \E f \in Frames' : f.kind = "EngagementTie" /\ e \in Elems(f.ties)
      BY <1>5, <1>11 DEF NoIdleEnemy
  <2>1. e \in S
    <3> SUFFICES ASSUME e \notin S PROVE FALSE
        OBVIOUS
    <3>1. foes[e] = enemies[e] /\ enemies[e].with = None /\ ~enemies[e].exhausted /\ enemies'[e].at = enemies[e].at
          BY <1>4
    <3>2. Candidates(status, e, enemies[e].at) = {}
          BY <3>1 DEF IndInv, NoIdleEnemy
    <3> QED BY <1>11, <3>1, <3>2
  <2>2. e \in Tied(st, foes, S)
    <3>1. enemies'[e].with \notin Candidates(st, e, foes[e].at)
          BY <1>7, CandidatesAre
    <3> QED BY <1>4, <2>1, <3>1
  <2> QED BY <1>17, <2>2
<1>14. Defeats'
  <2>1. \A x, e : Tells(x, e)' <=> Tells(x, e)
        BY DEF Tells, IsEmit
  <2> QED BY <1>17, <1>5, <2>1 DEF IndInv, Defeats
<1>15. Spared'
  <2>1. ~Striking(stack')
        BY <1>10 DEF Striking
  <2> QED BY <1>4, <1>5, <2>1 DEF IndInv, Spared
<1>16. (ending => Active(status) = {})'
      BY DEF Active
<1> QED BY <1>6, <1>8, <1>9, <1>17, <1>10, <1>12, <1>13, <1>14, <1>15, <1>16, Moved

------------------------------------------------------------------------------
(* The hunters' moves and the ties they leave.                               *)

\* An anchor, by itself.
LEMMA AnchorRests ==
    ASSUME NEW f \in Anchors, f.resume = "BeforeInvestigatorAttacked" => f.who \in Investigators
    PROVE  Rested(Over(f, <<>>)) /\ OverAnchor(Over(f, <<>>)) /\ Elems(Over(f, <<>>)) = {f}
<1>1. f \in AllFrames /\ f \in PhaseFrames /\ f.kind = "EnemyPhase"
      BY DEF Anchors, PhaseFrames, AllFrames
<1>2. Good(<<>>) /\ Resting(<<>>) /\ <<>> \in Seq(AllFrames) /\ Elems(<<>>) = {} /\ Len(<<>>) = 0
  <2>1. <<>> \in Seq(AllFrames) /\ Len(<<>>) = 0
        BY EmptySeq
  <2>2. Elems(<<>>) = {}
        BY <2>1, ElemsOf
  <2> QED BY <2>1, <2>2, GoodEmpty DEF Resting
<1> DEFINE r == Over(f, <<>>)
<1>3. Good(r)
  <2>1. StandsPhase(f, <<>>)
        BY <1>1 DEF StandsPhase
  <2> QED BY <1>1, <1>2, <2>1, GoodPhase
<1>4. OverAnchor(r)
  <2>1. Len(r) = Len(<<>>) + 1 /\ r[1] = f
        BY <1>1, <1>2, OverSeq, ZenonT(30)
  <2> QED BY <1>1, <1>2, <2>1 DEF OverAnchor
<1>5. Elems(r) = {f}
  <2>1. r[1] = f
        BY <1>1, <1>2, OverSeq, ZenonT(30)
  <2> QED BY <1>3, <1>4, <2>1, AnchorIs
<1> HIDE DEF r
<1>6. Resting(r) /\ Quiet(r)
      BY <1>3, <1>4, AnchorIs
<1>7. FitsPhase(f) /\ FitsAttack(f) /\ \A e : ~OwedBy(f, e)
  <2>1. FitsAttack(f)
        BY <1>1, BlowIs DEF FitsBlow, IsEmit
  <2> QED BY <1>1, <2>1 DEF FitsPhase, OwedBy, IsEmit
<1>8. Rested(r)
      BY <1>3, <1>5, <1>6, <1>7 DEF Rested
<1> QED BY <1>4, <1>5, <1>8 DEF r

LEMMA Arrived ==
    ASSUME IndInv, NEW e \in InPlay, NEW l \in Locations, NEW r, Rested(r), enemies[e].with = None,
           ArrivesAt(e, l, r), running' = TRUE, UNCHANGED <<players, doom, ending, histories>>,
           \A f \in Frames : f.kind \in {"EnemyPhase", "HunterMove"}
    PROVE  IndInv'
<1>1. PICK st, moved, S : st = status /\ moved = [enemies EXCEPT ![e].at = l] /\ S = {e}
      OBVIOUS
<1>2. /\ status' = st /\ at' = at /\ left' = left /\ asset' = asset /\ dodge' = dodge /\ used' = used
      /\ doom' = doom /\ ending' = ending /\ struck' = struck /\ cancelled' = cancelled /\ announced' = announced
      BY <1>1 DEF players, histories
<1>3. enemies' = Engaged(st, moved, S) /\ stack' = Ties(st, moved, S) \o r
      BY <1>1 DEF ArrivesAt
<1>4. BoardTyped /\ (ending => Active(st) = {})
      BY <1>1 DEF IndInv
<1>5. /\ moved \in FoesInPlay(InPlay) /\ moved[e].with = None
      /\ \A x \in InPlay : (moved[x].exhausted <=> enemies[x].exhausted) /\ moved[x].damage = enemies[x].damage
                           /\ (x # e => moved[x] = enemies[x])
  <2> DEFINE R == [at : Locations, with : Investigators \cup {None}, exhausted : BOOLEAN, damage : Nat]
  <2>1. enemies \in [InPlay -> R] /\ \A x \in InPlay : enemies[x].damage < max_health[x]
        BY <1>4, FoesAre DEF BoardTyped
  <2>2. moved \in [InPlay -> R]
        BY <1>1, <2>1
  <2>3. \A x \in InPlay : /\ moved[x].exhausted = enemies[x].exhausted /\ moved[x].damage = enemies[x].damage
                          /\ moved[x].with = enemies[x].with /\ (x # e => moved[x] = enemies[x])
        BY <1>1, <2>1
  <2>4. moved \in FoesInPlay(InPlay)
        BY <2>1, <2>2, <2>3, FoesAre
  <2> QED BY <2>3, <2>4
<1>6. \A x \in S : moved[x].with = None /\ \A i \in Investigators : enemies[x].with = i => st[i] # "Active"
      BY <1>1, <1>5, OrderAssumption
<1>7. Leaving = {}
      BY DEF Leaving
<1>8. \A x \in InPlay \ S :
          /\ moved[x] = enemies[x]
          /\ \A i \in Investigators : enemies[x].with = i =>
                (status[i] = "Active" => st[i] = "Active") /\ (i \in Leaving => i \in Leaving')
      BY <1>1, <1>5, <1>7
<1>9. \A x \in Enemies : \A f \in Frames : ~Tells(f, x)
      BY DEF Tells, IsEmit
<1>10. S \in SUBSET InPlay
      BY <1>1
<1>11. /\ ending' \in BOOLEAN /\ status' \in [Investigators -> {"Active", "Defeated"}]
       /\ at' \in [Investigators -> Locations \cup {None}] /\ left' \in [Investigators -> Points]
       /\ asset' \in Capacities /\ dodge' \subseteq Investigators
      BY <1>1, <1>2, <1>4 DEF BoardTyped
<1>12. \A i \in Investigators : st[i] = "Active" => status[i] = "Active" /\ at'[i] = at[i]
      BY <1>1, <1>2
<1>13. \A f \in Frames : f.kind # "EngagementTie" /\ (f.kind = "AttackLoop" => f \in Elems(r))
      OBVIOUS
<1>14. UNCHANGED <<struck, cancelled, used, doom, announced>> /\ (ending => ending') /\ (ending' => Active(st) = {})
       /\ st = status'
      BY <1>2, <1>4
<1>15. Rearranges(r, st, moved, S)
      BY <1>3, <1>5, <1>6, <1>8, <1>9, <1>10, <1>11, <1>12, <1>13, <1>14 DEF Rearranges
<1> QED BY <1>15, Rearranged

\* The next hunter is in play and hunts.
LEMMA HunterIs ==
    ASSUME BoardTyped, NEW after, NextHunter(after) # None
    PROVE  /\ NextHunter(after) \in InPlay /\ NextHunter(after) \in Enemies
           /\ enemies[NextHunter(after)].with = None /\ enemies[NextHunter(after)].at \in Locations
<1>1. PICK rest : rest = {e \in InPlay : Hunts(e) /\
                    (after = None \/ \E j, k \in DOMAIN Foes : Foes[j] = after /\ Foes[k] = e /\ j < k)}
      OBVIOUS
<1>2. NextHunter(after) = IF rest = {} THEN None ELSE Head(InOrder(rest))
      BY <1>1 DEF NextHunter
<1>3. rest # {} /\ rest \subseteq InPlay /\ InPlay \subseteq Enemies
      BY <1>1, <1>2 DEF BoardTyped
<1>4. InOrder(rest) \in Seq(Enemies) /\ Elems(InOrder(rest)) = Enemies \cap rest /\ InOrder(rest) # <<>>
      BY <1>3, InOrderIs
<1>5. NextHunter(after) \in rest
      BY <1>2, <1>3, <1>4, ElemsOf
<1>6. \A e \in rest : enemies[e].with = None
      BY <1>1 DEF Hunts
<1>7. \A e \in InPlay : enemies[e].at \in Locations
      BY FoesAre DEF BoardTyped
<1> QED BY <1>3, <1>5, <1>6, <1>7

LEMMA StepMoveHunter == ASSUME IndInv, MoveHunter PROVE IndInv'
<1>1. PICK e, g : e = NextHunter(Top.who) /\ g = Anchor("HuntersAfter", e)
      OBVIOUS
<1>2. /\ Drives("EnemyPhase") /\ e # None /\ UNCHANGED <<running, players, doom, ending, histories>>
      /\ \/ ArrivesAt(e, enemies[e].at, <<g>> \o Beneath)
         \/ \E l \in Destinations(e) : ArrivesAt(e, l, <<g>> \o Beneath)
         \/ /\ stack' = (IF Destinations(e) = {} THEN <<>>
                         ELSE <<[kind |-> "HunterMove", enemy |-> e]>>) \o (<<g>> \o Beneath)
            /\ UNCHANGED enemies
      BY <1>1 DEF MoveHunter
<1>3. /\ stack # <<>> /\ running = TRUE /\ Top.kind = "EnemyPhase" /\ Good(stack) /\ Stands(Top, Beneath)
      /\ Frames = {Top} \cup Elems(Beneath) /\ Beneath \in Seq(AllFrames)
      BY <1>2, Driving
<1>4. Beneath = <<>> /\ Frames = {Top}
  <2>1. Beneath = <<>>
        BY <1>3 DEF Stands, StandsPhase
  <2> QED BY <1>3, <2>1, ElemsOf
<1>5. e \in InPlay /\ e \in Enemies /\ enemies[e].with = None /\ enemies[e].at \in Locations
      BY <1>1, <1>2, HunterIs DEF IndInv
<1>6. g \in Anchors /\ g.kind = "EnemyPhase" /\ g.resume = "HuntersAfter" /\ g \in AllFrames
      BY <1>1, <1>5 DEF Anchor, Anchors, PhaseFrames, AllFrames
<1>7. PICK r : r = Over(g, <<>>) /\ r = <<g>> \o Beneath
      BY <1>4 DEF Over
<1>8. Rested(r) /\ OverAnchor(r) /\ Elems(r) = {g}
      BY <1>6, <1>7, AnchorRests
<1>9. \A l \in Destinations(e) : l \in Locations
  <2>1. Destinations(e) \subseteq Adjacent[enemies[e].at]
        BY DEF Destinations
  <2> QED BY <1>5, <2>1, EnemyAssumption
<1>10. \A f \in Frames : f.kind \in {"EnemyPhase", "HunterMove"}
      BY <1>3, <1>4
<1>11. ASSUME NEW l \in Locations, ArrivesAt(e, l, r) PROVE IndInv'
  <2>1. running' = TRUE /\ UNCHANGED <<players, doom, ending, histories>>
        BY <1>2, <1>3
  <2> QED BY <1>5, <1>8, <1>10, <1>11, <2>1, Arrived
<1>12. CASE stack' = (IF Destinations(e) = {} THEN <<>>
                      ELSE <<[kind |-> "HunterMove", enemy |-> e]>>) \o r /\ UNCHANGED enemies
  <2>1. Same /\ announced' = announced /\ running' \in BOOLEAN
        BY <1>2, <1>3, <1>12 DEF Same, board, histories
  <2>2. /\ Good(r) /\ Resting(r) /\ r \in Seq(AllFrames) /\ FitsPhase(g) /\ FitsAttack(g)
        BY <1>8 DEF Rested, Good
  <2>3. ~Ending(g) /\ \A e1 : ~OwedBy(g, e1) /\ ~Tells(Top, e1)
        BY <1>3, <1>6 DEF Ending, OwedBy, Tells, IsEmit
  <2>4. CASE Destinations(e) = {}
    <3>1. stack' = Over(g, Beneath)
          BY <1>4, <1>7, <1>12, <2>2, <2>4, OverTwo
    <3>2. Good(stack')
          BY <1>4, <1>7, <2>2, <3>1
    <3> QED BY <1>3, <1>6, <2>1, <2>2, <2>3, <3>1, <3>2, <1>2, ToppedOne
  <2>5. CASE Destinations(e) # {}
    <3>1. PICK m : m = [kind |-> "HunterMove", enemy |-> e]
          OBVIOUS
    <3>2. m \in HunterMoves /\ m.kind = "HunterMove" /\ m.enemy = e /\ m \in PhaseFrames /\ m \in AllFrames
          BY <1>5, <3>1 DEF HunterMoves, PhaseFrames, AllFrames
    <3>3. stack' = Over(m, Over(g, Beneath))
          BY <1>4, <1>7, <1>12, <2>5, <3>1 DEF Over
    <3>4. Good(stack')
      <4>1. StandsPhase(m, r)
            BY <1>8, <3>2 DEF StandsPhase
      <4>2. Good(Over(m, r))
            BY <2>2, <3>2, <4>1, GoodPhase
      <4> QED BY <1>4, <1>7, <3>3, <4>2
    <3>5. FitsPhase(m) /\ FitsAttack(m)
      <4>1. FitsAttack(m)
            BY <3>2, BlowIs DEF FitsBlow, IsEmit
      <4> QED BY <1>5, <3>2, <4>1 DEF FitsPhase
    <3>6. ~Ending(m) /\ \A e1 : ~OwedBy(m, e1)
          BY <3>2 DEF Ending, OwedBy, IsEmit
    <3>7. running' = TRUE
          BY <1>2, <1>3
    <3> QED BY <1>3, <1>6, <2>1, <2>2, <2>3, <3>2, <3>3, <3>4, <3>5, <3>6, <3>7, ToppedTwo
  <2> QED BY <2>4, <2>5
<1> QED BY <1>2, <1>5, <1>7, <1>9, <1>11, <1>12

LEMMA StepResumeHunterChoice == ASSUME IndInv, ResumeHunterChoice PROVE IndInv'
<1>1. PICK e, l : e = Top.enemy /\ l \in Destinations(e) /\ ArrivesAt(e, l, Beneath)
      BY DEF ResumeHunterChoice
<1>2. stack # <<>> /\ Top.kind = "HunterMove" /\ running' = TRUE /\ UNCHANGED <<players, doom, ending, histories>>
      BY DEF ResumeHunterChoice, Answers
<1>3. Top \in AllFrames /\ Good(Beneath) /\ Stands(Top, Beneath) /\ Frames = {Top} \cup Elems(Beneath)
      BY <1>2, TopIs DEF IndInv
<1>4. OverAnchor(Beneath)
      BY <1>2, <1>3 DEF Stands, StandsPhase
<1>5. /\ Beneath[1] \in Anchors /\ Beneath[1].kind = "EnemyPhase" /\ Elems(Beneath) = {Beneath[1]}
      /\ Resting(Beneath) /\ Quiet(Beneath)
      BY <1>3, <1>4, AnchorIs
<1>6. PICK r : r = Beneath
      OBVIOUS
<1>7. Rested(r)
  <2>1. \A f \in Elems(r) : FitsPhase(f) /\ FitsAttack(f)
        BY <1>3, <1>6 DEF IndInv, Fits
  <2>2. \A x : ~OwedBy(Beneath[1], x)
        BY <1>5 DEF OwedBy, IsEmit
  <2> QED BY <1>3, <1>5, <1>6, <2>1, <2>2 DEF Rested
<1>8. e \in InPlay /\ enemies[e].with = None
  <2>1. FitsPhase(Top)
        BY <1>3 DEF IndInv, Fits
  <2> QED BY <1>1, <1>2, <2>1 DEF FitsPhase
<1>9. l \in Locations
  <2>1. Destinations(e) \subseteq Adjacent[enemies[e].at]
        BY DEF Destinations
  <2>2. enemies[e].at \in Locations
        BY <1>8, FoesAre DEF IndInv, BoardTyped
  <2> QED BY <1>1, <2>1, <2>2, EnemyAssumption
<1>10. \A f \in Frames : f.kind \in {"EnemyPhase", "HunterMove"}
      BY <1>2, <1>3, <1>5
<1> QED BY <1>1, <1>2, <1>6, <1>7, <1>8, <1>9, <1>10, Arrived

------------------------------------------------------------------------------
(* Elimination: the enemies an investigator leaves behind, and what waits    *)
(* for a weakness.                                                           *)

LEMMA Eliminated ==
    ASSUME IndInv, NEW st, NEW i \in Investigators, NEW r, Rested(r), RunEliminationSteps(st, i, r),
           st = status', status' \in [Investigators -> {"Active", "Defeated"}], st[i] # "Active",
           \A j \in Investigators : j # i => st[j] = status[j],
           running' = TRUE, UNCHANGED <<struck, cancelled, used, doom, announced>>, left' \in [Investigators -> Points],
           \A f \in Frames : /\ f.kind # "EngagementTie" /\ (f.kind = "AttackLoop" => f \in Elems(r))
                             /\ f.kind = "Elimination" => f.who = i \/ f \in Elems(r),
           \A e \in Enemies : \A f \in Frames : Tells(f, e) => \E g \in Elems(r) : Tells(g, e)
    PROVE  IndInv'
<1>1. PICK S, foes : /\ S = {e \in InPlay : enemies[e].with = i}
                     /\ foes = [e \in InPlay |-> IF e \in S THEN [enemies[e] EXCEPT !.with = None] ELSE enemies[e]]
      OBVIOUS
<1>2. /\ enemies' = Engaged(st, foes, S) /\ stack' = Ties(st, foes, S) \o TakeLimboCards(r, i)
      /\ asset' = [asset EXCEPT ![i] = None] /\ dodge' = dodge \ {i}
      /\ at' = [at EXCEPT ![i] = None] /\ ending' = (Active(st) = {})
      BY <1>1 DEF RunEliminationSteps
<1>3. Good(r) /\ Resting(r) /\ Quiet(r) /\ r \in Seq(AllFrames)
      BY DEF Rested, Good
<1>4. stack' = Ties(st, foes, S) \o r
  <2>1. DOMAIN r = 1..Len(r)
        BY <1>3, LenProperties
  <2>2. TakeLimboCards(r, i) = [k \in DOMAIN r |-> r[k]]
        BY <1>3, <2>1 DEF TakeLimboCards, Quiet
  <2>3. r = [k \in DOMAIN r |-> r[k]]
    <3>1. r \in [1..Len(r) -> AllFrames]
          BY <1>3, LenProperties
    <3> QED BY <3>1
  <2> QED BY <1>2, <2>2, <2>3
<1>5. BoardTyped /\ InPlay \subseteq Enemies /\ None \notin Investigators
      BY OrderAssumption DEF IndInv, BoardTyped
<1>6. /\ foes \in FoesInPlay(InPlay) /\ \A e \in S : foes[e].with = None
      /\ \A e \in InPlay : /\ foes[e].exhausted = enemies[e].exhausted /\ foes[e].damage = enemies[e].damage
                           /\ (e \notin S => foes[e] = enemies[e])
  <2> DEFINE R == [at : Locations, with : Investigators \cup {None}, exhausted : BOOLEAN, damage : Nat]
  <2>1. enemies \in [InPlay -> R] /\ \A e \in InPlay : enemies[e].damage < max_health[e]
        BY <1>5, FoesAre DEF BoardTyped
  <2>2. \A e \in InPlay : /\ foes[e] \in R /\ foes[e].exhausted = enemies[e].exhausted
                          /\ foes[e].damage = enemies[e].damage /\ (e \notin S => foes[e] = enemies[e])
                          /\ (e \in S => foes[e].with = None)
        BY <1>1, <2>1
  <2>3. foes \in [InPlay -> R]
        BY <1>1, <2>2
  <2>4. foes \in FoesInPlay(InPlay)
        BY <2>1, <2>2, <2>3, FoesAre
  <2>5. S \subseteq InPlay
        BY <1>1
  <2> QED BY <2>2, <2>4, <2>5
<1>7. S \in SUBSET InPlay
      BY <1>1
<1>8. Elems(r) \subseteq Frames'
  <2>1. S \in SUBSET Enemies
        BY <1>5, <1>7
  <2>2. TiesPut(st, foes, S, r)
        BY <1>3, <2>1, TiesOn
  <2>3. CASE stack' = r
        BY <1>3, <2>3, FramesAre, BaseIs
  <2>4. ASSUME NEW t \in AllFrames, stack' = Over(t, r) PROVE Elems(r) \subseteq Frames'
        BY <1>3, <2>4, FramesAre
  <2> QED BY <1>4, <2>2, <2>3, <2>4 DEF TiesPut
<1>9. \A j \in Leaving : j # i => j \in Leaving'
  <2>1. \A f \in Frames : f.kind = "Elimination" /\ f.who # i => f \in Frames'
        BY <1>8
  <2> QED BY <2>1 DEF Leaving
<1>10. \A e \in S : foes[e].with = None /\ \A j \in Investigators : enemies[e].with = j => st[j] # "Active"
      BY <1>1, <1>6
<1>11. \A e \in InPlay \ S :
          /\ foes[e] = enemies[e]
          /\ \A j \in Investigators : enemies[e].with = j =>
                (status[j] = "Active" => st[j] = "Active") /\ (j \in Leaving => j \in Leaving')
  <2>1. \A e \in InPlay \ S : enemies[e].with # i
        BY <1>1
  <2> QED BY <1>6, <1>9, <2>1
<1>12. /\ ending' \in BOOLEAN /\ at' \in [Investigators -> Locations \cup {None}] /\ asset' \in Capacities
       /\ dodge' \subseteq Investigators
  <2>1. asset \in Capacities /\ at \in [Investigators -> Locations \cup {None}] /\ dodge \subseteq Investigators
        BY <1>5 DEF BoardTyped
  <2>2. asset' \in Capacities
        BY <1>2, <2>1 DEF Capacities
  <2> QED BY <1>2, <2>1, <2>2
<1>13. \A j \in Investigators : st[j] = "Active" => status[j] = "Active" /\ at'[j] = at[j]
      BY <1>2, <1>5 DEF BoardTyped
<1>14. (ending => ending') /\ (ending' => Active(st) = {})
      BY <1>2, <1>13 DEF IndInv, Active
<1>15. \A f \in Frames : f.kind # "EngagementTie" /\ (f.kind = "AttackLoop" => f \in Elems(r))
      OBVIOUS
<1>16. \A e \in InPlay : (foes[e].exhausted <=> enemies[e].exhausted) /\ foes[e].damage = enemies[e].damage
      BY <1>6
<1>17. Rearranges(r, st, foes, S)
      BY <1>2, <1>4, <1>6, <1>7, <1>10, <1>11, <1>12, <1>13, <1>14, <1>15, <1>16 DEF Rearranges
<1> QED BY <1>17, Rearranged

LEMMA StepRunSteps == ASSUME IndInv, RunSteps PROVE IndInv'
<1>1. PICK st, i, r : st = status /\ i = Top.who /\ r = Beneath
      OBVIOUS
<1>2. /\ Drives("Elimination") /\ RunEliminationSteps(st, i, r)
      /\ UNCHANGED <<running, status, left, used, doom, histories>>
      BY <1>1 DEF RunSteps
<1>3. /\ stack # <<>> /\ running = TRUE /\ Top.kind = "Elimination" /\ Good(stack) /\ Good(r) /\ Stands(Top, r)
      /\ Top \in AllFrames /\ Frames = {Top} \cup Elems(r) /\ FitsPhase(Top)
      BY <1>1, <1>2, Driving
<1>4. Resting(r) /\ \A f \in Elems(r) : ~AsksOrActs(f)
      BY <1>1, <1>3, TopIs
<1>5. Quiet(r)
      BY <1>3 DEF Stands, StandsHarm
<1>6. i \in Investigators /\ st[i] # "Active"
      BY <1>1, <1>3, KindIs DEF Eliminations, FitsPhase
<1>7. Rested(r)
  <2>1. \A f \in Elems(r) : FitsPhase(f) /\ FitsAttack(f)
        BY <1>3 DEF IndInv, Fits
  <2>2. \A f \in Elems(r) : \A e : OwedBy(f, e) => Owed(e)
        BY <1>3 DEF Owed
  <2> QED BY <1>3, <1>4, <1>5, <2>1, <2>2 DEF Rested
<1>8. \A f \in Frames : /\ f.kind # "EngagementTie" /\ (f.kind = "AttackLoop" => f \in Elems(r))
                        /\ f.kind = "Elimination" => f.who = i \/ f \in Elems(r)
      BY <1>1, <1>3, <1>4 DEF AsksOrActs
<1>9. \A e \in Enemies : \A f \in Frames : Tells(f, e) => \E g \in Elems(r) : Tells(g, e)
      BY <1>3 DEF Tells, IsEmit
<1>10. /\ st = status' /\ status' \in [Investigators -> {"Active", "Defeated"}] /\ running' = TRUE
       /\ UNCHANGED <<struck, cancelled, used, doom, announced>> /\ left' \in [Investigators -> Points]
       /\ \A j \in Investigators : j # i => st[j] = status[j]
      BY <1>1, <1>2, <1>3 DEF histories, IndInv, BoardTyped
<1> QED BY <1>2, <1>6, <1>7, <1>8, <1>9, <1>10, Eliminated

------------------------------------------------------------------------------
(* The lead says whom an enemy engages.                                      *)

\* What is under the frame on top, where it must be quiet.
LEMMA UnderRests ==
    ASSUME IndInv, stack # <<>>, Top.kind # "TimingPoint", NEW r, r = Beneath, Quiet(r)
    PROVE  /\ Rested(r) /\ r \in Seq(AllFrames) /\ Frames = {Top} \cup Elems(r)
           /\ Top \in AllFrames /\ Stands(Top, r) /\ FitsPhase(Top) /\ FitsAttack(Top)
<1>1. /\ Good(r) /\ Resting(r) /\ r \in Seq(AllFrames) /\ Frames = {Top} \cup Elems(r)
      /\ Top \in AllFrames /\ Stands(Top, r)
      BY TopIs DEF IndInv
<1>2. \A f \in Frames : FitsPhase(f) /\ FitsAttack(f) /\ \A e : OwedBy(f, e) => Owed(e)
      BY DEF IndInv, Fits, Owed
<1> QED BY <1>1, <1>2 DEF Rested

LEMMA HeadRests ==
    ASSUME NEW r, Rested(r), r # <<>>
    PROVE  Head(r) \in Elems(r) /\ ~Ending(Head(r)) /\ Head(r).kind # "Effect"
<1>1. Good(r) /\ Resting(r) /\ r \in Seq(AllFrames)
      BY DEF Rested, Good
<1>2. Head(r) \in Elems(r) /\ r[1] = Head(r) /\ Len(r) >= 1 /\ 1 \in 1..Len(r)
      BY <1>1, ElemsOf, HeadOver
<1> QED BY <1>1, <1>2 DEF Resting, AsksOrActs

LEMMA StepResumeEngagementTie == ASSUME IndInv, ResumeEngagementTie PROVE IndInv'
<1>1. PICK e, r, q : e = Head(Top.ties) /\ r = Beneath /\ q = Top.ties
      OBVIOUS
<1>2. PICK i \in Candidates(status, e, enemies[e].at) : enemies' = [enemies EXCEPT ![e].with = i]
      BY <1>1 DEF ResumeEngagementTie
<1>3. /\ stack # <<>> /\ Top.kind = "EngagementTie" /\ running' = TRUE
      /\ stack' = (IF Len(q) = 1 THEN <<>> ELSE <<EngagementTie(Tail(q))>>) \o r
      /\ UNCHANGED <<players, doom, ending, histories>>
      BY <1>1 DEF ResumeEngagementTie, Answers, Replace
<1>4. Quiet(r) /\ q # <<>> /\ Distinct(q)
  <2>1. Stands(Top, Beneath)
        BY <1>3, TopIs DEF IndInv
  <2> QED BY <1>1, <1>3, <2>1 DEF Stands, StandsPhase
<1>5. /\ Rested(r) /\ r \in Seq(AllFrames) /\ Frames = {Top} \cup Elems(r) /\ Top \in AllFrames
      /\ FitsPhase(Top)
      BY <1>1, <1>3, <1>4, UnderRests
<1>6. /\ q \in Seq(Enemies) /\ e \in Enemies /\ Tail(q) \in Seq(Enemies) /\ Elems(q) = {e} \cup Elems(Tail(q))
      /\ e \notin Elems(Tail(q)) /\ Distinct(Tail(q)) /\ Len(q) \in Nat /\ (Len(q) = 1 <=> Tail(q) = <<>>)
  <2>1. q \in Seq(Enemies)
        BY <1>1, <1>3, <1>5, KindIs DEF EngagementTies
  <2>2. /\ Head(q) \in Enemies /\ Tail(q) \in Seq(Enemies) /\ Elems(q) = {Head(q)} \cup Elems(Tail(q))
        /\ Len(q) \in Nat /\ (Len(q) = 1 => Tail(q) = <<>>) /\ (Len(q) > 1 => Tail(q) # <<>>) /\ Len(q) # 0
        BY <1>4, <2>1, ElemsOf
  <2>3. Distinct(Tail(q)) /\ Head(q) \notin Elems(Tail(q))
    <3>1. e \in Enemies
          BY <1>1, <2>2
    <3> QED BY <1>4, <2>1, <3>1, DistinctOver
  <2>4. Len(q) = 1 <=> Tail(q) = <<>>
    <3>1. PICK n \in Nat : n = Len(q) /\ n # 0
          BY <2>2
    <3>2. n = 1 \/ n > 1
          BY <3>1
    <3>3. (n = 1 => Tail(q) = <<>>) /\ (n > 1 => Tail(q) # <<>>) /\ ~(1 > 1)
          BY <2>2, <3>1
    <3> QED BY <3>1, <3>2, <3>3
  <2>5. e = Head(q)
        BY <1>1
  <2> QED BY <2>1, <2>2, <2>3, <2>4, <2>5
<1>7. \A x \in Elems(q) : x \in InPlay /\ enemies[x].with = None
      BY <1>1, <1>3, <1>5 DEF FitsPhase
<1>8. /\ status' = status /\ at' = at /\ left' = left /\ asset' = asset /\ dodge' = dodge /\ used' = used
      /\ doom' = doom /\ ending' = ending /\ struck' = struck /\ cancelled' = cancelled /\ announced' = announced
      BY <1>3 DEF players, histories
<1>9. i \in Investigators /\ status[i] = "Active" /\ at[i] = enemies[e].at
      BY CandidatesAre
<1>10. /\ InPlay' = InPlay /\ enemies' \in FoesInPlay(InPlay) /\ e \in InPlay
       /\ enemies[e].with = None
       /\ \A x \in InPlay : /\ enemies'[x].at = enemies[x].at /\ enemies'[x].exhausted = enemies[x].exhausted
                            /\ enemies'[x].damage = enemies[x].damage /\ (x # e => enemies'[x] = enemies[x])
       /\ enemies'[e].with = i
  <2> DEFINE R == [at : Locations, with : Investigators \cup {None}, exhausted : BOOLEAN, damage : Nat]
  <2>1. enemies \in [InPlay -> R] /\ \A x \in InPlay : enemies[x].damage < max_health[x]
        BY FoesAre DEF IndInv, BoardTyped
  <2>2. e \in InPlay /\ enemies[e].with = None
        BY <1>6, <1>7
  <2>3. enemies' \in [InPlay -> R]
        BY <1>2, <1>9, <2>1, <2>2
  <2>4. \A x \in InPlay : /\ enemies'[x].at = enemies[x].at /\ enemies'[x].exhausted = enemies[x].exhausted
                          /\ enemies'[x].damage = enemies[x].damage /\ (x # e => enemies'[x] = enemies[x])
        BY <1>2, <2>1, <2>2
  <2>5. enemies'[e].with = i
        BY <1>2, <2>1, <2>2
  <2>6. enemies' \in FoesInPlay(InPlay)
        BY <2>1, <2>3, <2>4, FoesAre
  <2> QED BY <2>2, <2>3, <2>4, <2>5, <2>6 DEF InPlay
<1>11. PICK B : /\ Frames' = B \cup Elems(r) /\ Good(stack')
                /\ (stack' # <<>> => Head(stack') \in B \/ (stack' = r /\ Head(stack') \in Elems(r)))
                /\ \A t \in B : t.kind = "EngagementTie" /\ Elems(t.ties) = Elems(Tail(q))
                /\ Elems(Tail(q)) # {} => B # {}
  <2>1. CASE Tail(q) = <<>>
    <3>1. stack' = r /\ Elems(Tail(q)) = {}
          BY <1>3, <1>5, <1>6, <2>1, OverTwo, ElemsOf
    <3>2. Frames' = {} \cup Elems(r)
          BY <1>5, <3>1 DEF Frames, Elems
    <3>3. (r # <<>> => Head(r) \in Elems(r)) /\ Good(r)
          BY <1>5, HeadRests DEF Rested
    <3> WITNESS {}
    <3> QED BY <3>1, <3>2, <3>3
  <2>2. CASE Tail(q) # <<>>
    <3>1. PICK t : t = EngagementTie(Tail(q))
          OBVIOUS
    <3>2. t \in EngagementTies /\ t.kind = "EngagementTie" /\ t.ties = Tail(q)
          BY <1>6, <3>1 DEF EngagementTie, EngagementTies
    <3>3. t \in PhaseFrames /\ t \in AllFrames
          BY <3>2 DEF PhaseFrames, AllFrames
    <3>4. StandsPhase(t, r)
          BY <1>4, <1>6, <2>2, <3>2 DEF StandsPhase
    <3>5. stack' = Over(t, r)
          BY <1>3, <1>6, <2>2, <3>1 DEF Over
    <3>6. Good(stack')
          BY <1>5, <3>3, <3>4, <3>5, GoodPhase DEF Rested
    <3>7. Frames' = {t} \cup Elems(r) /\ Head(stack') = t
          BY <1>5, <3>3, <3>5, FramesAre
    <3> WITNESS {t}
    <3> QED BY <3>2, <3>6, <3>7
  <2> QED BY <2>1, <2>2
<1>12. Shifting
      BY <1>3, <1>8, <1>9, <1>10, OrderAssumption DEF Shifting
<1>13. \A t \in B : FitsPhase(t)' /\ FitsAttack(t)' /\ ~Ending(t) /\ \A x : ~OwedBy(t, x)
  <2> SUFFICES ASSUME NEW t \in B PROVE FitsPhase(t)' /\ FitsAttack(t)' /\ ~Ending(t) /\ \A x : ~OwedBy(t, x)
      OBVIOUS
  <2>1. t.kind = "EngagementTie" /\ Elems(t.ties) = Elems(Tail(q))
        BY <1>11
  <2>2. \A x \in Elems(t.ties) : x \in InPlay' /\ enemies'[x].with = None
        BY <1>6, <1>7, <1>10, <2>1
  <2>3. FitsPhase(t)'
        BY <2>1, <2>2 DEF FitsPhase
  <2>4. FitsAttack(t)'
        BY <2>1, BlowIs DEF FitsBlow, IsEmit
  <2> QED BY <2>1, <2>3, <2>4 DEF Ending, OwedBy, IsEmit
<1>14. stack' # <<>> => ~Ending(Head(stack')) /\ Head(stack').kind # "Effect"
      BY <1>5, <1>11, <1>13, HeadRests
<1>15. \A f \in Frames : f.kind = "AttackLoop" => f \in Elems(r)
      BY <1>3, <1>5
<1>16. BoardTyped'
      BY <1>3, <1>8, <1>10 DEF IndInv, BoardTyped
<1>17. (ending => Active(status) = {})'
      BY <1>8 DEF IndInv, Active
<1>18. EngagedTogether'
  <2>1. \A f \in Frames : f.kind = "Elimination" => f \in Frames'
        BY <1>3, <1>5, <1>11
  <2>2. Leaving \subseteq Leaving'
        BY <2>1 DEF Leaving
  <2> SUFFICES ASSUME NEW x \in InPlay, enemies'[x].with # None
               PROVE  \/ status'[enemies'[x].with] = "Active" /\ at'[enemies'[x].with] = enemies'[x].at
                      \/ enemies'[x].with \in Leaving'
      BY <1>10 DEF EngagedTogether
  <2>3. CASE x = e
        BY <1>8, <1>9, <1>10, <2>3
  <2>4. CASE x # e
    <3>1. enemies'[x] = enemies[x]
          BY <1>10, <2>4
    <3> QED BY <1>8, <2>2, <3>1 DEF IndInv, EngagedTogether
  <2> QED BY <2>3, <2>4
<1>19. NoIdleEnemy'
  <2> SUFFICES ASSUME NEW x \in InPlay, enemies'[x].with = None, ~enemies'[x].exhausted,
                      Candidates(status, x, enemies'[x].at) # {}
               PROVE  \E f \in Frames' : f.kind = "EngagementTie" /\ x \in Elems(f.ties)
    <3>1. \A x, l : Candidates(status, x, l)' = Candidates(status, x, l)
          BY <1>8 DEF Candidates, ActiveAt, Active
    <3> QED BY <1>10, <3>1 DEF NoIdleEnemy
  <2>1. x # e /\ enemies'[x] = enemies[x]
        BY <1>9, <1>10, OrderAssumption
  <2>2. PICK f \in Frames : f.kind = "EngagementTie" /\ x \in Elems(f.ties)
        BY <2>1 DEF IndInv, NoIdleEnemy
  <2>3. CASE f = Top
    <3>1. x \in Elems(Tail(q))
          BY <1>1, <1>6, <2>1, <2>2, <2>3
    <3>2. PICK t \in B : t.kind = "EngagementTie" /\ Elems(t.ties) = Elems(Tail(q))
          BY <1>11, <3>1
    <3> QED BY <1>11, <3>1, <3>2
  <2>4. CASE f # Top
        BY <1>5, <1>11, <2>2, <2>4
  <2> QED BY <2>3, <2>4
<1>20. Defeats'
  <2>1. \A f, x : Tells(f, x)' <=> Tells(f, x)
        BY DEF Tells, IsEmit
  <2>2. \A x : ~Tells(Top, x)
        BY <1>3 DEF Tells, IsEmit
  <2>3. \A f \in Frames : f # Top => f \in Frames'
        BY <1>5, <1>11
  <2> QED BY <1>8, <1>10, <2>1, <2>2, <2>3 DEF IndInv, Defeats
<1>21. Spared'
  <2>1. ~Striking(stack')
        BY <1>14 DEF Striking
  <2> QED BY <1>8, <1>10, <2>1 DEF IndInv, Spared
<1> QED BY <1>5, <1>11, <1>12, <1>13, <1>14, <1>15, <1>16, <1>17, <1>18, <1>19, <1>20, <1>21, Moved

------------------------------------------------------------------------------
(* Damage is placed.                                                         *)

LEMMA MinusIs ==
    ASSUME NEW a \in Points, NEW b \in Points
    PROVE  Minus(a, b) \in Points
BY DEF Minus, Points

LEMMA KeptIs ==
    ASSUME NEW c \in [{Damage, Horror} -> Nat \ {0}] \cup {None}, NEW b \in Points, NEW soaked, NEW kept,
           soaked = IF c = None THEN None ELSE Minus(c, b),
           kept = IF soaked # None /\ SomeZero(soaked) THEN None ELSE soaked
    PROVE  kept \in [{Damage, Horror} -> Nat \ {0}] \cup {None}
<1>1. CASE c = None
      BY <1>1
<1>2. CASE c # None
  <2>1. c \in Points
        BY <1>2 DEF Points
  <2>2. soaked \in Points
        BY <1>2, <2>1, MinusIs
  <2>3. ASSUME ~SomeZero(soaked) PROVE soaked \in [{Damage, Horror} -> Nat \ {0}]
        BY <2>2, <2>3 DEF SomeZero, Points
  <2> QED BY <2>3
<1> QED BY <1>1, <1>2

\* What the coordinator of a deal that is placed leaves under what comes.
LEMMA PlacedRests ==
    ASSUME IndInv, AtResolution("DamagePlaced"), NEW r, r = AdvanceOrFinish(stack)
    PROVE  /\ Rested(r) /\ r \in Seq(AllFrames) /\ running = TRUE /\ Elems(Beneath) \subseteq Elems(r)
           /\ Top.event.who \in Investigators /\ Top.event.share \in Shares
           /\ Frames \subseteq {Top} \cup Elems(r) /\ Top.kind = "EmitEvent"
           /\ \A f \in Frames : /\ f.kind # "EngagementTie" /\ (f.kind = "AttackLoop" => f \in Elems(r))
                                /\ f.kind = "Elimination" => f \in Elems(r)
           /\ \A e \in Enemies : \A f \in Frames : Tells(f, e) => \E g \in Elems(r) : Tells(g, e)
<1>1. Drives("EmitEvent") /\ Top.step = "ResolveCondition" /\ Top.event.kind = "DamagePlaced"
      BY DEF AtResolution
<1>2. /\ stack # <<>> /\ running = TRUE /\ Top.kind = "EmitEvent" /\ Good(stack)
      /\ Top \in EmitEvents /\ Top.event \in Events /\ Good(Beneath) /\ Beneath \in Seq(AllFrames)
      /\ StandsEmit(Top, Beneath) /\ Top \in Frames
      BY <1>1, EmitDrives
<1>3. ~Top.prevented
      BY <1>1, <1>2 DEF StandsEmit
<1>4. /\ r = Over(Advance(Top), Beneath) /\ Good(r) /\ r \in Seq(AllFrames)
      /\ Advance(Top) \in AllFrames /\ Advance(Top).kind = "EmitEvent" /\ Resting(r) /\ Quiet(r)
      /\ FitsPhase(Advance(Top)) /\ FitsAttack(Advance(Top))
      /\ \A e \in Enemies : Tells(Top, e) => Tells(Advance(Top), e)
      /\ \A e \in Enemies : OwedBy(Advance(Top), e) => Owed(e)
      BY <1>1, <1>3, Resolved
<1>5. PICK g : g = Advance(Top)
      OBVIOUS
<1>6. Elems(r) = {g} \cup Elems(Beneath)
      BY <1>2, <1>4, <1>5, OverElems
<1>7. Frames = {Top} \cup Elems(Beneath) /\ \A f \in Elems(Beneath) : ~AsksOrActs(f)
      BY <1>2, TopIs
<1>8. Rested(r)
  <2>1. \A f \in Frames : FitsPhase(f) /\ FitsAttack(f) /\ \A e : OwedBy(f, e) => Owed(e)
        BY DEF IndInv, Fits, Owed
  <2> QED BY <1>4, <1>5, <1>6, <1>7, <2>1 DEF Rested
<1>9. Top.event \in HarmEvents
      BY <1>1, <1>2, EventIs
<1>10. Top.event.who \in Investigators /\ Top.event.share \in Shares
      BY <1>9 DEF HarmEvents
<1>11. \A f \in Frames : /\ f.kind # "EngagementTie" /\ (f.kind = "AttackLoop" => f \in Elems(r))
                         /\ f.kind = "Elimination" => f \in Elems(r)
      BY <1>2, <1>6, <1>7 DEF AsksOrActs
<1>12. \A e \in Enemies : \A f \in Frames : Tells(f, e) => \E h \in Elems(r) : Tells(h, e)
      BY <1>4, <1>5, <1>6, <1>7
<1> QED BY <1>2, <1>4, <1>6, <1>7, <1>8, <1>10, <1>11, <1>12

LEMMA StepResolveDamagePlaced == ASSUME IndInv, ResolveDamagePlaced PROVE IndInv'
<1>1. PICK ev, i, r, st, taken, soaked, kept :
          /\ ev = Top.event /\ i = ev.who /\ r = AdvanceOrFinish(stack)
          /\ st = [status EXCEPT ![i] = "Defeated"] /\ taken = Minus(left[i], ev.share.self)
          /\ soaked = IF asset[i] = None THEN None ELSE Minus(asset[i], ev.share.asset)
          /\ kept = IF soaked # None /\ SomeZero(soaked) THEN None ELSE soaked
      OBVIOUS
<1>2. AtResolution("DamagePlaced") /\ PlaceAssignment(ev, r) /\ UNCHANGED <<running, used, doom, histories>>
      BY <1>1 DEF ResolveDamagePlaced
<1>3. /\ left' = [left EXCEPT ![i] = taken]
      /\ \/ ApplyInvestigatorElimination(i, r)
         \/ /\ asset' = [asset EXCEPT ![i] = kept]
            /\ stack' = r /\ UNCHANGED <<status, at, enemies, dodge, ending>>
      BY <1>1, <1>2 DEF PlaceAssignment
<1>4. /\ Rested(r) /\ r \in Seq(AllFrames) /\ running = TRUE /\ i \in Investigators /\ ev.share \in Shares
      /\ \A f \in Frames : /\ f.kind # "EngagementTie" /\ (f.kind = "AttackLoop" => f \in Elems(r))
                           /\ f.kind = "Elimination" => f \in Elems(r)
      /\ \A e \in Enemies : \A f \in Frames : Tells(f, e) => \E g \in Elems(r) : Tells(g, e)
      BY <1>1, <1>2, PlacedRests
<1>5. running' = TRUE /\ UNCHANGED <<struck, cancelled, used, doom, announced>>
      BY <1>2, <1>4 DEF histories
<1>6. /\ BoardTyped /\ status \in [Investigators -> {"Active", "Defeated"}] /\ left \in [Investigators -> Points]
      /\ asset \in Capacities /\ InPlay \subseteq Enemies
      BY DEF IndInv, BoardTyped
<1>7. left' \in [Investigators -> Points]
  <2>1. left[i] \in Points /\ ev.share.self \in Points
        BY <1>4, <1>6 DEF Shares
  <2>2. taken \in Points
        BY <1>1, <2>1, MinusIs
  <2> QED BY <1>3, <1>6, <2>2
<1>8. st \in [Investigators -> {"Active", "Defeated"}] /\ st[i] # "Active"
      /\ \A j \in Investigators : (j # i => st[j] = status[j]) /\ (st[j] = "Active" => status[j] = "Active")
      BY <1>1, <1>4, <1>6
<1>9. \A f, e : Tells(f, e)' <=> Tells(f, e)
      BY DEF Tells, IsEmit
<1>10. ~(stack' = r /\ stack' # <<>>) \/ (Head(stack') \in Elems(r) /\ ~Ending(Head(stack')) /\ ~Striking(stack'))
      BY <1>4, HeadRests DEF Striking
<1>11. CASE ApplyInvestigatorElimination(i, r)
  <2>1. /\ status' = st
        /\ \/ RunEliminationSteps(st, i, r)
           \/ stack' = <<Elimination(i, "FireWeaknessGameEnd")>> \o r /\ UNCHANGED <<at, enemies, asset, dodge, ending>>
        BY <1>1, <1>11 DEF ApplyInvestigatorElimination
  <2>2. CASE RunEliminationSteps(st, i, r)
        BY <1>4, <1>5, <1>7, <1>8, <2>1, <2>2, Eliminated
  <2>3. CASE stack' = <<Elimination(i, "FireWeaknessGameEnd")>> \o r /\ UNCHANGED <<at, enemies, asset, dodge, ending>>
    <3>1. PICK g, B : g = Elimination(i, "FireWeaknessGameEnd") /\ B = {g}
          OBVIOUS
    <3>2. g \in Eliminations /\ g \in AllFrames /\ g.kind = "Elimination" /\ g.who = i
          BY <1>4, <3>1 DEF Elimination, Eliminations, AllFrames
    <3>3. stack' = Over(g, r)
          BY <2>3, <3>1 DEF Over
    <3>4. StandsHarm(g, r)
          BY <1>4, <3>2 DEF StandsHarm, Rested
    <3>5. Good(stack')
          BY <1>4, <3>2, <3>3, <3>4, GoodHarm DEF Rested
    <3>6. Frames' = B \cup Elems(r) /\ Head(stack') = g /\ g \in Frames'
          BY <1>4, <3>1, <3>2, <3>3, FramesAre
    <3>7. InPlay' = InPlay /\ enemies' = enemies /\ at' = at /\ asset' = asset /\ dodge' = dodge /\ ending' = ending
          BY <2>3 DEF InPlay
    <3>8. Shifting
          BY <1>5, <1>8, <2>1, <3>7 DEF Shifting
    <3>9. FitsPhase(g)' /\ FitsAttack(g)' /\ ~Ending(g) /\ \A e : ~OwedBy(g, e)
      <4>1. FitsAttack(g)'
            BY <3>2, BlowIs DEF FitsBlow, IsEmit
      <4> QED BY <1>8, <2>1, <3>2, <4>1 DEF FitsPhase, Ending, OwedBy, IsEmit
    <3>10. BoardTyped'
          BY <1>5, <1>6, <1>7, <1>8, <2>1, <3>7 DEF BoardTyped
    <3>11. (ending => Active(status) = {})'
          BY <1>8, <2>1, <3>7 DEF IndInv, Active
    <3>12. EngagedTogether'
      <4>1. i \in Leaving'
            BY <3>2, <3>6 DEF Leaving
      <4>2. Leaving \subseteq Leaving'
            BY <1>4, <3>6 DEF Leaving
      <4>3. \A e \in InPlay : enemies[e].with \in Investigators \cup {None}
            BY <1>6, FoesAre DEF BoardTyped
      <4> QED BY <1>8, <2>1, <3>7, <4>1, <4>2, <4>3 DEF IndInv, EngagedTogether
    <3>13. NoIdleEnemy'
      <4>1. \A e, l : Candidates(status, e, l)' \subseteq Candidates(status, e, l)
            BY <1>8, <2>1, <3>7 DEF Candidates, ActiveAt, Active
      <4>2. \A e \in InPlay : enemies[e].with = None /\ ~enemies[e].exhausted => Candidates(status, e, enemies[e].at) = {}
            BY <1>4 DEF IndInv, NoIdleEnemy
      <4> QED BY <3>7, <4>1, <4>2 DEF NoIdleEnemy
    <3>14. Defeats'
          BY <1>4, <1>5, <1>9, <3>6, <3>7 DEF IndInv, Defeats
    <3>15. Spared'
      <4>1. ~Striking(stack')
            BY <3>2, <3>6 DEF Striking
      <4> QED BY <1>5, <3>7, <4>1 DEF IndInv, Spared
    <3>16. \A f \in Frames : f.kind = "AttackLoop" => f \in Elems(r)
          BY <1>4
    <3> QED BY <1>4, <3>1, <3>5, <3>6, <3>8, <3>9, <3>10, <3>11, <3>12, <3>13, <3>14, <3>15, <3>16, Moved, SMTT(40)
  <2> QED BY <2>1, <2>2, <2>3
<1>12. CASE asset' = [asset EXCEPT ![i] = kept] /\ stack' = r /\ UNCHANGED <<status, at, enemies, dodge, ending>>
  <2>1. InPlay' = InPlay /\ enemies' = enemies /\ at' = at /\ status' = status /\ dodge' = dodge /\ ending' = ending
        BY <1>12 DEF InPlay
  <2>2. PICK B : B = {}
        OBVIOUS
  <2>3. Frames' = B \cup Elems(r)
        BY <1>4, <1>12, <2>2 DEF Frames, Elems
  <2>4. Shifting
        BY <1>5, <2>1 DEF Shifting
  <2>5. asset' \in Capacities
    <3>1. asset[i] \in [{Damage, Horror} -> Nat \ {0}] \cup {None} /\ ev.share.asset \in Points
          BY <1>4, <1>6 DEF Shares, Capacities
    <3>2. kept \in [{Damage, Horror} -> Nat \ {0}] \cup {None}
          BY <1>1, <3>1, KeptIs
    <3> QED BY <1>6, <1>12, <3>2 DEF Capacities
  <2>6. BoardTyped'
        BY <1>5, <1>6, <1>7, <2>1, <2>5 DEF BoardTyped
  <2>7. (ending => Active(status) = {})'
        BY <2>1 DEF IndInv, Active
  <2>8. EngagedTogether'
    <3>1. Leaving \subseteq Leaving'
          BY <1>4, <2>3 DEF Leaving
    <3> QED BY <2>1, <3>1 DEF IndInv, EngagedTogether
  <2>9. NoIdleEnemy'
    <3>1. \A e, l : Candidates(status, e, l)' = Candidates(status, e, l)
          BY <2>1 DEF Candidates, ActiveAt, Active
    <3>2. \A e \in InPlay : enemies[e].with = None /\ ~enemies[e].exhausted => Candidates(status, e, enemies[e].at) = {}
          BY <1>4 DEF IndInv, NoIdleEnemy
    <3> QED BY <2>1, <3>1, <3>2 DEF NoIdleEnemy
  <2>10. Defeats'
        BY <1>4, <1>5, <1>9, <2>1, <2>3 DEF IndInv, Defeats
  <2>11. Spared'
    <3>1. stack' # <<>> => ~Striking(stack')
          BY <1>10, <1>12
    <3>2. ~Striking(stack')
          BY <3>1 DEF Striking
    <3> QED BY <1>5, <2>1, <3>2 DEF IndInv, Spared
  <2>12. Good(stack')
        BY <1>4, <1>12 DEF Rested
  <2>13. \A f \in Frames : f.kind = "AttackLoop" => f \in Elems(r)
        BY <1>4
  <2>14. \A f \in B : FitsPhase(f)' /\ FitsAttack(f)' /\ \A e : ~OwedBy(f, e)
        BY <2>2
  <2> QED BY <1>4, <1>10, <1>12, <2>3, <2>4, <2>6, <2>7, <2>8, <2>9, <2>10, <2>11, <2>12, <2>13, <2>14, Moved
<1> QED BY <1>3, <1>11, <1>12

------------------------------------------------------------------------------
(* An effect hurts an enemy.                                                 *)

\* What an effect stands on, and what one that strikes says of the board.
LEMMA EffectIs ==
    ASSUME IndInv, stack # <<>>, Top.kind = "Effect"
    PROVE  Top.who \in Investigators /\ StandsEffect(Top, Beneath) /\ FitsAttack(Top)
<1>1. Top \in AllFrames /\ Stands(Top, Beneath) /\ Top \in Frames
      BY TopIs DEF IndInv
<1>2. FitsAttack(Top) /\ StandsEffect(Top, Beneath)
      BY <1>1, Zenon DEF IndInv, Fits, Stands
<1>3. Top.who \in Investigators
      BY <1>1, KindIs DEF Effects
<1> QED BY <1>2, <1>3

LEMMA GuardIs ==
    ASSUME IndInv, stack # <<>>, Top.kind = "Effect", Top.does = "Guard Dog"
    PROVE  Top.who \in Investigators /\ Quiet(Beneath) /\ Top.enemy \in Enemies /\ struck[Top.enemy] > 0
BY EffectIs, Zenon DEF FitsAttack, StandsEffect

LEMMA AgnesIs ==
    ASSUME IndInv, stack # <<>>, Top.kind = "Effect", Top.does = "Agnes"
    PROVE  /\ Top.who \in Investigators /\ Quiet(Beneath) /\ Top.who \in Agnes /\ "Agnes" \in used
           /\ Striking(stack)
<1>1. Top.who \in Investigators /\ Quiet(Beneath) /\ Top.who \in Agnes /\ "Agnes" \in used
      BY EffectIs, Zenon DEF FitsAttack, StandsEffect
<1>2. Striking(stack)
      BY Zenon DEF Striking, Top
<1> QED BY <1>1, <1>2

\* Who is no longer in play is not hurt.
LEMMA Hurt ==
    ASSUME IndInv, stack # <<>>, Top.kind = "Effect", NEW r, r = Beneath, Quiet(r),
           NEW e \in Enemies, NEW by \in Investigators, DamageEnemy(e, by, r),
           struck[e] = 0 => Striking(stack) /\ "Agnes" \in used /\ Agnes # {},
           running' = TRUE, UNCHANGED <<players, doom, ending, histories>>
    PROVE  IndInv'
<1>1. Rested(r) /\ r \in Seq(AllFrames) /\ Frames = {Top} \cup Elems(r) /\ Good(r) /\ Resting(r)
      BY UnderRests DEF Rested
<1>2. /\ status' = status /\ at' = at /\ left' = left /\ asset' = asset /\ dodge' = dodge /\ used' = used
      /\ doom' = doom /\ ending' = ending /\ struck' = struck /\ cancelled' = cancelled /\ announced' = announced
      BY DEF players, histories
<1>3. /\ \A f \in Frames : f.kind # "EngagementTie" /\ (f.kind = "AttackLoop" => f \in Elems(r))
                           /\ (f.kind = "Elimination" => f \in Elems(r))
      /\ \A f \in Frames, x \in Enemies : Tells(f, x) => f \in Elems(r)
  <2>1. \A f \in Elems(r) : ~AsksOrActs(f)
        BY TopIs DEF IndInv
  <2>2. \A x : ~Tells(Top, x)
        BY DEF Tells, IsEmit
  <2> QED BY <1>1, <2>1, <2>2 DEF AsksOrActs
<1>4. \A f, x : Tells(f, x)' <=> Tells(f, x)
      BY DEF Tells, IsEmit
<1>5. BoardTyped /\ InPlay \subseteq Enemies
      BY DEF IndInv, BoardTyped
<1> DEFINE R == [at : Locations, with : Investigators \cup {None}, exhausted : BOOLEAN, damage : Nat]
<1>6. /\ enemies \in [InPlay -> R] /\ \A x \in InPlay : enemies[x].damage < max_health[x] /\ enemies[x].damage \in Nat
      /\ max_health \in [Enemies -> Nat \ {0}]
      BY <1>5, FoesAre, EnemyAssumption DEF BoardTyped
<1>7. PICK B :
         /\ \A f \in B : f \in EmitEvents /\ IsEmit(f, "EnemyDefeated") /\ f.step = "When"
         /\ Frames' = B \cup Elems(r) /\ Good(stack')
         /\ (stack' # <<>> => Head(stack') \in B \/ (stack' = r /\ Head(stack') \in Elems(r)))
         /\ InPlay' \subseteq InPlay /\ enemies' \in FoesInPlay(InPlay')
         /\ \A x \in InPlay : x # e => x \in InPlay' /\ enemies'[x] = enemies[x]
         /\ e \in InPlay \cap InPlay' => /\ enemies'[e].at = enemies[e].at /\ enemies'[e].with = enemies[e].with
                                          /\ enemies'[e].exhausted = enemies[e].exhausted
         /\ e \in InPlay \ InPlay' => enemies[e].damage + 1 >= max_health[e] /\ \E f \in B : f.event.enemy = e
  <2>1. CASE enemies[e].damage + 1 >= max_health[e]
    <3>1. PICK ev, f : ev = [kind |-> "EnemyDefeated", enemy |-> e, who |-> by] /\ f = EmitEvent(ev)
          OBVIOUS
    <3>2. enemies' = Restrict(enemies, InPlay \ {e}) /\ stack' = <<f>> \o r
          BY <2>1, <3>1 DEF DamageEnemy
    <3>3. ev \in Events /\ ev.kind = "EnemyDefeated" /\ ev.enemy = e
          BY <1>5, <3>1 DEF DefeatEvents, Events
    <3>4. /\ f \in EmitEvents /\ f \in AllFrames /\ f.kind = "EmitEvent" /\ f.event = ev /\ f.step = "When"
          /\ f.prevented = FALSE
          BY <3>1, <3>3, EmitIs
    <3>5. StandsEmit(f, r)
          BY <3>3, <3>4 DEF StandsEmit
    <3>6. stack' = Over(f, r) /\ Good(stack')
          BY <1>1, <3>2, <3>4, <3>5, GoodEmit DEF Over
    <3>7. Frames' = {f} \cup Elems(r) /\ Head(stack') = f
          BY <1>1, <3>4, <3>6, FramesAre
    <3>8. enemies' = [x \in InPlay \ {e} |-> enemies[x]] /\ InPlay' = InPlay \ {e}
          BY <3>2 DEF Restrict, InPlay
    <3>9. enemies' \in FoesInPlay(InPlay')
      <4>1. enemies' \in [InPlay' -> R] /\ \A x \in InPlay' : enemies'[x].damage < max_health[x]
            BY <1>6, <3>8
      <4> QED BY <4>1 DEF FoesInPlay
    <3> WITNESS {f}
    <3> QED BY <2>1, <3>3, <3>4, <3>6, <3>7, <3>8, <3>9 DEF IsEmit
  <2>2. CASE ~(enemies[e].damage + 1 >= max_health[e])
    <3>1. enemies' = [enemies EXCEPT ![e].damage = @ + 1] /\ stack' = r
          BY <2>2 DEF DamageEnemy
    <3>2. Frames' = {} \cup Elems(r)
          BY <1>1, <3>1 DEF Frames, Elems
    <3>3. r # <<>> => Head(r) \in Elems(r)
          BY <1>1, HeadRests
    <3>4. InPlay' = InPlay
          BY <3>1 DEF InPlay
    <3>5. /\ enemies' \in [InPlay -> R]
          /\ e \in InPlay => /\ enemies'[e].damage = enemies[e].damage + 1
                             /\ enemies'[e].at = enemies[e].at /\ enemies'[e].with = enemies[e].with
                             /\ enemies'[e].exhausted = enemies[e].exhausted
          /\ \A x \in InPlay : x # e => enemies'[x] = enemies[x]
      <4>1. CASE e \in InPlay
        <5>1. enemies[e] \in R /\ enemies[e].damage + 1 \in Nat
              BY <1>6, <4>1
        <5>2. PICK new : new = [enemies[e] EXCEPT !.damage = enemies[e].damage + 1]
              OBVIOUS
        <5>3. /\ new \in R /\ new.damage = enemies[e].damage + 1 /\ new.at = enemies[e].at
              /\ new.with = enemies[e].with /\ new.exhausted = enemies[e].exhausted
              BY <5>1, <5>2
        <5>4. enemies' = [enemies EXCEPT ![e] = new]
              BY <3>1, <5>2
        <5> QED BY <1>6, <4>1, <5>3, <5>4
      <4>2. CASE e \notin InPlay
        <5>1. enemies' = enemies
              BY <1>6, <3>1, <4>2
        <5> QED BY <1>6, <4>2, <5>1
      <4> QED BY <4>1, <4>2
    <3>6. \A x \in InPlay : enemies'[x].damage < max_health[x]
      <4>1. e \in InPlay => enemies'[e].damage < max_health[e]
            BY <1>5, <1>6, <2>2, <3>5
      <4> QED BY <1>6, <3>5, <4>1
    <3>7. enemies' \in FoesInPlay(InPlay')
          BY <3>4, <3>5, <3>6 DEF FoesInPlay
    <3> WITNESS {}
    <3> QED BY <1>1, <3>1, <3>2, <3>3, <3>4, <3>5, <3>7
  <2> QED BY <2>1, <2>2
<1>8. Shifting
      BY <1>2, <1>7 DEF Shifting
<1>9. \A f \in B : FitsPhase(f)' /\ FitsAttack(f)' /\ ~Ending(f) /\ f.kind # "Effect" /\ \A x : ~OwedBy(f, x)
  <2> SUFFICES ASSUME NEW f \in B
               PROVE FitsPhase(f)' /\ FitsAttack(f)' /\ ~Ending(f) /\ f.kind # "Effect" /\ \A x : ~OwedBy(f, x)
      OBVIOUS
  <2>1. f.kind = "EmitEvent" /\ f.event.kind = "EnemyDefeated"
        BY <1>7 DEF IsEmit
  <2>2. FitsAttack(f)'
        BY <2>1, BlowIs DEF FitsBlow, IsEmit
  <2> QED BY <2>1, <2>2 DEF FitsPhase, Ending, OwedBy, IsEmit
<1>10. stack' # <<>> => ~Ending(Head(stack')) /\ Head(stack').kind # "Effect"
      BY <1>1, <1>7, <1>9, HeadRests
<1>11. BoardTyped'
      BY <1>2, <1>5, <1>7 DEF BoardTyped
<1>12. (ending => Active(status) = {})'
      BY <1>2 DEF IndInv, Active
<1>13. \A x \in InPlay' : /\ enemies'[x].at = enemies[x].at /\ enemies'[x].with = enemies[x].with
                          /\ enemies'[x].exhausted = enemies[x].exhausted
      BY <1>7
<1>14. EngagedTogether'
  <2>1. Leaving \subseteq Leaving'
        BY <1>3, <1>7 DEF Leaving
  <2> QED BY <1>2, <1>7, <1>13, <2>1 DEF IndInv, EngagedTogether
<1>15. NoIdleEnemy'
  <2>1. \A x, l : Candidates(status, x, l)' = Candidates(status, x, l)
        BY <1>2 DEF Candidates, ActiveAt, Active
  <2>2. \A x \in InPlay : enemies[x].with = None /\ ~enemies[x].exhausted => Candidates(status, x, enemies[x].at) = {}
        BY <1>3 DEF IndInv, NoIdleEnemy
  <2> QED BY <1>7, <1>13, <2>1, <2>2 DEF NoIdleEnemy
<1>16. Defeats'
  <2> SUFFICES ASSUME NEW x \in Enemies, x \notin InPlay', x \notin announced PROVE \E f \in Frames' : Tells(f, x)
      BY <1>2, <1>4 DEF Defeats
  <2>1. CASE x \in InPlay
    <3>1. x = e
          BY <1>7, <2>1
    <3>2. PICK f \in B : f.event.enemy = e
          BY <1>7, <2>1, <3>1
    <3>3. IsEmit(f, "EnemyDefeated") /\ f \in Frames'
          BY <1>7
    <3> QED BY <3>1, <3>2, <3>3 DEF Tells
  <2>2. CASE x \notin InPlay
        BY <1>3, <1>7, <2>2 DEF IndInv, Defeats
  <2> QED BY <2>1, <2>2
<1>17. Spared'
  <2> SUFFICES ASSUME Hardy, NEW x \in Enemies, struck[x] = 0
               PROVE  /\ x \in InPlay'
                      /\ Agnes = {} \/ enemies'[x].damage + 1 < max_health[x] \/ "Agnes" \in used
    <3>1. ~Striking(stack')
          BY <1>10 DEF Striking
    <3> QED BY <1>2, <3>1 DEF Spared
  <2>1. x \in InPlay /\ (Agnes = {} \/ enemies[x].damage + 1 < max_health[x] \/ ("Agnes" \in used /\ ~Striking(stack)))
        BY DEF IndInv, Spared
  <2>2. CASE x # e
        BY <1>7, <2>1, <2>2
  <2>3. CASE x = e
    <3>1. Striking(stack) /\ "Agnes" \in used /\ Agnes # {}
          BY <2>3
    <3>2. enemies[e].damage + 1 < max_health[e]
          BY <2>1, <2>3, <3>1
    <3>3. e \in InPlay'
      <4>1. PICK n, m \in Nat : n = enemies[e].damage /\ m = max_health[e]
            BY <1>6, <2>1, <2>3
      <4>2. ~(n + 1 >= m)
            BY <3>2, <4>1
      <4> QED BY <1>7, <2>1, <2>3, <4>1, <4>2
    <3> QED BY <2>3, <3>1, <3>3
  <2> QED BY <2>2, <2>3
<1>18. \A f \in Frames : f.kind = "AttackLoop" => f \in Elems(r)
      BY <1>3
<1>19. stack' # <<>> => Head(stack') \in B \/ Head(stack') \in Elems(r)
      BY <1>7
<1> QED BY <1>1, <1>7, <1>8, <1>9, <1>10, <1>11, <1>12, <1>14, <1>15, <1>16, <1>17, <1>18, <1>19, Moved

LEMMA StepRetaliate == ASSUME IndInv, Retaliate PROVE IndInv'
<1>1. PICK e, by, r : e = Top.enemy /\ by = Top.who /\ r = Beneath
      OBVIOUS
<1>2. Drives("Effect") /\ DamageEnemy(e, by, r) /\ UNCHANGED <<running, players, doom, ending, histories>>
      BY <1>1, Zenon DEF Retaliate, StepEffect
<1>3. stack # <<>> /\ running = TRUE /\ Top.kind = "Effect"
      BY <1>2, Driving
<1>4. Top.does = "Guard Dog"
      BY Zenon DEF Retaliate, StepEffect
<1>5. by \in Investigators /\ Quiet(r) /\ e \in Enemies /\ struck[e] > 0
      BY <1>1, <1>3, <1>4, GuardIs, Zenon
<1>6. ~(struck[e] = 0)
  <2>1. struck[e] \in Nat
        BY <1>5 DEF IndInv, Strikes
  <2> QED BY <1>5, <2>1
<1>7. running' = TRUE /\ UNCHANGED <<players, doom, ending, histories>>
      BY <1>2, <1>3
<1> QED BY <1>1, <1>2, <1>3, <1>5, <1>6, <1>7, Hurt

LEMMA HereIs == ASSUME IndInv, NEW i PROVE EnemiesHere(i) \subseteq Enemies
BY DEF EnemiesHere, IndInv, BoardTyped

LEMMA StepStrikeTheOnlyOne == ASSUME IndInv, StrikeTheOnlyOne PROVE IndInv'
<1>1. PICK by, r : by = Top.who /\ r = Beneath
      OBVIOUS
<1>2. PICK e \in EnemiesHere(by) : DamageEnemy(e, by, r)
      BY <1>1 DEF StrikeTheOnlyOne
<1>3. Drives("Effect") /\ Top.does = "Agnes" /\ UNCHANGED <<running, players, doom, ending, histories>>
      BY DEF StrikeTheOnlyOne, StepEffect
<1>4. stack # <<>> /\ running = TRUE /\ Top.kind = "Effect"
      BY <1>3, Driving
<1>5. by \in Investigators /\ Quiet(r) /\ by \in Agnes /\ "Agnes" \in used /\ Striking(stack)
      BY <1>1, <1>3, <1>4, AgnesIs
<1>6. e \in Enemies
      BY HereIs
<1> QED BY <1>1, <1>2, <1>3, <1>4, <1>5, <1>6, Hurt

LEMMA StepStrikeOne == ASSUME IndInv, StrikeOne PROVE IndInv'
<1>1. PICK by, r : by = Top.who /\ r = Beneath
      OBVIOUS
<1>2. PICK e \in EnemiesHere(by) : DamageEnemy(e, by, r)
      BY <1>1 DEF StrikeOne
<1>3. /\ ~running /\ stack # <<>> /\ Top.kind = "Effect" /\ running' = TRUE
      /\ UNCHANGED <<players, doom, ending, histories>>
      BY DEF StrikeOne, Answers
<1>4. Top.does = "Agnes"
      BY <1>3 DEF IndInv, Asking, Asked
<1>5. by \in Investigators /\ Quiet(r) /\ by \in Agnes /\ "Agnes" \in used /\ Striking(stack)
      BY <1>1, <1>3, <1>4, AgnesIs
<1>6. e \in Enemies
      BY HereIs
<1> QED BY <1>1, <1>2, <1>3, <1>5, <1>6, Hurt

------------------------------------------------------------------------------
(* The invariant holds from the start, and every step keeps it. *)

LEMMA Starts == ASSUME Init PROVE IndInv
<1>1. PICK b \in Boards : /\ at = b.at /\ enemies = b.enemies /\ left = b.left
                          /\ asset = b.asset /\ dodge = b.dodge
      BY DEF Init
<1>2. PICK f, r : f = Anchor("HuntersAfter", None) /\ r = Over(f, <<>>)
      OBVIOUS
<1>3. /\ stack = <<f>> /\ running = TRUE /\ used = {} /\ doom = 0 /\ ending = FALSE
      /\ status = [i \in Investigators |-> IF at[i] = None THEN "Defeated" ELSE "Active"]
      /\ struck = [e \in Enemies |-> 0] /\ cancelled = {} /\ announced = {}
      BY <1>2 DEF Init
<1>4. /\ at \in [Investigators -> Locations \cup {None}] /\ left \in [Investigators -> Points]
      /\ asset \in Capacities /\ dodge \subseteq Investigators /\ enemies \in FoesInPlay(Enemies)
      /\ \A e \in Enemies :
            IF enemies[e].with # None THEN at[enemies[e].with] = enemies[e].at
            ELSE enemies[e].exhausted \/ \A i \in Investigators : at[i] = enemies[e].at => ~Pursues(e, i)
      BY <1>1, BoardsAssumption
<1>5. /\ InPlay = Enemies
      /\ \A e \in Enemies : /\ enemies[e].at \in Locations /\ enemies[e].with \in Investigators \cup {None}
                            /\ enemies[e].exhausted \in BOOLEAN /\ enemies[e].damage < max_health[e]
  <2>1. enemies \in [Enemies -> [at : Locations, with : Investigators \cup {None}, exhausted : BOOLEAN, damage : Nat]]
        BY <1>4, FoesAre
  <2>2. \A e \in Enemies : enemies[e].damage < max_health[e]
        BY <1>4, FoesAre
  <2> QED BY <2>1, <2>2 DEF InPlay
<1>6. f \in Anchors /\ f.resume = "HuntersAfter"
      BY <1>2 DEF Anchor, Anchors
<1>7. Rested(r) /\ Elems(r) = {f}
      BY <1>2, <1>6, AnchorRests
<1>8. stack = r
  <2>1. <<f>> \o <<>> = <<f>>
        OBVIOUS
  <2> QED BY <1>2, <1>3, <2>1 DEF Over
<1>9. Good(stack) /\ Fits
  <2>1. Frames = Elems(r)
        BY <1>8 DEF Frames, Elems
  <2> QED BY <1>7, <1>8, <2>1 DEF Rested, Fits
<1>10. BoardTyped
  <2>1. status \in [Investigators -> {"Active", "Defeated"}]
        BY <1>3
  <2> QED BY <1>3, <1>4, <1>5, <2>1 DEF BoardTyped
<1>11. Asking /\ (ending => Active(status) = {})
      BY <1>3 DEF Asking
<1>12. EngagedTogether
  <2> SUFFICES ASSUME NEW e \in Enemies, enemies[e].with # None
               PROVE  status[enemies[e].with] = "Active" /\ at[enemies[e].with] = enemies[e].at
      BY <1>5 DEF EngagedTogether
  <2>1. enemies[e].with \in Investigators /\ at[enemies[e].with] = enemies[e].at /\ enemies[e].at # None
        BY <1>4, <1>5, EnemyAssumption
  <2> QED BY <1>3, <2>1
<1>13. NoIdleEnemy
  <2> SUFFICES ASSUME NEW e \in Enemies, enemies[e].with = None, ~enemies[e].exhausted
               PROVE  Candidates(status, e, enemies[e].at) = {}
      BY <1>5 DEF NoIdleEnemy
  <2>1. \A i \in Investigators : at[i] = enemies[e].at => ~Pursues(e, i)
        BY <1>4
  <2>2. \A i \in Candidates(status, e, enemies[e].at) :
            i \in Investigators /\ at[i] = enemies[e].at /\ Pursues(e, i)
        BY CandidatesAre
  <2> QED BY <2>1, <2>2
<1>14. Defeats
      BY <1>5 DEF Defeats
<1>15. Strikes
  <2>1. struck \in [Enemies -> Nat] /\ \A e \in Enemies : struck[e] = 0
        BY <1>3
  <2>2. AttacksOnce /\ \A e \in InPlay : ~(struck[e] > 0)
        BY <1>5, <2>1 DEF AttacksOnce
  <2> QED BY <1>3, <2>1, <2>2 DEF Strikes
<1>16. Spared
  <2> SUFFICES ASSUME Hardy, NEW e \in Enemies PROVE e \in InPlay /\ (Agnes = {} \/ enemies[e].damage + 1 < max_health[e])
      BY DEF Spared
  <2> QED BY <1>1, <1>5 DEF Hardy
<1>17. DoomCounted
  <2>1. Cardinality({}) = 0
        BY FS_EmptySet
  <2> QED BY <1>3, <2>1 DEF DoomCounted
<1> QED BY <1>9, <1>10, <1>11, <1>12, <1>13, <1>14, <1>15, <1>16, <1>17 DEF IndInv

LEMMA Driven == ASSUME IndInv, Driver PROVE IndInv'
BY StepRest, StepCancel, StepMoveHunter, StepHuntersDone, StepResolveAttacksForInvestigator,
   StepDriveParkedAttackLoop, StepEnemyPhaseEnd, StepFireWeaknessGameEnd, StepRunSteps,
   StepDistributeUncontested, StepAskDistribution, StepDistributed, StepAnnounce, StepFinishDeal,
   StepPark, StepOpenCell, StepSkipCell, StepAbandonEmit, StepResolveEnemyAttack,
   StepResolveDamageDealt, StepResolveDamagePlaced, StepResolveBare, StepFinishPoint,
   StepQueueForced, StepOpenReactionRun, StepAdvanceResolution, StepCancelAttack, StepRetaliate,
   StepStrikeTheOnlyOne, StepAskWhom, StepPlaceDoom, StepEffectElsewhere, StepCloseBase,
   StepDisposePlayFromHand DEF Driver

LEMMA Answered == ASSUME IndInv, Answer PROVE IndInv'
BY StepResumeEngagementTie, StepResumeHunterChoice, StepResumeAttackOrderPick,
   StepResumeDamageDistribution, StepResumePass, StepFirePendingTrigger, StepStrikeOne DEF Answer

LEMMA Steps == ASSUME IndInv, [Next]_vars PROVE IndInv'
BY Driven, Answered, Stutters DEF Next, PhaseOver

\* Each frame of the stack stands on what is under it and agrees with the board,
\* and the board with the histories (drive, fire_triggers, park_in_effect_base,
\* run_elimination_steps, exhaust_after_attack).
THEOREM Invariance == Spec => []IndInv
<1>1. Init => IndInv
      BY Starts
<1>2. IndInv /\ [Next]_vars => IndInv'
      BY Steps
<1> QED BY <1>1, <1>2, PTL DEF Spec

------------------------------------------------------------------------------
(* What the invariant gives. *)

\* Where a frame of the stack stands.
LEMMA FrameStands ==
    ASSUME IndInv, NEW f \in Frames
    PROVE  f \in AllFrames /\ FitsPhase(f) /\ FitsAttack(f) /\ \E r : Stands(f, r)
<1>1. PICK k \in 1..Len(stack) : stack[k] = f
  <2>1. DOMAIN stack = 1..Len(stack)
        BY LenProperties DEF IndInv, Good
  <2> QED BY <2>1 DEF Frames
<1>2. f \in AllFrames /\ Stands(f, SubSeq(stack, k + 1, Len(stack)))
      BY <1>1, GoodAt DEF IndInv
<1> QED BY <1>2 DEF IndInv, Fits

LEMMA BoardIsSound == ASSUME IndInv PROVE BoardSound
<1>1. \A f \in Frames :
          f.kind \in {"EnemyPhase", "HunterMove", "EngagementTie", "AttackLoop", "EmitEvent",
                      "TimingPoint", "TimingPointWindow", "EffectBase", "Effect",
                      "PlayFromHand", "DealDamage", "Elimination"}
  <2>1. \A f \in AllFrames :
          f.kind \in {"EnemyPhase", "HunterMove", "EngagementTie", "AttackLoop", "EmitEvent",
                      "TimingPoint", "TimingPointWindow", "EffectBase", "Effect",
                      "PlayFromHand", "DealDamage", "Elimination"}
        BY DEF AllFrames, PhaseFrames, CellFrames, EffectFrames, Anchors, HunterMoves, EngagementTies,
               AttackLoops, EmitEvents, TimingPoints, Windows, EffectBases, Effects, PlaysFromHand,
               DealsOfDamage, Eliminations
  <2> QED BY <2>1, FrameStands
<1> QED BY <1>1 DEF IndInv, BoardTyped, BoardSound, TypeOK

LEMMA DealsAreInFull == ASSUME IndInv PROVE DealsInFull
<1> SUFFICES ASSUME NEW f \in Frames, f.kind = "DealDamage", NEW k \in {Damage, Horror}
             PROVE  /\ f.share.self[k] + f.share.asset[k] + f.remaining[k] = attack[f.enemy][k]
                    /\ f.step # "Finish" /\ f.share.asset[k] > 0
                           => asset[f.who] # None /\ f.share.asset[k] <= asset[f.who][k]
    BY DEF DealsInFull, Deals
<1>1. FitsAttack(f) /\ \E r : Stands(f, r)
      BY FrameStands
<1>2. FitsBlow(f)
      BY <1>1, BlowIs
<1> QED BY <1>1, <1>2 DEF Stands, StandsHarm, FitsBlow

LEMMA EffectsAreWhole == ASSUME IndInv PROVE EffectsWhole
<1>1. EffectFinishesFirst
  <2> SUFFICES ASSUME NEW j \in DOMAIN stack, NEW k \in DOMAIN stack, j < k, stack[j].kind = "TimingPoint",
                      stack[j].bucket # "When", stack[k].kind = "EffectBase"
               PROVE  \E m \in (j + 1)..(k - 1) : BoundsEffectDeferral(stack[m])
      BY DEF EffectFinishesFirst
  <2>1. Good(stack) /\ stack \in Seq(AllFrames) /\ Len(stack) \in Nat /\ DOMAIN stack = 1..Len(stack)
        BY LenProperties DEF IndInv, Good
  <2>2. j \in 1..Len(stack) /\ k \in 1..Len(stack) /\ j + 1 \in 1..Len(stack)
        BY <2>1
  <2>3. PICK n, r : n = j + 1 /\ r = SubSeq(stack, n + 1, Len(stack))
        OBVIOUS
  <2>4. stack[n].kind = "EmitEvent" /\ stack[n].step = "After"
    <3>1. PICK u : u = SubSeq(stack, j + 1, Len(stack))
          OBVIOUS
    <3>2. Stands(stack[j], u)
          BY <2>1, <2>2, <3>1, GoodAt
    <3>3. u[1].kind = "EmitEvent" /\ u[1].step = stack[j].bucket /\ stack[j].bucket \in {"When", "After"} /\ Len(u) >= 1
          BY <3>2 DEF Stands, StandsCell
    <3>4. u[1] = stack[j + 1]
          BY <2>1, <2>2, <3>1, <3>3, SubIs
    <3> QED BY <2>3, <3>3, <3>4
  <2>5. Boundless(r)
    <3>1. Stands(stack[n], r)
          BY <2>1, <2>2, <2>3, GoodAt
    <3> QED BY <2>4, <3>1 DEF Stands, StandsEmit
  <2>6. k > n
        BY <2>2, <2>3, <2>4
  <2>7. PICK p : p = k - n /\ p \in 1..Len(r) /\ r[p] = stack[k] /\ \A q \in 1..Len(r) : r[q] = stack[n + q]
    <3>1. /\ \A q \in 1..Len(r) : r[q] = stack[n + q]
          /\ \A q \in (n + 1)..Len(stack) : q - n \in 1..Len(r) /\ r[q - n] = stack[q]
          BY <2>1, <2>2, <2>3, SubIs
    <3>2. k \in (n + 1)..Len(stack)
          BY <2>1, <2>2, <2>3, <2>6
    <3> QED BY <3>1, <3>2
  <2>8. PICK q \in 1..p : BoundsEffectDeferral(r[q])
        BY <2>5, <2>7 DEF Boundless
  <2>9. q # p
        BY <2>7, <2>8 DEF BoundsEffectDeferral
  <2>10. n + q \in (j + 1)..(k - 1) /\ q \in 1..Len(r)
    <3>1. Len(r) \in Nat
          BY <2>1, <2>2, <2>3, SubIs
    <3>2. j \in Nat /\ k \in Nat /\ p \in Nat /\ p <= Len(r) /\ p = k - (j + 1)
      <4>1. p \in 1..Len(r) /\ p = k - (j + 1)
            BY <2>3, <2>7
      <4>2. j \in Nat /\ k \in Nat
            BY <2>1, <2>2
      <4> QED BY <3>1, <4>1, <4>2
    <3>3. q \in Nat /\ 1 <= q /\ q <= p
          BY <3>2
    <3>4. q < p
          BY <2>9, <3>2, <3>3
    <3>5. (j + 1) + q \in (j + 1)..(k - 1) /\ q \in 1..Len(r)
          BY <3>1, <3>2, <3>3, <3>4
    <3> QED BY <2>3, <3>5
  <2> QED BY <2>7, <2>8, <2>10
<1>2. DefeatsAnnounced
  <2> SUFFICES ASSUME NEW e \in Enemies \ (InPlay \cup announced)
               PROVE  \E f \in Emits \cup UNION {Elems(g.parked) : g \in {h \in Frames : h.kind = "EffectBase"}} :
                          f.event.kind = "EnemyDefeated" /\ f.event.enemy = e
      BY DEF DefeatsAnnounced
  <2>1. PICK f \in Frames : Tells(f, e)
        BY DEF IndInv, Defeats
  <2>2. CASE IsEmit(f, "EnemyDefeated") /\ f.event.enemy = e
        BY <2>1, <2>2 DEF IsEmit, Emits
  <2>3. CASE f.kind = "EffectBase" /\ \E g \in Elems(f.parked) : g.event.kind = "EnemyDefeated" /\ g.event.enemy = e
        BY <2>1, <2>3
  <2> QED BY <2>1, <2>2, <2>3 DEF Tells
<1> QED BY <1>1, <1>2 DEF EffectsWhole

LEMMA CancelledLands == ASSUME IndInv PROVE CancelledLandsNothing
<1>1. ASSUME NEW f \in Emits, f.prevented PROVE f.step \in {"When", "ResolveCondition"}
  <2>1. f \in Frames /\ f.kind = "EmitEvent"
        BY DEF Emits
  <2>2. PICK r : Stands(f, r)
        BY <2>1, FrameStands
  <2> QED BY <1>1, <2>1, <2>2 DEF Stands, StandsEmit
<1>2. ASSUME NEW f \in Deals PROVE f.enemy \notin cancelled
  <2>1. f \in Frames /\ f.kind = "DealDamage"
        BY DEF Deals
  <2>2. FitsBlow(f)
        BY <2>1, FrameStands, BlowIs
  <2> QED BY <2>1, <2>2 DEF FitsBlow
<1>3. doom <= Cardinality({e \in Acolytes \ cancelled : struck[e] > 0})
  <2>1. PICK D \in SUBSET (Acolytes \ cancelled) : doom = Cardinality(D) /\ \A e \in D : struck[e] > 0
        BY DEF IndInv, DoomCounted
  <2>2. PICK S : S = {e \in Acolytes \ cancelled : struck[e] > 0}
        OBVIOUS
  <2>3. IsFiniteSet(S)
    <3>1. S \subseteq Enemies
          BY <2>2, EnemyAssumption
    <3> QED BY <3>1, FiniteFoes, FS_Subset
  <2>4. D \subseteq S
        BY <2>1, <2>2
  <2>5. Cardinality(D) <= Cardinality(S)
        BY <2>3, <2>4, FS_Subset
  <2> QED BY <2>1, <2>2, <2>5
<1> QED BY <1>1, <1>2, <1>3 DEF CancelledLandsNothing

LEMMA AttackersAreFair == ASSUME IndInv, Hardy PROVE AttackersFair
<1>1. OnlyTheEngagedAttack
  <2> SUFFICES ASSUME NEW f \in Frames, f.kind = "EmitEvent", f.event.kind = "EnemyAttacks",
                      f.step \in {"When", "ResolveCondition"}
               PROVE  /\ status[f.event.who] = "Active" /\ f.event.enemy \in InPlay
                      /\ enemies[f.event.enemy].with = f.event.who /\ ~enemies[f.event.enemy].exhausted
      BY DEF OnlyTheEngagedAttack, Emits
  <2>1. FitsBlow(f)
        BY FrameStands, BlowIs
  <2> QED BY <2>1 DEF FitsBlow, IsEmit, Attackable
<1> QED BY <1>1 DEF IndInv, Strikes, AttackersFair

\* Whatever the cards: an enemy that is in play when its attack is to land.
LandsFairly ==
    \A f \in {g \in Emits : g.event.kind = "EnemyAttacks" /\ g.step \in {"When", "ResolveCondition"}} :
        /\ status[f.event.who] = "Active"
        /\ f.event.enemy \in InPlay => enemies[f.event.enemy].with = f.event.who /\ ~enemies[f.event.enemy].exhausted

LEMMA LandFairly == ASSUME IndInv PROVE LandsFairly
<1> SUFFICES ASSUME NEW f \in Frames, f.kind = "EmitEvent", f.event.kind = "EnemyAttacks",
                    f.step \in {"When", "ResolveCondition"}
             PROVE  /\ status[f.event.who] = "Active"
                    /\ f.event.enemy \in InPlay =>
                          enemies[f.event.enemy].with = f.event.who /\ ~enemies[f.event.enemy].exhausted
    BY DEF LandsFairly, Emits
<1>1. FitsBlow(f)
      BY FrameStands, BlowIs
<1> QED BY <1>1 DEF FitsBlow, IsEmit, Attackable

\* Every variable and frame has its type, an engaged enemy stands with somebody
\* still in the game, and a ready one that stands with its prey is engaged with
\* it unless the lead has still to say with whom: after every move, placement,
\* defeat and elimination (engage_each_or_push_ties, run_elimination_steps).
THEOREM BoardStaysSound == Spec => []BoardSound
<1>1. IndInv => BoardSound
      BY BoardIsSound
<1> QED BY <1>1, Invariance, PTL

\* A deal loses no point and invents none while it is shared out, and gives an
\* asset no more than it can take (drive_deal_damage, resume_deal_damage).
THEOREM NoPointIsLost == Spec => []DealsInFull
<1>1. IndInv => DealsInFull
      BY DealsAreInFull
<1> QED BY <1>1, Invariance, PTL

\* No At or After cell opens above an effect that raised its condition, and no
\* defeat is forgotten before its After cell (park_in_effect_base,
\* close_effect_base).
THEOREM EffectsResolveWhole == Spec => []EffectsWhole
<1>1. IndInv => EffectsWhole
      BY EffectsAreWhole
<1> QED BY <1>1, Invariance, PTL

\* A cancelled attack has no cell after its resolution, no deal, and no doom
\* (cancel_current_impact, abandon_emit).
THEOREM CancelledIsAbandoned == Spec => []CancelledLandsNothing
<1>1. IndInv => CancelledLandsNothing
      BY CancelledLands
<1> QED BY <1>1, Invariance, PTL

\* No enemy attacks twice in the phase, whoever it engages after its attack
\* (exhaust_after_attack, drive_attack_loop).
THEOREM NobodyAttacksTwice == Spec => []AttacksOnce
<1>1. IndInv => AttacksOnce
      BY DEF IndInv, Strikes
<1> QED BY <1>1, Invariance, PTL

\* Where no card can defeat an enemy before it attacks, each attack that has not
\* landed is by an enemy in play, ready and engaged with the player it attacks,
\* and that player is in the game (drive_attack_loop lists the attackers once).
THEOREM AttacksAreFair == ASSUME Hardy PROVE Spec => []AttackersFair
<1>1. IndInv => AttackersFair
      BY AttackersAreFair
<1> QED BY <1>1, Invariance, PTL

\* Whatever the cards, no attack is still to land on a player who is out, or is
\* by an enemy in play that is exhausted or engaged with another: all a list of
\* attackers can go wrong by is an enemy that is gone (drive_attack_loop).
THEOREM AttacksLandFairly == Spec => []LandsFairly
<1>1. IndInv => LandsFairly
      BY LandFairly
<1> QED BY <1>1, Invariance, PTL
================================================================================
