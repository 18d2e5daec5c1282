------------------------------ MODULE Round_proofs ------------------------------
(***************************************************************************)
(* Theorems about the rounds (Round): for any seating, any length of a     *)
(* surge and any number of attackers and hunters, the stack is always one  *)
(* its drivers can work on, an apply stops only over a prompt that may be  *)
(* asked, an ending is wound down from the bottom, and the rounds are the  *)
(* framework's.                                                            *)
(***************************************************************************)
EXTENDS Round, SequenceTheorems, FiniteSetTheorems, WellFoundedInduction, TLAPS

------------------------------------------------------------------------------
(* The invariant: what one frame is, what it may stand on, and how far the *)
(* phase has come when it does.                                            *)

Kinds == Phases \cup Resting \cup
         {"InvestigatorTurn", "AttackLoop", "OpportunityAttacks", "PlayerDraw", "Emit", "Ability",
          "AdvanceReverse", "Elimination", "ScenarioEnd"}
Places == UNION {Steps(kind) : kind \in Kinds}
FrameSet == [kind : Kinds, at : Places, who : Investigators \cup {None},
             queue : Seq(Investigators), n : Nat]

\* What the game is beside its stack.
Worlds == [st : [Investigators -> {"Active", "Eliminated"}], ph : Phases,
           ac : Investigators \cup {None}, en : BOOLEAN, tk : Seq(Investigators)]
World == [st |-> status, ph |-> phase, ac |-> active, en |-> ending, tk |-> taken]

Asked == {"Mulligan", "TurnChoice", "EncounterDraw", "HandSizeDiscard"}
Attacking == {"AttackLoop", "OpportunityAttacks"}

Counted(f) ==
    f.n \in CASE f.kind = "InvestigatorTurn" -> 0..1
              [] f.kind \in Attacking -> 1..Attackers
              [] f.kind = "PlayerDraw" -> 0..Surges
              [] f.kind = "Enemy" -> 0..Hunters
              [] OTHER -> {0}

FrameOK(f) ==
    /\ f \in FrameSet
    /\ f.at \in Steps(f.kind)
    /\ Counted(f)
    /\ f.kind = "PlayerDraw" => IF f.at = "Draws" THEN f.n < Surges ELSE f.n # 0
    /\ f.kind \in Attacking \cup {"PlayerDraw", "ActionResolution", "InvestigatorTurn"}
          => f.who \in Investigators
    /\ f.at \in {"BeforeInvestigatorAttacked", "Drawing"} => f.who \in Investigators
    /\ f.kind \in Asked => f.queue # <<>>

\* The one anchor is that of the phase, and the open turn that of who is active.
Present(f, w) ==
    /\ f.kind \in Phases => f.kind = w.ph
    /\ f.kind = "Mulligan" => w.ph = "Investigation"
    /\ f.kind = "InvestigatorTurn" => f.who = w.ac

\* What a frame may have above it.
Holds(g) ==
    /\ g.kind \notin Asked
    /\ g.kind \in Attacking => g.at = "Attacking"
    /\ g.kind = "PlayerDraw" => g.n # 0

\* Frame f directly above g.
Stands(f, g) ==
    /\ f.kind # "ScenarioEnd"
    /\ f.kind \in Phases \cup {"Mulligan"} => g.kind = "ScenarioEnd"
    /\ f.kind \in {"InvestigatorTurn", "TurnChoice"} => g.kind = "Investigation"
    /\ f.kind = "InvestigatorTurn" => g.at = "TurnBegins"
    /\ f.kind = "TurnChoice" => g.at \in {"Begins", "TurnBegins"}
    /\ f.kind = "AttackLoop" =>
          g.kind = "Enemy" /\ g.who = f.who /\ g.at = "BeforeInvestigatorAttacked"
    /\ f.kind = "OpportunityAttacks" => g.kind = "ActionResolution"
    /\ f.kind = "ActionResolution" => g.kind = "InvestigatorTurn"
    /\ f.kind = "EncounterDraw" => g.kind = "Mythos" /\ g.at = "AfterDraws"
    /\ f.kind = "PlayerDraw" => g.kind = "EncounterDraw" /\ f.who = Head(g.queue)
    /\ f.kind = "HandSizeDiscard" => g.kind = "Upkeep" /\ g.at \in {"AfterReady", "Drawing"}
    /\ f.kind # "PlayerDraw" => Holds(g)

\* The ending's frame is at the bottom just when the ending has latched.
AtBottom(f, w) == f.kind \in Phases \cup {"Mulligan", "ScenarioEnd"} /\ (f.kind = "ScenarioEnd" <=> w.en)

Done(w) == Active(w.st) \subseteq Elems(w.tk)

\* Everybody in the game up to i, and nobody past i, has taken their part.
UpTo(i, w) ==
    /\ \A j \in Active(w.st) : Position(j) <= Position(i) => j \in Elems(w.tk)
    /\ \A j \in Elems(w.tk) : Position(j) <= Position(i)
Before(i, w) ==
    /\ \A j \in Active(w.st) : Position(j) < Position(i) => j \in Elems(w.tk)
    /\ \A j \in Elems(w.tk) : Position(j) < Position(i)

\* How far a phase has come, with nobody asked or attacked above its anchor.
Idle(a, w) ==
    /\ a.at \in {"Entry", "AfterPhaseStartForced", "Draws", "HuntersAfter", "AfterReady"}
          => w.tk = <<>>
    /\ a.kind = "Upkeep" /\ a.at = "Begins" => w.tk = <<>>
    /\ a.at \in {"Entry", "AfterPhaseStartForced"} => a.queue = <<>>
    /\ a.at \in {"AfterDraws", "AfterAllAttacked", "AfterPhaseEndForced", "AfterRoundEnd"}
          => Done(w)
    /\ a.kind = "Investigation" /\ a.at = "Begins" => Elems(w.tk) = Elems(a.queue)
    /\ a.at \in {"AfterTurnBegan", "TurnBegins"} =>
          w.ac \in Investigators /\ Elems(w.tk) = Elems(a.queue) \cup {w.ac}
    /\ a.at = "BeforeInvestigatorAttacked" => Before(a.who, w)
    /\ a.at = "Drawing" => UpTo(a.who, w)

Increasing(q) == \A j, k \in 1..Len(q) : j < k => Position(q[j]) < Position(q[k])

\* How far it has come with f above g.
Runs(f, g, w) ==
    /\ f.kind = "EncounterDraw" =>
          /\ Active(w.st) \subseteq Elems(w.tk) \cup Elems(f.queue)
          /\ Increasing(f.queue)
          /\ Elems(Tail(f.queue)) \cap Elems(w.tk) = {}
    /\ f.kind = "PlayerDraw" =>
          IF f.n = 0 THEN f.who \in Active(w.st) \ Elems(w.tk) ELSE f.who \in Elems(w.tk)
    /\ f.kind = "TurnChoice" =>
          /\ Elems(w.tk) = Elems(g.queue)
          /\ Elems(f.queue) \subseteq Active(w.st) \ Elems(w.tk)
    /\ f.kind = "AttackLoop" => UpTo(f.who, w)
    /\ f.kind = "HandSizeDiscard" => Done(w) /\ Elems(f.queue) \subseteq Active(w.st)
    /\ g.kind \in Phases /\ f.kind \notin Asked \cup {"AttackLoop"} => Idle(g, w)

\* And with f on top.
OnTop(f, w) ==
    /\ f.kind \in Phases => Idle(f, w)
    /\ f.kind = "Mulligan" => w.tk = <<>>
    /\ f.kind = "EncounterDraw" => Head(f.queue) \in Active(w.st) \ Elems(w.tk)
    /\ f.kind \in Attacking /\ f.at = "PickOrder" => f.who \in Active(w.st)

Joined(f, g, w) == Stands(f, g) /\ (~w.en => Runs(f, g, w))
Fits(f, s, w) ==
    FrameOK(f) /\ Present(f, w) /\ IF s = <<>> THEN AtBottom(f, w) ELSE Joined(f, Head(s), w)

Good(s, w) ==
    /\ s \in Seq(FrameSet)
    /\ \A k \in 1..Len(s) :
          /\ FrameOK(s[k]) /\ Present(s[k], w)
          /\ k = Len(s) => AtBottom(s[k], w)
          /\ k < Len(s) => Joined(s[k], s[k + 1], w)

HasElimination(s) == \E k \in 1..Len(s) : s[k].kind = "Elimination"
Lasts(s, w) == Active(w.st) = {} => w.en \/ HasElimination(s)

Sound(s, w) ==
    /\ Good(s, w) /\ Lasts(s, w)
    /\ s = <<>> => w.en
    /\ s # <<>> /\ ~w.en => OnTop(Head(s), w)

\* A stack on which a loose frame may be put: one that stands on any frame and
\* holds any frame above it.
Loose == {"Emit", "Ability", "Reaction", "FastWindow", "EngagementTie", "HunterMove",
          "AdvanceReverse", "Elimination", "EncounterCard"}
Firm(s, w) ==
    /\ Good(s, w) /\ s # <<>> /\ Holds(Head(s))
    /\ ~w.en /\ Head(s).kind \in Phases => Idle(Head(s), w)

IndInv == World \in Worlds /\ running \in BOOLEAN /\ Sound(stack, World) /\ AtRest

------------------------------------------------------------------------------
(* Stacks, a frame at a time. *)

Over(f, s) == <<f>> \o s

LEMMA OverSeq ==
    ASSUME NEW S, NEW f \in S, NEW s \in Seq(S)
    PROVE  /\ Over(f, s) \in Seq(S) /\ Over(f, s) # <<>>
           /\ Len(Over(f, s)) = Len(s) + 1
           /\ Over(f, s)[1] = f
           /\ \A k \in 1..Len(s) : Over(f, s)[k + 1] = s[k]
           /\ Head(Over(f, s)) = f /\ Tail(Over(f, s)) = s
<1>1. Over(f, s) \in Seq(S) /\ Len(Over(f, s)) = Len(s) + 1
      BY DEF Over
<1>2. Over(f, s)[1] = f /\ \A k \in 1..Len(s) : Over(f, s)[k + 1] = s[k]
      BY DEF Over
<1>3. Over(f, s) # <<>> /\ Head(Over(f, s)) = f
      BY <1>1, <1>2
<1>4. Tail(Over(f, s)) = s
  <2>1. /\ Tail(Over(f, s)) \in Seq(S) /\ Len(Tail(Over(f, s))) = Len(s)
        /\ \A k \in 1..Len(s) : Tail(Over(f, s))[k] = s[k]
        BY <1>1, <1>2, <1>3
  <2> QED BY <2>1, SeqEqual
<1> QED BY <1>1, <1>2, <1>3, <1>4

LEMMA HeadOver ==
    ASSUME NEW S, NEW s \in Seq(S), s # <<>>
    PROVE  /\ Head(s) \in S /\ Tail(s) \in Seq(S) /\ Over(Head(s), Tail(s)) = s
           /\ Len(s) = Len(Tail(s)) + 1 /\ Len(s) \in Nat /\ s[1] = Head(s)
           /\ \A k \in 1..Len(Tail(s)) : s[k + 1] = Tail(s)[k]
<1>1. /\ Head(s) \in S /\ Tail(s) \in Seq(S) /\ Len(s) = Len(Tail(s)) + 1
      /\ Len(s) \in Nat /\ s[1] = Head(s)
      /\ \A k \in 1..Len(Tail(s)) : s[k + 1] = Tail(s)[k]
      OBVIOUS
<1>2. /\ Over(Head(s), Tail(s)) \in Seq(S) /\ Len(Over(Head(s), Tail(s))) = Len(s)
      /\ \A k \in 1..Len(s) : Over(Head(s), Tail(s))[k] = s[k]
  <2>1. /\ Over(Head(s), Tail(s)) \in Seq(S)
        /\ Len(Over(Head(s), Tail(s))) = Len(Tail(s)) + 1
        /\ Over(Head(s), Tail(s))[1] = Head(s)
        /\ \A k \in 1..Len(Tail(s)) : Over(Head(s), Tail(s))[k + 1] = Tail(s)[k]
        BY <1>1, OverSeq, Zenon
  <2>2. ASSUME NEW k \in 1..Len(s), k # 1 PROVE Over(Head(s), Tail(s))[k] = s[k]
    <3>1. k - 1 \in 1..Len(Tail(s)) /\ (k - 1) + 1 = k
          BY <1>1, <2>2
    <3>2. Over(Head(s), Tail(s))[(k - 1) + 1] = s[(k - 1) + 1]
          BY <1>1, <2>1, <3>1
    <3> QED BY <3>1, <3>2
  <2> QED BY <1>1, <2>1, <2>2
<1> QED BY <1>1, <1>2, SeqEqual

LEMMA OverTwo ==
    ASSUME NEW S, NEW s \in Seq(S)
    PROVE  /\ <<>> \o s = s
           /\ \A f \in S : <<f>> \o s = Over(f, s)
           /\ \A f, g \in S : <<f, g>> \o s = Over(f, Over(g, s))
           /\ \A f, g, h \in S : <<f, g, h>> \o s = Over(f, Over(g, Over(h, s)))
           /\ \A t, u \in Seq(S) : t \o (u \o s) = (t \o u) \o s
           /\ s \o <<>> = s
<1>1. <<>> \o s = s /\ s \o <<>> = s
      BY SeqEqual
<1>2. \A f \in S : <<f>> \o s = Over(f, s)
      BY DEF Over
<1>3. ASSUME NEW f \in S, NEW g \in S PROVE <<f, g>> \o s = Over(f, Over(g, s))
  <2>1. <<f>> \o (<<g>> \o s) = (<<f>> \o <<g>>) \o s
        BY ConcatAssociative, <<f>> \in Seq(S), <<g>> \in Seq(S)
  <2>2. <<f>> \o <<g>> = <<f, g>>
    <3>1. /\ <<f>> \o <<g>> \in Seq(S) /\ <<f, g>> \in Seq(S) /\ Len(<<f>> \o <<g>>) = 2
          /\ (<<f>> \o <<g>>)[1] = f /\ (<<f>> \o <<g>>)[2] = g
          /\ Len(<<f, g>>) = 2 /\ <<f, g>>[1] = f /\ <<f, g>>[2] = g
          OBVIOUS
    <3>2. \A k \in 1..2 : (<<f>> \o <<g>>)[k] = <<f, g>>[k]
      <4>1. \A k \in 1..2 : k = 1 \/ k = 2
            OBVIOUS
      <4> QED BY <3>1, <4>1
    <3> QED BY <3>1, <3>2, SeqEqual
  <2> QED BY <2>1, <2>2 DEF Over
<1>4. ASSUME NEW f \in S, NEW g \in S, NEW h \in S
      PROVE  <<f, g, h>> \o s = Over(f, Over(g, Over(h, s)))
  <2>1. <<f>> \o (<<g, h>> \o s) = (<<f>> \o <<g, h>>) \o s
        BY ConcatAssociative, <<f>> \in Seq(S), <<g, h>> \in Seq(S)
  <2>2. <<f>> \o <<g, h>> = <<f, g, h>>
    <3>1. /\ <<f>> \o <<g, h>> \in Seq(S) /\ <<f, g, h>> \in Seq(S)
          /\ Len(<<f>> \o <<g, h>>) = 3
          /\ (<<f>> \o <<g, h>>)[1] = f /\ (<<f>> \o <<g, h>>)[2] = g
          /\ (<<f>> \o <<g, h>>)[3] = h
          /\ Len(<<f, g, h>>) = 3 /\ <<f, g, h>>[1] = f /\ <<f, g, h>>[2] = g
          /\ <<f, g, h>>[3] = h
          OBVIOUS
    <3>2. \A k \in 1..3 : (<<f>> \o <<g, h>>)[k] = <<f, g, h>>[k]
      <4>1. \A k \in 1..3 : k = 1 \/ k = 2 \/ k = 3
            OBVIOUS
      <4> QED BY <3>1, <4>1
    <3> QED BY <3>1, <3>2, SeqEqual
  <2> QED BY <1>3, <2>1, <2>2 DEF Over
<1>5. \A t, u \in Seq(S) : t \o (u \o s) = (t \o u) \o s
  <2> TAKE t, u \in Seq(S)
  <2>1. (t \o u) \o s = t \o (u \o s)
        BY ConcatAssociative, SMTT(30)
  <2> QED BY <2>1, Zenon
<1> QED BY <1>1, <1>2, <1>3, <1>4, <1>5
\* Induction over the naturals, said of a set so that it can be cited: a set of
\* naturals that held back a least one would, with it, make an infinite descent.
LEMMA NatInduct ==
    ASSUME NEW T \in SUBSET Nat, 0 \in T, \A n \in T : n + 1 \in T
    PROVE  T = Nat
<1>1. SUFFICES ASSUME NEW t \in Nat \ T PROVE FALSE
      OBVIOUS
<1> DEFINE S == 0..t
           F == {0..k : k \in {n \in Nat \ T : n <= t}}
<1>2. IsWellFoundedOn(StrictSubsetOrdering(S), SUBSET S)
  <2>1. IsFiniteSet(S)
        BY FS_Interval
  <2> QED BY <2>1, FS_FiniteSubsetsOfFinite, FS_StrictSubsetOrderingWellFounded
<1>3. PICK x \in F : \A y \in F : ~(<<y, x>> \in StrictSubsetOrdering(S))
  <2>1. F \subseteq SUBSET S /\ F # {}
        BY <1>1
  <2> HIDE DEF F, S
  <2> QED BY <1>2, <2>1, WFMin
<1>4. PICK m \in Nat \ T : m <= t /\ x = 0..m
      BY <1>3
<1>5. m - 1 \in Nat \ T
      BY <1>4
<1>6. /\ 0..(m - 1) \in F
      /\ 0..(m - 1) \subseteq 0..m /\ 0..(m - 1) # 0..m
      /\ F \subseteq SUBSET S
      BY <1>4, <1>5
<1>7. <<0..(m - 1), x>> \in StrictSubsetOrdering(S)
      BY <1>4, <1>6, Zenon DEF StrictSubsetOrdering
<1> QED BY <1>3, <1>6, <1>7

\* What Among computes: the elements that are in G, in their order.
LEMMA AmongProperties ==
    ASSUME NEW S, NEW s \in Seq(S), NEW G
    PROVE  /\ Among(s, G) \in Seq(S)
           /\ Len(Among(s, G)) <= Len(s)
           /\ Elems(Among(s, G)) = Elems(s) \cap G
           /\ \E place \in [DOMAIN Among(s, G) -> DOMAIN s] :
                 /\ \A k \in DOMAIN Among(s, G) : Among(s, G)[k] = s[place[k]]
                 /\ \A j, k \in DOMAIN Among(s, G) : j < k => place[j] < place[k]
<1> DEFINE Body(f, i) == IF i = 0 THEN <<>>
                         ELSE IF s[i] \in G THEN Append(f[i - 1], s[i]) ELSE f[i - 1]
           among[i \in 0..Len(s)] ==
               IF i = 0 THEN <<>>
               ELSE IF s[i] \in G THEN Append(among[i - 1], s[i]) ELSE among[i - 1]
<1>1. Len(s) \in Nat /\ DOMAIN s = 1..Len(s)
      BY LenProperties
<1>2. among = [i \in 0..Len(s) |-> Body(among, i)]
  <2> DEFINE Computed == {n \in Nat : \E f : f = [i \in 0..n |-> Body(f, i)]}
  <2>1. 0 \in Computed
    <3> DEFINE f == [i \in 0..0 |-> <<>>]
    <3>1. f = [i \in 0..0 |-> Body(f, i)]
          OBVIOUS
    <3> HIDE DEF f
    <3> QED BY <3>1
  <2>2. ASSUME NEW n \in Computed PROVE n + 1 \in Computed
    <3>1. PICK f : f = [i \in 0..n |-> Body(f, i)]
          BY <2>2
    <3> DEFINE g == [i \in 0..(n + 1) |-> IF i = n + 1 THEN Body(f, i) ELSE f[i]]
    <3>2. ASSUME NEW i \in 0..(n + 1) PROVE g[i] = Body(g, i)
      <4>1. CASE i = 0
            BY <3>1, <4>1
      <4>2. CASE i \in 1..n
        <5>1. g[i] = f[i] /\ g[i - 1] = f[i - 1]
              BY <4>2
        <5>2. f[i] = Body(f, i)
          <6> HIDE DEF Body
          <6>1. i \in 0..n
                BY <4>2
          <6> QED BY <3>1, <6>1, Zenon
        <5> HIDE DEF g
        <5> QED BY <4>2, <5>1, <5>2
      <4>3. CASE i = n + 1
            BY <4>3
      <4> QED BY <4>1, <4>2, <4>3
    <3>3. g = [i \in 0..(n + 1) |-> Body(g, i)]
      <4> DEFINE h == [i \in 0..(n + 1) |-> Body(g, i)]
      <4>1. \A i \in 0..(n + 1) : h[i] = g[i]
            BY <3>2
      <4>2. DOMAIN g = DOMAIN h /\ DOMAIN h = 0..(n + 1)
            OBVIOUS
      <4> QED BY <3>2
    <3> HIDE DEF g, Body
    <3> QED BY <3>3
  <2>3. Len(s) \in Computed
    <3> HIDE DEF Computed
    <3>1. Computed \in SUBSET Nat
          BY DEF Computed
    <3> QED BY <1>1, <2>1, <2>2, <3>1, NatInduct
  <2>4. PICK f : f = [i \in 0..Len(s) |-> Body(f, i)]
        BY <2>3
  <2>5. among = CHOOSE g : g = [i \in 0..Len(s) |-> Body(g, i)]
        BY DEF among
  <2> HIDE DEF among
  <2> QED BY <2>4, <2>5
<1>3. /\ among[0] = <<>>
      /\ \A i \in 1..Len(s) : among[i] = IF s[i] \in G THEN Append(among[i - 1], s[i])
                                       ELSE among[i - 1]
  <2>1. \A i \in 0..Len(s) : among[i] = Body(among, i)
    <3> HIDE DEF among, Body
    <3> QED BY <1>2
  <2> HIDE DEF among
  <2> QED BY <1>1, <2>1
<1>4. Among(s, G) = among[Len(s)]
      BY DEF Among
<1> DEFINE InPlace(r, n) == \E place \in [DOMAIN r -> 1..n] :
                              /\ \A k \in DOMAIN r : r[k] = s[place[k]]
                              /\ \A j, k \in DOMAIN r : j < k => place[j] < place[k]
           Right(r, n) == /\ r \in Seq(S)
                          /\ Len(r) <= n
                          /\ \A k \in DOMAIN r : r[k] \in G
                          /\ \A j \in 1..n : s[j] \in G => \E k \in DOMAIN r : r[k] = s[j]
                          /\ InPlace(r, n)
           Reached == {n \in Nat : n <= Len(s) => Right(among[n], n)}
<1> HIDE DEF among, InPlace, Right, Reached
<1>5. 0 \in Reached
  <2>1. <<>> \in Seq(S) /\ Len(<<>>) = 0 /\ DOMAIN <<>> = {}
        BY EmptySeq, LenProperties
  <2>2. InPlace(<<>>, 0)
    <3>1. [k \in {} |-> k] \in [DOMAIN <<>> -> 1..0]
          BY <2>1
    <3> QED BY <2>1, <3>1 DEF InPlace
  <2>3. Right(<<>>, 0)
        BY <2>1, <2>2 DEF Right
  <2> QED BY <1>3, <2>3 DEF Reached
<1>6. ASSUME NEW n \in Nat, n \in Reached PROVE n + 1 \in Reached
  <2> SUFFICES ASSUME n + 1 <= Len(s) PROVE Right(among[n + 1], n + 1)
      BY <1>6 DEF Reached
  <2> DEFINE r == among[n]
             e == s[n + 1]
  <2>1. Right(r, n)
        BY <1>1, <1>6 DEF Reached
  <2>2. /\ r \in Seq(S) /\ Len(r) \in Nat /\ DOMAIN r = 1..Len(r) /\ Len(r) <= n
        /\ e \in S
        BY <1>1, <1>6, <2>1, LenProperties, ElementOfSeq DEF Right
  <2>3. PICK f \in [DOMAIN r -> 1..n] : /\ \A k \in DOMAIN r : r[k] = s[f[k]]
                                        /\ \A j, k \in DOMAIN r : j < k => f[j] < f[k]
        BY <2>1 DEF Right, InPlace
  <2>4. /\ \A k \in DOMAIN r : r[k] \in G
        /\ \A j \in 1..n : s[j] \in G => \E k \in DOMAIN r : r[k] = s[j]
        BY <2>1 DEF Right
  <2>5. among[n + 1] = IF e \in G THEN Append(r, e) ELSE r
        BY <1>1, <1>3
  <2> HIDE DEF r, e
  <2>6. \A j \in 1..(n + 1) : j = n + 1 \/ j \in 1..n
        OBVIOUS
  <2>7. CASE e \notin G
    <3>1. f \in [DOMAIN r -> 1..(n + 1)]
          BY <2>2
    <3>2. InPlace(r, n + 1)
          BY <2>3, <3>1 DEF InPlace
    <3>3. \A j \in 1..(n + 1) : s[j] \in G => \E k \in DOMAIN r : r[k] = s[j]
          BY <2>4, <2>6, <2>7 DEF e
    <3>4. Right(r, n + 1)
          BY <2>2, <2>4, <3>2, <3>3 DEF Right
    <3> QED BY <2>5, <2>7, <3>4
  <2>8. CASE e \in G
    <3> DEFINE t == Append(r, e)
    <3>1. /\ t \in Seq(S) /\ Len(t) = Len(r) + 1 /\ DOMAIN t = 1..(Len(r) + 1)
          /\ \A k \in 1..Len(r) : t[k] = r[k]
          /\ t[Len(r) + 1] = e
          BY <2>2, AppendProperties, LenProperties
    <3> HIDE DEF t
    <3> DEFINE g == [k \in DOMAIN t |-> IF k = Len(r) + 1 THEN n + 1 ELSE f[k]]
    <3>2. g \in [DOMAIN t -> 1..(n + 1)]
          BY <2>2, <3>1
    <3>3. \A k \in DOMAIN t : t[k] = s[g[k]]
          BY <2>2, <2>3, <3>1 DEF e
    <3>4. \A j, k \in DOMAIN t : j < k => g[j] < g[k]
          BY <2>2, <2>3, <3>1
    <3> HIDE DEF g
    <3>5. InPlace(t, n + 1)
          BY <3>2, <3>3, <3>4 DEF InPlace
    <3>6. \A k \in DOMAIN t : t[k] \in G
          BY <2>2, <2>4, <2>8, <3>1
    <3>7. \A j \in 1..(n + 1) : s[j] \in G => \E k \in DOMAIN t : t[k] = s[j]
      <4>1. s[n + 1] = e /\ Len(r) + 1 \in DOMAIN t
            BY <2>2, <3>1 DEF e
      <4>2. \A k \in DOMAIN r : k \in DOMAIN t /\ t[k] = r[k]
            BY <2>2, <3>1
      <4> QED BY <2>4, <2>6, <3>1, <4>1, <4>2
    <3>8. Right(t, n + 1)
          BY <2>2, <3>1, <3>5, <3>6, <3>7 DEF Right
    <3> QED BY <2>5, <2>8, <3>8 DEF t
  <2> QED BY <2>7, <2>8
<1>7. Right(Among(s, G), Len(s))
  <2>1. Reached \in SUBSET Nat
        BY DEF Reached
  <2>2. Len(s) \in Reached
        BY <1>1, <1>5, <1>6, <2>1, NatInduct
  <2> QED BY <1>1, <1>4, <2>2 DEF Reached
<1>8. Elems(Among(s, G)) = Elems(s) \cap G
  <2>1. \A k \in DOMAIN Among(s, G) : \E j \in DOMAIN s : Among(s, G)[k] = s[j]
        BY <1>1, <1>7 DEF Right, InPlace
  <2>2. \A j \in DOMAIN s : s[j] \in G =>
             \E k \in DOMAIN Among(s, G) : Among(s, G)[k] = s[j]
        BY <1>1, <1>7 DEF Right
  <2>3. \A k \in DOMAIN Among(s, G) : Among(s, G)[k] \in G
        BY <1>7 DEF Right
  <2> QED BY <2>1, <2>2, <2>3 DEF Elems
<1> QED BY <1>1, <1>7, <1>8 DEF Right, InPlace


\* A set of naturals that is not empty has a least one.
LEMMA Least ==
    ASSUME NEW T \in SUBSET Nat, T # {}
    PROVE  \E m \in T : \A k \in T : m <= k
<1> DEFINE B == {n \in Nat : \A k \in T : n <= k}
<1>1. SUFFICES ASSUME \A m \in T : \E k \in T : k < m PROVE FALSE
  <2>1. \A m \in Nat, k \in Nat : m <= k \/ k < m
        OBVIOUS
  <2> QED BY <2>1
<1>2. 0 \in B
      OBVIOUS
<1>3. \A n \in B : n + 1 \in B
  <2> SUFFICES ASSUME NEW n \in B, NEW k \in T PROVE n + 1 <= k
      OBVIOUS
  <2>1. n \in Nat /\ n <= k /\ k \in Nat
        OBVIOUS
  <2>2. n # k
    <3>1. ASSUME n = k PROVE FALSE
      <4>1. PICK j \in T : j < k
            BY <1>1
      <4> QED BY <2>1, <3>1, <4>1
    <3> QED BY <3>1
  <2> QED BY <2>1, <2>2
<1>4. B = Nat
  <2>1. B \in SUBSET Nat
        OBVIOUS
  <2> HIDE DEF B
  <2> QED BY <1>2, <1>3, <2>1, NatInduct
<1>5. PICK m : m \in T
      OBVIOUS
<1>6. m + 1 \in B
  <2>1. m + 1 \in Nat
        BY <1>5
  <2> HIDE DEF B
  <2> QED BY <1>4, <2>1
<1>7. m + 1 <= m
      BY <1>5, <1>6
<1> QED BY <1>5, <1>7

\* Each investigator has one place in the seating.
LEMMA Seats ==
    /\ Len(Order) \in Nat /\ DOMAIN Order = 1..Len(Order) /\ Order \in Seq(Investigators)
    /\ \A i \in Investigators : Position(i) \in 1..Len(Order) /\ Order[Position(i)] = i
    /\ \A k \in 1..Len(Order) : Order[k] \in Investigators /\ Position(Order[k]) = k
    /\ \A i, j \in Investigators : Position(i) = Position(j) => i = j
<1>1. /\ Len(Order) \in Nat /\ DOMAIN Order = 1..Len(Order) /\ Order \in Seq(Investigators)
      BY OrderAssumption, LenProperties
<1>2. ASSUME NEW i \in Investigators PROVE Position(i) \in 1..Len(Order) /\ Order[Position(i)] = i
  <2>1. \E k \in DOMAIN Order : Order[k] = i
        BY DEF Investigators, Elems
  <2>2. Position(i) \in DOMAIN Order /\ Order[Position(i)] = i
        BY <2>1 DEF Position
  <2> QED BY <1>1, <2>2
<1>3. ASSUME NEW k \in 1..Len(Order) PROVE Order[k] \in Investigators /\ Position(Order[k]) = k
  <2>1. Order[k] \in Investigators
        BY <1>1 DEF Investigators, Elems
  <2>2. Position(Order[k]) \in DOMAIN Order /\ Order[Position(Order[k])] = Order[k]
        BY <1>1, <1>2, <2>1
  <2>3. Position(Order[k]) = k
        BY <1>1, <2>2, OrderAssumption
  <2> QED BY <2>1, <2>3
<1>4. \A i, j \in Investigators : Position(i) = Position(j) => i = j
      BY <1>2
<1> QED BY <1>1, <1>2, <1>3, <1>4

\* The first of a set of investigators in player order.
LEMMA FirstIs ==
    ASSUME NEW S \in SUBSET Investigators
    PROVE  /\ S = {} => FirstOf(S) = None
           /\ S # {} => FirstOf(S) \in S /\ \A j \in S : Position(FirstOf(S)) <= Position(j)
           /\ FirstOf(S) = None <=> S = {}
<1>1. ASSUME S # {} PROVE FirstOf(S) \in S /\ \A j \in S : Position(FirstOf(S)) <= Position(j)
  <2> DEFINE T == {Position(j) : j \in S}
  <2>1. T \in SUBSET Nat /\ T # {}
    <3>1. \A j \in S : Position(j) \in Nat
          BY Seats
    <3> QED BY <1>1, <3>1
  <2>2. PICK m \in T : \A k \in T : m <= k
    <3> HIDE DEF T
    <3> QED BY <2>1, Least
  <2>3. PICK i \in S : m = Position(i)
        BY <2>2
  <2>4. \A j \in S : Position(i) <= Position(j)
        BY <2>2, <2>3
  <2>5. \E x \in S : \A j \in S : Position(x) <= Position(j)
        BY <2>4
  <2>6. FirstOf(S) = CHOOSE x \in S : \A j \in S : Position(x) <= Position(j)
        BY <1>1 DEF FirstOf
  <2> QED BY <2>5, <2>6
<1>2. S = {} => FirstOf(S) = None
      BY DEF FirstOf
<1> QED BY <1>1, <1>2, OrderAssumption

\* Leaving some out keeps an order.
LEMMA AmongIncreasing ==
    ASSUME NEW q \in Seq(Investigators), Increasing(q), NEW G
    PROVE  /\ Among(q, G) \in Seq(Investigators) /\ Increasing(Among(q, G))
           /\ Elems(Among(q, G)) = Elems(q) \cap G
<1> DEFINE r == Among(q, G)
<1>1. r \in Seq(Investigators) /\ Elems(r) = Elems(q) \cap G
      BY AmongProperties
<1>2. PICK place \in [DOMAIN r -> DOMAIN q] :
         /\ \A k \in DOMAIN r : r[k] = q[place[k]]
         /\ \A j, k \in DOMAIN r : j < k => place[j] < place[k]
      BY AmongProperties
<1>3. DOMAIN r = 1..Len(r) /\ DOMAIN q = 1..Len(q)
      BY <1>1, LenProperties
<1> HIDE DEF r
<1>4. ASSUME NEW j \in 1..Len(r), NEW k \in 1..Len(r), j < k
      PROVE  Position(r[j]) < Position(r[k])
  <2>1. place[j] \in 1..Len(q) /\ place[k] \in 1..Len(q) /\ place[j] < place[k]
        BY <1>2, <1>3, <1>4
  <2>2. r[j] = q[place[j]] /\ r[k] = q[place[k]]
        BY <1>2, <1>3
  <2> QED BY <2>1, <2>2 DEF Increasing
<1> QED BY <1>1, <1>4 DEF Increasing, r

\* The players are those in the game, in order.
LEMMA PlayersAre ==
    ASSUME NEW st \in [Investigators -> {"Active", "Eliminated"}]
    PROVE  /\ PlayerOrder(st) \in Seq(Investigators) /\ Increasing(PlayerOrder(st))
           /\ Elems(PlayerOrder(st)) = Active(st) /\ Active(st) \subseteq Investigators
<1>1. Increasing(Order)
  <2>1. \A k \in 1..Len(Order) : Position(Order[k]) = k
        BY Seats
  <2> QED BY <2>1 DEF Increasing
<1>2. Order \in Seq(Investigators)
      BY OrderAssumption
<1>3. Active(st) \subseteq Investigators /\ Elems(Order) = Investigators
      BY DEF Active, Investigators
<1>4. /\ Among(Order, Active(st)) \in Seq(Investigators) /\ Increasing(Among(Order, Active(st)))
      /\ Elems(Among(Order, Active(st))) = Elems(Order) \cap Active(st)
      BY <1>1, <1>2, AmongIncreasing
<1> QED BY <1>3, <1>4 DEF PlayerOrder

\* The elements of a sequence, its first and the rest.
LEMMA ElemsOf ==
    ASSUME NEW S, NEW q \in Seq(S)
    PROVE  /\ Elems(q) \subseteq S
           /\ q = <<>> <=> Elems(q) = {}
           /\ q # <<>> => /\ Head(q) \in S /\ Tail(q) \in Seq(S) /\ Elems(q) = {Head(q)} \cup Elems(Tail(q))
           /\ \A e \in S : Append(q, e) \in Seq(S) /\ Elems(Append(q, e)) = Elems(q) \cup {e}
           /\ Len(q) \in Nat /\ (Len(q) = 0 <=> q = <<>>)
           /\ Len(q) = 1 => Tail(q) = <<>> /\ q[1] = Head(q)
           /\ Len(q) > 1 => Tail(q) # <<>>
<1>1. Len(q) \in Nat /\ DOMAIN q = 1..Len(q) /\ (Len(q) = 0 <=> q = <<>>) /\ \A k \in 1..Len(q) : q[k] \in S
      BY LenProperties, ElementOfSeq, EmptySeq
<1>2. Elems(q) \subseteq S /\ (q = <<>> <=> Elems(q) = {})
  <2>1. q # <<>> => 1 \in DOMAIN q
        BY <1>1
  <2>2. q = <<>> => DOMAIN q = {}
        BY <1>1
  <2>3. DOMAIN q = {} => Elems(q) = {}
        BY Zenon DEF Elems
  <2>4. \A k \in DOMAIN q : q[k] \in Elems(q) /\ q[k] \in S
        BY <1>1 DEF Elems
  <2>5. Elems(q) \subseteq S
        BY <2>4 DEF Elems
  <2> QED BY <2>1, <2>2, <2>3, <2>4, <2>5
<1>3. ASSUME q # <<>>
      PROVE  /\ Head(q) \in S /\ Tail(q) \in Seq(S) /\ Elems(q) = {Head(q)} \cup Elems(Tail(q))
             /\ Len(q) = Len(Tail(q)) + 1 /\ Len(Tail(q)) \in Nat /\ q[1] = Head(q)
  <2>1. /\ Head(q) \in S /\ Tail(q) \in Seq(S) /\ Len(q) = Len(Tail(q)) + 1
        /\ q[1] = Head(q) /\ \A k \in 1..Len(Tail(q)) : q[k + 1] = Tail(q)[k]
        BY <1>3, HeadOver
  <2>2. DOMAIN Tail(q) = 1..Len(Tail(q)) /\ Len(Tail(q)) \in Nat
        BY <2>1, LenProperties
  <2>3. \A k \in DOMAIN q : q[k] = Head(q) \/ \E j \in DOMAIN Tail(q) : q[k] = Tail(q)[j]
    <3> SUFFICES ASSUME NEW k \in DOMAIN q, k # 1 PROVE \E j \in DOMAIN Tail(q) : q[k] = Tail(q)[j]
        BY <2>1
    <3>1. k - 1 \in DOMAIN Tail(q) /\ (k - 1) + 1 = k
          BY <1>1, <2>1, <2>2
    <3> QED BY <2>1, <2>2, <3>1
  <2>4. \A j \in DOMAIN Tail(q) : j + 1 \in DOMAIN q /\ q[j + 1] = Tail(q)[j]
        BY <1>1, <2>1, <2>2
  <2>5. 1 \in DOMAIN q
        BY <1>1, <2>1, <2>2
  <2>6. Elems(q) \subseteq {Head(q)} \cup Elems(Tail(q))
        BY <2>3 DEF Elems
  <2>7. {Head(q)} \cup Elems(Tail(q)) \subseteq Elems(q)
        BY <2>1, <2>4, <2>5 DEF Elems
  <2> QED BY <2>1, <2>2, <2>6, <2>7
<1>4. ASSUME NEW e \in S PROVE Append(q, e) \in Seq(S) /\ Elems(Append(q, e)) = Elems(q) \cup {e}
  <2>1. /\ Append(q, e) \in Seq(S) /\ Len(Append(q, e)) = Len(q) + 1
        /\ \A k \in 1..Len(q) : Append(q, e)[k] = q[k]
        /\ Append(q, e)[Len(q) + 1] = e
        BY AppendProperties
  <2>2. DOMAIN Append(q, e) = 1..(Len(q) + 1)
        BY <2>1, LenProperties
  <2>3. \A k \in 1..(Len(q) + 1) : k \in 1..Len(q) \/ k = Len(q) + 1
        BY <1>1
  <2>4. Elems(Append(q, e)) \subseteq Elems(q) \cup {e}
        BY <1>1, <2>1, <2>2, <2>3 DEF Elems
  <2>5. \A k \in 1..Len(q) : k \in 1..(Len(q) + 1)
        BY <1>1
  <2>6. Len(q) + 1 \in 1..(Len(q) + 1)
        BY <1>1
  <2>7. Elems(q) \cup {e} \subseteq Elems(Append(q, e))
        BY <1>1, <2>1, <2>2, <2>5, <2>6 DEF Elems
  <2> QED BY <2>1, <2>4, <2>7
<1>5. Len(q) = 1 => Tail(q) = <<>> /\ q[1] = Head(q)
  <2>1. q # <<>> => (Tail(q) = <<>> <=> Len(Tail(q)) = 0)
        BY <1>3, EmptySeq
  <2> QED BY <1>1, <1>3, <2>1
<1>6. Len(q) > 1 => Tail(q) # <<>>
  <2> SUFFICES ASSUME Len(q) > 1, Tail(q) = <<>> PROVE FALSE
      OBVIOUS
  <2>1. q # <<>>
        BY <1>1
  <2>2. Len(q) = Len(Tail(q)) + 1 /\ Len(Tail(q)) = 0
        BY <1>3, <2>1, EmptySeq
  <2> QED BY <2>2
<1> QED BY <1>1, <1>2, <1>3, <1>4, <1>5, <1>6

\* In player order the first comes before the others, and the rest stay in order.
LEMMA IncreasingRest ==
    ASSUME NEW q \in Seq(Investigators), Increasing(q), q # <<>>
    PROVE  /\ Increasing(Tail(q)) /\ Head(q) \notin Elems(Tail(q))
           /\ \A j \in Elems(Tail(q)) : Position(Head(q)) < Position(j)
<1>1. /\ Tail(q) \in Seq(Investigators) /\ Len(q) = Len(Tail(q)) + 1 /\ Len(q) \in Nat
      /\ q[1] = Head(q) /\ \A k \in 1..Len(Tail(q)) : q[k + 1] = Tail(q)[k]
      BY HeadOver
<1>2. DOMAIN Tail(q) = 1..Len(Tail(q)) /\ Len(Tail(q)) \in Nat
      BY <1>1, LenProperties
<1>3. Increasing(Tail(q))
  <2> SUFFICES ASSUME NEW j \in 1..Len(Tail(q)), NEW k \in 1..Len(Tail(q)), j < k
               PROVE  Position(Tail(q)[j]) < Position(Tail(q)[k])
      BY DEF Increasing
  <2>1. j + 1 \in 1..Len(q) /\ k + 1 \in 1..Len(q) /\ j + 1 < k + 1
        BY <1>1, <1>2
  <2>2. Position(q[j + 1]) < Position(q[k + 1])
        BY <2>1 DEF Increasing
  <2> QED BY <1>1, <2>2
<1>4. ASSUME NEW j \in Elems(Tail(q)) PROVE Position(Head(q)) < Position(j)
  <2>1. PICK k \in 1..Len(Tail(q)) : j = Tail(q)[k]
        BY <1>2 DEF Elems
  <2>2. 1 \in 1..Len(q) /\ k + 1 \in 1..Len(q) /\ 1 < k + 1
        BY <1>1, <1>2
  <2>3. Position(q[1]) < Position(q[k + 1])
        BY <2>2 DEF Increasing
  <2> QED BY <1>1, <2>1, <2>3
<1>5. Head(q) \notin Elems(Tail(q))
  <2>1. Head(q) \in Investigators
        BY HeadOver
  <2>2. Position(Head(q)) \in Nat
        BY <2>1, Seats
  <2> QED BY <1>4, <2>2
<1> QED BY <1>3, <1>4, <1>5

\* The queue without those at its head who are out.
LEMMA Skipping ==
    ASSUME NEW q \in Seq(Investigators), Increasing(q),
           status \in [Investigators -> {"Active", "Eliminated"}]
    PROVE  LET left == SkipEliminated(q) IN
           /\ left \in Seq(Investigators) /\ Increasing(left)
           /\ Elems(left) \subseteq Elems(q)
           /\ Elems(q) \cap Active(status) \subseteq Elems(left)
           /\ left # <<>> => Head(left) \in Active(status)
<1> DEFINE in == {k \in DOMAIN q : status[q[k]] = "Active"}
           left == SkipEliminated(q)
<1>1. /\ Len(q) \in Nat /\ DOMAIN q = 1..Len(q) /\ \A k \in 1..Len(q) : q[k] \in Investigators
      BY LenProperties, ElementOfSeq
<1>2. CASE in = {}
  <2>1. left = <<>>
        BY <1>2 DEF SkipEliminated
  <2>2. Len(<<>>) = 0 /\ <<>> \in Seq(Investigators) /\ Elems(<<>>) = {}
        BY EmptySeq, ElemsOf
  <2>3. Elems(q) \cap Active(status) = {}
        BY <1>2 DEF Elems, Active
  <2> QED BY <2>1, <2>2, <2>3 DEF Increasing
<1>3. ASSUME in # {}
      PROVE  /\ left \in Seq(Investigators) /\ Increasing(left)
             /\ Elems(left) \subseteq Elems(q)
             /\ Elems(q) \cap Active(status) \subseteq Elems(left)
             /\ left # <<>> => Head(left) \in Active(status)
  <2>1. in \in SUBSET Nat
        BY <1>1
  <2>2. \E m \in in : \A k \in in : m <= k
    <3> HIDE DEF in
    <3> QED BY <1>3, <2>1, Least
  <2> DEFINE k0 == CHOOSE k \in in : \A m \in in : k <= m
  <2>3. k0 \in in /\ \A m \in in : k0 <= m
    <3> HIDE DEF in
    <3> QED BY <2>2
  <2>4. left = SubSeq(q, k0, Len(q))
        BY <1>3 DEF SkipEliminated
  <2>5. k0 \in 1..Len(q) /\ status[q[k0]] = "Active"
        BY <1>1, <2>3
  <2>6. \A m \in 1..Len(q) : status[q[m]] = "Active" => k0 <= m
        BY <1>1, <2>3
  <2> HIDE DEF in, k0, left
  <2>7. /\ left \in Seq(Investigators) /\ Len(left) = Len(q) - k0 + 1
        /\ \A k \in 1..Len(left) : left[k] = q[k0 + k - 1]
        BY <1>1, <2>4, <2>5, SubSeqProperties
  <2>8. DOMAIN left = 1..Len(left) /\ Len(left) \in Nat /\ Len(left) >= 1
        BY <1>1, <2>5, <2>7, LenProperties
  <2>9. \A k \in 1..Len(left) : k0 + k - 1 \in 1..Len(q)
        BY <1>1, <2>5, <2>7
  <2>10. Increasing(left)
    <3> SUFFICES ASSUME NEW j \in 1..Len(left), NEW k \in 1..Len(left), j < k
                 PROVE  Position(left[j]) < Position(left[k])
        BY DEF Increasing
    <3>1. k0 + j - 1 \in 1..Len(q) /\ k0 + k - 1 \in 1..Len(q) /\ k0 + j - 1 < k0 + k - 1
          BY <2>5, <2>9
    <3>2. Position(q[k0 + j - 1]) < Position(q[k0 + k - 1])
          BY <3>1 DEF Increasing
    <3> QED BY <2>7, <3>2
  <2>11. Elems(left) \subseteq Elems(q)
         BY <1>1, <2>7, <2>8, <2>9 DEF Elems
  <2>12. Elems(q) \cap Active(status) \subseteq Elems(left)
    <3> SUFFICES ASSUME NEW m \in 1..Len(q), status[q[m]] = "Active" PROVE q[m] \in Elems(left)
        BY <1>1 DEF Elems, Active
    <3>1. m - k0 + 1 \in 1..Len(left) /\ k0 + (m - k0 + 1) - 1 = m
          BY <1>1, <2>5, <2>6, <2>7
    <3>2. left[m - k0 + 1] = q[m]
          BY <2>7, <3>1
    <3> QED BY <2>8, <3>1, <3>2 DEF Elems
  <2>13. Head(left) \in Active(status)
    <3>1. Head(left) = left[1] /\ 1 \in 1..Len(left)
          BY <2>7, <2>8
    <3>2. left[1] = q[k0]
          BY <1>1, <2>5, <2>7, <3>1
    <3> QED BY <1>1, <2>5, <3>1, <3>2 DEF Active
  <2> QED BY <2>7, <2>10, <2>11, <2>12, <2>13
<1> QED BY <1>2, <1>3

\* A single one waiting is its head.
LEMMA OneWaiting ==
    ASSUME NEW S, NEW q \in Seq(S), Len(q) = 1
    PROVE  q[1] \in Elems(q)
<1>1. q # <<>> /\ q[1] = Head(q)
      BY ElemsOf
<1> QED BY <1>1, ElemsOf


\* A stack is good when its top fits on the rest and the rest is good.
LEMMA Split ==
    ASSUME NEW f \in FrameSet, NEW s \in Seq(FrameSet), NEW w
    PROVE  Good(Over(f, s), w) <=> Fits(f, s, w) /\ Good(s, w)
<1> DEFINE t == Over(f, s)
<1>1. /\ t \in Seq(FrameSet) /\ Len(t) = Len(s) + 1 /\ t[1] = f /\ Len(s) \in Nat
      /\ \A k \in 1..Len(s) : t[k + 1] = s[k]
      BY OverSeq, LenProperties
<1>2. s = <<>> <=> Len(s) = 0
      BY EmptySeq
<1>3. s # <<>> => Head(s) = s[1]
      BY HeadOver
<1> HIDE DEF t
<1>4. ASSUME Good(t, w) PROVE Fits(f, s, w) /\ Good(s, w)
  <2>1. FrameOK(f) /\ Present(f, w) /\ (s = <<>> => AtBottom(f, w))
        BY <1>1, <1>2, <1>4 DEF Good
  <2>2. s # <<>> => Joined(f, Head(s), w)
        BY <1>1, <1>2, <1>3, <1>4 DEF Good
  <2>3. ASSUME NEW k \in 1..Len(s)
        PROVE  /\ FrameOK(s[k]) /\ Present(s[k], w)
               /\ k = Len(s) => AtBottom(s[k], w)
               /\ k < Len(s) => Joined(s[k], s[k + 1], w)
    <3>1. k + 1 \in 1..Len(t) /\ t[k + 1] = s[k]
          BY <1>1
    <3>2. /\ FrameOK(s[k]) /\ Present(s[k], w)
          /\ k + 1 = Len(t) => AtBottom(s[k], w)
          /\ k + 1 < Len(t) => Joined(s[k], t[(k + 1) + 1], w)
          BY <1>4, <3>1 DEF Good
    <3>3. k < Len(s) => t[(k + 1) + 1] = s[k + 1]
          BY <1>1
    <3> QED BY <1>1, <3>2, <3>3
  <2> QED BY <2>1, <2>2, <2>3 DEF Fits, Good
<1>5. ASSUME Fits(f, s, w), Good(s, w) PROVE Good(t, w)
  <2>1. ASSUME NEW k \in 1..Len(t)
        PROVE  /\ FrameOK(t[k]) /\ Present(t[k], w)
               /\ k = Len(t) => AtBottom(t[k], w)
               /\ k < Len(t) => Joined(t[k], t[k + 1], w)
    <3>1. CASE k = 1
      <4>1. FrameOK(f) /\ Present(f, w) /\ (s = <<>> => AtBottom(f, w))
            BY <1>5 DEF Fits
      <4>2. s # <<>> => Joined(f, s[1], w) /\ t[2] = s[1]
            BY <1>1, <1>2, <1>3, <1>5 DEF Fits
      <4> QED BY <1>1, <1>2, <3>1, <4>1, <4>2
    <3>2. CASE k # 1
      <4>1. k - 1 \in 1..Len(s) /\ (k - 1) + 1 = k
            BY <1>1, <3>2
      <4>2. t[k] = s[k - 1]
            BY <1>1, <4>1
      <4>3. k < Len(t) => k \in 1..Len(s) /\ t[k + 1] = s[k]
            BY <1>1, <3>2
      <4>4. /\ FrameOK(s[k - 1]) /\ Present(s[k - 1], w)
            /\ k - 1 = Len(s) => AtBottom(s[k - 1], w)
            /\ k - 1 < Len(s) => Joined(s[k - 1], s[(k - 1) + 1], w)
            BY <1>5, <4>1 DEF Good
      <4> QED BY <1>1, <4>1, <4>2, <4>3, <4>4
    <3> QED BY <3>1, <3>2
  <2> QED BY <1>1, <2>1 DEF Good
<1> QED BY <1>4, <1>5 DEF t

\* The top of a good stack, and what is beneath it.
LEMMA Taken ==
    ASSUME NEW s, NEW w, Good(s, w), s # <<>>
    PROVE  /\ Head(s) \in FrameSet /\ Tail(s) \in Seq(FrameSet) /\ s = Over(Head(s), Tail(s))
           /\ Fits(Head(s), Tail(s), w) /\ Good(Tail(s), w)
           /\ FrameOK(Head(s)) /\ Present(Head(s), w)
<1>1. s \in Seq(FrameSet)
      BY DEF Good
<1>2. /\ Head(s) \in FrameSet /\ Tail(s) \in Seq(FrameSet) /\ s = Over(Head(s), Tail(s))
      BY <1>1, HeadOver
<1>3. Fits(Head(s), Tail(s), w) /\ Good(Tail(s), w)
      BY <1>2, Split
<1> QED BY <1>2, <1>3 DEF Fits

\* Which kinds are which.
LEMMA KindsApart ==
    /\ Loose \subseteq Kinds /\ Phases \subseteq Kinds
    /\ Loose \cap Phases = {} /\ Loose \cap Asked = {} /\ Loose \cap Attacking = {}
    /\ Phases \cap Asked = {} /\ Phases \cap Attacking = {}
    /\ "ScenarioEnd" \notin Phases \cup Loose \cup Asked
    /\ {"PlayerDraw", "InvestigatorTurn", "ActionResolution"} \cap (Loose \cup Phases \cup Asked) = {}
    /\ "Mulligan" \notin Phases
BY DEF Loose, Kinds, Phases, Asked, Attacking, Resting

\* A loose frame may be put on any stack that is firm.
LEMMA Put ==
    ASSUME NEW s, NEW w, Firm(s, w), NEW f, FrameOK(f), f.kind \in Loose
    PROVE  Firm(Over(f, s), w)
<1>1. s \in Seq(FrameSet) /\ f \in FrameSet
      BY DEF Firm, Good, FrameOK
<1>2. Present(f, w) /\ Holds(f) /\ f.kind \notin Phases
      BY DEF Present, Holds, Loose, Asked, Attacking, Phases
<1>3. Stands(f, Head(s))
      BY DEF Stands, Firm, Loose, Phases
<1>4. ~w.en => Runs(f, Head(s), w)
      BY DEF Runs, Firm, Loose
<1>5. Fits(f, s, w)
      BY <1>2, <1>3, <1>4 DEF Fits, Joined, Firm
<1>6. Good(Over(f, s), w)
      BY <1>1, <1>5, Split DEF Firm
<1>7. Over(f, s) # <<>> /\ Head(Over(f, s)) = f
      BY <1>1, OverSeq
<1> QED BY <1>2, <1>6, <1>7 DEF Firm

\* What is beneath a loose frame, or one that is popped as one is, is firm.
LEMMA Lift ==
    ASSUME NEW s, NEW w, Good(s, w), s # <<>>,
           Head(s).kind \in Loose \cup {"ActionResolution", "InvestigatorTurn", "OpportunityAttacks"}
    PROVE  Firm(Tail(s), w)
<1>1. Fits(Head(s), Tail(s), w) /\ Good(Tail(s), w)
      BY Taken
<1>2. Tail(s) # <<>>
      BY <1>1 DEF Fits, AtBottom, Loose, Phases
<1>3. Stands(Head(s), Head(Tail(s))) /\ (~w.en => Runs(Head(s), Head(Tail(s)), w))
      BY <1>1, <1>2 DEF Fits, Joined
<1>4. Holds(Head(Tail(s)))
      BY <1>3 DEF Stands, Loose
<1>5. Head(s).kind \notin Asked \cup {"AttackLoop"}
      BY DEF Loose, Asked
<1>6. ~w.en /\ Head(Tail(s)).kind \in Phases => Idle(Head(Tail(s)), w)
      BY <1>3, <1>5 DEF Runs
<1> QED BY <1>1, <1>2, <1>4, <1>6 DEF Firm

\* A frame may be replaced by another of its kind for the same investigators.
LEMMA Swap ==
    ASSUME NEW s, NEW w, Good(s, w), s # <<>>, NEW g, FrameOK(g),
           g.kind = Head(s).kind, g.who = Head(s).who,
           g.kind \in Asked => g.queue = Head(s).queue,
           g.kind = "PlayerDraw" => g.n = Head(s).n
    PROVE  /\ Good(Over(g, Tail(s)), w) /\ Over(g, Tail(s)) # <<>>
           /\ Head(Over(g, Tail(s))) = g /\ Tail(Over(g, Tail(s))) = Tail(s)
           /\ g.kind \notin Phases /\ Holds(g) => Firm(Over(g, Tail(s)), w)
<1> DEFINE f == Head(s)
           r == Tail(s)
<1>1. /\ f \in FrameSet /\ r \in Seq(FrameSet)
      /\ Fits(f, r, w) /\ Good(r, w) /\ g \in FrameSet
      BY Taken DEF FrameOK
<1> HIDE DEF f, r
<1>2. /\ g.kind = f.kind /\ g.who = f.who /\ (g.kind \in Asked => g.queue = f.queue)
      /\ g.kind = "PlayerDraw" => g.n = f.n
      BY DEF f
<1>3. Present(g, w)
      BY <1>1, <1>2 DEF Fits, Present
<1>4. r = <<>> => AtBottom(g, w)
      BY <1>1, <1>2 DEF Fits, AtBottom
<1>5. ASSUME r # <<>> PROVE Joined(g, Head(r), w)
  <2>1. Stands(f, Head(r)) /\ (~w.en => Runs(f, Head(r), w))
        BY <1>1, <1>5 DEF Fits, Joined
  <2>2. Stands(g, Head(r))
        BY <1>2, <2>1 DEF Stands
  <2>3. ~w.en => Runs(g, Head(r), w)
        BY <1>2, <2>1 DEF Runs, Asked
  <2> QED BY <2>2, <2>3 DEF Joined
<1>6. Fits(g, r, w)
      BY <1>3, <1>4, <1>5 DEF Fits
<1>7. Good(Over(g, r), w)
      BY <1>1, <1>6, Split
<1>8. Over(g, r) # <<>> /\ Head(Over(g, r)) = g /\ Tail(Over(g, r)) = r
      BY <1>1, OverSeq
<1> QED BY <1>7, <1>8 DEF Firm, f, r

\* What is beneath a phase's anchor, or the mulligan: nothing, or the ending's frame.
LEMMA Ground ==
    ASSUME NEW s, NEW w, Good(s, w), s # <<>>, Head(s).kind \in Phases \cup {"Mulligan"}
    PROVE  /\ ~w.en => Tail(s) = <<>>
           /\ w.en => Tail(s) # <<>> /\ Head(Tail(s)).kind = "ScenarioEnd" /\ Tail(Tail(s)) = <<>>
<1> DEFINE r == Tail(s)
<1>1. Fits(Head(s), r, w) /\ Good(r, w)
      BY Taken
<1>2. Head(s).kind # "ScenarioEnd"
      BY DEF Phases
<1>3. r = <<>> => ~w.en
      BY <1>1, <1>2 DEF Fits, AtBottom
<1>4. ASSUME r # <<>> PROVE Head(r).kind = "ScenarioEnd" /\ Tail(r) = <<>> /\ w.en
  <2>1. Head(r).kind = "ScenarioEnd"
        BY <1>1, <1>4 DEF Fits, Joined, Stands
  <2>2. Fits(Head(r), Tail(r), w)
        BY <1>1, <1>4, Taken
  <2>3. Tail(r) = <<>>
        BY <2>1, <2>2 DEF Fits, Joined, Stands
  <2> QED BY <2>1, <2>2, <2>3 DEF Fits, AtBottom
<1> QED BY <1>3, <1>4

\* The anchor may be replaced by any other, of any phase.
LEMMA Anchored ==
    ASSUME NEW s, NEW w, Good(s, w), s # <<>>, Head(s).kind \in Phases \cup {"Mulligan"},
           NEW v, v.en = w.en, NEW a, FrameOK(a), a.kind \in Phases, a.kind = v.ph
    PROVE  /\ Good(Over(a, Tail(s)), v) /\ Over(a, Tail(s)) # <<>>
           /\ Head(Over(a, Tail(s))) = a /\ Tail(Over(a, Tail(s))) = Tail(s)
           /\ (v.en \/ Idle(a, v)) => Firm(Over(a, Tail(s)), v)
<1> DEFINE r == Tail(s)
<1>1. Fits(Head(s), r, w) /\ Good(r, w) /\ r \in Seq(FrameSet) /\ a \in FrameSet
      BY Taken DEF FrameOK
<1>2. /\ ~w.en => r = <<>>
      /\ w.en => r # <<>> /\ Head(r).kind = "ScenarioEnd" /\ Tail(r) = <<>>
      BY Ground
<1> HIDE DEF r
<1>3. Good(r, v)
  <2>1. CASE r = <<>>
    <3>1. Len(<<>>) = 0 /\ <<>> \in Seq(FrameSet)
          BY EmptySeq
    <3> QED BY <2>1, <3>1 DEF Good
  <2>2. CASE r # <<>>
    <3>1. w.en /\ Head(r).kind = "ScenarioEnd" /\ Tail(r) = <<>>
          BY <1>2, <2>2
    <3>2. FrameOK(Head(r)) /\ Head(r) \in FrameSet /\ r = Over(Head(r), Tail(r))
          BY <1>1, <2>2, Taken
    <3>3. Present(Head(r), v) /\ AtBottom(Head(r), v)
          BY <3>1 DEF Present, AtBottom, Phases
    <3>4. Good(<<>>, v)
          BY EmptySeq DEF Good
    <3>5. Fits(Head(r), <<>>, v)
          BY <3>2, <3>3 DEF Fits
    <3>6. <<>> \in Seq(FrameSet)
          BY EmptySeq
    <3>7. Good(Over(Head(r), <<>>), v)
          BY <3>2, <3>4, <3>5, <3>6, Split
    <3> QED BY <3>1, <3>2, <3>7
  <2> QED BY <2>1, <2>2
<1>4. Present(a, v)
      BY DEF Present, Phases
<1>5. r = <<>> => AtBottom(a, v)
      BY <1>2 DEF AtBottom, Phases
<1>6. ASSUME r # <<>> PROVE Joined(a, Head(r), v)
  <2>1. v.en /\ Head(r).kind = "ScenarioEnd"
        BY <1>2, <1>6
  <2>2. Holds(Head(r))
        BY <2>1 DEF Holds, Asked, Attacking
  <2>3. Stands(a, Head(r))
        BY <2>1, <2>2 DEF Stands, Phases
  <2> QED BY <2>1, <2>3 DEF Joined
<1>7. Good(Over(a, r), v)
      BY <1>1, <1>3, <1>4, <1>5, <1>6, Split DEF Fits
<1>8. Over(a, r) # <<>> /\ Head(Over(a, r)) = a /\ Tail(Over(a, r)) = r
      BY <1>1, OverSeq
<1>9. Holds(a)
      BY DEF Holds, Phases, Asked, Attacking
<1> QED BY <1>7, <1>8, <1>9 DEF Firm, r

\* Eliminations under way, a frame at a time.
LEMMA Eliminating ==
    ASSUME NEW f \in FrameSet, NEW s \in Seq(FrameSet)
    PROVE  HasElimination(Over(f, s)) <=> f.kind = "Elimination" \/ HasElimination(s)
<1>1. /\ Len(Over(f, s)) = Len(s) + 1 /\ Over(f, s)[1] = f /\ Len(s) \in Nat
      /\ \A k \in 1..Len(s) : Over(f, s)[k + 1] = s[k]
      BY OverSeq, LenProperties
<1>2. \A k \in 1..(Len(s) + 1) : k = 1 \/ (k - 1 \in 1..Len(s) /\ (k - 1) + 1 = k)
      BY <1>1
<1>3. \A k \in 1..Len(s) : k + 1 \in 1..(Len(s) + 1)
      BY <1>1
<1>4. ASSUME HasElimination(Over(f, s)) PROVE f.kind = "Elimination" \/ HasElimination(s)
  <2>1. PICK k \in 1..(Len(s) + 1) : Over(f, s)[k].kind = "Elimination"
        BY <1>1, <1>4 DEF HasElimination
  <2>2. k # 1 => Over(f, s)[k] = s[k - 1] /\ k - 1 \in 1..Len(s)
        BY <1>1, <1>2
  <2> QED BY <1>1, <2>1, <2>2 DEF HasElimination
<1>5. ASSUME f.kind = "Elimination" PROVE HasElimination(Over(f, s))
  <2>1. 1 \in 1..(Len(s) + 1)
        BY <1>1
  <2> QED BY <1>1, <1>5, <2>1 DEF HasElimination
<1>6. ASSUME HasElimination(s) PROVE HasElimination(Over(f, s))
  <2>1. PICK k \in 1..Len(s) : s[k].kind = "Elimination"
        BY <1>6 DEF HasElimination
  <2>2. k + 1 \in 1..(Len(s) + 1) /\ Over(f, s)[k + 1] = s[k]
        BY <1>1, <1>3
  <2> QED BY <1>1, <2>1, <2>2 DEF HasElimination
<1> QED BY <1>4, <1>5, <1>6

\* A firm stack is one the game may have.
LEMMA FirmSound ==
    ASSUME NEW s, NEW w, Firm(s, w), Lasts(s, w)
    PROVE  Sound(s, w)
<1>1. ~w.en => OnTop(Head(s), w)
      BY DEF Firm, Holds, OnTop, Asked
<1> QED BY <1>1 DEF Sound, Firm

------------------------------------------------------------------------------
(* Frames, and stacks at rest. *)

LooseFrame(f) == FrameOK(f) /\ f.kind \in Loose
Pile(e) == e = <<>> \/ \E f : e = <<f>> /\ LooseFrame(f)
Rests(s, w) == Firm(s, w) /\ Lasts(s, w)

LEMMA StepNames ==
    /\ Steps("Mythos") = PhaseSteps \cup {"Draws", "AfterDraws"}
    /\ Steps("Investigation") = PhaseSteps \cup {"Begins", "AfterTurnBegan", "TurnBegins"}
    /\ Steps("Enemy") =
          PhaseSteps \cup {"HuntersAfter", "BeforeInvestigatorAttacked", "AfterAllAttacked"}
    /\ Steps("Upkeep") = PhaseSteps \cup {"Begins", "AfterReady", "Drawing", "AfterRoundEnd"}
    /\ Steps("InvestigatorTurn") = {"Open", "Ending"}
    /\ \A kind \in Attacking : Steps(kind) = {"PickOrder", "Attacking"}
    /\ Steps("PlayerDraw") = {"Draws", "Over"}
    /\ Steps("Emit") = {"Queued", "Walked"}
    /\ Steps("Ability") = {"Acts", "Asks"}
    /\ Steps("AdvanceReverse") =
          {"AnnounceForced", "AnnounceDeliberate", "AwaitAck", "FireReverse", "Finalize"}
    /\ Steps("Elimination") = {"FireWeaknessGameEnd", "RunSteps"}
    /\ Steps("ScenarioEnd") = {"EmitGameEnd", "Finalize"}
    /\ \A kind \in Resting : Steps(kind) = {""}
<1>1. \A kind \in Attacking : Steps(kind) = {"PickOrder", "Attacking"}
      BY DEF Steps, Attacking, Resting
<1>2. \A kind \in Resting : Steps(kind) = {""}
      BY DEF Steps, Resting
<1> QED BY <1>1, <1>2 DEF Steps, Resting

\* The steps of a loose frame and those that name an investigator.
LEMMA LooseSteps ==
    ASSUME NEW kind \in Loose
    PROVE  /\ kind \in Kinds
           /\ Steps(kind) \cap {"BeforeInvestigatorAttacked", "Drawing"} = {}
<1>1. kind \in Resting \/ kind \in {"Emit", "Ability", "AdvanceReverse", "Elimination"}
      BY DEF Loose, Resting
<1> QED BY <1>1, StepNames DEF Kinds, Resting

LEMMA MakeLoose ==
    ASSUME NEW kind \in Loose, NEW at \in Steps(kind), NEW who \in Investigators \cup {None}
    PROVE  LooseFrame(Of(kind, at, who))
<1> DEFINE f == Of(kind, at, who)
<1>1. /\ f.kind = kind /\ f.at = at /\ f.who = who /\ f.queue = <<>> /\ f.n = 0
      BY DEF Of, Frame
<1>2. kind \in Kinds /\ at \in Places /\ at \notin {"BeforeInvestigatorAttacked", "Drawing"}
      BY LooseSteps DEF Places
<1>3. f \in FrameSet
      BY <1>2, EmptySeq DEF Of, Frame, FrameSet
<1> HIDE DEF f
<1>4. Counted(f)
      BY <1>1 DEF Counted, Loose, Attacking
<1>5. f.kind \notin Asked \cup Attacking \cup {"PlayerDraw", "ActionResolution", "InvestigatorTurn"}
      BY <1>1 DEF Loose, Asked, Attacking
<1>6. FrameOK(f)
      BY <1>1, <1>2, <1>3, <1>4, <1>5 DEF FrameOK
<1> QED BY <1>1, <1>6 DEF LooseFrame, f

LEMMA LooseFrames ==
    /\ LooseFrame(Emit) /\ LooseFrame(FastWindow) /\ LooseFrame(EngagementTie)
    /\ LooseFrame(Ability("Acts")) /\ LooseFrame(Ability("Asks"))
    /\ LooseFrame(Plain("Reaction", "")) /\ LooseFrame(Plain("HunterMove", ""))
    /\ LooseFrame(Plain("EncounterCard", ""))
    /\ \A trigger \in {"AnnounceForced", "AnnounceDeliberate"} : LooseFrame(Advance(trigger))
    /\ \A i \in Investigators : LooseFrame(Of("Elimination", "FireWeaknessGameEnd", i))
<1>1. /\ "Emit" \in Loose /\ "Queued" \in Steps("Emit")
      /\ "Ability" \in Loose /\ "Acts" \in Steps("Ability") /\ "Asks" \in Steps("Ability")
      /\ "Elimination" \in Loose /\ "FireWeaknessGameEnd" \in Steps("Elimination")
      /\ "AdvanceReverse" \in Loose
      /\ {"AnnounceForced", "AnnounceDeliberate"} \subseteq Steps("AdvanceReverse")
      BY StepNames DEF Loose
<1>2. \A kind \in {"FastWindow", "EngagementTie", "Reaction", "HunterMove", "EncounterCard"} :
         kind \in Loose /\ "" \in Steps(kind)
      BY StepNames DEF Loose, Resting
<1>3. \A kind, at : Plain(kind, at) = Of(kind, at, None)
      BY DEF Plain, Of
<1>4. \A kind \in Loose : \A at \in Steps(kind) :
         LooseFrame(Plain(kind, at)) /\ \A i \in Investigators : LooseFrame(Of(kind, at, i))
      BY <1>3, MakeLoose
<1> QED BY <1>1, <1>2, <1>4 DEF Emit, FastWindow, EngagementTie, Ability, Advance

LEMMA Piles ==
    /\ \A e \in Effects : Pile(e)
    /\ Pile(<<>>) /\ Pile(<<EngagementTie>>) /\ Pile(<<Plain("Reaction", "")>>)
    /\ Pile(<<Plain("HunterMove", "")>>)
    /\ \A trigger \in {"AnnounceForced", "AnnounceDeliberate"} : Pile(<<Advance(trigger)>>)
BY LooseFrames DEF Pile, Effects

LEMMA TiesPile == \A e \in Ties : Pile(e)
BY Piles DEF Ties

LEMMA PutPile ==
    ASSUME NEW s, NEW w, Rests(s, w), NEW e, Pile(e)
    PROVE  Rests(e \o s, w)
<1>1. s \in Seq(FrameSet)
      BY DEF Rests, Firm, Good
<1>2. CASE e = <<>>
      BY <1>1, <1>2, OverTwo
<1>3. ASSUME NEW f, e = <<f>>, LooseFrame(f) PROVE Rests(e \o s, w)
  <2>1. e \o s = Over(f, s) /\ f \in FrameSet
        BY <1>3 DEF Over, LooseFrame, FrameOK
  <2>2. Firm(Over(f, s), w)
        BY <1>3, Put DEF Rests, LooseFrame
  <2>3. Lasts(Over(f, s), w)
        BY <1>1, <2>1, Eliminating DEF Rests, Lasts
  <2> QED BY <2>1, <2>2, <2>3 DEF Rests
<1> QED BY <1>2, <1>3 DEF Pile

LEMMA PutOne ==
    ASSUME NEW s, NEW w, Rests(s, w), NEW f, LooseFrame(f)
    PROVE  Rests(<<f>> \o s, w) /\ Rests(Over(f, s), w)
BY PutPile DEF Pile, Over

\* Piled upon a frame and what is beneath it, as the actions write it.
LEMMA PutUpon ==
    ASSUME NEW s, NEW w, NEW g, Rests(Over(g, s), w), g \in FrameSet, s \in Seq(FrameSet)
    PROVE  /\ \A e : Pile(e) => Rests(e \o <<g>> \o s, w)
           /\ \A f : LooseFrame(f) => Rests(<<f, g>> \o s, w)
           /\ Rests(<<g>> \o s, w)
<1>1. \A e \in Seq(FrameSet) : e \o <<g>> \o s = e \o Over(g, s)
  <2>1. <<g>> \in Seq(FrameSet)
        OBVIOUS
  <2> QED BY <2>1, OverTwo DEF Over
<1>2. \A e : Pile(e) => e \in Seq(FrameSet)
  <2>1. \A f \in FrameSet : <<f>> \in Seq(FrameSet)
        OBVIOUS
  <2> QED BY <2>1, EmptySeq DEF Pile, LooseFrame, FrameOK
<1>3. \A f \in FrameSet : <<f, g>> \o s = Over(f, Over(g, s))
      BY OverTwo
<1>4. \A f : LooseFrame(f) => f \in FrameSet
      BY DEF LooseFrame, FrameOK
<1> QED BY <1>1, <1>2, <1>3, <1>4, PutPile, PutOne DEF Over

\* The stack beneath a loose frame that is popped.
LEMMA LiftOne ==
    ASSUME NEW s, NEW w, Sound(s, w), s # <<>>,
           Head(s).kind \in (Loose \ {"Elimination"}) \cup
                            {"ActionResolution", "InvestigatorTurn", "OpportunityAttacks"}
    PROVE  Rests(Tail(s), w)
<1>1. Firm(Tail(s), w)
      BY Lift DEF Sound
<1>2. /\ Head(s) \in FrameSet /\ Tail(s) \in Seq(FrameSet) /\ s = Over(Head(s), Tail(s))
      BY Taken DEF Sound
<1>3. HasElimination(s) => HasElimination(Tail(s))
      BY <1>2, Eliminating DEF Loose
<1> QED BY <1>1, <1>3 DEF Rests, Sound, Lasts

\* The top replaced.
LEMMA SwapOne ==
    ASSUME NEW s, NEW w, Sound(s, w), s # <<>>, NEW g, FrameOK(g), Holds(g), g.kind \notin Phases,
           g.kind = Head(s).kind, g.who = Head(s).who,
           g.kind \in Asked => g.queue = Head(s).queue,
           g.kind = "PlayerDraw" => g.n = Head(s).n
    PROVE  Rests(Over(g, Tail(s)), w)
<1>1. Firm(Over(g, Tail(s)), w)
      BY Swap DEF Sound
<1>2. /\ Head(s) \in FrameSet /\ Tail(s) \in Seq(FrameSet) /\ s = Over(Head(s), Tail(s))
      /\ g \in FrameSet
      BY Taken DEF Sound, FrameOK
<1>3. HasElimination(s) => HasElimination(Over(g, Tail(s)))
      BY <1>2, Eliminating
<1> QED BY <1>1, <1>3 DEF Rests, Sound, Lasts

LEMMA AnchorOne ==
    ASSUME NEW s, NEW w, Good(s, w), Lasts(s, w), s # <<>>, Head(s).kind \in Phases \cup {"Mulligan"},
           NEW v, v.en = w.en, v.st = w.st, NEW a, FrameOK(a), a.kind \in Phases, a.kind = v.ph,
           v.en \/ Idle(a, v)
    PROVE  Rests(Over(a, Tail(s)), v)
<1>1. Firm(Over(a, Tail(s)), v)
      BY Anchored
<1>2. /\ Head(s) \in FrameSet /\ Tail(s) \in Seq(FrameSet) /\ s = Over(Head(s), Tail(s))
      /\ a \in FrameSet
      BY Taken DEF FrameOK
<1>3. HasElimination(s) => HasElimination(Over(a, Tail(s)))
      BY <1>2, Eliminating DEF Phases
<1> QED BY <1>1, <1>3 DEF Rests, Lasts

\* A frame at another of its steps.
LEMMA AtOK ==
    ASSUME NEW f, FrameOK(f), NEW at \in Steps(f.kind),
           f.kind = "PlayerDraw" => IF at = "Draws" THEN f.n < Surges ELSE f.n # 0,
           at \in {"BeforeInvestigatorAttacked", "Drawing"} => f.who \in Investigators
    PROVE  /\ FrameOK(At(f, at)) /\ At(f, at).kind = f.kind /\ At(f, at).at = at
           /\ At(f, at).who = f.who /\ At(f, at).queue = f.queue /\ At(f, at).n = f.n
<1> DEFINE g == At(f, at)
<1>1. f \in FrameSet /\ at \in Places
  <2>1. f \in FrameSet
        BY DEF FrameOK
  <2>2. f.kind \in Kinds
        BY <2>1 DEF FrameSet
  <2> QED BY <2>1, <2>2 DEF Places
<1>2. /\ g \in FrameSet /\ g.kind = f.kind /\ g.at = at /\ g.who = f.who
      /\ g.queue = f.queue /\ g.n = f.n
      BY <1>1 DEF At, FrameSet
<1> HIDE DEF g
<1>3. Counted(g)
      BY <1>2 DEF FrameOK, Counted
<1>4. FrameOK(g)
      BY <1>2, <1>3 DEF FrameOK
<1> QED BY <1>2, <1>4 DEF g

------------------------------------------------------------------------------
(* What an action begins from, and what it ends in. *)

LEMMA Driving ==
    ASSUME IndInv, NEW kind, NEW at, Drives(kind, at)
    PROVE  /\ running = TRUE /\ Sound(stack, World) /\ World \in Worlds
           /\ stack # <<>> /\ Top.kind = kind /\ Top.at = at
           /\ ~(ending /\ CancelledByScenarioEnd(Top))
           /\ FrameOK(Top) /\ Top \in FrameSet /\ Beneath \in Seq(FrameSet)
           /\ stack = Over(Top, Beneath)
BY Taken DEF IndInv, Drives, CancelsTop, Top, Beneath, Sound

LEMMA Answering ==
    ASSUME IndInv, NEW kind, Answers(kind)
    PROVE  /\ running' = TRUE /\ Sound(stack, World) /\ World \in Worlds
           /\ stack # <<>> /\ Top.kind = kind /\ AwaitsInput(Top)
           /\ ~(ending /\ CancelledByScenarioEnd(Top))
           /\ FrameOK(Top) /\ Top \in FrameSet /\ Beneath \in Seq(FrameSet)
           /\ stack = Over(Top, Beneath)
BY Taken DEF IndInv, Answers, AtRest, CancelsTop, Top, Beneath, Sound

LEMMA SameWorld ==
    ASSUME UNCHANGED game
    PROVE  World' = World
BY DEF game, World

LEMMA Lands ==
    ASSUME World' \in Worlds, Rests(stack', World'), running' = TRUE
    PROVE  IndInv'
<1>1. Sound(stack', World')
      BY FirmSound DEF Rests
<1> QED BY <1>1 DEF IndInv, AtRest

------------------------------------------------------------------------------
(* The loop, emits and what they queue. *)

\* A loose frame on top of the stack, at another of its steps.
LEMMA TopAt ==
    ASSUME NEW s, NEW w, Sound(s, w), s # <<>>, Head(s).kind \in Loose, NEW at \in Steps(Head(s).kind)
    PROVE  /\ Rests(Over(At(Head(s), at), Tail(s)), w)
           /\ At(Head(s), at) \in FrameSet /\ Tail(s) \in Seq(FrameSet)
<1>1. FrameOK(Head(s)) /\ Tail(s) \in Seq(FrameSet)
      BY Taken DEF Sound
<1>2. at \notin {"BeforeInvestigatorAttacked", "Drawing"} /\ Head(s).kind # "PlayerDraw"
      BY LooseSteps DEF Loose
<1> DEFINE g == At(Head(s), at)
<1>3. /\ FrameOK(g) /\ g.kind = Head(s).kind /\ g.who = Head(s).who /\ g.queue = Head(s).queue
      /\ g.n = Head(s).n
      BY <1>1, <1>2, AtOK
<1> HIDE DEF g
<1>4. Holds(g) /\ g.kind \notin Phases
      BY <1>3 DEF Holds, Loose, Asked, Attacking, Phases
<1>5. Rests(Over(g, Tail(s)), w)
      BY <1>3, <1>4, SwapOne
<1> QED BY <1>1, <1>3, <1>5 DEF g, FrameOK

\* Popped, a loose frame wakes what is beneath it.
LEMMA Popped ==
    ASSUME IndInv, stack # <<>>, running' = TRUE, UNCHANGED game, stack' = Beneath,
           Top.kind \in (Loose \ {"Elimination"}) \cup
                        {"ActionResolution", "InvestigatorTurn", "OpportunityAttacks"}
    PROVE  IndInv'
<1>1. Rests(Beneath, World)
      BY LiftOne DEF IndInv, Top, Beneath
<1> QED BY <1>1, SameWorld, Lands DEF IndInv

LEMMA StepCancel == ASSUME IndInv, Cancel PROVE IndInv'
<1>1. /\ stack # <<>> /\ ending = TRUE /\ running' = TRUE /\ stack' = Beneath
      /\ World' = World /\ Sound(stack, World) /\ World \in Worlds
      BY SameWorld DEF IndInv, Cancel, CancelsTop, Worlds, World
<1>2. Good(stack', World') /\ World'.en
      BY <1>1, Taken DEF Sound, Beneath, World
<1>3. Sound(stack', World')
      BY <1>2 DEF Sound, Lasts
<1> QED BY <1>1, <1>3 DEF IndInv, AtRest

LEMMA StepRest == ASSUME IndInv, Rest PROVE IndInv'
<1>1. World' = World /\ stack' = stack /\ running' = FALSE /\ Top' = Top /\ ending' = ending
      BY SameWorld DEF Rest, Top, game
<1>2. stack # <<>> /\ ~CancelsTop /\ AwaitsInput(Top)
      BY DEF Rest
<1>3. AtRest'
      BY <1>1, <1>2 DEF AtRest, CancelsTop
<1> QED BY <1>1, <1>3 DEF IndInv

LEMMA StepCloseWindow == ASSUME IndInv, CloseWindow PROVE IndInv'
<1>1. /\ stack # <<>> /\ running' = TRUE /\ UNCHANGED game /\ stack' = Beneath
      /\ Top.kind \in Loose \ {"Elimination"}
      BY DEF IndInv, CloseWindow, Loose
<1> QED BY <1>1, Popped

LEMMA StepEmitGameEnd == ASSUME IndInv, EmitGameEnd PROVE IndInv'
<1>1. Drives("ScenarioEnd", "EmitGameEnd")
      BY DEF EmitGameEnd
<1>2. /\ running = TRUE /\ Sound(stack, World) /\ World \in Worlds /\ stack # <<>>
      /\ Top.kind = "ScenarioEnd" /\ FrameOK(Top) /\ Beneath \in Seq(FrameSet)
      BY <1>1, Driving
<1> DEFINE g == At(Top, "Finalize")
<1>3. /\ FrameOK(g) /\ g.kind = "ScenarioEnd" /\ g.who = Top.who /\ g.queue = Top.queue
  <2>1. "Finalize" \in Steps("ScenarioEnd")
        BY StepNames
  <2> QED BY <1>2, <2>1, AtOK
<1>4. /\ World' = World /\ running' = TRUE /\ stack' = <<Emit, g>> \o Beneath
      BY <1>2, SameWorld DEF EmitGameEnd
<1> HIDE DEF g
<1>5. Holds(g) /\ g.kind \notin Phases \cup Asked \cup {"PlayerDraw"} /\ g \in FrameSet
      BY <1>3 DEF Holds, Asked, Attacking, Phases, FrameOK
<1>6. Rests(Over(g, Beneath), World)
      BY <1>2, <1>3, <1>5, SwapOne DEF Top, Beneath
<1>7. Rests(stack', World)
      BY <1>2, <1>4, <1>5, <1>6, PutUpon, LooseFrames
<1> QED BY <1>2, <1>4, <1>7, Lands

\* The ending's frame is the bottom of the stack.
LEMMA LastFrame ==
    ASSUME NEW s, NEW w, Good(s, w), s # <<>>, Head(s).kind = "ScenarioEnd"
    PROVE  Tail(s) = <<>> /\ w.en
<1>1. Fits(Head(s), Tail(s), w)
      BY Taken
<1> QED BY <1>1 DEF Fits, Joined, Stands, AtBottom

LEMMA StepFinalizeScenarioEnd == ASSUME IndInv, FinalizeScenarioEnd PROVE IndInv'
<1>1. Drives("ScenarioEnd", "Finalize")
      BY DEF FinalizeScenarioEnd
<1>2. /\ Sound(stack, World) /\ World \in Worlds /\ stack # <<>> /\ Top.kind = "ScenarioEnd"
      BY <1>1, Driving
<1>3. Beneath = <<>> /\ World.en
      BY <1>2, LastFrame DEF Sound, Top, Beneath
<1>4. World' = World /\ running' = FALSE /\ stack' = <<>>
      BY <1>3, SameWorld DEF FinalizeScenarioEnd
<1>5. Good(<<>>, World)
      BY EmptySeq DEF Good
<1>6. ending' = TRUE
      BY <1>2, <1>3, <1>4 DEF World, Worlds
<1>7. Sound(stack', World')
      BY <1>3, <1>4, <1>5 DEF Sound, Lasts
<1> QED BY <1>2, <1>4, <1>6, <1>7 DEF IndInv, AtRest

LEMMA StepDispatchEmitEvent == ASSUME IndInv, DispatchEmitEvent PROVE IndInv'
<1>1. Drives("Emit", "Queued")
      BY DEF DispatchEmitEvent
<1>2. /\ running = TRUE /\ Sound(stack, World) /\ World \in Worlds /\ stack # <<>>
      /\ Top.kind = "Emit"
      BY <1>1, Driving
<1>3. PICK queued \in Effects \cup {<<Plain("Reaction", "")>>} :
         stack' = queued \o <<At(Top, "Walked")>> \o Beneath
      BY DEF DispatchEmitEvent
<1>4. World' = World /\ running' = TRUE
      BY <1>2, SameWorld DEF DispatchEmitEvent
<1>5. Pile(queued)
      BY Piles
<1>6. "Walked" \in Steps("Emit") /\ "Emit" \in Loose
      BY StepNames DEF Loose
<1>7. Rests(Over(At(Top, "Walked"), Beneath), World) /\ At(Top, "Walked") \in FrameSet
      /\ Beneath \in Seq(FrameSet)
      BY <1>2, <1>6, TopAt DEF Top, Beneath
<1>8. Rests(stack', World)
      BY <1>3, <1>5, <1>7, PutUpon
<1> QED BY <1>2, <1>4, <1>8, Lands

LEMMA StepDone ==
    ASSUME IndInv, EmitDone \/ AbilityDone \/ FinalizeAdvance
    PROVE  IndInv'
<1>1. \E kind \in {"Emit", "Ability", "AdvanceReverse"}, at \in {"Walked", "Acts", "Finalize"} :
         Drives(kind, at)
      BY DEF EmitDone, AbilityDone, FinalizeAdvance
<1>2. /\ running = TRUE /\ stack # <<>> /\ Top.kind \in {"Emit", "Ability", "AdvanceReverse"}
      BY <1>1, Driving
<1>3. stack' = Beneath /\ UNCHANGED game /\ running' = TRUE
      BY <1>2 DEF EmitDone, AbilityDone, FinalizeAdvance
<1> QED BY <1>2, <1>3, Popped DEF Loose

LEMMA StepAbilityAdvances == ASSUME IndInv, AbilityAdvances PROVE IndInv'
<1>1. Drives("Ability", "Acts")
      BY DEF AbilityAdvances
<1>2. /\ running = TRUE /\ Sound(stack, World) /\ World \in Worlds /\ stack # <<>>
      /\ Top.kind = "Ability"
      BY <1>1, Driving
<1>3. PICK trigger \in {"AnnounceForced", "AnnounceDeliberate"} :
         stack' = <<Advance(trigger)>> \o Beneath
      BY DEF AbilityAdvances
<1>4. World' = World /\ running' = TRUE
      BY <1>2, SameWorld DEF AbilityAdvances
<1>5. Rests(Beneath, World)
      BY <1>2, LiftOne DEF Top, Beneath, Loose
<1>6. Rests(stack', World)
      BY <1>3, <1>5, LooseFrames, PutOne
<1> QED BY <1>2, <1>4, <1>6, Lands

\* Steps that take a loose frame to another of its own, with an emit over it or not.
LEMMA TopMoves ==
    ASSUME IndInv, stack # <<>>, Top.kind \in Loose, NEW at \in Steps(Top.kind), running' = TRUE,
           UNCHANGED game,
           \/ stack' = <<At(Top, at)>> \o Beneath
           \/ stack' = <<Emit, At(Top, at)>> \o Beneath
    PROVE  IndInv'
<1>1. Sound(stack, World) /\ World \in Worlds
      BY DEF IndInv
<1>2. Rests(Over(At(Top, at), Beneath), World) /\ At(Top, at) \in FrameSet
      /\ Beneath \in Seq(FrameSet)
      BY <1>1, TopAt DEF Top, Beneath
<1>3. Rests(stack', World)
      BY <1>2, PutUpon, LooseFrames
<1> QED BY <1>1, <1>3, SameWorld, Lands

LEMMA StepTopMoves ==
    ASSUME IndInv, Announce \/ FireReverse \/ FireWeaknessGameEnd \/ ResumeAbility \/ ResumeAdvance
    PROVE  IndInv'
<1>0. /\ {"AwaitAck", "FireReverse", "Finalize"} \subseteq Steps("AdvanceReverse")
      /\ "RunSteps" \in Steps("Elimination") /\ "Acts" \in Steps("Ability")
      /\ {"AdvanceReverse", "Elimination", "Ability"} \subseteq Loose
      BY StepNames DEF Loose
<1>1. CASE Announce
  <2>1. PICK trigger \in {"AnnounceForced", "AnnounceDeliberate"} :
           /\ Drives("AdvanceReverse", trigger)
           /\ stack' = <<At(Top, IF interactive_acknowledge /\ trigger = "AnnounceForced"
                                 THEN "AwaitAck" ELSE "FireReverse")>> \o Beneath
        BY <1>1 DEF Announce
  <2>2. stack # <<>> /\ Top.kind = "AdvanceReverse" /\ running = TRUE
        BY <2>1, Driving
  <2>3. \/ stack' = <<At(Top, "AwaitAck")>> \o Beneath
        \/ stack' = <<At(Top, "FireReverse")>> \o Beneath
        BY <2>1
  <2>4. UNCHANGED game /\ running' = TRUE
        BY <1>1, <2>2 DEF Announce
  <2> QED BY <1>0, <2>2, <2>3, <2>4, TopMoves
<1>2. CASE FireReverse
  <2>1. Drives("AdvanceReverse", "FireReverse")
        BY <1>2 DEF FireReverse
  <2>2. stack # <<>> /\ Top.kind = "AdvanceReverse" /\ running = TRUE
        BY <2>1, Driving
  <2>3. stack' = <<Emit, At(Top, "Finalize")>> \o Beneath /\ UNCHANGED game /\ running' = TRUE
        BY <1>2, <2>2 DEF FireReverse
  <2> QED BY <1>0, <2>2, <2>3, TopMoves
<1>3. CASE FireWeaknessGameEnd
  <2>1. Drives("Elimination", "FireWeaknessGameEnd")
        BY <1>3 DEF FireWeaknessGameEnd
  <2>2. stack # <<>> /\ Top.kind = "Elimination" /\ running = TRUE
        BY <2>1, Driving
  <2>3. stack' = <<Emit, At(Top, "RunSteps")>> \o Beneath /\ UNCHANGED game /\ running' = TRUE
        BY <1>3, <2>2 DEF FireWeaknessGameEnd
  <2> QED BY <1>0, <2>2, <2>3, TopMoves
<1>4. CASE ResumeAbility
  <2>1. Answers("Ability")
        BY <1>4 DEF ResumeAbility
  <2>2. stack # <<>> /\ Top.kind = "Ability" /\ running' = TRUE
        BY <2>1, Answering
  <2>3. stack' = <<At(Top, "Acts")>> \o Beneath /\ UNCHANGED game
        BY <1>4 DEF ResumeAbility
  <2> QED BY <1>0, <2>2, <2>3, TopMoves
<1>5. CASE ResumeAdvance
  <2>1. Answers("AdvanceReverse")
        BY <1>5 DEF ResumeAdvance
  <2>2. stack # <<>> /\ Top.kind = "AdvanceReverse" /\ running' = TRUE
        BY <2>1, Answering
  <2>3. stack' = <<At(Top, "FireReverse")>> \o Beneath /\ UNCHANGED game
        BY <1>5 DEF ResumeAdvance
  <2> QED BY <1>0, <2>2, <2>3, TopMoves
<1> QED BY <1>1, <1>2, <1>3, <1>4, <1>5

\* A pile of what was queued, put on what a loose frame leaves.
LEMMA PiledBeneath ==
    ASSUME IndInv, stack # <<>>, running' = TRUE, UNCHANGED game, NEW e, Pile(e),
           stack' = e \o Beneath,
           Top.kind \in (Loose \ {"Elimination"}) \cup
                        {"ActionResolution", "InvestigatorTurn", "OpportunityAttacks"}
    PROVE  IndInv'
<1>1. Rests(Beneath, World) /\ World \in Worlds
      BY LiftOne DEF IndInv, Top, Beneath
<1>2. Rests(stack', World)
      BY <1>1, PutPile
<1> QED BY <1>1, <1>2, SameWorld, Lands

\* A top frame that holds what is put on it leaves the stack as it is.
LEMMA TopRests ==
    ASSUME NEW s, NEW w, Sound(s, w), s # <<>>, Holds(Head(s)), Head(s).kind \notin Phases
    PROVE  Rests(s, w)
BY DEF Sound, Rests, Firm

LEMMA StepResumeWindow == ASSUME IndInv, ResumeWindow PROVE IndInv'
<1>1. PICK kind \in {"FastWindow", "Reaction"} : Answers(kind)
      BY DEF ResumeWindow
<1>2. /\ stack # <<>> /\ Top.kind \in {"FastWindow", "Reaction"} /\ running' = TRUE
      /\ Sound(stack, World) /\ World \in Worlds
      BY <1>1, Answering
<1>3. UNCHANGED game /\ World' = World
      BY SameWorld DEF ResumeWindow
<1>4. Rests(stack, World)
  <2>1. Holds(Top) /\ Top.kind \notin Phases
        BY <1>2 DEF Holds, Asked, Attacking, Phases
  <2> QED BY <1>2, <2>1, TopRests DEF Top
<1>5. CASE stack' = Beneath
      BY <1>2, <1>3, <1>5, Popped DEF Loose
<1>6. CASE stack' = stack
      BY <1>2, <1>3, <1>4, <1>6, Lands
<1>7. CASE \E effect \in Effects \ {<<>>} : stack' = effect \o stack
  <2>1. PICK effect \in Effects : stack' = effect \o stack
        BY <1>7
  <2>2. Rests(stack', World)
        BY <1>4, <2>1, Piles, PutPile
  <2> QED BY <1>2, <1>3, <2>2, Lands
<1> QED BY <1>5, <1>6, <1>7 DEF ResumeWindow

LEMMA StepPiles ==
    ASSUME IndInv,
           DisposeEncounterCard \/ ResumeHunterChoice \/ ResumeEngagementTie \/ ResumeActionResolution
    PROVE  IndInv'
<1>1. CASE DisposeEncounterCard
  <2>1. Drives("EncounterCard", "") /\ UNCHANGED <<game, running>>
        BY <1>1 DEF DisposeEncounterCard
  <2>2. PICK tied \in Ties : stack' = tied \o Beneath
        BY <1>1 DEF DisposeEncounterCard
  <2>3. stack # <<>> /\ running = TRUE /\ Top.kind = "EncounterCard"
        BY <2>1, Driving
  <2>4. Top.kind \in Loose \ {"Elimination"}
        BY <2>3 DEF Loose
  <2> QED BY <2>1, <2>2, <2>3, <2>4, TiesPile, PiledBeneath
<1>2. CASE ResumeHunterChoice
  <2>1. Answers("HunterMove") /\ UNCHANGED game
        BY <1>2 DEF ResumeHunterChoice
  <2>2. PICK tied \in Ties : stack' = tied \o Beneath
        BY <1>2 DEF ResumeHunterChoice
  <2>3. stack # <<>> /\ running' = TRUE /\ Top.kind = "HunterMove"
        BY <2>1, Answering
  <2>4. Top.kind \in Loose \ {"Elimination"}
        BY <2>3 DEF Loose
  <2> QED BY <2>1, <2>2, <2>3, <2>4, TiesPile, PiledBeneath
<1>3. CASE ResumeEngagementTie
  <2>1. Answers("EngagementTie") /\ UNCHANGED game /\ stack' = Beneath
        BY <1>3 DEF ResumeEngagementTie
  <2>2. stack # <<>> /\ running' = TRUE /\ Top.kind = "EngagementTie"
        BY <2>1, Answering
  <2>3. Top.kind \in Loose \ {"Elimination"}
        BY <2>2 DEF Loose
  <2> QED BY <2>1, <2>2, <2>3, Popped
<1>4. CASE ResumeActionResolution
  <2>1. Drives("ActionResolution", "") /\ UNCHANGED <<game, running>>
        BY <1>4 DEF ResumeActionResolution
  <2>2. PICK effect \in Effects : stack' = effect \o Beneath \/ stack' = Beneath
        BY <1>4 DEF ResumeActionResolution
  <2> QED BY <2>1, <2>2, Driving, Piles, PiledBeneath, Popped
<1> QED BY <1>1, <1>2, <1>3, <1>4

------------------------------------------------------------------------------
(* The phases' anchors. *)

LEMMA AnchorDriving ==
    ASSUME IndInv, NEW p \in Phases, NEW at, Drives(p, at)
    PROVE  /\ running = TRUE /\ stack # <<>> /\ Top.kind = p /\ Top.at = at /\ phase = p
           /\ ending = FALSE /\ World.en = FALSE /\ World \in Worlds /\ Idle(Top, World)
           /\ Good(stack, World) /\ Lasts(stack, World)
           /\ FrameOK(Top) /\ Top \in FrameSet /\ Beneath = <<>> /\ stack = Over(Top, <<>>)
           /\ Active(status) # {}
<1>1. /\ running = TRUE /\ Sound(stack, World) /\ World \in Worlds /\ stack # <<>>
      /\ Top.kind = p /\ Top.at = at /\ ~(ending /\ CancelledByScenarioEnd(Top))
      /\ FrameOK(Top) /\ Top \in FrameSet /\ stack = Over(Top, Beneath)
      BY Driving
<1>2. CancelledByScenarioEnd(Top)
      BY <1>1 DEF CancelledByScenarioEnd, IsPhaseAnchor
<1>3. ending = FALSE /\ World.en = FALSE
      BY <1>1, <1>2 DEF Worlds, World
<1>4. Good(stack, World) /\ Lasts(stack, World) /\ OnTop(Top, World)
      BY <1>1, <1>3 DEF Sound, Top
<1>5. Idle(Top, World)
      BY <1>1, <1>4 DEF OnTop
<1>6. Beneath = <<>>
      BY <1>1, <1>3, <1>4, Ground DEF Top, Beneath
<1>7. Present(Top, World)
      BY <1>1, <1>4, Taken DEF Top
<1>8. phase = p
      BY <1>1, <1>7 DEF Present, World
<1>9. Active(status) # {}
  <2>1. Active(World.st) = {} => HasElimination(stack)
        BY <1>3, <1>4 DEF Lasts
  <2>2. ~HasElimination(<<>>)
        BY EmptySeq DEF HasElimination
  <2>3. <<>> \in Seq(FrameSet) /\ Top.kind # "Elimination"
        BY <1>1, EmptySeq DEF Phases
  <2>4. ~HasElimination(stack)
        BY <1>1, <1>6, <2>2, <2>3, Eliminating
  <2> QED BY <2>1, <2>4 DEF World
<1> QED BY <1>1, <1>3, <1>4, <1>5, <1>6, <1>8, <1>9

LEMMA MakeAnchor ==
    ASSUME NEW kind \in Phases, NEW at \in Steps(kind), NEW who \in Investigators \cup {None},
           NEW queue \in Seq(Investigators), NEW n \in IF kind = "Enemy" THEN 0..Hunters ELSE {0},
           at \in {"BeforeInvestigatorAttacked", "Drawing"} => who \in Investigators
    PROVE  FrameOK(Frame(kind, at, who, queue, n))
<1> DEFINE f == Frame(kind, at, who, queue, n)
<1>1. /\ f.kind = kind /\ f.at = at /\ f.who = who /\ f.queue = queue /\ f.n = n
      BY DEF Frame
<1>2. n \in Nat /\ kind \in Kinds
      BY BoundAssumption DEF Kinds
<1>3. f \in FrameSet
      BY <1>2 DEF Frame, FrameSet, Places
<1> HIDE DEF f
<1>4. Counted(f)
  <2>1. f.kind \notin Attacking \cup {"InvestigatorTurn", "PlayerDraw"}
        BY <1>1 DEF Phases, Attacking
  <2>2. f.n \in IF f.kind = "Enemy" THEN 0..Hunters ELSE {0}
        BY <1>1
  <2> QED BY <2>1, <2>2 DEF Counted
<1>5. f.kind \notin Asked \cup Attacking \cup {"PlayerDraw", "ActionResolution", "InvestigatorTurn"}
      BY <1>1 DEF Phases, Asked, Attacking
<1>6. FrameOK(f)
      BY <1>1, <1>3, <1>4, <1>5 DEF FrameOK
<1> QED BY <1>6 DEF f

\* An anchor replaced, with what is queued over it.
LEMMA AnchorLands ==
    ASSUME IndInv, stack # <<>>, Top.kind \in Phases \cup {"Mulligan"}, running' = TRUE,
           World' \in Worlds, ending' = ending, status' = status,
           NEW a, FrameOK(a), a.kind \in Phases, a.kind = phase', ending \/ Idle(a, World'),
           \/ \E e : Pile(e) /\ stack' = e \o <<a>> \o Beneath
           \/ \E f : LooseFrame(f) /\ stack' = <<f, a>> \o Beneath
           \/ stack' = <<a>> \o Beneath
    PROVE  IndInv'
<1>1. /\ Sound(stack, World) /\ Good(stack, World) /\ Lasts(stack, World)
      BY DEF IndInv, Sound
<1> DEFINE v == World'
<1>2. v.en = World.en /\ v.st = World.st /\ v.ph = phase' /\ World.en = ending
      BY DEF World
<1> HIDE DEF v
<1>3. Rests(Over(a, Beneath), v)
  <2>1. v.en \/ Idle(a, v)
        BY <1>2 DEF v
  <2> QED BY <1>1, <1>2, <2>1, AnchorOne DEF Top, Beneath
<1>4. a \in FrameSet /\ Beneath \in Seq(FrameSet)
      BY <1>1, Taken DEF FrameOK, Beneath
<1>5. Rests(stack', v)
      BY <1>3, <1>4, PutUpon
<1> QED BY <1>5, Lands DEF v

\* The same where the game beside the stack stays as it was.
LEMMA AnchorMoves ==
    ASSUME IndInv, NEW p \in Phases, NEW at, Drives(p, at), UNCHANGED <<game, running>>,
           NEW a, FrameOK(a), a.kind = p, Idle(a, World),
           \/ \E e : Pile(e) /\ stack' = e \o <<a>> \o Beneath
           \/ \E f : LooseFrame(f) /\ stack' = <<f, a>> \o Beneath
           \/ stack' = <<a>> \o Beneath
    PROVE  IndInv'
<1>1. running = TRUE /\ stack # <<>> /\ Top.kind = p /\ phase = p /\ World \in Worlds
      BY AnchorDriving
<1>2. World' = World /\ running' = TRUE /\ ending' = ending /\ status' = status /\ phase' = phase
      BY <1>1, SameWorld DEF game
<1> QED BY <1>1, <1>2, AnchorLands

\* The driven anchor at another of its steps.
LEMMA AnchorAt ==
    ASSUME IndInv, NEW p \in Phases, NEW at, Drives(p, at), NEW to \in Steps(p),
           to \notin {"BeforeInvestigatorAttacked", "Drawing"}
    PROVE  /\ FrameOK(At(Top, to)) /\ At(Top, to).kind = p /\ At(Top, to).at = to
           /\ At(Top, to).queue = Top.queue
<1>1. FrameOK(Top) /\ Top.kind = p /\ Top.kind # "PlayerDraw"
      BY AnchorDriving DEF Phases
<1> QED BY <1>1, AtOK

LEMMA StepBeginPhase == ASSUME IndInv, BeginPhase PROVE IndInv'
<1>1. PICK p \in Phases : Drives(p, "Entry") /\ stack' = Opened(p, Beneath)
      BY DEF BeginPhase
<1> DEFINE a == Plain(p, "AfterPhaseStartForced")
<1>2. /\ a = Frame(p, "AfterPhaseStartForced", None, <<>>, 0)
      BY DEF Plain
<1>3. "AfterPhaseStartForced" \in Steps(p)
      BY StepNames DEF Phases, PhaseSteps
<1>4. 0 \in IF p = "Enemy" THEN 0..Hunters ELSE {0}
      BY BoundAssumption
<1>5. FrameOK(a)
      BY <1>2, <1>3, <1>4, EmptySeq, MakeAnchor
<1>6. Idle(Top, World) /\ Top.at = "Entry"
      BY <1>1, AnchorDriving
<1>7. World.tk = <<>>
      BY <1>6 DEF Idle
<1>8. a.kind = p /\ a.at = "AfterPhaseStartForced" /\ a.queue = <<>>
      BY DEF Plain, Frame
<1>9. stack' = <<Emit, a>> \o Beneath /\ UNCHANGED <<game, running>>
      BY <1>1 DEF Opened, BeginPhase
<1> HIDE DEF a
<1>10. Idle(a, World)
       BY <1>7, <1>8 DEF Idle
<1> QED BY <1>1, <1>5, <1>8, <1>9, <1>10, LooseFrames, AnchorMoves

LEMMA TransitionStep ==
    ASSUME IndInv, NEW p \in Phases, NEW at, NEW next \in Phases, Transition(p, at, next)
    PROVE  IndInv'
<1>1. /\ Drives(p, at) /\ stack' = <<Entry(next)>> \o Beneath /\ phase' = next /\ taken' = <<>>
      /\ status' = status /\ active' = active /\ ending' = ending /\ running' = running
      BY DEF Transition
<1>2. /\ running = TRUE /\ stack # <<>> /\ Top.kind = p /\ World \in Worlds
      BY <1>1, AnchorDriving
<1> DEFINE a == Entry(next)
<1>3. /\ a = Frame(next, "Entry", None, <<>>, 0)
      BY DEF Entry, Plain
<1>4. "Entry" \in Steps(next) /\ 0 \in IF next = "Enemy" THEN 0..Hunters ELSE {0}
  <2>1. "Entry" \in Steps(next)
        BY StepNames DEF Phases, PhaseSteps
  <2> QED BY <2>1, BoundAssumption
<1>5. FrameOK(a)
      BY <1>3, <1>4, EmptySeq, MakeAnchor
<1>6. a.kind = next /\ a.at = "Entry" /\ a.queue = <<>>
      BY <1>3 DEF Frame
<1> HIDE DEF a
<1>7. World' \in Worlds /\ World'.tk = <<>>
      BY <1>1, <1>2, EmptySeq DEF World, Worlds
<1>8. Idle(a, World')
      BY <1>6, <1>7 DEF Idle
<1> QED BY <1>1, <1>2, <1>5, <1>6, <1>7, <1>8, AnchorLands DEF a

LEMMA StepEndPhase == ASSUME IndInv, EndPhase PROVE IndInv'
BY TransitionStep DEF EndPhase, Phases

LEMMA StepOpenWindow == ASSUME IndInv, OpenWindow PROVE IndInv'
<1>1. PICK w \in Windowed :
         Drives(w[1], w[2]) /\ stack' = <<FastWindow, At(Top, w[3])>> \o Beneath
      BY DEF OpenWindow
<1> DEFINE p == w[1]
           at == w[2]
           to == w[3]
<1>2. \/ p = "Investigation" /\ at = "AfterPhaseStartForced" /\ to = "Begins"
      \/ p = "Investigation" /\ at = "AfterTurnBegan" /\ to = "TurnBegins"
      \/ p = "Upkeep" /\ at = "AfterPhaseStartForced" /\ to = "Begins"
      BY DEF Windowed
<1>3. Drives(p, at) /\ stack' = <<FastWindow, At(Top, to)>> \o Beneath /\ UNCHANGED <<game, running>>
      BY <1>1 DEF OpenWindow
<1> HIDE DEF p, at, to
<1>4. p \in Phases /\ to \in Steps(p) /\ to \notin {"BeforeInvestigatorAttacked", "Drawing"}
      BY <1>2, StepNames DEF Phases
<1>5. Idle(Top, World) /\ Top.at = at /\ Top.kind = p
      BY <1>3, <1>4, AnchorDriving
<1> DEFINE a == At(Top, to)
<1>6. FrameOK(a) /\ a.kind = p /\ a.at = to /\ a.queue = Top.queue
      BY <1>3, <1>4, AnchorAt
<1>7. Elems(<<>>) = {}
      BY EmptySeq, ElemsOf
<1> HIDE DEF a
<1>8. Idle(a, World)
      BY <1>2, <1>5, <1>6, <1>7 DEF Idle
<1> QED BY <1>3, <1>4, <1>6, <1>8, LooseFrames, AnchorMoves DEF a

LEMMA StepMythosAfterPhaseStart == ASSUME IndInv, MythosAfterPhaseStart PROVE IndInv'
<1>1. Drives("Mythos", "AfterPhaseStartForced") /\ UNCHANGED <<game, running>>
      BY DEF MythosAfterPhaseStart
<1>2. PICK e \in {<<>>, <<Advance("AnnounceForced")>>} : stack' = e \o <<At(Top, "Draws")>> \o Beneath
      BY DEF MythosAfterPhaseStart
<1>3. Pile(e)
      BY Piles
<1>4. "Mythos" \in Phases /\ "Draws" \in Steps("Mythos")
      BY StepNames DEF Phases
<1> DEFINE a == At(Top, "Draws")
<1>5. FrameOK(a) /\ a.kind = "Mythos" /\ a.at = "Draws"
      BY <1>1, <1>4, AnchorAt
<1>6. Idle(Top, World) /\ Top.at = "AfterPhaseStartForced"
      BY <1>1, <1>4, AnchorDriving
<1> HIDE DEF a
<1>7. Idle(a, World)
      BY <1>5, <1>6 DEF Idle
<1> QED BY <1>1, <1>2, <1>3, <1>4, <1>5, <1>7, AnchorMoves DEF a

\* A phase ends once everybody has taken their part.
LEMMA EndedMoves ==
    ASSUME IndInv, NEW p \in Phases, NEW at, Drives(p, at), UNCHANGED <<game, running>>,
           Done(World), stack' = Ended(Top, Beneath)
    PROVE  IndInv'
<1> DEFINE a == At(Top, "AfterPhaseEndForced")
<1>1. "AfterPhaseEndForced" \in Steps(p)
      BY StepNames DEF Phases, PhaseSteps
<1>2. FrameOK(a) /\ a.kind = p /\ a.at = "AfterPhaseEndForced"
      BY <1>1, AnchorAt
<1>3. stack' = <<Emit, a>> \o Beneath
      BY DEF Ended
<1> HIDE DEF a
<1>4. Idle(a, World)
      BY <1>2 DEF Idle
<1> QED BY <1>2, <1>3, <1>4, LooseFrames, AnchorMoves

LEMMA StepPhaseEnds == ASSUME IndInv, MythosPhaseEnd \/ EnemyPhaseEnd PROVE IndInv'
<1>1. PICK p \in {"Mythos", "Enemy"}, at \in {"AfterDraws", "AfterAllAttacked"} :
         Drives(p, at) /\ stack' = Ended(Top, Beneath) /\ UNCHANGED <<game, running>>
      BY DEF MythosPhaseEnd, EnemyPhaseEnd
<1>2. p \in Phases
      BY DEF Phases
<1>3. Idle(Top, World) /\ Top.at = at
      BY <1>1, <1>2, AnchorDriving
<1>4. Done(World)
      BY <1>3 DEF Idle
<1> QED BY <1>1, <1>2, <1>4, EndedMoves

LEMMA StepUpkeepRoundEnd == ASSUME IndInv, UpkeepRoundEnd PROVE IndInv'
<1>1. /\ Drives("Upkeep", "AfterPhaseEndForced") /\ UNCHANGED <<game, running>>
      /\ stack' = <<Emit, At(Top, "AfterRoundEnd")>> \o Beneath
      BY DEF UpkeepRoundEnd
<1>2. "Upkeep" \in Phases /\ "AfterRoundEnd" \in Steps("Upkeep")
      BY StepNames DEF Phases
<1> DEFINE a == At(Top, "AfterRoundEnd")
<1>3. FrameOK(a) /\ a.kind = "Upkeep" /\ a.at = "AfterRoundEnd"
      BY <1>1, <1>2, AnchorAt
<1>4. Idle(Top, World) /\ Top.at = "AfterPhaseEndForced"
      BY <1>1, <1>2, AnchorDriving
<1> HIDE DEF a
<1>5. Idle(a, World)
      BY <1>3, <1>4 DEF Idle
<1> QED BY <1>1, <1>2, <1>3, <1>5, LooseFrames, AnchorMoves DEF a

LEMMA StepReadyExhausted == ASSUME IndInv, ReadyExhausted PROVE IndInv'
<1>1. Drives("Upkeep", "Begins") /\ UNCHANGED <<game, running>>
      BY DEF ReadyExhausted
<1>2. PICK tied \in Ties : stack' = tied \o <<At(Top, "AfterReady")>> \o Beneath
      BY DEF ReadyExhausted
<1>3. "Upkeep" \in Phases /\ "AfterReady" \in Steps("Upkeep")
      BY StepNames DEF Phases
<1> DEFINE a == At(Top, "AfterReady")
<1>4. FrameOK(a) /\ a.kind = "Upkeep" /\ a.at = "AfterReady"
      BY <1>1, <1>3, AnchorAt
<1>5. Idle(Top, World) /\ Top.at = "Begins" /\ Top.kind = "Upkeep"
      BY <1>1, <1>3, AnchorDriving
<1> HIDE DEF a
<1>6. Idle(a, World)
      BY <1>4, <1>5 DEF Idle
<1> QED BY <1>1, <1>2, <1>3, <1>4, <1>6, TiesPile, AnchorMoves DEF a

------------------------------------------------------------------------------
(* Walks in player order. *)

\* The first of the players, or the next after one, is the one due; with nobody
\* left everybody has had their part.
LEMMA FirstDue ==
    ASSUME NEW w \in Worlds, w.tk = <<>>
    PROVE  LET i == FirstInPlayerOrder(w.st) IN
           IF i = None THEN Done(w) ELSE i \in Active(w.st) /\ i \in Investigators /\ Before(i, w)
<1> DEFINE i == FirstInPlayerOrder(w.st)
<1>1. Active(w.st) \in SUBSET Investigators
      BY DEF Active
<1>2. i = FirstOf(Active(w.st))
      BY DEF FirstInPlayerOrder
<1>3. /\ i = None <=> Active(w.st) = {}
      /\ i # None => i \in Active(w.st) /\ \A j \in Active(w.st) : Position(i) <= Position(j)
      BY <1>1, <1>2, FirstIs
<1>4. Elems(w.tk) = {}
      BY EmptySeq, ElemsOf
<1> HIDE DEF i
<1>5. i = None => Done(w)
      BY <1>3 DEF Done
<1>6. ASSUME i # None PROVE Before(i, w)
  <2>1. \A j \in Active(w.st) : Position(j) \in Nat /\ Position(i) \in Nat
        BY <1>1, <1>3, <1>6, Seats
  <2>2. \A j \in Active(w.st) : ~(Position(j) < Position(i))
        BY <1>3, <1>6, <2>1
  <2> QED BY <1>4, <2>2 DEF Before
<1> QED BY <1>1, <1>3, <1>5, <1>6 DEF i

LEMMA NextDue ==
    ASSUME NEW w \in Worlds, NEW h \in Investigators, UpTo(h, w)
    PROVE  LET i == NextInPlayerOrder(w.st, h) IN
           IF i = None THEN Done(w) ELSE i \in Active(w.st) /\ i \in Investigators /\ Before(i, w)
<1> DEFINE i == NextInPlayerOrder(w.st, h)
           S == {j \in Active(w.st) : Position(j) > Position(h)}
<1>1. S \in SUBSET Investigators /\ Active(w.st) \subseteq Investigators
      BY DEF Active
<1>2. i = FirstOf(S)
      BY DEF NextInPlayerOrder
<1>3. /\ i = None <=> S = {}
      /\ i # None => i \in S /\ \A j \in S : Position(i) <= Position(j)
  <2> HIDE DEF S
  <2> QED BY <1>1, <1>2, FirstIs
<1>4. \A j \in Investigators : Position(j) \in Nat
      BY Seats
<1>5. Elems(w.tk) \subseteq Investigators
      BY ElemsOf DEF Worlds
<1> HIDE DEF i
<1>6. ASSUME i = None PROVE Done(w)
  <2>1. \A j \in Active(w.st) : Position(j) <= Position(h)
        BY <1>1, <1>3, <1>4, <1>6
  <2> QED BY <2>1 DEF UpTo, Done
<1>7. ASSUME i # None PROVE i \in Active(w.st) /\ i \in Investigators /\ Before(i, w)
  <2>1. i \in Active(w.st) /\ Position(i) > Position(h) /\ i \in Investigators
        BY <1>1, <1>3, <1>7
  <2>2. ASSUME NEW j \in Active(w.st), Position(j) < Position(i) PROVE j \in Elems(w.tk)
    <3>1. j \in Investigators
          BY <1>1
    <3>2. j \notin S
          BY <1>3, <1>4, <1>7, <2>1, <2>2, <3>1
    <3>3. Position(j) <= Position(h)
          BY <1>4, <2>1, <3>1, <3>2
    <3> QED BY <3>3 DEF UpTo
  <2>3. \A j \in Elems(w.tk) : Position(j) < Position(i)
    <3>1. \A j \in Elems(w.tk) : Position(j) <= Position(h)
          BY DEF UpTo
    <3> QED BY <1>4, <1>5, <2>1, <3>1
  <2> QED BY <2>1, <2>2, <2>3 DEF Before
<1> QED BY <1>6, <1>7 DEF i

\* The one due takes their part.
LEMMA TakesPart ==
    ASSUME NEW w \in Worlds, NEW i \in Investigators, Before(i, w), NEW v,
           v.st = w.st, v.tk = Append(w.tk, i)
    PROVE  UpTo(i, v) /\ Elems(v.tk) = Elems(w.tk) \cup {i}
<1>1. Elems(v.tk) = Elems(w.tk) \cup {i} /\ Elems(w.tk) \subseteq Investigators
      BY ElemsOf DEF Worlds
<1>2. Active(w.st) \subseteq Investigators /\ \A j \in Investigators : Position(j) \in Nat
      BY Seats DEF Active
<1>3. \A j \in Active(v.st) : Position(j) <= Position(i) => j \in Elems(v.tk)
  <2> SUFFICES ASSUME NEW j \in Active(w.st), Position(j) <= Position(i), j # i
               PROVE  j \in Elems(w.tk)
      BY <1>1
  <2>1. Position(j) # Position(i)
        BY <1>2, Seats
  <2>2. Position(j) < Position(i)
        BY <1>2, <2>1
  <2> QED BY <2>2 DEF Before
<1>4. \A j \in Elems(v.tk) : Position(j) <= Position(i)
      BY <1>1, <1>2 DEF Before
<1> QED BY <1>1, <1>3, <1>4 DEF UpTo

\* One who is out, or was passed over, leaves the walk where it was.
LEMMA PassedOver ==
    ASSUME NEW w \in Worlds, NEW i \in Investigators, Before(i, w), i \notin Active(w.st)
    PROVE  UpTo(i, w)
<1>1. Active(w.st) \subseteq Investigators /\ \A j \in Investigators : Position(j) \in Nat
      BY Seats DEF Active
<1>2. Elems(w.tk) \subseteq Investigators
      BY ElemsOf DEF Worlds
<1>3. \A j \in Active(w.st) : Position(j) <= Position(i) => j \in Elems(w.tk)
  <2> SUFFICES ASSUME NEW j \in Active(w.st), Position(j) <= Position(i)
               PROVE  j \in Elems(w.tk)
      OBVIOUS
  <2>1. Position(j) # Position(i)
        BY <1>1, Seats
  <2>2. Position(j) < Position(i)
        BY <1>1, <2>1
  <2> QED BY <2>2 DEF Before
<1> QED BY <1>1, <1>2, <1>3 DEF UpTo, Before

------------------------------------------------------------------------------
(* Prompts over an anchor. *)

LEMMA LandsOn ==
    ASSUME World' \in Worlds, Sound(stack', World'), running' = TRUE
    PROVE  IndInv'
BY DEF IndInv, AtRest

LEMMA LastsPast ==
    ASSUME NEW s \in Seq(FrameSet), NEW w, Lasts(s, w)
    PROVE  /\ s # <<>> /\ Head(s).kind # "Elimination" => Lasts(Tail(s), w)
           /\ \A f \in FrameSet : Lasts(Over(f, s), w)
<1>1. \A f \in FrameSet : Lasts(Over(f, s), w)
      BY Eliminating DEF Lasts
<1>2. ASSUME s # <<>>, Head(s).kind # "Elimination" PROVE Lasts(Tail(s), w)
  <2>1. Head(s) \in FrameSet /\ Tail(s) \in Seq(FrameSet) /\ s = Over(Head(s), Tail(s))
        BY <1>2, HeadOver
  <2>2. HasElimination(s) => HasElimination(Tail(s))
        BY <1>2, <2>1, Eliminating
  <2> QED BY <2>2 DEF Lasts
<1> QED BY <1>1, <1>2

\* A frame that asks, put on a stack.
LEMMA PutAsked ==
    ASSUME NEW s, NEW w, Good(s, w), Lasts(s, w), s # <<>>,
           NEW f, FrameOK(f), Present(f, w), Stands(f, Head(s)),
           ~w.en => Runs(f, Head(s), w) /\ OnTop(f, w)
    PROVE  Sound(Over(f, s), w)
<1>1. s \in Seq(FrameSet) /\ f \in FrameSet
      BY DEF Good, FrameOK
<1>2. Good(Over(f, s), w)
      BY <1>1, Split DEF Fits, Joined
<1>3. Over(f, s) # <<>> /\ Head(Over(f, s)) = f
      BY <1>1, OverSeq
<1> QED BY <1>1, <1>2, <1>3, LastsPast DEF Sound

LEMMA MakeAsked ==
    ASSUME NEW kind \in Asked, NEW queue \in Seq(Investigators), queue # <<>>
    PROVE  /\ FrameOK(Asking(kind, queue)) /\ Asking(kind, queue).kind = kind
           /\ Asking(kind, queue).queue = queue
<1> DEFINE f == Asking(kind, queue)
<1>1. f.kind = kind /\ f.at = "" /\ f.who = None /\ f.queue = queue /\ f.n = 0
      BY DEF Asking, Frame
<1>2. kind \in Kinds /\ "" \in Steps(kind)
      BY StepNames DEF Asked, Kinds, Resting
<1>3. f \in FrameSet
      BY <1>2 DEF Asking, Frame, FrameSet, Places
<1> HIDE DEF f
<1>4. Counted(f)
      BY <1>1 DEF Counted, Asked, Attacking
<1>5. f.kind \notin Attacking \cup {"PlayerDraw", "ActionResolution", "InvestigatorTurn"}
      BY <1>1 DEF Asked, Attacking
<1>6. FrameOK(f)
      BY <1>1, <1>2, <1>3, <1>4, <1>5 DEF FrameOK
<1> QED BY <1>1, <1>6 DEF f

------------------------------------------------------------------------------
(* Mythos. *)

LEMMA StepRunMythosDraws == ASSUME IndInv, RunMythosDraws PROVE IndInv'
<1>1. Drives("Mythos", "Draws") /\ UNCHANGED <<game, running>>
      BY DEF RunMythosDraws
<1>2. "Mythos" \in Phases /\ "AfterDraws" \in Steps("Mythos")
      BY StepNames DEF Phases
<1>3. /\ running = TRUE /\ stack # <<>> /\ Top.kind = "Mythos" /\ Top.at = "Draws"
      /\ phase = "Mythos" /\ World \in Worlds /\ Idle(Top, World)
      /\ Good(stack, World) /\ Lasts(stack, World) /\ FrameOK(Top)
      /\ Beneath = <<>> /\ Active(status) # {}
      BY <1>1, <1>2, AnchorDriving
<1>4. /\ Players \in Seq(Investigators) /\ Increasing(Players) /\ Elems(Players) = Active(status)
      BY <1>3, PlayersAre DEF World, Worlds, Players
<1>5. Players # <<>> /\ Head(Players) \in Active(status)
  <2>1. Players # <<>>
        BY <1>3, <1>4, ElemsOf
  <2> QED BY <1>4, <2>1, ElemsOf
<1> DEFINE a == At(Top, "AfterDraws")
           f == Asking("EncounterDraw", Players)
           s == Over(a, Beneath)
<1>6. /\ FrameOK(a) /\ a.kind = "Mythos" /\ a.at = "AfterDraws"
      BY <1>1, <1>2, AnchorAt
<1>7. /\ FrameOK(f) /\ f.kind = "EncounterDraw" /\ f.queue = Players
      BY <1>4, <1>5, MakeAsked DEF Asked
<1>8. stack' = <<f, a>> \o Beneath
      BY <1>5 DEF RunMythosDraws
<1> HIDE DEF a, f
<1>9. Good(s, World) /\ s # <<>> /\ Head(s) = a
  <2>1. World.en = World.en /\ a.kind = World.ph /\ a.kind \in Phases
        BY <1>2, <1>3, <1>6 DEF World
  <2> QED BY <1>2, <1>3, <1>6, <2>1, Anchored DEF Top, Beneath
<1>10. stack' = Over(f, s)
  <2>1. a \in FrameSet /\ f \in FrameSet /\ Beneath \in Seq(FrameSet)
        BY <1>3, <1>6, <1>7, EmptySeq DEF FrameOK
  <2> QED BY <1>8, <2>1, OverTwo
<1>11. Lasts(s, World)
       BY <1>3 DEF Lasts, World
<1> HIDE DEF s
<1>12. Stands(f, a) /\ Present(f, World)
  <2>1. Holds(a)
        BY <1>6 DEF Holds, Asked, Attacking
  <2> QED BY <1>6, <1>7, <2>1 DEF Stands, Present, Phases
<1>13. World.tk = <<>>
       BY <1>3 DEF Idle
<1>14. Runs(f, a, World) /\ OnTop(f, World)
  <2>1. Elems(World.tk) = {} /\ World.st = status
        BY <1>13, EmptySeq, ElemsOf DEF World
  <2>2. Runs(f, a, World)
        BY <1>4, <1>7, <2>1 DEF Runs, Asked
  <2>3. OnTop(f, World)
        BY <1>5, <1>7, <2>1 DEF OnTop, Phases, Attacking
  <2> QED BY <2>2, <2>3
<1>15. Sound(stack', World)
       BY <1>7, <1>9, <1>10, <1>11, <1>12, <1>14, PutAsked
<1> QED BY <1>1, <1>3, <1>15, SameWorld, LandsOn

\* A prompt that the ending would have cancelled is asked while the game goes on.
LEMMA StillOn ==
    ASSUME IndInv, ~(ending /\ CancelledByScenarioEnd(Top)),
           Top.kind \in Asked \cup Attacking \cup {"InvestigatorTurn", "PlayerDraw"}
    PROVE  ending = FALSE /\ World.en = FALSE
<1>1. CancelledByScenarioEnd(Top)
      BY DEF CancelledByScenarioEnd, Asked, Attacking
<1> QED BY <1>1 DEF IndInv, World, Worlds

LEMMA StepResumeEncounterDraw == ASSUME IndInv, ResumeEncounterDraw PROVE IndInv'
<1>1. Answers("EncounterDraw") /\ UNCHANGED game
      BY DEF ResumeEncounterDraw
<1>2. /\ running' = TRUE /\ Sound(stack, World) /\ World \in Worlds
      /\ stack # <<>> /\ Top.kind = "EncounterDraw"
      /\ ~(ending /\ CancelledByScenarioEnd(Top)) /\ FrameOK(Top)
      BY <1>1, Answering
<1>3. World.en = FALSE
      BY <1>2, StillOn DEF Asked
<1>4. Good(stack, World) /\ Lasts(stack, World) /\ OnTop(Top, World)
      BY <1>2, <1>3 DEF Sound, Top
<1>5. Head(Top.queue) \in Active(World.st) \ Elems(World.tk)
      BY <1>2, <1>4 DEF OnTop
<1>6. Head(Top.queue) \in Investigators
      BY <1>5 DEF Active
<1> DEFINE i == Head(Top.queue)
           f == Of("PlayerDraw", "Draws", i)
<1>7. /\ f.kind = "PlayerDraw" /\ f.at = "Draws" /\ f.who = i /\ f.queue = <<>> /\ f.n = 0
      BY DEF Of, Frame
<1>8. FrameOK(f)
  <2>1. "PlayerDraw" \in Kinds /\ "Draws" \in Steps("PlayerDraw")
        BY StepNames DEF Kinds
  <2>2. f \in FrameSet
        BY <1>6, <2>1, EmptySeq DEF Of, Frame, FrameSet, Places
  <2> HIDE DEF f
  <2>3. Counted(f) /\ f.n < Surges
        BY <1>7, BoundAssumption DEF Counted, Attacking
  <2> QED BY <1>6, <1>7, <2>1, <2>2, <2>3 DEF FrameOK, Asked
<1>9. stack' = Over(f, stack)
      BY DEF ResumeEncounterDraw, Over
<1> HIDE DEF f
<1>10. Present(f, World) /\ Stands(f, Head(stack))
       BY <1>2, <1>7 DEF Present, Stands, Phases, Top
<1>11. Runs(f, Head(stack), World) /\ OnTop(f, World)
  <2>1. Runs(f, Head(stack), World)
        BY <1>2, <1>5, <1>7 DEF Runs, Phases, Top
  <2>2. OnTop(f, World)
        BY <1>7 DEF OnTop, Phases, Attacking
  <2> QED BY <2>1, <2>2
<1>12. Sound(stack', World)
       BY <1>2, <1>4, <1>8, <1>9, <1>10, <1>11, PutAsked
<1> QED BY <1>1, <1>2, <1>12, SameWorld, LandsOn

\* A draw under way, over the prompt it came from and the Mythos anchor.
LEMMA DrawUnderWay ==
    ASSUME IndInv, NEW at, Drives("PlayerDraw", at)
    PROVE  LET ed == Head(Beneath)
               a == Head(Tail(Beneath)) IN
           /\ running = TRUE /\ World \in Worlds /\ ending = FALSE /\ World.en = FALSE
           /\ stack # <<>> /\ Top.kind = "PlayerDraw" /\ Top.at = at /\ FrameOK(Top)
           /\ Good(stack, World) /\ Lasts(stack, World)
           /\ Beneath # <<>> /\ Good(Beneath, World) /\ Beneath = Over(ed, Tail(Beneath))
           /\ ed.kind = "EncounterDraw" /\ Top.who = Head(ed.queue) /\ FrameOK(ed)
           /\ Runs(Top, ed, World)
           /\ Tail(Beneath) # <<>> /\ Good(Tail(Beneath), World) /\ Tail(Beneath) = Over(a, <<>>)
           /\ Tail(Tail(Beneath)) = <<>>
           /\ a.kind = "Mythos" /\ a.at = "AfterDraws" /\ FrameOK(a) /\ phase = "Mythos"
           /\ Runs(ed, a, World) /\ Stands(ed, a)
           /\ ed.queue \in Seq(Investigators) /\ ed.queue # <<>> /\ Increasing(ed.queue)
           /\ Top.who \in Investigators
<1> DEFINE ed == Head(Beneath)
           a == Head(Tail(Beneath))
<1>1. /\ running = TRUE /\ Sound(stack, World) /\ World \in Worlds
      /\ stack # <<>> /\ Top.kind = "PlayerDraw" /\ Top.at = at
      /\ ~(ending /\ CancelledByScenarioEnd(Top)) /\ FrameOK(Top)
      BY Driving
<1>2. ending = FALSE /\ World.en = FALSE
      BY <1>1, StillOn
<1>3. Good(stack, World) /\ Lasts(stack, World)
      BY <1>1 DEF Sound
<1>4. Fits(Top, Beneath, World) /\ Good(Beneath, World)
      BY <1>1, <1>3, Taken DEF Top, Beneath
<1>5. Beneath # <<>>
      BY <1>1, <1>4 DEF Fits, AtBottom, Phases
<1>6. Stands(Top, ed) /\ Runs(Top, ed, World)
      BY <1>2, <1>4, <1>5 DEF Fits, Joined
<1>7. ed.kind = "EncounterDraw" /\ Top.who = Head(ed.queue)
      BY <1>1, <1>6 DEF Stands
<1>8. /\ Fits(ed, Tail(Beneath), World) /\ Good(Tail(Beneath), World)
      /\ FrameOK(ed) /\ Beneath = Over(ed, Tail(Beneath))
      BY <1>4, <1>5, Taken
<1>9. Tail(Beneath) # <<>>
      BY <1>7, <1>8 DEF Fits, AtBottom, Phases
<1>10. Stands(ed, a) /\ Runs(ed, a, World)
       BY <1>2, <1>8, <1>9 DEF Fits, Joined
<1>11. a.kind = "Mythos" /\ a.at = "AfterDraws"
       BY <1>7, <1>10 DEF Stands
<1>12. FrameOK(a) /\ Present(a, World) /\ Tail(Beneath) = Over(a, Tail(Tail(Beneath)))
       BY <1>8, <1>9, Taken
<1>13. Tail(Tail(Beneath)) = <<>>
       BY <1>2, <1>8, <1>9, <1>11, Ground DEF Phases
<1>14. phase = "Mythos"
       BY <1>11, <1>12 DEF Present, Phases, World
<1>15. ed.queue \in Seq(Investigators) /\ ed.queue # <<>> /\ Increasing(ed.queue)
       BY <1>7, <1>8, <1>10 DEF FrameOK, FrameSet, Asked, Runs
<1>16. Top.who \in Investigators
       BY <1>1 DEF FrameOK
<1> QED BY <1>1, <1>2, <1>3, <1>4, <1>5, <1>6, <1>7, <1>8, <1>9, <1>10, <1>11, <1>12, <1>13,
           <1>14, <1>15, <1>16

LEMMA StepDrawEncounterCard == ASSUME IndInv, DrawEncounterCard PROVE IndInv'
<1>1. Drives("PlayerDraw", "Draws")
      BY DEF DrawEncounterCard
<1> DEFINE ed == Head(Beneath)
           a == Head(Tail(Beneath))
           r == Tail(Beneath)
           i == Top.who
<1>2. /\ running = TRUE /\ World \in Worlds /\ ending = FALSE /\ World.en = FALSE
      /\ stack # <<>> /\ Top.kind = "PlayerDraw" /\ Top.at = "Draws" /\ FrameOK(Top)
      /\ Good(stack, World) /\ Lasts(stack, World)
      /\ Beneath # <<>> /\ Good(Beneath, World) /\ Beneath = Over(ed, r)
      /\ ed.kind = "EncounterDraw" /\ i = Head(ed.queue) /\ FrameOK(ed)
      /\ Runs(Top, ed, World)
      /\ r # <<>> /\ Good(r, World) /\ r = Over(a, <<>>) /\ Tail(r) = <<>>
      /\ a.kind = "Mythos" /\ a.at = "AfterDraws" /\ FrameOK(a) /\ phase = "Mythos"
      /\ Runs(ed, a, World) /\ Stands(ed, a)
      /\ ed.queue \in Seq(Investigators) /\ ed.queue # <<>> /\ Increasing(ed.queue)
      /\ i \in Investigators
      BY <1>1, DrawUnderWay
<1>3. PICK surge \in BOOLEAN, revelation \in Effects :
         /\ surge => Top.n + 1 < Surges
         /\ stack' = revelation
                     \o <<Plain("EncounterCard", ""),
                          [Top EXCEPT !.at = IF surge THEN "Draws" ELSE "Over", !.n = @ + 1]>>
                     \o Beneath
      BY DEF DrawEncounterCard
<1>4. /\ status' = status /\ active' = active /\ phase' = phase /\ ending' = ending
      /\ running' = TRUE /\ taken' = IF Top.n = 0 THEN Append(taken, i) ELSE taken
      BY <1>2 DEF DrawEncounterCard
<1> DEFINE at == IF surge THEN "Draws" ELSE "Over"
           g == [Top EXCEPT !.at = at, !.n = @ + 1]
           v == World'
<1>5. World.tk = taken /\ taken \in Seq(Investigators)
      BY <1>2 DEF World, Worlds
<1>6. /\ v.st = World.st /\ v.ph = World.ph /\ v.ac = World.ac /\ v.en = World.en /\ v.en = FALSE
      /\ v.ph = "Mythos"
      /\ v.tk = IF Top.n = 0 THEN Append(World.tk, i) ELSE World.tk
      BY <1>2, <1>4 DEF World
<1>7. v \in Worlds
  <2>1. taken' \in Seq(Investigators)
        BY <1>2, <1>4, <1>5, ElemsOf
  <2> QED BY <1>2, <1>4, <2>1 DEF World, Worlds
<1>8. Elems(v.tk) = IF Top.n = 0 THEN Elems(World.tk) \cup {i} ELSE Elems(World.tk)
  <2>1. Elems(Append(World.tk, i)) = Elems(World.tk) \cup {i}
        BY <1>2, <1>5, ElemsOf
  <2> HIDE DEF v, i
  <2> QED BY <1>6, <2>1
<1>9. i \in Elems(v.tk)
      BY <1>2, <1>8 DEF Runs
<1>10. /\ g \in FrameSet /\ FrameOK(g) /\ g.kind = "PlayerDraw" /\ g.who = i /\ g.n # 0
       /\ Top \in FrameSet /\ Beneath \in Seq(FrameSet)
  <2>1. Top \in FrameSet /\ Top.n \in 0..Surges /\ Top.n < Surges /\ Top.n \in Nat /\ Top.queue \in Seq(Investigators)
        BY <1>2 DEF FrameOK, Counted, Attacking, FrameSet
  <2>2. at \in Steps("PlayerDraw") /\ "PlayerDraw" \in Kinds
        BY StepNames DEF Kinds
  <2>3. at \in Places /\ Top.n + 1 \in Nat
        BY <2>1, <2>2 DEF Places
  <2>4. /\ g \in FrameSet /\ g.kind = "PlayerDraw" /\ g.at = at /\ g.who = i /\ g.n = Top.n + 1
    <3> HIDE DEF at
    <3> QED BY <1>2, <2>1, <2>3 DEF FrameSet
  <2>5. g.n \in 0..Surges /\ g.n # 0 /\ (at = "Draws" => g.n < Surges)
    <3>1. at = "Draws" => Top.n + 1 < Surges
          BY <1>3
    <3> HIDE DEF g, at
    <3> QED BY <2>1, <2>4, <3>1, BoundAssumption
  <2> HIDE DEF g
  <2>6. Counted(g)
        BY <2>4, <2>5 DEF Counted, Attacking
  <2>7. g.at \notin {"BeforeInvestigatorAttacked", "Drawing"} /\ g.kind \notin Asked
        BY <2>4 DEF Asked
  <2>8. FrameOK(g)
        BY <1>2, <2>2, <2>4, <2>5, <2>6, <2>7 DEF FrameOK
  <2>9. Beneath \in Seq(FrameSet)
        BY <1>2 DEF Good
  <2> QED BY <2>1, <2>4, <2>5, <2>8, <2>9
<1>11. stack' = revelation \o <<Plain("EncounterCard", ""), g>> \o Beneath
       BY <1>3
<1> HIDE DEF g, ed, a, r, i, v
<1>12. Good(Beneath, v)
  <2>1. Good(r, v)
    <3>1. a.kind \in Phases /\ Head(r) = a /\ a \in FrameSet
          BY <1>2 DEF Phases, a, r, FrameOK
    <3>2. Good(Over(a, Tail(r)), v)
          BY <1>2, <1>6, <3>1, Anchored
    <3> QED BY <1>2, <3>2
  <2>2. ed.kind # "InvestigatorTurn" /\ Present(ed, v)
        BY <1>2 DEF Present, Phases
  <2>3. Runs(ed, a, v)
    <3>1. i \notin Elems(Tail(ed.queue))
          BY <1>2, IncreasingRest
    <3>2. /\ Active(v.st) \subseteq Elems(v.tk) \cup Elems(ed.queue)
          /\ Elems(Tail(ed.queue)) \cap Elems(v.tk) = {}
          BY <1>2, <1>6, <1>8, <3>1 DEF Runs
    <3> QED BY <1>2, <3>2 DEF Runs, Asked
  <2>4. Head(r) = a
        BY DEF a, r
  <2>5. Fits(ed, r, v)
        BY <1>2, <2>2, <2>3, <2>4 DEF Fits, Joined
  <2>6. ed \in FrameSet /\ r \in Seq(FrameSet)
        BY <1>2 DEF FrameOK, Good
  <2> QED BY <1>2, <2>1, <2>5, <2>6, Split
<1>13. Fits(g, Beneath, v)
  <2>1. Present(g, v) /\ Stands(g, ed)
        BY <1>2, <1>10 DEF Present, Stands, Phases
  <2>2. Runs(g, ed, v)
        BY <1>2, <1>9, <1>10 DEF Runs, Phases
  <2> QED BY <1>2, <1>10, <2>1, <2>2 DEF Fits, Joined, ed
<1>14. Good(Over(g, Beneath), v)
       BY <1>10, <1>12, <1>13, Split
<1>15. Rests(Over(g, Beneath), v)
  <2>1. Over(g, Beneath) # <<>> /\ Head(Over(g, Beneath)) = g
        BY <1>10, OverSeq
  <2>2. Holds(g) /\ g.kind \notin Phases
        BY <1>10 DEF Holds, Asked, Attacking, Phases
  <2>3. Lasts(stack, v)
        BY <1>2, <1>6 DEF Lasts
  <2>4. Lasts(Beneath, v)
    <3>1. stack \in Seq(FrameSet) /\ Head(stack).kind # "Elimination"
          BY <1>2 DEF Good, Top
    <3> QED BY <1>2, <2>3, <3>1, LastsPast DEF Beneath
  <2>5. Lasts(Over(g, Beneath), v)
        BY <1>10, <2>4, LastsPast
  <2> QED BY <1>14, <2>1, <2>2, <2>5 DEF Rests, Firm
<1>16. Rests(stack', v)
  <2> DEFINE c == Plain("EncounterCard", "")
  <2>1. LooseFrame(c) /\ c \in FrameSet
        BY LooseFrames DEF LooseFrame, FrameOK
  <2>2. Rests(Over(c, Over(g, Beneath)), v)
        BY <1>15, <2>1, PutOne
  <2>3. Pile(revelation) /\ revelation \in Seq(FrameSet)
    <3>1. Pile(revelation)
          BY <1>3, Piles
    <3>2. \A f \in FrameSet : <<f>> \in Seq(FrameSet)
          OBVIOUS
    <3> QED BY <3>1, <3>2, EmptySeq DEF Pile, LooseFrame, FrameOK
  <2> HIDE DEF c
  <2>4. revelation \o <<c, g>> \o Beneath = revelation \o Over(c, Over(g, Beneath))
    <3>1. <<c, g>> \in Seq(FrameSet)
          BY <1>10, <2>1
    <3>2. <<c, g>> \o Beneath = Over(c, Over(g, Beneath))
          BY <1>10, <2>1, OverTwo
    <3>3. revelation \o (<<c, g>> \o Beneath) = (revelation \o <<c, g>>) \o Beneath
          BY <1>10, <2>3, <3>1, OverTwo, SMTT(30)
    <3> QED BY <3>2, <3>3
  <2>5. Rests(revelation \o Over(c, Over(g, Beneath)), v)
        BY <2>2, <2>3, PutPile
  <2> QED BY <1>11, <2>4, <2>5 DEF c
<1> QED BY <1>4, <1>7, <1>16, Lands DEF v

LEMMA StepAdvanceEncounterDraw == ASSUME IndInv, AdvanceEncounterDraw PROVE IndInv'
<1>1. Drives("PlayerDraw", "Over") /\ UNCHANGED <<game, running>>
      BY DEF AdvanceEncounterDraw
<1> DEFINE ed == Head(Beneath)
           a == Head(Tail(Beneath))
           r == Tail(Beneath)
           i == Top.who
           left == SkipEliminated(Tail(ed.queue))
<1>2. /\ running = TRUE /\ World \in Worlds /\ World.en = FALSE
      /\ stack # <<>> /\ Top.kind = "PlayerDraw" /\ Top.at = "Over" /\ FrameOK(Top)
      /\ Good(stack, World) /\ Lasts(stack, World)
      /\ Beneath # <<>> /\ Good(Beneath, World)
      /\ ed.kind = "EncounterDraw" /\ i = Head(ed.queue)
      /\ Runs(Top, ed, World)
      /\ r # <<>> /\ Good(r, World)
      /\ a.kind = "Mythos" /\ a.at = "AfterDraws"
      /\ Runs(ed, a, World)
      /\ ed.queue \in Seq(Investigators) /\ ed.queue # <<>> /\ Increasing(ed.queue)
      BY <1>1, DrawUnderWay
<1>3. stack' = <<IF left = <<>> THEN FastWindow ELSE Asking("EncounterDraw", left)>> \o r
      BY DEF AdvanceEncounterDraw
<1>4. /\ Tail(ed.queue) \in Seq(Investigators) /\ Increasing(Tail(ed.queue))
      /\ Elems(ed.queue) = {i} \cup Elems(Tail(ed.queue))
      BY <1>2, ElemsOf, IncreasingRest
<1>5. status = World.st /\ status \in [Investigators -> {"Active", "Eliminated"}]
      BY <1>2 DEF World, Worlds
<1>6. /\ left \in Seq(Investigators) /\ Increasing(left)
      /\ Elems(left) \subseteq Elems(Tail(ed.queue))
      /\ Elems(Tail(ed.queue)) \cap Active(status) \subseteq Elems(left)
      /\ left # <<>> => Head(left) \in Active(status)
      BY <1>4, <1>5, Skipping
<1>7. i \in Elems(World.tk)
  <2>1. Top.n # 0
        BY <1>2 DEF FrameOK
  <2> QED BY <1>2, <2>1 DEF Runs
<1>8. /\ Active(World.st) \subseteq Elems(World.tk) \cup Elems(ed.queue)
      /\ Elems(Tail(ed.queue)) \cap Elems(World.tk) = {}
      BY <1>2 DEF Runs
<1>9. Active(World.st) \subseteq Elems(World.tk) \cup Elems(left)
      BY <1>4, <1>5, <1>6, <1>7, <1>8
<1>10. r \in Seq(FrameSet) /\ Lasts(r, World)
  <2>1. stack \in Seq(FrameSet) /\ Beneath \in Seq(FrameSet) /\ r \in Seq(FrameSet)
        BY <1>2 DEF Good
  <2>2. Lasts(Beneath, World)
        BY <1>2, <2>1, LastsPast DEF Top, Beneath
  <2>3. Lasts(r, World)
        BY <1>2, <2>1, <2>2, LastsPast
  <2> QED BY <2>1, <2>3
<1> HIDE DEF left, ed, r
<1>11. Head(r) = a
       BY DEF r
<1> HIDE DEF a
<1>12. CASE left = <<>>
  <2>1. Elems(left) = {}
        BY <1>12, EmptySeq, ElemsOf
  <2>2. Done(World)
        BY <1>9, <2>1 DEF Done
  <2>3. Idle(a, World) /\ Holds(a)
        BY <1>2, <2>2 DEF Idle, Holds, Asked, Attacking
  <2>4. Rests(r, World)
        BY <1>2, <1>10, <1>11, <2>3 DEF Rests, Firm
  <2>5. stack' = <<FastWindow>> \o r
        BY <1>3, <1>12
  <2>6. Rests(stack', World)
        BY <2>4, <2>5, LooseFrames, PutOne
  <2> QED BY <1>1, <1>2, <2>6, SameWorld, Lands
<1>13. CASE left # <<>>
  <2> DEFINE f == Asking("EncounterDraw", left)
  <2>1. FrameOK(f) /\ f.kind = "EncounterDraw" /\ f.queue = left
        BY <1>6, <1>13, MakeAsked DEF Asked
  <2>2. stack' = Over(f, r)
        BY <1>3, <1>13 DEF Over
  <2> HIDE DEF f
  <2>3. Present(f, World) /\ Stands(f, a)
    <3>1. Holds(a)
          BY <1>2 DEF Holds, Asked, Attacking
    <3> QED BY <1>2, <2>1, <3>1 DEF Present, Stands, Phases
  <2>4. /\ Elems(left) = {Head(left)} \cup Elems(Tail(left))
        BY <1>6, <1>13, ElemsOf
  <2>5. Runs(f, a, World)
    <3>1. Elems(Tail(left)) \cap Elems(World.tk) = {}
          BY <1>6, <1>8, <2>4
    <3> QED BY <1>6, <1>9, <2>1, <3>1 DEF Runs, Asked
  <2>6. OnTop(f, World)
    <3>1. Head(left) \in Active(World.st) \ Elems(World.tk)
          BY <1>5, <1>6, <1>8, <1>13, <2>4
    <3> QED BY <2>1, <3>1 DEF OnTop, Phases, Attacking
  <2>7. Sound(stack', World)
        BY <1>2, <1>10, <1>11, <2>1, <2>2, <2>3, <2>5, <2>6, PutAsked
  <2> QED BY <1>1, <1>2, <2>7, SameWorld, LandsOn
<1> QED BY <1>12, <1>13

------------------------------------------------------------------------------
(* Investigation. *)

\* The anchor of a game that goes on is alone on the stack.
LEMMA Alone ==
    ASSUME NEW w, w.en = FALSE, NEW a, FrameOK(a), a.kind \in Phases, a.kind = w.ph
    PROVE  /\ Good(Over(a, <<>>), w) /\ Over(a, <<>>) # <<>> /\ a \in FrameSet
           /\ Head(Over(a, <<>>)) = a /\ <<>> \in Seq(FrameSet)
           /\ Idle(a, w) => Firm(Over(a, <<>>), w)
           /\ Active(w.st) # {} /\ Idle(a, w) => Rests(Over(a, <<>>), w)
           /\ Active(w.st) # {} => Lasts(Over(a, <<>>), w)
<1>1. <<>> \in Seq(FrameSet) /\ a \in FrameSet /\ Len(<<>>) = 0
      BY EmptySeq DEF FrameOK
<1>2. Good(<<>>, w)
      BY <1>1 DEF Good
<1>3. Present(a, w) /\ AtBottom(a, w)
      BY DEF Present, AtBottom, Phases
<1>4. Good(Over(a, <<>>), w)
      BY <1>1, <1>2, <1>3, Split DEF Fits
<1>5. Over(a, <<>>) # <<>> /\ Head(Over(a, <<>>)) = a
  <2>1. \A s \in Seq(FrameSet) : Over(a, s) # <<>> /\ Head(Over(a, s)) = a
        BY <1>1, OverSeq
  <2> QED BY <1>1, <2>1
<1>6. Holds(a)
      BY DEF Holds, Phases, Asked, Attacking
<1>7. Idle(a, w) => Firm(Over(a, <<>>), w)
      BY <1>4, <1>5, <1>6 DEF Firm
<1>8. Active(w.st) # {} => Lasts(Over(a, <<>>), w)
      BY DEF Lasts
<1> QED BY <1>1, <1>4, <1>5, <1>7, <1>8 DEF Rests

\* A frame that stands on the anchor of a game that goes on.
LEMMA OverAnchor ==
    ASSUME NEW s, NEW w, Good(s, w), Lasts(s, w), w.en = FALSE, s # <<>>,
           Head(s).kind \in {"TurnChoice", "EncounterDraw", "HandSizeDiscard", "InvestigatorTurn",
                             "AttackLoop"}
    PROVE  LET a == Head(Tail(s)) IN
           /\ Tail(s) # <<>> /\ Good(Tail(s), w) /\ Tail(s) = Over(a, <<>>) /\ Tail(Tail(s)) = <<>>
           /\ a.kind \in Phases /\ a.kind = w.ph /\ FrameOK(a)
           /\ Stands(Head(s), a) /\ Runs(Head(s), a, w) /\ Active(w.st) # {}
<1> DEFINE f == Head(s)
           r == Tail(s)
           a == Head(r)
<1>1. /\ f \in FrameSet /\ r \in Seq(FrameSet) /\ s = Over(f, r)
      /\ Fits(f, r, w) /\ Good(r, w)
      BY Taken
<1>2. r # <<>>
      BY <1>1 DEF Fits, AtBottom, Phases
<1>3. Stands(f, a) /\ Runs(f, a, w)
      BY <1>1, <1>2 DEF Fits, Joined
<1>4. a.kind \in Phases
      BY <1>3 DEF Stands, Phases
<1>5. FrameOK(a) /\ Present(a, w) /\ r = Over(a, Tail(r)) /\ a \in FrameSet
      BY <1>1, <1>2, Taken
<1>6. Tail(r) = <<>>
      BY <1>1, <1>2, <1>4, Ground
<1>7. a.kind = w.ph
      BY <1>4, <1>5 DEF Present
<1>8. Active(w.st) # {}
  <2>1. <<>> \in Seq(FrameSet) /\ ~HasElimination(<<>>)
        BY EmptySeq DEF HasElimination
  <2>2. a.kind # "Elimination" /\ f.kind # "Elimination"
        BY <1>4 DEF Phases
  <2>3. ~HasElimination(r)
        BY <1>5, <1>6, <2>1, <2>2, Eliminating
  <2>4. ~HasElimination(s)
        BY <1>1, <2>2, <2>3, Eliminating
  <2> QED BY <2>4 DEF Lasts
<1> QED BY <1>1, <1>2, <1>3, <1>4, <1>5, <1>6, <1>7, <1>8

\* An investigator's turn begins.
LEMMA TurnBegun ==
    ASSUME World \in Worlds, ending = FALSE, phase = "Investigation", Active(status) # {},
           NEW a, FrameOK(a), a.kind = "Investigation", Elems(taken) = Elems(a.queue),
           NEW i \in Investigators, BeginInvestigatorTurn(i, a, <<>>),
           UNCHANGED <<status, phase, ending>>, running' = TRUE
    PROVE  IndInv'
<1> DEFINE g == At(a, "AfterTurnBegan")
           v == World'
<1>1. FrameOK(g) /\ g.kind = "Investigation" /\ g.at = "AfterTurnBegan" /\ g.queue = a.queue
  <2>1. "AfterTurnBegan" \in Steps("Investigation")
        BY StepNames
  <2> QED BY <2>1, AtOK
<1>2. active' = i /\ taken' = Append(taken, i) /\ stack' = <<Emit, g>> \o <<>>
      BY DEF BeginInvestigatorTurn
<1> HIDE DEF g
<1>3. taken \in Seq(Investigators) /\ taken' \in Seq(Investigators)
      /\ Elems(taken') = Elems(taken) \cup {i}
  <2>1. taken \in Seq(Investigators)
        BY DEF World, Worlds
  <2> QED BY <1>2, <2>1, ElemsOf
<1>4. v \in Worlds
      BY <1>2, <1>3 DEF World, Worlds
<1>5. v.en = FALSE /\ v.ph = "Investigation" /\ v.st = status /\ v.ac = i /\ v.tk = taken'
      BY <1>2 DEF World
<1> HIDE DEF v
<1>6. Idle(g, v)
      BY <1>1, <1>3, <1>5 DEF Idle
<1>7. Rests(Over(g, <<>>), v) /\ g \in FrameSet /\ <<>> \in Seq(FrameSet)
      BY <1>1, <1>5, <1>6, Alone DEF Phases
<1>8. Rests(stack', v)
      BY <1>2, <1>7, PutUpon, LooseFrames
<1> QED BY <1>4, <1>8, Lands DEF v

\* Whose turn is next: nobody's, that of the only one left, or a choice.
LEMMA NextTurn ==
    ASSUME World \in Worlds, ending = FALSE, phase = "Investigation", Active(status) # {},
           NEW a, FrameOK(a), a.kind = "Investigation", a.at \in {"Begins", "TurnBegins"},
           Elems(taken) = Elems(a.queue), NextInvestigatorTurn(a, <<>>),
           UNCHANGED <<status, phase, ending>>, running' = TRUE
    PROVE  IndInv'
<1> DEFINE waiting == Waiting(a)
           v == World'
<1>1. Players \in Seq(Investigators) /\ Increasing(Players) /\ Elems(Players) = Active(status)
      BY PlayersAre DEF World, Worlds, Players
<1>2. /\ waiting \in Seq(Investigators)
      /\ Elems(waiting) = Active(status) \cap (Investigators \ Elems(a.queue))
      BY <1>1, AmongIncreasing DEF Waiting
<1>3. Players # <<>>
      BY <1>1, ElemsOf
<1>4. taken \in Seq(Investigators) /\ Active(status) \subseteq Investigators
      BY DEF World, Worlds, Active
<1>5. \/ Len(waiting) = 0 /\ active' = None /\ taken' = taken /\ stack' = Ended(a, <<>>)
      \/ Len(waiting) = 1 /\ BeginInvestigatorTurn(waiting[1], a, <<>>)
      \/ /\ Len(waiting) > 1 /\ active' = None /\ taken' = taken
         /\ stack' = <<Asking("TurnChoice", waiting), a>> \o <<>>
      BY <1>3 DEF NextInvestigatorTurn
<1> HIDE DEF waiting
<1>6. ASSUME active' = None, taken' = taken
      PROVE  /\ v \in Worlds /\ v.en = FALSE /\ v.ph = "Investigation" /\ v.st = status
             /\ v.tk = taken
  <2>1. v \in Worlds
        BY <1>6 DEF World, Worlds
  <2> QED BY <1>6, <2>1 DEF World
<1> HIDE DEF v
<1>7. CASE Len(waiting) = 0 /\ active' = None /\ taken' = taken /\ stack' = Ended(a, <<>>)
  <2> DEFINE g == At(a, "AfterPhaseEndForced")
  <2>1. FrameOK(g) /\ g.kind = "Investigation" /\ g.at = "AfterPhaseEndForced"
    <3>1. "AfterPhaseEndForced" \in Steps("Investigation")
          BY StepNames DEF PhaseSteps
    <3> QED BY <3>1, AtOK
  <2>2. stack' = <<Emit, g>> \o <<>>
        BY <1>7 DEF Ended
  <2> HIDE DEF g
  <2>3. Elems(waiting) = {}
        BY <1>2, <1>7, ElemsOf
  <2>4. Done(v)
        BY <1>2, <1>4, <1>6, <1>7, <2>3 DEF Done
  <2>5. Idle(g, v)
        BY <2>1, <2>4 DEF Idle
  <2>6. Rests(Over(g, <<>>), v) /\ g \in FrameSet /\ <<>> \in Seq(FrameSet)
        BY <1>6, <1>7, <2>1, <2>5, Alone DEF Phases
  <2>7. Rests(stack', v)
        BY <2>2, <2>6, PutUpon, LooseFrames
  <2> QED BY <1>6, <1>7, <2>7, Lands DEF v
<1>8. CASE Len(waiting) = 1 /\ BeginInvestigatorTurn(waiting[1], a, <<>>)
  <2>1. waiting[1] \in Elems(waiting)
        BY <1>2, <1>8, OneWaiting
  <2>2. waiting[1] \in Investigators
        BY <1>2, <2>1
  <2> QED BY <1>8, <2>2, TurnBegun
<1>9. CASE /\ Len(waiting) > 1 /\ active' = None /\ taken' = taken
           /\ stack' = <<Asking("TurnChoice", waiting), a>> \o <<>>
  <2> DEFINE f == Asking("TurnChoice", waiting)
  <2>1. waiting # <<>>
        BY <1>2, <1>9, ElemsOf
  <2>2. FrameOK(f) /\ f.kind = "TurnChoice" /\ f.queue = waiting /\ f \in FrameSet
        BY <1>2, <2>1, MakeAsked DEF Asked, FrameOK
  <2>3. stack' = <<f, a>> \o <<>>
        BY <1>9
  <2> HIDE DEF f
  <2>4. /\ Good(Over(a, <<>>), v) /\ Over(a, <<>>) # <<>> /\ a \in FrameSet
        /\ Head(Over(a, <<>>)) = a /\ <<>> \in Seq(FrameSet) /\ Lasts(Over(a, <<>>), v)
        BY <1>6, <1>9, Alone DEF Phases
  <2>5. stack' = Over(f, Over(a, <<>>))
    <3>1. \A s \in Seq(FrameSet) : <<f, a>> \o s = Over(f, Over(a, s))
          BY <2>2, <2>4, OverTwo
    <3> QED BY <2>3, <2>4, <3>1
  <2>6. Present(f, v) /\ Stands(f, a)
    <3>1. Holds(a)
          BY DEF Holds, Asked, Attacking
    <3> QED BY <2>2, <3>1 DEF Present, Stands, Phases
  <2>7. Runs(f, a, v) /\ OnTop(f, v)
    <3>1. Runs(f, a, v)
          BY <1>2, <1>6, <1>9, <2>2 DEF Runs, Asked
    <3>2. OnTop(f, v)
          BY <2>2 DEF OnTop, Phases, Attacking
    <3> QED BY <3>1, <3>2
  <2>8. Sound(stack', v)
        BY <2>2, <2>4, <2>5, <2>6, <2>7, PutAsked
  <2> QED BY <1>6, <1>9, <2>8, LandsOn DEF v
<1> QED BY <1>5, <1>7, <1>8, <1>9

LEMMA StepInvestigationBegins == ASSUME IndInv, InvestigationBegins PROVE IndInv'
<1>1. Drives("Investigation", "Begins") /\ "Investigation" \in Phases
      BY DEF InvestigationBegins, Phases
<1>2. /\ stack # <<>> /\ Top.kind = "Investigation" /\ Top.at = "Begins"
      /\ phase = "Investigation" /\ ending = FALSE /\ World \in Worlds /\ Idle(Top, World)
      /\ FrameOK(Top) /\ Beneath = <<>> /\ Active(status) # {}
      BY <1>1, AnchorDriving
<1>3. Elems(taken) = Elems(Top.queue)
      BY <1>2 DEF Idle, World
<1>4. Players # <<>>
  <2>1. Players \in Seq(Investigators) /\ Elems(Players) = Active(status)
        BY <1>2, PlayersAre DEF World, Worlds, Players
  <2> QED BY <1>2, <2>1, ElemsOf
<1>5. /\ NextInvestigatorTurn(Top, <<>>) /\ UNCHANGED <<status, phase, ending>> /\ running' = TRUE
      BY <1>2, <1>4 DEF InvestigationBegins
<1> QED BY <1>2, <1>3, <1>5, NextTurn

LEMMA StepResumeTurnChoice == ASSUME IndInv, ResumeTurnChoice PROVE IndInv'
<1>1. Answers("TurnChoice") /\ UNCHANGED <<status, phase, ending>>
      BY DEF ResumeTurnChoice
<1>2. /\ running' = TRUE /\ Sound(stack, World) /\ World \in Worlds
      /\ stack # <<>> /\ Top.kind = "TurnChoice" /\ FrameOK(Top)
      /\ ~(ending /\ CancelledByScenarioEnd(Top))
      BY <1>1, Answering
<1>3. ending = FALSE /\ World.en = FALSE
      BY <1>2, StillOn DEF Asked
<1>4. Good(stack, World) /\ Lasts(stack, World)
      BY <1>2 DEF Sound
<1> DEFINE a == Head(Beneath)
<1>5. /\ Tail(Beneath) = <<>> /\ a.kind \in Phases /\ a.kind = World.ph /\ FrameOK(a)
      /\ Stands(Top, a) /\ Runs(Top, a, World) /\ Active(World.st) # {}
      BY <1>2, <1>3, <1>4, OverAnchor DEF Top, Beneath
<1>6. a.kind = "Investigation" /\ phase = "Investigation" /\ Active(status) # {}
      BY <1>2, <1>5 DEF Stands, World
<1>7. Elems(taken) = Elems(a.queue) /\ Elems(Top.queue) \subseteq Active(status)
      BY <1>2, <1>5 DEF Runs, World
<1>8. PICK i \in Elems(Top.queue) : BeginInvestigatorTurn(i, a, <<>>)
      BY <1>5 DEF ResumeTurnChoice
<1>9. i \in Investigators
      BY <1>7 DEF Active
<1> QED BY <1>1, <1>2, <1>3, <1>5, <1>6, <1>7, <1>8, <1>9, TurnBegun

LEMMA StepOpenTurn == ASSUME IndInv, OpenTurn PROVE IndInv'
<1>1. Drives("Investigation", "TurnBegins") /\ UNCHANGED <<game, running>>
      /\ "Investigation" \in Phases
      BY DEF OpenTurn, Phases
<1>2. /\ running = TRUE /\ stack # <<>> /\ Top.kind = "Investigation" /\ Top.at = "TurnBegins"
      /\ World.en = FALSE /\ World \in Worlds /\ Idle(Top, World) /\ FrameOK(Top)
      /\ Good(stack, World) /\ Lasts(stack, World)
      BY <1>1, AnchorDriving
<1>3. active \in Investigators /\ World.ac = active
      BY <1>2 DEF Idle, World
<1> DEFINE f == Of("InvestigatorTurn", "Open", active)
<1>4. /\ f.kind = "InvestigatorTurn" /\ f.at = "Open" /\ f.who = active /\ f.queue = <<>> /\ f.n = 0
      BY DEF Of, Frame
<1>5. FrameOK(f)
  <2>1. "InvestigatorTurn" \in Kinds /\ "Open" \in Steps("InvestigatorTurn")
        BY StepNames DEF Kinds
  <2>2. f \in FrameSet
        BY <1>3, <2>1, EmptySeq DEF Of, Frame, FrameSet, Places
  <2> HIDE DEF f
  <2>3. Counted(f)
        BY <1>4 DEF Counted, Attacking
  <2> QED BY <1>3, <1>4, <2>1, <2>2, <2>3 DEF FrameOK, Asked
<1>6. stack' = Over(f, stack)
      BY DEF OpenTurn, Over
<1> HIDE DEF f
<1>7. Present(f, World) /\ Stands(f, Top)
  <2>1. Holds(Top)
        BY <1>2 DEF Holds, Asked, Attacking
  <2> QED BY <1>2, <1>3, <1>4, <2>1 DEF Present, Stands, Phases
<1>8. Runs(f, Top, World) /\ OnTop(f, World)
  <2>1. Runs(f, Top, World)
        BY <1>2, <1>4 DEF Runs
  <2>2. OnTop(f, World)
        BY <1>4 DEF OnTop, Phases, Attacking
  <2> QED BY <2>1, <2>2
<1>9. Sound(stack', World)
      BY <1>2, <1>5, <1>6, <1>7, <1>8, PutAsked DEF Top
<1> QED BY <1>1, <1>2, <1>9, SameWorld, LandsOn

\* The open turn, at another of its steps or owing its player window.
LEMMA TurnSwap ==
    ASSUME NEW s, NEW w, Sound(s, w), s # <<>>, Head(s).kind = "InvestigatorTurn",
           NEW g \in {At(Head(s), "Ending"), [Head(s) EXCEPT !.n = 0], [Head(s) EXCEPT !.n = 1]}
    PROVE  /\ Rests(Over(g, Tail(s)), w) /\ g \in FrameSet /\ Tail(s) \in Seq(FrameSet)
           /\ g.kind = "InvestigatorTurn" /\ g.who = Head(s).who
<1> DEFINE f == Head(s)
<1>1. FrameOK(f) /\ f \in FrameSet /\ f.kind = "InvestigatorTurn" /\ Tail(s) \in Seq(FrameSet)
      BY Taken DEF Sound, FrameOK
<1>2. "Ending" \in Steps("InvestigatorTurn") /\ "Ending" \in Places /\ f.n \in 0..1
  <2>1. "Ending" \in Steps("InvestigatorTurn") /\ "InvestigatorTurn" \in Kinds
        BY StepNames DEF Kinds
  <2> HIDE DEF f
  <2>2. f.n \in 0..1
        BY <1>1 DEF FrameOK, Counted, Attacking
  <2> QED BY <2>1, <2>2 DEF Places
<1>3. f.at \in Steps("InvestigatorTurn") /\ f.who \in Investigators
      BY <1>1 DEF FrameOK
<1>4. /\ g \in FrameSet /\ g.kind = f.kind /\ g.who = f.who /\ g.queue = f.queue
      /\ g.n \in 0..1 /\ g.at \in Steps("InvestigatorTurn")
  <2> HIDE DEF f
  <2>1. g \in {At(f, "Ending"), [f EXCEPT !.n = 0], [f EXCEPT !.n = 1]}
        BY DEF f
  <2>2. CASE g = At(f, "Ending")
        BY <1>1, <1>2, <2>2 DEF At, FrameSet
  <2>3. ASSUME NEW n \in {0, 1}, g = [f EXCEPT !.n = n]
        PROVE  /\ g \in FrameSet /\ g.kind = f.kind /\ g.who = f.who /\ g.queue = f.queue
               /\ g.n \in 0..1 /\ g.at \in Steps("InvestigatorTurn")
    <3>1. f \in FrameSet /\ n \in Nat
          BY <1>1
    <3>2. /\ g \in FrameSet /\ g.kind = f.kind /\ g.who = f.who /\ g.queue = f.queue
          /\ g.n = n /\ g.at = f.at
          BY <2>3, <3>1 DEF FrameSet
    <3>3. g.n \in 0..1
          BY <3>2
    <3> QED BY <1>3, <3>2, <3>3
  <2>4. 0 \in {0, 1} /\ 1 \in {0, 1}
        OBVIOUS
  <2> QED BY <2>1, <2>2, <2>3, <2>4
<1> HIDE DEF f
<1>5. Counted(g)
      BY <1>1, <1>4 DEF Counted, Attacking
<1>6. g.at \notin {"BeforeInvestigatorAttacked", "Drawing"} /\ g.kind \notin Asked \cup Phases
      BY <1>1, <1>4, StepNames DEF Asked, Phases
<1>7. FrameOK(g)
      BY <1>1, <1>3, <1>4, <1>5, <1>6 DEF FrameOK
<1>8. Holds(g)
      BY <1>1, <1>4 DEF Holds, Asked, Attacking
<1>9. Rests(Over(g, Tail(s)), w)
      BY <1>1, <1>4, <1>6, <1>7, <1>8, SwapOne DEF f
<1> QED BY <1>1, <1>4, <1>9 DEF f

LEMMA StepEndTurn == ASSUME IndInv, EndTurn PROVE IndInv'
<1>1. Answers("InvestigatorTurn") /\ UNCHANGED game /\ stack' = <<Emit, At(Top, "Ending")>> \o Beneath
      BY DEF EndTurn
<1>2. /\ running' = TRUE /\ Sound(stack, World) /\ World \in Worlds
      /\ stack # <<>> /\ Top.kind = "InvestigatorTurn"
      BY <1>1, Answering
<1>3. /\ Rests(Over(At(Top, "Ending"), Beneath), World) /\ At(Top, "Ending") \in FrameSet
      /\ Beneath \in Seq(FrameSet)
      BY <1>2, TurnSwap DEF Top, Beneath
<1>4. Rests(stack', World)
      BY <1>1, <1>3, PutUpon, LooseFrames
<1> QED BY <1>1, <1>2, <1>4, SameWorld, Lands

LEMMA StepTakeAction == ASSUME IndInv, TakeAction PROVE IndInv'
<1>1. Answers("InvestigatorTurn") /\ UNCHANGED game
      BY DEF TakeAction
<1>2. /\ running' = TRUE /\ Sound(stack, World) /\ World \in Worlds
      /\ stack # <<>> /\ Top.kind = "InvestigatorTurn"
      BY <1>1, Answering
<1>3. PICK effect \in Effects : stack' = effect \o <<PlayerWindowOwed(Top)>> \o Beneath
      BY DEF TakeAction
<1>4. /\ Rests(Over(PlayerWindowOwed(Top), Beneath), World) /\ PlayerWindowOwed(Top) \in FrameSet
      /\ Beneath \in Seq(FrameSet)
      BY <1>2, TurnSwap DEF Top, Beneath, PlayerWindowOwed
<1>5. Rests(stack', World)
      BY <1>3, <1>4, PutUpon, Piles
<1> QED BY <1>1, <1>2, <1>5, SameWorld, Lands

LEMMA StepPlayAtOpenTurn == ASSUME IndInv, PlayAtOpenTurn PROVE IndInv'
<1>1. Answers("InvestigatorTurn") /\ UNCHANGED game
      BY DEF PlayAtOpenTurn
<1>2. /\ running' = TRUE /\ Sound(stack, World) /\ World \in Worlds
      /\ stack # <<>> /\ Top.kind = "InvestigatorTurn"
      BY <1>1, Answering
<1>3. PICK effect \in Effects : stack' = effect \o stack
      BY DEF PlayAtOpenTurn
<1>4. Holds(Top) /\ Top.kind \notin Phases
      BY <1>2 DEF Holds, Asked, Attacking, Phases
<1>5. Rests(stack', World)
      BY <1>2, <1>3, <1>4, TopRests, PutPile, Piles DEF Top
<1> QED BY <1>1, <1>2, <1>5, SameWorld, Lands

LEMMA StepDriveOpenTurn == ASSUME IndInv, DriveOpenTurn PROVE IndInv'
<1>1. PICK at \in {"Open", "Ending"} : Drives("InvestigatorTurn", at)
      BY DEF DriveOpenTurn
<1>2. /\ running = TRUE /\ Sound(stack, World) /\ World \in Worlds
      /\ stack # <<>> /\ Top.kind = "InvestigatorTurn"
      /\ ~(ending /\ CancelledByScenarioEnd(Top))
      BY <1>1, Driving
<1>3. CASE ReopenPlayerWindow
  <2>1. stack' = <<FastWindow, [Top EXCEPT !.n = 0]>> \o Beneath /\ UNCHANGED game /\ running' = TRUE
        BY <1>2, <1>3 DEF ReopenPlayerWindow
  <2>2. /\ Rests(Over([Top EXCEPT !.n = 0], Beneath), World) /\ [Top EXCEPT !.n = 0] \in FrameSet
        /\ Beneath \in Seq(FrameSet)
        BY <1>2, TurnSwap DEF Top, Beneath
  <2>3. Rests(stack', World)
        BY <2>1, <2>2, PutUpon, LooseFrames
  <2> QED BY <1>2, <2>1, <2>3, SameWorld, Lands
<1>4. CASE ResumeEndTurn
  <2>1. ending = FALSE /\ World.en = FALSE
        BY <1>2, StillOn
  <2>2. Good(stack, World) /\ Lasts(stack, World) /\ Present(Top, World) /\ FrameOK(Top)
        BY <1>2, Taken DEF Sound, Top
  <2> DEFINE h == Head(Beneath)
             a == [h EXCEPT !.queue = Append(@, Top.who)]
  <2>3. /\ Tail(Beneath) = <<>> /\ h.kind \in Phases /\ h.kind = World.ph /\ FrameOK(h)
        /\ Stands(Top, h) /\ Runs(Top, h, World) /\ Active(World.st) # {}
        BY <1>2, <2>1, <2>2, OverAnchor DEF Top, Beneath
  <2>4. h.kind = "Investigation" /\ h.at = "TurnBegins" /\ phase = "Investigation"
        /\ Active(status) # {}
        BY <1>2, <2>3 DEF Stands, World
  <2>5. Idle(h, World)
        BY <1>2, <2>1, <2>3 DEF Runs, Asked
  <2>6. Elems(taken) = Elems(h.queue) \cup {Top.who} /\ Top.who \in Investigators
        BY <1>2, <2>2, <2>4, <2>5 DEF Idle, World, Present, FrameOK
  <2>7. /\ h \in FrameSet /\ h.queue \in Seq(Investigators)
        /\ Append(h.queue, Top.who) \in Seq(Investigators)
        /\ Elems(Append(h.queue, Top.who)) = Elems(h.queue) \cup {Top.who}
    <3>1. h \in FrameSet /\ h.queue \in Seq(Investigators)
          BY <2>3 DEF FrameOK, FrameSet
    <3> QED BY <2>6, <3>1, ElemsOf
  <2>8. /\ a \in FrameSet /\ a.kind = h.kind /\ a.at = h.at /\ a.who = h.who
        /\ a.queue = Append(h.queue, Top.who) /\ a.n = h.n
    <3> HIDE DEF h
    <3> QED BY <2>7 DEF FrameSet
  <2>9. NextInvestigatorTurn(a, <<>>) /\ UNCHANGED <<status, phase, ending>> /\ running' = TRUE
        BY <1>2, <1>4, <2>3 DEF ResumeEndTurn
  <2> HIDE DEF a, h
  <2>10. FrameOK(a)
    <3>1. Counted(a)
          BY <2>3, <2>8 DEF FrameOK, Counted
    <3>2. a.kind \notin Asked
          BY <2>4, <2>8 DEF Asked
    <3> QED BY <2>3, <2>8, <3>1, <3>2 DEF FrameOK
  <2> QED BY <1>2, <2>1, <2>4, <2>6, <2>7, <2>8, <2>9, <2>10, NextTurn
<1> QED BY <1>3, <1>4 DEF DriveOpenTurn

------------------------------------------------------------------------------
(* Attacks. *)

\* A frame that holds what is put on it, put on a stack.
LEMMA PutHolding ==
    ASSUME NEW s, NEW w, Good(s, w), Lasts(s, w), s # <<>>,
           NEW f, FrameOK(f), Present(f, w), Stands(f, Head(s)), ~w.en => Runs(f, Head(s), w),
           Holds(f), f.kind \notin Phases
    PROVE  Rests(Over(f, s), w) /\ f \in FrameSet /\ s \in Seq(FrameSet)
<1>1. s \in Seq(FrameSet) /\ f \in FrameSet
      BY DEF Good, FrameOK
<1>2. Good(Over(f, s), w)
      BY <1>1, Split DEF Fits, Joined
<1>3. Over(f, s) # <<>> /\ Head(Over(f, s)) = f
      BY <1>1, OverSeq
<1> QED BY <1>1, <1>2, <1>3, LastsPast DEF Rests, Firm

\* What a frame of attacks on i stands on.
Attacked(kind, i, g, w) ==
    IF kind = "AttackLoop"
    THEN g.kind = "Enemy" /\ g.who = i /\ g.at = "BeforeInvestigatorAttacked" /\ UpTo(i, w)
    ELSE g.kind = "ActionResolution"

LEMMA AttackFrame ==
    ASSUME NEW kind \in Attacking, NEW i \in Investigators, NEW n \in 1..Attackers,
           NEW at \in {"PickOrder", "Attacking"}, NEW w
    PROVE  LET f == Frame(kind, at, i, <<>>, n) IN
           /\ FrameOK(f) /\ f \in FrameSet /\ f.kind = kind /\ f.at = at /\ f.who = i
           /\ Present(f, w) /\ (at = "Attacking" => Holds(f)) /\ f.kind \notin Phases \cup Asked
           /\ \A g : Attacked(kind, i, g, w) => Stands(f, g) /\ Runs(f, g, w)
           /\ i \in Active(w.st) => OnTop(f, w)
<1> DEFINE f == Frame(kind, at, i, <<>>, n)
<1>1. f.kind = kind /\ f.at = at /\ f.who = i /\ f.queue = <<>> /\ f.n = n
      BY DEF Frame
<1>2. kind \in Kinds /\ at \in Steps(kind) /\ n \in Nat
  <2>1. kind \in Kinds
        BY DEF Kinds, Attacking
  <2>2. at \in Steps(kind)
        BY StepNames
  <2> QED BY <2>1, <2>2, BoundAssumption
<1>3. f \in FrameSet
      BY <1>2, EmptySeq DEF Frame, FrameSet, Places
<1> HIDE DEF f
<1>4. kind \notin Phases \cup Asked \cup {"InvestigatorTurn", "PlayerDraw", "ActionResolution", "ScenarioEnd"}
      BY DEF Attacking, Phases, Asked
<1>5. Counted(f)
      BY <1>1, <1>4 DEF Counted, Attacking
<1>6. FrameOK(f)
      BY <1>1, <1>2, <1>3, <1>4, <1>5 DEF FrameOK
<1>7. Present(f, w)
      BY <1>1, <1>4 DEF Present, Asked
<1>8. at = "Attacking" => Holds(f)
      BY <1>1, <1>4 DEF Holds
<1>9. ASSUME NEW g, Attacked(kind, i, g, w) PROVE Stands(f, g) /\ Runs(f, g, w)
  <2>1. CASE kind = "AttackLoop"
    <3>1. /\ g.kind = "Enemy" /\ g.who = i /\ g.at = "BeforeInvestigatorAttacked" /\ UpTo(i, w)
          BY <1>9, <2>1 DEF Attacked
    <3>2. Holds(g)
          BY <3>1 DEF Holds, Asked, Attacking
    <3>3. Stands(f, g)
          BY <1>1, <2>1, <3>1, <3>2 DEF Stands, Phases
    <3>4. Runs(f, g, w)
          BY <1>1, <2>1, <3>1 DEF Runs
    <3> QED BY <3>3, <3>4
  <2>2. CASE kind = "OpportunityAttacks"
    <3>1. g.kind = "ActionResolution"
          BY <1>9, <2>2 DEF Attacked
    <3>2. Holds(g)
          BY <3>1 DEF Holds, Asked, Attacking
    <3>3. Stands(f, g)
          BY <1>1, <2>2, <3>1, <3>2 DEF Stands, Phases
    <3>4. Runs(f, g, w)
          BY <1>1, <2>2, <3>1 DEF Runs, Phases
    <3> QED BY <3>3, <3>4
  <2> QED BY <2>1, <2>2 DEF Attacking
<1>10. i \in Active(w.st) => OnTop(f, w)
       BY <1>1, <1>4 DEF OnTop, Asked
<1> QED BY <1>1, <1>3, <1>4, <1>6, <1>7, <1>8, <1>9, <1>10 DEF f

\* The anchor of the attacks goes on to one investigator, or past the last.
LEMMA AttackWindowRests ==
    ASSUME NEW w \in Worlds, w.en = FALSE, w.ph = "Enemy", Active(w.st) # {},
           NEW i, IF i = None THEN Done(w) ELSE i \in Investigators /\ Before(i, w),
           NEW s, Tail(s) = <<>>
    PROVE  Rests(AttackWindow(i, s), w)
<1> DEFINE at == IF i = None THEN "AfterAllAttacked" ELSE "BeforeInvestigatorAttacked"
           a == Of("Enemy", at, i)
<1>1. a = Frame("Enemy", at, i, <<>>, 0)
      BY DEF Of
<1>2. /\ at \in Steps("Enemy") /\ "Enemy" \in Phases /\ i \in Investigators \cup {None}
      /\ (at \in {"BeforeInvestigatorAttacked", "Drawing"} => i \in Investigators)
      BY StepNames DEF Phases
<1>3. 0 \in IF "Enemy" = "Enemy" THEN 0..Hunters ELSE {0}
      BY BoundAssumption
<1>4. <<>> \in Seq(Investigators)
      BY EmptySeq
<1> HIDE DEF at
<1>5. FrameOK(Frame("Enemy", at, i, <<>>, 0))
      BY <1>2, <1>3, <1>4, MakeAnchor
<1>6. a.kind = "Enemy" /\ a.at = at /\ a.who = i
      BY DEF Of, Frame
<1>7. FrameOK(a)
      BY <1>1, <1>5
<1>8. AttackWindow(i, s) = <<FastWindow, a>> \o <<>>
      BY DEF AttackWindow, at
<1> HIDE DEF a
<1>9. Idle(a, w)
      BY <1>6 DEF Idle, at
<1>10. Rests(Over(a, <<>>), w) /\ a \in FrameSet /\ <<>> \in Seq(FrameSet)
       BY <1>2, <1>6, <1>7, <1>9, Alone
<1> QED BY <1>8, <1>10, PutUpon, LooseFrames

\* The attack loop goes on, or is done.
LEMMA AttackLoopGoesOn ==
    ASSUME World' \in Worlds, ending' = FALSE, status' = status, running' = TRUE,
           NEW s, Good(s, World'), Lasts(s, World'), s # <<>>,
           NEW kind \in Attacking, NEW i \in Investigators, NEW n \in 0..Attackers,
           Attacked(kind, i, Head(s), World'),
           kind = "AttackLoop" => phase' = "Enemy" /\ Tail(s) = <<>> /\ Active(status) # {},
           kind = "OpportunityAttacks" => Rests(s, World'),
           stack' = DriveAttackLoop(kind, i, n, s)
    PROVE  IndInv'
<1> DEFINE v == World'
<1>1. v \in Worlds /\ v.en = FALSE /\ v.st = status /\ v.ph = phase'
      BY DEF World
<1>2. Good(s, v) /\ Lasts(s, v) /\ Attacked(kind, i, Head(s), v)
      /\ (kind = "OpportunityAttacks" => Rests(s, v))
      OBVIOUS
<1> HIDE DEF v
<1>3. CASE i \notin Active(status) \/ n = 0
  <2>1. stack' = FinishAttackLoop(kind, i, s)
        BY <1>3 DEF DriveAttackLoop
  <2>2. CASE kind = "AttackLoop"
    <3> DEFINE j == NextInPlayerOrder(v.st, i)
    <3>1. UpTo(i, v)
          BY <1>2, <2>2 DEF Attacked
    <3>2. IF j = None THEN Done(v) ELSE j \in Investigators /\ Before(j, v)
          BY <1>1, <3>1, NextDue
    <3>3. stack' = AttackWindow(j, s)
          BY <1>1, <2>1, <2>2 DEF FinishAttackLoop
    <3> HIDE DEF j
    <3>4. Rests(stack', v)
          BY <1>1, <2>2, <3>2, <3>3, AttackWindowRests
    <3> QED BY <3>4, Lands DEF v
  <2>3. CASE kind = "OpportunityAttacks"
    <3>1. stack' = s
          BY <2>1, <2>3 DEF FinishAttackLoop
    <3> QED BY <1>2, <2>3, <3>1, Lands DEF v
  <2> QED BY <2>2, <2>3 DEF Attacking
<1>4. CASE i \in Active(status) /\ n # 0
  <2>1. n \in 1..Attackers
        BY <1>4, BoundAssumption
  <2>2. CASE n = 1
    <3> DEFINE f == Frame(kind, "Attacking", i, <<>>, n)
    <3>1. stack' = <<Emit, f>> \o s
          BY <1>4, <2>2 DEF DriveAttackLoop, BeginHeadAttack
    <3>2. /\ FrameOK(f) /\ Present(f, v) /\ Holds(f) /\ f.kind \notin Phases
          /\ Stands(f, Head(s)) /\ Runs(f, Head(s), v)
          BY <1>2, <2>1, AttackFrame
    <3> HIDE DEF f
    <3>3. Rests(Over(f, s), v) /\ f \in FrameSet /\ s \in Seq(FrameSet)
          BY <1>2, <3>2, PutHolding
    <3>4. Rests(stack', v)
          BY <3>1, <3>3, PutUpon, LooseFrames
    <3> QED BY <3>4, Lands DEF v
  <2>3. CASE n # 1
    <3> DEFINE f == Frame(kind, "PickOrder", i, <<>>, n)
    <3>1. stack' = Over(f, s)
          BY <1>4, <2>3 DEF DriveAttackLoop, Over
    <3>2. /\ FrameOK(f) /\ Present(f, v) /\ OnTop(f, v)
          /\ Stands(f, Head(s)) /\ Runs(f, Head(s), v)
          BY <1>1, <1>2, <1>4, <2>1, AttackFrame
    <3> HIDE DEF f
    <3>3. Sound(stack', v)
          BY <1>2, <3>1, <3>2, PutAsked
    <3> QED BY <3>3, LandsOn DEF v
  <2> QED BY <2>2, <2>3
<1> QED BY <1>3, <1>4

LEMMA StepResolveAttacks == ASSUME IndInv, ResolveAttacksForInvestigator PROVE IndInv'
<1>1. Drives("Enemy", "BeforeInvestigatorAttacked") /\ "Enemy" \in Phases
      BY DEF ResolveAttacksForInvestigator, Phases
<1> DEFINE i == Top.who
           v == World'
<1>2. /\ running = TRUE /\ stack # <<>> /\ Top.kind = "Enemy" /\ Top.at = "BeforeInvestigatorAttacked"
      /\ phase = "Enemy" /\ ending = FALSE /\ World.en = FALSE /\ World \in Worlds
      /\ Idle(Top, World) /\ FrameOK(Top) /\ Beneath = <<>> /\ stack = Over(Top, <<>>)
      /\ Active(status) # {}
      BY <1>1, AnchorDriving
<1>3. i \in Investigators /\ Before(i, World)
      BY <1>2 DEF FrameOK, Idle
<1>4. PICK n \in 0..Attackers : stack' = DriveAttackLoop("AttackLoop", i, n, stack)
      BY BoundAssumption DEF ResolveAttacksForInvestigator
<1>5. /\ taken' = IF i \in Active(status) THEN Append(taken, i) ELSE taken
      /\ status' = status /\ active' = active /\ phase' = phase /\ ending' = ending
      /\ running' = TRUE
      BY <1>2 DEF ResolveAttacksForInvestigator
<1> HIDE DEF i
<1>6. taken \in Seq(Investigators) /\ World.tk = taken /\ World.st = status
      BY <1>2 DEF World, Worlds
<1>7. taken' \in Seq(Investigators)
      BY <1>3, <1>5, <1>6, ElemsOf
<1>8. v \in Worlds
      BY <1>2, <1>5, <1>7 DEF World, Worlds
<1>9. v.st = status /\ v.en = FALSE /\ v.ph = "Enemy" /\ v.tk = taken'
      BY <1>2, <1>5 DEF World
<1> HIDE DEF v
<1>10. UpTo(i, v)
  <2>1. CASE i \in Active(status)
        BY <1>2, <1>3, <1>5, <1>6, <1>9, <2>1, TakesPart
  <2>2. CASE i \notin Active(status)
    <3>1. UpTo(i, World)
          BY <1>2, <1>3, <1>6, <2>2, PassedOver
    <3>2. v.tk = World.tk /\ v.st = World.st
          BY <1>5, <1>6, <1>9, <2>2
    <3> QED BY <3>1, <3>2 DEF UpTo
  <2> QED BY <2>1, <2>2
<1>11. Good(stack, v) /\ Lasts(stack, v) /\ Head(stack) = Top /\ Tail(stack) = <<>>
  <2>1. Good(stack, v) /\ Lasts(stack, v)
        BY <1>1, <1>2, <1>9, Alone
  <2> QED BY <1>2, <2>1 DEF Top, Beneath
<1>12. Attacked("AttackLoop", i, Head(stack), v)
       BY <1>2, <1>10, <1>11 DEF Attacked, i
<1>13. "AttackLoop" \in Attacking /\ "AttackLoop" # "OpportunityAttacks"
       BY DEF Attacking
<1>14. ending' = FALSE /\ phase' = "Enemy"
       BY <1>2, <1>5
<1> QED BY <1>2, <1>3, <1>4, <1>5, <1>8, <1>11, <1>12, <1>13, <1>14, AttackLoopGoesOn DEF v

LEMMA StepParkedAttackLoop == ASSUME IndInv, DriveParkedAttackLoop PROVE IndInv'
<1>1. PICK kind \in Attacking :
         Drives(kind, "Attacking") /\ stack' = DriveAttackLoop(kind, Top.who, Top.n - 1, Beneath)
      BY DEF DriveParkedAttackLoop, Attacking
<1>2. /\ running = TRUE /\ Sound(stack, World) /\ World \in Worlds
      /\ stack # <<>> /\ Top.kind = kind /\ FrameOK(Top)
      /\ ~(ending /\ CancelledByScenarioEnd(Top))
      BY <1>1, Driving
<1>3. ending = FALSE /\ World.en = FALSE
      BY <1>2, StillOn
<1>4. UNCHANGED game /\ running' = TRUE /\ World' = World
      BY <1>2, SameWorld DEF DriveParkedAttackLoop
<1>5. Good(stack, World) /\ Lasts(stack, World)
      BY <1>2 DEF Sound
<1>6. Top.who \in Investigators /\ Top.n - 1 \in 0..Attackers
  <2>1. Top.who \in Investigators /\ Top.n \in 1..Attackers
        BY <1>2 DEF FrameOK, Counted, Attacking
  <2> QED BY <2>1, BoundAssumption
<1>7. status' = status /\ ending' = FALSE /\ phase' = phase
      BY <1>3, <1>4 DEF game
<1>8. CASE kind = "AttackLoop"
  <2> DEFINE a == Head(Beneath)
  <2>1. /\ Beneath # <<>> /\ Good(Beneath, World) /\ Tail(Beneath) = <<>>
        /\ a.kind \in Phases /\ a.kind = World.ph /\ FrameOK(a) /\ Beneath = Over(a, <<>>)
        /\ Stands(Top, a) /\ Runs(Top, a, World) /\ Active(World.st) # {}
        BY <1>2, <1>3, <1>5, <1>8, OverAnchor DEF Top, Beneath
  <2>2. a.kind = "Enemy" /\ a.who = Top.who /\ a.at = "BeforeInvestigatorAttacked"
        BY <1>2, <1>8, <2>1 DEF Stands
  <2>3. UpTo(Top.who, World)
        BY <1>2, <1>8, <2>1 DEF Runs
  <2>4. Attacked(kind, Top.who, a, World)
        BY <1>8, <2>2, <2>3 DEF Attacked
  <2>5. phase = "Enemy" /\ Active(status) # {}
        BY <2>1, <2>2 DEF World
  <2>6. Lasts(Beneath, World)
        BY <2>1 DEF Lasts
  <2> QED BY <1>1, <1>2, <1>4, <1>6, <1>7, <1>8, <2>1, <2>4, <2>5, <2>6, AttackLoopGoesOn
<1>9. CASE kind = "OpportunityAttacks"
  <2>1. Rests(Beneath, World)
        BY <1>2, <1>9, LiftOne DEF Top, Beneath
  <2>2. Good(Beneath, World) /\ Lasts(Beneath, World) /\ Beneath # <<>>
        BY <2>1 DEF Rests, Firm
  <2>3. Fits(Top, Beneath, World)
        BY <1>2, <1>5, Taken DEF Top, Beneath
  <2>4. Head(Beneath).kind = "ActionResolution"
        BY <1>2, <1>9, <2>2, <2>3 DEF Fits, Joined, Stands
  <2>5. Attacked(kind, Top.who, Head(Beneath), World)
        BY <1>9, <2>4 DEF Attacked
  <2> QED BY <1>1, <1>2, <1>4, <1>6, <1>7, <1>9, <2>1, <2>2, <2>5, AttackLoopGoesOn
<1> QED BY <1>8, <1>9 DEF Attacking

LEMMA StepTakeProvokingAction == ASSUME IndInv, TakeProvokingAction PROVE IndInv'
<1>1. Answers("InvestigatorTurn") /\ UNCHANGED game
      BY DEF TakeProvokingAction
<1>2. /\ running' = TRUE /\ Sound(stack, World) /\ World \in Worlds
      /\ stack # <<>> /\ Top.kind = "InvestigatorTurn" /\ FrameOK(Top)
      /\ ~(ending /\ CancelledByScenarioEnd(Top))
      BY <1>1, Answering
<1>3. ending = FALSE /\ World.en = FALSE /\ World' = World
      BY <1>1, <1>2, StillOn, SameWorld
<1>4. Top.who \in Investigators
      BY <1>2 DEF FrameOK
<1> DEFINE ar == Of("ActionResolution", "", Top.who)
           owed == PlayerWindowOwed(Top)
           s == Over(ar, Over(owed, Beneath))
<1>5. /\ Rests(Over(owed, Beneath), World) /\ owed \in FrameSet /\ Beneath \in Seq(FrameSet)
      /\ owed.kind = "InvestigatorTurn"
      BY <1>2, TurnSwap DEF Top, Beneath, PlayerWindowOwed
<1>6. ar.kind = "ActionResolution" /\ ar.at = "" /\ ar.who = Top.who /\ ar.queue = <<>> /\ ar.n = 0
      BY DEF Of, Frame
<1>7. FrameOK(ar)
  <2>1. "ActionResolution" \in Kinds /\ "" \in Steps("ActionResolution")
        BY StepNames DEF Kinds, Resting
  <2>2. ar \in FrameSet
        BY <1>4, <2>1, EmptySeq DEF Of, Frame, FrameSet, Places
  <2> HIDE DEF ar
  <2>3. Counted(ar)
        BY <1>6 DEF Counted, Attacking
  <2> QED BY <1>4, <1>6, <2>1, <2>2, <2>3 DEF FrameOK, Asked
<1> HIDE DEF ar, owed
<1>8. Head(Over(owed, Beneath)) = owed /\ Over(owed, Beneath) # <<>>
      BY <1>5, OverSeq
<1>9. Present(ar, World) /\ Stands(ar, owed) /\ Runs(ar, owed, World) /\ Holds(ar)
  <2>1. Holds(owed)
        BY <1>5 DEF Holds, Asked, Attacking
  <2>2. Present(ar, World) /\ Stands(ar, owed)
        BY <1>5, <1>6, <2>1 DEF Present, Stands, Phases
  <2>3. Runs(ar, owed, World) /\ Holds(ar)
        BY <1>5, <1>6 DEF Runs, Holds, Phases, Asked, Attacking
  <2> QED BY <2>2, <2>3
<1>10. Rests(s, World) /\ ar \in FrameSet /\ Over(owed, Beneath) \in Seq(FrameSet)
  <2>1. ar.kind \notin Phases
        BY <1>6 DEF Phases
  <2> QED BY <1>5, <1>7, <1>8, <1>9, <2>1, PutHolding DEF Rests, Firm
<1>11. Head(s) = ar /\ s # <<>>
       BY <1>10, OverSeq
<1>12. PICK n \in 0..Attackers :
          stack' = DriveAttackLoop("OpportunityAttacks", Top.who, n, <<ar, owed>> \o Beneath)
       BY DEF TakeProvokingAction, ar, owed
<1>13. <<ar, owed>> \o Beneath = s
       BY <1>5, <1>10, OverTwo
<1>14. Attacked("OpportunityAttacks", Top.who, Head(s), World)
       BY <1>6, <1>11 DEF Attacked
<1> HIDE DEF s
<1>15. Good(s, World) /\ Lasts(s, World)
       BY <1>10 DEF Rests, Firm
<1>16. "OpportunityAttacks" \in Attacking /\ "AttackLoop" # "OpportunityAttacks"
       BY DEF Attacking
<1>17. ending' = FALSE /\ status' = status
       BY <1>1, <1>3 DEF game
<1> QED BY <1>2, <1>3, <1>4, <1>10, <1>11, <1>12, <1>13, <1>14, <1>15, <1>16, <1>17,
           AttackLoopGoesOn

LEMMA StepAttackOrderPick == ASSUME IndInv, ResumeAttackOrderPick PROVE IndInv'
<1>1. PICK kind \in Attacking :
         Answers(kind) /\ stack' = BeginHeadAttack(kind, Top.who, Top.n, Beneath)
      BY DEF ResumeAttackOrderPick, Attacking
<1>2. /\ running' = TRUE /\ Sound(stack, World) /\ World \in Worlds
      /\ stack # <<>> /\ Top.kind = kind /\ FrameOK(Top) /\ Beneath \in Seq(FrameSet)
      BY <1>1, Answering
<1>3. UNCHANGED game
      BY DEF ResumeAttackOrderPick
<1>4. Top.who \in Investigators /\ Top.n \in 1..Attackers
      BY <1>2 DEF FrameOK, Counted, Attacking
<1> DEFINE f == Frame(kind, "Attacking", Top.who, <<>>, Top.n)
<1>5. /\ FrameOK(f) /\ f \in FrameSet /\ f.kind = kind /\ f.who = Top.who /\ Holds(f)
      /\ f.kind \notin Phases \cup Asked
      BY <1>4, AttackFrame
<1>6. stack' = <<Emit, f>> \o Beneath
      BY <1>1 DEF BeginHeadAttack
<1> HIDE DEF f
<1>7. f.kind # "PlayerDraw"
      BY <1>5 DEF Attacking
<1>8. Rests(Over(f, Beneath), World)
      BY <1>2, <1>5, <1>7, SwapOne DEF Top, Beneath
<1>9. Rests(stack', World)
      BY <1>2, <1>5, <1>6, <1>8, PutUpon, LooseFrames
<1> QED BY <1>2, <1>3, <1>9, SameWorld, Lands

LEMMA NextHunters ==
    ASSUME NEW n \in Nat
    PROVE  \A h \in (n + 1)..Hunters : h \in 0..Hunters
BY BoundAssumption

LEMMA StepEnemyHuntersAfter == ASSUME IndInv, EnemyHuntersAfter PROVE IndInv'
<1>1. PICK at \in {"AfterPhaseStartForced", "HuntersAfter"} : Drives("Enemy", at)
      BY DEF EnemyHuntersAfter
<1>2. "Enemy" \in Phases /\ UNCHANGED <<game, running>>
      BY DEF EnemyHuntersAfter, Phases
<1>3. /\ running = TRUE /\ stack # <<>> /\ Top.kind = "Enemy" /\ Top.at = at
      /\ phase = "Enemy" /\ ending = FALSE /\ World.en = FALSE /\ World \in Worlds
      /\ Idle(Top, World) /\ FrameOK(Top) /\ Beneath = <<>> /\ Active(status) # {}
      BY <1>1, <1>2, AnchorDriving
<1>4. World.tk = <<>>
      BY <1>3 DEF Idle
<1>5. CASE \E h \in (Top.n + 1)..Hunters,
               choice \in {<<Plain("HunterMove", "")>>} \cup (Ties \ {<<>>}) :
             stack' = choice \o <<Frame("Enemy", "HuntersAfter", None, <<>>, h)>> \o Beneath
  <2>0. \A h \in (Top.n + 1)..Hunters : h \in 0..Hunters
    <3>1. Top.n \in Nat
          BY <1>3 DEF FrameOK, FrameSet
    <3> QED BY <3>1, NextHunters
  <2>1. PICK h \in 0..Hunters,
             choice \in {<<Plain("HunterMove", "")>>} \cup (Ties \ {<<>>}) :
           stack' = choice \o <<Frame("Enemy", "HuntersAfter", None, <<>>, h)>> \o Beneath
        BY <1>5, <2>0
  <2>2. Pile(choice)
        BY Piles, TiesPile
  <2> DEFINE a == Frame("Enemy", "HuntersAfter", None, <<>>, h)
  <2>4. "HuntersAfter" \in Steps("Enemy")
        BY StepNames
  <2>5. FrameOK(a)
        BY <1>2, <2>4, EmptySeq, MakeAnchor
  <2>6. a.kind = "Enemy" /\ a.at = "HuntersAfter"
        BY DEF Frame
  <2>7. stack' = choice \o <<a>> \o Beneath
        BY <2>1
  <2> HIDE DEF a
  <2>8. Idle(a, World)
        BY <1>4, <2>6 DEF Idle
  <2> QED BY <1>1, <1>2, <2>2, <2>5, <2>6, <2>7, <2>8, AnchorMoves
<1>6. CASE stack' = AttackWindow(FirstInPlayerOrder(status), stack)
  <2> DEFINE j == FirstInPlayerOrder(World.st)
  <2>1. IF j = None THEN Done(World) ELSE j \in Investigators /\ Before(j, World)
        BY <1>3, <1>4, FirstDue
  <2>2. stack' = AttackWindow(j, stack)
        BY <1>6 DEF World
  <2> HIDE DEF j
  <2>3. World.ph = "Enemy" /\ Active(World.st) # {} /\ Tail(stack) = <<>>
        BY <1>3 DEF World, Beneath
  <2>4. Rests(stack', World)
        BY <1>3, <2>1, <2>2, <2>3, AttackWindowRests
  <2> QED BY <1>2, <1>3, <2>4, SameWorld, Lands
<1> QED BY <1>5, <1>6 DEF EnemyHuntersAfter

------------------------------------------------------------------------------
(* Upkeep, and the mulligan. *)

LEMMA MoreThanOne ==
    ASSUME NEW S, NEW q \in Seq(S), q # <<>>, Len(q) # 1
    PROVE  Len(q) > 1
<1> DEFINE n == Len(q)
<1>1. n \in Nat /\ n # 0 /\ n # 1
      BY ElemsOf
<1> HIDE DEF n
<1>2. n > 1
      BY <1>1
<1> QED BY <1>2 DEF n

\* Who draws next has everybody's part before theirs behind them.
LEMMA DrawerIsDue ==
    ASSUME IndInv, NEW at \in {"AfterReady", "Drawing"}, Drives("Upkeep", at), NextDrawer # None
    PROVE  /\ NextDrawer \in Active(World.st) /\ NextDrawer \in Investigators
           /\ Before(NextDrawer, World)
<1> DEFINE d == NextDrawer
<1>1. Top.kind = "Upkeep" /\ Top.at = at /\ World \in Worlds /\ Idle(Top, World) /\ FrameOK(Top)
      BY AnchorDriving DEF Phases
<1>2. CASE at = "AfterReady"
  <2>1. World.tk = <<>>
        BY <1>1, <1>2 DEF Idle
  <2>2. d = FirstInPlayerOrder(World.st)
        BY <1>1, <1>2 DEF NextDrawer, World
  <2> HIDE DEF d
  <2>3. d # None
        BY DEF d
  <2> QED BY <1>1, <2>1, <2>2, <2>3, FirstDue DEF d
<1>3. CASE at = "Drawing"
  <2>1. Top.who \in Investigators /\ UpTo(Top.who, World)
        BY <1>1, <1>3 DEF Idle, FrameOK
  <2>2. d = NextInPlayerOrder(World.st, Top.who)
        BY <1>1, <1>3 DEF NextDrawer, World
  <2> HIDE DEF d
  <2>3. d # None
        BY DEF d
  <2> QED BY <1>1, <2>1, <2>2, <2>3, NextDue DEF d
<1> QED BY <1>2, <1>3

LEMMA StepUpkeepDraws == ASSUME IndInv, UpkeepDraws PROVE IndInv'
<1>1. PICK at \in {"AfterReady", "Drawing"} : Drives("Upkeep", at)
      BY DEF UpkeepDraws
<1> DEFINE d == NextDrawer
           v == World'
           a == Of("Upkeep", "Drawing", d)
<1>2. /\ running = TRUE /\ stack # <<>> /\ Top.kind = "Upkeep" /\ Top.at = at
      /\ phase = "Upkeep" /\ ending = FALSE /\ World \in Worlds
      /\ Idle(Top, World) /\ FrameOK(Top) /\ Beneath = <<>> /\ Active(status) # {}
      BY <1>1, AnchorDriving DEF Phases
<1>3. /\ d # None /\ taken' = Append(taken, d) /\ status' = status /\ active' = active
      /\ phase' = phase /\ ending' = ending /\ running' = TRUE
      BY <1>2 DEF UpkeepDraws
<1>4. PICK effect \in Effects : stack' = effect \o <<a>> \o Beneath
      BY DEF UpkeepDraws
<1>5. d \in Investigators /\ Before(d, World)
      BY <1>1, <1>3, DrawerIsDue
<1> HIDE DEF d
<1>6. World.tk = taken /\ World.st = status /\ taken \in Seq(Investigators)
      BY <1>2 DEF World, Worlds
<1>7. taken' \in Seq(Investigators)
      BY <1>3, <1>5, <1>6, ElemsOf
<1>8. v \in Worlds
      BY <1>2, <1>3, <1>7 DEF World, Worlds
<1>9. v.st = World.st /\ v.tk = Append(World.tk, d)
      BY <1>3, <1>6 DEF World
<1> HIDE DEF v
<1>10. UpTo(d, v)
       BY <1>2, <1>5, <1>9, TakesPart
<1>11. a = Frame("Upkeep", "Drawing", d, <<>>, 0) /\ a.kind = "Upkeep" /\ a.at = "Drawing" /\ a.who = d
       BY DEF Of, Frame
<1>12. FrameOK(a)
  <2>1. "Drawing" \in Steps("Upkeep") /\ "Upkeep" \in Phases /\ <<>> \in Seq(Investigators)
        BY StepNames, EmptySeq DEF Phases
  <2>2. 0 \in IF "Upkeep" = "Enemy" THEN 0..Hunters ELSE {0}
        OBVIOUS
  <2>3. FrameOK(Frame("Upkeep", "Drawing", d, <<>>, 0))
        BY <1>5, <2>1, <2>2, MakeAnchor
  <2> QED BY <1>11, <2>3
<1> HIDE DEF a
<1>13. Idle(a, v)
       BY <1>10, <1>11 DEF Idle
<1>14. Pile(effect)
       BY Piles
<1>15. a.kind \in Phases /\ Top.kind \in Phases \cup {"Mulligan"} /\ a.kind = phase'
       BY <1>2, <1>3, <1>11 DEF Phases
<1> QED BY <1>2, <1>3, <1>4, <1>8, <1>12, <1>13, <1>14, <1>15, AnchorLands DEF v

LEMMA StepUpkeepAfterDraw == ASSUME IndInv, UpkeepAfterDraw PROVE IndInv'
<1>1. PICK at \in {"AfterReady", "Drawing"} : Drives("Upkeep", at)
      BY DEF UpkeepAfterDraw
<1>2. /\ running = TRUE /\ stack # <<>> /\ Top.kind = "Upkeep" /\ Top.at = at
      /\ phase = "Upkeep" /\ ending = FALSE /\ World.en = FALSE /\ World \in Worlds
      /\ Idle(Top, World) /\ FrameOK(Top) /\ Beneath = <<>>
      /\ Good(stack, World) /\ Lasts(stack, World)
      BY <1>1, AnchorDriving DEF Phases
<1>3. NextDrawer = None /\ UNCHANGED <<game, running>>
      BY DEF UpkeepAfterDraw
<1>4. Done(World)
  <2>1. CASE at = "AfterReady"
    <3>1. World.tk = <<>>
          BY <1>2, <2>1 DEF Idle
    <3>2. FirstInPlayerOrder(World.st) = None
          BY <1>2, <1>3, <2>1 DEF NextDrawer, World
    <3> QED BY <1>2, <3>1, <3>2, FirstDue
  <2>2. CASE at = "Drawing"
    <3>1. Top.who \in Investigators /\ UpTo(Top.who, World)
          BY <1>2, <2>2 DEF Idle, FrameOK
    <3>2. NextInPlayerOrder(World.st, Top.who) = None
          BY <1>2, <1>3, <2>2 DEF NextDrawer, World
    <3> QED BY <1>2, <3>1, <3>2, NextDue
  <2> QED BY <2>1, <2>2
<1>5. PICK over \in SUBSET Active(status) :
         stack' = IF over = {} THEN Ended(Top, Beneath)
                  ELSE <<Asking("HandSizeDiscard", Among(Players, over))>> \o stack
      BY DEF UpkeepAfterDraw
<1>6. CASE over = {}
  <2>1. stack' = Ended(Top, Beneath) /\ "Upkeep" \in Phases
        BY <1>5, <1>6 DEF Phases
  <2> QED BY <1>1, <1>3, <1>4, <2>1, EndedMoves
<1>7. CASE over # {}
  <2> DEFINE q == Among(Players, over)
             f == Asking("HandSizeDiscard", q)
  <2>1. Players \in Seq(Investigators) /\ Increasing(Players) /\ Elems(Players) = Active(status)
        BY <1>2, PlayersAre DEF World, Worlds, Players
  <2>2. q \in Seq(Investigators) /\ Elems(q) = over
    <3>1. q \in Seq(Investigators) /\ Elems(q) = Elems(Players) \cap over
          BY <2>1, AmongIncreasing
    <3> QED BY <2>1, <3>1
  <2> HIDE DEF q
  <2>3. q # <<>>
        BY <1>7, <2>2, ElemsOf
  <2>4. FrameOK(f) /\ f.kind = "HandSizeDiscard" /\ f.queue = q
        BY <2>2, <2>3, MakeAsked DEF Asked
  <2>5. stack' = Over(f, stack)
        BY <1>5, <1>7 DEF Over, q
  <2> HIDE DEF f
  <2>6. Present(f, World) /\ Stands(f, Top)
    <3>1. Holds(Top)
          BY <1>2 DEF Holds, Asked, Attacking
    <3> QED BY <1>2, <2>4, <3>1 DEF Present, Stands, Phases
  <2>7. Runs(f, Top, World) /\ OnTop(f, World)
    <3>1. Elems(f.queue) \subseteq Active(World.st)
          BY <2>2, <2>4 DEF World
    <3>2. Runs(f, Top, World)
          BY <1>4, <2>4, <3>1 DEF Runs, Asked
    <3>3. OnTop(f, World)
          BY <2>4 DEF OnTop, Phases, Attacking
    <3> QED BY <3>2, <3>3
  <2>8. Sound(stack', World)
        BY <1>2, <2>4, <2>5, <2>6, <2>7, PutAsked DEF Top
  <2> QED BY <1>2, <1>3, <2>8, SameWorld, LandsOn
<1> QED BY <1>6, <1>7

LEMMA StepHandSizeDiscard == ASSUME IndInv, ResumeHandSizeDiscard PROVE IndInv'
<1>1. Answers("HandSizeDiscard") /\ UNCHANGED game
      BY DEF ResumeHandSizeDiscard
<1>2. /\ running' = TRUE /\ Sound(stack, World) /\ World \in Worlds
      /\ stack # <<>> /\ Top.kind = "HandSizeDiscard" /\ FrameOK(Top)
      /\ ~(ending /\ CancelledByScenarioEnd(Top))
      BY <1>1, Answering
<1>3. ending = FALSE /\ World.en = FALSE /\ World' = World
      BY <1>1, <1>2, StillOn, SameWorld DEF Asked
<1>4. Good(stack, World) /\ Lasts(stack, World)
      BY <1>2 DEF Sound
<1> DEFINE h == Head(Beneath)
<1>5. /\ Beneath # <<>> /\ Good(Beneath, World) /\ Tail(Beneath) = <<>>
      /\ h.kind \in Phases /\ h.kind = World.ph /\ FrameOK(h) /\ Beneath = Over(h, <<>>)
      /\ Stands(Top, h) /\ Runs(Top, h, World) /\ Active(World.st) # {}
      BY <1>2, <1>3, <1>4, OverAnchor DEF Top, Beneath
<1>6. h.kind = "Upkeep" /\ h.at \in {"AfterReady", "Drawing"}
      BY <1>2, <1>5 DEF Stands
<1>7. Done(World) /\ Elems(Top.queue) \subseteq Active(World.st)
      BY <1>2, <1>5 DEF Runs
<1>8. Top.queue \in Seq(Investigators) /\ Top.queue # <<>>
      BY <1>2 DEF FrameOK, FrameSet, Asked
<1> HIDE DEF h
<1>9. CASE Len(Top.queue) = 1
  <2> DEFINE a == At(h, "AfterPhaseEndForced")
  <2>1. FrameOK(a) /\ a.kind = "Upkeep" /\ a.at = "AfterPhaseEndForced"
    <3>1. "AfterPhaseEndForced" \in Steps("Upkeep")
          BY StepNames DEF PhaseSteps
    <3> QED BY <1>5, <1>6, <3>1, AtOK
  <2>2. stack' = <<Emit, a>> \o <<>>
        BY <1>5, <1>9 DEF ResumeHandSizeDiscard, Ended, h
  <2> HIDE DEF a
  <2>3. Idle(a, World)
        BY <1>7, <2>1 DEF Idle
  <2>4. Rests(Over(a, <<>>), World) /\ a \in FrameSet /\ <<>> \in Seq(FrameSet)
        BY <1>3, <1>5, <1>6, <2>1, <2>3, Alone DEF Phases
  <2>5. Rests(stack', World)
        BY <2>2, <2>4, PutUpon, LooseFrames
  <2> QED BY <1>2, <1>3, <2>5, Lands
<1>10. CASE Len(Top.queue) # 1
  <2> DEFINE q == Tail(Top.queue)
             f == Asking("HandSizeDiscard", q)
  <2>1. Len(Top.queue) > 1
        BY <1>8, <1>10, MoreThanOne
  <2>2. q \in Seq(Investigators) /\ q # <<>> /\ Elems(q) \subseteq Elems(Top.queue)
        BY <1>8, <2>1, ElemsOf
  <2>3. FrameOK(f) /\ f.kind = "HandSizeDiscard" /\ f.queue = q
        BY <2>2, MakeAsked DEF Asked
  <2>4. stack' = Over(f, Beneath)
        BY <1>10 DEF ResumeHandSizeDiscard, Over
  <2> HIDE DEF f, q
  <2>5. Present(f, World) /\ Stands(f, h)
    <3>1. Holds(h)
          BY <1>6 DEF Holds, Asked, Attacking
    <3> QED BY <1>6, <2>3, <3>1 DEF Present, Stands, Phases
  <2>6. Runs(f, h, World) /\ OnTop(f, World)
    <3>1. Runs(f, h, World)
          BY <1>7, <2>2, <2>3 DEF Runs, Asked
    <3>2. OnTop(f, World)
          BY <2>3 DEF OnTop, Phases, Attacking
    <3> QED BY <3>1, <3>2
  <2>7. Lasts(Beneath, World)
        BY <1>5 DEF Lasts
  <2>8. Sound(stack', World)
        BY <1>5, <2>3, <2>4, <2>5, <2>6, <2>7, PutAsked DEF h
  <2> QED BY <1>2, <1>3, <2>8, LandsOn
<1> QED BY <1>9, <1>10

LEMMA StepResumeMulligan == ASSUME IndInv, ResumeMulligan PROVE IndInv'
<1>1. Answers("Mulligan") /\ UNCHANGED game
      BY DEF ResumeMulligan
<1>2. /\ running' = TRUE /\ Sound(stack, World) /\ World \in Worlds
      /\ stack # <<>> /\ Top.kind = "Mulligan" /\ FrameOK(Top) /\ Top \in FrameSet
      /\ stack = Over(Top, Beneath) /\ ~(ending /\ CancelledByScenarioEnd(Top))
      BY <1>1, Answering
<1>3. ending = FALSE /\ World.en = FALSE /\ World' = World
      BY <1>1, <1>2, StillOn, SameWorld DEF Asked
<1>4. Good(stack, World) /\ Lasts(stack, World) /\ OnTop(Top, World) /\ Present(Top, World)
      BY <1>2, <1>3, Taken DEF Sound, Top
<1>5. World.tk = <<>> /\ phase = "Investigation" /\ World.ph = "Investigation"
      BY <1>2, <1>4 DEF OnTop, Present, World
<1>6. Beneath = <<>>
      BY <1>2, <1>3, <1>4, Ground DEF Top, Beneath
<1>7. Top.queue \in Seq(Investigators) /\ Top.queue # <<>>
      BY <1>2 DEF FrameOK, FrameSet, Asked
<1>8. CASE Len(Top.queue) = 1
  <2> DEFINE a == Plain("Investigation", "AfterPhaseStartForced")
  <2>1. /\ a = Frame("Investigation", "AfterPhaseStartForced", None, <<>>, 0)
        BY DEF Plain
  <2>2. /\ "AfterPhaseStartForced" \in Steps("Investigation") /\ "Investigation" \in Phases
        /\ 0 \in IF "Investigation" = "Enemy" THEN 0..Hunters ELSE {0}
        BY StepNames DEF Phases, PhaseSteps
  <2>3. FrameOK(a)
        BY <2>1, <2>2, EmptySeq, MakeAnchor
  <2>4. a.kind = "Investigation" /\ a.at = "AfterPhaseStartForced" /\ a.queue = <<>>
        BY <2>1 DEF Frame
  <2>5. stack' = <<Emit, a>> \o <<>>
        BY <1>6, <1>8 DEF ResumeMulligan, Opened
  <2> HIDE DEF a
  <2>6. Idle(a, World)
        BY <1>5, <2>4 DEF Idle
  <2>7. Active(World.st) # {}
    <3>1. <<>> \in Seq(FrameSet) /\ ~HasElimination(<<>>)
          BY EmptySeq DEF HasElimination
    <3>2. ~HasElimination(stack)
          BY <1>2, <1>6, <3>1, Eliminating
    <3> QED BY <1>3, <1>4, <3>2 DEF Lasts
  <2>8. Rests(Over(a, <<>>), World) /\ a \in FrameSet /\ <<>> \in Seq(FrameSet)
        BY <1>3, <1>5, <2>2, <2>3, <2>4, <2>6, <2>7, Alone
  <2>9. Rests(stack', World)
        BY <2>5, <2>8, PutUpon, LooseFrames
  <2> QED BY <1>2, <1>3, <2>9, Lands
<1>9. CASE Len(Top.queue) # 1
  <2> DEFINE q == Tail(Top.queue)
             f == Asking("Mulligan", q)
  <2>1. Len(Top.queue) > 1
        BY <1>7, <1>9, MoreThanOne
  <2>2. q \in Seq(Investigators) /\ q # <<>>
        BY <1>7, <2>1, ElemsOf
  <2>3. FrameOK(f) /\ f.kind = "Mulligan"
        BY <2>2, MakeAsked DEF Asked
  <2>4. stack' = Over(f, Beneath)
        BY <1>9 DEF ResumeMulligan, Over
  <2> HIDE DEF f, q
  <2>5. Fits(f, Beneath, World)
    <3>1. AtBottom(f, World) /\ Present(f, World)
          BY <1>3, <1>5, <2>3 DEF AtBottom, Present, Phases
    <3> QED BY <1>6, <2>3, <3>1 DEF Fits
  <2>6. f \in FrameSet /\ Beneath \in Seq(FrameSet) /\ Good(Beneath, World)
    <3>1. Good(Beneath, World)
          BY <1>2, <1>4, Taken DEF Beneath
    <3> QED BY <2>3, <3>1 DEF FrameOK, Good
  <2>7. Good(stack', World)
        BY <2>4, <2>5, <2>6, Split
  <2>8. Lasts(stack', World)
    <3>1. Head(stack).kind # "Elimination" /\ stack \in Seq(FrameSet)
          BY <1>2, <1>4 DEF Top, Good
    <3>2. Lasts(Beneath, World)
          BY <1>2, <1>4, <3>1, LastsPast DEF Beneath
    <3> QED BY <2>4, <2>6, <3>2, LastsPast
  <2>9. stack' # <<>> /\ Head(stack') = f
        BY <2>4, <2>6, OverSeq, Zenon
  <2>10. OnTop(f, World)
        BY <1>5, <2>3 DEF OnTop, Phases, Attacking
  <2> QED BY <1>2, <1>3, <2>7, <2>8, <2>9, <2>10, LandsOn DEF Sound
<1> QED BY <1>8, <1>9

------------------------------------------------------------------------------
(* The scenario's ending, and eliminations. *)

EndFrame == Plain("ScenarioEnd", "EmitGameEnd")

LEMMA EndFrameOK ==
    /\ FrameOK(EndFrame) /\ EndFrame \in FrameSet /\ EndFrame.kind = "ScenarioEnd"
    /\ Holds(EndFrame) /\ \A w : Present(EndFrame, w)
<1>1. EndFrame.kind = "ScenarioEnd" /\ EndFrame.at = "EmitGameEnd" /\ EndFrame.who = None
      /\ EndFrame.queue = <<>> /\ EndFrame.n = 0
      BY DEF EndFrame, Plain, Frame
<1>2. "ScenarioEnd" \in Kinds /\ "EmitGameEnd" \in Steps("ScenarioEnd")
      BY StepNames DEF Kinds
<1>3. EndFrame \in FrameSet
      BY <1>2, EmptySeq DEF EndFrame, Plain, Frame, FrameSet, Places
<1>4. Counted(EndFrame)
      BY <1>1 DEF Counted, Attacking
<1>5. EndFrame.kind \notin Asked \cup Attacking \cup Phases
      BY <1>1 DEF Asked, Attacking, Phases
<1>6. FrameOK(EndFrame)
      BY <1>1, <1>2, <1>3, <1>4, <1>5 DEF FrameOK
<1>7. Holds(EndFrame)
      BY <1>1, <1>5 DEF Holds
<1>8. \A w : Present(EndFrame, w)
      BY <1>1, <1>5 DEF Present
<1> QED BY <1>1, <1>3, <1>6, <1>7, <1>8

LEMMA AppendAt ==
    ASSUME NEW S, NEW s \in Seq(S), NEW e \in S
    PROVE  /\ Append(s, e) \in Seq(S) /\ Len(Append(s, e)) = Len(s) + 1 /\ Len(s) \in Nat
           /\ Append(s, e)[Len(s) + 1] = e
           /\ \A k \in 1..Len(s) : Append(s, e)[k] = s[k]
<1>1. /\ Append(s, e) \in Seq(S) /\ Len(Append(s, e)) = Len(s) + 1
      /\ \A k \in 1..Len(s) : Append(s, e)[k] = s[k]
      /\ Append(s, e)[Len(s) + 1] = e
      BY AppendProperties
<1>2. Len(s) \in Nat
      BY LenProperties
<1> QED BY <1>1, <1>2

\* The ending's frame goes beneath everything.
LEMMA LatchGood ==
    ASSUME NEW s, NEW w, Good(s, w), w.en = FALSE, NEW v, v.en = TRUE, v.ph = w.ph, v.ac = w.ac
    PROVE  Good(Append(s, EndFrame), v)
<1> DEFINE t == Append(s, EndFrame)
           n == Len(s)
<1>1. s \in Seq(FrameSet)
      BY DEF Good
<1>2. /\ t \in Seq(FrameSet) /\ Len(t) = n + 1 /\ n \in Nat
      /\ t[n + 1] = EndFrame /\ \A k \in 1..n : t[k] = s[k]
      BY <1>1, EndFrameOK, AppendAt
<1>3. \A k \in 1..n :
         /\ FrameOK(s[k]) /\ Present(s[k], w)
         /\ k = n => AtBottom(s[k], w)
         /\ k < n => Joined(s[k], s[k + 1], w)
      BY DEF Good
<1> HIDE DEF t, n
<1>4. ASSUME NEW k \in 1..n
      PROVE  /\ FrameOK(t[k]) /\ Present(t[k], v) /\ Joined(t[k], t[k + 1], v)
  <2>1. t[k] = s[k] /\ FrameOK(s[k]) /\ Present(s[k], w)
        BY <1>2, <1>3
  <2>2. Present(s[k], v)
        BY <2>1 DEF Present
  <2>3. CASE k < n
    <3>1. k + 1 \in 1..n
          BY <1>2, <2>3
    <3>2. t[k + 1] = s[k + 1] /\ Stands(s[k], s[k + 1])
          BY <1>2, <1>3, <2>3, <3>1 DEF Joined
    <3> QED BY <2>1, <2>2, <3>2 DEF Joined
  <2>4. CASE ~(k < n)
    <3>1. k = n
          BY <1>2, <2>4
    <3>2. s[k].kind \in Phases \cup {"Mulligan"}
      <4>1. AtBottom(s[k], w)
            BY <1>3, <3>1
      <4> QED BY <4>1 DEF AtBottom
    <3>3. Stands(s[k], EndFrame)
          BY <3>2, EndFrameOK DEF Stands, Phases
    <3>4. t[k + 1] = EndFrame
          BY <1>2, <3>1
    <3> QED BY <2>1, <2>2, <3>3, <3>4 DEF Joined
  <2> QED BY <2>3, <2>4
<1>5. AtBottom(EndFrame, v)
      BY EndFrameOK DEF AtBottom
<1>6. ASSUME NEW k \in 1..Len(t)
      PROVE  /\ FrameOK(t[k]) /\ Present(t[k], v)
             /\ k = Len(t) => AtBottom(t[k], v)
             /\ k < Len(t) => Joined(t[k], t[k + 1], v)
  <2>1. CASE k = n + 1
        BY <1>2, <1>5, <2>1, EndFrameOK
  <2>2. CASE k # n + 1
    <3>1. k \in 1..n /\ k # Len(t)
          BY <1>2, <2>2
    <3> QED BY <1>4, <3>1
  <2> QED BY <2>1, <2>2
<1>7. Good(t, v)
      BY <1>2, <1>6 DEF Good
<1> QED BY <1>7 DEF t

LEMMA Latches ==
    ASSUME World' \in Worlds, running' = TRUE, NEW s, NEW w, Good(s, w), w.en = FALSE,
           World'.en = TRUE, World'.ph = w.ph, World'.ac = w.ac, stack' = Append(s, EndFrame)
    PROVE  IndInv'
<1>1. Good(stack', World')
      BY LatchGood
<1>2. Sound(stack', World')
      BY <1>1 DEF Sound, Lasts
<1> QED BY <1>2, LandsOn

LEMMA StepAbilityEndsScenario == ASSUME IndInv, AbilityEndsScenario PROVE IndInv'
<1>1. Drives("Ability", "Acts") /\ ending' = TRUE /\ ending # TRUE
      /\ UNCHANGED <<status, active, phase, running, taken>>
      BY DEF AbilityEndsScenario
<1>2. /\ running = TRUE /\ Sound(stack, World) /\ World \in Worlds /\ stack # <<>>
      BY <1>1, Driving
<1>3. ending = FALSE
      BY <1>1, <1>2 DEF World, Worlds
<1>4. stack' = Append(Beneath, EndFrame)
      BY <1>3 DEF AbilityEndsScenario, Latched, EndFrame
<1>5. Good(Beneath, World)
      BY <1>2, Taken DEF Sound, Beneath
<1>6. World' \in Worlds
      BY <1>1, <1>2 DEF World, Worlds
<1>7. World'.en = TRUE /\ World'.ph = World.ph /\ World'.ac = World.ac /\ World.en = FALSE
      BY <1>1, <1>3 DEF World
<1> QED BY <1>1, <1>2, <1>4, <1>5, <1>6, <1>7, Latches

\* Under what holds them, no frame asks for a turn or a discard, and each draw has
\* had its card.
LEMMA Held ==
    ASSUME NEW s, NEW w, Firm(s, w), NEW k \in 1..Len(s)
    PROVE  /\ s[k].kind \notin {"TurnChoice", "HandSizeDiscard"}
           /\ s[k].kind = "PlayerDraw" => s[k].n # 0
<1>1. s \in Seq(FrameSet) /\ Good(s, w) /\ s # <<>> /\ Holds(Head(s)) /\ Head(s) = s[1] /\ Len(s) \in Nat
  <2>1. s \in Seq(FrameSet) /\ Good(s, w) /\ s # <<>> /\ Holds(Head(s))
        BY DEF Firm, Good
  <2> QED BY <2>1, HeadOver
<1>2. CASE k = 1
      BY <1>1, <1>2 DEF Holds, Asked
<1>3. CASE k # 1
  <2>1. k - 1 \in 1..Len(s) /\ k - 1 < Len(s) /\ (k - 1) + 1 = k
        BY <1>1, <1>3
  <2>2. Joined(s[k - 1], s[k], w)
    <3>1. Joined(s[k - 1], s[(k - 1) + 1], w)
          BY <1>1, <2>1 DEF Good
    <3> QED BY <2>1, <3>1
  <2>3. CASE s[k - 1].kind = "PlayerDraw"
    <3>1. s[k].kind = "EncounterDraw"
          BY <2>2, <2>3 DEF Joined, Stands
    <3> QED BY <3>1
  <2>4. CASE s[k - 1].kind # "PlayerDraw"
    <3>1. Holds(s[k])
          BY <2>2, <2>4 DEF Joined, Stands
    <3> QED BY <3>1 DEF Holds, Asked
  <2> QED BY <2>3, <2>4
<1> QED BY <1>2, <1>3

\* With fewer in the game the phase has come as far.
LEMMA IdleFewer ==
    ASSUME NEW a, NEW w, NEW v, v.tk = w.tk, v.ac = w.ac, Active(v.st) \subseteq Active(w.st), Idle(a, w)
    PROVE  Idle(a, v)
<1>1. Done(w) => Done(v)
      BY DEF Done
<1>2. \A i : Before(i, w) => Before(i, v)
      BY DEF Before
<1>3. \A i : UpTo(i, w) => UpTo(i, v)
      BY DEF UpTo
<1> QED BY <1>1, <1>2, <1>3 DEF Idle

LEMMA RunsFewer ==
    ASSUME NEW f, NEW g, NEW w, NEW v, v.tk = w.tk, v.ac = w.ac, Active(v.st) \subseteq Active(w.st),
           Runs(f, g, w), f.kind \notin {"TurnChoice", "HandSizeDiscard"},
           f.kind = "PlayerDraw" => f.n # 0
    PROVE  Runs(f, g, v)
<1>1. Idle(g, w) => Idle(g, v)
      BY IdleFewer
<1>2. \A i : UpTo(i, w) => UpTo(i, v)
      BY DEF UpTo
<1>3. f.kind = "EncounterDraw" =>
         /\ Active(v.st) \subseteq Elems(v.tk) \cup Elems(f.queue)
         /\ Increasing(f.queue)
         /\ Elems(Tail(f.queue)) \cap Elems(v.tk) = {}
      BY DEF Runs
<1>4. f.kind = "PlayerDraw" => f.n # 0 /\ f.who \in Elems(v.tk)
      BY DEF Runs
<1>5. f.kind = "AttackLoop" => UpTo(f.who, v)
      BY <1>2 DEF Runs
<1>6. g.kind \in Phases /\ f.kind \notin Asked \cup {"AttackLoop"} => Idle(g, v)
      BY <1>1 DEF Runs
<1> QED BY <1>3, <1>4, <1>5, <1>6 DEF Runs

\* The frame of a turn, told that it is over.
Told(f, i) == IF f.kind = "InvestigatorTurn" /\ f.who = i THEN At(f, "Ending") ELSE f

LEMMA ToldOK ==
    ASSUME NEW f, FrameOK(f), NEW i
    PROVE  /\ FrameOK(Told(f, i)) /\ Told(f, i) \in FrameSet
           /\ Told(f, i).kind = f.kind /\ Told(f, i).who = f.who
           /\ Told(f, i).queue = f.queue /\ Told(f, i).n = f.n
           /\ f.kind # "InvestigatorTurn" => Told(f, i) = f
<1>1. CASE f.kind = "InvestigatorTurn" /\ f.who = i
  <2>1. "Ending" \in Steps(f.kind)
        BY <1>1, StepNames
  <2>2. FrameOK(At(f, "Ending")) /\ At(f, "Ending").kind = f.kind /\ At(f, "Ending").who = f.who
        /\ At(f, "Ending").queue = f.queue /\ At(f, "Ending").n = f.n
        BY <1>1, <2>1, AtOK
  <2>3. Told(f, i) = At(f, "Ending")
        BY <1>1 DEF Told
  <2>4. At(f, "Ending") \in FrameSet
        BY <2>2 DEF FrameOK
  <2> QED BY <1>1, <2>2, <2>3, <2>4
<1>2. CASE ~(f.kind = "InvestigatorTurn" /\ f.who = i)
  <2>1. Told(f, i) = f
        BY <1>2 DEF Told
  <2>2. f \in FrameSet
        BY DEF FrameOK
  <2> QED BY <2>1, <2>2
<1> QED BY <1>1, <1>2

LEMMA ToldHolds ==
    ASSUME NEW f, FrameOK(f), NEW i, Holds(f)
    PROVE  Holds(Told(f, i))
<1> DEFINE g == Told(f, i)
<1>1. g.kind = f.kind /\ g.n = f.n /\ (f.kind # "InvestigatorTurn" => g = f)
      BY ToldOK
<1> HIDE DEF g
<1>2. Holds(g)
      BY <1>1 DEF Holds, Attacking, Asked
<1> QED BY <1>2 DEF g

LEMMA ToldStands ==
    ASSUME NEW f, NEW g, FrameOK(f), FrameOK(g), NEW i, NEW w, Joined(f, g, w),
           NEW v, v.tk = w.tk, v.ac = w.ac, v.en = w.en, Active(v.st) \subseteq Active(w.st),
           f.kind \notin {"TurnChoice", "HandSizeDiscard"}, f.kind = "PlayerDraw" => f.n # 0
    PROVE  Joined(Told(f, i), Told(g, i), v)
<1> DEFINE x == Told(f, i)
           y == Told(g, i)
<1>1. /\ x.kind = f.kind /\ x.who = f.who /\ x.queue = f.queue /\ x.n = f.n
      /\ y.kind = g.kind /\ y.who = g.who /\ y.queue = g.queue /\ y.n = g.n
      /\ g.kind # "InvestigatorTurn" => y = g
      /\ Holds(g) => Holds(y)
      BY ToldOK, ToldHolds
<1> HIDE DEF x, y
<1>2. Stands(f, g)
      BY DEF Joined
<1>3. Stands(x, y)
      BY <1>1, <1>2 DEF Stands
<1>4. ASSUME ~v.en PROVE Runs(x, y, v)
  <2>1. Runs(f, g, v)
    <3>1. Runs(f, g, w)
          BY <1>4 DEF Joined
    <3> QED BY <3>1, RunsFewer
  <2>2. g.kind = "InvestigatorTurn" => y.kind \notin Phases
        BY <1>1 DEF Phases
  <2>3. g.kind = "InvestigatorTurn" => f.kind # "TurnChoice"
        OBVIOUS
  <2>4. y = g \/ (y.kind \notin Phases /\ f.kind # "TurnChoice")
        BY <1>1, <2>2, <2>3
  <2>5. CASE y = g
        BY <1>1, <2>1, <2>5 DEF Runs
  <2>6. CASE y.kind \notin Phases /\ f.kind # "TurnChoice"
        BY <1>1, <2>1, <2>6 DEF Runs
  <2> QED BY <2>4, <2>5, <2>6
<1>5. Joined(x, y, v)
      BY <1>3, <1>4 DEF Joined
<1> QED BY <1>5 DEF x, y

\* Somebody goes: the turn that was theirs is over, and the stack stays firm.
LEMMA EndTurnGood ==
    ASSUME NEW s, NEW w, Firm(s, w), NEW i,
           NEW v, v.tk = w.tk, v.ac = w.ac, v.en = w.en, v.ph = w.ph,
           Active(v.st) \subseteq Active(w.st)
    PROVE  Firm(EndTurnOnElimination(s, i), v)
<1> DEFINE t == EndTurnOnElimination(s, i)
           n == Len(s)
<1>1. s \in Seq(FrameSet) /\ Good(s, w) /\ s # <<>> /\ Holds(Head(s))
      /\ (~w.en /\ Head(s).kind \in Phases => Idle(Head(s), w))
      BY DEF Firm, Good
<1>2. n \in Nat /\ DOMAIN s = 1..n /\ Head(s) = s[1] /\ n # 0
      BY <1>1, LenProperties, HeadOver, EmptySeq
<1>3. \A k \in 1..n :
         /\ FrameOK(s[k]) /\ Present(s[k], w)
         /\ k = n => AtBottom(s[k], w)
         /\ k < n => Joined(s[k], s[k + 1], w)
      BY <1>1 DEF Good
<1>4. \A k \in 1..n : Told(s[k], i) \in FrameSet
      BY <1>3, ToldOK
<1>5. t = [k \in 1..n |-> Told(s[k], i)]
      BY <1>2 DEF EndTurnOnElimination, Told
<1> HIDE DEF t, n
<1>6. t \in Seq(FrameSet) /\ Len(t) = n /\ \A k \in 1..n : t[k] = Told(s[k], i)
      BY <1>2, <1>4, <1>5
<1>7. ASSUME NEW k \in 1..Len(t)
      PROVE  /\ FrameOK(t[k]) /\ Present(t[k], v)
             /\ k = Len(t) => AtBottom(t[k], v)
             /\ k < Len(t) => Joined(t[k], t[k + 1], v)
  <2> DEFINE f == s[k]
             x == Told(f, i)
  <2>1. k \in 1..n /\ t[k] = x /\ FrameOK(f) /\ Present(f, w)
        /\ (k = n => AtBottom(f, w)) /\ (k < n => Joined(f, s[k + 1], w))
        BY <1>3, <1>6
  <2>2. FrameOK(x) /\ x.kind = f.kind /\ x.who = f.who
        BY <2>1, ToldOK
  <2>3. f.kind \notin {"TurnChoice", "HandSizeDiscard"} /\ (f.kind = "PlayerDraw" => f.n # 0)
        BY <2>1, Held DEF n
  <2> HIDE DEF f, x
  <2>4. Present(x, v)
        BY <2>1, <2>2 DEF Present
  <2>5. k = n => AtBottom(x, v)
        BY <2>1, <2>2 DEF AtBottom
  <2>6. ASSUME k < n PROVE Joined(x, t[k + 1], v)
    <3>1. k + 1 \in 1..n
          BY <1>2, <2>1, <2>6
    <3>2. FrameOK(s[k + 1]) /\ t[k + 1] = Told(s[k + 1], i) /\ Joined(f, s[k + 1], w)
          BY <1>3, <1>6, <2>1, <2>6, <3>1
    <3>3. Joined(Told(f, i), Told(s[k + 1], i), v)
          BY <2>1, <2>3, <3>2, ToldStands
    <3> QED BY <3>2, <3>3 DEF x
  <2> QED BY <1>6, <2>1, <2>2, <2>4, <2>5, <2>6
<1>8. Good(t, v)
      BY <1>6, <1>7 DEF Good
<1>9. t # <<>> /\ Head(t) = Told(s[1], i)
  <2>1. t # <<>>
        BY <1>2, <1>6, EmptySeq
  <2>2. Head(t) = t[1] /\ 1 \in 1..n
        BY <1>2, <1>6, <2>1, HeadOver
  <2> QED BY <1>6, <2>1, <2>2
<1>10. Holds(Head(t)) /\ FrameOK(s[1])
  <2>1. 1 \in 1..n
        BY <1>2
  <2>2. FrameOK(s[1]) /\ Holds(s[1])
        BY <1>1, <1>2, <1>3, <2>1
  <2> QED BY <1>9, <2>2, ToldHolds
<1>11. ~v.en /\ Head(t).kind \in Phases => Idle(Head(t), v)
  <2> SUFFICES ASSUME ~v.en, Head(t).kind \in Phases
               PROVE  Idle(Head(t), v)
      OBVIOUS
  <2>1. s[1].kind \in Phases
        BY <1>9, <1>10, ToldOK
  <2>2. Head(t) = s[1]
    <3>1. s[1].kind # "InvestigatorTurn"
          BY <2>1 DEF Phases
    <3> QED BY <1>9, <1>10, <3>1, ToldOK
  <2>3. Idle(s[1], w)
        BY <1>1, <1>2, <2>1
  <2> QED BY <2>2, <2>3, IdleFewer
<1>12. Firm(t, v)
       BY <1>8, <1>9, <1>10, <1>11 DEF Firm
<1> QED BY <1>12 DEF t

\* The game an elimination leaves, before the ending latches.
Left == [st |-> status', ph |-> phase, ac |-> active, en |-> ending, tk |-> taken]

LEMMA EliminationRuns ==
    ASSUME World \in Worlds, status' \in [Investigators -> {"Active", "Eliminated"}],
           UNCHANGED <<active, phase, taken>>, running' = TRUE,
           NEW s, Firm(s, Left), NEW live, live = Active(status'), RunEliminationSteps(s, live)
    PROVE  IndInv'
<1>1. PICK tied \in {<<>>, <<EngagementTie>>} :
         stack' = IF AllOut(live) THEN Latched(tied \o s) ELSE tied \o s
      BY DEF RunEliminationSteps
<1> DEFINE t == tied \o s
<1>2. Firm(t, Left)
  <2>1. s \in Seq(FrameSet)
        BY DEF Firm, Good
  <2>2. CASE tied = <<>>
        BY <2>1, <2>2, OverTwo
  <2>3. CASE tied = <<EngagementTie>>
    <3>1. LooseFrame(EngagementTie)
          BY LooseFrames
    <3>2. Firm(Over(EngagementTie, s), Left)
          BY <3>1, Put DEF LooseFrame
    <3> QED BY <2>3, <3>2 DEF Over
  <2> QED BY <2>2, <2>3
<1>3. ending' = (ending \/ live = {})
      BY DEF RunEliminationSteps, AllOut
<1>4. ending \in BOOLEAN
      BY DEF World, Worlds
<1>5. World' \in Worlds
      BY <1>3, <1>4 DEF World, Worlds
<1>6. stack' = IF live = {} THEN Latched(t) ELSE t
      BY <1>1 DEF AllOut
<1> HIDE DEF t
<1>7. Good(t, Left) /\ t # <<>>
      BY <1>2 DEF Firm
<1>8. CASE live = {} /\ ending = FALSE
  <2>1. stack' = Append(t, EndFrame)
        BY <1>6, <1>8 DEF Latched, EndFrame
  <2>2. World'.en = TRUE /\ World'.ph = Left.ph /\ World'.ac = Left.ac /\ Left.en = FALSE
        BY <1>3, <1>8 DEF World, Left
  <2> QED BY <1>5, <1>7, <2>1, <2>2, Latches
<1>9. CASE ~(live = {} /\ ending = FALSE)
  <2>1. stack' = t
        BY <1>4, <1>6, <1>9 DEF Latched
  <2>2. World' = Left
    <3>1. ending' = ending
          BY <1>3, <1>4, <1>9
    <3> QED BY <3>1 DEF World, Left
  <2>3. Lasts(t, Left)
    <3>1. live # {} \/ ending
          BY <1>4, <1>9
    <3>2. Left.st = status' /\ Left.en = ending
          BY DEF Left
    <3> QED BY <3>1, <3>2 DEF Lasts
  <2>4. Rests(t, Left)
        BY <1>2, <2>3 DEF Rests
  <2> QED BY <1>5, <2>1, <2>2, <2>4, Lands
<1> QED BY <1>8, <1>9

LEMMA StepRunSteps == ASSUME IndInv, RunSteps PROVE IndInv'
<1>1. Drives("Elimination", "RunSteps") /\ UNCHANGED <<status, active, phase, running, taken>>
      /\ RunEliminationSteps(Beneath, Active(status))
      BY DEF RunSteps
<1>2. /\ running = TRUE /\ Sound(stack, World) /\ World \in Worlds /\ stack # <<>>
      /\ Top.kind = "Elimination"
      BY <1>1, Driving
<1>3. Firm(Beneath, World)
      BY <1>2, Lift DEF Sound, Top, Beneath, Loose
<1>4. World = Left
      BY <1>1 DEF World, Left
<1>5. status' \in [Investigators -> {"Active", "Eliminated"}] /\ Active(status) = Active(status')
      BY <1>1, <1>2 DEF World, Worlds
<1> QED BY <1>1, <1>2, <1>3, <1>4, <1>5, EliminationRuns

LEMMA StepAbilityEliminates == ASSUME IndInv, AbilityEliminates PROVE IndInv'
<1>1. Drives("Ability", "Acts") /\ UNCHANGED <<active, phase, running, taken>>
      BY DEF AbilityEliminates
<1>2. /\ running = TRUE /\ Sound(stack, World) /\ World \in Worlds /\ stack # <<>>
      /\ Top.kind = "Ability"
      BY <1>1, Driving
<1>3. PICK i \in Active(status) : ApplyInvestigatorElimination(i, Beneath)
      BY DEF AbilityEliminates
<1> DEFINE s == EndTurnOnElimination(Beneath, i)
<1>4. status' = [status EXCEPT ![i] = "Eliminated"]
      BY <1>3 DEF ApplyInvestigatorElimination
<1>5. status \in [Investigators -> {"Active", "Eliminated"}] /\ i \in Investigators
      BY <1>2 DEF World, Worlds, Active
<1>6. status' \in [Investigators -> {"Active", "Eliminated"}]
      /\ Active(status') = Active(status) \ {i}
      BY <1>4, <1>5 DEF Active
<1>7. Firm(Beneath, World)
      BY <1>2, Lift DEF Sound, Top, Beneath, Loose
<1>8. Left.tk = World.tk /\ Left.ac = World.ac /\ Left.en = World.en /\ Left.ph = World.ph
      /\ Active(Left.st) \subseteq Active(World.st)
      BY <1>6 DEF Left, World
<1>9. Firm(s, Left)
      BY <1>7, <1>8, EndTurnGood
<1>10. \/ RunEliminationSteps(s, Active(status) \ {i})
       \/ stack' = <<Of("Elimination", "FireWeaknessGameEnd", i)>> \o s /\ ending' = ending
       BY <1>3 DEF ApplyInvestigatorElimination
<1> HIDE DEF s
<1>11. CASE RunEliminationSteps(s, Active(status) \ {i})
       BY <1>1, <1>2, <1>6, <1>9, <1>11, EliminationRuns
<1>12. CASE stack' = <<Of("Elimination", "FireWeaknessGameEnd", i)>> \o s /\ ending' = ending
  <2> DEFINE f == Of("Elimination", "FireWeaknessGameEnd", i)
  <2>1. LooseFrame(f) /\ f \in FrameSet
        BY <1>5, LooseFrames DEF LooseFrame, FrameOK
  <2>2. f.kind = "Elimination"
        BY DEF Of, Frame
  <2>3. stack' = Over(f, s)
        BY <1>12 DEF Over
  <2> HIDE DEF f
  <2>4. Firm(Over(f, s), Left)
        BY <1>9, <2>1, Put DEF LooseFrame
  <2>5. Lasts(Over(f, s), Left)
    <3>1. s \in Seq(FrameSet)
          BY <1>9 DEF Firm, Good
    <3>2. HasElimination(Over(f, s))
          BY <2>1, <2>2, <3>1, Eliminating
    <3> QED BY <3>2 DEF Lasts
  <2>6. World' = Left
        BY <1>1, <1>12 DEF World, Left
  <2>7. World' \in Worlds
        BY <1>1, <1>2, <1>6, <1>12 DEF World, Worlds
  <2> QED BY <1>1, <1>2, <2>3, <2>4, <2>5, <2>6, <2>7, Lands DEF Rests
<1> QED BY <1>10, <1>11, <1>12

------------------------------------------------------------------------------
(* The invariant holds at the start and every step keeps it. *)

LEMMA Begins == Init => IndInv
<1> SUFFICES ASSUME Init PROVE IndInv
    OBVIOUS
<1> DEFINE f == Asking("Mulligan", Order)
<1>1. Order \in Seq(Investigators) /\ Order # <<>>
      BY OrderAssumption
<1>2. FrameOK(f) /\ f.kind = "Mulligan"
      BY <1>1, MakeAsked DEF Asked
<1>3. /\ stack = <<f>> /\ running = FALSE /\ active = None /\ phase = "Investigation"
      /\ ending = FALSE /\ taken = <<>> /\ status = [i \in Investigators |-> "Active"]
      BY DEF Init
<1> HIDE DEF f
<1>4. World \in Worlds /\ World.en = FALSE /\ World.tk = <<>> /\ World.ph = "Investigation"
  <2>1. <<>> \in Seq(Investigators)
        BY EmptySeq
  <2>2. World \in Worlds
        BY <1>3, <2>1 DEF World, Worlds, Phases
  <2> QED BY <1>3, <2>2 DEF World
<1>5. <<>> \in Seq(FrameSet) /\ f \in FrameSet /\ Good(<<>>, World)
      BY <1>2, EmptySeq DEF Good, FrameOK
<1>6. stack = Over(f, <<>>)
  <2>1. \A g \in FrameSet : Over(g, <<>>) = <<g>>
    <3>1. \A g \in FrameSet : <<g>> \in Seq(FrameSet)
          OBVIOUS
    <3> QED BY <3>1, OverTwo DEF Over
  <2> QED BY <1>3, <1>5, <2>1
<1>7. Good(stack, World)
  <2>1. AtBottom(f, World) /\ Present(f, World)
        BY <1>2, <1>4 DEF AtBottom, Present, Phases
  <2>2. Fits(f, <<>>, World)
        BY <1>2, <2>1 DEF Fits
  <2> QED BY <1>5, <1>6, <2>2, Split
<1>8. stack # <<>> /\ Top = f
      BY <1>3 DEF Top
<1>9. OnTop(f, World)
      BY <1>2, <1>4 DEF OnTop, Phases, Attacking
<1>10. Lasts(stack, World)
  <2>1. Active(status) = Investigators
        BY <1>3 DEF Active
  <2>2. Investigators # {}
        BY <1>1, ElemsOf DEF Investigators
  <2> QED BY <2>1, <2>2 DEF Lasts, World
<1>11. Sound(stack, World)
       BY <1>7, <1>8, <1>9, <1>10 DEF Sound, Top
<1>12. AtRest
       BY <1>2, <1>3, <1>8 DEF AtRest, AwaitsInput, CancelsTop
<1> QED BY <1>3, <1>4, <1>11, <1>12 DEF IndInv

LEMMA DriveKeeps == ASSUME IndInv, Drive PROVE IndInv'
<1>1. CASE Cancel \/ Rest \/ CloseWindow \/ EmitGameEnd \/ FinalizeScenarioEnd \/ DispatchEmitEvent
      BY <1>1, StepCancel, StepRest, StepCloseWindow, StepEmitGameEnd, StepFinalizeScenarioEnd,
         StepDispatchEmitEvent
<1>2. CASE EmitDone \/ AbilityDone \/ FinalizeAdvance \/ AbilityEndsScenario \/ AbilityAdvances
      BY <1>2, StepDone, StepAbilityEndsScenario, StepAbilityAdvances
<1>3. CASE Announce \/ FireReverse \/ FireWeaknessGameEnd \/ AbilityEliminates \/ RunSteps
      BY <1>3, StepTopMoves, StepAbilityEliminates, StepRunSteps
<1>4. CASE BeginPhase \/ EndPhase \/ OpenWindow \/ MythosAfterPhaseStart \/ RunMythosDraws
      BY <1>4, StepBeginPhase, StepEndPhase, StepOpenWindow, StepMythosAfterPhaseStart,
         StepRunMythosDraws
<1>5. CASE MythosPhaseEnd \/ EnemyPhaseEnd \/ UpkeepRoundEnd \/ ReadyExhausted
      BY <1>5, StepPhaseEnds, StepUpkeepRoundEnd, StepReadyExhausted
<1>6. CASE DrawEncounterCard \/ DisposeEncounterCard \/ AdvanceEncounterDraw \/ ResumeActionResolution
      BY <1>6, StepDrawEncounterCard, StepPiles, StepAdvanceEncounterDraw
<1>7. CASE InvestigationBegins \/ OpenTurn \/ DriveOpenTurn
      BY <1>7, StepInvestigationBegins, StepOpenTurn, StepDriveOpenTurn
<1>8. CASE ResolveAttacksForInvestigator \/ DriveParkedAttackLoop \/ EnemyHuntersAfter
      BY <1>8, StepResolveAttacks, StepParkedAttackLoop, StepEnemyHuntersAfter
<1>9. CASE UpkeepDraws \/ UpkeepAfterDraw
      BY <1>9, StepUpkeepDraws, StepUpkeepAfterDraw
<1> QED BY <1>1, <1>2, <1>3, <1>4, <1>5, <1>6, <1>7, <1>8, <1>9 DEF Drive

LEMMA AnswerKeeps == ASSUME IndInv, Answer PROVE IndInv'
<1>1. CASE ResumeMulligan \/ ResumeAbility \/ ResumeAdvance \/ ResumeWindow \/ ResumeEncounterDraw
      BY <1>1, StepResumeMulligan, StepTopMoves, StepResumeWindow, StepResumeEncounterDraw
<1>2. CASE ResumeTurnChoice \/ EndTurn \/ TakeAction \/ PlayAtOpenTurn \/ TakeProvokingAction
      BY <1>2, StepResumeTurnChoice, StepEndTurn, StepTakeAction, StepPlayAtOpenTurn,
         StepTakeProvokingAction
<1>3. CASE ResumeAttackOrderPick \/ ResumeHunterChoice \/ ResumeEngagementTie \/ ResumeHandSizeDiscard
      BY <1>3, StepAttackOrderPick, StepPiles, StepHandSizeDiscard
<1> QED BY <1>1, <1>2, <1>3 DEF Answer

LEMMA IndNext == IndInv /\ [Next]_vars => IndInv'
<1> SUFFICES ASSUME IndInv, [Next]_vars PROVE IndInv'
    OBVIOUS
<1>1. CASE UNCHANGED vars
  <2>1. stack' = stack /\ running' = running /\ UNCHANGED game
        BY <1>1 DEF vars
  <2>2. World' = World /\ Top' = Top /\ ending' = ending
        BY <2>1, SameWorld DEF Top, game
  <2>3. AtRest'
        BY <2>1, <2>2 DEF IndInv, AtRest, CancelsTop
  <2> QED BY <2>1, <2>2, <2>3 DEF IndInv
<1>2. CASE Drive
      BY <1>2, DriveKeeps
<1>3. CASE Answer
      BY <1>3, AnswerKeeps
<1>4. CASE GameOver
      BY <1>1, <1>4 DEF GameOver
<1> QED BY <1>1, <1>2, <1>3, <1>4 DEF Next

LEMMA Inductive == Spec => []IndInv
BY Begins, IndNext, PTL DEF Spec

------------------------------------------------------------------------------
(* What the invariant says of the stack. *)

\* Frame by frame.
LEMMA StackIs ==
    ASSUME IndInv
    PROVE  /\ stack \in Seq(FrameSet) /\ DOMAIN stack = 1..Len(stack) /\ Len(stack) \in Nat
           /\ \A k \in 1..Len(stack) :
                 /\ FrameOK(stack[k]) /\ Present(stack[k], World)
                 /\ k = Len(stack) => AtBottom(stack[k], World)
                 /\ k < Len(stack) => Stands(stack[k], stack[k + 1]) /\ k + 1 \in 1..Len(stack)
<1>1. Good(stack, World) /\ stack \in Seq(FrameSet)
      BY DEF IndInv, Sound, Good
<1>2. DOMAIN stack = 1..Len(stack) /\ Len(stack) \in Nat
      BY <1>1, LenProperties
<1>3. \A k \in 1..Len(stack) : k < Len(stack) => k + 1 \in 1..Len(stack)
      BY <1>2
<1>4. \A k \in 1..Len(stack) :
         /\ FrameOK(stack[k]) /\ Present(stack[k], World)
         /\ k = Len(stack) => AtBottom(stack[k], World)
         /\ k < Len(stack) => Stands(stack[k], stack[k + 1])
      BY <1>1 DEF Good, Joined
<1> QED BY <1>1, <1>2, <1>3, <1>4

\* Beneath an anchor there is the ending's frame at most.
LEMMA AnchorsLow ==
    ASSUME IndInv, NEW j \in Anchors
    PROVE  /\ j \in 1..Len(stack) /\ stack[j].kind \in Phases /\ stack[j].kind = phase
           /\ \A k \in 1..Len(stack) : j < k => stack[k].kind = "ScenarioEnd"
<1> DEFINE n == Len(stack)
<1>1. /\ DOMAIN stack = 1..n /\ n \in Nat
      /\ \A k \in 1..n :
            /\ FrameOK(stack[k]) /\ Present(stack[k], World)
            /\ k = n => AtBottom(stack[k], World)
            /\ k < n => Stands(stack[k], stack[k + 1]) /\ k + 1 \in 1..n
      BY StackIs
<1> HIDE DEF n
<1>2. j \in 1..n /\ stack[j].kind \in Phases
      BY <1>1 DEF Anchors, IsPhaseAnchor
<1>3. stack[j].kind = phase
      BY <1>1, <1>2 DEF Present, World
<1>4. ASSUME NEW k \in 1..n, j < k PROVE stack[k].kind = "ScenarioEnd"
  <2>1. j < n /\ j + 1 \in 1..n
        BY <1>1, <1>2, <1>4
  <2>2. stack[j + 1].kind = "ScenarioEnd"
        BY <1>1, <1>2, <2>1 DEF Stands
  <2>3. ~(j + 1 < n)
        BY <1>1, <2>1, <2>2 DEF Stands
  <2>4. k = j + 1
        BY <1>1, <1>2, <1>4, <2>3
  <2> QED BY <2>2, <2>4
<1> QED BY <1>2, <1>3, <1>4 DEF n

LEMMA TypesFollow == ASSUME IndInv PROVE TypeOK
<1> DEFINE n == Len(stack)
<1>1. /\ DOMAIN stack = 1..n /\ n \in Nat /\ \A k \in 1..n : FrameOK(stack[k])
      BY StackIs
<1> HIDE DEF n
<1>2. ASSUME NEW k \in DOMAIN stack
      PROVE  LET f == stack[k] IN
             /\ f.at \in Steps(f.kind) /\ f.who \in Investigators \cup {None}
             /\ Elems(f.queue) \subseteq Investigators
             /\ f.n \in CASE f.kind = "InvestigatorTurn" -> 0..1
                          [] f.kind \in {"AttackLoop", "OpportunityAttacks"} -> 1..Attackers
                          [] f.kind = "PlayerDraw" -> 0..Surges
                          [] f.kind = "Enemy" -> 0..Hunters
                          [] OTHER -> {0}
  <2> DEFINE f == stack[k]
  <2>1. FrameOK(f)
        BY <1>1
  <2> HIDE DEF f
  <2>2. f.at \in Steps(f.kind) /\ f.who \in Investigators \cup {None} /\ f.queue \in Seq(Investigators)
        BY <2>1 DEF FrameOK, FrameSet
  <2>3. Elems(f.queue) \subseteq Investigators
        BY <2>2, ElemsOf
  <2>4. f.n \in CASE f.kind = "InvestigatorTurn" -> 0..1
                  [] f.kind \in {"AttackLoop", "OpportunityAttacks"} -> 1..Attackers
                  [] f.kind = "PlayerDraw" -> 0..Surges
                  [] f.kind = "Enemy" -> 0..Hunters
                  [] OTHER -> {0}
        BY <2>1 DEF FrameOK, Counted, Attacking
  <2> QED BY <2>2, <2>3, <2>4 DEF f
<1>3. /\ status \in [Investigators -> {"Active", "Eliminated"}]
      /\ active \in Investigators \cup {None} /\ phase \in Phases
      /\ ending \in BOOLEAN /\ running \in BOOLEAN /\ taken \in Seq(Investigators)
      BY DEF IndInv, World, Worlds
<1>4. Elems(taken) \subseteq Investigators
      BY <1>3, ElemsOf
<1> QED BY <1>2, <1>3, <1>4 DEF TypeOK

LEMMA PlacesFollow == ASSUME IndInv PROVE FramesInPlace /\ NoAbilityBuried
<1> DEFINE n == Len(stack)
<1>1. /\ DOMAIN stack = 1..n /\ n \in Nat
      /\ \A k \in 1..n :
            /\ FrameOK(stack[k]) /\ Present(stack[k], World)
            /\ k = n => AtBottom(stack[k], World)
            /\ k < n => Stands(stack[k], stack[k + 1])
      BY StackIs
<1>2. \A j \in Anchors :
         /\ j \in 1..n /\ stack[j].kind \in Phases /\ stack[j].kind = phase
         /\ \A k \in 1..n : j < k => stack[k].kind = "ScenarioEnd"
      BY AnchorsLow
<1>3. \A j \in 1..n : IsPhaseAnchor(stack[j]) => j \in Anchors
      BY <1>1 DEF Anchors
<1>4. \A j, k \in Anchors : j = k
  <2>1. ASSUME NEW j \in Anchors, NEW k \in Anchors, j < k PROVE FALSE
        BY <1>2, <2>1 DEF Phases
  <2>2. ASSUME NEW j \in Anchors, NEW k \in Anchors PROVE j = k
    <3>1. ~(j < k) /\ ~(k < j)
          BY <2>1
    <3>2. j \in 1..n /\ k \in 1..n
          BY <1>2
    <3>3. \A x, y \in 1..n : ~(x < y) /\ ~(y < x) => x = y
      <4> HIDE DEF n
      <4> QED BY <1>1
    <3> QED BY <3>1, <3>2, <3>3
  <2> QED BY <2>2
<1>5. NoAbilityBuried
  <2> SUFFICES ASSUME NEW j \in 1..n, NEW k \in 1..n, j < k, IsPhaseAnchor(stack[j])
               PROVE  ~IsQueuedAbility(stack[k])
      BY <1>1 DEF NoAbilityBuried
  <2>1. stack[k].kind = "ScenarioEnd"
        BY <1>2, <1>3
  <2> QED BY <2>1 DEF IsQueuedAbility
<1>6. ASSUME NEW k \in DOMAIN stack
      PROVE  LET f == stack[k] IN
             /\ f.kind \in {"InvestigatorTurn", "TurnChoice"} => StandsOn(k, {"Investigation"})
             /\ f.kind = "InvestigatorTurn" => f.who = active
             /\ f.kind = "AttackLoop" => StandsOn(k, {"Enemy"}) /\ stack[k + 1].who = f.who
             /\ f.kind = "OpportunityAttacks" => StandsOn(k, {"ActionResolution"})
             /\ f.kind = "ActionResolution" => StandsOn(k, {"InvestigatorTurn"})
             /\ f.kind = "EncounterDraw" => StandsOn(k, {"Mythos"}) /\ f.queue # <<>>
             /\ f.kind = "PlayerDraw" =>
                   StandsOn(k, {"EncounterDraw"}) /\ f.who = Head(stack[k + 1].queue)
             /\ f.kind = "HandSizeDiscard" => StandsOn(k, {"Upkeep"})
  <2> DEFINE f == stack[k]
             g == stack[k + 1]
  <2>1. /\ FrameOK(f) /\ Present(f, World) /\ k \in 1..n
        /\ k = n => AtBottom(f, World)
        /\ k < n => Stands(f, g)
        BY <1>1
  <2>2. \A kinds : StandsOn(k, kinds) <=> k < n /\ g.kind \in kinds
        BY DEF StandsOn
  <2> HIDE DEF f, g, n
  <2>3. f.kind \in {"InvestigatorTurn", "TurnChoice", "AttackLoop", "OpportunityAttacks",
                    "ActionResolution", "EncounterDraw", "PlayerDraw", "HandSizeDiscard"}
           => k < n /\ Stands(f, g)
    <3>1. k = n => f.kind \in Phases \cup {"Mulligan", "ScenarioEnd"}
          BY <2>1 DEF AtBottom
    <3>2. k = n \/ k < n
          BY <1>1, <2>1
    <3> QED BY <2>1, <3>1, <3>2 DEF Phases
  <2>4. f.kind \in {"InvestigatorTurn", "TurnChoice"} => StandsOn(k, {"Investigation"})
        BY <2>2, <2>3 DEF Stands
  <2>5. f.kind = "InvestigatorTurn" => f.who = active
        BY <2>1 DEF Present, World
  <2>6. f.kind = "AttackLoop" => StandsOn(k, {"Enemy"}) /\ g.who = f.who
        BY <2>2, <2>3 DEF Stands
  <2>7. f.kind = "OpportunityAttacks" => StandsOn(k, {"ActionResolution"})
        BY <2>2, <2>3 DEF Stands
  <2>8. f.kind = "ActionResolution" => StandsOn(k, {"InvestigatorTurn"})
        BY <2>2, <2>3 DEF Stands
  <2>9. f.kind = "EncounterDraw" => StandsOn(k, {"Mythos"}) /\ f.queue # <<>>
        BY <2>1, <2>2, <2>3 DEF Stands, FrameOK, Asked
  <2>10. f.kind = "PlayerDraw" => StandsOn(k, {"EncounterDraw"}) /\ f.who = Head(g.queue)
        BY <2>2, <2>3 DEF Stands
  <2>11. f.kind = "HandSizeDiscard" => StandsOn(k, {"Upkeep"})
        BY <2>2, <2>3 DEF Stands
  <2> QED BY <2>4, <2>5, <2>6, <2>7, <2>8, <2>9, <2>10, <2>11 DEF f, g
<1>7. \A k \in Anchors : stack[k].kind = phase
      BY <1>2
<1> QED BY <1>4, <1>5, <1>6, <1>7 DEF FramesInPlace

LEMMA EndingFollows == ASSUME IndInv PROVE EndingAtBottom
<1> DEFINE n == Len(stack)
<1>1. /\ DOMAIN stack = 1..n /\ n \in Nat /\ stack \in Seq(FrameSet)
      /\ \A k \in 1..n :
            /\ k = n => AtBottom(stack[k], World)
            /\ k < n => Stands(stack[k], stack[k + 1])
      BY StackIs
<1> HIDE DEF n
<1>2. Active(status) = {} => ending \/ \E k \in DOMAIN stack : stack[k].kind = "Elimination"
      BY <1>1 DEF IndInv, Sound, Lasts, World, HasElimination, n
<1>3. ASSUME NEW k \in DOMAIN stack, stack[k].kind = "ScenarioEnd"
      PROVE  ending /\ k = n
  <2>1. ~(k < n)
        BY <1>1, <1>3 DEF Stands
  <2>2. k = n
        BY <1>1, <2>1
  <2>3. AtBottom(stack[k], World)
        BY <1>1, <2>2
  <2> QED BY <1>3, <2>2, <2>3 DEF AtBottom, World
<1>4. ASSUME ending, stack # <<>>
      PROVE  stack[n].kind = "ScenarioEnd"
  <2>1. n # 0
        BY <1>1, <1>4, EmptySeq DEF n
  <2>2. n \in 1..n
        BY <1>1, <2>1
  <2>3. AtBottom(stack[n], World)
        BY <1>1, <2>2
  <2> QED BY <1>4, <2>3 DEF AtBottom, World
<1> QED BY <1>2, <1>3, <1>4 DEF EndingAtBottom, n

LEMMA LivingFollow == ASSUME IndInv PROVE FrameworkAsksTheLiving
<1> SUFFICES ASSUME ~running, stack # <<>>
             PROVE  /\ Top.kind \in {"EncounterDraw", "HandSizeDiscard"} => Head(Top.queue) \in Active(status)
                    /\ Top.kind = "TurnChoice" => Elems(Top.queue) \subseteq Active(status)
                    /\ Top.kind \in {"AttackLoop", "OpportunityAttacks"} => Top.who \in Active(status)
    BY DEF FrameworkAsksTheLiving
<1>1. AwaitsInput(Top) /\ ~(ending /\ CancelledByScenarioEnd(Top))
      BY DEF IndInv, AtRest, CancelsTop
<1>2. Sound(stack, World) /\ World.st = status /\ World \in Worlds
      BY DEF IndInv, World
<1>3. Good(stack, World) /\ Lasts(stack, World) /\ FrameOK(Top)
      BY <1>2, Taken DEF Sound, Top
<1> SUFFICES ASSUME Top.kind \in {"EncounterDraw", "HandSizeDiscard", "TurnChoice"} \cup Attacking
             PROVE  /\ Top.kind \in {"EncounterDraw", "HandSizeDiscard"} => Head(Top.queue) \in Active(status)
                    /\ Top.kind = "TurnChoice" => Elems(Top.queue) \subseteq Active(status)
                    /\ Top.kind \in {"AttackLoop", "OpportunityAttacks"} => Top.who \in Active(status)
    BY DEF Attacking
<1>4. World.en = FALSE
      BY <1>1, StillOn DEF Asked
<1>5. OnTop(Top, World)
      BY <1>2, <1>4 DEF Sound, Top
<1>6. Top.kind = "EncounterDraw" => Head(Top.queue) \in Active(status)
      BY <1>2, <1>5 DEF OnTop
<1>7. ASSUME Top.kind \in {"HandSizeDiscard", "TurnChoice"}
      PROVE  /\ Elems(Top.queue) \subseteq Active(status) /\ Head(Top.queue) \in Elems(Top.queue)
  <2>1. Runs(Top, Head(Beneath), World)
        BY <1>3, <1>4, <1>7, OverAnchor DEF Top, Beneath
  <2>2. Elems(Top.queue) \subseteq Active(status)
        BY <1>2, <1>7, <2>1 DEF Runs
  <2>3. Top.queue \in Seq(Investigators) /\ Top.queue # <<>>
        BY <1>3, <1>7 DEF FrameOK, FrameSet, Asked
  <2>4. Head(Top.queue) \in Elems(Top.queue)
        BY <2>3, ElemsOf
  <2> QED BY <2>2, <2>4
<1>8. ASSUME Top.kind \in Attacking PROVE Top.who \in Active(status)
  <2>1. Top.at = "PickOrder"
        BY <1>1, <1>8 DEF AwaitsInput, Attacking
  <2> QED BY <1>2, <1>5, <1>8, <2>1 DEF OnTop
<1> QED BY <1>6, <1>7, <1>8 DEF Attacking

------------------------------------------------------------------------------
(* The rounds are the framework's. *)

\* Somebody takes their part of the phase, as the framework has it.
LEMMA PartTaken ==
    ASSUME NEW i \in Active(status), i \notin Elems(taken), ending = FALSE,
           phase # "Investigation" =>
              \A j \in Active(status) : Position(j) < Position(i) => j \in Elems(taken),
           taken' = Append(taken, i), phase' = phase, status' = status, ending' = ending
    PROVE  Sequence!Next
<1>1. i \in Investigators /\ Active(status) \subseteq Investigators
      BY DEF Active
<1> DEFINE k == Position(i)
<1>2. k \in DOMAIN Order /\ Order[k] = i /\ DOMAIN Order = 1..Len(Order) /\ Len(Order) \in Nat
      BY <1>1, Seats
<1>3. \A j \in 1..(k - 1) : Order[j] \in Investigators /\ Position(Order[j]) = j /\ j < k
      BY <1>2, Seats
<1> HIDE DEF k
<1>4. phase # "Investigation" => Sequence!Before(k) \cap Active(status) \subseteq Sequence!Elems(taken)
  <2> SUFFICES ASSUME phase # "Investigation", NEW x \in Sequence!Before(k) \cap Active(status)
               PROVE  x \in Elems(taken)
      BY DEF Elems, Sequence!Elems
  <2>1. PICK j \in 1..(k - 1) : x = Order[j]
        BY DEF Sequence!Before
  <2>2. Position(x) < Position(i)
        BY <1>3, <2>1 DEF k
  <2> QED BY <2>2
<1>5. Order[k] \in Active(status) \ Sequence!Elems(taken)
      BY <1>2 DEF Elems, Sequence!Elems
<1>6. Active(status)' = Active(status)
      BY DEF Active
<1>7. Sequence!TakePart(k)
      BY <1>2, <1>4, <1>5, <1>6 DEF Sequence!TakePart
<1> QED BY <1>2, <1>7 DEF Sequence!Next

LEMMA Stutters ==
    ASSUME UNCHANGED <<status, phase, ending, taken>>
    PROVE  UNCHANGED Sequence!vars
BY DEF Sequence!vars, Active

\* A turn that begins is a part taken; whose turn is next may be nobody's yet.
LEMMA TurnIsAPart ==
    ASSUME ending = FALSE, phase = "Investigation", NEW i \in Active(status) \ Elems(taken), NEW a,
           NEW s, BeginInvestigatorTurn(i, a, s), UNCHANGED <<status, phase, ending>>
    PROVE  Sequence!Next
BY PartTaken DEF BeginInvestigatorTurn

LEMMA NextTurnIsAPart ==
    ASSUME World \in Worlds, ending = FALSE, phase = "Investigation", NEW a,
           a.queue \in Seq(Investigators), Elems(taken) = Elems(a.queue), NEW s,
           NextInvestigatorTurn(a, s), UNCHANGED <<status, phase, ending>>
    PROVE  [Sequence!Next]_(Sequence!vars)
<1>1. Players \in Seq(Investigators) /\ Increasing(Players) /\ Elems(Players) = Active(status)
      BY PlayersAre DEF World, Worlds, Players
<1>2. /\ Waiting(a) \in Seq(Investigators)
      /\ Elems(Waiting(a)) = Active(status) \cap (Investigators \ Elems(a.queue))
      BY <1>1, AmongIncreasing DEF Waiting
<1>3. \/ taken' = taken
      \/ Len(Waiting(a)) = 1 /\ BeginInvestigatorTurn(Waiting(a)[1], a, s)
      BY DEF NextInvestigatorTurn
<1>4. CASE taken' = taken
      BY <1>4, Stutters
<1>5. CASE Len(Waiting(a)) = 1 /\ BeginInvestigatorTurn(Waiting(a)[1], a, s)
  <2>1. Waiting(a)[1] \in Elems(Waiting(a))
        BY <1>2, <1>5, OneWaiting
  <2>2. Waiting(a)[1] \in Active(status) \ Elems(taken)
        BY <1>2, <2>1
  <2> QED BY <1>5, <2>2, TurnIsAPart
<1> QED BY <1>3, <1>4, <1>5

LEMMA TurnParts ==
    ASSUME IndInv, InvestigationBegins \/ ResumeTurnChoice \/ DriveOpenTurn
    PROVE  [Sequence!Next]_(Sequence!vars)
<1>1. CASE InvestigationBegins
  <2>1. Drives("Investigation", "Begins") /\ "Investigation" \in Phases
        BY <1>1 DEF InvestigationBegins, Phases
  <2>2. /\ Top.kind = "Investigation" /\ Top.at = "Begins" /\ phase = "Investigation"
        /\ ending = FALSE /\ World \in Worlds /\ Idle(Top, World) /\ FrameOK(Top)
        BY <2>1, AnchorDriving
  <2>3. Elems(taken) = Elems(Top.queue) /\ Top.queue \in Seq(Investigators)
        BY <2>2 DEF Idle, World, FrameOK, FrameSet
  <2>4. NextInvestigatorTurn(Top, Beneath) /\ UNCHANGED <<status, phase, ending>>
        BY <1>1 DEF InvestigationBegins
  <2> QED BY <2>2, <2>3, <2>4, NextTurnIsAPart
<1>2. CASE ResumeTurnChoice
  <2>1. Answers("TurnChoice") /\ UNCHANGED <<status, phase, ending>>
        BY <1>2 DEF ResumeTurnChoice
  <2>2. /\ Sound(stack, World) /\ World \in Worlds /\ stack # <<>> /\ Top.kind = "TurnChoice"
        /\ ~(ending /\ CancelledByScenarioEnd(Top))
        BY <2>1, Answering
  <2>3. ending = FALSE /\ World.en = FALSE
        BY <2>2, StillOn DEF Asked
  <2> DEFINE a == Head(Beneath)
  <2>4. a.kind = World.ph /\ Stands(Top, a) /\ Runs(Top, a, World)
        BY <2>2, <2>3, OverAnchor DEF Top, Beneath, Sound
  <2>5. phase = "Investigation" /\ Elems(Top.queue) \subseteq Active(status) \ Elems(taken)
        BY <2>2, <2>4 DEF Stands, Runs, World
  <2>6. PICK i \in Elems(Top.queue) : BeginInvestigatorTurn(i, a, Tail(Beneath))
        BY <1>2 DEF ResumeTurnChoice
  <2> QED BY <2>1, <2>3, <2>5, <2>6, TurnIsAPart
<1>3. CASE DriveOpenTurn
  <2>1. PICK at \in {"Open", "Ending"} : Drives("InvestigatorTurn", at)
        BY <1>3 DEF DriveOpenTurn
  <2>2. /\ Sound(stack, World) /\ World \in Worlds /\ stack # <<>> /\ FrameOK(Top)
        /\ Top.kind = "InvestigatorTurn" /\ ~(ending /\ CancelledByScenarioEnd(Top))
        BY <2>1, Driving
  <2>3. CASE ReopenPlayerWindow
        BY <2>3, Stutters DEF ReopenPlayerWindow, game
  <2>4. CASE ResumeEndTurn
    <3> DEFINE h == Head(Beneath)
               a == [h EXCEPT !.queue = Append(@, Top.who)]
    <3>1. ending = FALSE /\ World.en = FALSE
          BY <2>2, StillOn
    <3>2. /\ h.kind = World.ph /\ FrameOK(h) /\ Stands(Top, h) /\ Runs(Top, h, World)
          /\ h.kind \in Phases /\ Present(Top, World)
          BY <2>2, <3>1, OverAnchor, Taken DEF Top, Beneath, Sound
    <3>3. h.kind = "Investigation" /\ h.at = "TurnBegins" /\ phase = "Investigation"
          BY <2>2, <3>2 DEF Stands, World
    <3>4. Idle(h, World)
          BY <2>2, <3>2 DEF Runs, Asked
    <3>5. Elems(taken) = Elems(h.queue) \cup {Top.who} /\ Top.who \in Investigators
          BY <2>2, <3>2, <3>3, <3>4 DEF Idle, World, Present, FrameOK
    <3>6. /\ h \in FrameSet /\ Append(h.queue, Top.who) \in Seq(Investigators)
          /\ Elems(Append(h.queue, Top.who)) = Elems(h.queue) \cup {Top.who}
      <4>1. h \in FrameSet /\ h.queue \in Seq(Investigators)
            BY <3>2 DEF FrameOK, FrameSet
      <4> QED BY <3>5, <4>1, ElemsOf
    <3>7. a.queue = Append(h.queue, Top.who)
      <4> HIDE DEF h
      <4> QED BY <3>6 DEF FrameSet
    <3>8. NextInvestigatorTurn(a, Tail(Beneath)) /\ UNCHANGED <<status, phase, ending>>
          BY <2>4 DEF ResumeEndTurn
    <3> HIDE DEF a, h
    <3> QED BY <2>2, <3>1, <3>3, <3>5, <3>6, <3>7, <3>8, NextTurnIsAPart
  <2> QED BY <1>3, <2>3, <2>4 DEF DriveOpenTurn
<1> QED BY <1>1, <1>2, <1>3

\* One who has their part still before them.
LEMMA DueIsUntaken ==
    ASSUME World \in Worlds, NEW i \in Investigators, Before(i, World)
    PROVE  /\ i \notin Elems(taken)
           /\ \A j \in Active(status) : Position(j) < Position(i) => j \in Elems(taken)
<1>1. \A j \in Elems(taken) : Position(j) < Position(i)
      BY DEF Before, World
<1>2. Position(i) \in Nat
      BY Seats
<1>3. i \notin Elems(taken)
      BY <1>1, <1>2
<1> QED BY <1>3 DEF Before, World

LEMMA AttackParts ==
    ASSUME IndInv, ResolveAttacksForInvestigator
    PROVE  [Sequence!Next]_(Sequence!vars)
<1>1. Drives("Enemy", "BeforeInvestigatorAttacked") /\ "Enemy" \in Phases
      BY DEF ResolveAttacksForInvestigator, Phases
<1>2. /\ Top.at = "BeforeInvestigatorAttacked" /\ ending = FALSE /\ World \in Worlds
      /\ Idle(Top, World) /\ FrameOK(Top)
      BY <1>1, AnchorDriving
<1>3. Top.who \in Investigators /\ Before(Top.who, World)
      BY <1>2 DEF FrameOK, Idle
<1>4. /\ taken' = IF Top.who \in Active(status) THEN Append(taken, Top.who) ELSE taken
      /\ UNCHANGED <<status, phase, ending>>
      BY DEF ResolveAttacksForInvestigator
<1>5. CASE Top.who \in Active(status)
      BY <1>2, <1>3, <1>4, <1>5, DueIsUntaken, PartTaken
<1>6. CASE Top.who \notin Active(status)
      BY <1>4, <1>6, Stutters
<1> QED BY <1>5, <1>6

LEMMA DrawParts ==
    ASSUME IndInv, DrawEncounterCard
    PROVE  [Sequence!Next]_(Sequence!vars)
<1>1. Drives("PlayerDraw", "Draws")
      BY DEF DrawEncounterCard
<1> DEFINE ed == Head(Beneath)
           i == Top.who
<1>2. /\ World \in Worlds /\ ending = FALSE /\ Top.kind = "PlayerDraw"
      /\ i = Head(ed.queue) /\ Runs(Top, ed, World) /\ ed.kind = "EncounterDraw"
      /\ Runs(ed, Head(Tail(Beneath)), World)
      /\ ed.queue \in Seq(Investigators) /\ ed.queue # <<>> /\ Increasing(ed.queue)
      BY <1>1, DrawUnderWay
<1>3. /\ taken' = IF Top.n = 0 THEN Append(taken, i) ELSE taken
      /\ UNCHANGED <<status, phase, ending>>
      BY DEF DrawEncounterCard
<1> HIDE DEF i, ed
<1>4. CASE Top.n = 0
  <2>1. i \in Active(status) \ Elems(taken)
        BY <1>2, <1>4 DEF Runs, World, i
  <2>2. Active(status) \subseteq Elems(taken) \cup Elems(ed.queue)
        BY <1>2 DEF Runs, World
  <2>3. /\ Elems(ed.queue) = {i} \cup Elems(Tail(ed.queue))
        /\ \A j \in Elems(Tail(ed.queue)) : Position(i) < Position(j)
        BY <1>2, ElemsOf, IncreasingRest
  <2>4. ASSUME NEW j \in Active(status), Position(j) < Position(i) PROVE j \in Elems(taken)
    <3>1. j \in Investigators /\ i \in Investigators
          BY <2>1 DEF Active
    <3>2. Position(j) \in Nat /\ Position(i) \in Nat
          BY <3>1, Seats
    <3>3. j # i /\ ~(Position(i) < Position(j))
          BY <2>4, <3>2
    <3> QED BY <2>2, <2>3, <3>3
  <2> QED BY <1>2, <1>3, <1>4, <2>1, <2>4, PartTaken
<1>5. CASE Top.n # 0
      BY <1>3, <1>5, Stutters
<1> QED BY <1>4, <1>5

LEMMA UpkeepParts ==
    ASSUME IndInv, UpkeepDraws
    PROVE  [Sequence!Next]_(Sequence!vars)
<1>1. PICK at \in {"AfterReady", "Drawing"} : Drives("Upkeep", at)
      BY DEF UpkeepDraws
<1>2. ending = FALSE /\ World \in Worlds /\ World.st = status
      BY <1>1, AnchorDriving DEF Phases, World
<1> DEFINE d == NextDrawer
<1>3. /\ d # None /\ taken' = Append(taken, d) /\ UNCHANGED <<status, phase, ending>>
      BY DEF UpkeepDraws
<1>4. d \in Active(World.st) /\ d \in Investigators /\ Before(d, World)
      BY <1>1, <1>3, DrawerIsDue
<1> HIDE DEF d
<1>5. /\ d \notin Elems(taken)
      /\ \A j \in Active(status) : Position(j) < Position(d) => j \in Elems(taken)
      BY <1>2, <1>4, DueIsUntaken
<1> QED BY <1>2, <1>3, <1>4, <1>5, PartTaken

\* A phase gives way to the next only when everybody has taken their part of it.
LEMMA PhaseParts ==
    ASSUME IndInv, EndPhase
    PROVE  Sequence!Next
<1>1. PICK p \in Phases, at \in {"AfterPhaseEndForced", "AfterRoundEnd"} :
         Transition(p, at, Sequence!Following(p))
      BY DEF EndPhase, Phases, Sequence!Following
<1>2. Drives(p, at) /\ phase' = Sequence!Following(p) /\ taken' = <<>> /\ UNCHANGED <<status, ending>>
      BY <1>1 DEF Transition
<1>3. /\ Top.at = at /\ phase = p /\ ending = FALSE /\ World \in Worlds /\ Idle(Top, World)
      /\ Active(status) # {}
      BY <1>2, AnchorDriving
<1>4. Active(status) \subseteq Sequence!Elems(taken)
      BY <1>3 DEF Idle, Done, World, Elems, Sequence!Elems
<1>5. Active(status)' = Active(status)
      BY <1>2 DEF Active
<1>6. Sequence!NextPhase
      BY <1>2, <1>3, <1>4, <1>5 DEF Sequence!NextPhase
<1> QED BY <1>6 DEF Sequence!Next

\* The ending latches, with the last to go or without.
LEMMA EndParts ==
    ASSUME IndInv, AbilityEndsScenario \/ RunSteps \/ AbilityEliminates
    PROVE  [Sequence!Next]_(Sequence!vars)
<1>1. ending \in BOOLEAN /\ status \in [Investigators -> {"Active", "Eliminated"}]
      BY DEF IndInv, World, Worlds
<1>2. CASE AbilityEndsScenario
  <2>1. ~ending /\ ending' = TRUE /\ UNCHANGED <<status, phase, taken>>
        BY <1>2 DEF AbilityEndsScenario
  <2>2. Active(status)' = Active(status)
        BY <2>1 DEF Active
  <2> QED BY <2>1, <2>2 DEF Sequence!Next, Sequence!End
<1>3. CASE RunSteps
  <2>1. ending' = (ending \/ AllOut(Active(status))) /\ UNCHANGED <<status, phase, taken>>
        BY <1>3 DEF RunSteps, RunEliminationSteps
  <2>2. Active(status)' = Active(status)
        BY <2>1 DEF Active
  <2>3. CASE ending' = ending
        BY <2>1, <2>3, Stutters
  <2>4. CASE ending' # ending
    <3>1. ~ending /\ ending' = TRUE
          BY <1>1, <2>1, <2>4 DEF AllOut
    <3> QED BY <2>1, <2>2, <3>1 DEF Sequence!Next, Sequence!End
  <2> QED BY <2>3, <2>4
<1>4. CASE AbilityEliminates
  <2>1. PICK i \in Active(status) : ApplyInvestigatorElimination(i, Beneath)
        BY <1>4 DEF AbilityEliminates
  <2>2. UNCHANGED <<phase, taken>> /\ status' = [status EXCEPT ![i] = "Eliminated"]
        BY <1>4, <2>1 DEF AbilityEliminates, ApplyInvestigatorElimination
  <2>3. Active(status)' = Active(status) \ {i} /\ i \in Investigators
        BY <1>1, <2>2 DEF Active
  <2>4. ending' = ending \/ ending' = (ending \/ AllOut(Active(status) \ {i}))
        BY <2>1 DEF ApplyInvestigatorElimination, RunEliminationSteps
  <2>5. ending' \in {ending, ending \/ Active(status)' = {}}
        BY <2>3, <2>4 DEF AllOut
  <2>6. i \in Sequence!Everyone
        BY <2>3 DEF Sequence!Everyone, Sequence!Elems, Investigators, Elems
  <2>7. Sequence!Out(i)
        BY <2>2, <2>3, <2>5 DEF Sequence!Out
  <2> QED BY <2>6, <2>7 DEF Sequence!Next
<1> QED BY <1>2, <1>3, <1>4

\* What the other steps leave alone.
Quiet == UNCHANGED <<status, phase, ending, taken>>

LEMMA GameQuiet == ASSUME UNCHANGED game PROVE Quiet
BY DEF game, Quiet

LEMMA QuietDrive ==
    ASSUME Drive,
           ~(AbilityEndsScenario \/ RunSteps \/ AbilityEliminates \/ EndPhase),
           ~(DrawEncounterCard \/ InvestigationBegins \/ DriveOpenTurn),
           ~(ResolveAttacksForInvestigator \/ UpkeepDraws)
    PROVE  Quiet
<1> SUFFICES UNCHANGED game BY GameQuiet
<1>1. CASE Cancel \/ Rest \/ CloseWindow \/ EmitGameEnd \/ FinalizeScenarioEnd
      BY <1>1 DEF Cancel, Rest, CloseWindow, EmitGameEnd, FinalizeScenarioEnd
<1>2. CASE DispatchEmitEvent \/ EmitDone \/ AbilityDone \/ AbilityAdvances
      BY <1>2 DEF DispatchEmitEvent, EmitDone, AbilityDone, AbilityAdvances
<1>3. CASE Announce \/ FireReverse \/ FinalizeAdvance \/ FireWeaknessGameEnd
      BY <1>3 DEF Announce, FireReverse, FinalizeAdvance, FireWeaknessGameEnd
<1>4. CASE BeginPhase \/ OpenWindow \/ MythosAfterPhaseStart \/ RunMythosDraws \/ MythosPhaseEnd
      BY <1>4 DEF BeginPhase, OpenWindow, MythosAfterPhaseStart, RunMythosDraws, MythosPhaseEnd
<1>5. CASE DisposeEncounterCard \/ AdvanceEncounterDraw \/ OpenTurn \/ ResumeActionResolution
      BY <1>5 DEF DisposeEncounterCard, AdvanceEncounterDraw, OpenTurn, ResumeActionResolution
<1>6. CASE DriveParkedAttackLoop \/ EnemyHuntersAfter \/ EnemyPhaseEnd
      BY <1>6 DEF DriveParkedAttackLoop, EnemyHuntersAfter, EnemyPhaseEnd
<1>7. CASE ReadyExhausted \/ UpkeepAfterDraw \/ UpkeepRoundEnd
      BY <1>7 DEF ReadyExhausted, UpkeepAfterDraw, UpkeepRoundEnd
<1> QED BY <1>1, <1>2, <1>3, <1>4, <1>5, <1>6, <1>7 DEF Drive

LEMMA QuietAnswer == ASSUME Answer, ~ResumeTurnChoice PROVE Quiet
<1> SUFFICES UNCHANGED game BY GameQuiet
<1>1. CASE ResumeMulligan \/ ResumeAbility \/ ResumeAdvance \/ ResumeWindow \/ ResumeEncounterDraw
      BY <1>1 DEF ResumeMulligan, ResumeAbility, ResumeAdvance, ResumeWindow, ResumeEncounterDraw
<1>2. CASE EndTurn \/ TakeAction \/ PlayAtOpenTurn \/ TakeProvokingAction
      BY <1>2 DEF EndTurn, TakeAction, PlayAtOpenTurn, TakeProvokingAction
<1>3. CASE ResumeAttackOrderPick \/ ResumeHunterChoice \/ ResumeEngagementTie \/ ResumeHandSizeDiscard
      BY <1>3 DEF ResumeAttackOrderPick, ResumeHunterChoice, ResumeEngagementTie,
                  ResumeHandSizeDiscard
<1> QED BY <1>1, <1>2, <1>3 DEF Answer

LEMMA SequenceBegins == Init => Sequence!Init
<1> SUFFICES ASSUME Init PROVE Sequence!Init
    OBVIOUS
<1>1. Active(status) = Investigators
      BY DEF Init, Active
<1>2. Sequence!Everyone = Investigators
      BY DEF Sequence!Everyone, Sequence!Elems, Investigators, Elems
<1> QED BY <1>1, <1>2 DEF Init, Sequence!Init

LEMMA SequenceNext == IndInv /\ [Next]_vars => [Sequence!Next]_(Sequence!vars)
<1> SUFFICES ASSUME IndInv, [Next]_vars PROVE [Sequence!Next]_(Sequence!vars)
    OBVIOUS
<1>1. CASE Quiet
      BY <1>1, Stutters DEF Quiet
<1>2. CASE UNCHANGED vars
      BY <1>1, <1>2, GameQuiet DEF vars
<1>3. CASE GameOver
      BY <1>2, <1>3 DEF GameOver
<1>4. CASE Drive
  <2>1. CASE AbilityEndsScenario \/ RunSteps \/ AbilityEliminates
        BY <2>1, EndParts
  <2>2. CASE EndPhase
        BY <2>2, PhaseParts
  <2>3. CASE DrawEncounterCard
        BY <2>3, DrawParts
  <2>4. CASE InvestigationBegins \/ DriveOpenTurn
        BY <2>4, TurnParts
  <2>5. CASE ResolveAttacksForInvestigator
        BY <2>5, AttackParts
  <2>6. CASE UpkeepDraws
        BY <2>6, UpkeepParts
  <2> QED BY <1>1, <1>4, <2>1, <2>2, <2>3, <2>4, <2>5, <2>6, QuietDrive
<1>5. CASE Answer
  <2>1. CASE ResumeTurnChoice
        BY <2>1, TurnParts
  <2> QED BY <1>1, <1>5, <2>1, QuietAnswer
<1> QED BY <1>2, <1>3, <1>4, <1>5 DEF Next

------------------------------------------------------------------------------
(* The theorems. *)

\* Whatever is answered and whatever the abilities do, every frame of the
\* continuation stack is at a step of its kind, with its counts and queue in bounds,
\* and stands on the frame its driver pops it onto (pop_expect, top_expect and
\* topmost_of never panic), and no anchor covers an ability an emit has queued.
THEOREM StackStands == Spec => []StackInPlace
<1>1. IndInv => StackInPlace
      BY TypesFollow, PlacesFollow DEF StackInPlace
<1> QED BY <1>1, Inductive, PTL

\* An apply comes to rest only over a prompt the ending has not cancelled, or with
\* the scenario over and its stack empty (where apply_via stops).
THEOREM RestsAtPrompts == Spec => []AtRest
<1>1. IndInv => AtRest
      BY DEF IndInv
<1> QED BY <1>1, Inductive, PTL

\* The ending latches once, its frame under everything else for as long as there is
\* a stack, and with nobody left in the game it has latched or an elimination is
\* still to latch it (end_scenario, check_all_eliminated).
THEOREM EndingStaysAtBottom == Spec => []EndingAtBottom
<1>1. IndInv => EndingAtBottom
      BY EndingFollows
<1> QED BY <1>1, Inductive, PTL

\* Nobody who is out is asked for a mythos draw, a turn, a discard or the order of
\* the attacks on them, eliminated though they were while others were asked.
THEOREM TheLivingAreAsked == Spec => []FrameworkAsksTheLiving
<1>1. IndInv => FrameworkAsksTheLiving
      BY LivingFollow
<1> QED BY <1>1, Inductive, PTL

\* The drive loop implements the rounds the framework promises: whoever is in the
\* game takes each phase's part exactly once and in player order, whatever
\* interrupts, before the phase gives way to the next.
THEOREM RoundsFollow == Spec => ImplementsSequence
<1>1. Init => Sequence!Init
      BY SequenceBegins
<1>2. IndInv /\ [Next]_vars => [Sequence!Next]_(Sequence!vars)
      BY SequenceNext
<1> QED BY <1>1, <1>2, Inductive, PTL DEF Spec, ImplementsSequence, Sequence!Spec

================================================================================
