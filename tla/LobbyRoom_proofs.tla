--------------------------- MODULE LobbyRoom_proofs ---------------------------
(***************************************************************************)
(* The room implements the lobby, for any accounts, connections and rules. *)
(*                                                                         *)
(* What the rules keep true of a game is proved of one change at a time,   *)
(* from what Kept computes, which takes an induction.  Under the lock the  *)
(* room's game is what is stored, so a copy made from the room differs     *)
(* from what is stored by one command, and what the transaction writes is  *)
(* the copy.  A room that a dropped DELETE left serving holds more than    *)
(* its rows: what is then written is members, or a game that Start made.   *)
(***************************************************************************)
EXTENDS LobbyRoom, Integers, SequenceTheorems, FiniteSetTheorems, WellFoundedInduction,
        TLAPS

-------------------------------------------------------------------------------
(* What a lobby's rules keep true *)

\* Induction over the naturals, said of a set so that it can be cited: a set of
\* naturals that held back a least one would, with it, make an infinite descent.
LEMMA NatInduct ==
    ASSUME NEW T \in SUBSET Nat, 0 \in T, \A n \in T : n + 1 \in T
    PROVE  T = Nat
<1>1. SUFFICES ASSUME NEW t \in Nat \ T PROVE FALSE
      OBVIOUS
<1> DEFINE S == 0..t
           F == {0..k : k \in {n \in Nat \ T : n <= t}}
<1>2. IsWellFoundedOn(StrictSubsetOrdering(S), SUBSET S)
  <2>1. IsFiniteSet(S)
        BY FS_Interval
  <2> QED BY <2>1, FS_FiniteSubsetsOfFinite, FS_StrictSubsetOrderingWellFounded
<1>3. PICK x \in F : \A y \in F : ~(<<y, x>> \in StrictSubsetOrdering(S))
  <2>1. F \subseteq SUBSET S /\ F # {}
        BY <1>1
  <2> HIDE DEF F, S
  <2> QED BY <1>2, <2>1, WFMin
<1>4. PICK m \in Nat \ T : m <= t /\ x = 0..m
      BY <1>3
<1>5. m - 1 \in Nat \ T
      BY <1>4
<1>6. /\ 0..(m - 1) \in F
      /\ 0..(m - 1) \subseteq 0..m /\ 0..(m - 1) # 0..m
      /\ F \subseteq SUBSET S
      BY <1>4, <1>5
<1>7. <<0..(m - 1), x>> \in StrictSubsetOrdering(S)
      BY <1>4, <1>6, Zenon DEF StrictSubsetOrdering
<1> QED BY <1>3, <1>6, <1>7

\* What Kept computes: the elements that are not gone, in their order.
LEMMA KeptProperties ==
    ASSUME NEW S, NEW s \in Seq(S), NEW gone
    PROVE  /\ Kept(s, gone) \in Seq(S)
           /\ Len(Kept(s, gone)) <= Len(s)
           /\ ToSet(Kept(s, gone)) = ToSet(s) \ gone
           /\ \E place \in [DOMAIN Kept(s, gone) -> DOMAIN s] :
                 /\ \A k \in DOMAIN Kept(s, gone) : Kept(s, gone)[k] = s[place[k]]
                 /\ \A j, k \in DOMAIN Kept(s, gone) : j < k => place[j] < place[k]
<1> DEFINE Body(f, i) == IF i = 0 THEN <<>>
                         ELSE IF s[i] \in gone THEN f[i - 1] ELSE Append(f[i - 1], s[i])
           kept[i \in 0..Len(s)] ==
               IF i = 0 THEN <<>>
               ELSE IF s[i] \in gone THEN kept[i - 1] ELSE Append(kept[i - 1], s[i])
<1>1. Len(s) \in Nat /\ DOMAIN s = 1..Len(s)
      BY LenProperties
<1>2. kept = [i \in 0..Len(s) |-> Body(kept, i)]
  <2> DEFINE Computed == {n \in Nat : \E f : f = [i \in 0..n |-> Body(f, i)]}
  <2>1. 0 \in Computed
    <3> DEFINE f == [i \in 0..0 |-> <<>>]
    <3>1. f = [i \in 0..0 |-> Body(f, i)]
          OBVIOUS
    <3> HIDE DEF f
    <3> QED BY <3>1
  <2>2. ASSUME NEW n \in Computed PROVE n + 1 \in Computed
    <3>1. PICK f : f = [i \in 0..n |-> Body(f, i)]
          BY <2>2
    <3> DEFINE g == [i \in 0..(n + 1) |-> IF i = n + 1 THEN Body(f, i) ELSE f[i]]
    <3>2. ASSUME NEW i \in 0..(n + 1) PROVE g[i] = Body(g, i)
      <4>1. CASE i = 0
            BY <3>1, <4>1
      <4>2. CASE i \in 1..n
        <5>1. g[i] = f[i] /\ g[i - 1] = f[i - 1]
              BY <4>2
        <5>2. f[i] = Body(f, i)
          <6> HIDE DEF Body
          <6>1. i \in 0..n
                BY <4>2
          <6> QED BY <3>1, <6>1, Zenon
        <5> HIDE DEF g
        <5> QED BY <4>2, <5>1, <5>2
      <4>3. CASE i = n + 1
            BY <4>3
      <4> QED BY <4>1, <4>2, <4>3
    <3>3. g = [i \in 0..(n + 1) |-> Body(g, i)]
      <4> DEFINE h == [i \in 0..(n + 1) |-> Body(g, i)]
      <4>1. \A i \in 0..(n + 1) : h[i] = g[i]
            BY <3>2
      <4>2. DOMAIN g = DOMAIN h /\ DOMAIN h = 0..(n + 1)
            OBVIOUS
      <4> QED BY <3>2
    <3> HIDE DEF g, Body
    <3> QED BY <3>3
  <2>3. Len(s) \in Computed
    <3> HIDE DEF Computed
    <3>1. Computed \in SUBSET Nat
          BY DEF Computed
    <3> QED BY <1>1, <2>1, <2>2, <3>1, NatInduct
  <2>4. PICK f : f = [i \in 0..Len(s) |-> Body(f, i)]
        BY <2>3
  <2>5. kept = CHOOSE g : g = [i \in 0..Len(s) |-> Body(g, i)]
        BY DEF kept
  <2> HIDE DEF kept
  <2> QED BY <2>4, <2>5
<1>3. /\ kept[0] = <<>>
      /\ \A i \in 1..Len(s) : kept[i] = IF s[i] \in gone THEN kept[i - 1]
                                       ELSE Append(kept[i - 1], s[i])
  <2>1. \A i \in 0..Len(s) : kept[i] = Body(kept, i)
    <3> HIDE DEF kept, Body
    <3> QED BY <1>2
  <2> HIDE DEF kept
  <2> QED BY <1>1, <2>1
<1>4. Kept(s, gone) = kept[Len(s)]
      BY DEF Kept
<1> DEFINE InPlace(r, n) == \E place \in [DOMAIN r -> 1..n] :
                              /\ \A k \in DOMAIN r : r[k] = s[place[k]]
                              /\ \A j, k \in DOMAIN r : j < k => place[j] < place[k]
           Right(r, n) == /\ r \in Seq(S)
                          /\ Len(r) <= n
                          /\ \A k \in DOMAIN r : r[k] \notin gone
                          /\ \A j \in 1..n : s[j] \notin gone => \E k \in DOMAIN r : r[k] = s[j]
                          /\ InPlace(r, n)
           Done == {n \in Nat : n <= Len(s) => Right(kept[n], n)}
<1> HIDE DEF kept, InPlace, Right, Done
<1>5. 0 \in Done
  <2>1. <<>> \in Seq(S) /\ Len(<<>>) = 0 /\ DOMAIN <<>> = {}
        BY EmptySeq, LenProperties
  <2>2. InPlace(<<>>, 0)
    <3>1. [k \in {} |-> k] \in [DOMAIN <<>> -> 1..0]
          BY <2>1
    <3> QED BY <2>1, <3>1 DEF InPlace
  <2>3. Right(<<>>, 0)
        BY <2>1, <2>2 DEF Right
  <2> QED BY <1>3, <2>3 DEF Done
<1>6. ASSUME NEW n \in Nat, n \in Done PROVE n + 1 \in Done
  <2> SUFFICES ASSUME n + 1 <= Len(s) PROVE Right(kept[n + 1], n + 1)
      BY <1>6 DEF Done
  <2> DEFINE r == kept[n]
             e == s[n + 1]
  <2>1. Right(r, n)
        BY <1>1, <1>6 DEF Done
  <2>2. /\ r \in Seq(S) /\ Len(r) \in Nat /\ DOMAIN r = 1..Len(r) /\ Len(r) <= n
        /\ e \in S
        BY <1>1, <1>6, <2>1, LenProperties, ElementOfSeq DEF Right
  <2>3. PICK f \in [DOMAIN r -> 1..n] : /\ \A k \in DOMAIN r : r[k] = s[f[k]]
                                        /\ \A j, k \in DOMAIN r : j < k => f[j] < f[k]
        BY <2>1 DEF Right, InPlace
  <2>4. /\ \A k \in DOMAIN r : r[k] \notin gone
        /\ \A j \in 1..n : s[j] \notin gone => \E k \in DOMAIN r : r[k] = s[j]
        BY <2>1 DEF Right
  <2>5. kept[n + 1] = IF e \in gone THEN r ELSE Append(r, e)
        BY <1>1, <1>3
  <2> HIDE DEF r, e
  <2>6. \A j \in 1..(n + 1) : j = n + 1 \/ j \in 1..n
        OBVIOUS
  <2>7. CASE e \in gone
    <3>1. f \in [DOMAIN r -> 1..(n + 1)]
          BY <2>2
    <3>2. InPlace(r, n + 1)
          BY <2>3, <3>1 DEF InPlace
    <3>3. \A j \in 1..(n + 1) : s[j] \notin gone => \E k \in DOMAIN r : r[k] = s[j]
          BY <2>4, <2>6, <2>7 DEF e
    <3>4. Right(r, n + 1)
          BY <2>2, <2>4, <3>2, <3>3 DEF Right
    <3> QED BY <2>5, <2>7, <3>4
  <2>8. CASE e \notin gone
    <3> DEFINE t == Append(r, e)
    <3>1. /\ t \in Seq(S) /\ Len(t) = Len(r) + 1 /\ DOMAIN t = 1..(Len(r) + 1)
          /\ \A k \in 1..Len(r) : t[k] = r[k]
          /\ t[Len(r) + 1] = e
          BY <2>2, AppendProperties, LenProperties
    <3> HIDE DEF t
    <3> DEFINE g == [k \in DOMAIN t |-> IF k = Len(r) + 1 THEN n + 1 ELSE f[k]]
    <3>2. g \in [DOMAIN t -> 1..(n + 1)]
          BY <2>2, <3>1
    <3>3. \A k \in DOMAIN t : t[k] = s[g[k]]
          BY <2>2, <2>3, <3>1 DEF e
    <3>4. \A j, k \in DOMAIN t : j < k => g[j] < g[k]
          BY <2>2, <2>3, <3>1
    <3> HIDE DEF g
    <3>5. InPlace(t, n + 1)
          BY <3>2, <3>3, <3>4 DEF InPlace
    <3>6. \A k \in DOMAIN t : t[k] \notin gone
          BY <2>2, <2>4, <2>8, <3>1
    <3>7. \A j \in 1..(n + 1) : s[j] \notin gone => \E k \in DOMAIN t : t[k] = s[j]
      <4>1. s[n + 1] = e /\ Len(r) + 1 \in DOMAIN t
            BY <2>2, <3>1 DEF e
      <4>2. \A k \in DOMAIN r : k \in DOMAIN t /\ t[k] = r[k]
            BY <2>2, <3>1
      <4> QED BY <2>4, <2>6, <3>1, <4>1, <4>2
    <3>8. Right(t, n + 1)
          BY <2>2, <3>1, <3>5, <3>6, <3>7 DEF Right
    <3> QED BY <2>5, <2>8, <3>8 DEF t
  <2> QED BY <2>7, <2>8
<1>7. Right(Kept(s, gone), Len(s))
  <2>1. Done \in SUBSET Nat
        BY DEF Done
  <2>2. Len(s) \in Done
        BY <1>1, <1>5, <1>6, <2>1, NatInduct
  <2> QED BY <1>1, <1>4, <2>2 DEF Done
<1>8. ToSet(Kept(s, gone)) = ToSet(s) \ gone
  <2>1. \A k \in DOMAIN Kept(s, gone) : \E j \in DOMAIN s : Kept(s, gone)[k] = s[j]
        BY <1>1, <1>7 DEF Right, InPlace
  <2>2. \A j \in DOMAIN s : s[j] \notin gone =>
             \E k \in DOMAIN Kept(s, gone) : Kept(s, gone)[k] = s[j]
        BY <1>1, <1>7 DEF Right
  <2>3. \A k \in DOMAIN Kept(s, gone) : Kept(s, gone)[k] \notin gone
        BY <1>7 DEF Right
  <2> QED BY <2>1, <2>2, <2>3 DEF ToSet
<1> QED BY <1>1, <1>7, <1>8 DEF Right, InPlace

\* What the rules keep true of a game.
Sound(g) == g \in Game /\ LeadIsAPick(g) /\ PicksFit(g)

LEMMA GameFields ==
    ASSUME NEW g \in Game
    PROVE  /\ g.members \in Seq(Accounts) /\ g.picks \in Seq(Pick) /\ g.seats \in Seq(Pick)
           /\ g.lead \in Investigators \cup {NoLead} /\ g.leader \in Nat
           /\ g.phase \in {"lobby", "live", "deleted"}
           /\ Len(g.picks) \in Nat /\ DOMAIN g.picks = 1..Len(g.picks)
           /\ \A k \in DOMAIN g.picks : g.picks[k] \in Pick
BY LenProperties, ElementOfSeq DEF Game

\* The game without some of its picks is as sound as it was.
LEMMA WithoutSound ==
    ASSUME LobbyAssumption, NEW g, Sound(g), NEW gone
    PROVE  Sound(Without(g, gone))
<1> DEFINE picks == Kept(g.picks, gone)
           first == IF picks = <<>> THEN NoLead ELSE picks[1].investigator
           lead == IF \E p \in gone : p.investigator = g.lead THEN first ELSE g.lead
           h == [g EXCEPT !.picks = picks, !.lead = lead]
<1>1. g \in Game
      BY DEF Sound
<1>2. /\ picks \in Seq(Pick) /\ Len(picks) <= Len(g.picks)
      /\ ToSet(picks) = ToSet(g.picks) \ gone
      /\ \E place \in [DOMAIN picks -> DOMAIN g.picks] :
            /\ \A k \in DOMAIN picks : picks[k] = g.picks[place[k]]
            /\ \A j, k \in DOMAIN picks : j < k => place[j] < place[k]
  <2>1. g.picks \in Seq(Pick)
        BY <1>1, GameFields
  <2> DEFINE s == g.picks
  <2>2. s \in Seq(Pick)
        BY <2>1
  <2> HIDE DEF s, picks, first, lead, h
  <2>3. picks = Kept(s, gone)
        BY DEF s, picks
  <2>4. /\ Kept(s, gone) \in Seq(Pick) /\ Len(Kept(s, gone)) <= Len(s)
        /\ ToSet(Kept(s, gone)) = ToSet(s) \ gone
        BY <2>2, KeptProperties
  <2>5. \E place \in [DOMAIN Kept(s, gone) -> DOMAIN s] :
            /\ \A k \in DOMAIN Kept(s, gone) : Kept(s, gone)[k] = s[place[k]]
            /\ \A j, k \in DOMAIN Kept(s, gone) : j < k => place[j] < place[k]
        BY <2>2, KeptProperties, Zenon
  <2> QED BY <2>3, <2>4, <2>5 DEF s
<1>3. /\ Len(picks) \in Nat /\ DOMAIN picks = 1..Len(picks)
      /\ \A k \in DOMAIN picks : picks[k] \in Pick
      /\ picks # <<>> => 1 \in DOMAIN picks
      BY <1>2, LenProperties, ElementOfSeq, EmptySeq
<1>4. h = Without(g, gone)
      BY DEF Without
<1> HIDE DEF picks
<1>5. lead \in Investigators \cup {NoLead}
      BY <1>1, <1>3, GameFields DEF Pick
<1>6. h \in Game
  <2> HIDE DEF lead
  <2> QED BY <1>1, <1>2, <1>5 DEF Game
<1>7. /\ h.picks = picks /\ h.lead = lead
      /\ h.members = g.members /\ h.phase = g.phase
      BY <1>1 DEF Game
<1>8. LeadIsAPick(h)
  <2>1. ASSUME picks = <<>> PROVE lead = NoLead
    <3>1. CASE \E p \in gone : p.investigator = g.lead
          BY <2>1, <3>1
    <3>2. CASE ~\E p \in gone : p.investigator = g.lead
      <4>1. ToSet(g.picks) \subseteq gone
            BY <1>2, <1>3, <2>1, EmptySeq DEF ToSet
      <4>2. g.lead \notin Picked(g)
            BY <3>2, <4>1 DEF Picked
      <4> QED BY <3>2, <4>2 DEF Sound, LeadIsAPick
    <3> QED BY <3>1, <3>2
  <2>2. ASSUME picks # <<>> PROVE lead \in {p.investigator : p \in ToSet(picks)}
    <3>1. CASE \E p \in gone : p.investigator = g.lead
      <4>1. lead = picks[1].investigator /\ picks[1] \in ToSet(picks)
            BY <1>3, <2>2, <3>1 DEF ToSet
      <4> QED BY <4>1
    <3>2. CASE ~\E p \in gone : p.investigator = g.lead
      <4>1. g.picks # <<>>
            BY <1>1, <1>2, <1>3, <2>2, GameFields, EmptySeq
      <4>2. PICK p \in ToSet(g.picks) : p.investigator = g.lead
            BY <4>1 DEF Sound, LeadIsAPick, Picked
      <4>3. p \in ToSet(picks)
            BY <1>2, <3>2, <4>2
      <4> QED BY <3>2, <4>2, <4>3
    <3> QED BY <3>1, <3>2
  <2> HIDE DEF lead, h
  <2> QED BY <1>7, <2>1, <2>2 DEF LeadIsAPick, Picked
<1>9. PicksFit(h)
  <2>1. Len(picks) <= MaxPicks
        BY <1>1, <1>2, <1>3, GameFields, LobbyAssumption DEF Sound, PicksFit
  <2>2. ASSUME NEW j \in DOMAIN picks, NEW k \in DOMAIN picks,
               picks[j].investigator = picks[k].investigator
        PROVE  j = k
    <3>1. PICK place \in [DOMAIN picks -> DOMAIN g.picks] :
             /\ \A n \in DOMAIN picks : picks[n] = g.picks[place[n]]
             /\ \A m, n \in DOMAIN picks : m < n => place[m] < place[n]
          BY <1>2
    <3>2. place[j] = place[k]
          BY <2>2, <3>1 DEF Sound, PicksFit
    <3>3. place[j] \in Nat /\ place[k] \in Nat
          BY <1>1, <3>1, GameFields
    <3> QED BY <1>3, <3>1, <3>2, <3>3
  <2> HIDE DEF h
  <2> QED BY <1>7, <2>1, <2>2 DEF PicksFit
<1> QED BY <1>4, <1>6, <1>8, <1>9 DEF Sound

LEMMA TakeSound ==
    ASSUME LobbyAssumption, NEW g, Sound(g), NEW a \in Accounts, NEW i \in Investigators, NEW h,
           Take(g, a, i, h)
    PROVE  Sound(h)
<1> DEFINE pick == [investigator |-> i, account |-> a, weakness |-> "fixed"]
           picks == Append(g.picks, pick)
<1>1. g \in Game
      BY DEF Sound
<1>2. /\ g.picks \in Seq(Pick) /\ Len(g.picks) \in Nat /\ DOMAIN g.picks = 1..Len(g.picks)
      /\ pick \in Pick
      BY <1>1, GameFields DEF Pick, Weaknesses
<1>3. /\ picks \in Seq(Pick) /\ picks # <<>> /\ Len(picks) = Len(g.picks) + 1
      /\ DOMAIN picks = 1..(Len(g.picks) + 1)
      /\ \A k \in DOMAIN g.picks : picks[k] = g.picks[k]
      /\ picks[Len(g.picks) + 1] = pick
  <2> HIDE DEF pick
  <2> QED BY <1>2, AppendProperties, LenProperties
<1>4. h = [g EXCEPT !.picks = picks, !.lead = IF g.lead = NoLead THEN i ELSE g.lead]
      BY DEF Take
<1> HIDE DEF picks
<1>5. h \in Game
      BY <1>1, <1>3, <1>4, GameFields DEF Game
<1>6. /\ h.picks = picks /\ h.lead = (IF g.lead = NoLead THEN i ELSE g.lead)
      /\ h.members = g.members /\ h.phase = g.phase
      BY <1>1, <1>4 DEF Game
<1>7. ToSet(picks) = ToSet(g.picks) \cup {pick}
      BY <1>2, <1>3 DEF ToSet
<1>8. LeadIsAPick(h)
  <2>1. Picked(h) = Picked(g) \cup {i}
    <3>1. pick.investigator = i
          OBVIOUS
    <3> HIDE DEF pick
    <3> QED BY <1>6, <1>7, <3>1 DEF Picked
  <2>2. g.lead # NoLead => g.lead \in Picked(g)
        BY DEF Sound, LeadIsAPick
  <2> QED BY <1>3, <1>6, <2>1, <2>2 DEF LeadIsAPick
<1>9. PicksFit(h)
  <2>1. \A k \in DOMAIN g.picks : g.picks[k].investigator # i
        BY DEF Take, Picked, ToSet
  <2>2. Len(g.picks) + 1 <= MaxPicks
        BY <1>2, LobbyAssumption DEF Take
  <2>3. ASSUME NEW j \in DOMAIN picks, NEW k \in DOMAIN picks,
               picks[j].investigator = picks[k].investigator
        PROVE  j = k
    <3>1. CASE j \in DOMAIN g.picks /\ k \in DOMAIN g.picks
          BY <1>3, <2>3, <3>1 DEF Sound, PicksFit
    <3>2. CASE ~(j \in DOMAIN g.picks /\ k \in DOMAIN g.picks)
          BY <1>2, <1>3, <2>1, <2>3, <3>2
    <3> QED BY <3>1, <3>2
  <2> QED BY <1>3, <1>6, <2>2, <2>3 DEF PicksFit
<1> QED BY <1>5, <1>8, <1>9 DEF Sound

\* Picks set anew at places they had: by investigator, none is added or dropped.
LEMMA SameInvestigators ==
    ASSUME NEW g, Sound(g), NEW picks \in Seq(Pick), Len(picks) = Len(g.picks),
           NEW to \in [DOMAIN g.picks -> DOMAIN g.picks],
           \A k \in DOMAIN g.picks : to[to[k]] = k
                                     /\ picks[k].investigator = g.picks[to[k]].investigator
    PROVE  Sound([g EXCEPT !.picks = picks])
<1> DEFINE h == [g EXCEPT !.picks = picks]
<1>1. g \in Game
      BY DEF Sound
<1>2. /\ h \in Game /\ h.picks = picks /\ h.lead = g.lead
      /\ h.members = g.members /\ h.phase = g.phase
      BY <1>1 DEF Game
<1>3. DOMAIN picks = DOMAIN g.picks
      BY <1>1, GameFields, LenProperties
<1> HIDE DEF h
<1>4. Picked(h) = Picked(g)
  <2>1. \A k \in DOMAIN g.picks : \E j \in DOMAIN g.picks :
            /\ picks[k].investigator = g.picks[j].investigator
            /\ picks[j].investigator = g.picks[k].investigator
        OBVIOUS
  <2>2. Picked(h) = {picks[k].investigator : k \in DOMAIN g.picks}
        BY <1>2, <1>3 DEF Picked, ToSet
  <2>3. Picked(g) = {g.picks[k].investigator : k \in DOMAIN g.picks}
        BY DEF Picked, ToSet
  <2>4. Picked(h) \subseteq Picked(g) /\ Picked(g) \subseteq Picked(h)
        BY <2>1, <2>2, <2>3
  <2> QED BY <2>4
<1>5. picks = <<>> <=> g.picks = <<>>
      BY <1>1, GameFields, EmptySeq
<1>6. PicksFit(h)
  <2>1. \A j, k \in DOMAIN g.picks : g.picks[j].investigator = g.picks[k].investigator => j = k
        BY DEF Sound, PicksFit
  <2>2. ASSUME NEW j \in DOMAIN picks, NEW k \in DOMAIN picks,
               picks[j].investigator = picks[k].investigator
        PROVE  j = k
    <3>1. to[j] \in DOMAIN g.picks /\ to[k] \in DOMAIN g.picks
          BY <1>3
    <3>2. g.picks[to[j]].investigator = g.picks[to[k]].investigator
          BY <1>3, <2>2
    <3>3. to[j] = to[k]
          BY <2>1, <3>1, <3>2
    <3> QED BY <1>3, <3>3
  <2>3. Len(picks) <= MaxPicks
        BY DEF Sound, PicksFit
  <2> QED BY <1>2, <2>2, <2>3 DEF PicksFit
<1> QED BY <1>2, <1>4, <1>5, <1>6 DEF h, Sound, LeadIsAPick

\* Where the lead of a lobby with picks sits.
LEMMA LeadSits ==
    ASSUME NEW g, Sound(g), g.picks # <<>>
    PROVE  LeadPosition(g) \in DOMAIN g.picks /\ g.picks[LeadPosition(g)].investigator = g.lead
<1> DEFINE leads == {k \in DOMAIN g.picks : g.picks[k].investigator = g.lead}
<1>1. g \in Game
      BY DEF Sound
<1>2. PICK p \in ToSet(g.picks) : p.investigator = g.lead
      BY DEF Sound, LeadIsAPick, Picked
<1>3. PICK k \in DOMAIN g.picks : g.picks[k].investigator = g.lead
      BY <1>2 DEF ToSet
<1>4. leads = {k}
      BY <1>3 DEF Sound, PicksFit
<1>5. LeadPosition(g) = CHOOSE n \in leads : \A m \in leads : n <= m
      BY <1>4 DEF LeadPosition
<1>6. (CHOOSE n \in leads : \A m \in leads : n <= m) = k
  <2>1. k \in Nat
        BY <1>1, GameFields
  <2> HIDE DEF leads
  <2> QED BY <1>4, <2>1
<1> QED BY <1>3, <1>5, <1>6

LEMMA CommandSound ==
    ASSUME LobbyAssumption, NEW g, Sound(g), g.phase = "lobby",
           NEW a \in Accounts, NEW h, Command(g, a, h)
    PROVE  Sound(h)
<1>1. g \in Game /\ g.picks \in Seq(Pick) /\ DOMAIN g.picks = 1..Len(g.picks)
      /\ Len(g.picks) \in Nat /\ \A k \in DOMAIN g.picks : g.picks[k] \in Pick
      BY GameFields DEF Sound
<1>2. ASSUME NEW i \in Investigators, GiveUp(g, a, i, h) PROVE Sound(h)
      BY <1>2, WithoutSound DEF GiveUp
<1>3. ASSUME NEW i \in Investigators, NEW w \in Weaknesses, SetWeakness(g, a, i, w, h)
      PROVE  Sound(h)
  <2>1. PICK k \in DOMAIN g.picks : h = [g EXCEPT !.picks[k].weakness = w]
        BY <1>3 DEF SetWeakness
  <2> DEFINE pick == [g.picks[k] EXCEPT !.weakness = w]
             picks == [g.picks EXCEPT ![k] = pick]
  <2>2. pick \in Pick /\ pick.investigator = g.picks[k].investigator
        BY <1>1 DEF Pick
  <2>3. h = [g EXCEPT !.picks = picks]
        BY <2>1
  <2> HIDE DEF pick
  <2>4. /\ picks \in Seq(Pick) /\ Len(picks) = Len(g.picks)
        /\ \A n \in DOMAIN g.picks : picks[n] = IF n = k THEN pick ELSE g.picks[n]
        BY <1>1, <2>2, ExceptSeq
  <2> HIDE DEF picks
  <2> DEFINE to == [n \in DOMAIN g.picks |-> n]
  <2>5. /\ to \in [DOMAIN g.picks -> DOMAIN g.picks]
        /\ \A n \in DOMAIN g.picks :
              to[to[n]] = n /\ picks[n].investigator = g.picks[to[n]].investigator
        BY <2>2, <2>4
  <2> HIDE DEF to
  <2> QED BY <2>3, <2>4, <2>5, SameInvestigators
<1>4. ASSUME NEW i \in Investigators, NEW d \in Directions, MoveInSeating(g, a, i, d, h)
      PROVE  Sound(h)
  <2>1. PICK k \in DOMAIN g.picks, neighbour \in DOMAIN g.picks :
            /\ k # neighbour
            /\ h = [g EXCEPT !.picks[k] = g.picks[neighbour], !.picks[neighbour] = g.picks[k]]
    <3>1. PICK k \in DOMAIN g.picks, neighbour \in DOMAIN g.picks :
             /\ IF d = "earlier" THEN neighbour + 1 = k ELSE neighbour = k + 1
             /\ h = [g EXCEPT !.picks[k] = g.picks[neighbour], !.picks[neighbour] = g.picks[k]]
          BY <1>4, Zenon DEF MoveInSeating
    <3>2. k # neighbour
          BY <1>1, <3>1
    <3> QED BY <3>1, <3>2
  <2> DEFINE first == [g.picks EXCEPT ![k] = g.picks[neighbour]]
             picks == [first EXCEPT ![neighbour] = g.picks[k]]
             to == [n \in DOMAIN g.picks |->
                      IF n = k THEN neighbour ELSE IF n = neighbour THEN k ELSE n]
  <2>2. h = [g EXCEPT !.picks = picks]
        BY <1>1, <2>1 DEF Game
  <2>3. /\ first \in Seq(Pick) /\ Len(first) = Len(g.picks)
        /\ \A n \in DOMAIN g.picks : first[n] = IF n = k THEN g.picks[neighbour] ELSE g.picks[n]
        BY <1>1, ExceptSeq
  <2> HIDE DEF first
  <2>4. /\ picks \in Seq(Pick) /\ Len(picks) = Len(g.picks)
        /\ \A n \in DOMAIN g.picks : picks[n] = IF n = neighbour THEN g.picks[k] ELSE first[n]
        BY <1>1, <2>3, ExceptSeq
  <2> HIDE DEF picks
  <2>5. /\ to \in [DOMAIN g.picks -> DOMAIN g.picks]
        /\ \A n \in DOMAIN g.picks :
              to[to[n]] = n /\ picks[n].investigator = g.picks[to[n]].investigator
        BY <2>1, <2>3, <2>4
  <2> HIDE DEF to
  <2> QED BY <2>2, <2>4, <2>5, SameInvestigators
<1>5. ASSUME NEW i \in Investigators, SetLead(g, a, i, h) PROVE Sound(h)
  <2>1. /\ h \in Game /\ h.picks = g.picks /\ h.lead = i
        /\ h.members = g.members /\ h.phase = g.phase
        BY <1>1, <1>5 DEF SetLead, Game
  <2>2. i \in Picked(g) /\ g.picks # <<>>
    <3>1. i \in Picked(g)
          BY <1>5 DEF SetLead
    <3>2. DOMAIN g.picks # {}
          BY <3>1 DEF Picked, ToSet
    <3> QED BY <1>1, <3>1, <3>2, EmptySeq
  <2> QED BY <2>1, <2>2 DEF Sound, LeadIsAPick, PicksFit, Picked
<1>6. CASE Start(g, a, h)
  <2>1. LeadPosition(g) \in Nat
        BY <1>1, <1>6, LeadSits DEF Start
  <2>2. <<>> \in Seq(Pick) /\ Len(<<>>) = 0 /\ DOMAIN <<>> = {}
        BY EmptySeq, LenProperties
  <2>3. h = [g EXCEPT !.phase = "live", !.picks = <<>>, !.lead = NoLead,
                      !.seats = g.picks, !.leader = LeadPosition(g)]
        BY <1>6 DEF Start
  <2> HIDE DEF LeadPosition
  <2>4. h \in Game
        BY <1>1, <2>1, <2>2, <2>3 DEF Game
  <2>5. h.phase = "live" /\ h.picks = <<>> /\ h.lead = NoLead /\ h.members = g.members
        BY <1>1, <2>3 DEF Game
  <2> QED BY <2>2, <2>4, <2>5, LobbyAssumption DEF Sound, LeadIsAPick, PicksFit
<1> QED BY <1>2, <1>3, <1>4, <1>5, <1>6, TakeSound DEF Command

LEMMA JoinSound ==
    ASSUME NEW g, Sound(g), NEW a \in Accounts
    PROVE  Sound(Join(g, a)) /\ \A b : IsMember(Join(g, a), b) <=> IsMember(g, b) \/ b = a
<1> DEFINE members == Append(g.members, a)
           h == [g EXCEPT !.members = members]
<1>1. g \in Game /\ g.members \in Seq(Accounts)
      BY GameFields DEF Sound
<1>2. CASE IsMember(g, a)
      BY <1>2 DEF Join
<1>3. CASE ~IsMember(g, a)
  <2>1. /\ members \in Seq(Accounts) /\ DOMAIN members = 1..(Len(g.members) + 1)
        /\ Len(g.members) \in Nat /\ DOMAIN g.members = 1..Len(g.members)
        /\ \A k \in 1..Len(g.members) : members[k] = g.members[k]
        /\ members[Len(g.members) + 1] = a
        BY <1>1, AppendProperties, LenProperties
  <2> HIDE DEF members
  <2>2. ToSet(members) = ToSet(g.members) \cup {a}
        BY <2>1 DEF ToSet
  <2>3. /\ h \in Game /\ h.members = members
        /\ h.picks = g.picks /\ h.lead = g.lead /\ h.phase = g.phase
        BY <1>1, <2>1 DEF Game
  <2>4. Join(g, a) = h
        BY <1>3 DEF Join, members
  <2> HIDE DEF h
  <2> QED BY <2>2, <2>3, <2>4 DEF Sound, LeadIsAPick, PicksFit, Picked, IsMember
<1> QED BY <1>2, <1>3

LEMMA DepartSound ==
    ASSUME LobbyAssumption, NEW g, Sound(g), NEW a \in Accounts, NEW h, Depart(g, a, h)
    PROVE  Sound(h) /\ \A b : IsMember(h, b) <=> IsMember(g, b) /\ b # a
<1> DEFINE members == Kept(g.members, {a})
           left == [g EXCEPT !.members = members]
           gone == {p \in ToSet(g.picks) : p.account = a}
<1>1. g \in Game /\ g.members \in Seq(Accounts)
      BY GameFields DEF Sound
<1>2. members \in Seq(Accounts) /\ ToSet(members) = ToSet(g.members) \ {a}
      BY <1>1, KeptProperties
<1>3. h = Without(left, gone)
      BY DEF Depart
<1> HIDE DEF members, gone
<1>4. /\ left \in Game /\ left.members = members
      /\ left.picks = g.picks /\ left.lead = g.lead /\ left.phase = g.phase
      BY <1>1, <1>2 DEF Game
<1> HIDE DEF left
<1>5. \A b : IsMember(left, b) <=> IsMember(g, b) /\ b # a
      BY <1>2, <1>4 DEF IsMember
<1>6. Sound(left)
      BY <1>4, <1>5 DEF Depart, Sound, LeadIsAPick, PicksFit, Picked
<1>7. h.members = left.members
      BY <1>3, <1>4 DEF Without, Game
<1> QED BY <1>3, <1>5, <1>6, <1>7, WithoutSound DEF IsMember

LEMMA GoneSound == LobbyAssumption => Sound(Gone)
BY EmptySeq, LenProperties DEF Gone, Sound, Game, LeadIsAPick, PicksFit

LEMMA NewLobbySound == LobbyAssumption => Sound(NewLobby)
<1> SUFFICES ASSUME LobbyAssumption PROVE Sound(NewLobby)
    OBVIOUS
<1>1. <<Creator>> \in Seq(Accounts) /\ <<>> \in Seq(Pick) /\ Len(<<>>) = 0 /\ DOMAIN <<>> = {}
      BY LobbyAssumption, EmptySeq, LenProperties
<1>2. NewLobby \in Game
      BY <1>1 DEF NewLobby, Game
<1> QED BY <1>1, <1>2, LobbyAssumption
        DEF NewLobby, Sound, LeadIsAPick, PicksFit

LEMMA CommandKeepsMembers ==
    ASSUME NEW g \in Game, NEW a, NEW h, Command(g, a, h)
    PROVE  h.members = g.members
BY DEF Command, Take, GiveUp, Without, SetWeakness, MoveInSeating, SetLead, Start, Game

LEMMA DepartMembers ==
    ASSUME NEW g \in Game, NEW a, NEW h, Depart(g, a, h)
    PROVE  h.members = Kept(g.members, {a}) /\ h.phase = g.phase
BY DEF Depart, Without, Game

LEMMA JoinFields ==
    ASSUME NEW g \in Game, NEW a
    PROVE  Join(g, a) = [g EXCEPT !.members = Join(g, a).members] /\ Join(g, a).phase = g.phase
BY DEF Join, Game

\* A command that leaves no lobby started it.
LEMMA CommandStarts ==
    ASSUME NEW g \in Game, g.phase = "lobby", NEW a, NEW h, Command(g, a, h), h.phase = "live"
    PROVE  Start(g, a, h)
BY DEF Command, Take, GiveUp, Without, SetWeakness, MoveInSeating, SetLead, Game

-------------------------------------------------------------------------------
(* One change of the room's game *)

\* What operation o of account a makes of game g, where d departs by it.
Change(g, o, a, d, h) ==
    \/ o = "attach" /\ g.phase # "deleted" /\ d = NoOne /\ h = Join(g, a)
    \/ o = "delete" /\ g.phase # "deleted" /\ d = NoOne /\ h = Gone
    \/ o = "command" /\ g.phase = "lobby" /\ d = NoOne /\ Command(g, a, h)
    \/ o = "command" /\ g.phase = "lobby" /\ d \in Accounts /\ MayDepart(a, d) /\ Depart(g, d, h)

\* A change leaves a sound game sound, drops nobody but a departing member, and
\* never the creator.
LEMMA ChangeSound ==
    ASSUME NEW g, Sound(g), NEW o, NEW a \in Accounts, NEW d, NEW h, Change(g, o, a, d, h)
    PROVE  /\ Sound(h)
           /\ h.phase # "deleted" => \A b \in Accounts : IsMember(g, b) => IsMember(h, b) \/ b = d
           /\ o = "attach" => IsMember(h, a)
           /\ CreatorStays(g) => CreatorStays(h)
<1>1. CASE h = Join(g, a) /\ g.phase # "deleted"
      BY <1>1, JoinSound DEF CreatorStays
<1>2. CASE o # "attach" /\ h = Gone
      BY <1>2, GoneSound, LobbyAssumption DEF Gone, CreatorStays
<1>3. CASE o # "attach" /\ g.phase = "lobby" /\ Command(g, a, h)
  <2>1. Sound(h)
        BY <1>3, CommandSound, LobbyAssumption
  <2>2. h.members = g.members
        BY <1>3, CommandKeepsMembers DEF Sound
  <2> QED BY <1>3, <2>1, <2>2 DEF CreatorStays, IsMember
<1>4. CASE o # "attach" /\ g.phase = "lobby" /\ d \in Accounts /\ Depart(g, d, h)
  <2>1. Sound(h) /\ \A b : IsMember(h, b) <=> IsMember(g, b) /\ b # d
        BY <1>4, DepartSound, LobbyAssumption
  <2>2. d # Creator
        BY <1>4 DEF Depart
  <2> QED BY <1>4, <2>1, <2>2 DEF CreatorStays
<1> QED BY <1>1, <1>2, <1>3, <1>4 DEF Change

-------------------------------------------------------------------------------
(* The room and the rows *)

\* A connection in the middle of a change holds the lock.
LockHeld == \A c \in Conns : pc[c] \in {"locked", "stored"} => holder = c

\* The copy the lock's holder made is one change of the room's game.
Copied(c) == Change(room, op[c], AccountOf[c], departing, changed)

\* What a room holds of what is stored: all of it, unless a dropped DELETE left
\* the room serving.
Kin(r, s) == r = s \/ (orphan = "serving" /\ Outlives(r, s))

\* So it is with the room, but from a commit to its publication, and with the
\* copy then.
RoomIsKin == (\A c \in Conns : pc[c] # "stored") => Kin(room, stored)
CopyIsKin ==
    \A c \in Conns : pc[c] = "stored" =>
        /\ Kin(changed, stored)
        /\ Sound(changed)
        /\ op[c] = "delete" => stored = Gone /\ room.phase # "deleted"

LockedCopied == \A c \in Conns : pc[c] = "locked" => Copied(c)

CreatorIn == orphan = "none" => CreatorStays(room) /\ CreatorStays(stored)

\* The change under way drops nobody from the room but the member departing,
\* and the change of an attach makes its account a member.
ChangeKeeps ==
    \A c \in Conns : pc[c] \in {"locked", "stored"} =>
        /\ changed.phase # "deleted" =>
              \A a \in Accounts : IsMember(room, a) => IsMember(changed, a) \/ a = departing
        /\ op[c] = "attach" => IsMember(changed, AccountOf[c])

\* A listing that has not found its game among the lobbies its account was a
\* member of has found it no longer to be a lobby, and it will not be one again.
ListingSound ==
    /\ listing.at = "read" /\ listing.was_member /\ ~listing.as_lobby => stored.phase # "lobby"
    /\ listing.at = "started" => stored.phase # "lobby"

RoomInd ==
    /\ TypeOK
    /\ Sound(stored) /\ Sound(room)
    /\ LockHeld
    /\ RoomIsKin /\ CopyIsKin /\ LockedCopied
    /\ CreatorIn
    /\ ChangeKeeps
    /\ AttachedIsMember
    /\ ListingSound

LEMMA RoomInitInd == Init => RoomInd
<1> SUFFICES ASSUME Init PROVE RoomInd
    OBVIOUS
<1>1. Sound(NewLobby) /\ CreatorStays(NewLobby)
  <2>1. Creator \in ToSet(<<Creator>>)
        BY DEF ToSet
  <2> QED BY <2>1, LobbyAssumption, NewLobbySound DEF NewLobby, CreatorStays, IsMember
<1>2. NewLobby \in Game
      BY <1>1 DEF Sound
<1>3. TypeOK
      BY <1>2 DEF Init, TypeOK, PCs, Ops, NoListing
<1>4. /\ stored = NewLobby /\ room = NewLobby
      /\ \A c \in Conns : pc[c] = "closed"
      /\ \A c \in Conns : op[c] = "attach"
      /\ listing = NoListing
      BY DEF Init
<1> QED BY <1>1, <1>3, <1>4
        DEF RoomInd, LockHeld, RoomIsKin, CopyIsKin, LockedCopied, Kin, CreatorIn, ChangeKeeps,
            AttachedIsMember, Subscribed, ListingSound, NoListing

\* Games that differ in their members alone.
LEMMA OtherMembers ==
    ASSUME NEW g \in Game, NEW h, h = [g EXCEPT !.members = h.members]
    PROVE  \A n : [h EXCEPT !.members = n] = [g EXCEPT !.members = n]
<1> DEFINE m == h.members
<1>1. h = [g EXCEPT !.members = m]
      OBVIOUS
<1> HIDE DEF m
<1> QED BY <1>1 DEF Game

\* A game with other members.
LEMMA MembersSound ==
    ASSUME NEW g, Sound(g), NEW m \in Seq(Accounts)
    PROVE  /\ Sound([g EXCEPT !.members = m])
           /\ [g EXCEPT !.members = m].members = m
           /\ [g EXCEPT !.members = m].phase = g.phase
           /\ m = g.members => [g EXCEPT !.members = m] = g
<1>1. g \in Game
      BY DEF Sound
<1> DEFINE h == [g EXCEPT !.members = m]
<1>2. /\ h \in Game /\ h.members = m /\ h.phase = g.phase /\ h.picks = g.picks /\ h.lead = g.lead
      /\ m = g.members => h = g
      BY <1>1 DEF Game
<1> HIDE DEF h
<1>3. Sound(h)
      BY <1>2 DEF Sound, LeadIsAPick, PicksFit, Picked
<1> QED BY <1>2, <1>3 DEF h

\* The transactions.
Stores(c) == StoreMember(c) \/ StoreLobby(c) \/ StoreStart(c) \/ StoreDelete(c)

LEMMA StoresStep ==
    ASSUME RoomInd, NEW c \in Conns, Stores(c)
    PROVE  /\ pc[c] = "locked" /\ pc' = [pc EXCEPT ![c] = "stored"]
           /\ UNCHANGED <<room, changed, departing, holder, op, closing, orphan, listing>>
           /\ Copied(c) /\ Kin(room, stored)
           /\ Sound(changed) /\ (CreatorStays(room) => CreatorStays(changed))
<1>1. /\ pc[c] = "locked" /\ pc' = [pc EXCEPT ![c] = "stored"]
      /\ UNCHANGED <<room, changed, departing, holder, op, closing, orphan, listing>>
      BY DEF Stores, StoreMember, StoreLobby, StoreStart, StoreDelete, Commit
<1>2. Copied(c)
      BY <1>1 DEF RoomInd, LockedCopied
<1>3. \A d \in Conns : pc[d] # "stored"
      BY <1>1 DEF RoomInd, LockHeld
<1>4. Sound(changed) /\ (CreatorStays(room) => CreatorStays(changed))
      BY <1>2, ChangeSound, RoomAssumption DEF RoomInd, Copied
<1> QED BY <1>1, <1>2, <1>3, <1>4 DEF RoomInd, RoomIsKin

\* In a room that holds what is stored, what is written is the copy.
LEMMA WrittenInStep ==
    ASSUME RoomInd, NEW c \in Conns, Stores(c), room = stored
    PROVE  stored' = changed
<1>1. Copied(c) /\ Sound(changed) /\ Sound(room)
      BY StoresStep DEF RoomInd
<1>2. changed.members \in Seq(Accounts) /\ [changed EXCEPT !.members = changed.members] = changed
  <2>1. changed.members \in Seq(Accounts)
        BY <1>1, GameFields DEF Sound
  <2> QED BY <1>1, <2>1, MembersSound
<1>3. CASE StoreMember(c)
      BY <1>1, <1>3 DEF StoreMember, Commit, Copied, Change
<1>4. CASE StoreDelete(c)
      BY <1>1, <1>4 DEF StoreDelete, Commit, Copied, Change
<1>5. CASE StoreLobby(c)
  <2>1. /\ op[c] = "command" /\ room.phase = "lobby"
        /\ stored' = [changed EXCEPT !.members = Remaining]
        BY <1>1, <1>5 DEF StoreLobby, Commit, Copied, Change
  <2>2. CASE departing = NoOne
    <3>1. changed.members = room.members
          BY <1>1, <2>1, <2>2, CommandKeepsMembers, RoomAssumption DEF Copied, Change, Sound
    <3> QED BY <1>2, <2>1, <2>2, <3>1 DEF Remaining
  <2>3. CASE departing # NoOne
    <3>1. Depart(room, departing, changed)
          BY <1>1, <2>1, <2>3 DEF Copied, Change
    <3>2. changed.members = Kept(room.members, {departing})
          BY <1>1, <3>1, DepartMembers DEF Sound
    <3> QED BY <1>2, <2>1, <2>3, <3>2 DEF Remaining
  <2> QED BY <2>2, <2>3
<1>6. CASE StoreStart(c)
  <2>1. op[c] = "command" /\ changed.phase = "live" /\ stored' = [changed EXCEPT !.members = room.members]
        BY <1>6 DEF StoreStart, Commit
  <2>2. CASE Command(room, AccountOf[c], changed)
    <3>1. changed.members = room.members
          BY <1>1, <2>2, CommandKeepsMembers DEF Sound
    <3> QED BY <1>2, <2>1, <3>1
  <2>3. CASE Depart(room, departing, changed) /\ room.phase = "lobby"
        BY <1>1, <2>1, <2>3, DepartMembers DEF Sound
  <2> QED BY <1>1, <2>1, <2>2, <2>3 DEF Copied, Change
<1> QED BY <1>3, <1>4, <1>5, <1>6 DEF Stores

\* In a room that outlives its rows they stay rows of members alone, until the
\* room's game is deleted again or started.
LEMMA WrittenOutlived ==
    ASSUME RoomInd, NEW c \in Conns, Stores(c), Outlives(room, stored)
    PROVE  /\ Sound(stored')
           /\ stored' = changed \/ Outlives(changed, stored')
           /\ \/ op[c] = "attach" /\ stored' = Join(stored, AccountOf[c])
              \/ op[c] = "delete" /\ stored' = Gone
              \/ /\ stored = [Gone EXCEPT !.members = stored.members]
                 /\ \/ stored' = stored
                    \/ departing \in Accounts
                       /\ stored' = [stored EXCEPT !.members = Kept(@, {departing})]
                    \/ /\ Start(room, AccountOf[c], changed)
                       /\ stored' = [changed EXCEPT !.members = stored.members]
<1>1. Copied(c) /\ Sound(changed) /\ Sound(room) /\ Sound(stored)
      BY StoresStep DEF RoomInd
<1>2. /\ stored.members \in Seq(Accounts) /\ room \in Game /\ stored \in Game /\ changed \in Game
      /\ room.phase # "deleted" /\ ToSet(stored.members) \subseteq ToSet(room.members)
      BY <1>1, GameFields DEF Sound, Outlives
<1>3. CASE StoreMember(c)
  <2> DEFINE a == AccountOf[c]
  <2>1. a \in Accounts /\ op[c] = "attach" /\ stored' = Join(stored, a) /\ changed = Join(room, a)
        BY <1>1, <1>3, RoomAssumption DEF StoreMember, Commit, Copied, Change
  <2> HIDE DEF a
  <2>2. /\ Sound(stored')
        /\ \A b : IsMember(stored', b) <=> IsMember(stored, b) \/ b = a
        /\ \A b : IsMember(changed, b) <=> IsMember(room, b) \/ b = a
        BY <1>1, <2>1, JoinSound
  <2>3. ToSet(stored'.members) \subseteq ToSet(changed.members)
        BY <1>2, <2>2 DEF IsMember
  <2>4. stored' = [stored EXCEPT !.members = stored'.members]
        BY <1>2, <2>1, JoinFields
  <2>5. changed = [room EXCEPT !.members = changed.members] /\ changed.phase = room.phase
        BY <1>2, <2>1, JoinFields
  <2>6. CASE stored = [Gone EXCEPT !.members = stored.members]
    <3>1. stored' = [Gone EXCEPT !.members = stored'.members]
      <4>1. Gone \in Game
            BY GoneSound, LobbyAssumption DEF Sound
      <4>2. \A n : [stored EXCEPT !.members = n] = [Gone EXCEPT !.members = n]
            BY <2>6, <4>1, OtherMembers
      <4> QED BY <2>4, <4>2
    <3> QED BY <1>2, <2>1, <2>2, <2>3, <2>5, <3>1 DEF Outlives, a
  <2>7. CASE room.phase = "live" /\ stored = [room EXCEPT !.members = stored.members]
    <3>1. \A n : [stored EXCEPT !.members = n] = [room EXCEPT !.members = n]
          BY <1>2, <2>7, OtherMembers
    <3>2. \A n : [changed EXCEPT !.members = n] = [room EXCEPT !.members = n]
          BY <1>2, <2>5, OtherMembers
    <3>3. stored' = [changed EXCEPT !.members = stored'.members]
          BY <2>4, <3>1, <3>2
    <3> QED BY <2>1, <2>2, <2>3, <2>5, <2>7, <3>3 DEF Outlives, a
  <2> QED BY <2>6, <2>7 DEF Outlives
<1>4. CASE StoreDelete(c)
  <2>1. op[c] = "delete" /\ stored' = Gone /\ changed = Gone
        BY <1>1, <1>4 DEF StoreDelete, Commit, Copied, Change
  <2> QED BY <2>1, GoneSound, LobbyAssumption
<1>5. CASE StoreLobby(c) \/ StoreStart(c)
  <2>1. op[c] = "command" /\ room.phase = "lobby"
        BY <1>1, <1>5 DEF StoreLobby, StoreStart, Copied, Change
  <2>2. stored = [Gone EXCEPT !.members = stored.members] /\ stored.phase = "deleted"
    <3>1. stored = [Gone EXCEPT !.members = stored.members]
          BY <2>1 DEF Outlives
    <3>2. [Gone EXCEPT !.members = stored.members].phase = "deleted"
          BY DEF Gone
    <3> QED BY <3>1, <3>2
  <2>3. CASE StoreLobby(c)
    <3>1. stored' = [stored EXCEPT !.members = Remaining] /\ changed.phase = "lobby"
          BY <2>2, <2>3 DEF StoreLobby, Commit
    <3>2. /\ Remaining \in Seq(Accounts) /\ ToSet(Remaining) \subseteq ToSet(changed.members)
          /\ \/ Remaining = stored.members
             \/ departing \in Accounts /\ Remaining = Kept(stored.members, {departing})
      <4>1. CASE departing = NoOne
        <5>1. changed.members = room.members
              BY <1>1, <1>2, <2>1, <4>1, CommandKeepsMembers, RoomAssumption DEF Copied, Change
        <5> QED BY <1>2, <4>1, <5>1 DEF Remaining
      <4>2. CASE departing # NoOne
        <5>1. departing \in Accounts /\ Depart(room, departing, changed)
              BY <1>1, <2>1, <4>2 DEF Copied, Change
        <5>2. changed.members = Kept(room.members, {departing})
              BY <1>2, <5>1, DepartMembers
        <5>3. room.members \in Seq(Accounts)
              BY <1>2, GameFields
        <5>4. /\ ToSet(changed.members) = ToSet(room.members) \ {departing}
              BY <5>2, <5>3, KeptProperties
        <5>5. /\ Kept(stored.members, {departing}) \in Seq(Accounts)
              /\ ToSet(Kept(stored.members, {departing})) = ToSet(stored.members) \ {departing}
              BY <1>2, KeptProperties
        <5> QED BY <1>2, <4>2, <5>1, <5>4, <5>5 DEF Remaining
      <4> QED BY <4>1, <4>2
    <3>3. /\ Sound(stored') /\ stored'.members = Remaining
          /\ Remaining = stored.members => stored' = stored
          BY <1>1, <3>1, <3>2, MembersSound
    <3>4. stored' = [Gone EXCEPT !.members = stored'.members]
      <4>1. Gone \in Game
            BY GoneSound, LobbyAssumption DEF Sound
      <4>2. \A n : [stored EXCEPT !.members = n] = [Gone EXCEPT !.members = n]
            BY <2>2, <4>1, OtherMembers
      <4> QED BY <3>1, <3>3, <4>2
    <3>5. Outlives(changed, stored')
          BY <3>1, <3>2, <3>3, <3>4 DEF Outlives
    <3> QED BY <2>2, <3>1, <3>2, <3>3, <3>5
  <2>4. CASE StoreStart(c)
    <3>1. stored' = [changed EXCEPT !.members = stored.members] /\ changed.phase = "live"
          BY <2>4 DEF StoreStart, Commit
    <3>2. Command(room, AccountOf[c], changed)
          BY <1>1, <1>2, <2>1, <3>1, DepartMembers DEF Copied, Change
    <3>3. changed.members = room.members
          BY <1>2, <3>2, CommandKeepsMembers
    <3>4. Start(room, AccountOf[c], changed)
          BY <1>2, <2>1, <3>1, <3>2, CommandStarts
    <3>5. Sound(stored') /\ stored'.members = stored.members
          BY <1>1, <1>2, <3>1, MembersSound
    <3>6. Outlives(changed, stored')
          BY <1>2, <3>1, <3>3, <3>5 DEF Outlives
    <3> QED BY <2>2, <3>1, <3>4, <3>5, <3>6
  <2> QED BY <1>5, <2>3, <2>4
<1> QED BY <1>3, <1>4, <1>5 DEF Stores

-------------------------------------------------------------------------------
(* The steps *)

\* Taking the lock sets up the change to be stored.
LEMMA LockKeeps ==
    ASSUME RoomInd, NEW c \in Conns, Attach(c) \/ ChangeLobby(c) \/ DepartLobby(c) \/ Delete(c)
    PROVE  RoomInd'
<1>1. /\ pc[c] = "waiting" /\ holder = NoConn /\ holder' = c
      /\ pc' = [pc EXCEPT ![c] = "locked"]
      /\ UNCHANGED <<stored, room, op, closing, orphan, listing>>
      BY DEF Attach, ChangeLobby, DepartLobby, Delete, Lock
<1>2. TypeOK /\ Sound(stored) /\ Sound(room) /\ pc \in [Conns -> PCs]
      BY DEF RoomInd, TypeOK
<1>3. \A d \in Conns : pc[d] \notin {"locked", "stored"}
      BY <1>1, RoomAssumption DEF RoomInd, LockHeld
<1>4. /\ pc'[c] = "locked"
      /\ \A d \in Conns : pc'[d] # "stored" /\ (pc'[d] = "locked" => d = c)
      BY <1>1, <1>2, <1>3
<1>5. Copied(c)'
  <2>1. CASE Attach(c)
        BY <1>1, <2>1 DEF Attach, Lock, Copied, Change
  <2>2. CASE ChangeLobby(c)
        BY <1>1, <2>2 DEF ChangeLobby, Lock, Copied, Change
  <2>3. CASE DepartLobby(c)
        BY <1>1, <2>3 DEF DepartLobby, Lock, Copied, Change
  <2>4. CASE Delete(c)
        BY <1>1, <2>4 DEF Delete, Lock, Copied, Change
  <2> QED BY <2>1, <2>2, <2>3, <2>4
<1>6. /\ Sound(changed')
      /\ changed'.phase # "deleted" =>
            \A a \in Accounts : IsMember(room', a) => IsMember(changed', a) \/ a = departing'
      /\ op'[c] = "attach" => IsMember(changed', AccountOf[c])
  <2>1. Sound(room')
        BY <1>1, <1>2
  <2>2. Change(room', op'[c], AccountOf[c], departing', changed')
        BY <1>5 DEF Copied
  <2> QED BY <2>1, <2>2, ChangeSound, RoomAssumption
<1>7. TypeOK'
  <2>1. departing' \in Accounts \cup {NoOne}
        BY DEF Attach, ChangeLobby, DepartLobby, Delete
  <2> QED BY <1>1, <1>2, <1>6, <2>1 DEF TypeOK, Sound, PCs
<1>8. LockHeld' /\ LockedCopied' /\ CopyIsKin'
      BY <1>1, <1>4, <1>5 DEF LockHeld, LockedCopied, CopyIsKin
<1>9. RoomIsKin' /\ CreatorIn' /\ ListingSound'
      BY <1>1, <1>3 DEF RoomInd, RoomIsKin, Kin, CreatorIn, ListingSound
<1>10. ChangeKeeps'
      BY <1>4, <1>6 DEF ChangeKeeps
<1>11. AttachedIsMember'
      BY <1>1, <1>2 DEF RoomInd, AttachedIsMember, Subscribed, IsMember
<1> QED BY <1>1, <1>2, <1>7, <1>8, <1>9, <1>10, <1>11 DEF RoomInd

\* A commit.
LEMMA StoreKeeps == ASSUME RoomInd, NEW c \in Conns, Stores(c) PROVE RoomInd'
<1>1. /\ pc[c] = "locked" /\ pc' = [pc EXCEPT ![c] = "stored"]
      /\ UNCHANGED <<room, changed, departing, holder, op, closing, orphan, listing>>
      /\ Copied(c) /\ Kin(room, stored)
      /\ Sound(changed) /\ (CreatorStays(room) => CreatorStays(changed))
      BY StoresStep
<1>2. TypeOK /\ Sound(stored) /\ Sound(room) /\ pc \in [Conns -> PCs]
      BY DEF RoomInd, TypeOK
<1>3. Sound(stored') /\ Kin(changed, stored')
  <2>1. CASE room = stored
        BY <1>1, <2>1, WrittenInStep DEF Kin
  <2>2. CASE orphan = "serving" /\ Outlives(room, stored)
        BY <2>2, WrittenOutlived DEF Kin
  <2> QED BY <1>1, <2>1, <2>2 DEF Kin
<1>4. \A d \in Conns : pc'[d] \in {"locked", "stored"} => d = c
      BY <1>1, <1>2 DEF RoomInd, LockHeld
<1>5. TypeOK'
      BY <1>1, <1>2, <1>3 DEF TypeOK, PCs, Sound
<1>6. LockHeld' /\ RoomIsKin' /\ LockedCopied' /\ ChangeKeeps'
  <2>1. pc'[c] = "stored"
        BY <1>1, <1>2
  <2>2. LockHeld' /\ RoomIsKin' /\ LockedCopied'
        BY <1>1, <1>4, <2>1 DEF RoomInd, LockHeld, RoomIsKin, LockedCopied
  <2>3. ChangeKeeps'
        BY <1>1, <1>4 DEF RoomInd, ChangeKeeps, IsMember
  <2> QED BY <2>2, <2>3
<1>7. CopyIsKin'
  <2>1. op[c] = "delete" => stored' = Gone /\ room.phase # "deleted"
        BY <1>1 DEF Stores, StoreMember, StoreLobby, StoreStart, StoreDelete, Commit, Copied, Change
  <2>2. Kin(changed, stored)'
        BY <1>1, <1>3 DEF Kin
  <2> QED BY <1>1, <1>4, <2>1, <2>2 DEF CopyIsKin
<1>8. CreatorIn'
  <2>1. orphan = "none" => stored' = changed
        BY <1>1, WrittenInStep DEF Kin
  <2> QED BY <1>1, <2>1 DEF RoomInd, CreatorIn
<1>9. ListingSound'
  <2>1. stored.phase # "lobby" => stored'.phase # "lobby"
    <3>1. stored \in Game /\ changed \in Game
          BY <1>1, <1>2 DEF Sound
    <3>2. CASE StoreMember(c) \/ StoreDelete(c)
          BY <3>1, <3>2, JoinFields DEF StoreMember, StoreDelete, Commit, Gone
    <3>3. CASE StoreLobby(c)
          BY <3>1, <3>3 DEF StoreLobby, Commit, Game
    <3>4. CASE StoreStart(c)
          BY <3>1, <3>4 DEF StoreStart, Commit, Game
    <3> QED BY <3>2, <3>3, <3>4 DEF Stores
  <2> QED BY <1>1, <2>1 DEF RoomInd, ListingSound
<1>10. AttachedIsMember'
      BY <1>1, <1>2 DEF RoomInd, AttachedIsMember, Subscribed, IsMember
<1> QED BY <1>1, <1>2, <1>3, <1>5, <1>6, <1>7, <1>8, <1>9, <1>10 DEF RoomInd

\* The copy becomes the room's game.
LEMMA PublishKeeps == ASSUME RoomInd, NEW c \in Conns, Publish(c) PROVE RoomInd'
<1>1. /\ pc[c] = "stored" /\ room' = changed /\ closing' = closing \cup Closes(c)
      /\ holder' = NoConn
      /\ pc' = [pc EXCEPT ![c] = IF op[c] = "delete" THEN "closed" ELSE "attached"]
      /\ UNCHANGED <<stored, changed, departing, op, orphan, listing>>
      BY DEF Publish
<1>2. TypeOK /\ Sound(stored) /\ pc \in [Conns -> PCs] /\ op \in [Conns -> Ops]
      BY DEF RoomInd, TypeOK
<1>3. Kin(changed, stored) /\ Sound(changed)
      BY <1>1 DEF RoomInd, CopyIsKin
<1>4. \A d \in Conns : pc'[d] \notin {"locked", "stored"}
      BY <1>1, <1>2, RoomAssumption DEF RoomInd, LockHeld
<1>5. TypeOK'
      BY <1>1, <1>2 DEF TypeOK, PCs, Closes, Subscribed
<1>6. ASSUME NEW d \in Subscribed', d \notin closing' PROVE IsMember(changed, AccountOf[d])
  <2>1. d \in Conns /\ AccountOf[d] \in Accounts
        BY <1>6, RoomAssumption DEF Subscribed
  <2>2. CASE d \in Subscribed
    <3>1. changed.phase # "deleted" /\ AccountOf[d] # departing /\ d \notin closing
          BY <1>1, <1>6, <2>2 DEF Closes
    <3>2. IsMember(room, AccountOf[d])
          BY <2>2, <3>1 DEF RoomInd, AttachedIsMember
    <3> QED BY <1>1, <2>1, <3>1, <3>2 DEF RoomInd, ChangeKeeps
  <2>3. CASE d \notin Subscribed
    <3>1. d = c /\ op[c] = "attach"
          BY <1>1, <1>2, <1>6, <2>1, <2>3 DEF Subscribed, Ops
    <3> QED BY <1>1, <3>1 DEF RoomInd, ChangeKeeps
  <2> QED BY <2>2, <2>3
<1>7. AttachedIsMember'
      BY <1>1, <1>6 DEF AttachedIsMember, IsMember
<1>8. LockHeld' /\ CopyIsKin' /\ LockedCopied' /\ ChangeKeeps'
      BY <1>4 DEF LockHeld, CopyIsKin, LockedCopied, ChangeKeeps
<1>9. RoomIsKin' /\ CreatorIn' /\ ListingSound'
      BY <1>1, <1>3 DEF RoomInd, RoomIsKin, Kin, CreatorIn, ListingSound
<1> QED BY <1>1, <1>2, <1>3, <1>5, <1>7, <1>8, <1>9 DEF RoomInd

\* A DELETE dropped after its commit leaves its room outliving no rows at all.
LEMMA DropKeeps == ASSUME RoomInd, NEW c \in Conns, DropDelete(c) PROVE RoomInd'
<1>1. /\ op[c] = "delete"
      /\ pc' = [pc EXCEPT ![c] = "closed"]
      /\ holder' = IF holder = c THEN NoConn ELSE holder
      /\ orphan' = IF pc[c] = "stored" THEN "serving" ELSE orphan
      /\ UNCHANGED <<stored, room, changed, departing, op, closing, listing>>
      BY DEF DropDelete
<1>2. TypeOK /\ Sound(stored) /\ Sound(room) /\ pc \in [Conns -> PCs]
      BY DEF RoomInd, TypeOK
<1>3. /\ pc'[c] = "closed"
      /\ \A d \in Conns \ {c} : pc'[d] = pc[d]
      BY <1>1, <1>2
<1>4. TypeOK'
      BY <1>1, <1>2 DEF TypeOK, PCs
<1>5. LockHeld'
      BY <1>1, <1>3 DEF RoomInd, LockHeld
<1>6. LockedCopied' /\ ChangeKeeps' /\ ListingSound'
      BY <1>1, <1>3 DEF RoomInd, LockedCopied, Copied, ChangeKeeps, IsMember, ListingSound
<1>7. RoomIsKin' /\ CopyIsKin' /\ CreatorIn'
  <2>1. CASE pc[c] = "stored"
    <3>1. stored = Gone /\ room.phase # "deleted" /\ orphan' = "serving"
          BY <1>1, <2>1 DEF RoomInd, CopyIsKin
    <3>2. Outlives(room, stored)
      <4>1. Gone = [Gone EXCEPT !.members = Gone.members] /\ ToSet(Gone.members) = {}
            BY DEF Gone, ToSet
      <4> QED BY <3>1, <4>1 DEF Outlives
    <3>3. RoomIsKin' /\ CreatorIn'
          BY <1>1, <3>1, <3>2 DEF RoomIsKin, Kin, CreatorIn, Outlives
    <3>4. \A d \in Conns : pc'[d] # "stored"
          BY <1>3, <2>1 DEF RoomInd, LockHeld
    <3> QED BY <3>3, <3>4 DEF CopyIsKin
  <2>2. CASE pc[c] # "stored"
    <3>1. orphan' = orphan
          BY <1>1, <2>2
    <3>2. \A d \in Conns : pc'[d] = "stored" <=> pc[d] = "stored"
          BY <1>3, <2>2
    <3> QED BY <1>1, <3>1, <3>2 DEF RoomInd, RoomIsKin, CopyIsKin, Kin, CreatorIn
  <2> QED BY <2>1, <2>2
<1>8. AttachedIsMember'
  <2>1. \A d \in Subscribed' : d \in Subscribed
        BY <1>1, <1>3 DEF Subscribed
  <2> QED BY <1>1, <2>1 DEF RoomInd, AttachedIsMember, IsMember
<1> QED BY <1>1, <1>2, <1>4, <1>5, <1>6, <1>7, <1>8 DEF RoomInd

\* The room is loaded again.
LEMMA LoadKeeps == ASSUME RoomInd, Evict \/ Restart PROVE RoomInd'
<1>1. /\ room' = stored
      /\ orphan' = IF orphan = "none" THEN "none" ELSE "reloaded"
      /\ UNCHANGED <<stored, changed, departing, op>>
      /\ pc' \in [Conns -> {"closed"}]
      /\ holder' \in {holder, NoConn} /\ closing' \in {closing, {}}
      /\ listing' = listing \/ listing' = NoListing
  <2>1. pc \in [Conns -> PCs]
        BY DEF RoomInd, TypeOK
  <2> QED BY <2>1 DEF Evict, Restart, Load
<1>2. \A d \in Conns : pc'[d] = "closed"
      BY <1>1
<1>3. TypeOK'
  <2>1. pc' \in [Conns -> PCs]
        BY <1>1 DEF PCs
  <2>2. /\ orphan' \in {"none", "serving", "reloaded"} /\ holder' \in Conns \cup {NoConn}
        /\ closing' \subseteq Conns
        BY <1>1 DEF RoomInd, TypeOK
  <2>3. NoListing \in [at : {"idle", "lobbies", "read", "started", "answered"},
                       by : Accounts \cup {NoOne}, was_member : BOOLEAN, as_lobby : BOOLEAN,
                       as_started : BOOLEAN, failed : BOOLEAN]
        BY DEF NoListing
  <2>4. TypeOK
        BY DEF RoomInd
  <2>5. listing' \in [at : {"idle", "lobbies", "read", "started", "answered"},
                      by : Accounts \cup {NoOne}, was_member : BOOLEAN, as_lobby : BOOLEAN,
                      as_started : BOOLEAN, failed : BOOLEAN]
        BY <1>1, <2>3, <2>4 DEF TypeOK
  <2>6. /\ {stored', room', changed'} \subseteq Game /\ departing' \in Accounts \cup {NoOne}
        /\ op' \in [Conns -> Ops]
        BY <1>1, <2>4 DEF TypeOK
  <2> QED BY <2>1, <2>2, <2>5, <2>6 DEF TypeOK
<1>4. LockHeld' /\ CopyIsKin' /\ LockedCopied' /\ ChangeKeeps' /\ AttachedIsMember'
      BY <1>2 DEF LockHeld, CopyIsKin, LockedCopied, ChangeKeeps, AttachedIsMember, Subscribed
<1>5. RoomIsKin' /\ CreatorIn' /\ ListingSound'
      BY <1>1 DEF RoomInd, RoomIsKin, Kin, CreatorIn, ListingSound, NoListing
<1> QED BY <1>1, <1>3, <1>4, <1>5 DEF RoomInd

\* A step of a listing, which only reads.
ListingStep ==
    \/ \E a \in Listers : List(a)
    \/ ReadLobby \/ QueryStarted \/ StartedEntry \/ LoadFails \/ Answered

LEMMA ListingReads ==
    ListingStep => UNCHANGED <<stored, room, changed, departing, holder, pc, op, closing, orphan>>
BY DEF ListingStep, List, ReadLobby, QueryStarted, StartedEntry, LoadFails, Answered, Listing

\* What a step leaves alone that changes neither the room nor the rows.
LEMMA Reads ==
    ASSUME RoomInd, UNCHANGED <<stored, room, changed, departing, holder, pc, op, closing, orphan>>,
           TypeOK', ListingSound'
    PROVE  RoomInd'
<1>1. LockHeld' /\ RoomIsKin' /\ CopyIsKin' /\ LockedCopied'
      BY DEF RoomInd, LockHeld, RoomIsKin, CopyIsKin, Kin, LockedCopied, Copied
<1>2. CreatorIn' /\ ChangeKeeps' /\ AttachedIsMember'
      BY DEF RoomInd, CreatorIn, ChangeKeeps, AttachedIsMember, Subscribed, IsMember
<1> QED BY <1>1, <1>2 DEF RoomInd

LEMMA ListingKeeps == ASSUME RoomInd, ListingStep PROVE RoomInd'
<1>1. UNCHANGED <<stored, room, changed, departing, holder, pc, op, closing, orphan>>
      BY ListingReads
<1>2. TypeOK' /\ ListingSound'
  <2> USE DEF RoomInd
  <2>1. ASSUME NEW a \in Listers, List(a) PROVE TypeOK' /\ ListingSound'
    <3>1. listing' = [NoListing EXCEPT
                         !.at = IF stored.phase = "lobby" /\ IsMember(stored, a) THEN "lobbies" ELSE "read",
                         !.by = a, !.was_member = IsMember(stored, a)]
          BY <2>1 DEF List, Listing
    <3>2. IsMember(stored, a) \in BOOLEAN
          BY DEF IsMember
    <3>3. a \in Accounts
          BY RoomAssumption
    <3> QED BY <1>1, <3>1, <3>2, <3>3 DEF NoListing, TypeOK, ListingSound
  <2>2. CASE ReadLobby
        BY <1>1, <2>2 DEF ReadLobby, Listing, TypeOK, ListingSound
  <2>3. CASE QueryStarted
        BY <1>1, <2>3 DEF QueryStarted, Listing, TypeOK, ListingSound
  <2>4. CASE StartedEntry \/ LoadFails
        BY <1>1, <2>4 DEF StartedEntry, LoadFails, Listing, TypeOK, ListingSound
  <2>5. CASE Answered
        BY <1>1, <2>5 DEF Answered, Listing, NoListing, TypeOK, ListingSound
  <2> QED BY <2>1, <2>2, <2>3, <2>4, <2>5 DEF ListingStep
<1> QED BY <1>1, <1>2, Reads

\* A connection that opens, sends or closes.
LEMMA SocketKeeps ==
    ASSUME RoomInd, NEW c \in Conns, Open(c) \/ Send(c) \/ Close(c)
    PROVE  RoomInd'
<1>1. TypeOK /\ pc \in [Conns -> PCs] /\ op \in [Conns -> Ops]
      BY DEF RoomInd, TypeOK
<1>2. /\ UNCHANGED <<stored, room, changed, departing, holder, orphan, listing>>
      /\ closing' = closing \/ (pc[c] = "attached" /\ pc'[c] = "closed" /\ closing' = closing \ {c})
      /\ \A d \in Conns \ {c} : pc'[d] = pc[d] /\ op'[d] = op[d]
      /\ pc[c] \notin {"locked", "stored"} /\ pc'[c] \notin {"locked", "stored"}
      /\ c \in Subscribed' => c \in Subscribed /\ closing' = closing
      BY <1>1 DEF Open, Send, Close, Subscribed
<1>3. TypeOK'
      BY <1>1 DEF Open, Send, Close, TypeOK, PCs, Ops
<1>4. \A d \in Conns : pc'[d] \in {"locked", "stored"} => pc'[d] = pc[d] /\ op'[d] = op[d]
      BY <1>2
<1>5. \A d \in Conns : pc[d] \in {"locked", "stored"} => pc'[d] = pc[d]
      BY <1>2
<1>6. LockHeld' /\ ChangeKeeps'
      BY <1>2, <1>4 DEF RoomInd, LockHeld, ChangeKeeps, IsMember
<1>7. RoomIsKin' /\ CopyIsKin'
      BY <1>2, <1>4, <1>5 DEF RoomInd, RoomIsKin, CopyIsKin, Kin
<1>8. LockedCopied'
      BY <1>2, <1>4 DEF RoomInd, LockedCopied, Copied
<1>9. AttachedIsMember'
      BY <1>2 DEF RoomInd, AttachedIsMember, Subscribed, IsMember
<1> QED BY <1>2, <1>3, <1>6, <1>7, <1>8, <1>9 DEF RoomInd, CreatorIn, ListingSound

\* An operation that changes nothing.
LEMMA RefuseKeeps ==
    ASSUME RoomInd, NEW c \in Conns, Refuse(c) \/ StoreFails(c)
    PROVE  RoomInd'
<1>1. /\ UNCHANGED <<stored, room, changed, departing, op, orphan, listing>>
      /\ pc[c] \in {"waiting", "locked"}
      /\ pc' = [pc EXCEPT ![c] = Refused(c)]
      /\ closing' = closing \ {c}
      /\ \/ holder' = holder /\ pc[c] = "waiting"
         \/ holder' = NoConn /\ pc[c] = "locked"
      BY DEF Refuse, StoreFails
<1>2. TypeOK /\ pc \in [Conns -> PCs]
      BY DEF RoomInd, TypeOK
<1>3. /\ pc'[c] \in {"attached", "closed"}
      /\ \A d \in Conns \ {c} : pc'[d] = pc[d]
      /\ pc'[c] = "attached" => op[c] = "command" /\ c \notin closing
      BY <1>1, <1>2 DEF Refused
<1>4. TypeOK'
      BY <1>1, <1>2 DEF TypeOK, Refused, PCs
<1>5. LockHeld' /\ ChangeKeeps'
      BY <1>1, <1>3 DEF RoomInd, LockHeld, ChangeKeeps, IsMember
<1>6. RoomIsKin' /\ CopyIsKin'
  <2>1. \A d \in Conns : pc'[d] = "stored" <=> pc[d] = "stored"
        BY <1>1, <1>3
  <2> QED BY <1>1, <2>1 DEF RoomInd, RoomIsKin, CopyIsKin, Kin
<1>7. LockedCopied'
      BY <1>1, <1>3 DEF RoomInd, LockedCopied, Copied
<1>8. AttachedIsMember'
  <2>1. \A d \in Subscribed' \ closing' : d \in Subscribed \ closing
        BY <1>1, <1>3 DEF Subscribed
  <2> QED BY <1>1, <2>1 DEF RoomInd, AttachedIsMember, IsMember
<1> QED BY <1>1, <1>4, <1>5, <1>6, <1>7, <1>8 DEF RoomInd, CreatorIn, ListingSound

LEMMA RoomIndNext == ASSUME RoomInd, [Next]_vars PROVE RoomInd'
<1>1. CASE UNCHANGED vars
  <2>1. TypeOK' /\ ListingSound'
        BY <1>1 DEF RoomInd, vars, TypeOK, ListingSound
  <2> QED BY <1>1, <2>1, Reads DEF vars
<1> QED BY <1>1, LockKeeps, StoreKeeps, PublishKeeps, DropKeeps, LoadKeeps, ListingKeeps,
           SocketKeeps, RefuseKeeps
        DEF Next, Stores, ListingStep

LEMMA RoomInductive == Spec => []RoomInd
BY RoomInitInd, RoomIndNext, PTL DEF Spec

-------------------------------------------------------------------------------
(* What the room promises *)

\* Whenever nobody is in the middle of a change, a restart would load exactly
\* what the room holds, or the room has outlived its rows.
THEOREM SavedAlways == Spec => []Saved
<1>1. RoomInd => Saved
      BY RoomAssumption DEF RoomInd, LockHeld, RoomIsKin, Kin, Saved
<1> QED BY <1>1, RoomInductive, PTL

\* Whatever its members do at once and however often the server restarts, a
\* lobby has a lead that is one of its picks and no investigator twice, keeps its
\* creator, and stays open to nobody who departed.
THEOREM LobbyStaysSound == Spec => []LobbySound
<1>1. RoomInd => LobbySound
      BY DEF RoomInd, Sound, CreatorIn, LobbySound
<1> QED BY <1>1, RoomInductive, PTL

\* The abstract lobby's rules are the room's own: the two instances of each
\* operator have one definition.
LEMMA SameRules ==
    ASSUME NEW g, NEW h, NEW a, NEW by
    PROVE  /\ L!Join(g, a) = Join(g, a)
           /\ L!Command(g, a, h) <=> Command(g, a, h)
           /\ L!Depart(g, a, h) <=> Depart(g, a, h)
           /\ L!MayDepart(by, a) <=> MayDepart(by, a)
           /\ L!Start(g, a, h) <=> Start(g, a, h)
           /\ L!PicksFit(g) <=> PicksFit(g)
           /\ L!Kept(g, a) = Kept(g, a)
           /\ L!Gone = Gone
<1> USE DEF ToSet, L!ToSet, Kept, L!Kept, Picked, L!Picked, IsMember, L!IsMember, Without, L!Without
<1>1. L!Join(g, a) = Join(g, a)
      BY Zenon DEF Join, L!Join
<1>2. L!Command(g, a, h) <=> Command(g, a, h)
      BY Zenon DEF Command, L!Command, Take, L!Take, GiveUp, L!GiveUp, OwnPick, L!OwnPick,
                   SetWeakness, L!SetWeakness, MoveInSeating, L!MoveInSeating, SetLead,
                   L!SetLead, Start, L!Start, LeadPosition, L!LeadPosition,
                   Weaknesses, L!Weaknesses, Directions, L!Directions
<1>3. L!Depart(g, a, h) <=> Depart(g, a, h)
      BY Zenon DEF Depart, L!Depart
<1>4. L!MayDepart(by, a) <=> MayDepart(by, a)
      BY DEF MayDepart, L!MayDepart
<1>5. L!Start(g, a, h) <=> Start(g, a, h)
      BY Zenon DEF Start, L!Start, LeadPosition, L!LeadPosition
<1>6. L!PicksFit(g) <=> PicksFit(g)
      BY Zenon DEF PicksFit, L!PicksFit
<1>7. L!Kept(g, a) = Kept(g, a)
      BY Zenon
<1>8. L!Gone = Gone
      BY Zenon DEF Gone, L!Gone
<1> QED BY <1>1, <1>2, <1>3, <1>4, <1>5, <1>6, <1>7, <1>8

\* A game with other members, and with the picks and the lead of a started one.
With(g, m) == [g EXCEPT !.members = m]
Unstarted(g, t) == [g EXCEPT !.picks = t.seats, !.lead = t.seats[t.leader].investigator]

\* What Start makes of a lobby, with other members, is what Start makes of those
\* members alone once they have the lobby's picks and lead.
LEMMA StartedAgain ==
    ASSUME NEW g, Sound(g), NEW a, NEW h, Start(g, a, h), NEW m \in Seq(Accounts)
    PROVE  /\ With(h, m).leader \in DOMAIN With(h, m).seats
           /\ PicksFit(Unstarted(With(Gone, m), With(h, m)))
           /\ Start(Unstarted(With(Gone, m), With(h, m)), Creator, With(h, m))
<1>1. g \in Game /\ a = Creator /\ g.picks # <<>> /\ Picked(g) \subseteq Pool
      BY DEF Sound, Start
<1>2. PICK n : n = LeadPosition(g)
      OBVIOUS
<1>3. n \in DOMAIN g.picks /\ g.picks[n].investigator = g.lead
      BY <1>1, <1>2, LeadSits
<1>4. PICK s : s = With(Gone, m)
      OBVIOUS
<1>5. PICK t : t = With(h, m)
      OBVIOUS
<1>6. PICK l : l = Unstarted(s, t)
      OBVIOUS
<1>7. t = [phase |-> "live", members |-> m, picks |-> <<>>, lead |-> NoLead,
           seats |-> g.picks, leader |-> n]
  <2>1. h = [g EXCEPT !.phase = "live", !.picks = <<>>, !.lead = NoLead,
                      !.seats = g.picks, !.leader = n]
        BY <1>2 DEF Start
  <2> QED BY <1>1, <1>5, <2>1 DEF Game, With
<1>8. s = [phase |-> "deleted", members |-> m, picks |-> <<>>, lead |-> NoLead,
           seats |-> <<>>, leader |-> 0]
      BY <1>4 DEF Gone, With
<1>9. l = [s EXCEPT !.picks = g.picks, !.lead = g.lead]
  <2>1. t.seats = g.picks /\ t.leader = n
        BY <1>7
  <2> QED BY <1>3, <1>6, <2>1 DEF Unstarted
<1>10. /\ l = [phase |-> "deleted", members |-> m, picks |-> g.picks, lead |-> g.lead,
               seats |-> <<>>, leader |-> 0]
       /\ l.members = m /\ l.picks = g.picks /\ l.lead = g.lead
       BY <1>8, <1>9
<1>11. l \in Game
       BY <1>1, <1>10, GameFields, EmptySeq DEF Game
<1>12. LeadPosition(l) = n /\ Picked(l) = Picked(g)
       BY <1>2, <1>10 DEF LeadPosition, Picked
<1>13. t = [l EXCEPT !.phase = "live", !.picks = <<>>, !.lead = NoLead,
                     !.seats = g.picks, !.leader = n]
  <2>1. PICK u : u = [l EXCEPT !.phase = "live", !.picks = <<>>, !.lead = NoLead,
                               !.seats = g.picks, !.leader = n]
        OBVIOUS
  <2>2. t = u
        BY <1>7, <1>10, <1>11, <2>1 DEF Game
  <2> QED BY <2>1, <2>2
<1>14. Start(l, Creator, t)
       BY <1>1, <1>10, <1>12, <1>13 DEF Start
<1>15. PicksFit(l)
       BY <1>10 DEF Sound, PicksFit
<1>16. t.leader \in DOMAIN t.seats
       BY <1>3, <1>7
<1> QED BY <1>4, <1>5, <1>6, <1>14, <1>15, <1>16

\* Storing is one change of the lobby.
LEMMA StoreSimulates ==
    ASSUME RoomInd, NEW c \in Conns, Stores(c)
    PROVE  [L!Next]_<<stored, orphan # "none">>
<1>1. /\ Copied(c) /\ Kin(room, stored) /\ Sound(room) /\ Sound(stored)
      /\ (orphan' # "none") = (orphan # "none")
      BY StoresStep DEF RoomInd
<1>2. AccountOf[c] \in Accounts
      BY RoomAssumption
<1>3. CASE room = stored
  <2>1. Change(stored, op[c], AccountOf[c], departing, stored')
        BY <1>1, <1>3, WrittenInStep DEF Copied
  <2> QED BY <1>1, <1>2, <2>1, SameRules
          DEF Change, L!Next, L!Joined, L!Commanded, L!Departed, L!Deleted
<1>4. CASE orphan = "serving" /\ Outlives(room, stored)
  <2>1. CASE op[c] = "attach" /\ stored' = Join(stored, AccountOf[c])
        BY <1>1, <1>2, <1>4, <2>1, SameRules DEF L!Next, L!Joined
  <2>2. CASE op[c] = "delete" /\ stored' = Gone
        BY <1>1, <1>4, <2>2, SameRules DEF L!Next, L!Deleted
  <2>3. CASE stored = [Gone EXCEPT !.members = stored.members]
    <3>1. stored.phase = "deleted"
      <4>1. [Gone EXCEPT !.members = stored.members].phase = "deleted"
            BY DEF Gone
      <4> QED BY <2>3, <4>1
    <3>2. CASE stored' = stored
          BY <1>1, <3>2
    <3>3. CASE departing \in Accounts /\ stored' = [stored EXCEPT !.members = Kept(@, {departing})]
      <4>1. stored' = [stored EXCEPT !.members = L!Kept(@, {departing})]
            BY <3>3, SameRules
      <4> QED BY <1>1, <1>4, <3>1, <3>3, <4>1 DEF L!Next, L!Forgotten
    <3>4. CASE Start(room, AccountOf[c], changed) /\ stored' = [changed EXCEPT !.members = stored.members]
      <4> DEFINE m == stored.members
                 l == Unstarted(stored, stored')
      <4>1. m \in Seq(Accounts)
            BY <1>1, GameFields DEF Sound
      <4>2. stored = With(Gone, m) /\ stored' = With(changed, m)
            BY <2>3, <3>4 DEF With
      <4>3. stored'.leader \in DOMAIN stored'.seats /\ PicksFit(l) /\ Start(l, Creator, stored')
        <5> HIDE DEF m
        <5>1. Sound(room) /\ Start(room, AccountOf[c], changed)
              BY <1>1, <3>4
        <5>2. /\ With(changed, m).leader \in DOMAIN With(changed, m).seats
              /\ PicksFit(Unstarted(With(Gone, m), With(changed, m)))
              /\ Start(Unstarted(With(Gone, m), With(changed, m)), Creator, With(changed, m))
              BY <4>1, <5>1, StartedAgain
        <5> QED BY <4>2, <5>2
      <4>4. L!PicksFit(l) /\ L!Start(l, Creator, stored')
            BY <4>3, SameRules
      <4> QED BY <1>1, <1>4, <3>1, <4>3, <4>4 DEF L!Next, L!Revived, Unstarted
    <3> QED BY <1>4, <2>1, <2>2, <3>2, <3>3, <3>4, WrittenOutlived
  <2> QED BY <1>4, <2>1, <2>2, <2>3, WrittenOutlived
<1> QED BY <1>1, <1>3, <1>4 DEF Kin

\* A step of the room stores one change of the lobby, or stores nothing; a
\* DELETE dropped after its commit abandons the game.
LEMMA StepSimulation ==
    ASSUME RoomInd, [Next]_vars PROVE [L!Next]_<<stored, orphan # "none">>
<1>1. ASSUME NEW c \in Conns,
             \/ Open(c) \/ Send(c) \/ Close(c) \/ Attach(c) \/ ChangeLobby(c)
             \/ DepartLobby(c) \/ Delete(c) \/ Refuse(c) \/ StoreFails(c) \/ Publish(c)
      PROVE  UNCHANGED <<stored, orphan>>
      BY <1>1 DEF Open, Send, Close, Attach, ChangeLobby, DepartLobby, Delete, Lock, Refuse,
                  StoreFails, Publish
<1>2. ASSUME NEW c \in Conns, DropDelete(c) PROVE [L!Next]_<<stored, orphan # "none">>
  <2>1. CASE pc[c] = "stored"
    <3>1. stored = Gone /\ orphan' = "serving" /\ stored' = stored
          BY <1>2, <2>1 DEF DropDelete, RoomInd, CopyIsKin
    <3> QED BY <3>1 DEF L!Next, L!Abandoned, Gone
  <2>2. CASE pc[c] # "stored"
        BY <1>2, <2>2 DEF DropDelete
  <2> QED BY <2>1, <2>2
<1>3. CASE Evict \/ Restart
      BY <1>3 DEF Evict, Restart, Load
<1>4. CASE UNCHANGED vars
      BY <1>4 DEF vars
<1>5. CASE ListingStep
      BY <1>5, ListingReads
<1> QED BY <1>1, <1>2, <1>3, <1>4, <1>5, StoreSimulates DEF Next, Stores, ListingStep

\* The room implements the lobby: whatever its connections do at once, whatever
\* DELETE is dropped and whenever the server restarts, what is stored goes from
\* one whole command to the next, and a deleted game comes back only if its room
\* was left serving.
THEOREM RoomImplementsLobby == Spec => ImplementsLobby
<1>1. Init => L!Init
      BY DEF Init, L!Init, NewLobby, L!NewLobby
<1> QED BY <1>1, RoomInductive, StepSimulation, PTL DEF Spec, ImplementsLobby, L!Spec

\* A listing made of two queries and a look at the room misses no game, not even
\* one that starts between them: the room's lock holds the look back until a
\* change that is stored is also in the room.
THEOREM ListingComplete == Spec => NothingUnlisted
<1> DEFINE Complete ==
       listing.at # "answered" /\ listing'.at = "answered" =>
          \/ listing'.as_lobby \/ listing'.as_started \/ listing'.failed
          \/ ~listing'.was_member \/ stored.phase = "deleted" \/ ~IsMember(stored, listing'.by)
<1>1. ASSUME RoomInd, [Next]_vars, listing.at # "answered", listing'.at = "answered"
      PROVE  Complete
  <2> USE DEF RoomInd
  <2>1. stored.phase \in {"lobby", "live", "deleted"}
        BY <1>1, GameFields DEF Sound
  <2>2. CASE QueryStarted
    <3>1. /\ listing' = [listing EXCEPT !.at = "answered"]
          /\ listing.at = "read" /\ ~(stored.phase = "live" /\ IsMember(stored, listing.by))
          BY <1>1, <2>2 DEF QueryStarted, Listing, TypeOK
    <3> QED BY <1>1, <2>1, <3>1 DEF ListingSound, TypeOK
  <2>3. CASE StartedEntry
    <3>1. /\ listing' = [listing EXCEPT !.at = "answered", !.as_started = (room.phase = "live")]
          /\ listing.at = "started" /\ holder = NoConn
          BY <2>3 DEF StartedEntry, Listing
    <3>2. stored.phase = "live" => room.phase = "live"
      <4>1. Kin(room, stored)
            BY <1>1, <3>1, RoomAssumption DEF LockHeld, RoomIsKin
      <4>2. [Gone EXCEPT !.members = stored.members].phase = "deleted"
            BY DEF Gone
      <4> QED BY <4>1, <4>2 DEF Kin, Outlives
    <3> QED BY <1>1, <2>1, <3>1, <3>2 DEF ListingSound, TypeOK
  <2>4. CASE LoadFails
        BY <1>1, <2>4 DEF LoadFails, Listing, TypeOK
  <2>5. QueryStarted \/ StartedEntry \/ LoadFails
    <3>1. ASSUME NEW c \in Conns,
                 \/ Open(c) \/ Send(c) \/ Close(c) \/ Attach(c) \/ ChangeLobby(c)
                 \/ DepartLobby(c) \/ Delete(c) \/ Refuse(c) \/ Stores(c) \/ StoreFails(c)
                 \/ Publish(c) \/ DropDelete(c)
          PROVE  UNCHANGED listing
          BY <3>1 DEF Open, Send, Close, Attach, ChangeLobby, DepartLobby, Delete, Lock, Refuse,
                      Stores, StoreMember, StoreLobby, StoreStart, StoreDelete, Commit,
                      StoreFails, Publish, DropDelete
    <3>2. ASSUME Evict \/ Restart \/ Answered PROVE listing'.at # "answered"
          BY <1>1, <3>2 DEF Evict, Restart, Answered, Listing, NoListing
    <3>3. ASSUME ReadLobby PROVE listing'.at # "answered"
          BY <1>1, <3>3 DEF ReadLobby, Listing, TypeOK
    <3>4. ASSUME NEW a \in Listers, List(a) PROVE listing'.at # "answered"
      <4>1. listing'.at \in {"lobbies", "read"}
            BY <3>4 DEF List, Listing, NoListing
      <4> QED BY <4>1
    <3> QED BY <1>1, <3>1, <3>2, <3>3, <3>4 DEF Next, Stores, vars
  <2> QED BY <2>2, <2>3, <2>4, <2>5
<1>2. RoomInd /\ [Next]_vars => [Complete]_listing
      BY <1>1
<1> QED BY <1>2, RoomInductive, PTL DEF Spec, NothingUnlisted

===============================================================================
