---------------------------- MODULE SkillTest_proofs ----------------------------
(***************************************************************************)
(* Theorems about a skill test (SkillTest): for any cards, tokens and      *)
(* seats, a test never rejects in the drive loop's hands, leaves nothing   *)
(* of itself behind and loses no card, and its verdict is told once.       *)
(***************************************************************************)
EXTENDS SkillTest, SequenceTheorems, FiniteSetTheorems, WellFoundedInduction, TLAPS

------------------------------------------------------------------------------
(* The invariant.  The stack of a test in flight is some effects over the  *)
(* one cell or window that is open, if one is, over the test's frame.      *)

Doings == {"harm", "draw", "heal", "return", "none", "mark", "latch", "discover"}
Effects == [kind : {"Effect"}, does : Doings, who : Investigators, card : Cards \cup {None}]
CellSteps == {"When", "ResolveCondition", "At", "After"}
Emits(events) == [kind : {"EmitEvent"}, event : events, step : CellSteps, prevented : BOOLEAN]
Reveals == Emits([kind : {"ChaosTokenRevealed"}, token : Bag])
Announcements == Emits([kind : {"SkillTestResolved"}, succeeded : BOOLEAN])
Evasions == Emits([kind : {"EnemyEvaded"}])
Cells == Reveals \cup Announcements \cup Evasions
Openings == {SkillTestFrame, SubstitutionPrompt, FastWindow} \cup Cells

\* The stack beneath the effects, `open` being the test's own frame when nothing is open.
Beneath(open) == IF open = SkillTestFrame THEN <<SkillTestFrame>> ELSE <<open, SkillTestFrame>>

Specs == {TestSpec(kind, None, kept) : kind \in Kinds, kept \in Investigators \cup {None}}
Parkings == {s \in Specs : s.kind = "Plain" => s.kept \in Investigators}

Early == {"PreCommitWindow", "NextHelper", "AwaitingHelperCommit", "AwaitingCommit", "PreTokenWindow", "Resolving"}
Late == {"CollectResults", "ApplyResults", "PostOnResolution"}
Pending(open) == open.step \in {"When", "ResolveCondition"}

Commits == [card : Cards, committer : Investigators, to : {"hand", "discard"}]
Verdicts == [succeeded : BOOLEAN, clear : BOOLEAN]
Results == {Card, Token} \cup ({"Addition"} \X Nat)
Fields == {"id", "investigator", "kind", "skill", "weapon", "kept", "step", "helper", "committed", "revealed",
           "resolved", "pending", "bonus", "discard_after", "cancelled", "told", "due", "applied"}

\* What a test is, wherever it stands.
TestTyped(t) ==
    /\ DOMAIN t = Fields
    /\ t.id \in Nat \ {0} /\ t.investigator = Taker /\ t.kind \in Kinds /\ t.skill \in Skills
    /\ t.weapon \in Cards \cup {None} /\ t.step \in Steps /\ t.helper \in Investigators \cup {None}
    /\ t.step = "AwaitingHelperCommit" => t.helper \in Investigators
    /\ t.kind = "Plain" => t.kept \in Investigators
    /\ t.committed \in Seq(Commits) /\ t.bonus \in Nat
    /\ t.revealed \in Bag \cup {None} /\ t.resolved \in Verdicts \cup {None}
    /\ t.pending \subseteq Results /\ (Card \in t.pending => t.kind = "Plain")

\* The verdict has been told.
Announced(t, open) ==
    \/ t.step \in Told
    \/ t.step = "AcknowledgeOutcome" /\ ~(open \in Announcements /\ Pending(open))

\* The token has counted, or none is drawn.
Settled(t, open) == t.step \notin Early /\ ~(open \in Reveals /\ Pending(open))

\* Where the test stands against what is open over it, `busy` when effects are over that.
Placed(t, open, busy) ==
    /\ open = SkillTestFrame /\ busy => t.step \in Late
    /\ open = SubstitutionPrompt => ~busy /\ t.step = "PreCommitWindow"
    /\ open = FastWindow => ~busy /\ t.step \in {"NextHelper", "Resolving"}
    /\ open \in Reveals =>
          /\ t.resolved = None /\ (busy => open.step = "At")
          /\ open.prevented => t.step = "Resolving" /\ Pending(open)
          /\ ~open.prevented => t.step = "DetermineOutcome"
    /\ open \in Announcements =>
          /\ t.step = "AcknowledgeOutcome" /\ ~open.prevented
          /\ busy => open.step = "After" /\ ~open.event.succeeded
          /\ ~Pending(open) => open.event.succeeded = t.resolved.succeeded
    /\ open \in Evasions => ~busy /\ t.step = "CollectResults" /\ ~open.prevented

\* What has been decided, and said of it.
Decided(t, open) ==
    /\ t.step \in Early => t.resolved = None
    /\ t.step \in Told \cup {"AcknowledgeOutcome"} => t.resolved \in Verdicts
    /\ t.told = IF Announced(t, open) THEN <<t.resolved.succeeded>> ELSE <<>>

Latches == {"AutomaticFailure", "AutomaticSuccess"}
Whats == {"initiator", "token", "modify"} \cup Latches
RowSet == [test : Nat, what : Whats, stat : Skills, delta : Int]
Says(rows, whats) == {k \in DOMAIN rows : rows[k].what \in whats}

\* What is recorded, and what it has come to.
Tallied(t, open, rows) ==
    /\ \A k \in DOMAIN rows : rows[k].test = t.id
    /\ ~Settled(t, open) => Says(rows, {"token", "AutomaticFailure"}) = {}
    /\ \A j, k \in Says(rows, {"token", "AutomaticFailure"}) : j = k
    /\ Settled(t, open) => t.revealed # None \/ Says(rows, Latches) # {}
    /\ Announced(t, open) /\ Says(rows, {"AutomaticFailure"}) # {} => ~t.resolved.succeeded

\* A test to evade that is decided, and not failed, still has its enemy to evade.
Opposed(t, f) ==
    /\ t.kind = "Evade" /\ t.resolved # None
    /\ t.step \in {"DetermineOutcome", "AcknowledgeOutcome", "ApplyResultModifiers", "ApplyFollowUp"}
    /\ t.told = <<>> \/ t.resolved.succeeded
    => f.in_play

Foes == [in_play : BOOLEAN, health : Nat, engaged : Investigators \cup {None}, exhausted : BOOLEAN]

\* Each card is in one place of six: a zone of its owner's, or in limbo, at one position.
Commitment(t) == IF t.id = 0 THEN <<>> ELSE t.committed
Limbo(q, c) == \E k \in DOMAIN q : q[k].card = c
OneOf(a, b, c, d, e, f) ==
    /\ a \/ b \/ c \/ d \/ e \/ f
    /\ a => ~(b \/ c \/ d \/ e \/ f)
    /\ b => ~(c \/ d \/ e \/ f)
    /\ c => ~(d \/ e \/ f)
    /\ d => ~(e \/ f)
    /\ e => ~f
Somewhere(board, i, c) ==
    LET was == board[i] IN c \in was.hand \cup was.deck \cup was.discard \cup was.in_play \cup was.removed
Accounted(board, q) ==
    /\ board \in [Investigators -> Seats] /\ q \in Seq(Commits)
    /\ \A j, k \in DOMAIN q : q[j].card = q[k].card => j = k
    /\ \A k \in DOMAIN q : q[k].committer = Owner[q[k].card]
    /\ \A c \in Cards :
          LET was == board[Owner[c]] IN
          /\ OneOf(c \in was.hand, c \in was.deck, c \in was.discard, c \in was.in_play, c \in was.removed,
             Limbo(q, c))
          /\ \A j \in Investigators : Somewhere(board, j, c) => j = Owner[c]
          /\ was.status # "Active" => c \in was.removed

CardsIn(q) == {q[k].card : k \in DOMAIN q}
Titled(S, title) == {c \in S : Title[c] = title}
Limited(q) == \A c \in CardsIn(q) : Cardinality(Titled(CardsIn(q), Title[c])) <= MaxPerTest[Title[c]]

\* The control of a test in flight, at one stack.
Control(t, open, busy, rows, f) ==
    /\ TestTyped(t) /\ Placed(t, open, busy) /\ Decided(t, open) /\ Tallied(t, open, rows) /\ Opposed(t, f)

Flying(s, t, rows, f) ==
    \E over \in Seq(Effects), open \in Openings :
        s = over \o Beneath(open) /\ Control(t, open, over # <<>>, rows, f)

Waiting(s) ==
    \/ s = <<>>
    \/ \E spec \in Parkings : s = <<ActionResolution(spec)>> \/ s = <<Harm(Taker), ActionResolution(spec)>>

Running(s, t, rows, f) ==
    IF t = NoTest THEN Waiting(s) /\ rows = <<>> ELSE Flying(s, t, rows, f)

ControlInv ==
    /\ Running(stack, test, recorded_modifiers, foe)
    /\ recorded_modifiers \in Seq(RowSet) /\ foe \in Foes
    /\ actions_remaining \in 0..Actions /\ skill_test_ids \in Nat /\ rejected = FALSE

CardInv == Accounted(investigators, Commitment(test)) /\ Limited(Commitment(test))

IndInv == ControlInv /\ CardInv

------------------------------------------------------------------------------
(* Stacks. *)

Frames == Effects \cup Openings

LEMMA KindsOf ==
    /\ \A f \in Effects : f.kind = "Effect"
    /\ \A f \in Cells : f.kind = "EmitEvent"
    /\ \A f \in Openings : f.kind # "Effect" /\ f.kind # "ActionResolution"
                           /\ (f.kind = "SkillTest" <=> f = SkillTestFrame)
                           /\ (f.kind = "FastWindow" <=> f = FastWindow)
                           /\ (f.kind = "SubstitutionPrompt" <=> f = SubstitutionPrompt)
                           /\ (f.kind = "EmitEvent" <=> f \in Cells)
    /\ \A f \in Reveals : f \notin Announcements /\ f \notin Evasions /\ f.event.kind = "ChaosTokenRevealed"
    /\ \A f \in Announcements : f \notin Reveals /\ f \notin Evasions /\ f.event.kind = "SkillTestResolved"
    /\ \A f \in Evasions : f \notin Reveals /\ f \notin Announcements /\ f.event.kind = "EnemyEvaded"
    /\ \A i \in Investigators : Harm(i) \in Effects
    /\ SkillTestFrame.kind = "SkillTest" /\ FastWindow.kind = "FastWindow"
       /\ SubstitutionPrompt.kind = "SubstitutionPrompt"
    /\ \A spec : ActionResolution(spec).kind = "ActionResolution" /\ ActionResolution(spec).spec = spec
<1> USE DEF Effects, Cells, Openings, Emits, Reveals, Announcements, Evasions, SkillTestFrame, FastWindow,
            SubstitutionPrompt
<1>1. \A f \in Effects : f.kind = "Effect"
      OBVIOUS
<1>2. /\ \A f \in Reveals : f.kind = "EmitEvent" /\ f.event.kind = "ChaosTokenRevealed"
      /\ \A f \in Announcements : f.kind = "EmitEvent" /\ f.event.kind = "SkillTestResolved"
      /\ \A f \in Evasions : f.kind = "EmitEvent" /\ f.event.kind = "EnemyEvaded"
      OBVIOUS
<1>3. /\ SkillTestFrame.kind = "SkillTest" /\ FastWindow.kind = "FastWindow"
      /\ SubstitutionPrompt.kind = "SubstitutionPrompt"
      OBVIOUS
<1>4. \A i \in Investigators : Harm(i) \in Effects
      BY DEF Harm, Effect, Doings
<1>5. \A spec : ActionResolution(spec).kind = "ActionResolution" /\ ActionResolution(spec).spec = spec
      BY DEF ActionResolution
<1>6. \A f \in Openings : f = SkillTestFrame \/ f = FastWindow \/ f = SubstitutionPrompt \/ f \in Reveals
                          \/ f \in Announcements \/ f \in Evasions
      OBVIOUS
<1>7. \A f \in Cells : f \in Reveals \/ f \in Announcements \/ f \in Evasions
      OBVIOUS
<1>8. \A f : f \in Reveals \/ f \in Announcements \/ f \in Evasions => f \in Cells /\ f \in Openings
      OBVIOUS
<1> HIDE DEF Effects, Cells, Openings, Emits, Reveals, Announcements, Evasions, SkillTestFrame, FastWindow,
             SubstitutionPrompt
<1>9. \A f \in Cells : f.kind = "EmitEvent"
      BY <1>2, <1>7
<1> QED BY <1>1, <1>2, <1>3, <1>4, <1>5, <1>6, <1>8, <1>9

LEMMA TwoConcat ==
    ASSUME NEW S, NEW f \in S, NEW g \in S
    PROVE  <<f>> \o <<g>> = <<f, g>>
<1>1. <<f>> \in Seq(S) /\ <<g>> \in Seq(S) /\ <<f, g>> \in Seq(S)
      OBVIOUS
<1>2. Len(<<f>> \o <<g>>) = 2 /\ (<<f>> \o <<g>>)[1] = f /\ (<<f>> \o <<g>>)[2] = g /\ <<f>> \o <<g>> \in Seq(S)
      BY <1>1
<1>3. Len(<<f, g>>) = 2 /\ <<f, g>>[1] = f /\ <<f, g>>[2] = g
      OBVIOUS
<1>4. \A k \in 1..2 : k = 1 \/ k = 2
      OBVIOUS
<1> QED BY <1>1, <1>2, <1>3, <1>4, SeqEqual

\* What lies beneath the effects.
LEMMA BeneathIs ==
    ASSUME NEW open \in Openings
    PROVE  /\ Beneath(open) \in Seq(Openings) /\ Beneath(open) # <<>> /\ Head(Beneath(open)) = open
           /\ <<>> \o Beneath(open) = Beneath(open)
           /\ open # SkillTestFrame => Beneath(open) = <<open, SkillTestFrame>>
              /\ Tail(Beneath(open)) = Beneath(SkillTestFrame)
           /\ open # SkillTestFrame => <<open>> \o Beneath(SkillTestFrame) = Beneath(open)
           /\ Beneath(SkillTestFrame) = <<SkillTestFrame>> /\ Tail(<<SkillTestFrame>>) = <<>>
<1>1. SkillTestFrame \in Openings
      BY DEF Openings
<1>2. Beneath(SkillTestFrame) = <<SkillTestFrame>> /\ Tail(<<SkillTestFrame>>) = <<>>
      BY DEF Beneath
<1>3. CASE open = SkillTestFrame
  <2>1. /\ <<SkillTestFrame>> \in Seq(Openings) /\ <<SkillTestFrame>> # <<>>
           /\ Head(<<SkillTestFrame>>) = SkillTestFrame
        /\ <<>> \o <<SkillTestFrame>> = <<SkillTestFrame>>
        BY <1>1
  <2> QED BY <1>2, <1>3, <2>1
<1>4. CASE open # SkillTestFrame
  <2>1. Beneath(open) = <<open, SkillTestFrame>> /\ <<open, SkillTestFrame>> \in Seq(Openings)
        BY <1>1, <1>4 DEF Beneath
  <2>2. /\ <<open, SkillTestFrame>> # <<>> /\ Head(<<open, SkillTestFrame>>) = open
        /\ Tail(<<open, SkillTestFrame>>) = <<SkillTestFrame>>
        OBVIOUS
  <2>3. <<open>> \o <<SkillTestFrame>> = <<open, SkillTestFrame>>
        BY <1>1, TwoConcat
  <2>4. <<>> \o Beneath(open) = Beneath(open)
        BY <2>1
  <2> QED BY <1>2, <2>1, <2>2, <2>3, <2>4
<1> QED BY <1>3, <1>4

\* A stack: its top, the rest of it, and what is put on it.
LEMMA StackIs ==
    ASSUME NEW over \in Seq(Effects), NEW open \in Openings
    PROVE  LET s == over \o Beneath(open) IN
           /\ s # <<>> /\ s \in Seq(Frames)
           /\ over = <<>> => s = Beneath(open) /\ Head(s) = open
           /\ over # <<>> => /\ Head(s) \in Effects /\ Tail(over) \in Seq(Effects)
                             /\ Tail(s) = Tail(over) \o Beneath(open)
           /\ \A more \in Seq(Effects) : more \o over \in Seq(Effects) /\ more \o s = (more \o over) \o Beneath(open)
                                         /\ (more # <<>> => more \o over # <<>>)
<1>1. /\ over \in Seq(Frames) /\ Beneath(open) \in Seq(Frames) /\ Beneath(open) # <<>>
      /\ Head(Beneath(open)) = open /\ <<>> \o Beneath(open) = Beneath(open)
      BY BeneathIs, SeqMonotonic DEF Frames
<1> DEFINE b == Beneath(open)
           s == over \o b
<1> HIDE DEF b
<1>2. s \in Seq(Frames) /\ s # <<>>
      BY <1>1 DEF b
<1>3. ASSUME over # <<>>
      PROVE  Head(s) \in Effects /\ Tail(over) \in Seq(Effects) /\ Tail(s) = Tail(over) \o b
  <2>1. Tail(over) \in Seq(Effects) /\ Tail(over) \in Seq(Frames) /\ Head(over) \in Effects
        BY <1>3, HeadTailProperties, SeqMonotonic DEF Frames
  <2>2. Head(s) = Head(over)
        BY <1>1, <1>3 DEF b
  <2>3. Tail(s) = Tail(over) \o b
    <3> DEFINE p == Tail(over) \o b
    <3>1. /\ Len(over) \in Nat \ {0} /\ Len(b) \in Nat /\ Len(Tail(over)) = Len(over) - 1
          /\ \A k \in 1..Len(Tail(over)) : Tail(over)[k] = over[k + 1]
          BY <1>1, <1>3 DEF b
    <3>2. /\ s \in Seq(Frames) /\ Len(s) = Len(over) + Len(b)
          /\ \A k \in 1..Len(s) : s[k] = IF k <= Len(over) THEN over[k] ELSE b[k - Len(over)]
          BY <1>1 DEF b
    <3>3. /\ p \in Seq(Frames) /\ Len(p) = Len(Tail(over)) + Len(b)
          /\ \A k \in 1..Len(p) : p[k] = IF k <= Len(Tail(over)) THEN Tail(over)[k] ELSE b[k - Len(Tail(over))]
          BY <1>1, <2>1 DEF b
    <3>4. /\ Tail(s) \in Seq(Frames) /\ Len(Tail(s)) = Len(s) - 1
          /\ \A k \in 1..Len(Tail(s)) : Tail(s)[k] = s[k + 1]
          BY <1>2, <3>1, <3>2
    <3> HIDE DEF s, p
    <3>5. Len(Tail(s)) = Len(p)
          BY <3>1, <3>2, <3>3, <3>4
    <3>6. \A k \in 1..Len(p) : Tail(s)[k] = p[k]
      <4> TAKE k \in 1..Len(p)
      <4> DEFINE n == Len(over)
                 m == Len(b)
      <4>1. n \in Nat \ {0} /\ m \in Nat /\ Len(p) = n - 1 + m /\ Len(Tail(over)) = n - 1 /\ Len(s) = n + m
            BY <3>1, <3>2, <3>3
      <4>2. Tail(s)[k] = s[k + 1]
            BY <3>4, <3>5
      <4>3. s[k + 1] = IF k + 1 <= n THEN over[k + 1] ELSE b[(k + 1) - n]
            BY <3>2, <4>1
      <4>4. p[k] = IF k <= n - 1 THEN Tail(over)[k] ELSE b[k - (n - 1)]
            BY <3>3, <4>1
      <4>5. k <= n - 1 => Tail(over)[k] = over[k + 1]
            BY <3>1, <4>1
      <4> HIDE DEF n, m
      <4>6. k \in Int /\ (k + 1 <= n <=> k <= n - 1) /\ (k + 1) - n = k - (n - 1)
            BY <4>1
      <4> QED BY <4>2, <4>3, <4>4, <4>5, <4>6
    <3>7. p \in Seq(Frames) /\ Tail(s) \in Seq(Frames)
          BY <3>3, <3>4
    <3>8. \A t, u \in Seq(Frames) : Len(t) = Len(u) /\ (\A k \in 1..Len(t) : t[k] = u[k]) => t = u
          BY SeqEqual
    <3>9. Tail(s) = p
          BY <3>5, <3>6, <3>7, <3>8
    <3> QED BY <3>9 DEF p
  <2> QED BY <2>1, <2>2, <2>3
<1>4. ASSUME NEW more \in Seq(Effects)
      PROVE  more \o over \in Seq(Effects) /\ more \o s = (more \o over) \o b /\ (more # <<>> => more \o over # <<>>)
  <2>1. more \in Seq(Frames)
        BY SeqMonotonic DEF Frames
  <2>2. more \o s = (more \o over) \o b
        BY <1>1, <2>1, ConcatAssociative, SMTT(30) DEF b
  <2>3. more \o over \in Seq(Effects) /\ (more # <<>> => more \o over # <<>>)
        OBVIOUS
  <2> QED BY <2>2, <2>3
<1> QED BY <1>1, <1>2, <1>3, <1>4 DEF b

\* Induction over the naturals, said of a set so that it can be cited: a set of
\* naturals that held back a least one would, with it, make an infinite descent.
LEMMA NatInduct ==
    ASSUME NEW T \in SUBSET Nat, 0 \in T, \A n \in T : n + 1 \in T
    PROVE  T = Nat
<1>1. SUFFICES ASSUME NEW t \in Nat \ T PROVE FALSE
      OBVIOUS
<1> DEFINE S == 0..t
           F == {0..k : k \in {n \in Nat \ T : n <= t}}
<1>2. IsWellFoundedOn(StrictSubsetOrdering(S), SUBSET S)
  <2>1. IsFiniteSet(S)
        BY FS_Interval
  <2> QED BY <2>1, FS_FiniteSubsetsOfFinite, FS_StrictSubsetOrderingWellFounded
<1>3. PICK x \in F : \A y \in F : ~(<<y, x>> \in StrictSubsetOrdering(S))
  <2>1. F \subseteq SUBSET S /\ F # {}
        BY <1>1
  <2> HIDE DEF F, S
  <2> QED BY <1>2, <2>1, WFMin
<1>4. PICK m \in Nat \ T : m <= t /\ x = 0..m
      BY <1>3
<1>5. m - 1 \in Nat \ T
      BY <1>4
<1>6. /\ 0..(m - 1) \in F
      /\ 0..(m - 1) \subseteq 0..m /\ 0..(m - 1) # 0..m
      /\ F \subseteq SUBSET S
      BY <1>4, <1>5
<1>7. <<0..(m - 1), x>> \in StrictSubsetOrdering(S)
      BY <1>4, <1>6, Zenon DEF StrictSubsetOrdering
<1> QED BY <1>3, <1>6, <1>7

\* What Among computes: the elements that are in G, in their order.
LEMMA AmongProperties ==
    ASSUME NEW S, NEW s \in Seq(S), NEW G
    PROVE  /\ Among(s, G) \in Seq(S)
           /\ Len(Among(s, G)) <= Len(s)
           /\ Elems(Among(s, G)) = Elems(s) \cap G
           /\ \E place \in [DOMAIN Among(s, G) -> DOMAIN s] :
                 /\ \A k \in DOMAIN Among(s, G) : Among(s, G)[k] = s[place[k]]
                 /\ \A j, k \in DOMAIN Among(s, G) : j < k => place[j] < place[k]
<1> DEFINE Body(f, i) == IF i = 0 THEN <<>>
                         ELSE IF s[i] \in G THEN Append(f[i - 1], s[i]) ELSE f[i - 1]
           among[i \in 0..Len(s)] ==
               IF i = 0 THEN <<>>
               ELSE IF s[i] \in G THEN Append(among[i - 1], s[i]) ELSE among[i - 1]
<1>1. Len(s) \in Nat /\ DOMAIN s = 1..Len(s)
      BY LenProperties
<1>2. among = [i \in 0..Len(s) |-> Body(among, i)]
  <2> DEFINE Computed == {n \in Nat : \E f : f = [i \in 0..n |-> Body(f, i)]}
  <2>1. 0 \in Computed
    <3> DEFINE f == [i \in 0..0 |-> <<>>]
    <3>1. f = [i \in 0..0 |-> Body(f, i)]
          OBVIOUS
    <3> HIDE DEF f
    <3> QED BY <3>1
  <2>2. ASSUME NEW n \in Computed PROVE n + 1 \in Computed
    <3>1. PICK f : f = [i \in 0..n |-> Body(f, i)]
          BY <2>2
    <3> DEFINE g == [i \in 0..(n + 1) |-> IF i = n + 1 THEN Body(f, i) ELSE f[i]]
    <3>2. ASSUME NEW i \in 0..(n + 1) PROVE g[i] = Body(g, i)
      <4>1. CASE i = 0
            BY <3>1, <4>1
      <4>2. CASE i \in 1..n
        <5>1. g[i] = f[i] /\ g[i - 1] = f[i - 1]
              BY <4>2
        <5>2. f[i] = Body(f, i)
          <6> HIDE DEF Body
          <6>1. i \in 0..n
                BY <4>2
          <6> QED BY <3>1, <6>1, Zenon
        <5> HIDE DEF g
        <5> QED BY <4>2, <5>1, <5>2
      <4>3. CASE i = n + 1
            BY <4>3
      <4> QED BY <4>1, <4>2, <4>3
    <3>3. g = [i \in 0..(n + 1) |-> Body(g, i)]
      <4> DEFINE h == [i \in 0..(n + 1) |-> Body(g, i)]
      <4>1. \A i \in 0..(n + 1) : h[i] = g[i]
            BY <3>2
      <4>2. DOMAIN g = DOMAIN h /\ DOMAIN h = 0..(n + 1)
            OBVIOUS
      <4> QED BY <3>2
    <3> HIDE DEF g, Body
    <3> QED BY <3>3
  <2>3. Len(s) \in Computed
    <3> HIDE DEF Computed
    <3>1. Computed \in SUBSET Nat
          BY DEF Computed
    <3> QED BY <1>1, <2>1, <2>2, <3>1, NatInduct
  <2>4. PICK f : f = [i \in 0..Len(s) |-> Body(f, i)]
        BY <2>3
  <2>5. among = CHOOSE g : g = [i \in 0..Len(s) |-> Body(g, i)]
        BY DEF among
  <2> HIDE DEF among
  <2> QED BY <2>4, <2>5
<1>3. /\ among[0] = <<>>
      /\ \A i \in 1..Len(s) : among[i] = IF s[i] \in G THEN Append(among[i - 1], s[i])
                                       ELSE among[i - 1]
  <2>1. \A i \in 0..Len(s) : among[i] = Body(among, i)
    <3> HIDE DEF among, Body
    <3> QED BY <1>2
  <2> HIDE DEF among
  <2> QED BY <1>1, <2>1
<1>4. Among(s, G) = among[Len(s)]
      BY DEF Among
<1> DEFINE InPlace(r, n) == \E place \in [DOMAIN r -> 1..n] :
                              /\ \A k \in DOMAIN r : r[k] = s[place[k]]
                              /\ \A j, k \in DOMAIN r : j < k => place[j] < place[k]
           Right(r, n) == /\ r \in Seq(S)
                          /\ Len(r) <= n
                          /\ \A k \in DOMAIN r : r[k] \in G
                          /\ \A j \in 1..n : s[j] \in G => \E k \in DOMAIN r : r[k] = s[j]
                          /\ InPlace(r, n)
           Reached == {n \in Nat : n <= Len(s) => Right(among[n], n)}
<1> HIDE DEF among, InPlace, Right, Reached
<1>5. 0 \in Reached
  <2>1. <<>> \in Seq(S) /\ Len(<<>>) = 0 /\ DOMAIN <<>> = {}
        BY EmptySeq, LenProperties
  <2>2. InPlace(<<>>, 0)
    <3>1. [k \in {} |-> k] \in [DOMAIN <<>> -> 1..0]
          BY <2>1
    <3> QED BY <2>1, <3>1 DEF InPlace
  <2>3. Right(<<>>, 0)
        BY <2>1, <2>2 DEF Right
  <2> QED BY <1>3, <2>3 DEF Reached
<1>6. ASSUME NEW n \in Nat, n \in Reached PROVE n + 1 \in Reached
  <2> SUFFICES ASSUME n + 1 <= Len(s) PROVE Right(among[n + 1], n + 1)
      BY <1>6 DEF Reached
  <2> DEFINE r == among[n]
             e == s[n + 1]
  <2>1. Right(r, n)
        BY <1>1, <1>6 DEF Reached
  <2>2. /\ r \in Seq(S) /\ Len(r) \in Nat /\ DOMAIN r = 1..Len(r) /\ Len(r) <= n
        /\ e \in S
        BY <1>1, <1>6, <2>1, LenProperties, ElementOfSeq DEF Right
  <2>3. PICK f \in [DOMAIN r -> 1..n] : /\ \A k \in DOMAIN r : r[k] = s[f[k]]
                                        /\ \A j, k \in DOMAIN r : j < k => f[j] < f[k]
        BY <2>1 DEF Right, InPlace
  <2>4. /\ \A k \in DOMAIN r : r[k] \in G
        /\ \A j \in 1..n : s[j] \in G => \E k \in DOMAIN r : r[k] = s[j]
        BY <2>1 DEF Right
  <2>5. among[n + 1] = IF e \in G THEN Append(r, e) ELSE r
        BY <1>1, <1>3
  <2> HIDE DEF r, e
  <2>6. \A j \in 1..(n + 1) : j = n + 1 \/ j \in 1..n
        OBVIOUS
  <2>7. CASE e \notin G
    <3>1. f \in [DOMAIN r -> 1..(n + 1)]
          BY <2>2
    <3>2. InPlace(r, n + 1)
          BY <2>3, <3>1 DEF InPlace
    <3>3. \A j \in 1..(n + 1) : s[j] \in G => \E k \in DOMAIN r : r[k] = s[j]
          BY <2>4, <2>6, <2>7 DEF e
    <3>4. Right(r, n + 1)
          BY <2>2, <2>4, <3>2, <3>3 DEF Right
    <3> QED BY <2>5, <2>7, <3>4
  <2>8. CASE e \in G
    <3> DEFINE t == Append(r, e)
    <3>1. /\ t \in Seq(S) /\ Len(t) = Len(r) + 1 /\ DOMAIN t = 1..(Len(r) + 1)
          /\ \A k \in 1..Len(r) : t[k] = r[k]
          /\ t[Len(r) + 1] = e
          BY <2>2, AppendProperties, LenProperties
    <3> HIDE DEF t
    <3> DEFINE g == [k \in DOMAIN t |-> IF k = Len(r) + 1 THEN n + 1 ELSE f[k]]
    <3>2. g \in [DOMAIN t -> 1..(n + 1)]
          BY <2>2, <3>1
    <3>3. \A k \in DOMAIN t : t[k] = s[g[k]]
          BY <2>2, <2>3, <3>1 DEF e
    <3>4. \A j, k \in DOMAIN t : j < k => g[j] < g[k]
          BY <2>2, <2>3, <3>1
    <3> HIDE DEF g
    <3>5. InPlace(t, n + 1)
          BY <3>2, <3>3, <3>4 DEF InPlace
    <3>6. \A k \in DOMAIN t : t[k] \in G
          BY <2>2, <2>4, <2>8, <3>1
    <3>7. \A j \in 1..(n + 1) : s[j] \in G => \E k \in DOMAIN t : t[k] = s[j]
      <4>1. s[n + 1] = e /\ Len(r) + 1 \in DOMAIN t
            BY <2>2, <3>1 DEF e
      <4>2. \A k \in DOMAIN r : k \in DOMAIN t /\ t[k] = r[k]
            BY <2>2, <3>1
      <4> QED BY <2>4, <2>6, <3>1, <4>1, <4>2
    <3>8. Right(t, n + 1)
          BY <2>2, <3>1, <3>5, <3>6, <3>7 DEF Right
    <3> QED BY <2>5, <2>8, <3>8 DEF t
  <2> QED BY <2>7, <2>8
<1>7. Right(Among(s, G), Len(s))
  <2>1. Reached \in SUBSET Nat
        BY DEF Reached
  <2>2. Len(s) \in Reached
        BY <1>1, <1>5, <1>6, <2>1, NatInduct
  <2> QED BY <1>1, <1>4, <2>2 DEF Reached
<1>8. Elems(Among(s, G)) = Elems(s) \cap G
  <2>1. \A k \in DOMAIN Among(s, G) : \E j \in DOMAIN s : Among(s, G)[k] = s[j]
        BY <1>1, <1>7 DEF Right, InPlace
  <2>2. \A j \in DOMAIN s : s[j] \in G =>
             \E k \in DOMAIN Among(s, G) : Among(s, G)[k] = s[j]
        BY <1>1, <1>7 DEF Right
  <2>3. \A k \in DOMAIN Among(s, G) : Among(s, G)[k] \in G
        BY <1>7 DEF Right
  <2> QED BY <2>1, <2>2, <2>3 DEF Elems
<1> QED BY <1>1, <1>7, <1>8 DEF Right, InPlace

------------------------------------------------------------------------------
(* What is on top says what the rest is. *)

LEMMA IdApart ==
    /\ NoTest.id = 0
    /\ \A t : TestTyped(t) => t # NoTest
BY DEF NoTest, TestTyped

LEMMA Quieter ==
    ASSUME NEW t, NEW open, NEW busy \in BOOLEAN, NEW rows, NEW f, Control(t, open, TRUE, rows, f)
    PROVE  Control(t, open, busy, rows, f)
BY DEF Control, Placed

\* A stack of this form is a test in flight.
LEMMA Flies ==
    ASSUME NEW over \in Seq(Effects), NEW open \in Openings, NEW t, NEW rows, NEW f,
           Control(t, open, over # <<>>, rows, f)
    PROVE  Running(over \o Beneath(open), t, rows, f)
<1>1. t # NoTest
      BY IdApart DEF Control
<1> QED BY <1>1 DEF Running, Flying

LEMMA FliesBare ==
    ASSUME NEW open \in Openings, NEW t, NEW rows, NEW f, Control(t, open, FALSE, rows, f)
    PROVE  Running(Beneath(open), t, rows, f)
<1>1. <<>> \in Seq(Effects) /\ <<>> \o Beneath(open) = Beneath(open)
      BY BeneathIs
<1> DEFINE none == <<>>
<1>2. Control(t, open, none # <<>>, rows, f)
      OBVIOUS
<1>3. Running(none \o Beneath(open), t, rows, f)
      BY <1>1, <1>2, Flies
<1> QED BY <1>1, <1>3

LEMMA WaitingTops ==
    ASSUME NEW s, Waiting(s), s # <<>>
    PROVE  \/ \E spec \in Parkings : s = <<ActionResolution(spec)>> /\ Head(s) = ActionResolution(spec)
              /\ Tail(s) = <<>>
           \/ \E spec \in Parkings : /\ s = <<Harm(Taker), ActionResolution(spec)>> /\ Head(s) = Harm(Taker)
                                     /\ Tail(s) = <<ActionResolution(spec)>>
<1>1. \A f : Head(<<f>>) = f /\ Tail(<<f>>) = <<>>
      OBVIOUS
<1>2. \A f, g : Head(<<f, g>>) = f /\ Tail(<<f, g>>) = <<g>>
      OBVIOUS
<1> QED BY <1>1, <1>2 DEF Waiting

\* The test on top is all there is.
LEMMA TopTest ==
    ASSUME ControlInv, On("SkillTest")
    PROVE  /\ stack = Beneath(SkillTestFrame) /\ stack = <<SkillTestFrame>> /\ Tail(stack) = <<>> /\ InFlight
           /\ Control(test, SkillTestFrame, FALSE, recorded_modifiers, foe)
<1>1. stack # <<>> /\ Head(stack).kind = "SkillTest"
      BY DEF On, Top
<1>2. test # NoTest
  <2>1. SUFFICES ASSUME test = NoTest PROVE FALSE
        OBVIOUS
  <2>2. Waiting(stack)
        BY <2>1 DEF ControlInv, Running
  <2> QED BY <1>1, <2>2, WaitingTops, KindsOf, TestAssumption
<1>3. PICK over \in Seq(Effects), open \in Openings :
          stack = over \o Beneath(open) /\ Control(test, open, over # <<>>, recorded_modifiers, foe)
      BY <1>2 DEF ControlInv, Running, Flying
<1>4. over = <<>>
      BY <1>1, <1>3, StackIs, KindsOf
<1>5. stack = Beneath(open) /\ Head(stack) = open
      BY <1>3, <1>4, StackIs
<1>6. open = SkillTestFrame
      BY <1>1, <1>5, KindsOf
<1>7. Control(test, SkillTestFrame, FALSE, recorded_modifiers, foe)
  <2>1. (over # <<>>) = FALSE
        BY <1>4
  <2> QED BY <1>3, <1>6, <2>1
<1> QED BY <1>2, <1>5, <1>6, <1>7, BeneathIs DEF InFlight

\* So is what is open, over the test.
LEMMA TopOpen ==
    ASSUME ControlInv, stack # <<>>, Top.kind \notin {"Effect", "ActionResolution", "SkillTest"}
    PROVE  /\ Top \in Openings /\ Top # SkillTestFrame /\ stack = Beneath(Top) /\ InFlight
           /\ Tail(stack) = Beneath(SkillTestFrame) /\ stack = <<Top, SkillTestFrame>>
           /\ Control(test, Top, FALSE, recorded_modifiers, foe)
<1>1. test # NoTest
  <2>1. SUFFICES ASSUME test = NoTest PROVE FALSE
        OBVIOUS
  <2>2. Waiting(stack)
        BY <2>1 DEF ControlInv, Running
  <2> QED BY <2>2, WaitingTops, KindsOf, TestAssumption DEF Top
<1>2. PICK over \in Seq(Effects), open \in Openings :
          stack = over \o Beneath(open) /\ Control(test, open, over # <<>>, recorded_modifiers, foe)
      BY <1>1 DEF ControlInv, Running, Flying
<1>3. over = <<>>
      BY <1>2, StackIs, KindsOf DEF Top
<1>4. stack = Beneath(open) /\ Head(stack) = open
      BY <1>2, <1>3, StackIs
<1>5. open # SkillTestFrame
      BY <1>4, KindsOf DEF Top
<1>6. Control(test, open, FALSE, recorded_modifiers, foe)
  <2>1. (over # <<>>) = FALSE
        BY <1>3
  <2> QED BY <1>2, <2>1
<1> QED BY <1>1, <1>4, <1>5, <1>6, BeneathIs DEF InFlight, Top

\* An effect resolves, and others take its place, above a test that stays where it stands.
LEMMA EffectResolves ==
    ASSUME ControlInv, On("Effect"), NEW more \in Seq(Effects), NEW t, NEW rows, NEW f,
           Top # Harm(Taker) \/ InFlight \/ more = <<>>,
           \A open \in Openings : Control(test, open, TRUE, recorded_modifiers, foe)
               => Control(t, open, TRUE, rows, f),
           ~InFlight /\ Top = Harm(Taker) => t = NoTest /\ rows = recorded_modifiers
    PROVE  Running(more \o Tail(stack), t, rows, f)
<1>1. stack # <<>> /\ Head(stack).kind = "Effect"
      BY DEF On, Top
<1>2. CASE test = NoTest
  <2>1. Waiting(stack) /\ recorded_modifiers = <<>>
        BY <1>2 DEF ControlInv, Running
  <2>2. PICK spec \in Parkings : Head(stack) = Harm(Taker) /\ Tail(stack) = <<ActionResolution(spec)>>
        BY <1>1, <2>1, WaitingTops, KindsOf
  <2>3. t = NoTest /\ rows = <<>> /\ more = <<>>
        BY <1>2, <2>1, <2>2 DEF InFlight, Top
  <2>4. more \o Tail(stack) = <<ActionResolution(spec)>>
        BY <2>2, <2>3
  <2> QED BY <2>3, <2>4 DEF Running, Waiting
<1>3. CASE test # NoTest
  <2>1. PICK over \in Seq(Effects), open \in Openings :
            stack = over \o Beneath(open) /\ Control(test, open, over # <<>>, recorded_modifiers, foe)
        BY <1>3 DEF ControlInv, Running, Flying
  <2>2. over # <<>>
        BY <1>1, <2>1, StackIs, KindsOf
  <2>3. Tail(over) \in Seq(Effects) /\ Tail(stack) = Tail(over) \o Beneath(open)
        BY <2>1, <2>2, StackIs
  <2>4. Control(t, open, TRUE, rows, f)
    <3>1. (over # <<>>) = TRUE
          BY <2>2
    <3> QED BY <2>1, <3>1
  <2> DEFINE left == more \o Tail(over)
  <2>5. left \in Seq(Effects) /\ more \o Tail(stack) = left \o Beneath(open)
    <3> DEFINE rest == Tail(over)
    <3> HIDE DEF rest
    <3>1. rest \in Seq(Effects) /\ Tail(stack) = rest \o Beneath(open)
          BY <2>3 DEF rest
    <3>2. more \o rest \in Seq(Effects) /\ more \o (rest \o Beneath(open)) = (more \o rest) \o Beneath(open)
          BY <3>1, StackIs, SMTT(30)
    <3> QED BY <3>1, <3>2 DEF rest
  <2> HIDE DEF left
  <2>6. Control(t, open, left # <<>>, rows, f)
        BY <2>4, Quieter
  <2> QED BY <2>5, <2>6, Flies
<1> QED BY <1>2, <1>3

------------------------------------------------------------------------------
(* A test that changes in a few of its fields. *)

Agree(t, u, but) == DOMAIN u = Fields /\ \A x \in Fields \ but : u[x] = t[x]

\* The fields a test keeps its control by.
Named(t, u, but) ==
    /\ u.id = t.id /\ u.investigator = t.investigator /\ u.kind = t.kind /\ u.weapon = t.weapon /\ u.kept = t.kept
    /\ "skill" \in but \/ u.skill = t.skill
    /\ "step" \in but \/ u.step = t.step
    /\ "helper" \in but \/ u.helper = t.helper
    /\ "committed" \in but \/ u.committed = t.committed
    /\ "revealed" \in but \/ u.revealed = t.revealed
    /\ "resolved" \in but \/ u.resolved = t.resolved
    /\ "pending" \in but \/ u.pending = t.pending
    /\ "bonus" \in but \/ u.bonus = t.bonus
    /\ "told" \in but \/ u.told = t.told

LEMMA Names1 ==
    ASSUME NEW t, NEW u, NEW but, Agree(t, u, but), but \cap {"id", "investigator", "kind", "weapon", "kept"} = {}
    PROVE  Named(t, u, but)
BY DEF Named, Agree, Fields

LEMMA Except1 ==
    ASSUME NEW t, DOMAIN t = Fields, NEW a
    PROVE  /\ LET u == [t EXCEPT !.step = a] IN u.step = a /\ Agree(t, u, {"step"})
           /\ LET u == [t EXCEPT !.skill = a] IN u.skill = a /\ Agree(t, u, {"skill"})
           /\ LET u == [t EXCEPT !.committed = a] IN u.committed = a /\ Agree(t, u, {"committed"})
           /\ LET u == [t EXCEPT !.discard_after = a] IN Agree(t, u, {"discard_after"})
           /\ LET u == [t EXCEPT !.revealed = a] IN u.revealed = a /\ Agree(t, u, {"revealed"})
BY DEF Agree, Fields

------------------------------------------------------------------------------
(* Control under effects. *)

LEMMA SameControl ==
    ASSUME NEW t, NEW u, NEW open, NEW busy \in BOOLEAN, NEW rows, NEW f, Control(t, open, busy, rows, f),
           Named(t, u, {"committed", "skill"}), DOMAIN u = Fields, u.committed \in Seq(Commits), u.skill \in Skills
    PROVE  Control(u, open, busy, rows, f)
<1> USE DEF Named, Control
<1>1. TestTyped(u)
      BY DEF TestTyped
<1>2. Placed(u, open, busy)
      BY DEF Placed
<1>3. Decided(u, open)
      BY DEF Decided, Announced
<1>4. Tallied(u, open, rows)
      BY DEF Tallied, Announced, Settled
<1>5. Opposed(u, f)
      BY DEF Opposed
<1> QED BY <1>1, <1>2, <1>3, <1>4, <1>5

LEMMA Unopposed ==
    ASSUME NEW t, NEW open \in Openings, NEW rows, NEW f, Control(t, open, TRUE, rows, f), NEW g
    PROVE  Control(t, open, TRUE, rows, g)
<1> SUFFICES Opposed(t, g)
    BY DEF Control
<1>1. TestTyped(t) /\ Placed(t, open, TRUE) /\ Decided(t, open)
      BY DEF Control
<1>2. open = SkillTestFrame \/ open \in Reveals \/ open \in Announcements
      BY <1>1 DEF Placed, Openings, Cells
<1>3. CASE open = SkillTestFrame
      BY <1>1, <1>3 DEF Placed, Opposed, Late
<1>4. CASE open \in Reveals
      BY <1>1, <1>4 DEF Placed, Opposed
<1>5. CASE open \in Announcements
  <2>1. /\ t.step = "AcknowledgeOutcome" /\ ~Pending(open) /\ t.resolved.succeeded = open.event.succeeded
        /\ ~open.event.succeeded
        BY <1>1, <1>5 DEF Placed, Pending
  <2>2. t.told = <<t.resolved.succeeded>>
        BY <1>1, <2>1 DEF Decided, Announced
  <2>3. t.told # <<>> /\ ~t.resolved.succeeded
        BY <2>1, <2>2
  <2> QED BY <2>3 DEF Opposed
<1> QED BY <1>2, <1>3, <1>4, <1>5

LEMMA Recorded ==
    ASSUME NEW t, NEW open, NEW busy, NEW rows \in Seq(RowSet), NEW f, Control(t, open, busy, rows, f),
           NEW row \in RowSet, row.test = t.id, row.what \notin {"token", "AutomaticFailure"}
    PROVE  Control(t, open, busy, Append(rows, row), f)
<1> DEFINE more == Append(rows, row)
<1>1. DOMAIN rows = 1..Len(rows) /\ DOMAIN more = 1..(Len(rows) + 1) /\ Len(rows) \in Nat
      /\ (\A k \in DOMAIN rows : more[k] = rows[k]) /\ more[Len(rows) + 1] = row
      BY LenProperties, AppendProperties
<1> HIDE DEF more
<1>2. \A k \in DOMAIN more : k \in DOMAIN rows \/ k = Len(rows) + 1
      BY <1>1
<1>3. /\ \A k \in DOMAIN rows : k \in DOMAIN more
      /\ Len(rows) + 1 \in DOMAIN more
      BY <1>1
<1>4. \A k \in DOMAIN more : more[k].test = t.id
      BY <1>1, <1>2 DEF Control, Tallied
<1>5. /\ Says(more, {"token", "AutomaticFailure"}) = Says(rows, {"token", "AutomaticFailure"})
      /\ Says(more, {"AutomaticFailure"}) = Says(rows, {"AutomaticFailure"})
      /\ Says(rows, Latches) \subseteq Says(more, Latches)
      BY <1>1, <1>2, <1>3 DEF Says
<1>6. Tallied(t, open, more)
      BY <1>4, <1>5 DEF Control, Tallied
<1> QED BY <1>6 DEF Control, more

\* The rows of this test.
LEMMA NewRow ==
    ASSUME ControlInv, InFlight, NEW what \in Whats, NEW delta \in Int
    PROVE  /\ Row(what, delta) \in RowSet /\ Row(what, delta).test = test.id /\ Row(what, delta).what = what
           /\ Append(recorded_modifiers, Row(what, delta)) \in Seq(RowSet)
<1>1. TestTyped(test)
      BY DEF ControlInv, Running, InFlight, Flying, Control
<1>2. Row(what, delta) \in RowSet /\ Row(what, delta).test = test.id /\ Row(what, delta).what = what
      BY <1>1 DEF Row, RowSet, TestTyped
<1>3. recorded_modifiers \in Seq(RowSet)
      BY DEF ControlInv
<1> HIDE DEF Row
<1> QED BY <1>2, <1>3

LEMMA HitFoeTyped ==
    ASSUME NEW f \in Foes, NEW n \in Nat
    PROVE  HitFoe(f, n) \in Foes
BY DEF HitFoe, Foes

\* An effect that leaves the test and its rows alone.
LEMMA EffectQuiet ==
    ASSUME ControlInv, On("Effect"), NEW more \in Seq(Effects), more = <<>> \/ Top # Harm(Taker), NEW f
    PROVE  Running(more \o Tail(stack), test, recorded_modifiers, f)
<1>1. \A open \in Openings : Control(test, open, TRUE, recorded_modifiers, foe)
      => Control(test, open, TRUE, recorded_modifiers, f)
      BY Unopposed
<1> QED BY <1>1, EffectResolves DEF InFlight

LEMMA NoMore ==
    ASSUME ControlInv, On("Effect")
    PROVE  <<>> \in Seq(Effects) /\ <<>> \o Tail(stack) = Tail(stack)
<1>1. stack # <<>>
      BY DEF On
<1>2. stack \in Seq(Frames \cup {ActionResolution(spec) : spec \in Parkings})
  <2> DEFINE S == Frames \cup {ActionResolution(spec) : spec \in Parkings}
  <2>1. Waiting(stack) => stack \in Seq(S)
    <3>1. SUFFICES ASSUME Waiting(stack), stack # <<>> PROVE stack \in Seq(S)
          BY <1>1
    <3>2. Harm(Taker) \in S /\ \A spec \in Parkings : ActionResolution(spec) \in S
          BY KindsOf, TestAssumption DEF Frames
    <3> HIDE DEF S
    <3>3. \A f \in S : <<f>> \in Seq(S)
          OBVIOUS
    <3>4. \A f, g \in S : <<f, g>> \in Seq(S)
          OBVIOUS
    <3>5. \A spec \in Parkings : /\ <<ActionResolution(spec)>> \in Seq(S)
                                /\ <<Harm(Taker), ActionResolution(spec)>> \in Seq(S)
          BY <3>2, <3>3, <3>4, Zenon
    <3> QED BY <3>1, <3>5, Zenon DEF Waiting
  <2>2. stack \in Seq(Frames) => stack \in Seq(S)
        BY SeqMonotonic
  <2>3. Flying(stack, test, recorded_modifiers, foe) => stack \in Seq(Frames)
        BY StackIs DEF Flying
  <2> QED BY <2>1, <2>2, <2>3 DEF ControlInv, Running
<1> QED BY <1>1, <1>2

LEMMA QuietEffect ==
    ASSUME ControlInv, On("Effect"), stack' = Tail(stack), foe' \in Foes,
           UNCHANGED <<test, recorded_modifiers, Rest>>
    PROVE  ControlInv'
<1>1. Running(Tail(stack), test, recorded_modifiers, foe')
  <2> DEFINE none == <<>>
  <2>1. none \in Seq(Effects) /\ none \o Tail(stack) = Tail(stack) /\ none = <<>>
        BY NoMore
  <2> HIDE DEF none
  <2>2. Running(none \o Tail(stack), test, recorded_modifiers, foe')
        BY <2>1, EffectQuiet
  <2> QED BY <2>1, <2>2
<1> QED BY <1>1 DEF ControlInv, Rest

LEMMA ControlTakeHarm == ASSUME ControlInv, TakeHarm PROVE ControlInv'
<1>1. foe' \in Foes
      BY HitFoeTyped DEF TakeHarm, ControlInv
<1> QED BY <1>1, QuietEffect DEF TakeHarm

LEMMA ControlHeal == ASSUME ControlInv, Heal PROVE ControlInv'
BY QuietEffect DEF Heal, ControlInv

LEMMA ControlNoEffect == ASSUME ControlInv, NoEffect PROVE ControlInv'
BY QuietEffect DEF NoEffect, ControlInv, Board

\* What Among keeps of the commits when i's are taken back.
Others(q, i) == {k \in Elems(q) : k.committer # i}

LEMMA Kept ==
    ASSUME NEW q \in Seq(Commits), NEW i
    PROVE  LET r == Among(q, Others(q, i)) IN
           /\ r \in Seq(Commits)
           /\ Elems(r) = Others(q, i)
           /\ \E place \in [DOMAIN r -> DOMAIN q] :
                 /\ \A k \in DOMAIN r : r[k] = q[place[k]]
                 /\ \A j, k \in DOMAIN r : j < k => place[j] < place[k]
<1>1. Elems(q) \cap Others(q, i) = Others(q, i)
      BY DEF Others
<1> QED BY <1>1, AmongProperties

LEMMA FlyingTest ==
    ASSUME ControlInv, InFlight
    PROVE  TestTyped(test) /\ \A k \in DOMAIN recorded_modifiers : recorded_modifiers[k].test = test.id
BY DEF ControlInv, Running, InFlight, Flying, Control, Tallied

LEMMA CommitsTyped ==
    ASSUME ControlInv
    PROVE  Commitment(test) \in Seq(Commits) /\ (InFlight => Commitment(test) = test.committed)
<1>1. CASE InFlight
      BY <1>1, FlyingTest DEF TestTyped, Commitment
<1>2. CASE ~InFlight
  <2>1. Commitment(test) = <<>>
        BY <1>2 DEF InFlight, NoTest, Commitment
  <2> QED BY <1>2, <2>1
<1> QED BY <1>1, <1>2

LEMMA Taking ==
    ASSUME ControlInv, NEW i
    PROVE  LET u == TakeCommittedCards(i) IN
           /\ InFlight => /\ Agree(test, u, {"committed"}) /\ u # NoTest
                          /\ u.committed = Among(test.committed, Others(test.committed, i))
                          /\ u.committed \in Seq(Commits)
           /\ ~InFlight => u = test /\ u = NoTest
<1>1. CASE InFlight
  <2>1. TestTyped(test)
        BY <1>1, FlyingTest
  <2> DEFINE q == Among(test.committed, Others(test.committed, i))
  <2>2. q \in Seq(Commits)
        BY <2>1, Kept DEF TestTyped
  <2> HIDE DEF q
  <2>3. TakeCommittedCards(i) = [test EXCEPT !.committed = q]
        BY <1>1 DEF TakeCommittedCards, Others, q
  <2>4. Agree(test, TakeCommittedCards(i), {"committed"}) /\ TakeCommittedCards(i).committed = q
    <3>1. DOMAIN test = Fields
          BY <2>1 DEF TestTyped
    <3> DEFINE u == [test EXCEPT !.committed = q]
    <3>2. Agree(test, u, {"committed"}) /\ u.committed = q
          BY <3>1, Except1
    <3>3. TakeCommittedCards(i) = u
          BY <2>3
    <3> HIDE DEF u
    <3> QED BY <3>2, <3>3
  <2>5. TakeCommittedCards(i).id = test.id
        BY <2>4 DEF Agree, Fields
  <2>6. TakeCommittedCards(i) # NoTest
        BY <2>1, <2>5 DEF NoTest, TestTyped
  <2> QED BY <1>1, <2>2, <2>4, <2>6 DEF q
<1>2. CASE ~InFlight
      BY <1>2 DEF InFlight, TakeCommittedCards
<1> QED BY <1>1, <1>2

LEMMA FreedTyped ==
    ASSUME foe \in Foes, NEW i, NEW f \in FreedFrom(i)
    PROVE  f \in Foes
<1>1. CASE foe.engaged # i
      BY <1>1 DEF FreedFrom
<1>2. CASE foe.engaged = i
  <2>1. PICK j \in Investigators \cup {None} : f = [foe EXCEPT !.engaged = j]
        BY <1>2 DEF FreedFrom
  <2> QED BY <2>1 DEF Foes
<1> QED BY <1>1, <1>2

LEMMA ControlDefeated == ASSUME ControlInv, Defeated PROVE ControlInv'
<1> DEFINE i == Top.who
           u == TakeCommittedCards(i)
<1>1. On("Effect") /\ stack' = Tail(stack) /\ test' = u /\ UNCHANGED <<recorded_modifiers, Rest>>
      BY DEF Defeated
<1>2. foe' \in Foes
      BY FreedTyped DEF Defeated, ControlInv
<1>3. ASSUME NEW open \in Openings, Control(test, open, TRUE, recorded_modifiers, foe)
      PROVE  Control(u, open, TRUE, recorded_modifiers, foe')
  <2>1. TestTyped(test) /\ InFlight
        BY <1>3, IdApart DEF Control, InFlight
  <2>2. Agree(test, u, {"committed"}) /\ u.committed \in Seq(Commits)
        BY <2>1, Taking
  <2> HIDE DEF u
  <2>3. Named(test, u, {"committed"}) /\ DOMAIN u = Fields
        BY <2>2, Names1 DEF Agree
  <2>4. Control(u, open, TRUE, recorded_modifiers, foe)
    <3>1. Named(test, u, {"committed", "skill"}) /\ u.skill \in Skills
          BY <2>1, <2>3 DEF Named, TestTyped
    <3> QED BY <1>3, <2>2, <2>3, <3>1, SameControl
  <2> QED BY <2>4, Unopposed
<1>4. ~InFlight => u = NoTest
      BY Taking
<1> HIDE DEF u, i
<1>5. Running(Tail(stack), u, recorded_modifiers, foe')
  <2> DEFINE none == <<>>
  <2>1. none \in Seq(Effects) /\ none \o Tail(stack) = Tail(stack) /\ none = <<>>
        BY <1>1, NoMore
  <2> HIDE DEF none
  <2>2. Running(none \o Tail(stack), u, recorded_modifiers, foe')
        BY <1>1, <1>3, <1>4, <2>1, EffectResolves
  <2> QED BY <2>1, <2>2
<1> QED BY <1>1, <1>2, <1>5 DEF ControlInv, Rest

LEMMA ControlDraw == ASSUME ControlInv, Draw PROVE ControlInv'
<1> DEFINE more == IF investigators[Top.who].deck = {} THEN <<Harm(Top.who)>> ELSE <<>>
<1>1. On("Effect") /\ Top.does = "draw" /\ stack' = more \o Tail(stack)
      /\ UNCHANGED <<test, foe, recorded_modifiers, Rest>>
      BY DEF Draw
<1>2. Top # Harm(Taker)
      BY <1>1 DEF Harm, Effect
<1>3. more \in Seq(Effects)
  <2>1. CASE InFlight
    <3>1. Top \in Effects
      <4>1. PICK over \in Seq(Effects), open \in Openings : stack = over \o Beneath(open)
            BY <2>1 DEF ControlInv, Running, InFlight, Flying
      <4>2. stack # <<>> /\ Head(stack).kind = "Effect"
            BY <1>1 DEF On, Top
      <4>3. over # <<>>
            BY <4>1, <4>2, StackIs, KindsOf
      <4> QED BY <4>1, <4>3, StackIs DEF Top
    <3>2. Harm(Top.who) \in Effects
          BY <3>1, KindsOf DEF Effects
    <3> QED BY <3>2
  <2>2. CASE ~InFlight
    <3>1. Waiting(stack) /\ stack # <<>> /\ Head(stack).kind = "Effect"
          BY <1>1, <2>2 DEF ControlInv, Running, InFlight, On, Top
    <3>2. Head(stack) = Harm(Taker)
          BY <3>1, WaitingTops, KindsOf
    <3> QED BY <1>2, <3>2 DEF Top
  <2> QED BY <2>1, <2>2
<1> HIDE DEF more
<1>4. Running(more \o Tail(stack), test, recorded_modifiers, foe)
      BY <1>1, <1>2, <1>3, EffectQuiet
<1> QED BY <1>1, <1>4 DEF ControlInv, Rest

\* Effects that write to the test they are over.
LEMMA OverTest ==
    ASSUME ControlInv, On("Effect"), Top.does \in {"return", "mark", "latch"}
    PROVE  InFlight /\ Top # Harm(Taker) /\ TestTyped(test)
<1>1. Top # Harm(Taker)
      BY DEF Harm, Effect
<1>2. InFlight
  <2>1. SUFFICES ASSUME ~InFlight PROVE FALSE
        OBVIOUS
  <2>2. Waiting(stack) /\ stack # <<>> /\ Head(stack).kind = "Effect"
        BY <2>1 DEF ControlInv, Running, InFlight, On, Top
  <2> QED BY <1>1, <2>2, WaitingTops, KindsOf DEF Top
<1> QED BY <1>1, <1>2, FlyingTest

LEMMA WritingEffect ==
    ASSUME ControlInv, On("Effect"), InFlight, stack' = Tail(stack), UNCHANGED <<foe, Rest>>,
           recorded_modifiers' \in Seq(RowSet),
           \A open \in Openings : Control(test, open, TRUE, recorded_modifiers, foe)
               => Control(test', open, TRUE, recorded_modifiers', foe)
    PROVE  ControlInv'
<1>1. Running(Tail(stack), test', recorded_modifiers', foe)
  <2> DEFINE none == <<>>
  <2>1. none \in Seq(Effects) /\ none \o Tail(stack) = Tail(stack) /\ none = <<>>
        BY NoMore
  <2> HIDE DEF none
  <2>2. Running(none \o Tail(stack), test', recorded_modifiers', foe)
        BY <2>1, EffectResolves
  <2> QED BY <2>1, <2>2
<1> QED BY <1>1 DEF ControlInv, Rest

LEMMA ControlReturnCard == ASSUME ControlInv, ReturnCard PROVE ControlInv'
<1> DEFINE q == [k \in DOMAIN test.committed |->
                    IF test.committed[k].card = Top.card /\ test.resolved.clear
                    THEN [test.committed[k] EXCEPT !.to = "hand"] ELSE test.committed[k]]
<1>1. /\ On("Effect") /\ Top.does = "return" /\ stack' = Tail(stack) /\ test' = [test EXCEPT !.committed = q]
      /\ UNCHANGED <<foe, recorded_modifiers, Rest>>
      BY DEF ReturnCard, Board
<1>2. InFlight /\ TestTyped(test)
      BY <1>1, OverTest
<1>3. q \in Seq(Commits)
  <2>1. test.committed \in Seq(Commits)
        BY <1>2 DEF TestTyped
  <2>2. DOMAIN test.committed = 1..Len(test.committed) /\ Len(test.committed) \in Nat
        BY <2>1, LenProperties
  <2>3. \A k \in DOMAIN test.committed : test.committed[k] \in Commits
        BY <2>1, <2>2, ElementOfSeq
  <2>4. \A e \in Commits : [e EXCEPT !.to = "hand"] \in Commits
        BY DEF Commits
  <2>5. \A k \in DOMAIN test.committed : q[k] \in Commits
        BY <2>3, <2>4
  <2> DEFINE n == Len(test.committed)
  <2>6. q \in [1..n -> Commits]
        BY <2>2, <2>5
  <2> HIDE DEF q, n
  <2>7. n \in Nat
        BY <2>2 DEF n
  <2> QED BY <2>6, <2>7
<1> HIDE DEF q
<1>4. Agree(test, test', {"committed"}) /\ test'.committed = q
  <2>1. DOMAIN test = Fields /\ test' = [test EXCEPT !.committed = q]
        BY <1>1, <1>2 DEF TestTyped
  <2> QED BY <2>1, Except1
<1>5. Named(test, test', {"committed"}) /\ DOMAIN test' = Fields
      BY <1>4, Names1 DEF Agree
<1>6. Named(test, test', {"committed", "skill"}) /\ test'.skill \in Skills
      BY <1>2, <1>5 DEF Named, TestTyped
<1>7. \A open \in Openings : Control(test, open, TRUE, recorded_modifiers, foe)
      => Control(test', open, TRUE, recorded_modifiers', foe)
      BY <1>1, <1>3, <1>4, <1>5, <1>6, SameControl
<1> QED BY <1>1, <1>2, <1>7, WritingEffect DEF ControlInv

LEMMA ControlMarkWeapon == ASSUME ControlInv, MarkWeapon PROVE ControlInv'
<1>1. /\ On("Effect") /\ Top.does = "mark" /\ stack' = Tail(stack) /\ test' = [test EXCEPT !.discard_after = Top.card]
      /\ UNCHANGED <<foe, recorded_modifiers, Rest>>
      BY DEF MarkWeapon, Board
<1>2. InFlight /\ TestTyped(test)
      BY <1>1, OverTest
<1>3. Agree(test, test', {"discard_after"})
      BY <1>1, <1>2, Except1 DEF TestTyped
<1>4. Named(test, test', {"discard_after"}) /\ DOMAIN test' = Fields
      BY <1>3, Names1 DEF Agree
<1>5. /\ Named(test, test', {"committed", "skill"})
      /\ test'.committed \in Seq(Commits) /\ test'.skill \in Skills
      BY <1>2, <1>4 DEF Named, TestTyped
<1>6. \A open \in Openings : Control(test, open, TRUE, recorded_modifiers, foe)
      => Control(test', open, TRUE, recorded_modifiers', foe)
      BY <1>1, <1>4, <1>5, SameControl
<1> QED BY <1>1, <1>2, <1>6, WritingEffect DEF ControlInv

LEMMA ControlLatch == ASSUME ControlInv, Latch PROVE ControlInv'
<1> DEFINE row == Row("AutomaticSuccess", 0)
<1>1. /\ On("Effect") /\ Top.does = "latch" /\ stack' = Tail(stack)
         /\ recorded_modifiers' = Append(recorded_modifiers, row)
      /\ UNCHANGED <<test, foe, Rest>>
      BY DEF Latch, Record
<1>2. InFlight /\ TestTyped(test)
      BY <1>1, OverTest
<1>3. row \in RowSet /\ row.test = test.id /\ row.what = "AutomaticSuccess" /\ recorded_modifiers' \in Seq(RowSet)
      BY <1>1, <1>2, NewRow DEF Whats, Latches
<1> HIDE DEF row
<1>4. \A open \in Openings : Control(test, open, TRUE, recorded_modifiers, foe)
      => Control(test', open, TRUE, recorded_modifiers', foe)
      BY <1>1, <1>3, Recorded DEF ControlInv
<1> QED BY <1>1, <1>2, <1>3, <1>4, WritingEffect

------------------------------------------------------------------------------
(* The test steps on. *)

Opposing == {"DetermineOutcome", "AcknowledgeOutcome", "ApplyResultModifiers", "ApplyFollowUp"}

Loosely == {"step", "committed", "helper", "bonus", "pending", "skill"}

\* A step that neither tells the verdict nor settles the token.
Follows(t, open, u, after, busy) ==
    /\ Named(t, u, Loosely) /\ TestTyped(u) /\ Placed(u, after, busy)
    /\ Announced(u, after) <=> Announced(t, open)
    /\ Settled(u, after) <=> Settled(t, open)
    /\ u.step \in Early => t.resolved = None
    /\ u.step \in Told \cup {"AcknowledgeOutcome"} => t.step \in Told \cup {"AcknowledgeOutcome"}
    /\ u.step \in Opposing => t.step \in Opposing \/ t.resolved = None

LEMMA Onward ==
    ASSUME NEW t, NEW u, NEW open, NEW after, NEW busy, NEW rows, NEW f, Control(t, open, FALSE, rows, f),
           Follows(t, open, u, after, busy)
    PROVE  Control(u, after, busy, rows, f)
<1> USE DEF Named, Control, Follows, Loosely
<1>1. Decided(u, after)
      BY DEF Decided
<1>2. Tallied(u, after, rows)
      BY DEF Tallied
<1>3. Opposed(u, f)
      BY DEF Opposed, Opposing
<1> QED BY <1>1, <1>2, <1>3

LEMMA AtTest ==
    ASSUME ControlInv, NEW step, At(step)
    PROVE  /\ stack = Beneath(SkillTestFrame) /\ stack = <<SkillTestFrame>> /\ InFlight /\ test.step = step
           /\ InGame(Taker) /\ ~TargetLeft
           /\ Control(test, SkillTestFrame, FALSE, recorded_modifiers, foe) /\ TestTyped(test) /\ DOMAIN test = Fields
           /\ recorded_modifiers \in Seq(RowSet) /\ SkillTestFrame \in Openings
           /\ SkillTestFrame \notin Cells /\ SkillTestFrame # FastWindow /\ SkillTestFrame # SubstitutionPrompt
<1>1. On("SkillTest") /\ test.step = step /\ ~TargetLeft /\ InGame(test.investigator)
      BY DEF At
<1>2. TestTyped(test) /\ InGame(Taker)
      BY <1>1, TopTest DEF Control, TestTyped
<1>3. SkillTestFrame \in Openings
      BY DEF Openings
<1>4. SkillTestFrame \notin Cells /\ SkillTestFrame # FastWindow /\ SkillTestFrame # SubstitutionPrompt
      BY KindsOf
<1>5. recorded_modifiers \in Seq(RowSet)
      BY DEF ControlInv
<1> QED BY <1>1, <1>2, <1>3, <1>4, <1>5, TopTest DEF TestTyped

LEMMA Stepped ==
    ASSUME NEW t, TestTyped(t), NEW step \in Steps \ {"AwaitingHelperCommit"}
    PROVE  LET u == [t EXCEPT !.step = step] IN
           u.step = step /\ Named(t, u, {"step"}) /\ TestTyped(u)
<1> DEFINE u == [t EXCEPT !.step = step]
<1>1. u.step = step /\ Agree(t, u, {"step"})
      BY Except1 DEF TestTyped
<1> HIDE DEF u
<1>2. Named(t, u, {"step"}) /\ DOMAIN u = Fields
      BY <1>1, Names1 DEF Agree
<1>3. TestTyped(u)
      BY <1>1, <1>2 DEF TestTyped, Named
<1> QED BY <1>1, <1>2, <1>3 DEF u

LEMMA FewerNamed ==
    ASSUME NEW t, NEW u, NEW but, NEW more, Named(t, u, but), but \subseteq more
    PROVE  Named(t, u, more)
BY DEF Named

\* One frame put on the test.
LEMMA Opened ==
    ASSUME NEW open \in Openings \ {SkillTestFrame}, stack = <<SkillTestFrame>>
    PROVE  <<open>> \o stack = Beneath(open)
BY BeneathIs

\* The test moves on from where it stands on top, to a step of the same standing.
LEMMA Moves ==
    ASSUME ControlInv, NEW from, At(from), Named(test, test', Loosely), TestTyped(test'),
           NEW over \in Seq(Effects), NEW after \in Openings, stack' = over \o Beneath(after),
           after \notin Reveals \cup Announcements, Placed(test', after, over # <<>>),
           test'.step \in Early <=> from \in Early,
           test'.step \in Told \cup {"AcknowledgeOutcome"} <=> from \in Told \cup {"AcknowledgeOutcome"},
           test'.step \in Opposing => from \in Opposing /\ foe' = foe,
           UNCHANGED <<recorded_modifiers, actions_remaining, skill_test_ids>>, foe' \in Foes, rejected' = FALSE
    PROVE  ControlInv'
<1> DEFINE busy == over # <<>>
<1>1. /\ stack = <<SkillTestFrame>> /\ test.step = from /\ TestTyped(test)
      /\ Control(test, SkillTestFrame, FALSE, recorded_modifiers, foe) /\ SkillTestFrame \notin Cells
      BY AtTest
<1>2. Announced(test', after) <=> Announced(test, SkillTestFrame)
      BY <1>1 DEF Announced, Cells
<1>3. Settled(test', after) <=> Settled(test, SkillTestFrame)
      BY <1>1 DEF Settled, Cells
<1>4. test'.step \in Early => test.resolved = None
      BY <1>1 DEF Control, Decided
<1> HIDE DEF busy
<1>5. Control(test', after, busy, recorded_modifiers, foe)
  <2>1. Placed(test', after, busy)
        BY DEF busy
  <2>2. /\ test'.step \in Told \cup {"AcknowledgeOutcome"} => test.step \in Told \cup {"AcknowledgeOutcome"}
        /\ test'.step \in Opposing => test.step \in Opposing
        BY <1>1
  <2>3. Follows(test, SkillTestFrame, test', after, busy)
        BY <1>2, <1>3, <1>4, <2>1, <2>2 DEF Follows
  <2> QED BY <1>1, <2>3, Onward
<1>6. Control(test', after, busy, recorded_modifiers, foe')
  <2>1. Opposed(test', foe) => Opposed(test', foe')
        BY DEF Opposed, Opposing
  <2> QED BY <1>5, <2>1 DEF Control
<1>7. Running(over \o Beneath(after), test', recorded_modifiers, foe')
      BY <1>6, Flies DEF busy
<1> QED BY <1>7 DEF ControlInv

\* The same, with nothing or one thing left open.
LEMMA MovesBare ==
    ASSUME ControlInv, NEW from, At(from), Named(test, test', Loosely), TestTyped(test'),
           NEW after \in Openings, stack' = Beneath(after),
           after \notin Reveals \cup Announcements, Placed(test', after, FALSE),
           test'.step \in Early <=> from \in Early,
           test'.step \in Told \cup {"AcknowledgeOutcome"} <=> from \in Told \cup {"AcknowledgeOutcome"},
           test'.step \in Opposing => from \in Opposing /\ foe' = foe,
           UNCHANGED <<recorded_modifiers, actions_remaining, skill_test_ids>>, foe' \in Foes, rejected' = FALSE
    PROVE  ControlInv'
<1> DEFINE none == <<>>
<1>1. none \in Seq(Effects) /\ stack' = none \o Beneath(after) /\ (none # <<>>) = FALSE
      BY BeneathIs
<1>2. Placed(test', after, none # <<>>)
      BY <1>1
<1> HIDE DEF none
<1> QED BY <1>1, <1>2, Moves

\* The test's own frame, with nothing over it.
LEMMA Uncovered ==
    ASSUME NEW t
    PROVE  /\ Placed(t, SkillTestFrame, FALSE)
           /\ SkillTestFrame \in Openings /\ SkillTestFrame \notin Reveals \cup Announcements
           /\ Beneath(SkillTestFrame) = <<SkillTestFrame>>
<1>1. SkillTestFrame \in Openings /\ SkillTestFrame \notin Cells /\ SkillTestFrame # FastWindow
      /\ SkillTestFrame # SubstitutionPrompt
      BY KindsOf DEF Openings
<1> QED BY <1>1, BeneathIs DEF Placed, Cells

LEMMA MovesOpen ==
    ASSUME ControlInv, NEW from, NEW to \in {"NextHelper", "Resolving"}, At(from), from \in Early,
           test' = [test EXCEPT !.step = to], stack' = <<FastWindow>> \o stack, UNCHANGED <<Board, Rest>>
    PROVE  ControlInv'
<1>1. stack = <<SkillTestFrame>> /\ TestTyped(test)
      BY AtTest
<1>2. test'.step = to /\ Named(test, test', {"step"}) /\ TestTyped(test')
      BY <1>1, Stepped DEF Steps
<1>3. FastWindow \in Openings \ {SkillTestFrame} /\ FastWindow \notin Cells /\ FastWindow # SubstitutionPrompt
      BY KindsOf DEF Openings
<1>4. stack' = Beneath(FastWindow)
      BY <1>1, <1>3, Opened
<1>5. Placed(test', FastWindow, FALSE)
      BY <1>2, <1>3 DEF Placed, Cells
<1>6. /\ test'.step \in Early /\ test'.step \notin Told \cup {"AcknowledgeOutcome"}
      /\ test'.step \notin Opposing /\ from \notin Told \cup {"AcknowledgeOutcome"}
      BY <1>2 DEF Early, Told, Opposing
<1>7. Named(test, test', Loosely)
      BY <1>2, FewerNamed DEF Loosely
<1>8. UNCHANGED <<recorded_modifiers, actions_remaining, skill_test_ids>> /\ foe' \in Foes /\ rejected' = FALSE
      BY DEF ControlInv, Board, Rest
<1>9. FastWindow \notin Reveals \cup Announcements
      BY <1>3 DEF Cells
<1> QED BY <1>2, <1>3, <1>4, <1>5, <1>6, <1>7, <1>8, <1>9, MovesBare

LEMMA ControlPreCommitWindow == ASSUME ControlInv, PreCommitWindow PROVE ControlInv'
BY MovesOpen DEF PreCommitWindow, To, Push, Still, Early

LEMMA ControlPreTokenWindow == ASSUME ControlInv, PreTokenWindow PROVE ControlInv'
BY MovesOpen DEF PreTokenWindow, To, Push, Still, Early

\* A step that leaves the test on top, alone.
LEMMA MovesAlone ==
    ASSUME ControlInv, NEW from, At(from), Named(test, test', Loosely), TestTyped(test'),
           stack' \in {stack, <<SkillTestFrame>>},
           \/ from \in Early /\ test'.step \in Early
           \/ from \in Told \cup {"AcknowledgeOutcome"} /\ test'.step \in Told
              /\ (from \in Opposing \/ test'.step \notin Opposing),
           UNCHANGED <<foe, recorded_modifiers, actions_remaining, skill_test_ids, rejected>>
    PROVE  ControlInv'
<1>1. stack = <<SkillTestFrame>>
      BY AtTest
<1>2. stack' = Beneath(SkillTestFrame)
      BY <1>1, Uncovered
<1>3. Early \cap (Told \cup {"AcknowledgeOutcome"}) = {} /\ Early \cap Opposing = {}
      BY DEF Early, Told, Opposing
<1>4. foe' \in Foes /\ rejected' = FALSE
      BY DEF ControlInv
<1> QED BY <1>2, <1>3, <1>4, Uncovered, MovesBare

LEMMA Helping ==
    ASSUME NEW after, InFlight, Helpers(after) # <<>>
    PROVE  Head(Helpers(after)) \in Investigators
<1> DEFINE G == {i \in Investigators : InGame(i)}
           past == IF after = None THEN 0
                   ELSE IF Contains(Colocated, after) THEN CHOOSE k \in DOMAIN Colocated : Colocated[k] = after
                   ELSE Len(Colocated)
           q == SubSeq(Colocated, past + 1, Len(Colocated))
           H == {i \in Investigators : i # test.investigator /\ CommitCandidates(i) # {}}
<1>1. Order \in Seq(Investigators) /\ Colocated = Among(Order, G)
      BY OrderAssumption DEF Colocated
<1>2. Colocated \in Seq(Investigators) /\ Len(Colocated) \in Nat /\ DOMAIN Colocated = 1..Len(Colocated)
  <2> HIDE DEF G
  <2>1. Colocated \in Seq(Investigators)
        BY <1>1, AmongProperties
  <2> QED BY <2>1, LenProperties
<1>3. past \in Nat
  <2>1. Contains(Colocated, after) => \E k \in DOMAIN Colocated : Colocated[k] = after
        BY DEF Contains
  <2>2. Contains(Colocated, after) => (CHOOSE k \in DOMAIN Colocated : Colocated[k] = after) \in DOMAIN Colocated
        BY <2>1
  <2> QED BY <1>2, <2>2
<1> HIDE DEF past
<1>4. q \in Seq(Investigators)
      BY <1>2, <1>3, SubSeqProperties
<1>5. Helpers(after) = Among(q, H)
      BY DEF Helpers, past
<1> HIDE DEF q, H
<1>6. Among(q, H) \in Seq(Investigators)
      BY <1>4, AmongProperties
<1> QED BY <1>5, <1>6

LEMMA ControlNextHelper == ASSUME ControlInv, NextHelper PROVE ControlInv'
<1> DEFINE left == Helpers(test.helper)
<1>1. /\ At("NextHelper") /\ UNCHANGED <<stack, Board, Rest>>
      /\ test' = IF left = <<>> THEN [test EXCEPT !.step = "AwaitingCommit", !.helper = None]
                 ELSE [test EXCEPT !.step = "AwaitingHelperCommit", !.helper = Head(left)]
      BY DEF NextHelper, OnlyTest
<1>2. stack = <<SkillTestFrame>> /\ TestTyped(test) /\ InFlight /\ DOMAIN test = Fields
      BY <1>1, AtTest
<1>3. left # <<>> => Head(left) \in Investigators
      BY <1>2, Helping
<1> HIDE DEF left
<1>4. /\ Agree(test, test', {"step", "helper"}) /\ test'.helper \in Investigators \cup {None}
      /\ \/ test'.step = "AwaitingCommit"
         \/ test'.step = "AwaitingHelperCommit" /\ test'.helper \in Investigators
  <2>1. CASE left = <<>>
    <3>1. test' = [test EXCEPT !.step = "AwaitingCommit", !.helper = None]
          BY <1>1, <2>1
    <3>2. LET u == [test EXCEPT !.step = "AwaitingCommit", !.helper = None] IN u.step = "AwaitingCommit"
          /\ u.helper = None /\ Agree(test, u, {"step", "helper"})
          BY <1>2 DEF Agree, Fields
    <3>3. Agree(test, test', {"step", "helper"}) /\ test'.step = "AwaitingCommit" /\ test'.helper = None
          BY <3>1, <3>2
    <3> QED BY <3>3
  <2>2. CASE left # <<>>
    <3> DEFINE first == Head(left)
    <3>1. test' = [test EXCEPT !.step = "AwaitingHelperCommit", !.helper = first] /\ first \in Investigators
          BY <1>1, <1>3, <2>2
    <3> HIDE DEF first
    <3>2. LET u == [test EXCEPT !.step = "AwaitingHelperCommit",
          !.helper = first] IN u.step = "AwaitingHelperCommit" /\ u.helper = first
              /\ Agree(test, u, {"step", "helper"})
          BY <1>2 DEF Agree, Fields
    <3>3. Agree(test, test', {"step", "helper"}) /\ test'.step = "AwaitingHelperCommit" /\ test'.helper = first
          BY <3>1, <3>2
    <3> QED BY <3>1, <3>3
  <2> QED BY <2>1, <2>2
<1>5. Named(test, test', {"step", "helper"}) /\ DOMAIN test' = Fields
      BY <1>4, Names1 DEF Agree
<1>6. TestTyped(test')
      BY <1>2, <1>4, <1>5 DEF TestTyped, Named, Steps
<1>7. Named(test, test', Loosely)
      BY <1>5, FewerNamed DEF Loosely
<1>8. "NextHelper" \in Early /\ test'.step \in Early
      BY <1>4 DEF Early
<1> QED BY <1>1, <1>6, <1>7, <1>8, MovesAlone DEF Board, Rest

------------------------------------------------------------------------------
(* Commits. *)

LEMMA Picked ==
    ASSUME NEW S \in SUBSET Cards
    PROVE  LET p == SetToSeq(S) IN
           /\ p \in Seq(Cards) /\ DOMAIN p = 1..Len(p) /\ Len(p) \in Nat
           /\ \A j, k \in DOMAIN p : p[j] = p[k] => j = k
           /\ {p[k] : k \in DOMAIN p} = S
<1>1. IsFiniteSet(S)
      BY TestAssumption, FS_Subset
<1> DEFINE n == Cardinality(S)
<1>2. n \in Nat /\ ExistsBijection(1..n, S)
      BY <1>1, FS_CardinalityType
<1> HIDE DEF n
<1>3. PICK g : g \in Injection(1..n, S)
      BY <1>2 DEF ExistsBijection, Bijection
<1> DEFINE p == SetToSeq(S)
<1>4. p = CHOOSE f \in [1..n -> S] : IsInjective(f)
      BY DEF SetToSeq, n
<1>5. \E f \in [1..n -> S] : IsInjective(f)
      BY <1>3 DEF Injection
<1> HIDE DEF p
<1>6. p \in [1..n -> S] /\ IsInjective(p)
      BY <1>4, <1>5
<1>7. p \in Surjection(1..n, S)
  <2>1. p \in Injection(1..n, S)
        BY <1>6 DEF Injection
  <2>2. IsFiniteSet(1..n) /\ Cardinality(1..n) = n
        BY <1>2, FS_Interval
  <2>3. Cardinality(1..n) = Cardinality(S)
        BY <2>2 DEF n
  <2> QED BY <1>1, <2>1, <2>3, FS_Injection
<1>8. {p[k] : k \in DOMAIN p} = S
      BY <1>6, <1>7 DEF Surjection
<1>9. p \in [1..n -> Cards]
      BY <1>6
<1>10. p \in Seq(Cards) /\ Len(p) = n
      BY <1>2, <1>9
<1> QED BY <1>2, <1>6, <1>8, <1>10 DEF IsInjective, p

\* What is committed, with what is added to it.
With(q, S, i) ==
    LET picked == SetToSeq(S) IN
    q \o [k \in DOMAIN picked |-> [card |-> picked[k], committer |-> i, to |-> "discard"]]

LEMMA WithIs ==
    ASSUME NEW q \in Seq(Commits), NEW S \in SUBSET Cards, NEW i \in Investigators
    PROVE  LET r == With(q, S, i) IN
           /\ r \in Seq(Commits) /\ CardsIn(r) = CardsIn(q) \cup S
           /\ \A k \in DOMAIN r : (\E j \in DOMAIN q : r[k] = q[j]) \/ (r[k].card \in S /\ r[k].committer = i)
           /\ (\A j, k \in DOMAIN q : q[j].card = q[k].card => j = k) /\ CardsIn(q) \cap S = {}
              => \A j, k \in DOMAIN r : r[j].card = r[k].card => j = k
<1> DEFINE p == SetToSeq(S)
           e(c) == [card |-> c, committer |-> i, to |-> "discard"]
           d == [k \in DOMAIN p |-> e(p[k])]
           r == q \o d
<1>1. /\ p \in Seq(Cards) /\ DOMAIN p = 1..Len(p) /\ Len(p) \in Nat
      /\ \A j, k \in DOMAIN p : p[j] = p[k] => j = k
      /\ {p[k] : k \in DOMAIN p} = S
      BY Picked
<1> HIDE DEF p
<1>2. \A c \in Cards : e(c) \in Commits /\ e(c).card = c /\ e(c).committer = i
      BY DEF Commits
<1>3. \A k \in DOMAIN p : p[k] \in Cards
      BY <1>1, ElementOfSeq
<1> HIDE DEF e
<1>4. d \in Seq(Commits) /\ Len(d) = Len(p) /\ \A k \in 1..Len(p) : d[k] = e(p[k])
  <2> DEFINE n == Len(p)
  <2>1. n \in Nat /\ DOMAIN p = 1..n
        BY <1>1
  <2> HIDE DEF n
  <2>2. d \in [1..n -> Commits]
        BY <1>2, <1>3, <2>1
  <2>3. d \in Seq(Commits) /\ Len(d) = n /\ \A k \in 1..n : d[k] = e(p[k])
        BY <2>1, <2>2
  <2> QED BY <2>3 DEF n
<1> HIDE DEF d
<1> DEFINE m == Len(q)
           n == Len(p)
<1>5. /\ r \in Seq(Commits) /\ m \in Nat /\ n \in Nat /\ DOMAIN q = 1..m /\ DOMAIN r = 1..(m + n)
      /\ \A k \in 1..m : r[k] = q[k]
      /\ \A k \in 1..n : r[m + k] = e(p[k])
  <2>1. /\ r \in Seq(Commits) /\ Len(r) = Len(q) + Len(d) /\ Len(q) \in Nat /\ Len(p) \in Nat
        /\ \A k \in 1..Len(r) : r[k] = IF k <= Len(q) THEN q[k] ELSE d[k - Len(q)]
        BY <1>1, <1>4, ConcatProperties
  <2>2. DOMAIN q = 1..m /\ DOMAIN r = 1..Len(r)
        BY <2>1, LenProperties
  <2> HIDE DEF r
  <2>3. m \in Nat /\ n \in Nat /\ Len(r) = m + n
        BY <1>4, <2>1
  <2>4. \A k \in 1..(m + n) : r[k] = IF k <= m THEN q[k] ELSE d[k - m]
        BY <2>1, <2>3
  <2>5. \A k \in 1..n : d[k] = e(p[k])
        BY <1>4
  <2> HIDE DEF m, n
  <2>6. \A k \in 1..m : r[k] = q[k]
        BY <2>3, <2>4
  <2>7. ASSUME NEW k \in 1..n PROVE r[m + k] = e(p[k])
    <3>1. m + k \in 1..(m + n) /\ ~(m + k <= m) /\ (m + k) - m = k
          BY <2>3
    <3> QED BY <2>4, <2>5, <3>1
  <2> QED BY <2>1, <2>2, <2>3, <2>6, <2>7
<1>6. With(q, S, i) = r
      BY DEF With, r, d, e, p
<1> HIDE DEF r, m, n
<1>7. \A k \in 1..(m + n) : k \in 1..m \/ \E j \in 1..n : k = m + j
  <2> TAKE k \in 1..(m + n)
  <2>1. CASE k > m
    <3>1. k - m \in 1..n /\ k = m + (k - m)
          BY <1>5, <2>1
    <3> QED BY <3>1
  <2>2. CASE ~(k > m)
        BY <1>5, <2>2
  <2> QED BY <2>1, <2>2
<1>8. DOMAIN p = 1..n /\ \A k \in 1..n : p[k] \in S /\ e(p[k]).card = p[k] /\ e(p[k]).committer = i
      BY <1>1, <1>2, <1>3 DEF n
<1>9. \A k \in 1..m : k \in 1..(m + n)
      BY <1>5
<1>10. \A k \in 1..n : m + k \in 1..(m + n)
      BY <1>5
<1>11. \A k \in DOMAIN r : (\E j \in DOMAIN q : r[k] = q[j]) \/ (r[k].card \in S /\ r[k].committer = i)
  <2> TAKE k \in DOMAIN r
  <2>1. CASE k \in 1..m
        BY <1>5, <2>1
  <2>2. CASE \E j \in 1..n : k = m + j
    <3>1. PICK j \in 1..n : k = m + j
          BY <2>2
    <3>2. r[k] = e(p[j])
          BY <1>5, <3>1
    <3> QED BY <1>8, <3>2
  <2> QED BY <1>5, <1>7, <2>1, <2>2
<1>12. CardsIn(r) = CardsIn(q) \cup S
  <2>1. ASSUME NEW c \in CardsIn(r) PROVE c \in CardsIn(q) \cup S
    <3>1. PICK k \in 1..(m + n) : c = r[k].card
          BY <1>5, <2>1 DEF CardsIn
    <3> QED BY <1>5, <1>11, <3>1 DEF CardsIn
  <2>2. ASSUME NEW c \in CardsIn(q) PROVE c \in CardsIn(r)
    <3>1. PICK k \in 1..m : c = q[k].card
          BY <1>5, <2>2 DEF CardsIn
    <3>2. c = r[k].card /\ k \in DOMAIN r
          BY <1>5, <1>9, <3>1
    <3> QED BY <3>2 DEF CardsIn
  <2>3. ASSUME NEW c \in S PROVE c \in CardsIn(r)
    <3>1. PICK k \in 1..n : c = p[k]
          BY <1>1, <1>8
    <3>2. c = r[m + k].card /\ m + k \in DOMAIN r
          BY <1>5, <1>8, <1>10, <3>1
    <3> QED BY <3>2 DEF CardsIn
  <2> QED BY <2>1, <2>2, <2>3
<1>13. ASSUME \A j, k \in DOMAIN q : q[j].card = q[k].card => j = k, CardsIn(q) \cap S = {},
             NEW j \in DOMAIN r, NEW k \in DOMAIN r, r[j].card = r[k].card
      PROVE  j = k
  <2>1. \A x \in 1..m : r[x].card \in CardsIn(q)
        BY <1>5 DEF CardsIn
  <2>2. \A x \in 1..n : r[m + x].card = p[x] /\ p[x] \in S
        BY <1>5, <1>8
  <2>3. (j \in 1..m \/ \E x \in 1..n : j = m + x) /\ (k \in 1..m \/ \E x \in 1..n : k = m + x)
        BY <1>5, <1>7
  <2>4. CASE j \in 1..m /\ k \in 1..m
    <3>1. r[j] = q[j] /\ r[k] = q[k]
          BY <1>5, <2>4
    <3> QED BY <1>5, <1>13, <2>4, <3>1
  <2>5. CASE \E x, y \in 1..n : j = m + x /\ k = m + y
    <3>1. PICK x \in 1..n, y \in 1..n : j = m + x /\ k = m + y
          BY <2>5
    <3>2. p[x] = p[y]
          BY <1>13, <2>2, <3>1
    <3> QED BY <1>1, <1>8, <3>1, <3>2
  <2> QED BY <1>13, <2>1, <2>2, <2>3, <2>4, <2>5
<1> QED BY <1>5, <1>6, <1>12, <1>11, <1>13

LEMMA Committing ==
    ASSUME CardInv, NEW i \in Investigators, NEW S \in SUBSET CommitCandidates(i)
    PROVE  S \in SUBSET Cards /\ S \subseteq investigators[i].hand
<1>1. investigators[i].hand \subseteq Cards
      BY DEF CardInv, Accounted, Seats
<1> QED BY <1>1 DEF CommitCandidates

LEMMA ControlAdds ==
    ASSUME IndInv, NEW from, NEW to, At(from), NEW i \in Investigators, NEW S \in SUBSET CommitCandidates(i),
           Commit(i, S, to),
           \/ from = "AwaitingHelperCommit" /\ to = "NextHelper"
           \/ from = "AwaitingCommit" /\ to = "PreTokenWindow",
           UNCHANGED <<stack, foe, recorded_modifiers, spent, Rest>>
    PROVE  ControlInv'
<1> DEFINE r == With(test.committed, S, i)
<1>1. TestTyped(test) /\ DOMAIN test = Fields
      BY AtTest DEF IndInv
<1>2. r \in Seq(Commits)
      BY <1>1, Committing, WithIs DEF IndInv, TestTyped
<1>3. test' = [test EXCEPT !.step = to, !.committed = r]
      BY DEF Commit, Adding, With
<1> HIDE DEF r
<1>4. test'.step = to /\ test'.committed = r /\ Agree(test, test', {"step", "committed"})
      BY <1>1, <1>3 DEF Agree, Fields
<1>5. Named(test, test', {"step", "committed"}) /\ DOMAIN test' = Fields
      BY <1>4, Names1 DEF Agree
<1>6. to \in Early /\ from \in Early /\ to # "AwaitingHelperCommit" /\ to \in Steps
      BY DEF Early, Steps
<1>7. TestTyped(test')
      BY <1>1, <1>2, <1>4, <1>5, <1>6 DEF TestTyped, Named
<1>8. Named(test, test', Loosely)
      BY <1>5, FewerNamed DEF Loosely
<1> QED BY <1>4, <1>6, <1>7, <1>8, MovesAlone DEF IndInv, Rest

LEMMA ControlHelperCommits == ASSUME IndInv, HelperCommits PROVE ControlInv'
<1>1. At("AwaitingHelperCommit") /\ UNCHANGED <<stack, foe, recorded_modifiers, spent, Rest>>
      BY DEF HelperCommits
<1>2. PICK S \in SUBSET CommitCandidates(test.helper) : Commit(test.helper, S, "NextHelper")
      BY DEF HelperCommits
<1>3. test.helper \in Investigators
      BY <1>1, AtTest DEF IndInv, TestTyped
<1> QED BY <1>1, <1>2, <1>3, ControlAdds

LEMMA ControlPerformerCommits == ASSUME IndInv, PerformerCommits PROVE ControlInv'
<1>1. At("AwaitingCommit") /\ UNCHANGED <<stack, foe, recorded_modifiers, spent, Rest>>
      BY DEF PerformerCommits
<1>2. PICK S \in SUBSET CommitCandidates(test.investigator) : Commit(test.investigator, S, "PreTokenWindow")
      BY DEF PerformerCommits
<1>3. test.investigator \in Investigators
      BY <1>1, AtTest, TestAssumption DEF IndInv, TestTyped
<1> QED BY <1>1, <1>2, <1>3, ControlAdds

------------------------------------------------------------------------------
(* The token and the verdict. *)

\* What the rows determine.
LEMMA Determines ==
    ASSUME ControlInv, InFlight
    PROVE  /\ Determination # None <=> Says(recorded_modifiers, Latches) # {}
           /\ Determination = "AutomaticFailure" <=> Says(recorded_modifiers, {"AutomaticFailure"}) # {}
<1> DEFINE rows == {recorded_modifiers[k] : k \in DOMAIN recorded_modifiers}
           found == {r.what : r \in {x \in rows : x.test = test.id}}
<1>1. \A k \in DOMAIN recorded_modifiers : recorded_modifiers[k].test = test.id
      BY FlyingTest
<1>2. \A what : what \in found <=> \E k \in DOMAIN recorded_modifiers : recorded_modifiers[k].what = what
      BY <1>1
<1>3. Determination = IF "AutomaticFailure" \in found THEN "AutomaticFailure"
                      ELSE IF "AutomaticSuccess" \in found THEN "AutomaticSuccess" ELSE None
      BY DEF Determination
<1> HIDE DEF found
<1>4. "AutomaticFailure" \in found <=> Says(recorded_modifiers, {"AutomaticFailure"}) # {}
      BY <1>2 DEF Says
<1>5. "AutomaticFailure" \in found \/ "AutomaticSuccess" \in found <=> Says(recorded_modifiers, Latches) # {}
      BY <1>2 DEF Says, Latches
<1> QED BY <1>3, <1>4, <1>5, TestAssumption

LEMMA VerdictIs ==
    /\ Verdict \in Verdicts
    /\ Determination = "AutomaticFailure" => ~Verdict.succeeded
<1> DEFINE S == CASE Determination = "AutomaticFailure" -> FALSE
                  [] Determination = "AutomaticSuccess" -> TRUE
                  [] OTHER -> Margin >= 0
<1>1. Verdict = [succeeded |-> S, clear |-> Margin >= 2]
      BY DEF Verdict
<1> HIDE DEF Margin
<1>2. S \in BOOLEAN /\ (Margin >= 2) \in BOOLEAN
  <2>1. (Margin >= 2) \in BOOLEAN
        OBVIOUS
  <2>2. (Margin >= 0) \in BOOLEAN
        OBVIOUS
  <2>3. S \in BOOLEAN
        BY <2>2
  <2> QED BY <2>1, <2>3
<1>3. Determination = "AutomaticFailure" => ~S
      OBVIOUS
<1> HIDE DEF S
<1>4. [succeeded |-> S, clear |-> Margin >= 2] \in Verdicts
      BY <1>2 DEF Verdicts
<1>5. Verdict.succeeded = S
      BY <1>1
<1> QED BY <1>1, <1>3, <1>4, <1>5

LEMMA ControlSkipToken == ASSUME ControlInv, SkipToken PROVE ControlInv'
<1>1. /\ At("Resolving") /\ Determination # None /\ test' = [test EXCEPT !.step = "DetermineOutcome"]
      /\ UNCHANGED <<stack, Board, Rest>>
      BY DEF SkipToken, To, OnlyTest
<1>2. /\ stack = Beneath(SkillTestFrame) /\ test.step = "Resolving" /\ TestTyped(test) /\ InFlight
      /\ Control(test, SkillTestFrame, FALSE, recorded_modifiers, foe)
      /\ SkillTestFrame \in Openings /\ SkillTestFrame \notin Cells
      BY <1>1, AtTest
<1>3. test'.step = "DetermineOutcome" /\ Named(test, test', {"step"}) /\ TestTyped(test')
      BY <1>1, <1>2, Stepped DEF Steps
<1>4. test.resolved = None /\ test.told = <<>>
      BY <1>2 DEF Control, Decided, Early, Announced, Told
<1>5. test'.resolved = None /\ test'.told = <<>> /\ test'.id = test.id
      BY <1>3, <1>4 DEF Named
<1>6. ~Announced(test', SkillTestFrame) /\ ~Settled(test, SkillTestFrame)
      BY <1>2, <1>3 DEF Announced, Settled, Told, Early
<1>7. Says(recorded_modifiers, Latches) # {}
      BY <1>1, <1>2, Determines
<1>8. Decided(test', SkillTestFrame)
      BY <1>3, <1>5, <1>6 DEF Decided, Told, Early
<1>9. Tallied(test', SkillTestFrame, recorded_modifiers)
      BY <1>2, <1>5, <1>6, <1>7 DEF Tallied, Control
<1>10. Opposed(test', foe)
      BY <1>5 DEF Opposed
<1>11. Control(test', SkillTestFrame, FALSE, recorded_modifiers, foe)
      BY <1>3, <1>8, <1>9, <1>10, Uncovered DEF Control
<1> QED BY <1>1, <1>2, <1>11, FliesBare DEF ControlInv, Board, Rest

LEMMA ControlRevealToken == ASSUME ControlInv, RevealToken PROVE ControlInv'
<1>1. /\ At("Resolving") /\ test' = [test EXCEPT !.step = "DetermineOutcome"] /\ UNCHANGED <<Board, Rest>>
      BY DEF RevealToken, To, Still
<1>2. PICK token \in Bag : stack' = <<EmitEvent([kind |-> "ChaosTokenRevealed", token |-> token])>> \o stack
      BY DEF RevealToken, Push
<1> DEFINE cell == EmitEvent([kind |-> "ChaosTokenRevealed", token |-> token])
<1>3. cell \in Reveals /\ cell.step = "When" /\ ~cell.prevented
      BY DEF EmitEvent, Reveals, Emits, CellSteps
<1> HIDE DEF cell
<1>4. /\ stack = <<SkillTestFrame>> /\ test.step = "Resolving" /\ TestTyped(test)
      /\ Control(test, SkillTestFrame, FALSE, recorded_modifiers, foe)
      /\ SkillTestFrame \notin Cells
      BY <1>1, AtTest
<1>5. cell \in Openings \ {SkillTestFrame} /\ cell \notin Announcements /\ cell \notin Evasions
      /\ cell # FastWindow /\ cell # SubstitutionPrompt
      BY <1>3, <1>4, KindsOf DEF Openings, Cells
<1>6. stack' = Beneath(cell)
      BY <1>2, <1>4, <1>5, Opened DEF cell
<1>7. test'.step = "DetermineOutcome" /\ Named(test, test', {"step"}) /\ TestTyped(test')
      BY <1>1, <1>4, Stepped DEF Steps
<1>8. test.resolved = None
      BY <1>4 DEF Control, Decided, Early
<1>9. test'.resolved = None
      BY <1>7, <1>8 DEF Named
<1>10. Follows(test, SkillTestFrame, test', cell, FALSE)
  <2>1. Placed(test', cell, FALSE)
        BY <1>3, <1>5, <1>7, <1>9 DEF Placed
  <2>2. ~Announced(test', cell) /\ ~Announced(test, SkillTestFrame)
        BY <1>4, <1>7 DEF Announced, Told
  <2>3. ~Settled(test', cell) /\ ~Settled(test, SkillTestFrame)
        BY <1>3, <1>4, <1>7 DEF Settled, Early, Pending
  <2>4. test'.step \notin Told \cup {"AcknowledgeOutcome"}
        BY <1>7 DEF Told
  <2>5. Named(test, test', Loosely)
        BY <1>7, FewerNamed DEF Loosely
  <2> QED BY <1>7, <1>8, <2>1, <2>2, <2>3, <2>4, <2>5 DEF Follows
<1>11. Control(test', cell, FALSE, recorded_modifiers, foe)
      BY <1>4, <1>10, Onward
<1> QED BY <1>1, <1>5, <1>6, <1>11, FliesBare DEF ControlInv, Board, Rest

LEMMA ControlDetermineOutcome == ASSUME ControlInv, DetermineOutcome PROVE ControlInv'
<1> DEFINE cell == EmitEvent([kind |-> "SkillTestResolved", succeeded |-> Verdict.succeeded])
           verdict == Verdict
<1>1. /\ At("DetermineOutcome") /\ test' = [test EXCEPT !.step = "AcknowledgeOutcome", !.resolved = verdict]
      /\ stack' = <<cell>> \o stack /\ UNCHANGED <<Board, Rest>>
      BY DEF DetermineOutcome, Push, Still
<1>2. cell \in Announcements /\ cell.step = "When" /\ ~cell.prevented /\ verdict \in Verdicts
  <2>1. Verdict \in Verdicts /\ Verdict.succeeded \in BOOLEAN
        BY VerdictIs DEF Verdicts
  <2> HIDE DEF Verdict
  <2> QED BY <2>1 DEF EmitEvent, Announcements, Emits, CellSteps
<1> HIDE DEF cell, verdict
<1>3. /\ stack = <<SkillTestFrame>> /\ test.step = "DetermineOutcome" /\ TestTyped(test) /\ DOMAIN test = Fields
      /\ Control(test, SkillTestFrame, FALSE, recorded_modifiers, foe)
      /\ SkillTestFrame \notin Cells /\ ~TargetLeft
      BY <1>1, AtTest
<1>4. cell \in Openings \ {SkillTestFrame} /\ cell \notin Reveals /\ cell \notin Evasions
      /\ cell # FastWindow /\ cell # SubstitutionPrompt
      BY <1>2, <1>3, KindsOf DEF Openings, Cells
<1>5. stack' = Beneath(cell)
      BY <1>1, <1>3, <1>4, Opened
<1>6. test'.step = "AcknowledgeOutcome" /\ test'.resolved = verdict /\ Agree(test, test', {"step", "resolved"})
      BY <1>1, <1>3 DEF Agree, Fields
<1>7. Named(test, test', {"step", "resolved"}) /\ DOMAIN test' = Fields
      BY <1>6, Names1 DEF Agree
<1>8. TestTyped(test')
      BY <1>2, <1>3, <1>6, <1>7 DEF TestTyped, Named, Steps
<1>9. ~Announced(test', cell) /\ ~Announced(test, SkillTestFrame)
      BY <1>2, <1>3, <1>6 DEF Announced, Told, Pending
<1>10. test'.told = <<>>
      BY <1>3, <1>7, <1>9 DEF Control, Decided, Named
<1>11. Settled(test', cell) /\ Settled(test, SkillTestFrame)
      BY <1>3, <1>4, <1>6 DEF Settled, Early, Cells
<1>12. Placed(test', cell, FALSE)
      BY <1>2, <1>3, <1>4, <1>6 DEF Placed, Pending
<1>13. Decided(test', cell)
      BY <1>2, <1>6, <1>9, <1>10 DEF Decided, Early
<1>14. Tallied(test', cell, recorded_modifiers)
  <2>1. Tallied(test, SkillTestFrame, recorded_modifiers)
        BY <1>3 DEF Control
  <2>2. test'.id = test.id /\ test'.revealed = test.revealed
        BY <1>7 DEF Named
  <2> QED BY <2>1, <2>2, <1>9, <1>11 DEF Tallied
<1>15. Opposed(test', foe)
  <2>1. test'.kind = test.kind
        BY <1>7 DEF Named
  <2>2. ASSUME test.kind = "Evade" PROVE foe.in_play
    <3>1. CASE test.resolved = None
          BY <1>3, <2>2, <3>1 DEF TargetLeft
    <3>2. CASE test.resolved # None
      <4>1. test.told = <<>>
            BY <1>3, <1>9 DEF Control, Decided
      <4> QED BY <1>3, <2>2, <3>2, <4>1 DEF Control, Opposed
    <3> QED BY <3>1, <3>2
  <2> QED BY <2>1, <2>2 DEF Opposed
<1>16. Control(test', cell, FALSE, recorded_modifiers, foe)
      BY <1>8, <1>12, <1>13, <1>14, <1>15 DEF Control
<1> QED BY <1>1, <1>4, <1>5, <1>16, FliesBare DEF ControlInv, Board, Rest

LEMMA ControlAcknowledgeOutcome == ASSUME ControlInv, AcknowledgeOutcome PROVE ControlInv'
<1>1. /\ At("AcknowledgeOutcome") /\ test' = [test EXCEPT !.step = "ApplyResultModifiers"]
      /\ UNCHANGED <<stack, Board, Rest>>
      BY DEF AcknowledgeOutcome, To, OnlyTest
<1>2. TestTyped(test)
      BY <1>1, AtTest
<1>3. test'.step = "ApplyResultModifiers" /\ Named(test, test', {"step"}) /\ TestTyped(test')
      BY <1>1, <1>2, Stepped DEF Steps
<1>4. Named(test, test', Loosely)
      BY <1>3, FewerNamed DEF Loosely
<1>5. test'.step \in Told /\ "AcknowledgeOutcome" \in Opposing
      BY <1>3 DEF Told, Opposing
<1> QED BY <1>1, <1>3, <1>4, <1>5, MovesAlone DEF Board, Rest

\* The verdict, once the test has moved past it.
LEMMA AfterVerdict ==
    ASSUME ControlInv, NEW step, At(step), step \in Told \cup {"AcknowledgeOutcome"}
    PROVE  test.resolved \in Verdicts /\ test.resolved.succeeded \in BOOLEAN
           /\ test.told = <<test.resolved.succeeded>>
<1>1. test.step = step /\ Control(test, SkillTestFrame, FALSE, recorded_modifiers, foe) /\ SkillTestFrame \notin Cells
      BY AtTest
<1>2. test.resolved \in Verdicts
      BY <1>1 DEF Control, Decided
<1>3. Announced(test, SkillTestFrame)
      BY <1>1 DEF Announced, Cells
<1> QED BY <1>1, <1>2, <1>3 DEF Control, Decided, Verdicts

LEMMA ControlApplyResultModifiers == ASSUME ControlInv, ApplyResultModifiers PROVE ControlInv'
<1> DEFINE bonus == IF test.resolved.succeeded /\ test.kind = "Fight" THEN Cardinality(Committed \cap Boosts) ELSE 0
<1>1. /\ At("ApplyResultModifiers") /\ test' = [test EXCEPT !.step = "ApplyFollowUp", !.bonus = bonus]
      /\ UNCHANGED <<stack, Board, Rest>>
      BY DEF ApplyResultModifiers, OnlyTest
<1>2. TestTyped(test) /\ DOMAIN test = Fields
      BY <1>1, AtTest
<1>3. bonus \in Nat
  <2>1. test.committed \in Seq(Commits)
        BY <1>2 DEF TestTyped
  <2>2. Committed \subseteq Cards
    <3>1. \A k \in DOMAIN test.committed : test.committed[k] \in Commits
          BY <2>1, LenProperties, ElementOfSeq
    <3> QED BY <3>1 DEF Committed, Commits
  <2>3. IsFiniteSet(Committed \cap Boosts)
        BY <2>2, TestAssumption, FS_Subset
  <2>4. Cardinality(Committed \cap Boosts) \in Nat
        BY <2>3, FS_CardinalityType
  <2> QED BY <2>4
<1> HIDE DEF bonus
<1>4. test'.step = "ApplyFollowUp" /\ test'.bonus = bonus /\ Agree(test, test', {"step", "bonus"})
      BY <1>1, <1>2 DEF Agree, Fields
<1>5. Named(test, test', {"step", "bonus"}) /\ DOMAIN test' = Fields
      BY <1>4, Names1 DEF Agree
<1>6. TestTyped(test')
      BY <1>2, <1>3, <1>4, <1>5 DEF TestTyped, Named, Steps
<1>7. Named(test, test', Loosely)
      BY <1>5, FewerNamed DEF Loosely
<1>8. test'.step \in Told /\ "ApplyResultModifiers" \in Opposing \cap Told
      BY <1>4 DEF Told, Opposing
<1> QED BY <1>1, <1>6, <1>7, <1>8, MovesAlone DEF Board, Rest

\* A step past the verdict, with effects put on the test.
LEMMA MovesLate ==
    ASSUME ControlInv, NEW from, At(from), Named(test, test', Loosely), TestTyped(test'),
           NEW over \in Seq(Effects), stack' = over \o stack,
           from \in Told, test'.step \in Told, test'.step \notin Opposing,
           over = <<>> \/ test'.step \in Late,
           UNCHANGED <<recorded_modifiers, actions_remaining, skill_test_ids>>, foe' \in Foes, rejected' = FALSE
    PROVE  ControlInv'
<1>1. stack = Beneath(SkillTestFrame)
      BY AtTest
<1>2. Placed(test', SkillTestFrame, over # <<>>)
  <2>1. CASE over = <<>>
    <3>1. (over # <<>>) = FALSE
          BY <2>1
    <3> QED BY <3>1, Uncovered
  <2>2. CASE test'.step \in Late
        BY <2>2, KindsOf DEF Placed, Cells, Openings
  <2> QED BY <2>1, <2>2
<1>3. Told \cap Early = {}
      BY DEF Told, Early
<1> QED BY <1>1, <1>2, <1>3, Uncovered, Moves

LEMMA Harms ==
    ASSUME NEW n \in Nat, NEW i \in Investigators
    PROVE  [k \in 1..n |-> Harm(i)] \in Seq(Effects)
<1>1. Harm(i) \in Effects
      BY KindsOf
<1> HIDE DEF Harm
<1> QED BY <1>1

LEMMA OnNothing ==
    ASSUME NEW step, ControlInv, At(step)
    PROVE  <<>> \in Seq(Effects) /\ <<>> \o stack = stack
<1>1. stack = Beneath(SkillTestFrame) /\ SkillTestFrame \in Openings
      BY AtTest
<1> QED BY <1>1, BeneathIs

LEMMA ControlApplyFollowUp == ASSUME ControlInv, ApplyFollowUp PROVE ControlInv'
<1> DEFINE damage == 1 + test.bonus + (IF test.weapon = None THEN 0 ELSE 1)
           attacked == foe.engaged \notin {None, Taker}
           hurt == IF attacked THEN damage - test.bonus ELSE 0
           attacks == [k \in 1..hurt |-> Harm(foe.engaged)]
           discovery == Effect("discover", Taker, None)
           evasion == EmitEvent([kind |-> "EnemyEvaded"])
<1>1. /\ At("ApplyFollowUp") /\ test' = [test EXCEPT !.step = "CollectResults"]
      /\ UNCHANGED <<investigators, recorded_modifiers, spent, actions_remaining, skill_test_ids>>
      BY DEF ApplyFollowUp, To
<1>2. \/ stack' = stack /\ foe' = HitFoe(foe, damage) /\ rejected' = rejected
      \/ stack' = attacks \o stack /\ UNCHANGED <<foe, rejected>>
      \/ /\ test.kind = "Evade" /\ test.resolved.succeeded
         /\ stack' = <<evasion>> \o stack /\ foe' = foe /\ rejected' = (rejected \/ ~foe.in_play)
      \/ stack' = <<discovery>> \o stack /\ UNCHANGED <<foe, rejected>>
      \/ UNCHANGED <<stack, foe, rejected>>
      BY DEF ApplyFollowUp, Push
<1>3. /\ stack = <<SkillTestFrame>> /\ test.step = "ApplyFollowUp" /\ TestTyped(test) /\ InFlight
      /\ Control(test, SkillTestFrame, FALSE, recorded_modifiers, foe)
      BY <1>1, AtTest
<1>4. test'.step = "CollectResults" /\ Named(test, test', {"step"}) /\ TestTyped(test')
      BY <1>1, <1>3, Stepped DEF Steps
<1>5. /\ Named(test, test', Loosely) /\ "ApplyFollowUp" \in Told
      /\ test'.step \in Told /\ test'.step \in Late /\ test'.step \notin Opposing /\ test'.step \notin Early
      /\ "ApplyFollowUp" \notin Early
      BY <1>4, FewerNamed DEF Loosely, Told, Late, Opposing, Early
<1>6. damage \in Nat /\ hurt \in Nat /\ (attacked => foe.engaged \in Investigators)
  <2>1. test.bonus \in Nat /\ foe.engaged \in Investigators \cup {None}
        BY <1>3 DEF TestTyped, ControlInv, Foes
  <2> QED BY <2>1
<1>7. attacks \in Seq(Effects)
  <2>1. CASE attacked
        BY <1>6, <2>1, Harms
  <2>2. CASE ~attacked
    <3>1. hurt = 0
          BY <2>2
    <3> HIDE DEF hurt
    <3>2. attacks = <<>>
          BY <3>1
    <3> HIDE DEF attacks
    <3> QED BY <3>2
  <2> QED BY <2>1, <2>2
<1>8. discovery \in Effects /\ <<discovery>> \in Seq(Effects)
  <2>1. discovery \in Effects
        BY TestAssumption DEF Effect, Effects, Doings
  <2> HIDE DEF discovery
  <2> QED BY <2>1
<1>9. foe \in Foes /\ HitFoe(foe, damage) \in Foes /\ rejected = FALSE
      BY <1>6, HitFoeTyped DEF ControlInv
<1>10. <<>> \in Seq(Effects) /\ <<>> \o stack = stack
      BY <1>1, OnNothing
<1> HIDE DEF damage, attacked, hurt, attacks, discovery
<1>11. ASSUME NEW over \in Seq(Effects), stack' = over \o stack, foe' \in Foes, rejected' = FALSE PROVE ControlInv'
      BY <1>1, <1>4, <1>5, <1>11, MovesLate
<1>12. CASE /\ test.kind = "Evade" /\ test.resolved.succeeded
            /\ stack' = <<evasion>> \o stack /\ foe' = foe /\ rejected' = (rejected \/ ~foe.in_play)
  <2>1. evasion \in Evasions /\ ~evasion.prevented
        BY DEF EmitEvent, Evasions, Emits, CellSteps
  <2> HIDE DEF evasion
  <2>2. evasion \in Openings \ {SkillTestFrame} /\ evasion \notin Announcements /\ evasion \notin Reveals
        /\ evasion # FastWindow /\ evasion # SubstitutionPrompt
        BY <2>1, KindsOf DEF Openings, Cells
  <2>3. stack' = Beneath(evasion)
        BY <1>3, <1>12, <2>2, Opened
  <2>4. Placed(test', evasion, FALSE)
        BY <1>4, <2>1, <2>2 DEF Placed
  <2>5. foe.in_play
    <3>1. test.resolved # None
          BY <1>1, <1>5, AfterVerdict, TestAssumption DEF Verdicts
    <3> QED BY <1>3, <1>12, <3>1 DEF Control, Opposed
  <2>6. rejected' = FALSE
        BY <1>9, <1>12, <2>5
  <2> QED BY <1>1, <1>4, <1>5, <1>9, <1>12, <2>2, <2>3, <2>4, <2>6, MovesBare
<1> QED BY <1>2, <1>7, <1>8, <1>9, <1>10, <1>11, <1>12

------------------------------------------------------------------------------
(* The results. *)

\* The positions of the cards that add a result.
LEMMA AdditionsAre ==
    ASSUME NEW q \in Seq(Commits), NEW succeeded
    PROVE  /\ Additions(q, succeeded) \in Seq(DOMAIN q)
           /\ \A n \in DOMAIN Additions(q, succeeded) : n \in Nat /\ Additions(q, succeeded)[n] \in DOMAIN q
<1> DEFINE places == [k \in DOMAIN q |-> k]
           G == {k \in DOMAIN q : succeeded /\ Adds[q[k].card] # "none"}
           S == DOMAIN q
<1>1. DOMAIN q = 1..Len(q) /\ Len(q) \in Nat
      BY LenProperties
<1>2. places \in Seq(S)
  <2> DEFINE n == Len(q)
  <2>1. places \in [1..n -> S] /\ n \in Nat
        BY <1>1
  <2> HIDE DEF n, S, places
  <2> QED BY <2>1
<1>3. Additions(q, succeeded) = Among(places, G)
      BY DEF Additions
<1> HIDE DEF places, G, S
<1>4. Among(places, G) \in Seq(S)
      BY <1>2, AmongProperties
<1> DEFINE r == Among(places, G)
<1> HIDE DEF r
<1>5. r \in Seq(S) /\ DOMAIN r = 1..Len(r) /\ Len(r) \in Nat
      BY <1>4, LenProperties DEF r
<1>6. \A n \in DOMAIN r : n \in Nat /\ r[n] \in S
      BY <1>5, ElementOfSeq
<1> QED BY <1>3, <1>5, <1>6 DEF r, S

LEMMA CommitTyped ==
    ASSUME NEW t, TestTyped(t), NEW k \in DOMAIN t.committed
    PROVE  t.committed[k] \in Commits /\ t.committed[k].card \in Cards /\ t.committed[k].committer \in Investigators
<1>1. t.committed \in Seq(Commits)
      BY DEF TestTyped
<1>2. t.committed[k] \in Commits
      BY <1>1, LenProperties, ElementOfSeq
<1> QED BY <1>2 DEF Commits

LEMMA FoundEffects ==
    ASSUME TestTyped(test), NEW result \in test.pending
    PROVE  Found(result) \in Seq(Effects)
<1>1. result \in Results
      BY DEF TestTyped
<1>2. \A e \in Effects : <<e>> \in Seq(Effects)
      OBVIOUS
<1>3. <<>> \in Seq(Effects)
      OBVIOUS
<1> DEFINE now == Additions(test.committed, test.resolved.succeeded)
<1>4. \A n \in DOMAIN now : now[n] \in DOMAIN test.committed
      BY AdditionsAre DEF TestTyped
<1>5. CASE result = Card
  <2>1. test.kept \in Investigators
        BY <1>5 DEF TestTyped
  <2>2. Effect("heal", test.kept, None) \in Effects /\ Harm(test.kept) \in Effects
        BY <2>1, KindsOf DEF Effect, Effects, Doings
  <2>3. CardEffect \in Effects
        BY <2>2 DEF CardEffect
  <2>4. result # Token
        BY <1>5 DEF Card, Token
  <2> HIDE DEF CardEffect
  <2>5. Found(result) = <<CardEffect>>
        BY <1>5, <2>4 DEF Found
  <2> QED BY <1>2, <2>3, <2>5
<1>6. CASE result # Card /\ result = Token
  <2>1. Harm(test.investigator) \in Effects
        BY KindsOf, TestAssumption DEF TestTyped
  <2>2. Found(result) = <<Harm(test.investigator)>>
        BY <1>6 DEF Found
  <2> HIDE DEF Harm
  <2> QED BY <1>2, <2>1, <2>2
<1>7. CASE result # Card /\ result # Token
  <2> DEFINE k == test.committed[now[result[2]]]
             e == Effect(Adds[k.card], k.committer, k.card)
  <2>1. Found(result) = IF result[2] \notin DOMAIN now THEN <<>> ELSE <<e>>
        BY <1>7 DEF Found
  <2>2. ASSUME result[2] \in DOMAIN now PROVE e \in Effects
    <3>1. now[result[2]] \in DOMAIN test.committed
          BY <1>4, <2>2
    <3> HIDE DEF now
    <3>2. k.card \in Cards /\ k.committer \in Investigators
          BY <3>1, CommitTyped
    <3>3. Adds[k.card] \in Additional
          BY <3>2, TestAssumption
    <3> HIDE DEF k
    <3> QED BY <3>2, <3>3 DEF Effect, Effects, Doings, Additional
  <2> HIDE DEF e, now
  <2> QED BY <1>2, <1>3, <2>1, <2>2
<1> QED BY <1>5, <1>6, <1>7

LEMMA ControlCollectResults == ASSUME ControlInv, CollectResults PROVE ControlInv'
<1> DEFINE succeeded == test.resolved.succeeded
           additions == Additions(test.committed, succeeded)
           fixed == (IF test.kind = "Plain" THEN {Card} ELSE {})
                    \cup (IF test.revealed = "cultist" /\ ~succeeded THEN {Token} ELSE {})
           owed == fixed \cup {<<"Addition", n>> : n \in DOMAIN additions}
           due == fixed \cup {<<"Addition", test.committed[additions[n]].card>> : n \in DOMAIN additions}
<1>1. /\ At("CollectResults") /\ test' = [test EXCEPT !.step = "ApplyResults", !.pending = owed, !.due = due]
      /\ UNCHANGED <<stack, Board, Rest>>
      BY DEF CollectResults, OnlyTest
<1>2. TestTyped(test) /\ DOMAIN test = Fields
      BY <1>1, AtTest
<1>3. owed \subseteq Results /\ (Card \in owed => test.kind = "Plain")
  <2>1. \A n \in DOMAIN additions : n \in Nat
        BY <1>2, AdditionsAre DEF TestTyped
  <2> HIDE DEF additions
  <2>2. \A n \in DOMAIN additions : <<"Addition", n>> \in Results /\ <<"Addition", n>> # Card
        BY <2>1 DEF Results, Card
  <2>3. fixed \subseteq Results /\ (Card \in fixed => test.kind = "Plain")
        BY DEF Results, Card, Token
  <2> HIDE DEF fixed, Results, Card
  <2> QED BY <2>2, <2>3
<1> HIDE DEF owed, due
<1>4. test'.step = "ApplyResults" /\ test'.pending = owed /\ Agree(test, test', {"step", "pending", "due"})
      BY <1>1, <1>2 DEF Agree, Fields
<1>5. Named(test, test', {"step", "pending", "due"}) /\ DOMAIN test' = Fields
      BY <1>4, Names1 DEF Agree
<1>6. TestTyped(test')
      BY <1>2, <1>3, <1>4, <1>5 DEF TestTyped, Named, Steps
<1>7. Named(test, test', {"step", "pending"})
      BY <1>5 DEF Named
<1>8. Named(test, test', Loosely)
      BY <1>7, FewerNamed DEF Loosely
<1>9. test'.step \in Told /\ "CollectResults" \in Told /\ test'.step \notin Opposing
      BY <1>4 DEF Told, Opposing
<1> QED BY <1>1, <1>6, <1>8, <1>9, MovesAlone DEF Board, Rest

LEMMA ControlApply ==
    ASSUME ControlInv, NEW from \in {"ApplyResults", "AwaitingResultOrder"}, At(from), NEW result \in test.pending,
           Apply(result)
    PROVE  ControlInv'
<1> DEFINE effects == Found(result)
           left == test.pending \ {result}
           applied == test.applied \o Names(result, Found(result))
<1>1. /\ test' = [test EXCEPT !.step = "ApplyResults", !.pending = left, !.applied = applied]
      /\ stack' = effects \o stack /\ UNCHANGED <<Board, Rest>>
      BY DEF Apply, Push, Still
<1>2. TestTyped(test) /\ DOMAIN test = Fields
      BY AtTest
<1>3. effects \in Seq(Effects)
      BY <1>2, FoundEffects
<1>4. left \subseteq Results /\ (Card \in left => test.kind = "Plain")
      BY <1>2 DEF TestTyped
<1> HIDE DEF effects, left, applied
<1>5. test'.step = "ApplyResults" /\ test'.pending = left /\ Agree(test, test', {"step", "pending", "applied"})
      BY <1>1, <1>2 DEF Agree, Fields
<1>6. Named(test, test', {"step", "pending", "applied"}) /\ DOMAIN test' = Fields
      BY <1>5, Names1 DEF Agree
<1>7. TestTyped(test')
      BY <1>2, <1>4, <1>5, <1>6 DEF TestTyped, Named, Steps
<1>8. Named(test, test', {"step", "pending"})
      BY <1>6 DEF Named
<1>9. Named(test, test', Loosely)
      BY <1>8, FewerNamed DEF Loosely
<1>10. test'.step \in Told /\ from \in Told /\ test'.step \notin Opposing /\ test'.step \in Late
      BY <1>5 DEF Told, Opposing, Late
<1>11. foe' \in Foes /\ rejected' = FALSE /\ UNCHANGED <<recorded_modifiers, actions_remaining, skill_test_ids>>
      BY <1>1 DEF ControlInv, Board, Rest
<1> QED BY <1>1, <1>3, <1>7, <1>9, <1>10, <1>11, MovesLate

LEMMA ControlApplyTheOnlyResult == ASSUME ControlInv, ApplyTheOnlyResult PROVE ControlInv'
BY ControlApply DEF ApplyTheOnlyResult

LEMMA ControlPickResult == ASSUME ControlInv, PickResult PROVE ControlInv'
BY ControlApply DEF PickResult

\* A step past the verdict that only moves the cursor.
LEMMA MovesCursor ==
    ASSUME ControlInv, NEW from \in Told, At(from), NEW to \in Told \ Opposing, test' = [test EXCEPT !.step = to],
           UNCHANGED <<stack, Board, Rest>>
    PROVE  ControlInv'
<1>1. TestTyped(test)
      BY AtTest
<1>2. to \in Steps \ {"AwaitingHelperCommit"}
      BY DEF Told, Steps
<1>3. test'.step = to /\ Named(test, test', {"step"}) /\ TestTyped(test')
      BY <1>1, <1>2, Stepped
<1>4. Named(test, test', Loosely)
      BY <1>3, FewerNamed DEF Loosely
<1> QED BY <1>3, <1>4, MovesAlone DEF Board, Rest

LEMMA ControlAskTheOrder == ASSUME ControlInv, AskTheOrder PROVE ControlInv'
BY MovesCursor DEF AskTheOrder, To, OnlyTest, Told, Opposing

LEMMA ControlNoResultLeft == ASSUME ControlInv, NoResultLeft PROVE ControlInv'
BY MovesCursor DEF NoResultLeft, To, OnlyTest, Told, Opposing

LEMMA ControlPostRetaliate == ASSUME ControlInv, PostRetaliate PROVE ControlInv'
<1>1. At("PostRetaliate") /\ test' = [test EXCEPT !.step = "PostOnResolution"] /\ UNCHANGED <<Board, Rest>>
      BY DEF PostRetaliate, To, Still
<1>2. stack' = <<Harm(test.investigator)>> \o stack \/ stack' = stack
      BY DEF PostRetaliate, Push
<1>3. TestTyped(test)
      BY <1>1, AtTest
<1>4. test'.step = "PostOnResolution" /\ Named(test, test', {"step"}) /\ TestTyped(test')
      BY <1>1, <1>3, Stepped DEF Steps
<1>5. /\ Named(test, test', Loosely) /\ "PostRetaliate" \in Told
      /\ test'.step \in Told /\ test'.step \in Late /\ test'.step \notin Opposing
      BY <1>4, FewerNamed DEF Loosely, Told, Late, Opposing
<1>6. Harm(test.investigator) \in Effects
      BY <1>3, KindsOf, TestAssumption DEF TestTyped
<1>7. <<Harm(test.investigator)>> \in Seq(Effects)
  <2> HIDE DEF Harm
  <2> QED BY <1>6
<1>8. <<>> \in Seq(Effects) /\ <<>> \o stack = stack
      BY <1>1, OnNothing
<1>9. foe' \in Foes /\ rejected' = FALSE /\ UNCHANGED <<recorded_modifiers, actions_remaining, skill_test_ids>>
      BY <1>1 DEF ControlInv, Board, Rest
<1>10. ASSUME NEW over \in Seq(Effects), stack' = over \o stack PROVE ControlInv'
      BY <1>1, <1>4, <1>5, <1>9, <1>10, MovesLate
<1> QED BY <1>2, <1>7, <1>8, <1>10

------------------------------------------------------------------------------
(* A test ends, one begins, and its performer chooses a skill. *)

LEMMA ControlTearDown ==
    ASSUME ControlInv, On("SkillTest"), NEW marked, TearDown(marked)
    PROVE  ControlInv'
<1> DEFINE G == {r \in Elems(recorded_modifiers) : r.test # test.id}
           rows == Among(recorded_modifiers, G)
<1>1. test' = NoTest /\ stack' = Tail(stack) /\ recorded_modifiers' = rows /\ UNCHANGED <<foe, spent, Rest>>
      BY DEF TearDown
<1>2. Tail(stack) = <<>> /\ InFlight
      BY TopTest
<1>3. G = {}
      BY <1>2, FlyingTest DEF Elems
<1>4. recorded_modifiers \in Seq(RowSet)
      BY DEF ControlInv
<1> HIDE DEF G
<1>5. rows \in Seq(RowSet) /\ Elems(rows) = {}
      BY <1>3, <1>4, AmongProperties
<1> HIDE DEF rows
<1>6. DOMAIN rows = {} /\ DOMAIN rows = 1..Len(rows) /\ Len(rows) \in Nat
  <2>1. \A k \in DOMAIN rows : rows[k] \in Elems(rows)
        BY DEF Elems
  <2> QED BY <1>5, <2>1, LenProperties
<1>7. rows = <<>>
      BY <1>5, <1>6
<1> QED BY <1>1, <1>2, <1>5, <1>7 DEF ControlInv, Running, Waiting, Rest

LEMMA ControlPerformerEliminated == ASSUME ControlInv, PerformerEliminated PROVE ControlInv'
BY ControlTearDown DEF PerformerEliminated

LEMMA ControlTargetLeavesPlay == ASSUME ControlInv, TargetLeavesPlay PROVE ControlInv'
BY ControlTearDown DEF TargetLeavesPlay

LEMMA ControlPostOnResolution == ASSUME ControlInv, PostOnResolution PROVE ControlInv'
BY ControlTearDown DEF PostOnResolution, At

\* A test that has just begun, its substitution to be chosen or not.
LEMMA Begins ==
    ASSUME ControlInv, NEW spec, spec.kind \in Kinds, spec.weapon \in Cards \cup {None},
           spec.kind = "Plain" => spec.kept \in Investigators,
           NEW open \in {SkillTestFrame, SubstitutionPrompt}, NEW rows \in Seq(RowSet),
           \A k \in DOMAIN rows : rows[k].test = skill_test_ids + 1 /\ rows[k].what = "initiator"
    PROVE  Control(NewTest(spec), open, FALSE, rows, foe)
<1> DEFINE t == NewTest(spec)
<1>1. /\ DOMAIN t = Fields /\ t.id = skill_test_ids + 1 /\ t.investigator = Taker /\ t.kind = spec.kind
      /\ t.skill = SkillOf(spec.kind) /\ t.weapon = spec.weapon /\ t.kept = spec.kept /\ t.step = "PreCommitWindow"
      /\ t.helper = None /\ t.committed = <<>> /\ t.revealed = None /\ t.resolved = None /\ t.pending = {}
      /\ t.bonus = 0 /\ t.told = <<>>
      BY DEF NewTest, Fields
<1> HIDE DEF t
<1>2. skill_test_ids + 1 \in Nat \ {0}
      BY DEF ControlInv
<1>3. SkillOf(spec.kind) \in Skills
      BY DEF SkillOf, Kinds, Skills
<1>4. TestTyped(t)
      BY <1>1, <1>2, <1>3 DEF TestTyped, Steps
<1>5. open \notin Cells /\ open # FastWindow
      BY KindsOf DEF Openings
<1>6. Placed(t, open, FALSE)
      BY <1>1, <1>5 DEF Placed, Cells
<1>7. ~Announced(t, open) /\ ~Settled(t, open)
      BY <1>1 DEF Announced, Settled, Told, Early
<1>8. Decided(t, open)
      BY <1>1, <1>7 DEF Decided, Told
<1>9. Tallied(t, open, rows)
      BY <1>1, <1>7 DEF Tallied, Says
<1>10. Opposed(t, foe)
      BY <1>1 DEF Opposed
<1> QED BY <1>4, <1>6, <1>8, <1>9, <1>10 DEF Control, t

LEMMA ControlStart ==
    ASSUME ControlInv, ~InFlight, InGame(Taker), NEW spec, spec.kind \in Kinds, spec.weapon \in Cards \cup {None},
           spec.kind = "Plain" => spec.kept \in Investigators,
           StartSkillTest(spec, <<>>), actions_remaining' \in 0..Actions
    PROVE  ControlInv'
<1> DEFINE row == [test |-> skill_test_ids + 1, what |-> "initiator", stat |-> SkillOf(spec.kind), delta |-> 1]
           chosen == IF Taker \in Substitutes THEN <<SubstitutionPrompt>> ELSE <<>>
           open == IF Taker \in Substitutes THEN SubstitutionPrompt ELSE SkillTestFrame
           rows == IF spec.weapon = None THEN recorded_modifiers ELSE Append(recorded_modifiers, row)
<1>1. /\ test' = NewTest(spec) /\ skill_test_ids' = skill_test_ids + 1
         /\ stack' = chosen \o <<SkillTestFrame>> \o <<>>
      /\ recorded_modifiers' = rows /\ UNCHANGED <<investigators, foe, spent, rejected>>
      BY DEF StartSkillTest
<1>2. recorded_modifiers = <<>> /\ skill_test_ids \in Nat
      BY DEF ControlInv, Running, InFlight
<1>3. row \in RowSet
  <2>1. SkillOf(spec.kind) \in Skills
        BY DEF SkillOf, Kinds, Skills
  <2> QED BY <1>2, <2>1 DEF RowSet, Whats
<1>4. rows \in Seq(RowSet) /\ \A k \in DOMAIN rows : rows[k].test = skill_test_ids + 1 /\ rows[k].what = "initiator"
  <2>1. CASE spec.weapon = None
        BY <1>2, <2>1
  <2>2. CASE spec.weapon # None
    <3>1. rows = Append(<<>>, row) /\ row.test = skill_test_ids + 1 /\ row.what = "initiator"
          BY <1>2, <2>2
    <3> HIDE DEF row
    <3>2. Append(<<>>, row) = <<row>> /\ <<row>> \in Seq(RowSet) /\ \A k \in DOMAIN <<row>> : <<row>>[k] = row
          BY <1>3
    <3> HIDE DEF rows
    <3> QED BY <3>1, <3>2
  <2> QED BY <2>1, <2>2
<1> HIDE DEF row, rows
<1>5. open \in Openings /\ SkillTestFrame \in Openings /\ open \in {SkillTestFrame, SubstitutionPrompt}
      BY DEF Openings
<1>6. stack' = Beneath(open)
  <2>1. /\ Beneath(SkillTestFrame) = <<SkillTestFrame>> /\ <<>> \o Beneath(SkillTestFrame) = Beneath(SkillTestFrame)
        /\ Beneath(open) \in Seq(Openings)
        BY <1>5, BeneathIs
  <2>2. Taker \in Substitutes => <<SubstitutionPrompt>> \o Beneath(SkillTestFrame) = Beneath(SubstitutionPrompt)
    <3>1. SubstitutionPrompt # SkillTestFrame /\ SubstitutionPrompt \in Openings
          BY KindsOf DEF Openings
    <3> QED BY <3>1, BeneathIs
  <2>3. chosen \o <<SkillTestFrame>> = Beneath(open)
        BY <2>1, <2>2
  <2> HIDE DEF open, chosen
  <2>4. Beneath(open) \o <<>> = Beneath(open)
        BY <2>1
  <2> QED BY <1>1, <2>3, <2>4
<1> HIDE DEF open, chosen
<1>7. Control(NewTest(spec), open, FALSE, rows, foe)
      BY <1>4, <1>5, Begins
<1>8. Running(stack', test', rows, foe)
      BY <1>1, <1>5, <1>6, <1>7, FliesBare
<1> QED BY <1>1, <1>2, <1>4, <1>8 DEF ControlInv

\* Nothing is in flight while there is no frame, or an action waits.
LEMMA Grounded ==
    ASSUME ControlInv, stack = <<>> \/ On("ActionResolution")
    PROVE  /\ ~InFlight /\ recorded_modifiers = <<>>
           /\ stack # <<>> => Tail(stack) = <<>> /\ \E spec \in Parkings : Top.spec = spec
<1>1. test = NoTest
  <2>1. SUFFICES ASSUME test # NoTest PROVE FALSE
        OBVIOUS
  <2>2. PICK over \in Seq(Effects), open \in Openings : stack = over \o Beneath(open)
        BY <2>1 DEF ControlInv, Running, Flying
  <2>3. stack # <<>> /\ (Head(stack) \in Effects \/ Head(stack) = open)
        BY <2>2, StackIs
  <2> QED BY <2>3, KindsOf DEF On, Top
<1>2. Waiting(stack) /\ recorded_modifiers = <<>>
      BY <1>1 DEF ControlInv, Running
<1> QED BY <1>1, <1>2, WaitingTops, KindsOf, TestAssumption DEF InFlight, On, Top

LEMMA Taken ==
    ASSUME ControlInv, Take
    PROVE  stack = <<>> /\ ~InFlight /\ InGame(Taker) /\ actions_remaining' \in 0..Actions
           /\ recorded_modifiers = <<>>
<1>1. actions_remaining \in 0..Actions /\ actions_remaining > 0 /\ actions_remaining' = actions_remaining - 1
      /\ Actions \in Nat
      BY TestAssumption DEF ControlInv, Take
<1>2. actions_remaining' \in 0..Actions
      BY <1>1
<1> QED BY <1>2, Grounded DEF Take

LEMMA ControlTakeFight == ASSUME IndInv, TakeFight PROVE ControlInv'
<1>1. PICK w \in {None} \cup (investigators[Taker].in_play \cap {Weapon}) : Take
      /\ StartSkillTest(TestSpec("Fight", w, None), <<>>)
      BY DEF TakeFight
<1>2. w \in Cards \cup {None}
      BY TestAssumption DEF IndInv, CardInv, Accounted, Seats
<1> DEFINE spec == TestSpec("Fight", w, None)
<1>3. spec.kind = "Fight" /\ spec.weapon = w /\ "Fight" \in Kinds
      BY DEF TestSpec, Kinds
<1> HIDE DEF spec
<1>4. StartSkillTest(spec, <<>>)
      BY <1>1 DEF spec
<1> QED BY <1>1, <1>2, <1>3, <1>4, Taken, ControlStart DEF IndInv

LEMMA ControlTakeEvade == ASSUME ControlInv, TakeEvade PROVE ControlInv'
<1> DEFINE spec == TestSpec("Evade", None, None)
<1>1. Take /\ StartSkillTest(spec, <<>>)
      BY DEF TakeEvade
<1>2. spec.kind = "Evade" /\ spec.weapon = None /\ "Evade" \in Kinds
      BY DEF TestSpec, Kinds
<1> HIDE DEF spec
<1> QED BY <1>1, <1>2, Taken, ControlStart

LEMMA ControlTakeProvoking ==
    ASSUME ControlInv, NEW spec \in Parkings, TakeProvoking(spec)
    PROVE  ControlInv'
<1> DEFINE parked == ActionResolution(spec)
           attack == Harm(Taker)
<1>1. /\ stack' \in {<<attack>> \o <<parked>>, <<>> \o <<parked>>} /\ Take
      /\ UNCHANGED <<test, Board, skill_test_ids, rejected>>
      BY DEF TakeProvoking
<1>2. ~InFlight /\ actions_remaining' \in 0..Actions /\ recorded_modifiers = <<>>
      BY <1>1, Taken
<1> HIDE DEF parked, attack
<1>3. <<attack>> \o <<parked>> = <<attack, parked>> /\ <<>> \o <<parked>> = <<parked>>
  <2>1. attack \in {attack, parked} /\ parked \in {attack, parked}
        OBVIOUS
  <2>2. <<attack>> \o <<parked>> = <<attack, parked>>
        BY <2>1, TwoConcat
  <2>3. <<parked>> \in Seq({parked})
        OBVIOUS
  <2> QED BY <2>2, <2>3
<1>4. Waiting(stack')
      BY <1>1, <1>3 DEF Waiting, attack, parked
<1>5. test' = NoTest /\ recorded_modifiers' = <<>>
      BY <1>1, <1>2 DEF InFlight, Board
<1>6. Running(stack', test', recorded_modifiers', foe')
      BY <1>4, <1>5 DEF Running
<1> QED BY <1>1, <1>2, <1>6 DEF ControlInv, Board

LEMMA ControlTakeInvestigate == ASSUME ControlInv, TakeInvestigate PROVE ControlInv'
<1>1. TestSpec("Investigate", None, None) \in Parkings
  <2>1. TestSpec("Investigate", None, None) \in Specs
        BY DEF Specs, Kinds
  <2>2. TestSpec("Investigate", None, None).kind = "Investigate"
        BY DEF TestSpec
  <2> QED BY <2>1, <2>2 DEF Parkings
<1> QED BY <1>1, ControlTakeProvoking DEF TakeInvestigate

LEMMA ControlActivate == ASSUME ControlInv, Activate PROVE ControlInv'
<1>1. PICK i \in Investigators : TakeProvoking(TestSpec("Plain", None, i))
      BY DEF Activate
<1>2. TestSpec("Plain", None, i) \in Parkings
  <2>1. TestSpec("Plain", None, i) \in Specs
        BY DEF Specs, Kinds
  <2>2. TestSpec("Plain", None, i).kept = i
        BY DEF TestSpec
  <2> QED BY <2>1, <2>2 DEF Parkings
<1> QED BY <1>1, <1>2, ControlTakeProvoking

LEMMA ControlResumeActionResolution == ASSUME ControlInv, ResumeActionResolution PROVE ControlInv'
<1>1. ~InFlight /\ recorded_modifiers = <<>> /\ Tail(stack) = <<>>
      BY Grounded DEF ResumeActionResolution, On
<1>2. PICK spec \in Parkings : Top.spec = spec
      BY Grounded DEF ResumeActionResolution, On
<1>3. actions_remaining' \in 0..Actions
      BY DEF ResumeActionResolution, ControlInv
<1>4. CASE InGame(Taker)
  <2>1. StartSkillTest(spec, <<>>)
        BY <1>1, <1>2, <1>4 DEF ResumeActionResolution
  <2>2. spec.kind \in Kinds /\ spec.weapon = None /\ (spec.kind = "Plain" => spec.kept \in Investigators)
        BY DEF Parkings, Specs, TestSpec
  <2> QED BY <1>1, <1>3, <1>4, <2>1, <2>2, ControlStart
<1>5. CASE ~InGame(Taker)
  <2>1. stack' = <<>> /\ UNCHANGED <<test, Board, skill_test_ids, rejected>>
        BY <1>1, <1>5 DEF ResumeActionResolution
  <2>2. Running(stack', test', recorded_modifiers', foe')
        BY <1>1, <2>1 DEF Running, Waiting, InFlight, Board
  <2> QED BY <1>3, <2>1, <2>2 DEF ControlInv, Board
<1> QED BY <1>4, <1>5

LEMMA ControlChooseSubstitution == ASSUME ControlInv, ChooseSubstitution PROVE ControlInv'
<1>1. /\ On("SubstitutionPrompt") /\ stack' = Tail(stack) /\ UNCHANGED <<Board, Rest>>
      /\ test' = test \/ test' = [test EXCEPT !.skill = "Intellect"]
      BY DEF ChooseSubstitution
<1>2. /\ Top \in Openings /\ Tail(stack) = Beneath(SkillTestFrame) /\ Top.kind = "SubstitutionPrompt"
      /\ Control(test, Top, FALSE, recorded_modifiers, foe)
      BY <1>1, TopOpen DEF On
<1>3. Top = SubstitutionPrompt /\ Top \notin Cells
      BY <1>2, KindsOf
<1>4. TestTyped(test) /\ DOMAIN test = Fields /\ test.step = "PreCommitWindow" /\ test.resolved = None
      BY <1>2, <1>3 DEF Control, TestTyped, Placed, Decided, Early
<1>5. Named(test, test', {"skill"}) /\ DOMAIN test' = Fields /\ test'.skill \in Skills
  <2>1. CASE test' = test
        BY <1>4, <2>1 DEF Named, TestTyped
  <2>2. CASE test' = [test EXCEPT !.skill = "Intellect"]
    <3>1. Agree(test, test', {"skill"}) /\ test'.skill = "Intellect"
          BY <1>4, <2>2 DEF Agree, Fields
    <3> QED BY <3>1, Names1 DEF Agree, Skills
  <2> QED BY <1>1, <2>1, <2>2
<1>6. TestTyped(test') /\ test'.step = "PreCommitWindow"
      BY <1>4, <1>5 DEF TestTyped, Named
<1>7. Follows(test, Top, test', SkillTestFrame, FALSE)
  <2>1. ~Announced(test', SkillTestFrame) /\ ~Announced(test, Top) /\ ~Settled(test', SkillTestFrame)
        /\ ~Settled(test, Top)
        BY <1>4, <1>6 DEF Announced, Settled, Told, Early
  <2>2. Named(test, test', Loosely)
        BY <1>5, FewerNamed DEF Loosely
  <2>3. test'.step \notin Told \cup {"AcknowledgeOutcome"} /\ test'.step \notin Opposing
        BY <1>6 DEF Told, Opposing
  <2> QED BY <1>4, <1>6, <2>1, <2>2, <2>3, Uncovered DEF Follows
<1>8. Control(test', SkillTestFrame, FALSE, recorded_modifiers, foe)
      BY <1>2, <1>7, Onward
<1>9. Running(Beneath(SkillTestFrame), test', recorded_modifiers, foe)
      BY <1>8, Uncovered, FliesBare
<1> QED BY <1>1, <1>2, <1>9 DEF ControlInv, Board, Rest

------------------------------------------------------------------------------
(* The cells and the windows over the test. *)

LEMMA TopCell ==
    ASSUME ControlInv, On("EmitEvent")
    PROVE  /\ Top \in Cells /\ Top \in Openings /\ stack = <<Top, SkillTestFrame>> /\ InFlight
           /\ Tail(stack) = Beneath(SkillTestFrame) /\ stack # <<>> /\ Head(stack) = Top
           /\ Control(test, Top, FALSE, recorded_modifiers, foe) /\ TestTyped(test) /\ DOMAIN test = Fields
           /\ Placed(test, Top, FALSE) /\ recorded_modifiers \in Seq(RowSet)
           /\ Top.event.kind = "ChaosTokenRevealed" <=> Top \in Reveals
           /\ Top.event.kind = "SkillTestResolved" <=> Top \in Announcements
           /\ Top.event.kind = "EnemyEvaded" <=> Top \in Evasions
<1>1. stack # <<>> /\ Top.kind = "EmitEvent"
      BY DEF On
<1>2. /\ Top \in Openings /\ stack = <<Top, SkillTestFrame>> /\ InFlight /\ Tail(stack) = Beneath(SkillTestFrame)
      /\ Control(test, Top, FALSE, recorded_modifiers, foe)
      BY <1>1, TopOpen
<1>3. Top \in Cells
      BY <1>1, <1>2, KindsOf
<1>4. /\ Top.event.kind = "ChaosTokenRevealed" <=> Top \in Reveals
      /\ Top.event.kind = "SkillTestResolved" <=> Top \in Announcements
      /\ Top.event.kind = "EnemyEvaded" <=> Top \in Evasions
      BY <1>3, KindsOf DEF Cells
<1>5. TestTyped(test) /\ DOMAIN test = Fields /\ Placed(test, Top, FALSE) /\ recorded_modifiers \in Seq(RowSet)
      BY <1>2 DEF Control, TestTyped, ControlInv
<1> QED BY <1>1, <1>2, <1>3, <1>4, <1>5 DEF Top

\* A cell with its step, or that it is prevented, changed.
LEMMA OtherCell ==
    ASSUME NEW cell \in Cells
    PROVE  /\ \A step \in CellSteps :
                 LET n == [cell EXCEPT !.step = step] IN
                 /\ n \in Cells /\ n.event = cell.event /\ n.step = step /\ n.prevented = cell.prevented
                 /\ (n \in Reveals <=> cell \in Reveals) /\ (n \in Announcements <=> cell \in Announcements)
                 /\ (n \in Evasions <=> cell \in Evasions)
           /\ LET n == [cell EXCEPT !.prevented = TRUE] IN
                 /\ n \in Cells /\ n.event = cell.event /\ n.step = cell.step /\ n.prevented
                 /\ (n \in Reveals <=> cell \in Reveals) /\ (n \in Announcements <=> cell \in Announcements)
                 /\ (n \in Evasions <=> cell \in Evasions)
<1>1. ASSUME NEW events, NEW f \in Emits(events)
      PROVE  /\ \A step \in CellSteps :
                   LET n == [f EXCEPT !.step = step] IN
                   n \in Emits(events) /\ n.event = f.event /\ n.step = step /\ n.prevented = f.prevented
             /\ LET n == [f EXCEPT !.prevented = TRUE] IN
                n \in Emits(events) /\ n.event = f.event /\ n.step = f.step /\ n.prevented
      BY DEF Emits
<1>2. \A f : /\ f \in Reveals => f \notin Announcements /\ f \notin Evasions /\ f \in Cells
             /\ f \in Announcements => f \notin Reveals /\ f \notin Evasions /\ f \in Cells
             /\ f \in Evasions => f \notin Reveals /\ f \notin Announcements /\ f \in Cells
      BY KindsOf DEF Cells
<1>3. CASE cell \in Reveals
  <2>1. \A step \in CellSteps :
           LET n == [cell EXCEPT !.step = step] IN
           n \in Reveals /\ n.event = cell.event /\ n.step = step /\ n.prevented = cell.prevented
        BY <1>1, <1>3 DEF Reveals
  <2>2. LET n == [cell EXCEPT !.prevented = TRUE] IN
        n \in Reveals /\ n.event = cell.event /\ n.step = cell.step /\ n.prevented
        BY <1>1, <1>3 DEF Reveals
  <2> QED BY <1>2, <1>3, <2>1, <2>2
<1>4. CASE cell \in Announcements
  <2>1. \A step \in CellSteps :
           LET n == [cell EXCEPT !.step = step] IN
           n \in Announcements /\ n.event = cell.event /\ n.step = step /\ n.prevented = cell.prevented
        BY <1>1, <1>4 DEF Announcements
  <2>2. LET n == [cell EXCEPT !.prevented = TRUE] IN
        n \in Announcements /\ n.event = cell.event /\ n.step = cell.step /\ n.prevented
        BY <1>1, <1>4 DEF Announcements
  <2> QED BY <1>2, <1>4, <2>1, <2>2
<1>5. CASE cell \in Evasions
  <2>1. \A step \in CellSteps :
           LET n == [cell EXCEPT !.step = step] IN
           n \in Evasions /\ n.event = cell.event /\ n.step = step /\ n.prevented = cell.prevented
        BY <1>1, <1>5 DEF Evasions
  <2>2. LET n == [cell EXCEPT !.prevented = TRUE] IN
        n \in Evasions /\ n.event = cell.event /\ n.step = cell.step /\ n.prevented
        BY <1>1, <1>5 DEF Evasions
  <2> QED BY <1>2, <1>5, <2>1, <2>2
<1> QED BY <1>3, <1>4, <1>5 DEF Cells

LEMMA CellSteps4 ==
    ASSUME NEW cell \in Cells
    PROVE  /\ cell.step \in CellSteps
           /\ cell.step = "When" => StepAfter(cell.step) = "ResolveCondition"
           /\ cell.step = "ResolveCondition" => StepAfter(cell.step) = "At"
           /\ cell.step = "At" => StepAfter(cell.step) = "After"
           /\ cell.step \in {"When", "ResolveCondition", "At", "After"}
<1>1. cell.step \in CellSteps
      BY DEF Cells, Reveals, Announcements, Evasions, Emits
<1> QED BY <1>1 DEF StepAfter, CellSteps

LEMMA NextCell ==
    ASSUME NEW cell \in Cells, cell.step # "After"
    PROVE  LET n == [cell EXCEPT !.step = StepAfter(cell.step)] IN
           /\ n \in Cells /\ n.event = cell.event /\ n.step = StepAfter(cell.step) /\ n.prevented = cell.prevented
           /\ (n \in Reveals <=> cell \in Reveals) /\ (n \in Announcements <=> cell \in Announcements)
           /\ (n \in Evasions <=> cell \in Evasions)
<1> DEFINE step == StepAfter(cell.step)
<1>1. step \in CellSteps
      BY CellSteps4 DEF CellSteps
<1> HIDE DEF step
<1>2. LET n == [cell EXCEPT !.step = step] IN
           /\ n \in Cells /\ n.event = cell.event /\ n.step = step /\ n.prevented = cell.prevented
           /\ (n \in Reveals <=> cell \in Reveals) /\ (n \in Announcements <=> cell \in Announcements)
           /\ (n \in Evasions <=> cell \in Evasions)
      BY <1>1, OtherCell
<1> QED BY <1>2 DEF step

\* A frame of a cell, in the place of the one that is open.
LEMMA Replaced ==
    ASSUME NEW cell \in Cells
    PROVE  /\ cell \in Openings /\ cell # SkillTestFrame /\ cell # FastWindow /\ cell # SubstitutionPrompt
           /\ <<cell>> \o Beneath(SkillTestFrame) = Beneath(cell)
           /\ Beneath(cell) = <<cell, SkillTestFrame>>
<1>1. cell \in Openings /\ cell # SkillTestFrame /\ cell # FastWindow /\ cell # SubstitutionPrompt
      BY KindsOf DEF Openings
<1> QED BY <1>1, BeneathIs

\* What comes of a cell that is closed.
LEMMA Advanced ==
    ASSUME ControlInv, On("EmitEvent")
    PROVE  /\ Top.step = "After" => AdvanceOrFinish(stack) = Beneath(SkillTestFrame)
           /\ Top.step # "After" => AdvanceOrFinish(stack) = Beneath([Top EXCEPT !.step = StepAfter(Top.step)])
<1> DEFINE n == [Top EXCEPT !.step = StepAfter(Top.step)]
<1>1. Top \in Cells /\ Head(stack) = Top /\ Tail(stack) = Beneath(SkillTestFrame)
      BY TopCell
<1>2. AdvanceOrFinish(stack) = IF Top.step = "After" THEN Tail(stack) ELSE <<n>> \o Tail(stack)
      BY <1>1 DEF AdvanceOrFinish, Under
<1>3. ASSUME Top.step # "After" PROVE n \in Cells
      BY <1>1, <1>3, NextCell
<1> HIDE DEF n
<1>4. ASSUME Top.step # "After" PROVE <<n>> \o Tail(stack) = Beneath(n)
      BY <1>1, <1>3, <1>4, Replaced
<1> QED BY <1>1, <1>2, <1>4 DEF n

\* A test that stays as it is while what is open over it closes.
LEMMA Closes ==
    ASSUME ControlInv, NEW open, Control(test, open, FALSE, recorded_modifiers, foe),
           NEW after \in Openings, stack' = Beneath(after), test' = test, UNCHANGED <<Board, Rest>>,
           Placed(test, after, FALSE), Announced(test, after) <=> Announced(test, open), Settled(test, after)
               <=> Settled(test, open)
    PROVE  ControlInv'
<1>1. Follows(test, open, test, after, FALSE)
  <2>1. Named(test, test, Loosely)
        BY DEF Named
  <2>2. TestTyped(test) /\ (test.step \in Early => test.resolved = None)
        BY DEF Control, Decided
  <2> QED BY <2>1, <2>2 DEF Follows
<1>2. Control(test, after, FALSE, recorded_modifiers, foe)
      BY <1>1, Onward
<1>3. Running(Beneath(after), test, recorded_modifiers, foe)
      BY <1>2, FliesBare
<1> QED BY <1>3 DEF ControlInv, Board, Rest

LEMMA ControlCloseCell == ASSUME ControlInv, CloseCell PROVE ControlInv'
<1> DEFINE n == [Top EXCEPT !.step = StepAfter(Top.step)]
<1>1. /\ On("EmitEvent") /\ Top.step # "ResolveCondition" /\ stack' = AdvanceOrFinish(stack) /\ test' = test
      /\ UNCHANGED <<Board, Rest>>
      BY DEF CloseCell
<1>2. Top \in Cells /\ Control(test, Top, FALSE, recorded_modifiers, foe) /\ Placed(test, Top, FALSE)
      BY <1>1, TopCell
<1>3. CASE Top.step = "After"
  <2>1. stack' = Beneath(SkillTestFrame) /\ ~Pending(Top)
        BY <1>1, <1>3, Advanced DEF Pending
  <2>2. Announced(test, SkillTestFrame) <=> Announced(test, Top)
        BY <2>1, Uncovered DEF Announced
  <2>3. Settled(test, SkillTestFrame) <=> Settled(test, Top)
        BY <2>1, Uncovered DEF Settled
  <2> QED BY <1>1, <1>2, <2>1, <2>2, <2>3, Uncovered, Closes
<1>4. CASE Top.step # "After"
  <2>1. \/ Top.step = "When" /\ StepAfter(Top.step) = "ResolveCondition"
        \/ Top.step = "At" /\ StepAfter(Top.step) = "After"
        BY <1>1, <1>2, <1>4, CellSteps4
  <2>2. stack' = Beneath(n)
        BY <1>1, <1>4, Advanced
  <2>3. /\ n \in Cells /\ n.event = Top.event /\ n.step = StepAfter(Top.step) /\ n.prevented = Top.prevented
        /\ (n \in Reveals <=> Top \in Reveals) /\ (n \in Announcements <=> Top \in Announcements)
        /\ (n \in Evasions <=> Top \in Evasions)
        BY <1>2, <1>4, NextCell
  <2> HIDE DEF n
  <2>4. Pending(n) <=> Pending(Top)
        BY <2>1, <2>3 DEF Pending
  <2>5. n \in Openings /\ n # SkillTestFrame /\ n # FastWindow /\ n # SubstitutionPrompt
        BY <2>3, Replaced
  <2>6. Placed(test, n, FALSE)
        BY <1>2, <2>3, <2>4, <2>5 DEF Placed
  <2>7. Announced(test, n) <=> Announced(test, Top)
        BY <2>3, <2>4 DEF Announced
  <2>8. Settled(test, n) <=> Settled(test, Top)
        BY <2>3, <2>4 DEF Settled
  <2> QED BY <1>1, <1>2, <2>2, <2>5, <2>6, <2>7, <2>8, Closes
<1> QED BY <1>3, <1>4

LEMMA ControlAbandoned == ASSUME ControlInv, Abandoned PROVE ControlInv'
<1>1. On("EmitEvent") /\ Top.prevented /\ stack' = Tail(stack) /\ test' = test /\ UNCHANGED <<Board, Rest>>
      BY DEF Abandoned
<1>2. /\ Top \in Cells /\ Control(test, Top, FALSE, recorded_modifiers, foe) /\ Placed(test, Top, FALSE)
      /\ stack' = Beneath(SkillTestFrame)
      BY <1>1, TopCell
<1>3. test.step = "Resolving"
      BY <1>1, <1>2 DEF Placed, Cells
<1>4. /\ ~Announced(test, SkillTestFrame) /\ ~Announced(test, Top)
      /\ ~Settled(test, SkillTestFrame) /\ ~Settled(test, Top)
      BY <1>3 DEF Announced, Settled, Told, Early
<1> QED BY <1>1, <1>2, <1>4, Uncovered, Closes

\* A window is open before the token.
LEMMA TopWindow ==
    ASSUME ControlInv, On("FastWindow")
    PROVE  /\ Top = FastWindow /\ Top \in Openings /\ InFlight /\ test.step \in {"NextHelper", "Resolving"}
           /\ stack = Beneath(FastWindow) /\ Tail(stack) = Beneath(SkillTestFrame)
           /\ Control(test, FastWindow, FALSE, recorded_modifiers, foe)
<1>1. stack # <<>> /\ Top.kind = "FastWindow"
      BY DEF On
<1>2. /\ Top \in Openings /\ InFlight /\ Tail(stack) = Beneath(SkillTestFrame) /\ stack = Beneath(Top)
      /\ Control(test, Top, FALSE, recorded_modifiers, foe)
      BY <1>1, TopOpen
<1>3. Top = FastWindow
      BY <1>1, <1>2, KindsOf
<1>4. test.step \in {"NextHelper", "Resolving"}
      BY <1>2, <1>3 DEF Control, Placed
<1> QED BY <1>2, <1>3, <1>4

LEMMA ControlCloseWindow == ASSUME ControlInv, CloseWindow PROVE ControlInv'
<1>1. On("FastWindow") /\ stack' = Tail(stack) /\ test' = test /\ UNCHANGED <<Board, Rest>>
      BY DEF CloseWindow
<1>2. /\ stack' = Beneath(SkillTestFrame) /\ Control(test, FastWindow, FALSE, recorded_modifiers, foe)
      /\ test.step \in {"NextHelper", "Resolving"}
      BY <1>1, TopWindow
<1>3. /\ ~Announced(test, SkillTestFrame) /\ ~Announced(test, FastWindow)
      /\ ~Settled(test, SkillTestFrame) /\ ~Settled(test, FastWindow)
      BY <1>2 DEF Announced, Settled, Told, Early
<1> QED BY <1>1, <1>2, <1>3, Uncovered, Closes

LEMMA ControlResolveEvasion == ASSUME ControlInv, ResolveEvasion PROVE ControlInv'
<1> DEFINE n == [Top EXCEPT !.step = StepAfter(Top.step)]
<1>1. /\ On("EmitEvent") /\ Top.event.kind = "EnemyEvaded" /\ Top.step = "ResolveCondition"
      /\ stack' = AdvanceOrFinish(stack)
      /\ foe' = (IF foe.in_play THEN [foe EXCEPT !.engaged = None, !.exhausted = TRUE] ELSE foe)
      /\ UNCHANGED <<test, investigators, recorded_modifiers, spent, Rest>>
      BY DEF ResolveEvasion, Cell
<1>2. Top \in Cells /\ Top \in Evasions /\ Control(test, Top, FALSE, recorded_modifiers, foe)
      /\ Placed(test, Top, FALSE)
      BY <1>1, TopCell
<1>3. stack' = Beneath(n)
      BY <1>1, Advanced
<1>4. /\ n \in Cells /\ n \in Evasions /\ n.prevented = Top.prevented
      BY <1>1, <1>2, NextCell
<1> HIDE DEF n
<1>5. /\ n \in Openings /\ n # SkillTestFrame /\ n # FastWindow /\ n # SubstitutionPrompt
      /\ n \notin Reveals /\ n \notin Announcements /\ Top \notin Reveals /\ Top \notin Announcements
      BY <1>2, <1>4, Replaced, KindsOf
<1>6. test.step = "CollectResults"
      BY <1>2 DEF Placed
<1>7. Placed(test, n, FALSE)
      BY <1>2, <1>4, <1>5 DEF Placed
<1>8. Follows(test, Top, test, n, FALSE)
  <2>1. Named(test, test, Loosely)
        BY DEF Named
  <2>2. TestTyped(test) /\ (test.step \in Early => test.resolved = None)
        BY <1>2 DEF Control, Decided
  <2>3. (Announced(test, n) <=> Announced(test, Top)) /\ (Settled(test, n) <=> Settled(test, Top))
        BY <1>5 DEF Announced, Settled
  <2> QED BY <1>7, <2>1, <2>2, <2>3 DEF Follows
<1>9. Control(test, n, FALSE, recorded_modifiers, foe)
      BY <1>2, <1>8, Onward
<1>10. Control(test, n, FALSE, recorded_modifiers, foe')
  <2>1. Opposed(test, foe')
        BY <1>6 DEF Opposed
  <2> QED BY <1>9, <2>1 DEF Control
<1>11. foe' \in Foes
      BY <1>1 DEF ControlInv, Foes
<1>12. Running(Beneath(n), test, recorded_modifiers, foe')
      BY <1>5, <1>10, FliesBare
<1> QED BY <1>1, <1>3, <1>11, <1>12 DEF ControlInv, Rest

LEMMA ControlResolveVerdict == ASSUME ControlInv, ResolveVerdict PROVE ControlInv'
<1> DEFINE verdict == Verdict
           n == [Top EXCEPT !.step = StepAfter(Top.step)]
<1>1. /\ On("EmitEvent") /\ Top.event.kind = "SkillTestResolved" /\ Top.step = "ResolveCondition"
         /\ UNCHANGED <<Board, Rest>>
      /\ IF verdict.succeeded # Top.event.succeeded
         THEN test' = [test EXCEPT !.resolved = verdict, !.step = "DetermineOutcome"] /\ stack' = Tail(stack)
         ELSE /\ test' = [test EXCEPT !.resolved = verdict, !.told = Append(test.told, verdict.succeeded)]
              /\ stack' = AdvanceOrFinish(stack)
      BY DEF ResolveVerdict, Cell, Still
<1>2. verdict \in Verdicts /\ (Says(recorded_modifiers, {"AutomaticFailure"}) # {} => ~verdict.succeeded)
      BY <1>1, TopCell, VerdictIs, Determines
<1>3. /\ Top \in Cells /\ Top \in Announcements /\ Control(test, Top, FALSE, recorded_modifiers, foe)
         /\ Placed(test, Top, FALSE)
      /\ Tail(stack) = Beneath(SkillTestFrame) /\ TestTyped(test) /\ DOMAIN test = Fields
      BY <1>1, TopCell
<1>4. Top \notin Reveals /\ Top \notin Evasions /\ Pending(Top) /\ Top.event.succeeded \in BOOLEAN
      BY <1>1, <1>3, KindsOf DEF Pending, Announcements, Emits
<1> HIDE DEF verdict
<1>5. test.step = "AcknowledgeOutcome" /\ ~Top.prevented /\ test.resolved \in Verdicts /\ test.told = <<>>
  <2>1. test.step = "AcknowledgeOutcome" /\ ~Top.prevented
        BY <1>3 DEF Placed
  <2>2. ~Announced(test, Top)
        BY <1>3, <1>4, <2>1 DEF Announced, Told
  <2> QED BY <1>3, <2>1, <2>2 DEF Control, Decided
<1>6. test.kind = "Evade" => foe.in_play
  <2>1. test.resolved # None
        BY <1>5, TestAssumption DEF Verdicts
  <2> QED BY <1>3, <1>5, <2>1 DEF Control, Opposed
<1>7. Settled(test, Top) /\ Tallied(test, Top, recorded_modifiers)
      BY <1>3, <1>4, <1>5 DEF Settled, Early, Control
<1>8. CASE verdict.succeeded # Top.event.succeeded
  <2>1. test' = [test EXCEPT !.resolved = verdict, !.step = "DetermineOutcome"] /\ stack' = Beneath(SkillTestFrame)
        BY <1>1, <1>3, <1>8
  <2>2. test'.step = "DetermineOutcome" /\ test'.resolved = verdict /\ Agree(test, test', {"step", "resolved"})
        BY <1>3, <2>1 DEF Agree, Fields
  <2>3. Named(test, test', {"step", "resolved"}) /\ DOMAIN test' = Fields
        BY <2>2, Names1 DEF Agree
  <2>4. TestTyped(test')
        BY <1>2, <1>3, <2>2, <2>3 DEF TestTyped, Named, Steps
  <2>5. ~Announced(test', SkillTestFrame) /\ Settled(test', SkillTestFrame)
        BY <2>2, Uncovered DEF Announced, Settled, Told, Early
  <2>6. Decided(test', SkillTestFrame)
        BY <1>5, <2>2, <2>3, <2>5 DEF Decided, Named, Told, Early
  <2>7. Tallied(test', SkillTestFrame, recorded_modifiers)
        BY <1>7, <2>3, <2>5 DEF Tallied, Named
  <2>8. Opposed(test', foe)
        BY <1>6, <2>3 DEF Opposed, Named
  <2>9. Control(test', SkillTestFrame, FALSE, recorded_modifiers, foe)
        BY <2>4, <2>6, <2>7, <2>8, Uncovered DEF Control
  <2>10. Running(Beneath(SkillTestFrame), test', recorded_modifiers, foe)
        BY <2>9, Uncovered, FliesBare
  <2> QED BY <1>1, <2>1, <2>10 DEF ControlInv, Board, Rest
<1>9. CASE verdict.succeeded = Top.event.succeeded
  <2> DEFINE told == Append(test.told, verdict.succeeded)
  <2>1. test' = [test EXCEPT !.resolved = verdict, !.told = told] /\ stack' = AdvanceOrFinish(stack)
        BY <1>1, <1>9
  <2>2. told = <<verdict.succeeded>>
    <3> DEFINE s == verdict.succeeded
    <3> HIDE DEF s
    <3>1. Append(<<>>, s) = <<s>>
          OBVIOUS
    <3> QED BY <1>5, <3>1 DEF s
  <2> HIDE DEF told
  <2>3. stack' = Beneath(n)
        BY <1>1, <2>1, Advanced
  <2>4. n \in Cells /\ n \in Announcements /\ n.event = Top.event /\ n.step = "At" /\ n.prevented = Top.prevented
        BY <1>1, <1>3, NextCell, CellSteps4
  <2> HIDE DEF n
  <2>5. /\ n \in Openings /\ n # SkillTestFrame /\ n # FastWindow /\ n # SubstitutionPrompt
        /\ n \notin Reveals /\ n \notin Evasions /\ ~Pending(n)
        BY <2>4, Replaced, KindsOf DEF Pending
  <2>6. test'.told = told /\ test'.resolved = verdict /\ Agree(test, test', {"told", "resolved"})
        BY <1>3, <2>1 DEF Agree, Fields
  <2>7. Named(test, test', {"told", "resolved"}) /\ DOMAIN test' = Fields
        BY <2>6, Names1 DEF Agree
  <2>8. TestTyped(test') /\ test'.step = "AcknowledgeOutcome"
        BY <1>2, <1>3, <1>5, <2>6, <2>7 DEF TestTyped, Named
  <2>9. Announced(test', n) /\ Settled(test', n)
        BY <2>5, <2>8 DEF Announced, Settled, Early
  <2>10. Placed(test', n, FALSE)
        BY <1>5, <1>9, <2>4, <2>5, <2>6, <2>8 DEF Placed
  <2>11. Decided(test', n)
        BY <1>2, <2>2, <2>6, <2>8, <2>9 DEF Decided, Early
  <2>12. Tallied(test', n, recorded_modifiers)
        BY <1>2, <1>7, <2>6, <2>7, <2>9 DEF Tallied, Named
  <2>13. Opposed(test', foe)
        BY <1>6, <2>7 DEF Opposed, Named
  <2>14. Control(test', n, FALSE, recorded_modifiers, foe)
        BY <2>8, <2>10, <2>11, <2>12, <2>13 DEF Control
  <2>15. Running(Beneath(n), test', recorded_modifiers, foe)
        BY <2>5, <2>14, FliesBare
  <2> QED BY <1>1, <2>3, <2>15 DEF ControlInv, Board, Rest
<1> QED BY <1>8, <1>9

LEMMA ControlCancelToken == ASSUME ControlInv, CancelToken PROVE ControlInv'
<1> DEFINE n == [Top EXCEPT !.prevented = TRUE]
<1>1. /\ On("EmitEvent") /\ Top.event.kind = "ChaosTokenRevealed" /\ Top.step = "When" /\ ~Top.prevented
      /\ stack' = CancelCurrentImpact(stack) /\ test' = [test EXCEPT !.step = "Resolving", !.cancelled = TRUE]
      /\ UNCHANGED <<foe, recorded_modifiers, spent, Rest>>
      BY DEF CancelToken, Cell
<1>2. /\ Top \in Cells /\ Top \in Reveals /\ Control(test, Top, FALSE, recorded_modifiers, foe)
         /\ Placed(test, Top, FALSE)
      /\ stack = <<Top, SkillTestFrame>> /\ TestTyped(test) /\ DOMAIN test = Fields
      BY <1>1, TopCell
<1>3. n \in Cells /\ n \in Reveals /\ n.step = "When" /\ n.prevented
      BY <1>1, <1>2, OtherCell
<1>4. stack' = <<n, SkillTestFrame>>
  <2> DEFINE s == <<Top, SkillTestFrame>>
             open == {k \in Coordinators(s) : s[k].step = "When"}
  <2>1. DOMAIN s = 1..2 /\ s[1] = Top /\ s[2] = SkillTestFrame /\ s \in Seq({Top, SkillTestFrame})
        OBVIOUS
  <2>2. Top.kind = "EmitEvent" /\ SkillTestFrame.kind # "EmitEvent"
        BY <1>2, KindsOf
  <2> HIDE DEF s
  <2>3. \A k \in 1..2 : k = 1 \/ k = 2
        OBVIOUS
  <2>4. Coordinators(s) = {1}
        BY <2>1, <2>2, <2>3 DEF Coordinators
  <2>5. open = {1}
        BY <1>1, <2>1, <2>4
  <2>6. Min({1}) = 1
        BY DEF Min
  <2>7. stack' = [s EXCEPT ![1].prevented = TRUE]
        BY <1>1, <1>2, <2>5, <2>6 DEF CancelCurrentImpact, s
  <2>8. stack' = [s EXCEPT ![1] = n]
        BY <2>1, <2>7
  <2> HIDE DEF n
  <2>9. [s EXCEPT ![1] = n] = <<n, SkillTestFrame>>
        BY <2>1 DEF s
  <2> QED BY <2>8, <2>9
<1> HIDE DEF n
<1>5. stack' = Beneath(n) /\ n \in Openings /\ n # SkillTestFrame /\ n # FastWindow /\ n # SubstitutionPrompt
      /\ n \notin Announcements /\ n \notin Evasions /\ Pending(n)
      BY <1>3, <1>4, Replaced, KindsOf DEF Pending
<1>6. test.resolved = None /\ test.step = "DetermineOutcome" /\ Pending(Top)
      BY <1>1, <1>2 DEF Placed, Pending
<1>7. test'.step = "Resolving" /\ Agree(test, test', {"step", "cancelled"})
      BY <1>1, <1>2 DEF Agree, Fields
<1>8. Named(test, test', {"step", "cancelled"}) /\ DOMAIN test' = Fields
      BY <1>7, Names1 DEF Agree
<1>9. TestTyped(test') /\ Named(test, test', {"step"})
      BY <1>2, <1>7, <1>8 DEF TestTyped, Named, Steps
<1>10. Follows(test, Top, test', n, FALSE)
  <2>1. Placed(test', n, FALSE)
        BY <1>3, <1>5, <1>6, <1>7, <1>9 DEF Placed, Named
  <2>2. ~Announced(test', n) /\ ~Announced(test, Top) /\ ~Settled(test', n) /\ ~Settled(test, Top)
        BY <1>2, <1>6, <1>7 DEF Announced, Settled, Told, Early
  <2>3. Named(test, test', Loosely)
        BY <1>9, FewerNamed DEF Loosely
  <2>4. test'.step \notin Told \cup {"AcknowledgeOutcome"} /\ test'.step \notin Opposing
        BY <1>7 DEF Told, Opposing
  <2> QED BY <1>6, <1>9, <2>1, <2>2, <2>3, <2>4 DEF Follows
<1>11. Control(test', n, FALSE, recorded_modifiers, foe)
      BY <1>2, <1>10, Onward
<1>12. Running(Beneath(n), test', recorded_modifiers, foe)
      BY <1>5, <1>11, FliesBare
<1> QED BY <1>1, <1>5, <1>12 DEF ControlInv, Rest

\* The row of a token, which nothing has recorded before.
LEMMA TokenCounts ==
    ASSUME NEW t, NEW open, NEW rows \in Seq(RowSet), Tallied(t, open, rows), ~Settled(t, open),
           NEW u, NEW after, u.id = t.id, Settled(u, after), u.revealed # None, ~Announced(u, after),
           NEW row \in RowSet, row.test = t.id
    PROVE  Tallied(u, after, Append(rows, row))
<1> DEFINE more == Append(rows, row)
<1>1. DOMAIN rows = 1..Len(rows) /\ DOMAIN more = 1..(Len(rows) + 1) /\ Len(rows) \in Nat
      /\ (\A k \in DOMAIN rows : more[k] = rows[k]) /\ more[Len(rows) + 1] = row
      BY LenProperties, AppendProperties
<1> HIDE DEF more
<1>2. \A k \in DOMAIN more : k \in DOMAIN rows \/ k = Len(rows) + 1
      BY <1>1
<1>3. \A k \in DOMAIN more : more[k].test = u.id
      BY <1>1, <1>2 DEF Tallied
<1>4. Says(rows, {"token", "AutomaticFailure"}) = {}
      BY DEF Tallied
<1>5. \A k \in Says(more, {"token", "AutomaticFailure"}) : k = Len(rows) + 1
      BY <1>1, <1>2, <1>4 DEF Says
<1>6. Tallied(u, after, more)
      BY <1>3, <1>5 DEF Tallied
<1> QED BY <1>6 DEF more

LEMMA ControlResolveReveal == ASSUME ControlInv, ResolveReveal PROVE ControlInv'
<1> DEFINE token == Top.event.token
           n == [Top EXCEPT !.step = StepAfter(Top.step)]
           immediate == CASE token = "tablet" -> <<Harm(test.investigator)>>
                          [] token = "elder sign" -> <<Effect("latch", test.investigator, None)>>
                          [] OTHER -> <<>>
           clause == IF test.weapon # None
               /\ token \in {"tablet", "autofail"} THEN <<Effect("mark", Taker, test.weapon)>> ELSE <<>>
           over == clause \o immediate
<1>1. /\ On("EmitEvent") /\ Top.event.kind = "ChaosTokenRevealed" /\ Top.step = "ResolveCondition" /\ ~Top.prevented
      /\ test' = [test EXCEPT !.revealed = token]
      /\ stack' = clause \o immediate \o AdvanceOrFinish(stack)
      /\ UNCHANGED <<investigators, foe, spent, Rest>>
      BY DEF ResolveReveal, Cell
<1>2. \E what \in {"AutomaticFailure", "token"},
      delta \in Int : recorded_modifiers' = Append(recorded_modifiers, Row(what, delta))
  <2>1. (CASE token = "autofail" -> Record("AutomaticFailure", 0)
           [] token = "elder sign" -> Record("token", 1)
           [] OTHER -> Record("token", -1))
    <3> HIDE DEF n, immediate, clause, over
    <3> QED BY DEF ResolveReveal
  <2> HIDE DEF token
  <2>2. Record("AutomaticFailure", 0) \/ Record("token", 1) \/ Record("token", -1)
        BY <2>1
  <2> QED BY <2>2 DEF Record
<1>3. /\ Top \in Cells /\ Top \in Reveals /\ Control(test, Top, FALSE, recorded_modifiers, foe)
         /\ Placed(test, Top, FALSE)
      /\ TestTyped(test) /\ DOMAIN test = Fields /\ recorded_modifiers \in Seq(RowSet) /\ InFlight
      BY <1>1, TopCell
<1>4. AdvanceOrFinish(stack) = Beneath(n)
      BY <1>1, Advanced
<1>5. n \in Cells /\ n \in Reveals /\ n.step = "At" /\ n.prevented = Top.prevented
      BY <1>1, <1>3, NextCell, CellSteps4
<1>6. token \in Bag /\ token # None
      BY <1>3, TestAssumption DEF Reveals, Emits
<1>7. immediate \in Seq(Effects) /\ clause \in Seq(Effects)
  <2>1. \A f \in Effects : <<f>> \in Seq(Effects)
        OBVIOUS
  <2>2. /\ Harm(test.investigator) \in Effects /\ Effect("latch", test.investigator, None) \in Effects
        /\ Effect("mark", Taker, test.weapon) \in Effects
        BY <1>3, TestAssumption, KindsOf DEF TestTyped, Effect, Effects, Doings
  <2>3. <<>> \in Seq(Effects)
        OBVIOUS
  <2> HIDE DEF token
  <2>4. clause \in Seq(Effects)
        BY <2>1, <2>2, <2>3
  <2>5. CASE token = "tablet"
        BY <2>1, <2>2, <2>4, <2>5
  <2>6. CASE token # "tablet" /\ token = "elder sign"
    <3>1. immediate = <<Effect("latch", test.investigator, None)>>
          BY <2>6
    <3> HIDE DEF immediate
    <3> QED BY <2>1, <2>2, <2>4, <3>1
  <2>7. CASE token # "tablet" /\ token # "elder sign"
    <3>1. immediate = <<>>
          BY <2>7
    <3> HIDE DEF immediate
    <3> QED BY <2>3, <2>4, <3>1
  <2> QED BY <2>4, <2>5, <2>6, <2>7
<1> HIDE DEF n, immediate, clause, token
<1>8. n \in Openings /\ n # SkillTestFrame /\ n # FastWindow /\ n # SubstitutionPrompt
      /\ n \notin Announcements /\ n \notin Evasions /\ ~Pending(n) /\ Pending(Top) /\ Top \notin Announcements
      BY <1>1, <1>3, <1>5, Replaced, KindsOf DEF Pending
<1>9. over \in Seq(Effects) /\ stack' = over \o Beneath(n)
      BY <1>1, <1>4, <1>7
<1> HIDE DEF over
<1>10. test.resolved = None /\ test.step = "DetermineOutcome"
      BY <1>1, <1>3 DEF Placed
<1>11. test'.revealed = token /\ Agree(test, test', {"revealed"})
      BY <1>1, <1>3 DEF Agree, Fields
<1>12. Named(test, test', {"revealed"}) /\ DOMAIN test' = Fields
      BY <1>11, Names1 DEF Agree
<1>13. TestTyped(test')
      BY <1>3, <1>6, <1>11, <1>12 DEF TestTyped, Named
<1>14. test'.resolved = None /\ test'.step = "DetermineOutcome" /\ test'.id = test.id /\ test'.told = test.told
      BY <1>10, <1>12 DEF Named
<1>15. /\ ~Announced(test', n) /\ ~Announced(test, Top) /\ ~Settled(test, Top) /\ Settled(test', n)
      BY <1>3, <1>8, <1>10, <1>14 DEF Announced, Settled, Told, Early
<1>16. Placed(test', n, over # <<>>)
      BY <1>1, <1>5, <1>8, <1>14 DEF Placed
<1>17. Decided(test', n)
      BY <1>3, <1>14, <1>15 DEF Decided, Control, Told
<1>18. recorded_modifiers' \in Seq(RowSet) /\ Tallied(test', n, recorded_modifiers')
  <2>1. PICK what \in {"AutomaticFailure", "token"},
        delta \in Int : recorded_modifiers' = Append(recorded_modifiers, Row(what, delta))
        BY <1>2
  <2>2. Row(what, delta) \in RowSet /\ Row(what, delta).test = test.id /\ recorded_modifiers' \in Seq(RowSet)
        BY <1>3, <2>1, NewRow DEF Whats, Latches
  <2>3. Tallied(test, Top, recorded_modifiers)
        BY <1>3 DEF Control
  <2> QED BY <1>3, <1>6, <1>11, <1>14, <1>15, <2>1, <2>2, <2>3, TokenCounts
<1>19. Opposed(test', foe)
      BY <1>14 DEF Opposed
<1>20. Control(test', n, over # <<>>, recorded_modifiers', foe)
      BY <1>13, <1>16, <1>17, <1>18, <1>19 DEF Control
<1>21. Running(over \o Beneath(n), test', recorded_modifiers', foe)
      BY <1>8, <1>9, <1>20, Flies
<1> QED BY <1>1, <1>9, <1>18, <1>21 DEF ControlInv, Rest

\* Something is recorded, or done to the enemy, while the stack stays as it is.
LEMMA Meanwhile ==
    ASSUME ControlInv, NEW open \in Openings, stack = Beneath(open), UNCHANGED <<stack, test, Rest>>,
           Control(test, open, FALSE, recorded_modifiers', foe'), recorded_modifiers' \in Seq(RowSet), foe' \in Foes
    PROVE  ControlInv'
<1>1. Running(Beneath(open), test, recorded_modifiers', foe')
      BY FliesBare
<1> QED BY <1>1 DEF ControlInv, Rest

LEMMA ControlPlayLucky == ASSUME ControlInv, PlayLucky PROVE ControlInv'
<1>1. /\ On("EmitEvent") /\ recorded_modifiers' = Append(recorded_modifiers, Row("modify", 2))
      /\ UNCHANGED <<stack, test, foe, spent, Rest>>
      BY DEF PlayLucky, Cell, Record
<1>2. /\ Top \in Cells /\ Control(test, Top, FALSE, recorded_modifiers, foe) /\ InFlight
      /\ stack = <<Top, SkillTestFrame>> /\ recorded_modifiers \in Seq(RowSet)
      BY <1>1, TopCell
<1>3. /\ Row("modify", 2) \in RowSet /\ Row("modify", 2).test = test.id /\ Row("modify", 2).what = "modify"
      /\ recorded_modifiers' \in Seq(RowSet)
      BY <1>1, <1>2, NewRow DEF Whats, Latches
<1>4. Control(test, Top, FALSE, recorded_modifiers', foe)
      BY <1>1, <1>2, <1>3, Recorded
<1>5. stack = Beneath(Top) /\ Top \in Openings
      BY <1>2, Replaced
<1> QED BY <1>1, <1>3, <1>4, <1>5, Meanwhile DEF ControlInv

LEMMA ControlAfterFailure == ASSUME ControlInv, AfterFailure PROVE ControlInv'
<1> DEFINE draw == Effect("draw", test.investigator, None)
           over == <<draw>>
<1>1. /\ On("EmitEvent") /\ Top.event.kind = "SkillTestResolved" /\ Top.step = "After" /\ ~Top.event.succeeded
      /\ stack' = over \o stack /\ UNCHANGED <<test, investigators, foe, recorded_modifiers, Rest>>
      BY DEF AfterFailure, Cell, Push
<1>2. /\ Top \in Cells /\ Top \in Announcements /\ Control(test, Top, FALSE, recorded_modifiers, foe)
         /\ Placed(test, Top, FALSE)
      /\ stack = <<Top, SkillTestFrame>> /\ TestTyped(test)
      BY <1>1, TopCell
<1>3. Top \notin Reveals /\ Top \notin Evasions
      BY <1>2, KindsOf
<1>4. stack = Beneath(Top) /\ Top \in Openings /\ Top # SkillTestFrame /\ Top # FastWindow /\ Top # SubstitutionPrompt
      BY <1>2, Replaced
<1>5. draw \in Effects
      BY <1>2, TestAssumption DEF TestTyped, Effect, Effects, Doings
<1> HIDE DEF draw
<1>6. over \in Seq(Effects) /\ (over # <<>>) = TRUE
      BY <1>5
<1>7. Placed(test, Top, TRUE)
      BY <1>1, <1>2, <1>3, <1>4 DEF Placed
<1>8. Control(test, Top, TRUE, recorded_modifiers, foe)
      BY <1>2, <1>7 DEF Control
<1> HIDE DEF over
<1>9. Running(over \o Beneath(Top), test, recorded_modifiers, foe)
      BY <1>4, <1>6, <1>8, Flies
<1> QED BY <1>1, <1>4, <1>9 DEF ControlInv, Rest

LEMMA ControlTrain == ASSUME ControlInv, Train PROVE ControlInv'
<1>1. PICK what \in Abilities, delta \in {0, 1} : recorded_modifiers' = Append(recorded_modifiers, Row(what, delta))
      BY DEF Train, Record
<1>2. On("FastWindow") /\ UNCHANGED <<stack, test, investigators, foe, Rest>>
      BY DEF Train
<1>3. /\ InFlight /\ stack = Beneath(FastWindow) /\ Control(test, FastWindow, FALSE, recorded_modifiers, foe)
      /\ FastWindow \in Openings /\ recorded_modifiers \in Seq(RowSet)
      BY <1>2, TopWindow DEF ControlInv
<1>4. what \in {"modify", "AutomaticSuccess"}
      BY TestAssumption
<1>5. /\ Row(what, delta) \in RowSet /\ Row(what, delta).test = test.id /\ Row(what, delta).what = what
      /\ recorded_modifiers' \in Seq(RowSet)
      BY <1>1, <1>3, <1>4, NewRow DEF Whats, Latches
<1>6. Control(test, FastWindow, FALSE, recorded_modifiers', foe)
      BY <1>1, <1>3, <1>4, <1>5, Recorded
<1> QED BY <1>2, <1>3, <1>5, <1>6, Meanwhile DEF ControlInv

LEMMA ControlSendDog == ASSUME ControlInv, SendDog PROVE ControlInv'
<1>1. On("FastWindow") /\ foe' = HitFoe(foe, 1) /\ UNCHANGED <<stack, test, recorded_modifiers, spent, Rest>>
      BY DEF SendDog
<1>2. /\ stack = Beneath(FastWindow) /\ Control(test, FastWindow, FALSE, recorded_modifiers, foe)
         /\ FastWindow \in Openings
      /\ test.step \in {"NextHelper", "Resolving"}
      BY <1>1, TopWindow
<1>3. foe' \in Foes
      BY <1>1, HitFoeTyped DEF ControlInv
<1>4. Opposed(test, foe')
      BY <1>2 DEF Opposed
<1>5. Control(test, FastWindow, FALSE, recorded_modifiers, foe')
      BY <1>2, <1>4 DEF Control
<1> QED BY <1>1, <1>2, <1>3, <1>5, Meanwhile DEF ControlInv

LEMMA ControlInit == Init => ControlInv
<1> SUFFICES ASSUME Init PROVE ControlInv
    OBVIOUS
<1>1. recorded_modifiers = <<>> /\ <<>> \in Seq(RowSet) /\ stack = <<>> /\ test = NoTest
      BY DEF Init
<1>2. foe \in Foes /\ actions_remaining \in 0..Actions /\ skill_test_ids \in Nat /\ rejected = FALSE
  <2>1. /\ foe \in [in_play : {TRUE}, health : FoeHealth, engaged : Investigators, exhausted : {FALSE}]
        /\ actions_remaining = Actions /\ skill_test_ids = 0 /\ rejected = FALSE
        BY DEF Init
  <2>2. FoeHealth \subseteq Nat /\ Actions \in Nat
        BY TestAssumption
  <2>3. foe \in Foes
        BY <2>1, <2>2 DEF Foes
  <2> QED BY <2>1, <2>2, <2>3
<1> QED BY <1>1, <1>2 DEF ControlInv, Running, Waiting

------------------------------------------------------------------------------
(* Where the cards are. *)

\* A step that moves no card.
LEMMA SameCards ==
    ASSUME CardInv, investigators' = investigators, Commitment(test') = Commitment(test)
    PROVE  CardInv'
BY DEF CardInv

Keeping(t, u) == u.id = t.id /\ u.committed = t.committed

LEMMA KeptCards ==
    ASSUME CardInv, investigators' = investigators, Keeping(test, test')
    PROVE  CardInv'
<1>1. Commitment(test') = Commitment(test)
      BY DEF Keeping, Commitment
<1> QED BY <1>1, SameCards

\* The seat of one investigator changes.
Changed(board, after, i) ==
    after \in [Investigators -> Seats] /\ \A j \in Investigators \ {i} : after[j] = board[j]

LEMMA Reseated ==
    ASSUME NEW board, NEW q, Accounted(board, q), NEW i \in Investigators, NEW after, Changed(board, after, i),
           NEW r \in Seq(Commits),
           \A j, k \in DOMAIN r : r[j].card = r[k].card => j = k,
           \A k \in DOMAIN r : r[k].committer = Owner[r[k].card],
           \A c \in Cards : Owner[c] # i => (Limbo(r, c) <=> Limbo(q, c)),
           \A c \in Cards : Owner[c] = i =>
               /\ OneOf(c \in after[i].hand, c \in after[i].deck, c \in after[i].discard, c \in after[i].in_play,
                        c \in after[i].removed, Limbo(r, c))
               /\ after[i].status # "Active" => c \in after[i].removed,
           \A c \in Cards : Somewhere(after, i, c) => Owner[c] = i
    PROVE  Accounted(after, r)
<1>1. ASSUME NEW c \in Cards
      PROVE  LET was == after[Owner[c]] IN
             /\ OneOf(c \in was.hand, c \in was.deck, c \in was.discard, c \in was.in_play, c \in was.removed,
                Limbo(r, c))
             /\ was.status # "Active" => c \in was.removed
  <2>1. CASE Owner[c] = i
        BY <2>1
  <2>2. CASE Owner[c] # i
    <3>1. Owner[c] \in Investigators \ {i}
          BY <2>2, TestAssumption
    <3>2. after[Owner[c]] = board[Owner[c]] /\ (Limbo(r, c) <=> Limbo(q, c))
          BY <2>2, <3>1 DEF Changed
    <3>3. LET was == board[Owner[c]] IN
          /\ OneOf(c \in was.hand, c \in was.deck, c \in was.discard, c \in was.in_play, c \in was.removed,
             Limbo(q, c))
          /\ was.status # "Active" => c \in was.removed
          BY DEF Accounted
    <3> QED BY <3>2, <3>3 DEF OneOf
  <2> QED BY <2>1, <2>2
<1>2. ASSUME NEW c \in Cards, NEW j \in Investigators, Somewhere(after, j, c) PROVE j = Owner[c]
  <2>1. CASE j = i
        BY <1>2, <2>1
  <2>2. CASE j # i
    <3>1. Somewhere(board, j, c)
          BY <1>2, <2>2 DEF Changed, Somewhere
    <3> QED BY <3>1 DEF Accounted
  <2> QED BY <2>1, <2>2
<1> QED BY <1>1, <1>2 DEF Accounted, Changed

\* The cards of one investigator change zones, and none is committed.
LEMMA Rezoned ==
    ASSUME CardInv, Commitment(test') = Commitment(test), NEW i \in Investigators,
           Changed(investigators, investigators', i),
           \A c \in Cards :
               LET was == investigators[i]
                   now == investigators'[i]
               IN  \A limbo \in BOOLEAN :
                       OneOf(c \in was.hand, c \in was.deck, c \in was.discard, c \in was.in_play,
                           c \in was.removed, limbo) =>
                       OneOf(c \in now.hand, c \in now.deck, c \in now.discard, c \in now.in_play,
                           c \in now.removed, limbo),
           \A c \in Cards : Somewhere(investigators', i, c) => Somewhere(investigators, i, c),
           investigators'[i].status = investigators[i].status, investigators'[i].removed = investigators[i].removed
    PROVE  CardInv'
<1> DEFINE q == Commitment(test)
<1>1. Accounted(investigators, q)
      BY DEF CardInv
<1> HIDE DEF q
<1>2. ASSUME NEW c \in Cards, Owner[c] = i
      PROVE  LET now == investigators'[i] IN
             /\ OneOf(c \in now.hand, c \in now.deck, c \in now.discard, c \in now.in_play, c \in now.removed,
                Limbo(q, c))
             /\ now.status # "Active" => c \in now.removed
  <2>1. LET was == investigators[i] IN
        /\ OneOf(c \in was.hand, c \in was.deck, c \in was.discard, c \in was.in_play, c \in was.removed, Limbo(q, c))
        /\ was.status # "Active" => c \in was.removed
        BY <1>1, <1>2 DEF Accounted
  <2>2. Limbo(q, c) \in BOOLEAN
        BY DEF Limbo
  <2> HIDE DEF Limbo
  <2> QED BY <2>1, <2>2
<1>3. \A c \in Cards : Somewhere(investigators', i, c) => Owner[c] = i
      BY <1>1 DEF Accounted
<1>4. /\ q \in Seq(Commits) /\ \A j, k \in DOMAIN q : q[j].card = q[k].card => j = k
      /\ \A k \in DOMAIN q : q[k].committer = Owner[q[k].card]
      BY <1>1 DEF Accounted
<1>5. Accounted(investigators', q)
      BY <1>1, <1>2, <1>3, <1>4, Reseated
<1> QED BY <1>5 DEF CardInv, q

\* A card goes from hand, or from play, to its owner's discard pile; and the harm on one changes.
LEMMA Seated ==
    ASSUME CardInv
    PROVE  /\ investigators \in [Investigators -> Seats]
           /\ \A i \in Investigators :
                 LET was == investigators[i] IN
                 /\ was \in Seats /\ was.hand \subseteq Cards /\ was.deck \subseteq Cards
                    /\ was.discard \subseteq Cards
                 /\ was.in_play \subseteq Cards /\ was.removed \subseteq Cards /\ was.harm \in Nat
<1>1. investigators \in [Investigators -> Seats]
      BY DEF CardInv, Accounted
<1>2. \A w \in Seats : /\ w.hand \subseteq Cards /\ w.deck \subseteq Cards /\ w.discard \subseteq Cards
                       /\ w.in_play \subseteq Cards /\ w.removed \subseteq Cards /\ w.harm \in Nat
      BY DEF Seats
<1> QED BY <1>1, <1>2

LEMMA Discards ==
    ASSUME CardInv, Commitment(test') = Commitment(test), NEW i \in Investigators, NEW c \in investigators[i].hand,
           investigators' = [investigators EXCEPT ![i].hand = @ \ {c}, ![i].discard = @ \cup {c}]
    PROVE  CardInv'
<1> DEFINE was == investigators[i]
           now == [was EXCEPT !.hand = @ \ {c}, !.discard = @ \cup {c}]
<1>1. investigators \in [Investigators -> Seats] /\ was \in Seats /\ was.hand \subseteq Cards
      BY Seated
<1>2. investigators' = [investigators EXCEPT ![i] = now]
      BY <1>1
<1> HIDE DEF was
<1>3. /\ now \in Seats /\ now.status = was.status /\ now.hand = was.hand \ {c} /\ now.deck = was.deck
      /\ now.discard = was.discard \cup {c} /\ now.in_play = was.in_play /\ now.removed = was.removed
      BY <1>1 DEF Seats, was
<1> HIDE DEF now
<1>4. Changed(investigators, investigators', i) /\ investigators'[i] = now
      BY <1>1, <1>2, <1>3 DEF Changed
<1>5. ASSUME NEW d \in Cards, NEW limbo \in BOOLEAN,
             OneOf(d \in was.hand, d \in was.deck, d \in was.discard, d \in was.in_play, d \in was.removed, limbo)
      PROVE  OneOf(d \in now.hand, d \in now.deck, d \in now.discard, d \in now.in_play, d \in now.removed, limbo)
      BY <1>3, <1>5 DEF OneOf, was
<1>6. \A d \in Cards : Somewhere(investigators', i, d) => Somewhere(investigators, i, d)
      BY <1>3, <1>4 DEF Somewhere, was
<1> QED BY <1>3, <1>4, <1>5, <1>6, Rezoned DEF was

LEMMA LeavesPlay ==
    ASSUME CardInv, Commitment(test') = Commitment(test), NEW i \in Investigators, NEW c \in investigators[i].in_play,
           investigators' = [investigators EXCEPT ![i].in_play = @ \ {c}, ![i].discard = @ \cup {c}]
    PROVE  CardInv'
<1> DEFINE was == investigators[i]
           now == [was EXCEPT !.in_play = @ \ {c}, !.discard = @ \cup {c}]
<1>1. investigators \in [Investigators -> Seats] /\ was \in Seats /\ was.in_play \subseteq Cards
      BY Seated
<1>2. investigators' = [investigators EXCEPT ![i] = now]
      BY <1>1
<1> HIDE DEF was
<1>3. /\ now \in Seats /\ now.status = was.status /\ now.in_play = was.in_play \ {c} /\ now.deck = was.deck
      /\ now.discard = was.discard \cup {c} /\ now.hand = was.hand /\ now.removed = was.removed
      BY <1>1 DEF Seats, was
<1> HIDE DEF now
<1>4. Changed(investigators, investigators', i) /\ investigators'[i] = now
      BY <1>1, <1>2, <1>3 DEF Changed
<1>5. ASSUME NEW d \in Cards, NEW limbo \in BOOLEAN,
             OneOf(d \in was.hand, d \in was.deck, d \in was.discard, d \in was.in_play, d \in was.removed, limbo)
      PROVE  OneOf(d \in now.hand, d \in now.deck, d \in now.discard, d \in now.in_play, d \in now.removed, limbo)
      BY <1>3, <1>5 DEF OneOf, was
<1>6. \A d \in Cards : Somewhere(investigators', i, d) => Somewhere(investigators, i, d)
      BY <1>3, <1>4 DEF Somewhere, was
<1> QED BY <1>3, <1>4, <1>5, <1>6, Rezoned DEF was

LEMMA Hurts ==
    ASSUME CardInv, Commitment(test') = Commitment(test), NEW i \in Investigators, NEW n \in Nat,
           investigators' = [investigators EXCEPT ![i].harm = n]
    PROVE  CardInv'
<1> DEFINE was == investigators[i]
           now == [was EXCEPT !.harm = n]
<1>1. investigators \in [Investigators -> Seats] /\ was \in Seats
      BY Seated
<1>2. investigators' = [investigators EXCEPT ![i] = now]
      BY <1>1
<1> HIDE DEF was
<1>3. /\ now \in Seats /\ now.status = was.status /\ now.in_play = was.in_play /\ now.deck = was.deck
      /\ now.discard = was.discard /\ now.hand = was.hand /\ now.removed = was.removed
      BY <1>1 DEF Seats
<1> HIDE DEF now
<1>4. Changed(investigators, investigators', i) /\ investigators'[i] = now
      BY <1>1, <1>2, <1>3 DEF Changed
<1>5. \A d \in Cards : Somewhere(investigators', i, d) => Somewhere(investigators, i, d)
      BY <1>3, <1>4 DEF Somewhere, was
<1> QED BY <1>3, <1>4, <1>5, Rezoned DEF was

\* The steps of the test, but for the commits and its end, move no card.
LEMMA SetsStep ==
    ASSUME ControlInv, NEW step, At(step), NEW to, To(to)
    PROVE  Keeping(test, test')
<1>1. DOMAIN test = Fields
      BY AtTest
<1> QED BY <1>1 DEF To, Keeping, Fields

LEMMA CardsPreCommitWindow == ASSUME IndInv, PreCommitWindow PROVE CardInv'
BY SetsStep, KeptCards DEF PreCommitWindow, Still, Board, IndInv

LEMMA CardsPreTokenWindow == ASSUME IndInv, PreTokenWindow PROVE CardInv'
BY SetsStep, KeptCards DEF PreTokenWindow, Still, Board, IndInv

LEMMA CardsSkipToken == ASSUME IndInv, SkipToken PROVE CardInv'
BY SetsStep, KeptCards DEF SkipToken, OnlyTest, Board, IndInv

LEMMA CardsRevealToken == ASSUME IndInv, RevealToken PROVE CardInv'
BY SetsStep, KeptCards DEF RevealToken, Still, Board, IndInv

LEMMA CardsDetermineOutcome == ASSUME IndInv, DetermineOutcome PROVE CardInv'
<1>1. DOMAIN test = Fields
      BY AtTest DEF DetermineOutcome, IndInv
<1>2. Keeping(test, test') /\ investigators' = investigators
      BY <1>1 DEF DetermineOutcome, Still, Board, Keeping, Fields
<1> QED BY <1>2, KeptCards DEF IndInv

LEMMA CardsAcknowledgeOutcome == ASSUME IndInv, AcknowledgeOutcome PROVE CardInv'
BY SetsStep, KeptCards DEF AcknowledgeOutcome, OnlyTest, Board, IndInv

LEMMA CardsApplyResultModifiers == ASSUME IndInv, ApplyResultModifiers PROVE CardInv'
<1>1. DOMAIN test = Fields
      BY AtTest DEF ApplyResultModifiers, IndInv
<1>2. Keeping(test, test') /\ investigators' = investigators
      BY <1>1 DEF ApplyResultModifiers, OnlyTest, Board, Keeping, Fields
<1> QED BY <1>2, KeptCards DEF IndInv

LEMMA CardsApplyFollowUp == ASSUME IndInv, ApplyFollowUp PROVE CardInv'
BY SetsStep, KeptCards DEF ApplyFollowUp, IndInv

LEMMA CardsCollectResults == ASSUME IndInv, CollectResults PROVE CardInv'
<1>1. DOMAIN test = Fields
      BY AtTest DEF CollectResults, IndInv
<1>2. Keeping(test, test') /\ investigators' = investigators
      BY <1>1 DEF CollectResults, OnlyTest, Board, Keeping, Fields
<1> QED BY <1>2, KeptCards DEF IndInv

LEMMA CardsAskTheOrder == ASSUME IndInv, AskTheOrder PROVE CardInv'
BY SetsStep, KeptCards DEF AskTheOrder, OnlyTest, Board, IndInv

LEMMA CardsNoResultLeft == ASSUME IndInv, NoResultLeft PROVE CardInv'
BY SetsStep, KeptCards DEF NoResultLeft, OnlyTest, Board, IndInv

LEMMA CardsPostRetaliate == ASSUME IndInv, PostRetaliate PROVE CardInv'
BY SetsStep, KeptCards DEF PostRetaliate, Still, Board, IndInv

LEMMA CardsNextHelper == ASSUME IndInv, NextHelper PROVE CardInv'
<1>1. DOMAIN test = Fields
      BY AtTest DEF NextHelper, IndInv
<1> DEFINE left == Helpers(test.helper)
<1>2. /\ test' = [test EXCEPT !.step = "AwaitingCommit", !.helper = None]
         \/ test' = [test EXCEPT !.step = "AwaitingHelperCommit", !.helper = Head(left)]
      /\ investigators' = investigators
      BY DEF NextHelper, OnlyTest, Board
<1> HIDE DEF left
<1>3. Keeping(test, test')
      BY <1>1, <1>2 DEF Keeping, Fields
<1> QED BY <1>2, <1>3, KeptCards DEF IndInv

LEMMA CardsApply ==
    ASSUME IndInv, NEW step, At(step), NEW result, Apply(result)
    PROVE  CardInv'
<1>1. DOMAIN test = Fields
      BY AtTest DEF IndInv
<1> DEFINE names == test.applied \o Names(result, Found(result))
<1>2. /\ test' = [test EXCEPT !.step = "ApplyResults", !.pending = test.pending \ {result}, !.applied = names]
      /\ investigators' = investigators
      BY DEF Apply, Still, Board
<1> HIDE DEF names
<1>3. Keeping(test, test')
      BY <1>1, <1>2 DEF Keeping, Fields
<1> QED BY <1>2, <1>3, KeptCards DEF IndInv

LEMMA CardsApplyTheOnlyResult == ASSUME IndInv, ApplyTheOnlyResult PROVE CardInv'
BY CardsApply DEF ApplyTheOnlyResult

LEMMA CardsPickResult == ASSUME IndInv, PickResult PROVE CardInv'
BY CardsApply DEF PickResult

LEMMA CardsChooseSubstitution == ASSUME IndInv, ChooseSubstitution PROVE CardInv'
<1>1. On("SubstitutionPrompt") /\ investigators' = investigators
      /\ test' \in {test, [test EXCEPT !.skill = "Intellect"]}
      BY DEF ChooseSubstitution, Board
<1>2. DOMAIN test = Fields
      BY <1>1, TopOpen DEF On, IndInv, Control, TestTyped
<1>3. Keeping(test, test')
      BY <1>1, <1>2 DEF Keeping, Fields
<1> QED BY <1>1, <1>3, KeptCards DEF IndInv

LEMMA CardsMarkWeapon == ASSUME IndInv, MarkWeapon PROVE CardInv'
<1>1. On("Effect") /\ Top.does = "mark" /\ investigators' = investigators
      /\ test' = [test EXCEPT !.discard_after = Top.card]
      BY DEF MarkWeapon, Board
<1>2. DOMAIN test = Fields
      BY <1>1, OverTest DEF IndInv, TestTyped
<1>3. Keeping(test, test')
      BY <1>1, <1>2 DEF Keeping, Fields
<1> QED BY <1>1, <1>3, KeptCards DEF IndInv

LEMMA CardsResolveReveal == ASSUME IndInv, ResolveReveal PROVE CardInv'
<1>1. On("EmitEvent") /\ investigators' = investigators /\ test' = [test EXCEPT !.revealed = Top.event.token]
      BY DEF ResolveReveal, Cell
<1>2. DOMAIN test = Fields
      BY <1>1, TopCell DEF IndInv
<1>3. Keeping(test, test')
      BY <1>1, <1>2 DEF Keeping, Fields
<1> QED BY <1>1, <1>3, KeptCards DEF IndInv

LEMMA CardsResolveVerdict == ASSUME IndInv, ResolveVerdict PROVE CardInv'
<1> DEFINE verdict == Verdict
           told == Append(test.told, verdict.succeeded)
<1>1. /\ On("EmitEvent") /\ investigators' = investigators
      /\ test' = [test EXCEPT !.resolved = verdict, !.step = "DetermineOutcome"]
         \/ test' = [test EXCEPT !.resolved = verdict, !.told = told]
      BY DEF ResolveVerdict, Cell, Still, Board
<1>2. DOMAIN test = Fields
      BY <1>1, TopCell DEF IndInv
<1> HIDE DEF verdict, told
<1>3. Keeping(test, test')
      BY <1>1, <1>2 DEF Keeping, Fields
<1> QED BY <1>1, <1>3, KeptCards DEF IndInv

\* Steps that leave the test as it is, and every card.
LEMMA CardsStill ==
    ASSUME IndInv,
           TakeInvestigate \/ Activate \/ NoEffect \/ Latch \/ CloseCell \/ Abandoned \/ ResolveEvasion
               \/ AfterFailure
           \/ Train \/ CloseWindow
    PROVE  CardInv'
<1>1. test' = test /\ investigators' = investigators
  <2> USE DEF Board
  <2>1. CASE TakeInvestigate
        BY <2>1 DEF TakeInvestigate, TakeProvoking
  <2>2. CASE Activate
        BY <2>2 DEF Activate, TakeProvoking
  <2>3. CASE NoEffect
        BY <2>3 DEF NoEffect
  <2>4. CASE Latch
        BY <2>4 DEF Latch
  <2>5. CASE CloseCell
        BY <2>5 DEF CloseCell
  <2>6. CASE Abandoned
        BY <2>6 DEF Abandoned
  <2>7. CASE ResolveEvasion
        BY <2>7 DEF ResolveEvasion
  <2>8. CASE AfterFailure
        BY <2>8 DEF AfterFailure
  <2>9. CASE Train
        BY <2>9 DEF Train
  <2>10. CASE CloseWindow
        BY <2>10 DEF CloseWindow
  <2> QED BY <2>1, <2>2, <2>3, <2>4, <2>5, <2>6, <2>7, <2>8, <2>9, <2>10
<1> QED BY <1>1, SameCards DEF IndInv

\* An effect is done to somebody seated.
LEMMA TopEffect ==
    ASSUME ControlInv, On("Effect")
    PROVE  Top \in Effects /\ Top.who \in Investigators
<1>1. stack # <<>> /\ Head(stack).kind = "Effect"
      BY DEF On, Top
<1>2. CASE InFlight
  <2>1. PICK over \in Seq(Effects), open \in Openings : stack = over \o Beneath(open)
        BY <1>2 DEF ControlInv, Running, InFlight, Flying
  <2>2. over # <<>>
        BY <1>1, <2>1, StackIs, KindsOf
  <2>3. Top \in Effects
        BY <2>1, <2>2, StackIs DEF Top
  <2> QED BY <2>3 DEF Effects
<1>3. CASE ~InFlight
  <2>1. Waiting(stack)
        BY <1>3 DEF ControlInv, Running, InFlight
  <2>2. Head(stack) = Harm(Taker)
        BY <1>1, <2>1, WaitingTops, KindsOf
  <2>3. Top \in Effects
        BY <2>2, KindsOf, TestAssumption DEF Top
  <2> QED BY <2>3 DEF Effects
<1> QED BY <1>2, <1>3

LEMMA CardsTakeHarm == ASSUME IndInv, TakeHarm PROVE CardInv'
<1> DEFINE i == Top.who
           n == investigators[i].harm + 1
<1>1. i \in Investigators
      BY TopEffect DEF TakeHarm, IndInv
<1>2. investigators' = [investigators EXCEPT ![i].harm = n] /\ test' = test
      BY DEF TakeHarm
<1> HIDE DEF i
<1>3. n \in Nat
      BY <1>1, Seated DEF IndInv
<1> HIDE DEF n
<1> QED BY <1>1, <1>2, <1>3, Hurts DEF IndInv

LEMMA CardsHeal == ASSUME IndInv, Heal PROVE CardInv'
<1> DEFINE i == Top.who
           n == IF investigators[i].harm > 0 THEN investigators[i].harm - 1 ELSE 0
<1>1. i \in Investigators
      BY TopEffect DEF Heal, IndInv
<1>2. investigators' = [investigators EXCEPT ![i].harm = n] /\ test' = test
      BY DEF Heal
<1> HIDE DEF i
<1>3. n \in Nat
      BY <1>1, Seated DEF IndInv
<1> HIDE DEF n
<1> QED BY <1>1, <1>2, <1>3, Hurts DEF IndInv

LEMMA CardsCancelToken == ASSUME IndInv, CancelToken PROVE CardInv'
<1>1. On("EmitEvent") /\ test' = [test EXCEPT !.step = "Resolving", !.cancelled = TRUE]
      BY DEF CancelToken, Cell
<1>2. PICK c \in investigators[test.investigator].hand :
          investigators' = [investigators EXCEPT ![test.investigator].hand = @ \ {c},
              ![test.investigator].discard = @ \cup {c}]
      BY DEF CancelToken
<1>3. DOMAIN test = Fields /\ test.investigator \in Investigators
      BY <1>1, TopCell, TestAssumption DEF IndInv, TestTyped
<1>4. Commitment(test') = Commitment(test)
      BY <1>1, <1>3 DEF Commitment, Fields
<1> QED BY <1>2, <1>3, <1>4, Discards DEF IndInv

LEMMA CardsPlayLucky == ASSUME IndInv, PlayLucky PROVE CardInv'
<1>1. On("EmitEvent") /\ test' = test
      BY DEF PlayLucky, Cell
<1>2. PICK c \in investigators[test.investigator].hand :
          investigators' = [investigators EXCEPT ![test.investigator].hand = @ \ {c},
              ![test.investigator].discard = @ \cup {c}]
      BY DEF PlayLucky
<1>3. test.investigator \in Investigators
      BY <1>1, TopCell, TestAssumption DEF IndInv, TestTyped
<1> QED BY <1>1, <1>2, <1>3, Discards DEF IndInv

LEMMA CardsSendDog == ASSUME IndInv, SendDog PROVE CardInv'
<1>1. PICK i \in Investigators :
          /\ Dog \in investigators[i].in_play
          /\ investigators' = [investigators EXCEPT ![i].in_play = @ \ {Dog}, ![i].discard = @ \cup {Dog}]
      BY DEF SendDog
<1>2. test' = test
      BY DEF SendDog
<1> QED BY <1>1, <1>2, LeavesPlay DEF IndInv

LEMMA CardsStart ==
    ASSUME IndInv, ~InFlight, InGame(Taker), NEW spec, NEW beneath, StartSkillTest(spec, beneath)
    PROVE  CardInv'
<1>1. test' = NewTest(spec) /\ investigators' = investigators /\ test = NoTest
      BY DEF StartSkillTest, InFlight
<1>2. Commitment(test) = <<>>
      BY <1>1 DEF Commitment, NoTest
<1>3. Commitment(test') = <<>>
      BY <1>1 DEF Commitment, NewTest
<1> QED BY <1>1, <1>2, <1>3, SameCards DEF IndInv

LEMMA CardsTakeFight == ASSUME IndInv, TakeFight PROVE CardInv'
<1>1. \E w : Take /\ StartSkillTest(TestSpec("Fight", w, None), <<>>)
      BY DEF TakeFight
<1> QED BY <1>1, Taken, CardsStart DEF IndInv

LEMMA CardsTakeEvade == ASSUME IndInv, TakeEvade PROVE CardInv'
BY Taken, CardsStart DEF TakeEvade, IndInv

LEMMA CardsResumeActionResolution == ASSUME IndInv, ResumeActionResolution PROVE CardInv'
<1>1. ~InFlight
      BY Grounded DEF ResumeActionResolution, IndInv
<1>2. CASE InGame(Taker)
      BY <1>1, <1>2, CardsStart DEF ResumeActionResolution
<1>3. CASE ~InGame(Taker)
  <2>1. test' = test /\ investigators' = investigators
        BY <1>3 DEF ResumeActionResolution, Board
  <2> QED BY <2>1, SameCards DEF IndInv
<1> QED BY <1>2, <1>3

LEMMA CardsReturnCard == ASSUME IndInv, ReturnCard PROVE CardInv'
<1> DEFINE p == test.committed
           q == [k \in DOMAIN p |->
                    IF p[k].card = Top.card /\ test.resolved.clear THEN [p[k] EXCEPT !.to = "hand"] ELSE p[k]]
<1>1. On("Effect") /\ Top.does = "return" /\ test' = [test EXCEPT !.committed = q] /\ investigators' = investigators
      BY DEF ReturnCard, Board
<1>2. InFlight /\ TestTyped(test)
      BY <1>1, OverTest DEF IndInv
<1>3. Commitment(test) = p /\ p \in Seq(Commits)
      BY <1>2, CommitsTyped DEF IndInv
<1>4. DOMAIN p = 1..Len(p) /\ Len(p) \in Nat /\ \A k \in DOMAIN p : p[k] \in Commits
      BY <1>3, LenProperties, ElementOfSeq
<1>5. \A e \in Commits : LET u == [e EXCEPT !.to = "hand"] IN u \in Commits /\ u.card = e.card
      /\ u.committer = e.committer
      BY DEF Commits
<1>6. DOMAIN q = DOMAIN p /\ \A k \in DOMAIN p : q[k] \in Commits /\ q[k].card = p[k].card
      /\ q[k].committer = p[k].committer
      BY <1>4, <1>5
<1>7. q \in Seq(Commits)
  <2> DEFINE n == Len(p)
  <2>1. q \in [1..n -> Commits] /\ n \in Nat
        BY <1>4, <1>6
  <2> HIDE DEF q, n
  <2> QED BY <2>1
<1> HIDE DEF q
<1>8. Commitment(test') = q
  <2>1. test'.committed = q /\ test'.id = test.id
        BY <1>1, <1>2 DEF TestTyped, Fields
  <2> QED BY <1>2, <2>1 DEF Commitment, TestTyped
<1>9. CardsIn(q) = CardsIn(p)
      BY <1>6 DEF CardsIn
<1>10. Limited(q)
  <2>1. Limited(p)
        BY <1>3 DEF IndInv, CardInv
  <2> QED BY <1>9, <2>1 DEF Limited
<1>11. Accounted(investigators, q)
  <2>1. Accounted(investigators, p)
        BY <1>3 DEF IndInv, CardInv
  <2>2. \A c : Limbo(q, c) <=> Limbo(p, c)
        BY <1>6 DEF Limbo
  <2>3. \A j, k \in DOMAIN q : q[j].card = q[k].card => j = k
        BY <1>6, <2>1 DEF Accounted
  <2>4. \A k \in DOMAIN q : q[k].committer = Owner[q[k].card]
        BY <1>6, <2>1 DEF Accounted
  <2> QED BY <1>7, <2>1, <2>2, <2>3, <2>4 DEF Accounted, OneOf
<1> QED BY <1>1, <1>8, <1>10, <1>11 DEF CardInv

LEMMA CardsDraw == ASSUME IndInv, Draw PROVE CardInv'
<1> DEFINE i == Top.who
           was == investigators[i]
           ran_out == was.deck = {}
           deck == IF ran_out THEN was.discard ELSE was.deck
           pile == IF ran_out THEN {} ELSE was.discard
<1>1. i \in Investigators
      BY TopEffect DEF Draw, IndInv
<1>2. /\ test' = test
      /\ \/ investigators' = investigators
         \/ \E c \in deck : investigators' = [investigators EXCEPT ![i].hand = was.hand \cup {c},
            ![i].deck = deck \ {c},
                                                                  ![i].discard = pile]
      BY DEF Draw
<1>3. investigators \in [Investigators -> Seats] /\ was \in Seats
      BY <1>1, Seated DEF IndInv
<1> HIDE DEF i
<1>4. CASE investigators' = investigators
      BY <1>2, <1>4, SameCards DEF IndInv
<1>5. ASSUME NEW c \in deck,
             investigators' = [investigators EXCEPT ![i].hand = was.hand \cup {c}, ![i].deck = deck \ {c},
                 ![i].discard = pile]
      PROVE  CardInv'
  <2> DEFINE now == [was EXCEPT !.hand = was.hand \cup {c}, !.deck = deck \ {c}, !.discard = pile]
  <2> HIDE DEF deck, pile
  <2>1. investigators' = [investigators EXCEPT ![i] = now]
        BY <1>1, <1>3, <1>5
  <2> HIDE DEF was
  <2>2. was.hand \subseteq Cards /\ deck \subseteq Cards /\ pile \subseteq Cards
        BY <1>3 DEF Seats, deck, pile
  <2>3. /\ now \in Seats /\ now.status = was.status /\ now.hand = was.hand \cup {c} /\ now.deck = deck \ {c}
        /\ now.discard = pile /\ now.in_play = was.in_play /\ now.removed = was.removed
        BY <1>3, <1>5, <2>2 DEF Seats
  <2> HIDE DEF now
  <2>4. Changed(investigators, investigators', i) /\ investigators'[i] = now
        BY <1>1, <1>3, <2>1, <2>3 DEF Changed
  <2>5. ASSUME NEW d \in Cards, NEW limbo \in BOOLEAN,
               OneOf(d \in was.hand, d \in was.deck, d \in was.discard, d \in was.in_play, d \in was.removed, limbo)
        PROVE  OneOf(d \in now.hand, d \in now.deck, d \in now.discard, d \in now.in_play, d \in now.removed, limbo)
    <3>1. CASE ran_out
          BY <1>5, <2>3, <2>5, <3>1 DEF OneOf, deck, pile
    <3>2. CASE ~ran_out
          BY <1>5, <2>3, <2>5, <3>2 DEF OneOf, deck, pile
    <3> QED BY <3>1, <3>2
  <2>6. \A d \in Cards : Somewhere(investigators', i, d) => Somewhere(investigators, i, d)
    <3>1. CASE ran_out
          BY <1>5, <2>3, <2>4, <3>1 DEF Somewhere, was, deck, pile
    <3>2. CASE ~ran_out
          BY <1>5, <2>3, <2>4, <3>2 DEF Somewhere, was, deck, pile
    <3> QED BY <3>1, <3>2
  <2> QED BY <1>1, <1>2, <2>3, <2>4, <2>5, <2>6, Rezoned DEF was, IndInv
<1> QED BY <1>2, <1>4, <1>5

------------------------------------------------------------------------------
(* Limbo: what is committed, taken back and sent on. *)

LEMMA Fewer ==
    ASSUME NEW q \in Seq(Commits), NEW r \in Seq(Commits), Limited(q), CardsIn(r) \subseteq CardsIn(q)
    PROVE  Limited(r)
<1>1. CardsIn(q) \subseteq Cards /\ IsFiniteSet(CardsIn(q))
  <2>1. \A k \in DOMAIN q : q[k] \in Commits
        BY LenProperties, ElementOfSeq
  <2>2. CardsIn(q) \subseteq Cards
        BY <2>1 DEF CardsIn, Commits
  <2> QED BY <2>2, TestAssumption, FS_Subset
<1> SUFFICES ASSUME NEW c \in CardsIn(r)
             PROVE  Cardinality(Titled(CardsIn(r), Title[c])) <= MaxPerTest[Title[c]]
    BY DEF Limited
<1> DEFINE A == Titled(CardsIn(r), Title[c])
           B == Titled(CardsIn(q), Title[c])
<1>2. A \subseteq B /\ B \subseteq CardsIn(q)
      BY DEF Titled
<1>3. IsFiniteSet(B)
      BY <1>1, <1>2, FS_Subset
<1>4. Cardinality(A) <= Cardinality(B) /\ Cardinality(A) \in Nat /\ Cardinality(B) \in Nat
      BY <1>2, <1>3, FS_Subset, FS_CardinalityType
<1>5. Cardinality(B) <= MaxPerTest[Title[c]] /\ MaxPerTest[Title[c]] \in Nat
      BY <1>1, TestAssumption DEF Limited
<1> HIDE DEF A, B
<1>6. Cardinality(A) <= MaxPerTest[Title[c]]
      BY <1>4, <1>5
<1> QED BY <1>6 DEF A

LEMMA CardsDefeated == ASSUME IndInv, Defeated PROVE CardInv'
<1> DEFINE i == Top.who
           q == Commitment(test)
           r == Commitment(test')
           was == investigators[i]
           now == Gone(i)
           limbo == {c \in CardsIn(q) : Owner[c] = i}
<1>1. i \in Investigators
      BY TopEffect DEF Defeated, IndInv
<1>2. investigators' = [investigators EXCEPT ![i] = now] /\ test' = TakeCommittedCards(i)
      BY DEF Defeated
<1>3. investigators \in [Investigators -> Seats] /\ was \in Seats /\ Accounted(investigators, q) /\ Limited(q)
      BY <1>1, Seated DEF IndInv, CardInv
<1>4. q \in Seq(Commits) /\ (InFlight => q = test.committed)
      BY CommitsTyped DEF IndInv
<1> HIDE DEF i
<1>5. /\ r \in Seq(Commits)
      /\ Elems(r) = Others(q, i)
      /\ \E place \in [DOMAIN r -> DOMAIN q] :
            /\ \A k \in DOMAIN r : r[k] = q[place[k]]
            /\ \A j, k \in DOMAIN r : j < k => place[j] < place[k]
  <2>1. CASE InFlight
    <3> DEFINE p == Among(q, Others(q, i))
    <3>1. Agree(test, test', {"committed"}) /\ test'.committed = p
          BY <1>2, <1>4, <2>1, Taking DEF IndInv
    <3>2. TestTyped(test)
          BY <2>1, FlyingTest DEF IndInv
    <3>3. r = p
          BY <3>1, <3>2 DEF Commitment, Agree, Fields, TestTyped
    <3> HIDE DEF r, q
    <3>4. r = Among(q, Others(q, i))
          BY <3>3
    <3> QED BY <1>4, <3>4, Kept
  <2>2. CASE ~InFlight
    <3>1. test' = NoTest /\ test = NoTest
          BY <1>2, <2>2, Taking DEF IndInv
    <3>2. r = <<>> /\ q = <<>>
          BY <3>1 DEF Commitment, NoTest
    <3> HIDE DEF r, q
    <3>3. Elems(<<>>) = {} /\ DOMAIN <<>> = {}
          BY DEF Elems
    <3>4. r \in Seq(Commits)
          BY <1>4, <3>2
    <3>5. [k \in {} |-> k] \in [DOMAIN r -> DOMAIN q]
          BY <3>2, <3>3
    <3>6. Elems(r) = Others(q, i)
          BY <3>2, <3>3 DEF Others
    <3> QED BY <3>2, <3>3, <3>4, <3>5, <3>6
  <2> QED BY <2>1, <2>2
<1> HIDE DEF r
<1>6. PICK place \in [DOMAIN r -> DOMAIN q] :
          /\ \A k \in DOMAIN r : r[k] = q[place[k]]
          /\ \A j, k \in DOMAIN r : j < k => place[j] < place[k]
      BY <1>5
<1>7. DOMAIN r = 1..Len(r) /\ Len(r) \in Nat /\ DOMAIN q = 1..Len(q) /\ Len(q) \in Nat
      BY <1>4, <1>5, LenProperties
<1>8. /\ \A j, k \in DOMAIN q : q[j].card = q[k].card => j = k
      /\ \A k \in DOMAIN q : q[k].committer = Owner[q[k].card]
      BY <1>3 DEF Accounted
<1>9. \A j, k \in DOMAIN r : r[j].card = r[k].card => j = k
  <2> TAKE j, k \in DOMAIN r
  <2> HAVE r[j].card = r[k].card
  <2>1. place[j] = place[k] /\ place[j] \in Nat /\ place[k] \in Nat
        BY <1>6, <1>7, <1>8
  <2>2. j \in Nat /\ k \in Nat
        BY <1>7
  <2>3. ~(j < k) /\ ~(k < j)
        BY <1>6, <2>1
  <2> QED BY <2>2, <2>3
<1>10. \A k \in DOMAIN r : r[k].committer = Owner[r[k].card]
      BY <1>6, <1>8
<1>11. ASSUME NEW c PROVE Limbo(r, c) <=> Limbo(q, c) /\ Owner[c] # i
  <2>1. Limbo(r, c) <=> \E e \in Elems(r) : e.card = c
        BY DEF Limbo, Elems
  <2>2. Limbo(q, c) <=> \E e \in Elems(q) : e.card = c
        BY DEF Limbo, Elems
  <2>3. \A e \in Elems(q) : e.committer = Owner[e.card]
        BY <1>8 DEF Elems
  <2> HIDE DEF q
  <2> QED BY <1>5, <2>1, <2>2, <2>3 DEF Others
<1>12. Gone(i) = [status |-> "Out", harm |-> was.harm, health |-> was.health, hand |-> {}, deck |-> {},
       discard |-> {},
                 in_play |-> {}, removed |-> was.removed \cup was.hand \cup was.deck \cup was.discard \cup was.in_play \cup limbo]
  <2>1. CASE InFlight
    <3>1. Committed = CardsIn(q)
          BY <1>4, <2>1 DEF Committed, CardsIn
    <3> HIDE DEF q
    <3> QED BY <2>1, <3>1 DEF Gone
  <2>2. CASE ~InFlight
    <3>1. q = <<>>
          BY <2>2 DEF InFlight, Commitment, NoTest
    <3>2. CardsIn(q) = {}
          BY <3>1 DEF CardsIn
    <3> HIDE DEF q
    <3>3. limbo = {}
          BY <3>2
    <3> HIDE DEF limbo
    <3> QED BY <2>2, <3>3 DEF Gone
  <2> QED BY <2>1, <2>2
<1>13. \A c : c \in CardsIn(q) <=> Limbo(q, c)
      BY DEF CardsIn, Limbo
<1>14. limbo \subseteq Cards
  <2>1. \A k \in DOMAIN q : q[k] \in Commits
        BY <1>4, LenProperties, ElementOfSeq
  <2> HIDE DEF q
  <2> QED BY <2>1 DEF CardsIn, Commits
<1> HIDE DEF q, limbo, was
<1>15. /\ now \in Seats /\ now.hand = {} /\ now.deck = {} /\ now.discard = {} /\ now.in_play = {}
       /\ now.removed = was.removed \cup was.hand \cup was.deck \cup was.discard \cup was.in_play \cup limbo
       /\ now.status = "Out"
      BY <1>3, <1>12, <1>14 DEF Seats
<1> HIDE DEF now
<1>16. Changed(investigators, investigators', i) /\ investigators'[i] = now
      BY <1>1, <1>2, <1>3, <1>15 DEF Changed
<1>17. ASSUME NEW c \in Cards, Owner[c] = i
       PROVE  /\ OneOf(c \in now.hand, c \in now.deck, c \in now.discard, c \in now.in_play, c \in now.removed,
                 Limbo(r, c))
              /\ c \in now.removed
  <2>1. OneOf(c \in was.hand, c \in was.deck, c \in was.discard, c \in was.in_play, c \in was.removed, Limbo(q, c))
        BY <1>3, <1>17 DEF Accounted, was
  <2>2. c \in limbo <=> Limbo(q, c)
        BY <1>13, <1>17 DEF limbo
  <2>3. c \in now.removed
        BY <1>15, <2>1, <2>2 DEF OneOf
  <2> QED BY <1>11, <1>15, <1>17, <2>3 DEF OneOf
<1>18. ASSUME NEW c \in Cards, Somewhere(investigators', i, c) PROVE Owner[c] = i
  <2>1. c \in was.hand \cup was.deck \cup was.discard \cup was.in_play \cup was.removed \/ c \in limbo
        BY <1>15, <1>16, <1>18 DEF Somewhere
  <2>2. c \in was.hand \cup was.deck \cup was.discard \cup was.in_play \cup was.removed
        => Somewhere(investigators, i, c)
        BY DEF Somewhere, was
  <2>3. Somewhere(investigators, i, c) => Owner[c] = i
        BY <1>1, <1>3 DEF Accounted
  <2> QED BY <2>1, <2>2, <2>3 DEF limbo
<1>19. Accounted(investigators', r)
      BY <1>1, <1>3, <1>5, <1>9, <1>10, <1>11, <1>16, <1>17, <1>18, Reseated
<1>20. CardsIn(r) \subseteq CardsIn(q)
      BY <1>6 DEF CardsIn
<1>21. Limited(r)
      BY <1>3, <1>4, <1>5, <1>20, Fewer
<1> QED BY <1>19, <1>21 DEF CardInv, r

LEMMA FiniteCards ==
    ASSUME NEW S \in SUBSET Cards
    PROVE  IsFiniteSet(S) /\ Cardinality(S) \in Nat
<1>1. IsFiniteSet(S)
      BY TestAssumption, FS_Subset
<1> QED BY <1>1, FS_CardinalityType

LEMMA CommittedCards ==
    ASSUME NEW q \in Seq(Commits)
    PROVE  CardsIn(q) \in SUBSET Cards
<1>1. \A k \in DOMAIN q : q[k] \in Commits
      BY LenProperties, ElementOfSeq
<1> QED BY <1>1 DEF CardsIn, Commits

\* Everybody's commits together keep to the limit of each title.
LEMMA StaysLimited ==
    ASSUME ControlInv, InFlight, Limited(test.committed), NEW S \in SUBSET Cards, WithinLimits(S),
           NEW r \in Seq(Commits),
           CardsIn(r) = CardsIn(test.committed) \cup S
    PROVE  Limited(r)
<1> DEFINE Q == CardsIn(test.committed)
<1>1. test.committed \in Seq(Commits) /\ Q \in SUBSET Cards
      BY FlyingTest, CommittedCards DEF TestTyped
<1>2. \A t : Allowance(t) = MaxPerTest[t] - Cardinality(Titled(Q, t))
      BY DEF Allowance, Titled, Committed, CardsIn
<1>3. \A c \in S : Cardinality(Titled(S, Title[c])) <= Allowance(Title[c])
      BY DEF WithinLimits, Titled
<1>4. \A c \in Q : Cardinality(Titled(Q, Title[c])) <= MaxPerTest[Title[c]]
      BY DEF Limited
<1> HIDE DEF Q
<1> SUFFICES ASSUME NEW c \in Q \cup S
             PROVE  Cardinality(Titled(Q \cup S, Title[c])) <= MaxPerTest[Title[c]]
    BY DEF Limited, Q
<1> DEFINE t == Title[c]
           A == Titled(Q, t)
           B == Titled(S, t)
<1>5. Titled(Q \cup S, t) = A \cup B /\ A \in SUBSET Cards /\ B \in SUBSET Cards
      BY <1>1 DEF Titled
<1>6. MaxPerTest[t] \in Nat
      BY <1>1, TestAssumption
<1>7. CASE B = {}
  <2>1. c \in Q
        BY <1>7 DEF Titled
  <2>2. A \cup B = A
        BY <1>7
  <2> HIDE DEF A, B
  <2> QED BY <1>4, <1>5, <2>1, <2>2 DEF A
<1>8. CASE B # {}
  <2>1. PICK d \in S : Title[d] = t
        BY <1>8 DEF Titled
  <2>2. Cardinality(B) <= MaxPerTest[t] - Cardinality(A)
    <3>1. Cardinality(Titled(S, Title[d])) <= Allowance(Title[d])
          BY <1>3
    <3> HIDE DEF t
    <3> QED BY <1>2, <2>1, <3>1
  <2> HIDE DEF A, B, t
  <2>3. /\ IsFiniteSet(A) /\ IsFiniteSet(B) /\ Cardinality(A) \in Nat /\ Cardinality(B) \in Nat
        /\ A \cap B \in SUBSET Cards
        BY <1>5, FiniteCards
  <2>4. Cardinality(A \cap B) \in Nat
        BY <2>3, FiniteCards
  <2>5. Cardinality(A \cup B) = Cardinality(A) + Cardinality(B) - Cardinality(A \cap B)
        BY <2>3, FS_Union
  <2>6. Cardinality(A \cup B) <= MaxPerTest[t]
        BY <1>6, <2>2, <2>3, <2>4, <2>5
  <2> QED BY <1>5, <2>6 DEF t
<1> QED BY <1>7, <1>8

LEMMA CardsCommit ==
    ASSUME IndInv, NEW from, NEW to, At(from), NEW i \in Investigators, NEW S \in SUBSET CommitCandidates(i),
           WithinLimits(S),
           Commit(i, S, to)
    PROVE  CardInv'
<1> DEFINE q == test.committed
           r == With(q, S, i)
           was == investigators[i]
           now == [was EXCEPT !.hand = was.hand \ S]
<1>1. TestTyped(test) /\ DOMAIN test = Fields /\ InFlight
      BY AtTest DEF IndInv
<1>2. q \in Seq(Commits) /\ Commitment(test) = q /\ S \in SUBSET Cards /\ S \subseteq was.hand
      BY <1>1, CommitsTyped, Committing DEF IndInv
<1>3. /\ r \in Seq(Commits) /\ CardsIn(r) = CardsIn(q) \cup S
      /\ \A k \in DOMAIN r : (\E j \in DOMAIN q : r[k] = q[j]) \/ (r[k].card \in S /\ r[k].committer = i)
      /\ (\A j, k \in DOMAIN q : q[j].card = q[k].card => j = k) /\ CardsIn(q) \cap S = {}
         => \A j, k \in DOMAIN r : r[j].card = r[k].card => j = k
      BY <1>2, WithIs
<1>4. test' = [test EXCEPT !.step = to, !.committed = r] /\ investigators' = [investigators EXCEPT ![i].hand = @ \ S]
      BY DEF Commit, Adding, With
<1> HIDE DEF r
<1>5. Commitment(test') = r
  <2>1. test'.committed = r /\ test'.id = test.id
        BY <1>1, <1>4 DEF Fields
  <2> QED BY <1>1, <2>1 DEF Commitment, TestTyped
<1>6. investigators \in [Investigators -> Seats] /\ was \in Seats /\ Accounted(investigators, q) /\ Limited(q)
      BY <1>2, Seated DEF IndInv, CardInv
<1>7. investigators' = [investigators EXCEPT ![i] = now]
      BY <1>4, <1>6
<1> HIDE DEF q, was
<1>8. /\ now \in Seats /\ now.hand = was.hand \ S /\ now.deck = was.deck /\ now.discard = was.discard
      /\ now.in_play = was.in_play /\ now.removed = was.removed /\ now.status = was.status
      BY <1>6 DEF Seats
<1> HIDE DEF now
<1>9. Changed(investigators, investigators', i) /\ investigators'[i] = now
      BY <1>6, <1>7, <1>8 DEF Changed
<1>10. \A c : (c \in CardsIn(q) <=> Limbo(q, c)) /\ (c \in CardsIn(r) <=> Limbo(r, c))
      BY DEF CardsIn, Limbo
<1>11. \A c : Limbo(r, c) <=> Limbo(q, c) \/ c \in S
      BY <1>3, <1>10
<1>12. \A c \in S : Owner[c] = i
  <2>1. \A c \in S : Somewhere(investigators, i, c)
        BY <1>2 DEF Somewhere, was
  <2> QED BY <1>2, <1>6, <2>1 DEF Accounted
<1>13. \A c \in S : ~Limbo(q, c)
  <2>1. ASSUME NEW c \in S PROVE ~Limbo(q, c)
    <3>1. OneOf(c \in was.hand, c \in was.deck, c \in was.discard, c \in was.in_play, c \in was.removed, Limbo(q, c))
          BY <1>2, <1>6, <1>12 DEF Accounted, was
    <3> QED BY <1>2, <3>1 DEF OneOf
  <2> QED BY <2>1
<1>14. \A j, k \in DOMAIN r : r[j].card = r[k].card => j = k
  <2>1. CardsIn(q) \cap S = {}
        BY <1>10, <1>13
  <2> QED BY <1>3, <1>6, <2>1 DEF Accounted
<1>15. \A k \in DOMAIN r : r[k].committer = Owner[r[k].card]
      BY <1>3, <1>6, <1>12 DEF Accounted
<1>16. \A c \in Cards : Owner[c] # i => (Limbo(r, c) <=> Limbo(q, c))
      BY <1>11, <1>12
<1>17. ASSUME NEW c \in Cards, Owner[c] = i
       PROVE  /\ OneOf(c \in now.hand, c \in now.deck, c \in now.discard, c \in now.in_play, c \in now.removed,
                 Limbo(r, c))
              /\ now.status # "Active" => c \in now.removed
  <2>1. /\ OneOf(c \in was.hand, c \in was.deck, c \in was.discard, c \in was.in_play, c \in was.removed, Limbo(q, c))
        /\ was.status # "Active" => c \in was.removed
        BY <1>6, <1>17 DEF Accounted, was
  <2> QED BY <1>2, <1>8, <1>11, <2>1 DEF OneOf
<1>18. \A c \in Cards : Somewhere(investigators', i, c) => Owner[c] = i
  <2>1. \A c \in Cards : Somewhere(investigators', i, c) => Somewhere(investigators, i, c)
        BY <1>8, <1>9 DEF Somewhere, was
  <2> QED BY <1>6, <2>1 DEF Accounted
<1>19. Accounted(investigators', r)
      BY <1>3, <1>6, <1>9, <1>14, <1>15, <1>16, <1>17, <1>18, Reseated
<1>20. Limited(r)
      BY <1>1, <1>2, <1>3, <1>6, StaysLimited DEF q, IndInv
<1> QED BY <1>5, <1>19, <1>20 DEF CardInv

LEMMA CardsHelperCommits == ASSUME IndInv, HelperCommits PROVE CardInv'
<1>1. At("AwaitingHelperCommit")
      BY DEF HelperCommits
<1>2. PICK S \in SUBSET CommitCandidates(test.helper) : WithinLimits(S) /\ Commit(test.helper, S, "NextHelper")
      BY DEF HelperCommits
<1>3. test.helper \in Investigators
      BY <1>1, AtTest DEF IndInv, TestTyped
<1> QED BY <1>1, <1>2, <1>3, CardsCommit

LEMMA CardsPerformerCommits == ASSUME IndInv, PerformerCommits PROVE CardInv'
<1>1. At("AwaitingCommit")
      BY DEF PerformerCommits
<1>2. PICK S \in SUBSET CommitCandidates(test.investigator) : WithinLimits(S)
      /\ Commit(test.investigator, S, "PreTokenWindow")
      BY DEF PerformerCommits
<1>3. test.investigator \in Investigators
      BY <1>1, AtTest, TestAssumption DEF IndInv, TestTyped
<1> QED BY <1>1, <1>2, <1>3, CardsCommit

\* What is committed goes on, each card to one place of its committer's.
LEMMA SendingOn ==
    ASSUME NEW q \in Seq(Commits), test.committed = q,
           \A j, k \in DOMAIN q : q[j].card = q[k].card => j = k,
           \A k \in DOMAIN q : q[k].committer = Owner[q[k].card]
    PROVE  /\ \A i, c : c \in SentOn(i, "hand") => Limbo(q, c) /\ c \in Cards /\ Owner[c] = i
              /\ c \notin SentOn(i, "discard")
           /\ \A i, c : c \in SentOn(i, "discard") => Limbo(q, c) /\ c \in Cards /\ Owner[c] = i
           /\ \A c : Limbo(q, c) => c \in SentOn(Owner[c], "hand") \cup SentOn(Owner[c], "discard")
<1>1. \A k \in DOMAIN q : q[k] \in Commits
      BY LenProperties, ElementOfSeq
<1>2. \A k \in DOMAIN q : q[k].card \in Cards /\ q[k].to \in {"hand", "discard"}
      BY <1>1 DEF Commits
<1>3. \A i, c, where : c \in SentOn(i, where) <=> \E k \in DOMAIN q : q[k].committer = i /\ q[k].to = where
      /\ q[k].card = c
      BY DEF SentOn
<1> QED BY <1>2, <1>3 DEF Limbo

LEMMA CardsTearDown ==
    ASSUME IndInv, On("SkillTest"), NEW marked, TearDown(marked)
    PROVE  CardInv'
<1> DEFINE q == test.committed
           kept(i) == IF marked THEN investigators[i].in_play \cap {test.discard_after} ELSE {}
           now(i) == [investigators[i] EXCEPT !.hand = @ \cup SentOn(i, "hand"),
                                              !.discard = @ \cup SentOn(i, "discard") \cup kept(i),
                                              !.in_play = @ \ kept(i)]
<1>1. InFlight /\ q \in Seq(Commits) /\ Commitment(test) = q
      BY TopTest, CommitsTyped DEF IndInv
<1>2. investigators' = [i \in Investigators |-> now(i)] /\ test' = NoTest
      BY DEF TearDown, SendsOn
<1>3. Accounted(investigators, q)
      BY <1>1 DEF IndInv, CardInv
<1>4. /\ \A i, c : c \in SentOn(i, "hand") => Limbo(q, c) /\ c \in Cards /\ Owner[c] = i
         /\ c \notin SentOn(i, "discard")
      /\ \A i, c : c \in SentOn(i, "discard") => Limbo(q, c) /\ c \in Cards /\ Owner[c] = i
      /\ \A c : Limbo(q, c) => c \in SentOn(Owner[c], "hand") \cup SentOn(Owner[c], "discard")
      BY <1>1, <1>3, SendingOn DEF Accounted
<1>5. Commitment(test') = <<>>
      BY <1>2 DEF Commitment, NoTest
<1>6. \A i \in Investigators : kept(i) \subseteq investigators[i].in_play
      OBVIOUS
<1> HIDE DEF q, kept
<1>7. ASSUME NEW i \in Investigators
      PROVE  LET was == investigators[i] IN
             /\ now(i) \in Seats /\ now(i).status = was.status /\ now(i).deck = was.deck
                /\ now(i).removed = was.removed
             /\ now(i).hand = was.hand \cup SentOn(i, "hand")
             /\ now(i).discard = was.discard \cup SentOn(i, "discard") \cup kept(i)
             /\ now(i).in_play = was.in_play \ kept(i)
  <2> DEFINE was == investigators[i]
             h == SentOn(i, "hand")
             d == SentOn(i, "discard")
             m == kept(i)
  <2>1. was \in Seats /\ h \subseteq Cards /\ d \subseteq Cards /\ m \subseteq was.in_play
        BY <1>3, <1>4, <1>6 DEF Accounted
  <2> HIDE DEF was, h, d, m
  <2>2. LET w == [was EXCEPT !.hand = @ \cup h, !.discard = @ \cup d \cup m, !.in_play = @ \ m] IN
        /\ w \in Seats /\ w.status = was.status /\ w.deck = was.deck /\ w.removed = was.removed
        /\ w.hand = was.hand \cup h /\ w.discard = was.discard \cup d \cup m /\ w.in_play = was.in_play \ m
        BY <2>1 DEF Seats
  <2> QED BY <2>2 DEF was, h, d, m
<1>8. investigators' \in [Investigators -> Seats] /\ \A i \in Investigators : investigators'[i] = now(i)
      BY <1>2, <1>7
<1> HIDE DEF now
<1>9. ASSUME NEW c \in Cards
      PROVE  LET w == investigators'[Owner[c]] IN
             /\ OneOf(c \in w.hand, c \in w.deck, c \in w.discard, c \in w.in_play, c \in w.removed, FALSE)
             /\ w.status # "Active" => c \in w.removed
  <2> DEFINE i == Owner[c]
             was == investigators[i]
             w == investigators'[i]
             h == SentOn(i, "hand")
             d == SentOn(i, "discard")
             m == kept(i)
  <2>1. i \in Investigators
        BY TestAssumption
  <2>2. /\ OneOf(c \in was.hand, c \in was.deck, c \in was.discard, c \in was.in_play, c \in was.removed, Limbo(q, c))
        /\ was.status # "Active" => c \in was.removed
        BY <1>3 DEF Accounted
  <2>3. /\ w.status = was.status /\ w.deck = was.deck /\ w.removed = was.removed /\ w.hand = was.hand \cup h
        /\ w.discard = was.discard \cup d \cup m /\ w.in_play = was.in_play \ m /\ m \subseteq was.in_play
        BY <1>6, <1>7, <1>8, <2>1
  <2>4. (c \in h => Limbo(q, c) /\ c \notin d) /\ (c \in d => Limbo(q, c)) /\ (Limbo(q, c) => c \in h \/ c \in d)
        BY <1>4
  <2> HIDE DEF was, w, h, d, m
  <2>5. OneOf(c \in w.hand, c \in w.deck, c \in w.discard, c \in w.in_play, c \in w.removed, FALSE)
        BY <2>2, <2>3, <2>4 DEF OneOf
  <2> QED BY <2>2, <2>3, <2>5 DEF w
<1>10. ASSUME NEW c \in Cards, NEW j \in Investigators, Somewhere(investigators', j, c) PROVE j = Owner[c]
  <2>1. Somewhere(investigators, j, c) \/ c \in SentOn(j, "hand") \/ c \in SentOn(j, "discard")
        BY <1>6, <1>7, <1>8, <1>10 DEF Somewhere
  <2> QED BY <1>3, <1>4, <2>1 DEF Accounted
<1>11. Accounted(investigators', <<>>)
  <2>1. \A c : Limbo(<<>>, c) = FALSE
        BY DEF Limbo
  <2>2. <<>> \in Seq(Commits) /\ DOMAIN <<>> = {}
        OBVIOUS
  <2> QED BY <1>8, <1>9, <1>10, <2>1, <2>2 DEF Accounted
<1>12. Limited(<<>>)
      BY DEF Limited, CardsIn
<1> QED BY <1>5, <1>11, <1>12 DEF CardInv

LEMMA CardsPerformerEliminated == ASSUME IndInv, PerformerEliminated PROVE CardInv'
BY CardsTearDown DEF PerformerEliminated

LEMMA CardsTargetLeavesPlay == ASSUME IndInv, TargetLeavesPlay PROVE CardInv'
BY CardsTearDown DEF TargetLeavesPlay

LEMMA CardsPostOnResolution == ASSUME IndInv, PostOnResolution PROVE CardInv'
BY CardsTearDown DEF PostOnResolution, At

LEMMA CardsInit == Init => CardInv
<1> SUFFICES ASSUME Init PROVE CardInv
    OBVIOUS
<1>1. investigators \in Hands /\ test = NoTest
      BY DEF Init
<1>2. Commitment(test) = <<>>
      BY <1>1 DEF Commitment, NoTest
<1>3. /\ investigators \in [Investigators -> Seats]
      /\ \A i \in Investigators : investigators[i].status = "Active"
      /\ \A c \in Cards : \A j \in Investigators \ {Owner[c]} : \A z \in 1..5 : ~Holding(investigators, j, c)[z]
      /\ \A c \in Cards : \E z \in 1..5 : \A y \in 1..5 : Holding(investigators, Owner[c], c)[y] <=> y = z
      BY <1>1, HandsAssumption
<1>4. \A i, c : LET was == investigators[i] IN
                /\ Holding(investigators, i, c)[1] <=> c \in was.hand
                /\ Holding(investigators, i, c)[2] <=> c \in was.deck
                /\ Holding(investigators, i, c)[3] <=> c \in was.discard
                /\ Holding(investigators, i, c)[4] <=> c \in was.in_play
                /\ Holding(investigators, i, c)[5] <=> c \in was.removed
      BY DEF Holding
<1> HIDE DEF Holding
<1>5. 1 \in 1..5 /\ 2 \in 1..5 /\ 3 \in 1..5 /\ 4 \in 1..5 /\ 5 \in 1..5
      OBVIOUS
<1>6. ASSUME NEW c \in Cards
      PROVE  LET was == investigators[Owner[c]] IN
             /\ OneOf(c \in was.hand, c \in was.deck, c \in was.discard, c \in was.in_play, c \in was.removed, FALSE)
             /\ was.status # "Active" => c \in was.removed
  <2>1. Owner[c] \in Investigators
        BY TestAssumption
  <2>2. PICK z \in 1..5 : \A y \in 1..5 : Holding(investigators, Owner[c], c)[y] <=> y = z
        BY <1>3
  <2>3. /\ Holding(investigators, Owner[c], c)[1] <=> 1 = z
        /\ Holding(investigators, Owner[c], c)[2] <=> 2 = z
        /\ Holding(investigators, Owner[c], c)[3] <=> 3 = z
        /\ Holding(investigators, Owner[c], c)[4] <=> 4 = z
        /\ Holding(investigators, Owner[c], c)[5] <=> 5 = z
        BY <1>5, <2>2
  <2>4. z = 1 \/ z = 2 \/ z = 3 \/ z = 4 \/ z = 5
        OBVIOUS
  <2>5. investigators[Owner[c]].status = "Active"
        BY <1>3, <2>1
  <2> QED BY <1>4, <2>3, <2>4, <2>5 DEF OneOf
<1>7. ASSUME NEW c \in Cards, NEW j \in Investigators, Somewhere(investigators, j, c) PROVE j = Owner[c]
      BY <1>3, <1>4, <1>5, <1>7 DEF Somewhere
<1>8. Accounted(investigators, <<>>)
  <2>1. \A c : Limbo(<<>>, c) = FALSE
        BY DEF Limbo
  <2>2. <<>> \in Seq(Commits) /\ DOMAIN <<>> = {}
        OBVIOUS
  <2> QED BY <1>3, <1>6, <1>7, <2>1, <2>2 DEF Accounted
<1>9. Limited(<<>>)
      BY DEF Limited, CardsIn
<1> QED BY <1>2, <1>8, <1>9 DEF CardInv

------------------------------------------------------------------------------
(* The invariant holds throughout, and says what the properties ask. *)

LEMMA Inductive == IndInv /\ [Next]_vars => IndInv'
<1> SUFFICES ASSUME IndInv, [Next]_vars PROVE IndInv'
    OBVIOUS
<1>1. CASE UNCHANGED vars
  <2>1. /\ stack' = stack /\ test' = test /\ investigators' = investigators /\ foe' = foe /\ rejected' = rejected
        /\ recorded_modifiers' = recorded_modifiers /\ actions_remaining' = actions_remaining
        /\ skill_test_ids' = skill_test_ids
        BY <1>1 DEF vars
  <2>2. ControlInv'
        BY <2>1 DEF IndInv, ControlInv
  <2>3. CardInv'
        BY <2>1 DEF IndInv, CardInv
  <2> QED BY <2>2, <2>3 DEF IndInv
<1>2. CASE Next
  <2>1. ControlInv /\ CardInv
        BY DEF IndInv
  <2>2. CASE TakeFight \/ TakeEvade \/ TakeInvestigate \/ Activate \/ ResumeActionResolution \/ ChooseSubstitution
             \/ PerformerEliminated \/ TargetLeavesPlay \/ PreCommitWindow \/ NextHelper \/ HelperCommits
             \/ PerformerCommits
        BY <2>1, <2>2, ControlTakeFight, CardsTakeFight, ControlTakeEvade, CardsTakeEvade, ControlTakeInvestigate,
           ControlActivate, CardsStill, ControlResumeActionResolution, CardsResumeActionResolution,
           ControlChooseSubstitution, CardsChooseSubstitution, ControlPerformerEliminated, CardsPerformerEliminated,
           ControlTargetLeavesPlay, CardsTargetLeavesPlay, ControlPreCommitWindow, CardsPreCommitWindow,
           ControlNextHelper, CardsNextHelper, ControlHelperCommits, CardsHelperCommits, ControlPerformerCommits,
           CardsPerformerCommits DEF IndInv
  <2>3. CASE PreTokenWindow \/ SkipToken \/ RevealToken \/ DetermineOutcome \/ AcknowledgeOutcome
             \/ ApplyResultModifiers \/ ApplyFollowUp \/ CollectResults \/ ApplyTheOnlyResult \/ AskTheOrder
             \/ PickResult \/ NoResultLeft \/ PostRetaliate \/ PostOnResolution
        BY <2>1, <2>3, ControlPreTokenWindow, CardsPreTokenWindow, ControlSkipToken, CardsSkipToken,
           ControlRevealToken, CardsRevealToken, ControlDetermineOutcome, CardsDetermineOutcome,
           ControlAcknowledgeOutcome, CardsAcknowledgeOutcome, ControlApplyResultModifiers,
           CardsApplyResultModifiers, ControlApplyFollowUp, CardsApplyFollowUp, ControlCollectResults,
           CardsCollectResults, ControlApplyTheOnlyResult, CardsApplyTheOnlyResult, ControlAskTheOrder,
           CardsAskTheOrder, ControlPickResult, CardsPickResult, ControlNoResultLeft, CardsNoResultLeft,
           ControlPostRetaliate, CardsPostRetaliate, ControlPostOnResolution, CardsPostOnResolution DEF IndInv
  <2>4. CASE CloseCell \/ Abandoned \/ ResolveReveal \/ ResolveVerdict \/ ResolveEvasion \/ CancelToken \/ PlayLucky
             \/ AfterFailure \/ Train \/ SendDog \/ CloseWindow
        BY <2>1, <2>4, ControlCloseCell, ControlAbandoned, ControlResolveReveal, CardsResolveReveal,
           ControlResolveVerdict, CardsResolveVerdict, ControlResolveEvasion, ControlCancelToken, CardsCancelToken,
           ControlPlayLucky, CardsPlayLucky, ControlAfterFailure, ControlTrain, ControlSendDog, CardsSendDog,
           ControlCloseWindow, CardsStill DEF IndInv
  <2>5. CASE TakeHarm \/ Defeated \/ Draw \/ Heal \/ ReturnCard \/ MarkWeapon \/ Latch \/ NoEffect
        BY <2>1, <2>5, ControlTakeHarm, CardsTakeHarm, ControlDefeated, CardsDefeated, ControlDraw, CardsDraw,
           ControlHeal, CardsHeal, ControlReturnCard, CardsReturnCard, ControlMarkWeapon, CardsMarkWeapon,
           ControlLatch, ControlNoEffect, CardsStill DEF IndInv
  <2> QED BY <1>2, <2>2, <2>3, <2>4, <2>5 DEF Next
<1> QED BY <1>1, <1>2

LEMMA AlwaysIndInv == Spec => []IndInv
<1>1. Init => IndInv
      BY ControlInit, CardsInit DEF IndInv
<1> QED BY <1>1, Inductive, PTL DEF Spec

LEMMA CommitmentIs ==
    ASSUME ControlInv
    PROVE  /\ InFlight => Commitment(test) = test.committed /\ Committed = CardsIn(test.committed)
           /\ ~InFlight => Commitment(test) = <<>>
<1>1. InFlight => test.id # 0
      BY FlyingTest DEF TestTyped
<1>2. ~InFlight => test.id = 0
      BY IdApart DEF InFlight
<1> QED BY <1>1, <1>2 DEF Commitment, Committed, CardsIn

\* One place of six: a position of five, or the sixth.
LEMMA PlaceOf ==
    ASSUME NEW h, NEW f \in BOOLEAN, OneOf(h[1], h[2], h[3], h[4], h[5], f)
    PROVE  /\ f => {z \in 1..5 : h[z]} = {}
           /\ ~f => \E z \in 1..5 : {y \in 1..5 : h[y]} = {z}
<1> DEFINE held == {z \in 1..5 : h[z]}
<1>2. \A z \in 1..5 : z = 1 \/ z = 2 \/ z = 3 \/ z = 4 \/ z = 5
      OBVIOUS
<1>3. f => held = {}
  <2>1. f => ~h[1] /\ ~h[2] /\ ~h[3] /\ ~h[4] /\ ~h[5]
        BY Zenon DEF OneOf
  <2> QED BY <1>2, <2>1
<1>4. ASSUME ~f PROVE \E z \in 1..5 : held = {z}
  <2>1. \/ h[1] /\ ~h[2] /\ ~h[3] /\ ~h[4] /\ ~h[5]
        \/ ~h[1] /\ h[2] /\ ~h[3] /\ ~h[4] /\ ~h[5]
        \/ ~h[1] /\ ~h[2] /\ h[3] /\ ~h[4] /\ ~h[5]
        \/ ~h[1] /\ ~h[2] /\ ~h[3] /\ h[4] /\ ~h[5]
        \/ ~h[1] /\ ~h[2] /\ ~h[3] /\ ~h[4] /\ h[5]
        BY <1>4, Zenon DEF OneOf
  <2>2. CASE h[1] /\ ~h[2] /\ ~h[3] /\ ~h[4] /\ ~h[5]
    <3>1. held = {1}
          BY <1>2, <2>2
    <3> QED BY <3>1
  <2>3. CASE ~h[1] /\ h[2] /\ ~h[3] /\ ~h[4] /\ ~h[5]
    <3>1. held = {2}
          BY <1>2, <2>3
    <3> QED BY <3>1
  <2>4. CASE ~h[1] /\ ~h[2] /\ h[3] /\ ~h[4] /\ ~h[5]
    <3>1. held = {3}
          BY <1>2, <2>4
    <3> QED BY <3>1
  <2>5. CASE ~h[1] /\ ~h[2] /\ ~h[3] /\ h[4] /\ ~h[5]
    <3>1. held = {4}
          BY <1>2, <2>5
    <3> QED BY <3>1
  <2>6. CASE ~h[1] /\ ~h[2] /\ ~h[3] /\ ~h[4] /\ h[5]
    <3>1. held = {5}
          BY <1>2, <2>6
    <3> QED BY <3>1
  <2> QED BY <2>1, <2>2, <2>3, <2>4, <2>5, <2>6
<1> QED BY <1>3, <1>4

LEMMA EveryCardAccounted ==
    ASSUME IndInv
    PROVE  CardsAccounted
<1> DEFINE q == Commitment(test)
<1>1. /\ Accounted(investigators, q)
      /\ InFlight => q = test.committed
      /\ ~InFlight => q = <<>>
      BY CommitmentIs DEF IndInv, CardInv
<1> HIDE DEF q
<1> SUFFICES ASSUME NEW c \in Cards
             PROVE  LET i == Owner[c]
                        limbo == IF InFlight THEN {k \in DOMAIN test.committed : test.committed[k].card = c} ELSE {}
                        held == {z \in 1..5 : Holding(investigators, i, c)[z]}
                    IN  /\ Cardinality(held) + Cardinality(limbo) = 1
                        /\ \A k \in limbo : test.committed[k].committer = i
                        /\ \A j \in Investigators \ {i} : \A z \in 1..5 : ~Holding(investigators, j, c)[z]
                        /\ ~InGame(i) => c \in investigators[i].removed
    BY DEF CardsAccounted
<1> DEFINE i == Owner[c]
           limbo == IF InFlight THEN {k \in DOMAIN test.committed : test.committed[k].card = c} ELSE {}
           held == {z \in 1..5 : Holding(investigators, i, c)[z]}
           was == investigators[i]
<1>2. limbo = {k \in DOMAIN q : q[k].card = c}
      BY <1>1
<1>3. /\ OneOf(c \in was.hand, c \in was.deck, c \in was.discard, c \in was.in_play, c \in was.removed, Limbo(q, c))
      /\ \A j \in Investigators : Somewhere(investigators, j, c) => j = i
      /\ was.status # "Active" => c \in was.removed
      BY <1>1 DEF Accounted
<1>4. /\ Limbo(q, c) => held = {}
      /\ ~Limbo(q, c) => \E z \in 1..5 : held = {z}
  <2> DEFINE h == Holding(investigators, i, c)
             l == Limbo(q, c)
  <2>1. /\ h[1] <=> c \in was.hand
        /\ h[2] <=> c \in was.deck
        /\ h[3] <=> c \in was.discard
        /\ h[4] <=> c \in was.in_play
        /\ h[5] <=> c \in was.removed
        BY DEF Holding
  <2>2. l \in BOOLEAN
        BY DEF Limbo
  <2> HIDE DEF h, l, was
  <2>3. OneOf(h[1], h[2], h[3], h[4], h[5], l)
        BY <1>3, <2>1, Zenon DEF OneOf, l
  <2>4. /\ l => {z \in 1..5 : h[z]} = {}
        /\ ~l => \E z \in 1..5 : {y \in 1..5 : h[y]} = {z}
        BY <2>2, <2>3, PlaceOf
  <2> QED BY <2>4 DEF h, l
<1>5. /\ Limbo(q, c) => \E k \in DOMAIN q : limbo = {k}
      /\ ~Limbo(q, c) => limbo = {}
      BY <1>1, <1>2 DEF Limbo, Accounted
<1>6. Cardinality(held) + Cardinality(limbo) = 1
  <2> HIDE DEF held, limbo
  <2>1. Cardinality({}) = 0 /\ \A x : Cardinality({x}) = 1
        BY FS_EmptySet, FS_Singleton
  <2>2. CASE Limbo(q, c)
    <3>1. PICK k : limbo = {k}
          BY <1>5, <2>2
    <3>2. Cardinality(held) = 0 /\ Cardinality(limbo) = 1
          BY <1>4, <2>1, <2>2, <3>1, Zenon
    <3> QED BY <3>2
  <2>3. CASE ~Limbo(q, c)
    <3>1. PICK z : held = {z}
          BY <1>4, <2>3
    <3>2. Cardinality(held) = 1 /\ Cardinality(limbo) = 0
          BY <1>5, <2>1, <2>3, <3>1, Zenon
    <3> QED BY <3>2
  <2> QED BY <2>2, <2>3
<1>7. \A k \in limbo : test.committed[k].committer = i
      BY <1>1 DEF Accounted
<1>8. \A j \in Investigators \ {i} : \A z \in 1..5 : ~Holding(investigators, j, c)[z]
  <2> SUFFICES ASSUME NEW j \in Investigators \ {i}, NEW z \in 1..5
               PROVE  ~Holding(investigators, j, c)[z]
      OBVIOUS
  <2> DEFINE theirs == investigators[j]
  <2>1. ~Somewhere(investigators, j, c)
        BY <1>3
  <2>2. /\ c \notin theirs.hand /\ c \notin theirs.deck /\ c \notin theirs.discard /\ c \notin theirs.in_play
        /\ c \notin theirs.removed
        BY <2>1 DEF Somewhere
  <2>3. /\ Holding(investigators, j, c)[1] <=> c \in theirs.hand
        /\ Holding(investigators, j, c)[2] <=> c \in theirs.deck
        /\ Holding(investigators, j, c)[3] <=> c \in theirs.discard
        /\ Holding(investigators, j, c)[4] <=> c \in theirs.in_play
        /\ Holding(investigators, j, c)[5] <=> c \in theirs.removed
        BY DEF Holding
  <2>4. z = 1 \/ z = 2 \/ z = 3 \/ z = 4 \/ z = 5
        OBVIOUS
  <2> QED BY <2>2, <2>3, <2>4
<1>9. ~InGame(i) => c \in investigators[i].removed
      BY <1>3 DEF InGame
<1> HIDE DEF limbo, held
<1>10. /\ Cardinality(held) + Cardinality(limbo) = 1
       /\ \A k \in limbo : test.committed[k].committer = i
       /\ \A j \in Investigators \ {i} : \A z \in 1..5 : ~Holding(investigators, j, c)[z]
       /\ ~InGame(i) => c \in investigators[i].removed
       BY <1>6, <1>7, <1>8, <1>9
<1> QED BY <1>10 DEF limbo, held

\* The test's frame is the last of the stack, and the only one there is.
LEMMA OneTestFrame ==
    ASSUME NEW over \in Seq(Effects), NEW open \in Openings
    PROVE  LET s == over \o Beneath(open) IN {k \in DOMAIN s : s[k].kind = "SkillTest"} = {Len(s)}
<1> DEFINE b == Beneath(open)
           s == over \o b
<1>1. /\ b \in Seq(Openings) /\ b # <<>>
      /\ \A k \in 1..Len(b) : b[k].kind = "SkillTest" <=> k = Len(b)
  <2>1. CASE open = SkillTestFrame
    <3>1. b = <<SkillTestFrame>>
          BY <2>1 DEF Beneath
    <3>2. Len(b) = 1 /\ b[1] = SkillTestFrame
          BY <3>1
    <3>3. SkillTestFrame.kind = "SkillTest"
          BY KindsOf
    <3>4. b \in Seq(Openings) /\ b # <<>>
          BY BeneathIs
    <3>5. \A k \in 1..1 : k = 1
          OBVIOUS
    <3> HIDE DEF b
    <3> QED BY <3>2, <3>3, <3>4, <3>5
  <2>2. CASE open # SkillTestFrame
    <3>1. b = <<open, SkillTestFrame>>
          BY <2>2 DEF Beneath
    <3>2. Len(b) = 2 /\ b[1] = open /\ b[2] = SkillTestFrame
          BY <3>1
    <3>3. SkillTestFrame.kind = "SkillTest" /\ open.kind # "SkillTest"
          BY <2>2, KindsOf
    <3>4. \A k \in 1..2 : k = 1 \/ k = 2
          OBVIOUS
    <3>5. b \in Seq(Openings) /\ b # <<>>
          BY BeneathIs
    <3> HIDE DEF b
    <3> QED BY <3>2, <3>3, <3>4, <3>5
  <2> QED BY <2>1, <2>2
<1>2. /\ over \in Seq(Frames) /\ b \in Seq(Frames)
      BY <1>1, SeqMonotonic DEF Frames
<1> HIDE DEF b
<1>3. /\ Len(over) \in Nat /\ Len(b) \in Nat /\ Len(b) # 0
      /\ DOMAIN s = 1..(Len(over) + Len(b)) /\ Len(s) = Len(over) + Len(b)
      /\ \A k \in 1..(Len(over) + Len(b)) : s[k] = IF k <= Len(over) THEN over[k] ELSE b[k - Len(over)]
      BY <1>1, <1>2
<1>4. \A k \in 1..Len(over) : over[k].kind # "SkillTest"
  <2>1. \A k \in 1..Len(over) : over[k] \in Effects
        OBVIOUS
  <2> QED BY <2>1, KindsOf
<1> HIDE DEF s
<1>5. ASSUME NEW k \in DOMAIN s PROVE s[k].kind = "SkillTest" <=> k = Len(s)
  <2>1. CASE k <= Len(over)
    <3>1. k \in 1..Len(over) /\ s[k] = over[k] /\ k # Len(s)
          BY <1>3, <2>1
    <3> QED BY <1>4, <3>1
  <2>2. CASE ~(k <= Len(over))
    <3> DEFINE n == Len(over)
               m == Len(b)
    <3>1. k - n \in 1..m /\ s[k] = b[k - n] /\ (k - n = m <=> k = Len(s))
      <4>1. n \in Nat /\ m \in Nat /\ k \in 1..(n + m) /\ Len(s) = n + m /\ ~(k <= n)
            BY <1>3, <2>2
      <4>2. s[k] = b[k - n]
            BY <1>3, <2>2, <4>1
      <4> HIDE DEF n, m
      <4> QED BY <4>1, <4>2
    <3> QED BY <1>1, <3>1
  <2> QED BY <2>1, <2>2
<1>6. Len(s) \in DOMAIN s
      BY <1>3
<1>7. {k \in DOMAIN s : s[k].kind = "SkillTest"} = {Len(s)}
      BY <1>5, <1>6
<1> QED BY <1>7 DEF s, b

LEMMA FramesOfTests ==
    ASSUME ControlInv
    PROVE  Cardinality({k \in DOMAIN stack : stack[k].kind = "SkillTest"}) = IF InFlight THEN 1 ELSE 0
<1> DEFINE found == {k \in DOMAIN stack : stack[k].kind = "SkillTest"}
<1>1. CASE InFlight
  <2>1. PICK over \in Seq(Effects), open \in Openings : stack = over \o Beneath(open)
        BY <1>1 DEF ControlInv, Running, Flying, InFlight
  <2>2. found = {Len(stack)}
        BY <2>1, OneTestFrame
  <2> HIDE DEF found
  <2>3. Cardinality(found) = 1
        BY <2>2, FS_Singleton
  <2> QED BY <1>1, <2>3 DEF found
<1>2. CASE ~InFlight
  <2>1. Waiting(stack)
        BY <1>2 DEF ControlInv, Running, InFlight
  <2>2. /\ \A spec : ActionResolution(spec).kind = "ActionResolution"
        /\ Harm(Taker).kind = "Effect"
        BY KindsOf, TestAssumption
  <2>3. found = {}
    <3>1. CASE stack = <<>>
          BY <3>1
    <3>2. ASSUME NEW spec \in Parkings, stack = <<ActionResolution(spec)>>
          PROVE  found = {}
      <4>1. DOMAIN stack = {1} /\ stack[1] = ActionResolution(spec)
            BY <3>2
      <4> QED BY <2>2, <4>1
    <3>3. ASSUME NEW spec \in Parkings, stack = <<Harm(Taker), ActionResolution(spec)>>
          PROVE  found = {}
      <4>1. DOMAIN stack = 1..2 /\ stack[1] = Harm(Taker) /\ stack[2] = ActionResolution(spec)
            BY <3>3
      <4>2. \A k \in 1..2 : k = 1 \/ k = 2
            OBVIOUS
      <4> QED BY <2>2, <4>1, <4>2
    <3> QED BY <2>1, <3>1, <3>2, <3>3 DEF Waiting
  <2> HIDE DEF found
  <2> QED BY <1>2, <2>3, FS_EmptySet DEF found
<1> QED BY <1>1, <1>2

LEMMA Sound == IndInv => TestSound
<1> SUFFICES ASSUME IndInv PROVE TestSound
    OBVIOUS
<1>1. ControlInv /\ CardInv
      BY DEF IndInv
<1>2. TypeOK
  <2>1. \A i \in Investigators : investigators[i].status \in {"Active", "Out"}
        BY <1>1 DEF CardInv, Accounted, Seats
  <2>2. foe.engaged \in Investigators \cup {None} /\ actions_remaining \in 0..Actions
        BY <1>1 DEF ControlInv, Foes
  <2>3. InFlight => test.step \in Steps /\ test.skill \in Skills /\ test.kind \in Kinds
        BY <1>1, FlyingTest DEF TestTyped
  <2> QED BY <2>1, <2>2, <2>3 DEF TypeOK
<1>3. CardsAccounted
      BY EveryCardAccounted
<1>4. Cardinality({k \in DOMAIN stack : stack[k].kind = "SkillTest"}) = IF InFlight THEN 1 ELSE 0
      BY <1>1, FramesOfTests
<1>5. \A k \in DOMAIN recorded_modifiers : InFlight /\ recorded_modifiers[k].test = test.id
  <2>1. ~InFlight => DOMAIN recorded_modifiers = {}
    <3>1. ~InFlight => recorded_modifiers = <<>>
          BY <1>1 DEF ControlInv, Running, InFlight
    <3> QED BY <3>1
  <2> QED BY <1>1, <2>1, FlyingTest
<1>6. ASSUME InFlight, NEW c \in Committed PROVE Allowance(Title[c]) >= 0
  <2> DEFINE Q == CardsIn(test.committed)
  <2>1. Committed = Q /\ Commitment(test) = test.committed /\ test.committed \in Seq(Commits)
        BY <1>1, <1>6, CommitmentIs, CommitsTyped
  <2>2. c \in Cards /\ Q \in SUBSET Cards
        BY <1>6, <2>1, CommittedCards
  <2>3. Cardinality(Titled(Q, Title[c])) <= MaxPerTest[Title[c]]
        BY <1>1, <1>6, <2>1 DEF CardInv, Limited
  <2>4. Titled(Q, Title[c]) \in SUBSET Cards
        BY <2>2 DEF Titled
  <2>5. Cardinality(Titled(Q, Title[c])) \in Nat /\ MaxPerTest[Title[c]] \in Nat
        BY <2>2, <2>4, FiniteCards, TestAssumption
  <2>6. Allowance(Title[c]) = MaxPerTest[Title[c]] - Cardinality(Titled(Q, Title[c]))
        BY <2>1 DEF Allowance, Titled
  <2> QED BY <2>3, <2>5, <2>6
<1>7. ~rejected
      BY <1>1 DEF ControlInv
<1> QED BY <1>2, <1>3, <1>4, <1>5, <1>6, <1>7 DEF TestSound

LEMMA ToldOnce == IndInv => OneVerdict
<1> SUFFICES ASSUME IndInv, InFlight PROVE OneVerdict
    BY DEF OneVerdict
<1>1. ControlInv
      BY DEF IndInv
<1>2. PICK open \in Openings, busy \in BOOLEAN : Control(test, open, busy, recorded_modifiers, foe)
  <2>1. PICK over \in Seq(Effects), open \in Openings : Control(test, open, over # <<>>, recorded_modifiers, foe)
        BY <1>1 DEF ControlInv, Running, Flying, InFlight
  <2> DEFINE busy == over # <<>>
  <2>2. busy \in BOOLEAN /\ Control(test, open, busy, recorded_modifiers, foe)
        BY <2>1
  <2> HIDE DEF busy
  <2> QED BY <2>2
<1>3. Placed(test, open, busy) /\ Decided(test, open) /\ Tallied(test, open, recorded_modifiers)
      BY <1>2 DEF Control
<1>4. Len(test.told) <= 1
  <2> DEFINE said == test.resolved.succeeded
  <2>1. test.told = <<>> \/ test.told = <<said>>
        BY <1>3 DEF Decided
  <2> HIDE DEF said
  <2>2. Len(<<said>>) = 1 /\ Len(<<>>) = 0
        OBVIOUS
  <2> DEFINE n == Len(test.told)
  <2>3. n = 0 \/ n = 1
        BY <2>1, <2>2, Zenon
  <2> HIDE DEF n
  <2>4. n <= 1
        BY <2>3
  <2> QED BY <2>4 DEF n
<1>5. Cardinality({k \in DOMAIN recorded_modifiers : recorded_modifiers[k].what \in {"token",
      "AutomaticFailure"}}) <= 1
  <2> DEFINE tokens == Says(recorded_modifiers, {"token", "AutomaticFailure"})
  <2>1. \A j, k \in tokens : j = k
        BY <1>3 DEF Tallied
  <2> HIDE DEF tokens
  <2>2. Cardinality(tokens) = 0 \/ Cardinality(tokens) = 1
    <3>1. CASE tokens = {}
          BY <3>1, FS_EmptySet
    <3>2. ASSUME NEW k \in tokens PROVE Cardinality(tokens) = 1
      <4>1. tokens = {k}
            BY <2>1
      <4> QED BY <4>1, FS_Singleton
    <3> QED BY <3>1, <3>2
  <2>3. Cardinality(tokens) <= 1
        BY <2>2
  <2> QED BY <2>3 DEF tokens, Says
<1>6. ASSUME test.step \in Told
      PROVE  /\ test.told = <<test.resolved.succeeded>>
             /\ Determination = "AutomaticFailure" => ~test.resolved.succeeded
             /\ test.revealed = None => Determination # None
  <2>1. Announced(test, open)
        BY <1>6 DEF Announced
  <2>2. test.told = <<test.resolved.succeeded>>
        BY <1>3, <2>1 DEF Decided
  <2>3. Determination = "AutomaticFailure" => ~test.resolved.succeeded
        BY <1>1, <1>3, <2>1, Determines DEF Tallied
  <2>4. Settled(test, open)
    <3>1. test.step \notin Early /\ test.step \notin {"Resolving", "DetermineOutcome"}
          BY <1>6 DEF Told, Early
    <3>2. open \notin Reveals
          BY <1>3, <3>1 DEF Placed, Reveals, Emits
    <3> QED BY <3>1, <3>2 DEF Settled
  <2>5. test.revealed = None => Determination # None
        BY <1>1, <1>3, <2>4, Determines DEF Tallied
  <2> QED BY <2>2, <2>3, <2>5
<1> QED BY <1>4, <1>5, <1>6 DEF OneVerdict

\* However a test goes and however it ends, abandoned or resolved, its frame is in
\* the stack for as long as it is in flight and its modifiers last no longer; every
\* card is in one place, what is committed included; no title is committed past its
\* limit; and no step the drive loop takes by itself rejects (skill_test.rs).
THEOREM NothingLeftBehind == Spec => []TestSound
<1> QED BY AlwaysIndInv, Sound, PTL

\* The verdict is told once, whatever is played and flipped before it stands, ahead
\* of all that follows from it; an automatic failure is never told as a success; and
\* one token counts, however many are cancelled and drawn again (skill_test.rs).
THEOREM VerdictToldOnce == Spec => []OneVerdict
<1> QED BY AlwaysIndInv, ToldOnce, PTL
================================================================================
