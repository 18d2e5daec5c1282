------------------------------- MODULE SkillTest -------------------------------
(***************************************************************************)
(* A skill test (dispatch/skill_test.rs): the actions that begin one, the  *)
(* commits of its performer and of the helpers beside them, its token, its *)
(* verdict and its results, and the ways it is abandoned.                  *)
(*                                                                         *)
(* The test lives on its frame; at most one is in flight, so it is kept    *)
(* here in `test` and its frame marks where it stands in the stack, top    *)
(* first.  A cell of its two conditions and a player window are one frame  *)
(* each, closed once whoever may act in it has passed (Timing has their    *)
(* machinery); no base of an effect lies above the test's frame, so its    *)
(* conditions never park.  One turn of Taker is modelled, at one location, *)
(* with one enemy; somebody elsewhere keeps the scenario going.  Attacks   *)
(* and harm are what EnemyPhase has of them, without their windows.        *)
(***************************************************************************)
EXTENDS Seating, Timing, SequencesExt

\* Order is the seating of the investigators at the location.
CONSTANTS
    Taker,          \* whose turn it is
    Cards,
    Owner,          \* card -> the investigator whose it is
    Title,          \* card -> what its commit limit goes by
    MaxPerTest,     \* title -> how many of it a test takes
    Icons,          \* card -> the skills it may be committed to
    OwnTestOnly,    \* cards committed to their committer's test only
    Adds,           \* card -> the result a success adds: "draw", "return", or "none"
    Boosts,         \* cards whose result modifier adds a damage to an attack
    Lucky,          \* cards played when their owner would fail
    Weapon,         \* a card in play that fights, and is discarded after some tokens
    Dog,            \* a card in play that may be discarded to hit the enemy
    Abilities,      \* what an ability used in a window records: "modify" or "AutomaticSuccess"
    Wendy, Agnes,   \* who cancels a token; who hits back when harmed
    Substitutes,    \* whose tests may use Intellect instead
    Base,           \* an investigator's skills
    Difficulty,     \* of each test
    Bag,            \* the chaos tokens
    Hands,          \* bound: the hands, decks and health a turn begins with
    FoeHealth,      \* bound: the enemy's health when it does
    Actions         \* bound: Taker's actions

Additional == {"draw", "return", "none"}
Seats == [status : {"Active", "Out"}, harm : Nat, health : Nat, hand : SUBSET Cards, deck : SUBSET Cards,
          discard : SUBSET Cards, in_play : SUBSET Cards, removed : SUBSET Cards]

\* The zones of i that c is in, of five.
Holding(board, i, c) ==
    LET was == board[i] IN
    <<c \in was.hand, c \in was.deck, c \in was.discard, c \in was.in_play, c \in was.removed>>

ASSUME TestAssumption ==
    /\ Taker \in Investigators /\ IsFiniteSet(Cards) /\ Owner \in [Cards -> Investigators]
    /\ \A c \in Cards : MaxPerTest[Title[c]] \in Nat
    /\ Adds \in [Cards -> Additional] /\ Abilities \subseteq {"modify", "AutomaticSuccess"}
    /\ FoeHealth \subseteq Nat /\ Actions \in Nat
    /\ None \notin Cards \cup Bag \cup {"AutomaticFailure", "AutomaticSuccess"}
    /\ None \notin [succeeded : BOOLEAN, clear : BOOLEAN]

\* A turn begins with everybody in the game, and each card in one zone of its owner's.
ASSUME HandsAssumption ==
    \A board \in Hands :
        /\ board \in [Investigators -> Seats]
        /\ \A i \in Investigators : board[i].status = "Active"
        /\ \A c \in Cards : \A j \in Investigators \ {Owner[c]} : \A z \in 1..5 : ~Holding(board, j, c)[z]
        /\ \A c \in Cards : \E z \in 1..5 : \A y \in 1..5 : Holding(board, Owner[c], c)[y] <=> y = z

VARIABLES
    stack,              \* the continuation stack
    test,               \* the skill test in flight, or NoTest
    investigators,      \* who holds which cards, and how they fare
    foe,                \* the enemy at the location
    recorded_modifiers, \* the rows recorded
    actions_remaining,  \* Taker's
    spent,              \* abilities used up
    skill_test_ids,     \* how many ids have been minted
    rejected            \* a step the drive loop took by itself rejected, or panicked

vars == <<stack, test, investigators, foe, recorded_modifiers, actions_remaining, spent, skill_test_ids, rejected>>

Kinds == {"Fight", "Evade", "Investigate", "Plain"}
Skills == {"Combat", "Agility", "Intellect"}
SkillOf(kind) == CASE kind = "Fight" -> "Combat" [] kind = "Evade" -> "Agility" [] OTHER -> "Intellect"

Top == Head(stack)
On(kind) == stack # <<>> /\ Top.kind = kind
InGame(i) == investigators[i].status = "Active"
NoTest == [id |-> 0]
InFlight == test # NoTest

Effect(does, who, card) == [kind |-> "Effect", does |-> does, who |-> who, card |-> card]
Harm(i) == Effect("harm", i, None)
SkillTestFrame == [kind |-> "SkillTest"]
SubstitutionPrompt == [kind |-> "SubstitutionPrompt"]
FastWindow == [kind |-> "FastWindow"]
ActionResolution(spec) == [kind |-> "ActionResolution", spec |-> spec]

\* What a test is begun with: its kind, the weapon or None, and whom its card's result names.
TestSpec(kind, weapon, kept) == [kind |-> kind, weapon |-> weapon, kept |-> kept]

\* Nobody's actions or ids, and none of the others, change in most steps.
Rest == <<actions_remaining, skill_test_ids, rejected>>
Board == <<investigators, foe, recorded_modifiers, spent>>

Init ==
    /\ stack = <<>> /\ test = NoTest /\ recorded_modifiers = <<>>
    /\ investigators \in Hands
    /\ foe \in [in_play : {TRUE}, health : FoeHealth, engaged : Investigators, exhausted : {FALSE}]
    /\ actions_remaining = Actions /\ spent = {} /\ skill_test_ids = 0 /\ rejected = FALSE

------------------------------------------------------------------------------
(* Cards in limbo, modifiers and the verdict. *)

Committed == {test.committed[k].card : k \in DOMAIN test.committed}
Row(what, delta) == [test |-> test.id, what |-> what, stat |-> test.skill, delta |-> delta]
Record(what, delta) == recorded_modifiers' = Append(recorded_modifiers, Row(what, delta))

\* test_determination: a failure wins over a success.
Determination ==
    LET rows == {recorded_modifiers[k] : k \in DOMAIN recorded_modifiers}
        found == {r.what : r \in {x \in rows : x.test = test.id}}
    IN  IF "AutomaticFailure" \in found THEN "AutomaticFailure"
        ELSE IF "AutomaticSuccess" \in found THEN "AutomaticSuccess" ELSE None

\* The rows of this test over the skill it tests: a weapon's is over the skill
\* its attack began with, and does not count once Intellect is used instead.
Counted == Among(recorded_modifiers, {r \in Elems(recorded_modifiers) : r.test = test.id /\ r.stat = test.skill})

\* sum_skill_value: the skill, the rows that count and the icons of what is
\* committed, clamped once they are all in.
Total ==
    LET sum == FoldLeft(LAMBDA n, r : n + r.delta, Base[test.investigator][test.skill], Counted)
               + Cardinality({c \in Committed : test.skill \in Icons[c]})
    IN  IF sum < 0 THEN 0 ELSE sum

SkillValue == IF Determination = "AutomaticFailure" THEN 0 ELSE Total
Margin == SkillValue - (IF Determination = "AutomaticSuccess" THEN 0 ELSE Difficulty[test.kind])

\* Mutant: what is recorded counts, and an automatic failure is one more modifier.
Verdict_NoAutomaticFailure ==
    [succeeded |-> Total >= Difficulty[test.kind], clear |-> Margin >= 2]

\* `clear`: by two or more, which is all that a result asks of the margin.
Verdict ==
    [succeeded |-> CASE Determination = "AutomaticFailure" -> FALSE
                     [] Determination = "AutomaticSuccess" -> TRUE
                     [] OTHER -> Margin >= 0,
     clear |-> Margin >= 2]

\* A title's allowance is what is left of its limit after everybody's commits.
Allowance(title) == MaxPerTest[title] - Cardinality({c \in Committed : Title[c] = title})
MayCommit(c, committer) ==
    /\ test.skill \in Icons[c]
    /\ c \in OwnTestOnly => committer = test.investigator
CommitCandidates(i) == {c \in investigators[i].hand : MayCommit(c, i) /\ Allowance(Title[c]) > 0}

WithinLimits(cards) == \A c \in cards : Cardinality({d \in cards : Title[d] = Title[c]}) <= Allowance(Title[c])

\* next_helper: in player order past `after`, nobody once `after` has gone.
Colocated == Among(Order, {i \in Investigators : InGame(i)})
Helpers(after) ==
    LET past == IF after = None THEN 0
                ELSE IF Contains(Colocated, after) THEN CHOOSE k \in DOMAIN Colocated : Colocated[k] = after
                ELSE Len(Colocated)
    IN  Among(SubSeq(Colocated, past + 1, Len(Colocated)),
              {i \in Investigators : i # test.investigator /\ CommitCandidates(i) # {}})

\* The positions, in committed order, of the cards that add a result to this outcome.
Additions(committed, succeeded) ==
    Among([k \in DOMAIN committed |-> k], {k \in DOMAIN committed : succeeded /\ Adds[committed[k].card] # "none"})

------------------------------------------------------------------------------
(* Elimination, harm and the enemy. *)

\* Mutant: elimination leaves what is committed on the test.
TakeCommittedCards_Left(i) == test
\* take_committed_cards: an eliminated investigator's cards leave the test.
TakeCommittedCards(i) ==
    IF ~InFlight THEN NoTest
    ELSE [test EXCEPT !.committed = Among(@, {k \in Elems(@) : k.committer # i})]

Gone(i) ==
    LET was == investigators[i]
        limbo == IF InFlight THEN {c \in Committed : Owner[c] = i} ELSE {}
    IN  [status |-> "Out", harm |-> was.harm, health |-> was.health, hand |-> {}, deck |-> {}, discard |-> {},
         in_play |-> {}, removed |-> was.removed \cup was.hand \cup was.deck \cup was.discard \cup was.in_play \cup limbo]

HitFoe(f, n) ==
    IF ~f.in_play THEN f
    ELSE IF f.health > n THEN [f EXCEPT !.health = @ - n]
    ELSE [in_play |-> FALSE, health |-> 0, engaged |-> None, exhausted |-> FALSE]

\* Harm placed on somebody who is then still in the game, who may hit back.
TakeHarm ==
    LET i == Top.who IN
    /\ On("Effect") /\ Top.does = "harm" /\ InGame(i)
    /\ investigators[i].harm + 1 < investigators[i].health
    /\ investigators' = [investigators EXCEPT ![i].harm = @ + 1]
    /\ foe' \in IF i \in Agnes THEN {foe, HitFoe(foe, 1)} ELSE {foe}
    /\ stack' = Tail(stack) /\ UNCHANGED <<test, recorded_modifiers, spent, Rest>>

\* Step 3 of an elimination: each enemy it frees engages, if it is ready, a
\* survivor beside it.  The lead picks among several, before anything else is done.
FreedFrom(i) ==
    LET survivors == {j \in Investigators \ {i} : InGame(j)} IN
    IF foe.engaged # i THEN {foe}
    ELSE IF foe.exhausted \/ survivors = {} THEN {[foe EXCEPT !.engaged = None]}
    ELSE {[foe EXCEPT !.engaged = j] : j \in survivors}

Defeated ==
    LET i == Top.who IN
    /\ On("Effect") /\ Top.does = "harm" /\ InGame(i)
    /\ investigators[i].harm + 1 >= investigators[i].health
    /\ investigators' = [investigators EXCEPT ![i] = Gone(i)]
    /\ test' = TakeCommittedCards(i)
    /\ foe' \in FreedFrom(i)
    /\ stack' = Tail(stack) /\ UNCHANGED <<recorded_modifiers, spent, Rest>>

\* draw_with_deckout: the discard pile comes back as the deck, and the horror comes once drawn.
Draw ==
    LET i == Top.who
        was == investigators[i]
        ran_out == was.deck = {}
        deck == IF ran_out THEN was.discard ELSE was.deck
        then == IF ran_out THEN <<Harm(i)>> ELSE <<>>
    IN  /\ On("Effect") /\ Top.does = "draw" /\ InGame(i)
        /\ investigators' \in
               IF deck = {} THEN {investigators}
               ELSE {[investigators EXCEPT ![i].hand = @ \cup {c}, ![i].deck = deck \ {c},
                                           ![i].discard = IF ran_out THEN {} ELSE @] : c \in deck}
        /\ stack' = then \o Tail(stack) /\ UNCHANGED <<test, foe, recorded_modifiers, spent, Rest>>

Heal ==
    /\ On("Effect") /\ Top.does = "heal" /\ InGame(Top.who)
    /\ investigators' = [investigators EXCEPT ![Top.who].harm = IF @ > 0 THEN @ - 1 ELSE 0]
    /\ stack' = Tail(stack) /\ UNCHANGED <<test, foe, recorded_modifiers, spent, Rest>>

\* return_committed_card_to_hand, by a margin of two.
ReturnCard ==
    /\ On("Effect") /\ Top.does = "return"
    /\ test' = [test EXCEPT !.committed = [k \in DOMAIN @ |->
                    IF @[k].card = Top.card /\ test.resolved.clear THEN [@[k] EXCEPT !.to = "hand"] ELSE @[k]]]
    /\ stack' = Tail(stack) /\ UNCHANGED <<Board, Rest>>

\* discard_after_this_test
MarkWeapon ==
    /\ On("Effect") /\ Top.does = "mark"
    /\ test' = [test EXCEPT !.discard_after = Top.card]
    /\ stack' = Tail(stack) /\ UNCHANGED <<Board, Rest>>

\* Effect::AutoResolve
Latch ==
    /\ On("Effect") /\ Top.does = "latch" /\ Record("AutomaticSuccess", 0)
    /\ stack' = Tail(stack) /\ UNCHANGED <<test, investigators, foe, spent, Rest>>

\* An effect on somebody out of the game, and a discovery, change nothing kept here.
NoEffect ==
    /\ On("Effect")
    /\ Top.does = "discover" \/ (Top.does \in {"harm", "draw", "heal"} /\ ~InGame(Top.who))
    /\ stack' = Tail(stack) /\ UNCHANGED <<test, Board, Rest>>

------------------------------------------------------------------------------
(* Beginning a test. *)

NewTest(spec) ==
    [id |-> skill_test_ids + 1, investigator |-> Taker, kind |-> spec.kind, skill |-> SkillOf(spec.kind),
     weapon |-> spec.weapon, kept |-> spec.kept, step |-> "PreCommitWindow", helper |-> None, committed |-> <<>>,
     revealed |-> None, resolved |-> None, pending |-> {}, bonus |-> 0, discard_after |-> None, cancelled |-> FALSE,
     told |-> <<>>, due |-> {}, applied |-> <<>>]

\* start_skill_test above the frames `beneath`: an eliminated performer is rejected.
StartSkillTest(spec, beneath) ==
    IF ~InGame(Taker) \/ InFlight
    THEN rejected' = TRUE /\ stack' = beneath /\ UNCHANGED <<test, Board, skill_test_ids>>
    ELSE /\ test' = NewTest(spec) /\ skill_test_ids' = skill_test_ids + 1
         /\ stack' = (IF Taker \in Substitutes THEN <<SubstitutionPrompt>> ELSE <<>>) \o <<SkillTestFrame>> \o beneath
         /\ recorded_modifiers' = IF spec.weapon = None THEN recorded_modifiers
                                  ELSE Append(recorded_modifiers, [test |-> skill_test_ids + 1, what |-> "initiator",
                                                                      stat |-> SkillOf(spec.kind), delta |-> 1])
         /\ UNCHANGED <<investigators, foe, spent, rejected>>

Take == stack = <<>> /\ InGame(Taker) /\ actions_remaining > 0 /\ actions_remaining' = actions_remaining - 1

\* Fight and Evade are exempt from attacks of opportunity.
TakeFight ==
    \E w \in {None} \cup (investigators[Taker].in_play \cap {Weapon}) :
        Take /\ foe.in_play /\ StartSkillTest(TestSpec("Fight", w, None), <<>>)
TakeEvade == Take /\ foe.in_play /\ foe.engaged = Taker /\ StartSkillTest(TestSpec("Evade", None, None), <<>>)

\* Any other action waits beneath the attacks it provokes.
TakeProvoking(spec) ==
    /\ Take
    /\ stack' = (IF foe.in_play /\ foe.engaged = Taker /\ ~foe.exhausted THEN <<Harm(Taker)>> ELSE <<>>)
                    \o <<ActionResolution(spec)>>
    /\ UNCHANGED <<test, Board, skill_test_ids, rejected>>
TakeInvestigate == TakeProvoking(TestSpec("Investigate", None, None))
Activate == \E i \in Investigators : InGame(i) /\ TakeProvoking(TestSpec("Plain", None, i))

\* Mutant: what was parked is performed, whatever became of who took it.
ResumeActionResolution_Ungated ==
    /\ On("ActionResolution") /\ StartSkillTest(Top.spec, Tail(stack)) /\ UNCHANGED actions_remaining
ResumeActionResolution ==
    /\ On("ActionResolution")
    /\ IF InGame(Taker) THEN StartSkillTest(Top.spec, Tail(stack))
       ELSE stack' = Tail(stack) /\ UNCHANGED <<test, Board, skill_test_ids, rejected>>
    /\ UNCHANGED actions_remaining

\* resume_substitution_choice
ChooseSubstitution ==
    /\ On("SubstitutionPrompt") /\ stack' = Tail(stack)
    /\ test' \in {test, [test EXCEPT !.skill = "Intellect"]}
    /\ UNCHANGED <<Board, Rest>>

------------------------------------------------------------------------------
(* advance: the test on top, its performer in the game, what it is against in play. *)

TargetLeft == test.resolved = None /\ test.kind \in {"Fight", "Evade"} /\ ~foe.in_play

\* discard_committed_cards: each to its owner's discard pile, or back to hand.
SentOn(i, where) == {test.committed[k].card : k \in {j \in DOMAIN test.committed :
                         test.committed[j].committer = i /\ test.committed[j].to = where}}

SendsOn(discards_marked) ==
    LET marked(i) == IF discards_marked THEN investigators[i].in_play \cap {test.discard_after} ELSE {}
    IN  investigators' = [i \in Investigators |->
            [investigators[i] EXCEPT !.hand = @ \cup SentOn(i, "hand"),
                                     !.discard = @ \cup SentOn(i, "discard") \cup marked(i),
                                     !.in_play = @ \ marked(i)]]

\* Mutant: the test goes and its rows stay.
TearDown_RowsStay(discards_marked) ==
    /\ SendsOn(discards_marked) /\ test' = NoTest /\ stack' = Tail(stack)
    /\ UNCHANGED <<recorded_modifiers, foe, spent, Rest>>
TearDown(discards_marked) ==
    /\ SendsOn(discards_marked) /\ test' = NoTest /\ stack' = Tail(stack)
    /\ recorded_modifiers' = Among(recorded_modifiers, {r \in Elems(recorded_modifiers) : r.test # test.id})
    /\ UNCHANGED <<foe, spent, Rest>>

PerformerEliminated == On("SkillTest") /\ ~InGame(test.investigator) /\ TearDown(FALSE)
TargetLeavesPlay == On("SkillTest") /\ InGame(test.investigator) /\ TargetLeft /\ TearDown(TRUE)

At(step) == On("SkillTest") /\ InGame(test.investigator) /\ ~TargetLeft /\ test.step = step
To(step) == test' = [test EXCEPT !.step = step]
Push(frames) == stack' = frames \o stack
OnlyTest == UNCHANGED <<stack, Board, Rest>>
Still == UNCHANGED <<Board, Rest>>

PreCommitWindow == At("PreCommitWindow") /\ To("NextHelper") /\ Push(<<FastWindow>>) /\ Still
NextHelper ==
    /\ At("NextHelper") /\ OnlyTest
    /\ LET left == Helpers(test.helper) IN
       test' = IF left = <<>> THEN [test EXCEPT !.step = "AwaitingCommit", !.helper = None]
               ELSE [test EXCEPT !.step = "AwaitingHelperCommit", !.helper = Head(left)]

Adding(i, cards, next) ==
    LET picked == SetToSeq(cards) IN
    test' = [test EXCEPT !.step = next,
                         !.committed = @ \o [k \in DOMAIN picked |-> [card |-> picked[k], committer |-> i, to |-> "discard"]]]

\* Mutant: the cards picked stay in hand.
Commit_Copied(i, cards, next) == Adding(i, cards, next) /\ UNCHANGED investigators
\* finish_skill_test: what is picked leaves the hand for the test.
Commit(i, cards, next) == Adding(i, cards, next) /\ investigators' = [investigators EXCEPT ![i].hand = @ \ cards]

HelperCommits ==
    /\ At("AwaitingHelperCommit")
    /\ \E cards \in SUBSET CommitCandidates(test.helper) :
           Cardinality(cards) <= 1 /\ WithinLimits(cards) /\ Commit(test.helper, cards, "NextHelper")
    /\ UNCHANGED <<stack, foe, recorded_modifiers, spent, Rest>>
PerformerCommits ==
    /\ At("AwaitingCommit")
    /\ \E cards \in SUBSET CommitCandidates(test.investigator) :
           WithinLimits(cards) /\ Commit(test.investigator, cards, "PreTokenWindow")
    /\ UNCHANGED <<stack, foe, recorded_modifiers, spent, Rest>>

PreTokenWindow == At("PreTokenWindow") /\ To("Resolving") /\ Push(<<FastWindow>>) /\ Still

\* run_resolution: no token for a test already determined.
SkipToken == At("Resolving") /\ Determination # None /\ To("DetermineOutcome") /\ OnlyTest
RevealToken ==
    /\ At("Resolving") /\ Determination = None /\ To("DetermineOutcome")
    /\ \E token \in Bag : Push(<<EmitEvent([kind |-> "ChaosTokenRevealed", token |-> token])>>)
    /\ Still

\* determine_outcome_step: the verdict is announced, and will be totalled again.
DetermineOutcome ==
    /\ At("DetermineOutcome")
    /\ test' = [test EXCEPT !.step = "AcknowledgeOutcome", !.resolved = Verdict]
    /\ Push(<<EmitEvent([kind |-> "SkillTestResolved", succeeded |-> Verdict.succeeded])>>)
    /\ Still

AcknowledgeOutcome == At("AcknowledgeOutcome") /\ To("ApplyResultModifiers") /\ OnlyTest

ApplyResultModifiers ==
    /\ At("ApplyResultModifiers") /\ OnlyTest
    /\ test' = [test EXCEPT !.step = "ApplyFollowUp",
                            !.bonus = IF test.resolved.succeeded /\ test.kind = "Fight"
                                      THEN Cardinality(Committed \cap Boosts) ELSE 0]

\* apply_follow_up_step; an evasion takes its enemy to be in play.
ApplyFollowUp ==
    LET damage == 1 + test.bonus + (IF test.weapon = None THEN 0 ELSE 1)
        attacked == foe.engaged \notin {None, Taker}
    IN  /\ At("ApplyFollowUp") /\ To("CollectResults")
        /\ UNCHANGED <<investigators, recorded_modifiers, spent, actions_remaining, skill_test_ids>>
        /\ CASE test.kind = "Fight" /\ test.resolved.succeeded ->
                  foe' = HitFoe(foe, damage) /\ UNCHANGED <<stack, rejected>>
             [] test.kind = "Fight" /\ ~test.resolved.succeeded ->
                  stack' = [k \in 1..(IF attacked THEN damage - test.bonus ELSE 0) |-> Harm(foe.engaged)] \o stack
                  /\ UNCHANGED <<foe, rejected>>
             [] test.kind = "Evade" /\ test.resolved.succeeded ->
                  /\ Push(<<EmitEvent([kind |-> "EnemyEvaded"])>>) /\ UNCHANGED foe
                  /\ rejected' = (rejected \/ ~foe.in_play)
             [] test.kind = "Investigate" /\ test.resolved.succeeded ->
                  Push(<<Effect("discover", Taker, None)>>) /\ UNCHANGED <<foe, rejected>>
             [] OTHER -> UNCHANGED <<stack, foe, rejected>>

\* A result of ST.7, and what it is: the card's, the token's, or a committed card's.
Card == <<"Card", None>>
Token == <<"Token", None>>
CardEffect == IF test.resolved.succeeded THEN Effect("heal", test.kept, None) ELSE Harm(test.kept)

CollectResults ==
    LET succeeded == test.resolved.succeeded
        additions == Additions(test.committed, succeeded)
        fixed == (IF test.kind = "Plain" THEN {Card} ELSE {})
                 \cup (IF test.revealed = "cultist" /\ ~succeeded THEN {Token} ELSE {})
    IN  /\ At("CollectResults") /\ OnlyTest
        /\ test' = [test EXCEPT !.step = "ApplyResults",
                                !.pending = fixed \cup {<<"Addition", n>> : n \in DOMAIN additions},
                                !.due = fixed \cup {<<"Addition", test.committed[additions[n]].card>> : n \in DOMAIN additions}]

\* The frames apply_result pushes for a result, looked up as the test now stands.
Found(result) ==
    LET now == Additions(test.committed, test.resolved.succeeded) IN
    CASE result = Card -> <<CardEffect>>
      [] result = Token -> <<Harm(test.investigator)>>
      [] OTHER -> IF result[2] \notin DOMAIN now THEN <<>>
                  ELSE LET k == test.committed[now[result[2]]] IN <<Effect(Adds[k.card], k.committer, k.card)>>

Names(result, frames) ==
    IF frames = <<>> THEN <<>> ELSE IF result[1] = "Addition" THEN <<(<<"Addition", frames[1].card>>)>> ELSE <<result>>

\* Mutant: what is applied stays pending.
Apply_StillPending(result) ==
    /\ test' = [test EXCEPT !.step = "ApplyResults", !.applied = @ \o Names(result, Found(result))]
    /\ Push(Found(result)) /\ Still
Apply(result) ==
    /\ test' = [test EXCEPT !.step = "ApplyResults", !.pending = @ \ {result}, !.applied = @ \o Names(result, Found(result))]
    /\ Push(Found(result)) /\ Still

ApplyTheOnlyResult == At("ApplyResults") /\ Cardinality(test.pending) = 1 /\ \E r \in test.pending : Apply(r)
AskTheOrder == At("ApplyResults") /\ Cardinality(test.pending) > 1 /\ To("AwaitingResultOrder") /\ OnlyTest
PickResult == At("AwaitingResultOrder") /\ \E r \in test.pending : Apply(r)
NoResultLeft == At("ApplyResults") /\ test.pending = {} /\ To("PostRetaliate") /\ OnlyTest

\* fire_retaliate_if_any
PostRetaliate ==
    /\ At("PostRetaliate") /\ To("PostOnResolution") /\ Still
    /\ IF test.kind = "Fight" /\ ~test.resolved.succeeded /\ foe.in_play /\ ~foe.exhausted
       THEN Push(<<Harm(test.investigator)>>) ELSE UNCHANGED stack

PostOnResolution == At("PostOnResolution") /\ TearDown(TRUE)

------------------------------------------------------------------------------
(* The test's conditions: the cells of each, and what it comes to. *)

Cell(event, step) == On("EmitEvent") /\ Top.event.kind = event /\ Top.step = step
CloseCell == On("EmitEvent") /\ Top.step # "ResolveCondition" /\ stack' = AdvanceOrFinish(stack) /\ UNCHANGED <<test, Board, Rest>>
Abandoned == On("EmitEvent") /\ Top.step = "ResolveCondition" /\ Top.prevented /\ stack' = Tail(stack) /\ UNCHANGED <<test, Board, Rest>>

\* The token counts: its row, its immediate effect, and on top the clause of the card that attacks.
ResolveReveal ==
    LET token == Top.event.token
        immediate == CASE token = "tablet" -> <<Harm(test.investigator)>>
                       [] token = "elder sign" -> <<Effect("latch", test.investigator, None)>>
                       [] OTHER -> <<>>
        clause == IF test.weapon # None /\ token \in {"tablet", "autofail"} THEN <<Effect("mark", Taker, test.weapon)>> ELSE <<>>
    IN  /\ Cell("ChaosTokenRevealed", "ResolveCondition") /\ ~Top.prevented
        /\ test' = [test EXCEPT !.revealed = token]
        /\ CASE token = "autofail" -> Record("AutomaticFailure", 0)
             [] token = "elder sign" -> Record("token", 1)
             [] OTHER -> Record("token", -1)
        /\ stack' = clause \o immediate \o AdvanceOrFinish(stack)
        /\ UNCHANGED <<investigators, foe, spent, Rest>>

\* Mutant: a verdict that flips is announced again, and the stale one told too.
ResolveVerdict_NotVoided ==
    /\ Cell("SkillTestResolved", "ResolveCondition")
    /\ IF Verdict.succeeded # Top.event.succeeded
       THEN test' = [test EXCEPT !.resolved = Verdict, !.step = "DetermineOutcome", !.told = Append(@, Top.event.succeeded)]
       ELSE test' = [test EXCEPT !.resolved = Verdict, !.told = Append(@, Verdict.succeeded)]
    /\ stack' = AdvanceOrFinish(stack) /\ Still
\* A verdict that stands is told; one that flipped is void, and the test determines it again.
ResolveVerdict ==
    /\ Cell("SkillTestResolved", "ResolveCondition")
    /\ IF Verdict.succeeded # Top.event.succeeded
       THEN /\ test' = [test EXCEPT !.resolved = Verdict, !.step = "DetermineOutcome"]
            /\ stack' = Tail(stack)
       ELSE /\ test' = [test EXCEPT !.resolved = Verdict, !.told = Append(@, Verdict.succeeded)]
            /\ stack' = AdvanceOrFinish(stack)
    /\ Still

ResolveEvasion ==
    /\ Cell("EnemyEvaded", "ResolveCondition") /\ stack' = AdvanceOrFinish(stack)
    /\ foe' = IF foe.in_play THEN [foe EXCEPT !.engaged = None, !.exhausted = TRUE] ELSE foe
    /\ UNCHANGED <<test, investigators, recorded_modifiers, spent, Rest>>

------------------------------------------------------------------------------
(* What players may do in the cells and the windows. *)

\* Cancel, and RevealChaosToken: the cursor goes back to the draw.
CancelToken ==
    /\ Cell("ChaosTokenRevealed", "When") /\ ~Top.prevented /\ test.investigator \in Wendy /\ ~test.cancelled
    /\ \E c \in investigators[test.investigator].hand :
           investigators' = [investigators EXCEPT ![test.investigator].hand = @ \ {c}, ![test.investigator].discard = @ \cup {c}]
    /\ stack' = CancelCurrentImpact(stack) /\ test' = [test EXCEPT !.step = "Resolving", !.cancelled = TRUE]
    /\ UNCHANGED <<foe, recorded_modifiers, spent, Rest>>

\* Played when its owner would fail, as the rows now stand.
PlayLucky ==
    /\ Cell("SkillTestResolved", "When") /\ ~Verdict.succeeded
    /\ \E c \in investigators[test.investigator].hand \cap Lucky :
           investigators' = [investigators EXCEPT ![test.investigator].hand = @ \ {c}, ![test.investigator].discard = @ \cup {c}]
    /\ Record("modify", 2) /\ UNCHANGED <<stack, test, foe, spent, Rest>>

\* A card drawn after a failure.
AfterFailure ==
    /\ Cell("SkillTestResolved", "After") /\ ~Top.event.succeeded /\ InGame(test.investigator) /\ "foot" \notin spent
    /\ spent' = spent \cup {"foot"} /\ Push(<<Effect("draw", test.investigator, None)>>)
    /\ UNCHANGED <<test, investigators, foe, recorded_modifiers, Rest>>

\* A skill raised for this test, or its determination latched.
Train ==
    /\ On("FastWindow") /\ "training" \notin spent /\ spent' = spent \cup {"training"}
    /\ \E what \in Abilities : Record(what, IF what = "modify" THEN 1 ELSE 0)
    /\ UNCHANGED <<stack, test, investigators, foe, Rest>>
SendDog ==
    /\ On("FastWindow") /\ foe.in_play
    /\ \E i \in Investigators :
           /\ Dog \in investigators[i].in_play
           /\ investigators' = [investigators EXCEPT ![i].in_play = @ \ {Dog}, ![i].discard = @ \cup {Dog}]
    /\ foe' = HitFoe(foe, 1) /\ UNCHANGED <<stack, test, recorded_modifiers, spent, Rest>>
CloseWindow == On("FastWindow") /\ stack' = Tail(stack) /\ UNCHANGED <<test, Board, Rest>>

------------------------------------------------------------------------------
Next ==
    \/ TakeFight \/ TakeEvade \/ TakeInvestigate \/ Activate \/ ResumeActionResolution \/ ChooseSubstitution
    \/ PerformerEliminated \/ TargetLeavesPlay \/ PreCommitWindow \/ NextHelper \/ HelperCommits \/ PerformerCommits
    \/ PreTokenWindow \/ SkipToken \/ RevealToken \/ DetermineOutcome \/ AcknowledgeOutcome \/ ApplyResultModifiers
    \/ ApplyFollowUp \/ CollectResults \/ ApplyTheOnlyResult \/ AskTheOrder \/ PickResult \/ NoResultLeft
    \/ PostRetaliate \/ PostOnResolution \/ CloseCell \/ Abandoned \/ ResolveReveal \/ ResolveVerdict \/ ResolveEvasion
    \/ CancelToken \/ PlayLucky \/ AfterFailure \/ Train \/ SendDog \/ CloseWindow
    \/ TakeHarm \/ Defeated \/ Draw \/ Heal \/ ReturnCard \/ MarkWeapon \/ Latch \/ NoEffect

Spec == Init /\ [][Next]_vars

\* The drive loop runs, and whoever is asked answers.
FairSpec == Spec /\ WF_vars(Next)

Steps == {"PreCommitWindow", "NextHelper", "AwaitingHelperCommit", "AwaitingCommit", "PreTokenWindow", "Resolving",
          "DetermineOutcome", "AcknowledgeOutcome", "ApplyResultModifiers", "ApplyFollowUp", "CollectResults",
          "ApplyResults", "AwaitingResultOrder", "PostRetaliate", "PostOnResolution"}
Told == {"ApplyResultModifiers", "ApplyFollowUp", "CollectResults", "ApplyResults", "AwaitingResultOrder",
         "PostRetaliate", "PostOnResolution"}

\* The types of the variables.
TypeOK ==
    /\ \A i \in Investigators : investigators[i].status \in {"Active", "Out"}
    /\ foe.engaged \in Investigators \cup {None} /\ actions_remaining \in 0..Actions
    /\ InFlight => test.step \in Steps /\ test.skill \in Skills /\ test.kind \in Kinds

\* Every card is in one place, its owner's: a zone of theirs or, in limbo, the
\* test it is committed to.  An eliminated investigator has none left anywhere.
CardsAccounted ==
    \A c \in Cards :
        LET i == Owner[c]
            limbo == IF InFlight THEN {k \in DOMAIN test.committed : test.committed[k].card = c} ELSE {}
            held == {z \in 1..5 : Holding(investigators, i, c)[z]}
        IN  /\ Cardinality(held) + Cardinality(limbo) = 1
            /\ \A k \in limbo : test.committed[k].committer = i
            /\ \A j \in Investigators \ {i} : \A z \in 1..5 : ~Holding(investigators, j, c)[z]
            /\ ~InGame(i) => c \in investigators[i].removed

\* A test begins for somebody in the game, and its frame is in the stack for as
\* long as it is in flight; its modifiers go with it, abandoned or not; no title
\* is committed past its limit, by its performer and the helpers together; and
\* the drive loop never takes a step that rejects, or that panics.
TestSound ==
    /\ TypeOK /\ CardsAccounted /\ ~rejected
    /\ Cardinality({k \in DOMAIN stack : stack[k].kind = "SkillTest"}) = IF InFlight THEN 1 ELSE 0
    /\ \A k \in DOMAIN recorded_modifiers : InFlight /\ recorded_modifiers[k].test = test.id
    /\ InFlight => \A c \in Committed : Allowance(Title[c]) >= 0

\* The verdict is told once, whatever is played and flipped on the way, before
\* any of its consequences; it is what the results that follow are those of; an
\* automatic failure is a failure, and a token counts once however many are drawn.
OneVerdict ==
    InFlight =>
        /\ Len(test.told) <= 1
        /\ Cardinality({k \in DOMAIN recorded_modifiers : recorded_modifiers[k].what \in {"token", "AutomaticFailure"}}) <= 1
        /\ test.step \in Told /\ InGame(test.investigator) =>
               /\ test.told = <<test.resolved.succeeded>>
               /\ Determination = "AutomaticFailure" => ~test.resolved.succeeded
               /\ test.revealed = None => Determination # None

\* A test, and the action it was begun by, come to an end.
TestEnds == stack # <<>> ~> stack = <<>> /\ ~InFlight

\* Every result that was due is applied, once, before the test goes on; only
\* what an eliminated investigator committed may be left out.
EachResultOnce ==
    InFlight /\ test.step = "PostRetaliate" /\ InGame(test.investigator) =>
        \A r \in test.due :
            (r[1] = "Addition" => InGame(Owner[r[2]])) =>
                Cardinality({k \in DOMAIN test.applied : test.applied[k] = r}) = 1
================================================================================
