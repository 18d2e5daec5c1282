------------------------------ MODULE LobbyRules ------------------------------
(***************************************************************************)
(* The rules of a lobby (protocol/src/lobby.rs), one operator per command. *)
(*                                                                         *)
(* A game is one record, whether it is what the room holds in memory or    *)
(* what the database stores: a lobby's members, picks in seating order and *)
(* lead; then a started game's seats; then nothing, once it is deleted.    *)
(*                                                                         *)
(* A command is a relation between the game before it and after it.  The   *)
(* relation does not hold where the code refuses the command.              *)
(***************************************************************************)
EXTENDS Naturals, Sequences, SequencesExt

CONSTANTS
    Accounts,
    Creator,        \* the account that created the game
    Investigators,  \* card codes a client can name
    Pool,           \* those with a default deck
    MaxPicks,       \* MAX_PICKS
    NoLead          \* lead: None

ASSUME LobbyAssumption ==
    /\ Creator \in Accounts
    /\ Pool \subseteq Investigators
    /\ MaxPicks \in Nat \ {0}
    /\ NoLead \notin Investigators

Weaknesses == {"fixed", "random"}
Directions == {"earlier", "later"}
Pick == [investigator : Investigators, account : Accounts, weakness : Weaknesses]

Game == [phase : {"lobby", "live", "deleted"}, members : Seq(Accounts), picks : Seq(Pick),
         lead : Investigators \cup {NoLead}, seats : Seq(Pick), leader : Nat]

\* A lobby as lobby::create stores it, and a game with no rows.
NewLobby == [phase |-> "lobby", members |-> <<Creator>>, picks |-> <<>>, lead |-> NoLead,
             seats |-> <<>>, leader |-> 0]
Gone == [phase |-> "deleted", members |-> <<>>, picks |-> <<>>, lead |-> NoLead,
         seats |-> <<>>, leader |-> 0]

IsMember(g, a) == a \in ToSet(g.members)
Picked(g) == {p.investigator : p \in ToSet(g.picks)}
OwnPick(g, a, i) == \E p \in ToSet(g.picks) : p.investigator = i /\ p.account = a

-------------------------------------------------------------------------------
\* Lobby::join and LiveGame::join
Join(g, a) == IF IsMember(g, a) THEN g ELSE [g EXCEPT !.members = Append(@, a)]

\* A Take that never asks whether the investigator is free.
Take_Twice(g, a, i, changed) ==
    /\ i \in Pool
    /\ Len(g.picks) < MaxPicks
    /\ changed = [g EXCEPT !.picks = Append(@, [investigator |-> i, account |-> a,
                                                weakness |-> "fixed"]),
                           !.lead  = IF @ = NoLead THEN i ELSE @]
Take(g, a, i, changed) ==
    /\ i \in Pool
    /\ i \notin Picked(g)
    /\ Len(g.picks) < MaxPicks
    /\ changed = [g EXCEPT !.picks = Append(@, [investigator |-> i, account |-> a,
                                                weakness |-> "fixed"]),
                           !.lead  = IF @ = NoLead THEN i ELSE @]

\* Vec::retain: the elements of s that are not gone, in their order.
Kept(s, gone) ==
    LET kept[i \in 0..Len(s)] ==
            IF i = 0 THEN <<>>
            ELSE IF s[i] \in gone THEN kept[i - 1] ELSE Append(kept[i - 1], s[i])
    IN  kept[Len(s)]

\* The game without some of its picks: the seating closes its gaps, and a lead
\* that went passes to the new first position, or to nobody.
Without_LeadSeat(g, gone) ==
    [g EXCEPT !.picks = Kept(@, gone),
              !.lead  = IF \E p \in gone : p.investigator = @ THEN 1 ELSE @]
Without(g, gone) ==
    LET picks == Kept(g.picks, gone)
        first == IF picks = <<>> THEN NoLead ELSE picks[1].investigator
    IN  [g EXCEPT !.picks = picks,
                  !.lead  = IF \E p \in gone : p.investigator = @ THEN first ELSE @]

GiveUp(g, a, i, changed) ==
    /\ OwnPick(g, a, i)
    /\ changed = Without(g, {p \in ToSet(g.picks) : p.investigator = i})

SetWeakness(g, a, i, w, changed) ==
    \E k \in DOMAIN g.picks :
        /\ g.picks[k].investigator = i
        /\ g.picks[k].account = a
        /\ changed = [g EXCEPT !.picks[k].weakness = w]

MoveInSeating(g, a, i, direction, changed) ==
    /\ a = Creator
    /\ \E k, neighbour \in DOMAIN g.picks :
          /\ g.picks[k].investigator = i
          /\ IF direction = "earlier" THEN neighbour + 1 = k ELSE neighbour = k + 1
          /\ changed = [g EXCEPT !.picks[k] = g.picks[neighbour],
                                 !.picks[neighbour] = g.picks[k]]

SetLead(g, a, i, changed) ==
    /\ a = Creator
    /\ i \in Picked(g)
    /\ changed = [g EXCEPT !.lead = i]

\* Lobby::depart: a member and its picks go; the creator never does.
Depart(g, a, changed) ==
    /\ a # Creator
    /\ IsMember(g, a)
    /\ changed = Without([g EXCEPT !.members = Kept(@, {a})],
                         {p \in ToSet(g.picks) : p.account = a})

\* Leave is a member's own departure, Remove the creator's doing.
MayDepart(by, a) == by = a \/ by = Creator

\* Where the lead pick sits, counting from 1; the first seat if it is no pick.
LeadPosition(g) ==
    LET leads == {k \in DOMAIN g.picks : g.picks[k].investigator = g.lead}
    IN  IF leads = {} THEN 1 ELSE CHOOSE k \in leads : \A n \in leads : k <= n

\* Lobby::start, then storing the game and deleting its lobby's rows: the picks
\* become the seats, each held by the account that picked it.
Start(g, a, changed) ==
    /\ a = Creator
    /\ g.picks # <<>>
    /\ Picked(g) \subseteq Pool
    /\ changed = [g EXCEPT !.phase = "live", !.picks = <<>>, !.lead = NoLead,
                           !.seats = g.picks, !.leader = LeadPosition(g)]

\* A command of `a`'s that changes the lobby without a departure.
Command(g, a, changed) ==
    \/ \E i \in Investigators :
          \/ Take(g, a, i, changed)
          \/ GiveUp(g, a, i, changed)
          \/ \E w \in Weaknesses : SetWeakness(g, a, i, w, changed)
          \/ \E d \in Directions : MoveInSeating(g, a, i, d, changed)
          \/ SetLead(g, a, i, changed)
    \/ Start(g, a, changed)

-------------------------------------------------------------------------------
(* What the rules keep true of a game. *)

\* One of the picks leads, or nobody is picked (lobby.rs:35-37).
LeadIsAPick(g) == IF g.picks = <<>> THEN g.lead = NoLead ELSE g.lead \in Picked(g)

\* Each pick is of a different investigator, and no more than MAX_PICKS are.
PicksFit(g) ==
    /\ \A j, k \in DOMAIN g.picks : g.picks[j].investigator = g.picks[k].investigator => j = k
    /\ Len(g.picks) <= MaxPicks

\* The creator never departs (lobby.rs:246-248).
CreatorStays(g) == g.phase # "deleted" => IsMember(g, Creator)
===============================================================================
