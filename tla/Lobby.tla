--------------------------------- MODULE Lobby --------------------------------
(***************************************************************************)
(* What a game's room promises of its lobby: a game that changes one whole *)
(* command at a time, each applied to what the command before it stored.   *)
(*                                                                         *)
(* A deleted game stays deleted, unless it was abandoned: its room was     *)
(* never told of the delete, and serves on.  Then members are stored and   *)
(* removed of a game that is gone, and a Start brings it back with those.  *)
(***************************************************************************)
EXTENDS LobbyRules

VARIABLES game, abandoned

Init == game = NewLobby /\ abandoned = FALSE

\* An account opens the game's link.
Joined(a) ==
    /\ game.phase # "deleted" \/ abandoned
    /\ game' = Join(game, a)
    /\ UNCHANGED abandoned

\* An account's command goes through.
Commanded(a) ==
    /\ game.phase = "lobby"
    /\ Command(game, a, game')
    /\ UNCHANGED abandoned

\* `a` leaves the lobby or is removed from it.
Departed(by, a) ==
    /\ game.phase = "lobby"
    /\ MayDepart(by, a)
    /\ Depart(game, a, game')
    /\ UNCHANGED abandoned

\* The creator deletes the game.
Deleted ==
    /\ game.phase # "deleted" \/ abandoned
    /\ game' = Gone
    /\ UNCHANGED abandoned

\* The delete's room is never told.
Abandoned ==
    /\ game.phase = "deleted"
    /\ abandoned' = TRUE
    /\ UNCHANGED game

\* `a` departs from an abandoned game.
Forgotten(a) ==
    /\ abandoned
    /\ game.phase = "deleted"
    /\ game' = [game EXCEPT !.members = Kept(@, {a})]
    /\ UNCHANGED abandoned

\* An abandoned game is started: it is what Start makes of some lobby with the
\* members stored since the delete.
Revived ==
    /\ abandoned
    /\ game.phase = "deleted"
    /\ game'.leader \in DOMAIN game'.seats
    /\ LET lobby == [game EXCEPT !.picks = game'.seats,
                                 !.lead  = game'.seats[game'.leader].investigator]
       IN  PicksFit(lobby) /\ Start(lobby, Creator, game')
    /\ UNCHANGED abandoned

Next ==
    \/ \E a \in Accounts : Joined(a) \/ Commanded(a) \/ Forgotten(a)
    \/ \E by, a \in Accounts : Departed(by, a)
    \/ Deleted \/ Abandoned \/ Revived

Spec == Init /\ [][Next]_<<game, abandoned>>
===============================================================================
