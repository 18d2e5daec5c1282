------------------------------- MODULE LobbyRoom ------------------------------
(***************************************************************************)
(* A game's room in its lobby (server/src/room.rs): connections attach,    *)
(* send lobby commands and delete the game, one at a time under the room's *)
(* lock.  Each change is made on a copy, stored in one transaction, and    *)
(* only then put in the room and broadcast.  A connection whose account    *)
(* departs, or whose game is deleted, closes when it next forwards the     *)
(* room's events: a command it had already sent is still carried out.      *)
(*                                                                         *)
(* A DELETE is answered by a future that is dropped when its client goes.  *)
(* Dropped between its commit and the mark on the room it leaves the rows  *)
(* gone and the room serving on, until the room is evicted or the server   *)
(* stops: what it then stores is what its statements do to those rows.     *)
(*                                                                         *)
(* Meanwhile an account lists its games, in two queries of the rows and a  *)
(* look at the room (lifecycle.rs); the game is one of what it lists.      *)
(*                                                                         *)
(* Which command a frame holds does not depend on the room, so it is       *)
(* chosen when the command is carried out.                                 *)
(***************************************************************************)
EXTENDS LobbyRules

CONSTANTS
    Conns,      \* connections and delete requests
    AccountOf,  \* the account each is signed in as
    NoConn, NoOne,
    Listers     \* the accounts that list their games

ASSUME RoomAssumption ==
    /\ AccountOf \in [Conns -> Accounts]
    /\ NoConn \notin Conns
    /\ NoOne \notin Accounts
    /\ Listers \subseteq Accounts

VARIABLES
    stored,     \* the game's rows
    room,       \* GameRoom::game
    changed,    \* the copy the lock's holder is storing
    departing,  \* whose departure it is, or NoOne
    holder,     \* the connection holding the room's lock, or NoConn
    pc, op,     \* each connection's place, and what it is doing there
    closing,    \* connections with a close waiting among their events
    orphan,     \* whether a DELETE was dropped once it had committed, and then whether
                \* the room has been loaded again since
    listing     \* the listing under way: where it is, whose, and what it has of the game

vars == <<stored, room, changed, departing, holder, pc, op, closing, orphan, listing>>

NoListing == [at |-> "idle", by |-> NoOne, was_member |-> FALSE, as_lobby |-> FALSE,
              as_started |-> FALSE, failed |-> FALSE]

Ops == {"attach", "command", "delete"}
PCs == {"closed", "waiting", "locked", "stored", "attached"}

TypeOK ==
    /\ {stored, room, changed} \subseteq Game
    /\ departing \in Accounts \cup {NoOne}
    /\ holder \in Conns \cup {NoConn}
    /\ pc \in [Conns -> PCs]
    /\ op \in [Conns -> Ops]
    /\ closing \subseteq Conns
    /\ orphan \in {"none", "serving", "reloaded"}
    /\ listing \in [at : {"idle", "lobbies", "read", "started", "answered"}, by : Accounts \cup {NoOne},
                    was_member : BOOLEAN, as_lobby : BOOLEAN, as_started : BOOLEAN, failed : BOOLEAN]

Init ==
    /\ stored = NewLobby
    /\ room = NewLobby
    /\ changed = NewLobby
    /\ departing = NoOne
    /\ holder = NoConn
    /\ pc = [c \in Conns |-> "closed"]
    /\ op = [c \in Conns |-> "attach"]
    /\ closing = {}
    /\ orphan = "none"
    /\ listing = NoListing

\* The connections subscribed to the room's events.
Subscribed == {c \in Conns : pc[c] = "attached" \/ (pc[c] # "closed" /\ op[c] = "command")}

\* Where a connection goes when its operation changed nothing: a refused attach
\* or delete ends, a refused command is replied to, unless a close waits before
\* the reply.
Refused(c) == IF op[c] = "command" /\ c \notin closing THEN "attached" ELSE "closed"

-------------------------------------------------------------------------------
\* A socket opens, or a DELETE arrives.
Open(c) ==
    /\ pc[c] = "closed"
    /\ pc' = [pc EXCEPT ![c] = "waiting"]
    /\ \E o \in {"attach", "delete"} : op' = [op EXCEPT ![c] = o]
    /\ UNCHANGED <<stored, room, changed, departing, holder, closing, orphan, listing>>

\* A socket takes in a frame; the close it is to forward comes first.
Send(c) ==
    /\ pc[c] = "attached"
    /\ c \notin closing
    /\ pc' = [pc EXCEPT ![c] = "waiting"]
    /\ op' = [op EXCEPT ![c] = "command"]
    /\ UNCHANGED <<stored, room, changed, departing, holder, closing, orphan, listing>>

\* The socket forwards its close, or its client is gone.
Close(c) ==
    /\ pc[c] = "attached"
    /\ pc' = [pc EXCEPT ![c] = "closed"]
    /\ closing' = closing \ {c}
    /\ UNCHANGED <<stored, room, changed, departing, holder, op, orphan, listing>>

\* The lock is taken, and the change made on a copy.
Lock(c, o) ==
    /\ pc[c] = "waiting"
    /\ op[c] = o
    /\ holder = NoConn
    /\ holder' = c
    /\ pc' = [pc EXCEPT ![c] = "locked"]
    /\ UNCHANGED <<stored, room, op, closing, orphan, listing>>

\* attach: the account becomes a member.
Attach(c) ==
    /\ Lock(c, "attach")
    /\ room.phase # "deleted"
    /\ changed' = Join(room, AccountOf[c])
    /\ departing' = NoOne

\* A command made in place, on what a failed store left behind.
ChangeLobby_InPlace(c) ==
    /\ Lock(c, "command")
    /\ room.phase = "lobby"
    /\ Command(changed, AccountOf[c], changed')
    /\ departing' = NoOne

\* change_lobby and start: one command on the room's lobby.
ChangeLobby(c) ==
    /\ Lock(c, "command")
    /\ room.phase = "lobby"
    /\ Command(room, AccountOf[c], changed')
    /\ departing' = NoOne

\* depart: Leave or Remove.
DepartLobby(c) ==
    /\ Lock(c, "command")
    /\ room.phase = "lobby"
    /\ \E a \in Accounts :
          /\ MayDepart(AccountOf[c], a)
          /\ Depart(room, a, changed')
          /\ departing' = a

\* delete: the creator alone may.
Delete(c) ==
    /\ Lock(c, "delete")
    /\ room.phase # "deleted"
    /\ AccountOf[c] = Creator
    /\ changed' = Gone
    /\ departing' = NoOne

\* The lock is taken and let go of with nothing changed: a command can always
\* be refused, an attach to a deleted room and a delete that may not be are.
Refuse(c) ==
    /\ pc[c] = "waiting"
    /\ holder = NoConn
    /\ op[c] = "attach" => room.phase = "deleted"
    /\ op[c] = "delete" => room.phase = "deleted" \/ AccountOf[c] # Creator
    /\ pc' = [pc EXCEPT ![c] = Refused(c)]
    /\ closing' = closing \ {c}
    /\ UNCHANGED <<stored, room, changed, departing, holder, op, orphan, listing>>

-------------------------------------------------------------------------------
(* One transaction per change, each writing to the rows what its statements do.
   The copy is not what they see: they are run on what is stored. *)

Commit(c, rows) ==
    /\ pc[c] = "locked"
    /\ stored' = rows
    /\ pc' = [pc EXCEPT ![c] = "stored"]
    /\ UNCHANGED <<room, changed, departing, holder, op, closing, orphan, listing>>

\* add_member
StoreMember(c) ==
    /\ op[c] = "attach"
    /\ Commit(c, Join(stored, AccountOf[c]))

\* remove_member
Remaining == IF departing = NoOne THEN stored.members ELSE Kept(stored.members, {departing})

\* Mutant: the picks are stored, but a departure's membership row is not dropped.
StoreLobby_MemberKept(c) ==
    /\ op[c] = "command" /\ changed.phase = "lobby"
    /\ stored.phase # "lobby" => changed.picks = <<>>
    /\ Commit(c, IF stored.phase = "lobby" THEN [changed EXCEPT !.members = stored.members] ELSE stored)
\* store_lobby.  A pick's row references its lobby's, and the lead is updated
\* where that is: without it the members alone can be stored.
StoreLobby(c) ==
    /\ op[c] = "command" /\ changed.phase = "lobby"
    /\ stored.phase # "lobby" => changed.picks = <<>>
    /\ Commit(c, [(IF stored.phase = "lobby" THEN changed ELSE stored) EXCEPT !.members = Remaining])

\* store_start: the game's row and its assignment, and no lobby's any more.
StoreStart(c) ==
    /\ op[c] = "command" /\ changed.phase = "live"
    /\ Commit(c, [changed EXCEPT !.members = stored.members])

\* delete_game
StoreDelete(c) ==
    /\ op[c] = "delete"
    /\ Commit(c, Gone)

\* The transaction fails: the lock is let go of with nothing changed.
StoreFails(c) ==
    /\ pc[c] = "locked"
    /\ holder' = NoConn
    /\ pc' = [pc EXCEPT ![c] = Refused(c)]
    /\ closing' = closing \ {c}
    /\ UNCHANGED <<stored, room, changed, departing, op, orphan, listing>>

\* Whom the broadcast closes: a departed account's connections, or everyone
\* once the game is deleted.
Closes_First(c) ==
    {d \in Subscribed : changed.phase = "deleted" \/ (AccountOf[d] = departing /\ d # c)}
Closes(c) ==
    {d \in Subscribed : changed.phase = "deleted" \/ AccountOf[d] = departing}

\* The copy becomes the room's game and is broadcast, all under the lock.  An
\* attach subscribes after its own broadcast.
Publish(c) ==
    /\ pc[c] = "stored"
    /\ room' = changed
    /\ closing' = closing \cup Closes(c)
    /\ holder' = NoConn
    /\ pc' = [pc EXCEPT ![c] = IF op[c] = "delete" THEN "closed" ELSE "attached"]
    /\ UNCHANGED <<stored, changed, departing, op, orphan, listing>>

\* A DELETE's client goes, and the request is dropped wherever it is waiting.
\* The database may still be committing a delete dropped there: it lands before
\* anything else is written, and is taken to have landed.
DropDelete(c) ==
    /\ op[c] = "delete" /\ pc[c] # "closed"
    /\ pc' = [pc EXCEPT ![c] = "closed"]
    /\ holder' = IF holder = c THEN NoConn ELSE holder
    /\ orphan' = IF pc[c] = "stored" THEN "serving" ELSE orphan
    /\ UNCHANGED <<stored, room, changed, departing, op, closing, listing>>

\* What was stored is loaded, as the room.
Load ==
    /\ room' = stored
    /\ orphan' = IF orphan = "none" THEN "none" ELSE "reloaded"

\* A room with no connections is evicted, and loaded again when it is wanted.
Evict ==
    /\ \A c \in Conns : pc[c] = "closed"
    /\ Load
    /\ UNCHANGED <<stored, changed, departing, holder, pc, op, closing, listing>>

\* The server stops at any point and starts again.
Restart ==
    /\ Load
    /\ holder' = NoConn
    /\ pc' = [c \in Conns |-> "closed"]
    /\ closing' = {}
    /\ listing' = NoListing
    /\ UNCHANGED <<stored, changed, departing, op>>

-------------------------------------------------------------------------------
(* A listing: the lobbies the account is a member of, each then read, and the
   started games, each then summarised from its room. *)

Listing(fields) == listing' = fields /\ UNCHANGED <<stored, room, changed, departing, holder, pc, op, closing, orphan>>

List(a) ==
    /\ listing.at = "idle"
    /\ Listing([NoListing EXCEPT !.at = IF stored.phase = "lobby" /\ IsMember(stored, a) THEN "lobbies" ELSE "read",
                                 !.by = a, !.was_member = IsMember(stored, a)])

\* lobby::read finds nothing once Start, or a delete, has taken the lobby.
ReadLobby ==
    /\ listing.at = "lobbies"
    /\ Listing([listing EXCEPT !.at = "read", !.as_lobby = (stored.phase = "lobby")])

\* started_games_of
QueryStarted ==
    /\ listing.at = "read"
    /\ Listing([listing EXCEPT !.at = IF stored.phase = "live" /\ IsMember(stored, listing.by)
                                      THEN "started" ELSE "answered"])

\* Mutant: the room is looked at without waiting for its lock.
StartedEntry_NoLock ==
    /\ listing.at = "started"
    /\ Listing([listing EXCEPT !.at = "answered", !.as_started = (room.phase = "live")])
\* started_entry: a room that is not live is left out.
StartedEntry ==
    /\ listing.at = "started" /\ holder = NoConn
    /\ Listing([listing EXCEPT !.at = "answered", !.as_started = (room.phase = "live")])

\* The room cannot be loaded just now: the game is left out, and logged.
LoadFails ==
    /\ listing.at = "started"
    /\ Listing([listing EXCEPT !.at = "answered", !.failed = TRUE])

Answered == listing.at = "answered" /\ Listing(NoListing)

Next ==
    \/ \E c \in Conns :
          \/ Open(c) \/ Send(c) \/ Close(c)
          \/ Attach(c) \/ ChangeLobby(c) \/ DepartLobby(c) \/ Delete(c) \/ Refuse(c)
          \/ StoreMember(c) \/ StoreLobby(c) \/ StoreStart(c) \/ StoreDelete(c)
          \/ StoreFails(c) \/ Publish(c) \/ DropDelete(c)
    \/ Evict \/ Restart
    \/ \E a \in Listers : List(a)
    \/ ReadLobby \/ QueryStarted \/ StartedEntry \/ LoadFails \/ Answered

Spec == Init /\ [][Next]_vars

-------------------------------------------------------------------------------
(* What the room promises *)

\* A room r that serves a game whose rows s are gone: nothing is stored of it but
\* members of its own, until it starts, which stores the whole of it but for the
\* members it had before.
Outlives(r, s) ==
    /\ r.phase # "deleted"
    /\ ToSet(s.members) \subseteq ToSet(r.members)
    /\ \/ s = [Gone EXCEPT !.members = s.members]
       \/ r.phase = "live" /\ s = [r EXCEPT !.members = s.members]

\* What a restart would load is what the room holds, whenever nobody is in the
\* middle of a change: no accepted command is lost and no failed one survives,
\* but in a room that a dropped DELETE left serving.
Saved == holder = NoConn => room = stored \/ (orphan = "serving" /\ Outlives(room, stored))

\* A connection that is to stay open belongs to a member: every connection of a
\* departed account closes, including one that attached while it departed.
AttachedIsMember ==
    \A c \in Subscribed \ closing : IsMember(room, AccountOf[c])

\* The rules' invariants, of the room's game and of the stored one, and who is
\* attached to it.  A game that was started again after its delete can be without
\* its creator.
LobbySound ==
    /\ TypeOK
    /\ \A g \in {room, stored} : LeadIsAPick(g) /\ PicksFit(g) /\ (orphan = "none" => CreatorStays(g))
    /\ AttachedIsMember

\* A listing leaves out no game its account is a member of from its first query
\* to its last, whatever its room is doing and whether or not it starts
\* meanwhile.
NothingUnlisted ==
    [][listing.at # "answered" /\ listing'.at = "answered" =>
          \/ listing'.as_lobby \/ listing'.as_started \/ listing'.failed
          \/ ~listing'.was_member \/ stored.phase = "deleted" \/ ~IsMember(stored, listing'.by)]_listing

\* The room implements the lobby: each stored change is one whole command,
\* applied to what was stored before it, so that none overwrites another.
L == INSTANCE Lobby WITH game <- stored, abandoned <- orphan # "none"
ImplementsLobby == L!Spec
===============================================================================
