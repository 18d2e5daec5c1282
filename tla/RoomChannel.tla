------------------------------ MODULE RoomChannel ------------------------------
(***************************************************************************)
(* A room's broadcast channel and the socket tasks that forward it         *)
(* (server/src/ws.rs handle_socket, over room.rs's events and tokio's      *)
(* broadcast channel), up to a graceful shutdown (shutdown.rs).            *)
(*                                                                         *)
(* What the room holds falls into facets: the lobby, and a started game's  *)
(* state, holders and members.  Every event carries whole facets, never a  *)
(* difference, so a facet is modelled by its version and an event by the   *)
(* versions it carries.  A change and its broadcast happen under the       *)
(* room's lock (LobbyRoom, LiveSession) and are one step here.             *)
(***************************************************************************)
EXTENDS Naturals, Sequences, Functions

CONSTANTS
    Accounts, Creator,
    Conns,
    AccountOf,  \* the account each connection is signed in as
    Capacity,   \* BROADCAST_CAPACITY
    MaxEvents   \* bound: changes made before a delete

ASSUME ChannelAssumption ==
    /\ Creator \in Accounts
    /\ AccountOf \in [Conns -> Accounts]
    /\ Capacity \in Nat \ {0}
    /\ MaxEvents \in Nat

GameFacets == {"game", "assigned", "members"}
Facets == GameFacets \cup {"lobby"}
View == [Facets -> Nat]

VARIABLES
    phase,      \* what the room holds
    members,    \* the accounts that are members
    room,       \* the version of each facet
    events,     \* every event broadcast, the last Capacity of them retained
    pc,         \* where each socket's task is in its loop
    at,         \* the next event its receiver is to be handed
    view,       \* what its client has been sent
    reply,      \* the room as it was when its reply was built
    lagged,     \* receivers that were handed a Lagged (history)
    shutdown,   \* whether the trigger fired
    overtime    \* frames each task has taken in since the trigger (history)

vars == <<phase, members, room, events, pc, at, view, reply, lagged, shutdown, overtime>>
roomVars == <<phase, members, room, events>>

\* A task is at the top of its select, past its shutdown arm, past its event
\* arm, carrying out a frame, forwarding what waits ahead of a reply, or at it.
PCs == {"closed", "attaching", "top", "events", "frames", "handling", "draining", "replying"}
Event == UNION {[view : [S -> Nat], closes : SUBSET Accounts] : S \in SUBSET Facets}

TypeOK ==
    /\ phase \in {"lobby", "live", "deleted"}
    /\ members \subseteq Accounts
    /\ room \in View
    /\ DOMAIN events = 1..Len(events) /\ \A k \in DOMAIN events :
          /\ events[k].closes \subseteq Accounts
          /\ DOMAIN events[k].view \subseteq Facets
    /\ pc \in [Conns -> PCs]
    /\ at \in [Conns -> 1..(Len(events) + 1)]
    /\ view \in [Conns -> View]
    /\ reply \in [Conns -> View]
    /\ lagged \subseteq Conns
    /\ shutdown \in BOOLEAN
    /\ overtime \in [Conns -> Nat]

Nothing == [f \in Facets |-> 0]

Init ==
    /\ phase = "lobby"
    /\ members = {Creator}
    /\ room = Nothing
    /\ events = <<>>
    /\ pc = [c \in Conns |-> "closed"]
    /\ at = [c \in Conns |-> 1]
    /\ view = [c \in Conns |-> Nothing]
    /\ reply = [c \in Conns |-> Nothing]
    /\ lagged = {}
    /\ shutdown = FALSE
    /\ overtime = [c \in Conns |-> 0]

-------------------------------------------------------------------------------
(* The room *)

Update(v, new) == [f \in Facets |-> IF f \in DOMAIN new THEN new[f] ELSE v[f]]

\* The facets S change, and an event carrying them is sent.
Broadcast(S, closes) ==
    LET new == [f \in S |-> room[f] + 1]
    IN  /\ room' = Update(room, new)
        /\ events' = Append(events, [view |-> new, closes |-> closes])

\* A lobby command, Start, a departure, an answer or a reassignment goes
\* through.
Changes ==
    /\ Len(events) < MaxEvents
    /\ \/ /\ phase = "lobby"
          /\ \/ Broadcast({"lobby"}, {}) /\ UNCHANGED <<phase, members>>
             \/ Broadcast(GameFacets, {}) /\ phase' = "live" /\ UNCHANGED members
             \/ \E a \in members \ {Creator} :
                   /\ Broadcast({"lobby"}, {a})
                   /\ members' = members \ {a}
                   /\ UNCHANGED phase
       \/ /\ phase = "live"
          /\ Broadcast({"game"}, {}) \/ Broadcast({"assigned"}, {})
          /\ UNCHANGED <<phase, members>>

\* GameRoom::delete
Delete ==
    /\ phase # "deleted"
    /\ phase' = "deleted"
    /\ Broadcast({}, Accounts)
    /\ UNCHANGED <<members, pc, at, view, reply, lagged, shutdown, overtime>>

\* Shutdown::trigger
Trigger ==
    /\ ~shutdown
    /\ shutdown' = TRUE
    /\ UNCHANGED <<roomVars, pc, at, view, reply, lagged, overtime>>

-------------------------------------------------------------------------------
(* A socket's task *)

Goto(c, l) == pc' = [pc EXCEPT ![c] = l]

\* The task ends, for whatever reason, and its receiver is dropped.
End(c) ==
    /\ Goto(c, "closed")
    /\ lagged' = lagged \ {c}
    /\ at' = [at EXCEPT ![c] = 1]
    /\ view' = [view EXCEPT ![c] = Nothing]
    /\ reply' = [reply EXCEPT ![c] = Nothing]
    /\ overtime' = [overtime EXCEPT ![c] = 0]
    /\ UNCHANGED <<roomVars, shutdown>>

\* A socket opens; the server stops accepting them at shutdown.
Open(c) ==
    /\ pc[c] = "closed"
    /\ ~shutdown
    /\ Goto(c, "attaching")
    /\ UNCHANGED <<roomVars, at, view, reply, lagged, shutdown, overtime>>

\* The receiver is one place past the first event it should be handed.
Subscription_Past(sent) == Len(sent) + 2
\* The receiver is made before the join's own broadcast.
Subscription_Early(sent) == Len(events) + 1
\* The receiver is handed what is sent after the join's broadcast.
Subscription(sent) == Len(sent) + 1

\* GameRoom::attach, then the first message.
Attach(c) ==
    /\ pc[c] = "attaching"
    /\ phase # "deleted"
    /\ IF AccountOf[c] \in members
       THEN UNCHANGED <<room, events>>
       ELSE Broadcast({IF phase = "live" THEN "members" ELSE "lobby"}, {})
    /\ members' = members \cup {AccountOf[c]}
    /\ at' = [at EXCEPT ![c] = Subscription(events')]
    /\ view' = [view EXCEPT ![c] = room']
    /\ Goto(c, "top")
    /\ UNCHANGED <<phase, reply, lagged, shutdown, overtime>>

\* The room is deleted, its membership could not be stored, the client is gone
\* or silent, or a send to it failed or timed out.
Fail(c) ==
    /\ pc[c] \notin {"closed", "handling"}
    /\ End(c)

\* The arms are polled in any order, and the shutdown arm after a ready frame.
PollShutdown_Last(c) ==
    /\ pc[c] = "top"
    /\ Goto(c, "events")
    /\ UNCHANGED <<roomVars, at, view, reply, lagged, shutdown, overtime>>
\* The close waits on the client's close without a timeout.
PollShutdown_Unbounded(c) ==
    /\ pc[c] = "top" /\ ~shutdown
    /\ Goto(c, "events")
    /\ UNCHANGED <<roomVars, at, view, reply, lagged, shutdown, overtime>>
\* The shutdown arm, polled first.
PollShutdown(c) ==
    /\ pc[c] = "top"
    /\ \/ shutdown /\ End(c)
       \/ /\ ~shutdown
          /\ Goto(c, "events")
          /\ UNCHANGED <<roomVars, at, view, reply, lagged, shutdown, overtime>>

Waiting(c) == at[c] <= Len(events)
Overrun(c) == at[c] + Capacity <= Len(events)

\* An overrun receiver skips everything that waits.
Skip_All(c, then) ==
    /\ Overrun(c)
    /\ at' = [at EXCEPT ![c] = Len(events) + 1]
    /\ lagged' = lagged \cup {c}
    /\ Goto(c, then)
    /\ UNCHANGED <<roomVars, view, reply, shutdown, overtime>>

\* recv or try_recv finds its next event gone, and skips to the oldest kept.
Skip(c, then) ==
    /\ Overrun(c)
    /\ at' = [at EXCEPT ![c] = Len(events) - Capacity + 1]
    /\ lagged' = lagged \cup {c}
    /\ Goto(c, then)
    /\ UNCHANGED <<roomVars, view, reply, shutdown, overtime>>

\* forward: close, or send the event's facets.
Forward(c, then) ==
    /\ Waiting(c)
    /\ ~Overrun(c)
    /\ LET event == events[at[c]]
       IN  \/ AccountOf[c] \in event.closes /\ End(c)
           \/ /\ AccountOf[c] \notin event.closes
              /\ at' = [at EXCEPT ![c] = @ + 1]
              /\ view' = [view EXCEPT ![c] = Update(@, event.view)]
              /\ Goto(c, then)
              /\ UNCHANGED <<roomVars, reply, lagged, shutdown, overtime>>

\* The event arm, polled next.
PollEvents(c) ==
    /\ pc[c] = "events"
    /\ \/ Skip(c, "top")
       \/ Forward(c, "top")
       \/ /\ ~Waiting(c)
          /\ Goto(c, "frames")
          /\ UNCHANGED <<roomVars, at, view, reply, lagged, shutdown, overtime>>

\* The frame arm: nothing is ready, or a frame is taken in.
Rest(c) ==
    /\ pc[c] = "frames"
    /\ Goto(c, "top")
    /\ UNCHANGED <<roomVars, at, view, reply, lagged, shutdown, overtime>>

TakeFrame(c) ==
    /\ pc[c] = "frames"
    /\ Goto(c, "handling")
    /\ overtime' = [overtime EXCEPT ![c] = IF shutdown THEN @ + 1 ELSE @]
    /\ UNCHANGED <<roomVars, at, view, reply, lagged, shutdown>>

\* handle_client_message: the frame goes through, or is replied to.
Carried(c) ==
    /\ pc[c] = "handling"
    /\ Changes
    /\ Goto(c, "top")
    /\ UNCHANGED <<at, view, reply, lagged, shutdown, overtime>>

Replied_AtOnce(c) ==
    /\ pc[c] = "handling"
    /\ reply' = [reply EXCEPT ![c] = room]
    /\ Goto(c, "replying")
    /\ UNCHANGED <<roomVars, at, view, lagged, shutdown, overtime>>
Replied(c) ==
    /\ pc[c] = "handling"
    /\ reply' = [reply EXCEPT ![c] = room]
    /\ Goto(c, "draining")
    /\ UNCHANGED <<roomVars, at, view, lagged, shutdown, overtime>>

\* forward_waiting
Drain(c) ==
    /\ pc[c] = "draining"
    /\ \/ Skip(c, "draining")
       \/ Forward(c, "draining")
       \/ /\ ~Waiting(c)
          /\ Goto(c, "replying")
          /\ UNCHANGED <<roomVars, at, view, reply, lagged, shutdown, overtime>>

SendReply(c) ==
    /\ pc[c] = "replying"
    /\ Goto(c, "top")
    /\ reply' = [reply EXCEPT ![c] = Nothing]
    /\ UNCHANGED <<roomVars, at, view, lagged, shutdown, overtime>>

-------------------------------------------------------------------------------
\* What the task does by itself.
Runs(c) ==
    \/ Attach(c) \/ PollShutdown(c) \/ PollEvents(c) \/ Rest(c)
    \/ Carried(c) \/ Replied(c) \/ Drain(c) \/ SendReply(c)
    \/ pc[c] = "attaching" /\ Fail(c)

Next ==
    \/ Delete
    \/ Trigger
    \/ \E c \in Conns : Open(c) \/ TakeFrame(c) \/ Fail(c) \/ Runs(c)

Spec == Init /\ [][Next]_vars

\* The runtime polls every task that can go on.
FairSpec == Spec /\ \A c \in Conns : WF_vars(Runs(c))

-------------------------------------------------------------------------------
(* What a connection is promised *)

Attached(c) == pc[c] \notin {"closed", "attaching"}

\* Nothing is sent twice and nothing skipped: what waits for a receiver takes
\* each facet on from what its client was sent to what the room holds
\* (room.rs:147-152).
TakesOn(c) ==
    \A f \in Facets :
        {events[k].view[f] : k \in {n \in at[c]..Len(events) : f \in DOMAIN events[n].view}}
            = (view[c][f] + 1)..room[f]
NothingSkipped == TypeOK /\ \A c \in Conns \ lagged : Attached(c) => TakesOn(c)

\* A reply never overtakes a broadcast sent before it was built (ws.rs:376-384).
ReplyAfterItsCause ==
    \A c \in Conns \ lagged :
        pc[c] = "replying" => \A f \in Facets : view[c][f] >= reply[c][f]

\* A deleted game's connections all close, even one that lagged: nothing is
\* broadcast after a Deleted, so it is never among what is skipped.
DeleteClosesAll == phase = "deleted" ~> \A c \in Conns : ~Attached(c)

\* A frame that arrives with the shutdown signal is not carried out after it,
\* but for the one already past the signal's arm (ws.rs select, biased).
OneFrameOvertime == \A c \in Conns : overtime[c] <= 1

\* Shutdown ends: every socket open or opening closes (shutdown.rs sockets_closed).
ShutdownCloses == shutdown ~> \A c \in Conns : pc[c] = "closed"
===============================================================================
