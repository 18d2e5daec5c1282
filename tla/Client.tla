-------------------------------- MODULE Client --------------------------------
(***************************************************************************)
(* One browser page of a game: the connect loop and its socket             *)
(* (web/src/transport.rs, socket_ending.rs), the fold of what the server   *)
(* sends (store.rs) and the answers a player clicks (controls.rs), over a  *)
(* network that drops connections and a server that restarts.              *)
(*                                                                         *)
(* A game's state is the number of answers it has taken, so the state at   *)
(* a prompt is the prompt's log position.  The server is what LiveSession  *)
(* and RoomChannel establish of it: a change and its broadcast are one     *)
(* step, a reply never overtakes a broadcast, no told answer is lost.      *)
(* Of a lobby only that the game is in it is kept, and of the wait between *)
(* attempts only that it ends.                                             *)
(***************************************************************************)
EXTENDS Integers, Sequences

CONSTANTS
    Investigators,
    MaxPrompt,      \* the log position of a finished game
    MaxFaults,      \* bound: what goes wrong, or ends, outside the page
    MaxQueue,       \* bound: commands on their way to the server
    MaxInbox        \* bound: messages on their way to the page, past those that open a socket

ASSUME ClientAssumption == MaxPrompt \in Nat /\ MaxFaults \in Nat /\ MaxQueue \in Nat \ {0} /\ MaxInbox \in Nat \ {0}

VARIABLES
    pc,         \* where the connect loop is
    status,     \* ClientState::status
    page,       \* what the page renders of its game
    queue,      \* the outbound channel
    ws,         \* the socket
    lingering,  \* frames of the page's last socket the server has yet to read
    reply,      \* a reply built and not yet sent on the socket
    server,     \* whether the server is up, and of which build
    room,       \* the game, as the server holds it
    faults      \* what may still go wrong

pageVars == <<pc, status, page, queue>>
vars == <<pc, status, page, queue, ws, lingering, reply, server, room, faults>>

Accounts == {"me", "others"}
Assignment == [Investigators -> Accounts]
Positions == 0..MaxPrompt
Statuses == {"Connecting", "Connected", "Reconnecting", "Restarting", "Failed", "InLobby",
             "VersionMismatch", "SignedOut", "Unresumable"}

Nobody == [i \in Investigators |-> "others"]
NoSocket == [open |-> FALSE, attached |-> FALSE, up |-> FALSE, greeted |-> "no", inbox |-> <<>>, outbox |-> <<>>]
Socket == [NoSocket EXCEPT !.open = TRUE, !.up = TRUE]

\* A command remembers the game the page showed, and the socket, it was clicked on.
Submit(p, i) == [type |-> "Submit", prompt |-> p, investigator |-> i, on |-> "this socket", shown |-> page.game]
Reassign(i, a) == [type |-> "Reassign", investigator |-> i, to |-> a, on |-> "this socket"]
LobbyCommand(t) == [type |-> t, on |-> "this socket"]

Hello == [type |-> "Hello", build |-> server.build, prompt |-> room.prompt, game |-> room.prompt, assigned |-> room.assigned]
LobbyFrame == [type |-> "Lobby", build |-> server.build]
Applied(p) == [type |-> "Applied", answered |-> p, prompt |-> p + 1, game |-> p + 1]
Assigned(a) == [type |-> "Assigned", assigned |-> a]
Reply(type, why) == [type |-> type, why |-> why]
Close(code) == [type |-> "Close", code |-> code]

Init ==
    /\ pc = "signing in"
    /\ status = "Connecting"
    /\ page = [lobby |-> FALSE, game |-> 0, prompt |-> 0, assigned |-> Nobody, last_submit |-> {}, blamed |-> FALSE]
    /\ queue = <<>> /\ lingering = <<>> /\ reply = <<>> /\ ws = NoSocket
    /\ server = [up |-> TRUE, build |-> "ours", resumes |-> TRUE]
    /\ \E phase \in {"lobby", "live"}, creator \in Accounts, assigned \in Assignment :
          room = [phase |-> phase, prompt |-> 0, creator |-> creator, assigned |-> assigned,
                  signed_in |-> TRUE]
    /\ faults = MaxFaults

-------------------------------------------------------------------------------
(* The page. *)

LocksBoard == status # "Connected"
Holds(i) == page.assigned[i] = "me"
\* A prompt waits in the game shown: a finished game has none.
Awaits == page.game < MaxPrompt

IsRetrying == status \in {"Reconnecting", "Restarting"}
RetryingAfter_Kept(code) == IF code = "restarting" THEN "Restarting" ELSE status
\* A restart is said until the next Hello or Lobby.
RetryingAfter(code) ==
    IF code = "restarting" \/ status = "Restarting" THEN "Restarting" ELSE "Reconnecting"

NextStep(code) ==
    CASE code \in {"restarting", "none"} -> "Reconnect"
      [] code = "unauthenticated" -> "SignIn"
      [] code = "unresumable" -> "Unresumable"
      [] OTHER -> "GoHome"

\* Whether the page has a screen up that sends commands, and room to send one.
Clicks(c) ==
    /\ pc # "left" /\ Len(queue) + Len(ws.outbox) < MaxQueue
    /\ queue' = Append(queue, IF ws.open THEN c ELSE [c EXCEPT !.on = "no socket"])

\* An answer for an investigator the page holds, to the prompt it shows.
ClickAnswer(i) ==
    /\ ~LocksBoard /\ Awaits /\ Holds(i)
    /\ Clicks(Submit(page.prompt, i))
    /\ page' = [page EXCEPT !.last_submit = {i}]
    /\ UNCHANGED <<pc, status>>

Reassignments == {r \in Investigators \X Accounts :
    /\ Awaits /\ page.assigned[r[1]] # r[2]
    /\ room.creator = "me" \/ Holds(r[1])}

ClickReassign(i, a) ==
    /\ ~LocksBoard /\ <<i, a>> \in Reassignments
    /\ Clicks(Reassign(i, a))
    /\ UNCHANGED <<pc, status, page>>

ClickInLobby(t) ==
    /\ status = "InLobby" /\ (t = "Start" => room.creator = "me")
    /\ Clicks(LobbyCommand(t))
    /\ UNCHANGED <<pc, status, page>>

\* GET /auth/me, at boot and after a socket closed as unauthenticated.
CheckSignIn ==
    /\ pc \in {"signing in", "checking"}
    /\ \/ /\ server.up /\ room.signed_in
          /\ pc' = IF pc = "checking" THEN "stopped" ELSE "connecting"
          /\ status' = IF pc = "checking" THEN "Failed" ELSE status
       \/ server.up /\ ~room.signed_in /\ pc' = "stopped" /\ status' = "SignedOut"
       \/ ~server.up /\ pc' = "stopped" /\ status' = "Failed"
    /\ UNCHANGED <<page, queue>>

\* WebSocket::open: the browser may refuse it at once.
Connect ==
    /\ pc = "connecting"
    /\ \/ pc' = "open" /\ status' = (IF IsRetrying THEN status ELSE "Connecting") /\ ws' = Socket
       \/ ~server.up /\ pc' = "waiting" /\ status' = RetryingAfter("none") /\ ws' = ws
    /\ UNCHANGED <<page, queue, lingering>>

Backoff == pc = "waiting" /\ pc' = "connecting" /\ UNCHANGED <<status, page, queue>>

SendOutbound ==
    /\ pc = "open" /\ queue # <<>>
    /\ ws' = IF ws.up THEN [ws EXCEPT !.outbox = Append(@, Head(queue))] ELSE ws
    /\ queue' = Tail(queue)
    /\ UNCHANGED <<pc, status, page>>

\* What the queue holds once the socket is gone, each command marked as of a socket that is.
Outlived(q) == [k \in DOMAIN q |-> [q[k] EXCEPT !.on = "an earlier socket"]]
Drained_Kept == queue
\* What was clicked for a socket that is gone is dropped unsent.
Drained == <<>>

\* The socket's lifetime is over: the server may have frames of it still to read.
Hangup ==
    /\ queue' = Outlived(Drained)
    /\ ws' = NoSocket
    /\ lingering' = IF ws.attached THEN ws.outbox ELSE <<>>
    /\ reply' = <<>>

Ends(code) ==
    /\ Hangup /\ page' = page
    /\ CASE NextStep(code) = "Reconnect" -> pc' = "waiting" /\ status' = RetryingAfter(code)
         [] NextStep(code) = "SignIn" -> pc' = "checking" /\ status' = status
         [] NextStep(code) = "Unresumable" -> pc' = "stopped" /\ status' = "Unresumable"
         [] NextStep(code) = "GoHome" -> pc' = "left" /\ status' = status

Skewed == Hangup /\ pc' = "stopped" /\ status' = "VersionMismatch" /\ page' = page

\* What a message the socket opens with changes; any other leaves it.
Greeting(f, old, hello, lobby) ==
    CASE f.type = "Hello" -> hello [] f.type = "Lobby" -> lobby [] OTHER -> old

\* Whether the status bar then says the client has a bug: not of a stale answer, nor of
\* one whose investigator a reassignment took, which leave it as it was.
Blamed(why) ==
    CASE why = "StalePrompt" -> page.blamed
      [] why \in {"Engine", "Failed"} -> FALSE
      [] why = "NotYours" /\ (\E i \in page.last_submit : ~Holds(i)) -> page.blamed
      [] OTHER -> TRUE

\* store.rs reduce, of each frame.
Reduced_DropsTheNext(f) ==
    CASE f.type = "Hello" ->
           [lobby |-> FALSE, game |-> f.game, prompt |-> f.prompt, assigned |-> f.assigned,
            last_submit |-> {}, blamed |-> FALSE]
      [] f.type = "Lobby" -> [page EXCEPT !.lobby = TRUE]
      [] f.type = "Applied" ->
           IF f.answered <= page.prompt THEN page
           ELSE [page EXCEPT !.game = f.game, !.prompt = f.prompt]
      [] f.type = "Assigned" -> [page EXCEPT !.assigned = f.assigned]
      [] f.type = "Rejected" -> [page EXCEPT !.blamed = Blamed(f.why)]
      [] OTHER -> page
Reduced_Replayed(f) ==
    CASE f.type = "Hello" ->
           [lobby |-> FALSE, game |-> f.game, prompt |-> f.prompt, assigned |-> f.assigned,
            last_submit |-> {}, blamed |-> FALSE]
      [] f.type = "Lobby" -> [page EXCEPT !.lobby = TRUE]
      [] f.type = "Applied" ->
           [page EXCEPT !.game = f.game, !.prompt = f.prompt]
      [] f.type = "Assigned" -> [page EXCEPT !.assigned = f.assigned]
      [] f.type = "Rejected" -> [page EXCEPT !.blamed = Blamed(f.why)]
      [] OTHER -> page
Reduced(f) ==
    CASE f.type = "Hello" ->
           [lobby |-> FALSE, game |-> f.game, prompt |-> f.prompt, assigned |-> f.assigned,
            last_submit |-> {}, blamed |-> FALSE]
      [] f.type = "Lobby" -> [page EXCEPT !.lobby = TRUE]
      [] f.type = "Applied" ->
           IF f.answered < page.prompt THEN page
           ELSE [page EXCEPT !.game = f.game, !.prompt = f.prompt]
      [] f.type = "Assigned" -> [page EXCEPT !.assigned = f.assigned]
      [] f.type = "Rejected" -> [page EXCEPT !.blamed = Blamed(f.why)]
      [] OTHER -> page

Receive ==
    /\ pc = "open" /\ ws.inbox # <<>>
    /\ LET f == Head(ws.inbox) IN
       \/ f.type = "Close" /\ Ends(f.code)
       \/ f.type \in {"Hello", "Lobby"} /\ f.build # "ours" /\ Skewed
       \/ /\ f.type # "Close" /\ (f.type \in {"Hello", "Lobby"} => f.build = "ours")
          /\ page' = Reduced(f)
          /\ status' = Greeting(f, status, "Connected", "InLobby")
          /\ ws' = [ws EXCEPT !.inbox = Tail(@), !.greeted = Greeting(f, @, "game", "lobby")]
          /\ UNCHANGED <<pc, queue, lingering, reply>>

Silence_NoTimeout == pc = "open" /\ ws.inbox = <<>> /\ ~server.up /\ Ends("none")
\* The connection is gone, or the server is silent for CLIENT_SILENCE_TIMEOUT.
Silence == pc = "open" /\ ws.inbox = <<>> /\ (~ws.up \/ ~server.up) /\ Ends("none")

-------------------------------------------------------------------------------
(* The server, as its modules establish it. *)

Told(s, f) == IF s.attached /\ s.up THEN [s EXCEPT !.inbox = Append(@, f)] ELSE s
Closed(s, code) == [s EXCEPT !.up = FALSE, !.attached = FALSE, !.inbox = IF s.up THEN Append(@, Close(code)) ELSE @]
HasRoom == Len(ws.inbox) < MaxInbox

\* A Hello, and n answers it includes sent after it all the same: more than attach
\* sends, and what the page is written to expect.
Overlapped(n) ==
    LET s == Told([ws EXCEPT !.attached = TRUE], Hello)
    IN [s EXCEPT !.inbox = @ \o [k \in 1..n |-> Applied(room.prompt - n + k - 1)]]

\* A socket reaches the server, and is sent its first message or closed.
Attach ==
    /\ ws.open /\ ws.up /\ ~ws.attached /\ server.up
    /\ ws' \in IF ~room.signed_in THEN {Closed(ws, "unauthenticated")}
               ELSE CASE room.phase = "deleted" -> {Closed(ws, "not found")}
                      [] room.phase = "lobby" -> {Told([ws EXCEPT !.attached = TRUE], LobbyFrame)}
                      [] room.phase = "live" /\ ~server.resumes -> {Closed(ws, "unresumable")}
                      [] OTHER -> {Overlapped(n) : n \in 0..room.prompt}
    /\ UNCHANGED <<pageVars, lingering, reply, server, room, faults>>

\* handle_client_message: what may become of a command.
Outcomes(c) ==
    CASE c.type \in {"Take", "Start"} ->
           IF room.phase = "lobby" THEN {"Accepted", "LobbyRefused"} ELSE {"LobbyRefused"}
      [] room.phase # "live" -> {"NotStarted"}
      [] c.type = "Submit" ->
           IF c.prompt # room.prompt THEN {"StalePrompt"}
           ELSE IF room.assigned[c.investigator] # "me" THEN {"NotYours"}
           ELSE {"Accepted", "Engine", "Failed"}
      [] c.type = "Reassign" ->
           IF \/ room.prompt = MaxPrompt
              \/ room.creator # "me" /\ room.assigned[c.investigator] # "me"
              \/ room.assigned[c.investigator] = c.to
           THEN {"Reassign"} ELSE {"Accepted", "Failed"}

Carried(c) ==
    CASE c.type = "Submit" -> [room EXCEPT !.prompt = @ + 1]
      [] c.type = "Reassign" -> [room EXCEPT !.assigned[c.investigator] = c.to]
      [] c.type = "Start" -> [room EXCEPT !.phase = "live"]
      [] c.type = "Take" -> room
News(c) ==
    CASE c.type = "Submit" -> Applied(room.prompt)
      [] c.type = "Reassign" -> Assigned(Carried(c).assigned)
      [] c.type = "Start" -> Hello
      [] c.type = "Take" -> LobbyFrame

ReplyTo(why) ==
    CASE why = "Accepted" -> <<>>
      [] why = "LobbyRefused" -> <<Reply(why, "")>>
      [] OTHER -> <<Reply("Rejected", why)>>

\* The socket's task takes in a frame.  Its reply waits for what was broadcast before.
Handle ==
    /\ ws.attached /\ ws.outbox # <<>> /\ reply = <<>> /\ HasRoom
    /\ LET c == Head(ws.outbox) taken == [ws EXCEPT !.outbox = Tail(@)] IN
       \E why \in Outcomes(c) :
          /\ reply' = ReplyTo(why)
          /\ IF why = "Accepted" THEN room' = Carried(c) /\ ws' = Told(taken, News(c))
             ELSE room' = room /\ ws' = taken
    /\ UNCHANGED <<pageVars, lingering, server, faults>>

\* The task of the page's last socket does: nobody is left to reply to.
HandleLingering ==
    /\ lingering # <<>> /\ HasRoom /\ lingering' = Tail(lingering)
    /\ LET c == Head(lingering) IN
       \E why \in Outcomes(c) :
          IF why = "Accepted" THEN room' = Carried(c) /\ ws' = Told(ws, News(c)) ELSE UNCHANGED <<room, ws>>
    /\ UNCHANGED <<pageVars, reply, server, faults>>

SendReply ==
    /\ reply # <<>> /\ HasRoom
    /\ ws' = Told(ws, Head(reply)) /\ reply' = <<>>
    /\ UNCHANGED <<pageVars, lingering, server, room, faults>>

\* Another member answers, reassigns, or changes the lobby.
OfOthers ==
    IF room.phase = "lobby" THEN {[type |-> t] : t \in {"Take"} \cup (IF room.creator = "me" THEN {} ELSE {"Start"})}
    ELSE IF room.phase = "deleted" \/ room.prompt = MaxPrompt THEN {}
    ELSE {[type |-> "Submit", investigator |-> i] : i \in {j \in Investigators : room.assigned[j] = "others"}} \cup
         {c \in [type : {"Reassign"}, investigator : Investigators, to : Accounts] :
            /\ room.assigned[c.investigator] # c.to
            /\ "others" \in {room.creator, room.assigned[c.investigator]}}

Others ==
    /\ server.up /\ HasRoom
    /\ \E c \in OfOthers : room' = Carried(c) /\ ws' = Told(ws, News(c))
    /\ UNCHANGED <<pageVars, lingering, reply, server, faults>>

\* The server stops, telling the socket or not, and starts again, perhaps as another build.
Stop ==
    /\ server.up /\ server' = [server EXCEPT !.up = FALSE]
    /\ lingering' = <<>> /\ reply' = <<>>
    /\ ws' \in {Closed(ws, "restarting"), Closed(ws, "none"), [ws EXCEPT !.up = FALSE, !.attached = FALSE]}
    /\ UNCHANGED <<pageVars, room>>

Restart ==
    /\ ~server.up /\ server' \in [up : {TRUE}, build : {"ours", "theirs"}, resumes : BOOLEAN]
    /\ UNCHANGED <<pageVars, ws, lingering, reply, room, faults>>

Delete ==
    /\ server.up /\ room.phase # "deleted"
    /\ room' = [room EXCEPT !.phase = "deleted"]
    /\ ws' = IF ws.attached THEN Closed(ws, "deleted") ELSE ws
    /\ reply' = <<>> /\ UNCHANGED <<pageVars, lingering, server>>

Remove ==
    /\ room.phase = "lobby" /\ room.creator # "me" /\ ws.attached
    /\ ws' = Closed(ws, "no longer a member")
    /\ reply' = <<>> /\ UNCHANGED <<pageVars, lingering, server, room>>

SignOut == room.signed_in /\ room' = [room EXCEPT !.signed_in = FALSE] /\ UNCHANGED <<pageVars, ws, lingering, reply, server>>

-------------------------------------------------------------------------------
(* The network. *)

\* The connection goes silent, with or without what is on its way.
Drop ==
    /\ ws.up
    /\ \E inbox \in {<<>>, ws.inbox}, outbox \in {<<>>, ws.outbox} :
          ws' = [ws EXCEPT !.up = FALSE, !.inbox = inbox, !.outbox = outbox]
    /\ UNCHANGED <<pageVars, lingering, reply, server, room>>

\* A server that is up answers too late, or fails to load the game.
Late ==
    /\ pc = "open" /\ ws.up /\ ws.inbox = <<>>
    /\ \/ Ends("none")
       \/ ~ws.attached /\ ws' = Closed(ws, "none") /\ UNCHANGED <<pageVars, lingering, reply>>
    /\ UNCHANGED <<server, room>>

Forgotten == lingering # <<>> /\ lingering' = <<>> /\ UNCHANGED <<pageVars, ws, reply, server, room, faults>>

\* New game, or a confirmed delete, gets an answer that shows on the status: the
\* request failed, or the session has ended.
RequestFails ==
    /\ pc # "left"
    /\ status' \in {"Failed"} \cup (IF room.signed_in THEN {} ELSE {"SignedOut"})
    /\ UNCHANGED <<pc, page, queue, ws, lingering, reply, server, room>>

Fault ==
    /\ faults > 0 /\ faults' = faults - 1
    /\ Stop \/ Delete \/ Remove \/ SignOut \/ Drop \/ Late \/ RequestFails

Clicked ==
    /\ \/ \E i \in Investigators : ClickAnswer(i) \/ \E a \in Accounts : ClickReassign(i, a)
       \/ \E t \in {"Take", "Start"} : ClickInLobby(t)
    /\ UNCHANGED <<ws, lingering, reply, server, room, faults>>

Transport ==
    /\ \/ CheckSignIn /\ UNCHANGED <<ws, lingering, reply>>
       \/ Connect /\ UNCHANGED reply
       \/ Backoff /\ UNCHANGED <<ws, lingering, reply>>
       \/ SendOutbound /\ UNCHANGED <<lingering, reply>>
       \/ Receive
       \/ Silence
    /\ UNCHANGED <<server, room, faults>>

Next == Clicked \/ Transport \/ Attach \/ Handle \/ HandleLingering \/ SendReply \/ Others \/ Restart \/ Forgotten \/ Fault

Spec == Init /\ [][Next]_vars

\* The browser runs what is ready, and its timers fire; a server that is up
\* attaches, and one that is down is started.
Fairness == WF_vars(Transport) /\ WF_vars(Attach) /\ WF_vars(Restart)
FairSpec == Spec /\ Fairness

-------------------------------------------------------------------------------
TypeOK ==
    /\ pc \in {"signing in", "connecting", "open", "waiting", "checking", "stopped", "left"}
    /\ status \in Statuses
    /\ page \in [lobby : BOOLEAN, game : Positions, prompt : Positions, assigned : Assignment,
                 last_submit : SUBSET Investigators, blamed : BOOLEAN]
    /\ room.prompt \in Positions /\ room.assigned \in Assignment
    /\ ws.open <=> pc = "open"

\* The transport has let go of its socket without another status to show yet.
Leaving == pc \in {"checking", "left"}

(* The board takes input only on a socket whose Hello it shows, and the lobby only on
   one whose game has not started as far as it was told (store.rs locks_board and
   receive). *)
UnlockedIsCurrent ==
    /\ status = "Connected" => ws.greeted = "game" \/ Leaving
    /\ status = "InLobby" => ws.greeted = "lobby" \/ Leaving

(* Once everything sent on a socket has arrived, the page shows the server's game: its
   state, its prompt and its holders, whatever crossed a reconnect (store.rs reduce). *)
UpToDate ==
    ws.greeted = "game" /\ ws.up /\ ws.attached /\ ws.inbox = <<>> =>
        page.prompt = room.prompt /\ page.game = room.prompt /\ page.assigned = room.assigned

PageTrue == TypeOK /\ UnlockedIsCurrent /\ UpToDate

(* No command reaches a socket other than the one it was clicked on, or one that the
   page was not shown a game on, and an answer names the prompt of the state its player
   saw (transport.rs connect_once, controls.rs send). *)
CommandsMeant ==
    /\ \A k \in DOMAIN ws.outbox : ws.outbox[k].on = "this socket"
    /\ \A q \in {ws.outbox, lingering} : \A k \in DOMAIN q : q[k].type = "Submit" => q[k].prompt = q[k].shown

(* A page never goes back to an earlier state of the game (store.rs reduce). *)
OnlyForward == [][page'.prompt >= page.prompt /\ page'.game >= page.game]_page

(* Once faults end, a page is connected to its game or says why it is not: the server
   coming back is noticed, and no socket is waited on for ever (transport.rs run). *)
Settles == <>[](pc \in {"stopped", "left"} \/ ws.greeted # "no")

===============================================================================
