----------------------------- MODULE Client_proofs ----------------------------
(***************************************************************************)
(* What a page shows and what becomes of its clicks, for any investigators,*)
(* length of game and number of faults.                                    *)
(*                                                                         *)
(* The page lags behind the room by what is in the socket's inbox.  The    *)
(* invariant says of that what survives the next frame, whichever it is:   *)
(* nothing in it is ahead of the room, a Hello in it is not behind what is *)
(* before it, and what the room holds is in it unless the page shows it.   *)
(***************************************************************************)
EXTENDS Client, SequenceTheorems, TLAPS

Ons == {"this socket", "no socket", "an earlier socket"}
Submits == {c \in [type : {"Submit"}, prompt : Positions, investigator : Investigators,
                   on : Ons, shown : Positions] : c.prompt = c.shown /\ c.prompt < MaxPrompt}
Reassigns == [type : {"Reassign"}, investigator : Investigators, to : Accounts, on : Ons]
LobbyCommands == [type : {"Take", "Start"}, on : Ons]
Commands == Submits \cup Reassigns \cup LobbyCommands

Builds == {"ours", "theirs"}
Hellos == {f \in [type : {"Hello"}, build : Builds, prompt : Positions, game : Positions,
                  assigned : Assignment] : f.game = f.prompt}
Lobbies == [type : {"Lobby"}, build : Builds]
Applieds == {f \in [type : {"Applied"}, answered : Positions, prompt : Positions, game : Positions] :
                f.prompt = f.answered + 1 /\ f.game = f.prompt}
Assigneds == [type : {"Assigned"}, assigned : Assignment]
Whys == {"", "NotStarted", "StalePrompt", "NotYours", "Engine", "Failed", "Reassign"}
Replies == [type : {"Rejected", "LobbyRefused"}, why : Whys]
Codes == {"restarting", "none", "unauthenticated", "unresumable", "not found", "deleted",
          "no longer a member"}
Closes == [type : {"Close"}, code : Codes]
Frames == Hellos \cup Lobbies \cup Applieds \cup Assigneds \cup Replies \cup Closes

Types ==
    /\ pc \in {"signing in", "connecting", "open", "waiting", "checking", "stopped", "left"}
    /\ status \in Statuses
    /\ page \in [lobby : BOOLEAN, game : Positions, prompt : Positions, assigned : Assignment,
                 last_submit : SUBSET Investigators, blamed : BOOLEAN]
    /\ queue \in Seq(Commands) /\ lingering \in Seq(Commands) /\ reply \in Seq(Replies)
    /\ ws \in [open : BOOLEAN, attached : BOOLEAN, up : BOOLEAN,
               greeted : {"no", "game", "lobby"}, inbox : Seq(Frames), outbox : Seq(Commands)]
    /\ server \in [up : BOOLEAN, build : Builds, resumes : BOOLEAN]
    /\ room \in [phase : {"lobby", "live", "deleted"}, prompt : Positions, creator : Accounts,
                 assigned : Assignment, signed_in : BOOLEAN]

OneSocket == IF pc = "open" THEN ws.open ELSE ws = NoSocket

\* What is clicked while no socket is up is never sent: the page is done.
QueueMeant ==
    pc \notin {"checking", "stopped", "left"} => \A k \in DOMAIN queue : queue[k].on = "this socket"
OutboxMeant == \A k \in DOMAIN ws.outbox : ws.outbox[k].on = "this socket"

CarriesState(f) == f.type \in {"Hello", "Applied"}
CarriesHolders(f) == f.type \in {"Hello", "Assigned"}

\* Of what waits in an inbox, for a page at prompt p and a room at prompt r:
\* none is ahead of the room, and no Hello behind the page or what precedes it.
Ordered(inbox, p, r) ==
    /\ p <= r
    /\ \A k \in DOMAIN inbox : CarriesState(inbox[k]) => inbox[k].prompt <= r
    /\ \A k \in DOMAIN inbox : inbox[k].type = "Hello" =>
          /\ p <= inbox[k].prompt
          /\ \A j \in DOMAIN inbox : j < k /\ CarriesState(inbox[j]) => inbox[j].prompt <= inbox[k].prompt

HasHello(inbox) == \E k \in DOMAIN inbox : inbox[k].type = "Hello"

\* The page shows the room's prompt, or a frame is on its way that does.
StateComing(inbox, p, r) ==
    p = r \/ \E k \in DOMAIN inbox : CarriesState(inbox[k]) /\ inbox[k].prompt = r

\* The last frame to say who holds whom says what the room has, or none does
\* and the page has it.
NoneAfter(inbox, k) == \A j \in DOMAIN inbox : j > k => ~CarriesHolders(inbox[j])
HoldersComing(inbox, a, h) ==
    \/ a = h /\ \A k \in DOMAIN inbox : ~CarriesHolders(inbox[k])
    \/ \E k \in DOMAIN inbox :
          CarriesHolders(inbox[k]) /\ inbox[k].assigned = h /\ NoneAfter(inbox, k)

\* Whether the game is told of on this socket.
Followed == ws.attached /\ ws.up /\ (ws.greeted = "game" \/ HasHello(ws.inbox))

\* Nothing is said on a socket before the server attaches it.
Fresh == ws.up /\ ~ws.attached => ws.greeted = "no" /\ ws.inbox = <<>>

NewsInv ==
    /\ Fresh
    /\ page.game = page.prompt
    /\ Ordered(ws.inbox, page.prompt, room.prompt)
    /\ Followed => /\ StateComing(ws.inbox, page.prompt, room.prompt)
                   /\ HoldersComing(ws.inbox, page.assigned, room.assigned)

IndInv ==
    /\ Types
    /\ OneSocket
    /\ UnlockedIsCurrent
    /\ QueueMeant
    /\ OutboxMeant
    /\ NewsInv

LEMMA InitInd == Init => IndInv
<1> SUFFICES ASSUME Init PROVE IndInv
    OBVIOUS
<1>1. /\ <<>> \in Seq(Commands) /\ <<>> \in Seq(Frames) /\ <<>> \in Seq(Replies)
      /\ Len(<<>>) = 0 /\ DOMAIN <<>> = {}
      BY EmptySeq, LenProperties
<1>2. 0 \in Positions /\ Nobody \in Assignment
      BY ClientAssumption DEF Positions, Nobody, Assignment, Accounts
<1>3. Types
  <2>1. page \in [lobby : BOOLEAN, game : Positions, prompt : Positions, assigned : Assignment,
                  last_submit : SUBSET Investigators, blamed : BOOLEAN]
        BY <1>2 DEF Init
  <2>2. room \in [phase : {"lobby", "live", "deleted"}, prompt : Positions, creator : Accounts,
                  assigned : Assignment, signed_in : BOOLEAN]
    <3>1. PICK phase \in {"lobby", "live"}, creator \in Accounts, assigned \in Assignment :
             room = [phase |-> phase, prompt |-> 0, creator |-> creator, assigned |-> assigned,
                     signed_in |-> TRUE]
          BY DEF Init
    <3> QED BY <1>2, <3>1
  <2>3. ws \in [open : BOOLEAN, attached : BOOLEAN, up : BOOLEAN,
                greeted : {"no", "game", "lobby"}, inbox : Seq(Frames), outbox : Seq(Commands)]
        BY <1>1 DEF Init, NoSocket
  <2> QED BY <1>1, <2>1, <2>2, <2>3 DEF Init, Types, Statuses, Builds
<1>4. NewsInv
  <2>1. page.prompt = 0 /\ page.game = 0 /\ room.prompt = 0 /\ ws.inbox = <<>> /\ ~ws.attached
    <3>1. ws.inbox = <<>> /\ ~ws.attached
          BY DEF Init, NoSocket
    <3>2. page.prompt = 0 /\ page.game = 0
          BY DEF Init
    <3>3. PICK phase \in {"lobby", "live"}, creator \in Accounts, assigned \in Assignment :
             room = [phase |-> phase, prompt |-> 0, creator |-> creator, assigned |-> assigned,
                     signed_in |-> TRUE]
          BY DEF Init
    <3> QED BY <3>1, <3>2, <3>3
  <2>2. Fresh
        BY DEF Init, NoSocket, Fresh
  <2> QED BY <1>1, <2>1, <2>2 DEF NewsInv, Ordered, Followed
<1>5. OneSocket /\ QueueMeant /\ OutboxMeant /\ UnlockedIsCurrent
      BY <1>1 DEF Init, NoSocket, OneSocket, QueueMeant, OutboxMeant, UnlockedIsCurrent
<1> QED BY <1>3, <1>4, <1>5 DEF IndInv

-------------------------------------------------------------------------------
(* Frames *)

LEMMA FrameFields ==
    ASSUME NEW f \in Frames
    PROVE  /\ f.type \in {"Hello", "Lobby", "Applied", "Assigned", "Rejected", "LobbyRefused", "Close"}
           /\ f.type = "Hello" => f \in Hellos
           /\ f.type = "Applied" => f \in Applieds
           /\ f.type = "Assigned" => f \in Assigneds
           /\ f.type = "Close" => f \in Closes
BY DEF Frames, Hellos, Lobbies, Applieds, Assigneds, Replies, Closes

LEMMA FramesMade ==
    ASSUME Types
    PROVE  /\ Hello \in Frames /\ LobbyFrame \in Frames
           /\ \A p \in Positions : p < MaxPrompt => Applied(p) \in Frames
           /\ \A a \in Assignment : Assigned(a) \in Frames
           /\ \A code \in Codes : Close(code) \in Frames
           /\ \A r \in Replies : r \in Frames
<1>1. Hello \in Hellos
      BY DEF Hello, Hellos, Types
<1>2. LobbyFrame \in Lobbies
      BY DEF LobbyFrame, Lobbies, Types
<1>3. ASSUME NEW p \in Positions, p < MaxPrompt PROVE Applied(p) \in Applieds
      BY <1>3, ClientAssumption DEF Applied, Applieds, Positions
<1>4. ASSUME NEW a \in Assignment PROVE Assigned(a) \in Assigneds
      BY DEF Assigned, Assigneds
<1>5. ASSUME NEW code \in Codes PROVE Close(code) \in Closes
      BY DEF Close, Closes
<1> QED BY <1>1, <1>2, <1>3, <1>4, <1>5 DEF Frames

LEMMA CommandFields ==
    ASSUME NEW c \in Commands
    PROVE  /\ c.type \in {"Submit", "Reassign", "Take", "Start"}
           /\ c.type = "Submit" => c \in Submits
           /\ c.type = "Reassign" => c \in Reassigns
           /\ [c EXCEPT !.on = "no socket"] \in Commands
<1>1. CASE c \in Submits
      BY <1>1 DEF Commands, Submits, Ons
<1>2. CASE c \in Reassigns
      BY <1>2 DEF Commands, Reassigns, Ons
<1>3. CASE c \in LobbyCommands
      BY <1>3 DEF Commands, LobbyCommands, Ons
<1> QED BY <1>1, <1>2, <1>3 DEF Commands

-------------------------------------------------------------------------------
(* A change, and its news *)


FrameNumbers(f) == CarriesState(f) => f.prompt \in Nat

LEMMA FrameIsNumbered == \A f \in Frames : FrameNumbers(f)
BY FrameFields, ClientAssumption DEF FrameNumbers, CarriesState, Hellos, Applieds, Positions

\* What more is sent leaves an inbox in order, when it is of the room it is sent by.
LEMMA MoreOrdered ==
    ASSUME NEW inbox \in Seq(Frames), NEW more \in Seq(Frames),
           NEW p \in Nat, NEW r \in Nat, NEW s \in Nat, Ordered(inbox, p, r), r <= s,
           \A k \in DOMAIN more : /\ CarriesState(more[k]) => more[k].prompt <= s
                                  /\ more[k].type = "Hello" => more[k].prompt = s
    PROVE  Ordered(inbox \o more, p, s)
<1> DEFINE both == inbox \o more
           n == Len(inbox)
<1>1. /\ n \in Nat /\ Len(more) \in Nat
      /\ DOMAIN inbox = 1..n /\ DOMAIN more = 1..Len(more) /\ DOMAIN both = 1..(n + Len(more))
      /\ \A k \in 1..n : both[k] = inbox[k]
      /\ \A k \in (n + 1)..(n + Len(more)) : both[k] = more[k - n]
      BY LenProperties, ConcatProperties
<1>2. \A k \in 1..n : FrameNumbers(inbox[k])
      BY FrameIsNumbered, ElementOfSeq
<1> HIDE DEF both, n
<1>3. ASSUME NEW k \in DOMAIN both
      PROVE  \/ k \in 1..n /\ both[k] = inbox[k]
             \/ k > n /\ \E m \in DOMAIN more : both[k] = more[m]
  <2>1. CASE k > n
    <3>1. k \in (n + 1)..(n + Len(more))
          BY <1>1, <2>1
    <3>2. k - n \in 1..Len(more)
          BY <1>1, <3>1
    <3>3. both[k] = more[k - n]
          BY <1>1, <3>1
    <3> QED BY <1>1, <2>1, <3>2, <3>3
  <2> QED BY <1>1, <2>1
<1>4. ASSUME NEW k \in DOMAIN both, CarriesState(both[k]) PROVE both[k].prompt <= s
      BY <1>1, <1>2, <1>3, <1>4 DEF Ordered, FrameNumbers
<1>5. ASSUME NEW k \in DOMAIN both, both[k].type = "Hello"
      PROVE  /\ p <= both[k].prompt
             /\ \A j \in DOMAIN both : j < k /\ CarriesState(both[j]) => both[j].prompt <= both[k].prompt
  <2>1. CASE k \in 1..n /\ both[k] = inbox[k]
        BY <1>1, <1>5, <2>1 DEF Ordered
  <2>2. CASE \E m \in DOMAIN more : both[k] = more[m]
    <3>1. both[k].prompt = s
          BY <1>5, <2>2
    <3> QED BY <1>4, <3>1 DEF Ordered
  <2> QED BY <1>3, <2>1, <2>2
<1>6. Ordered(both, p, s)
      BY <1>4, <1>5 DEF Ordered
<1> QED BY <1>6 DEF both

\* One more frame, that says what the room has become or leaves it to be said.
LEMMA StateFrame ==
    ASSUME NEW inbox \in Seq(Frames), NEW f \in Frames, NEW p, NEW s,
           IF CarriesState(f) THEN f.prompt = s ELSE StateComing(inbox, p, s)
    PROVE  StateComing(Append(inbox, f), p, s)
<1> DEFINE more == Append(inbox, f)
           n == Len(inbox)
<1>1. /\ n \in Nat /\ DOMAIN inbox = 1..n /\ DOMAIN more = 1..(n + 1)
      /\ \A k \in 1..n : more[k] = inbox[k]
      /\ more[n + 1] = f
      BY LenProperties, AppendProperties
<1> HIDE DEF more, n
<1>2. CASE CarriesState(f)
      BY <1>1, <1>2 DEF StateComing, more
<1>3. CASE ~CarriesState(f)
  <2>1. StateComing(more, p, s)
        BY <1>1, <1>3 DEF StateComing
  <2> QED BY <2>1 DEF more
<1> QED BY <1>2, <1>3

LEMMA HoldersFrame ==
    ASSUME NEW inbox \in Seq(Frames), NEW f \in Frames, NEW a, NEW h,
           IF CarriesHolders(f) THEN f.assigned = h ELSE HoldersComing(inbox, a, h)
    PROVE  HoldersComing(Append(inbox, f), a, h)
<1> DEFINE more == Append(inbox, f)
           n == Len(inbox)
<1>1. /\ n \in Nat /\ DOMAIN inbox = 1..n /\ DOMAIN more = 1..(n + 1)
      /\ \A k \in 1..n : more[k] = inbox[k]
      /\ more[n + 1] = f
      BY LenProperties, AppendProperties
<1> HIDE DEF more, n
<1>2. CASE CarriesHolders(f)
  <2>1. NoneAfter(more, n + 1)
        BY <1>1 DEF NoneAfter
  <2>2. HoldersComing(more, a, h)
        BY <1>1, <1>2, <2>1 DEF HoldersComing
  <2> QED BY <2>2 DEF more
<1>3. CASE ~CarriesHolders(f)
  <2>1. \A j \in DOMAIN more : (j \in DOMAIN inbox /\ more[j] = inbox[j]) \/ more[j] = f
        BY <1>1
  <2>2. CASE a = h /\ \A k \in DOMAIN inbox : ~CarriesHolders(inbox[k])
    <3>1. HoldersComing(more, a, h)
          BY <1>3, <2>1, <2>2 DEF HoldersComing
    <3> QED BY <3>1 DEF more
  <2>3. ASSUME NEW k \in DOMAIN inbox, CarriesHolders(inbox[k]), inbox[k].assigned = h,
               NoneAfter(inbox, k)
        PROVE  HoldersComing(Append(inbox, f), a, h)
    <3>1. k \in DOMAIN more /\ more[k] = inbox[k]
          BY <1>1
    <3>2. NoneAfter(more, k)
          BY <1>3, <2>1, <2>3 DEF NoneAfter
    <3>3. HoldersComing(more, a, h)
          BY <2>3, <3>1, <3>2 DEF HoldersComing
    <3> QED BY <3>3 DEF more
  <2>4. HoldersComing(Append(inbox, f), a, h)
    <3>1. HoldersComing(inbox, a, h)
          BY <1>3
    <3>2. \/ a = h /\ \A k \in DOMAIN inbox : ~CarriesHolders(inbox[k])
          \/ \E k \in DOMAIN inbox :
                CarriesHolders(inbox[k]) /\ inbox[k].assigned = h /\ NoneAfter(inbox, k)
          BY <3>1 DEF HoldersComing
    <3>3. CASE \E k \in DOMAIN inbox :
             CarriesHolders(inbox[k]) /\ inbox[k].assigned = h /\ NoneAfter(inbox, k)
          BY <2>3, <3>3
    <3> QED BY <2>2, <3>2, <3>3
  <2> QED BY <2>4
<1> QED BY <1>2, <1>3

\* The page's prompt after a frame.
Folded(f, p) ==
    IF f.type = "Hello" THEN f.prompt
    ELSE IF f.type = "Applied" /\ f.answered >= p THEN f.prompt ELSE p

\* What waits behind the frame the page takes in.
LEMMA TailOrdered ==
    ASSUME NEW inbox \in Seq(Frames), inbox # <<>>, NEW p \in Nat, NEW r \in Nat, Ordered(inbox, p, r)
    PROVE  /\ Ordered(Tail(inbox), Folded(Head(inbox), p), r)
           /\ p <= Folded(Head(inbox), p)
<1> DEFINE f == Head(inbox)
           q == Folded(f, p)
           rest == Tail(inbox)
<1>1. /\ Len(inbox) \in Nat \ {0} /\ DOMAIN inbox = 1..Len(inbox)
      /\ DOMAIN rest = 1..(Len(inbox) - 1)
      /\ \A k \in DOMAIN rest : k + 1 \in DOMAIN inbox /\ rest[k] = inbox[k + 1]
      /\ f = inbox[1] /\ 1 \in DOMAIN inbox
      BY LenProperties, HeadTailProperties, EmptySeq
<1>2. f \in Frames /\ \A k \in DOMAIN inbox : FrameNumbers(inbox[k])
      BY <1>1, FrameIsNumbered, ElementOfSeq
<1>3. f.type = "Applied" => f.prompt = f.answered + 1 /\ f.answered \in Nat
      BY <1>2, FrameFields, ClientAssumption DEF Applieds, Positions
<1> HIDE DEF f, rest
<1>4. p <= q /\ q <= r /\ (q = p \/ (CarriesState(f) /\ q = f.prompt))
      BY <1>1, <1>2, <1>3 DEF Ordered, Folded, CarriesState, FrameNumbers
<1>5. ASSUME NEW k \in DOMAIN rest, rest[k].type = "Hello"
      PROVE  /\ q <= rest[k].prompt
             /\ \A j \in DOMAIN rest : j < k /\ CarriesState(rest[j]) => rest[j].prompt <= rest[k].prompt
  <2>1. /\ p <= inbox[k + 1].prompt
        /\ \A j \in DOMAIN inbox : j < k + 1 /\ CarriesState(inbox[j]) => inbox[j].prompt <= inbox[k + 1].prompt
        BY <1>1, <1>5 DEF Ordered
  <2>2. 1 < k + 1 /\ \A j \in DOMAIN rest : j < k => j + 1 < k + 1
        BY <1>1
  <2> QED BY <1>1, <1>4, <2>1, <2>2
<1>6. Ordered(rest, q, r)
      BY <1>1, <1>4, <1>5 DEF Ordered
<1> QED BY <1>4, <1>6 DEF f, rest

LEMMA TailComing ==
    ASSUME NEW inbox \in Seq(Frames), inbox # <<>>, NEW p \in Nat, NEW r \in Nat, Ordered(inbox, p, r),
           NEW a, NEW h
    PROVE  LET f == Head(inbox) IN
           /\ StateComing(inbox, p, r) => StateComing(Tail(inbox), Folded(f, p), r)
           /\ HoldersComing(inbox, a, h) =>
                 HoldersComing(Tail(inbox), IF CarriesHolders(f) THEN f.assigned ELSE a, h)
<1> DEFINE f == Head(inbox)
           q == Folded(f, p)
           rest == Tail(inbox)
           b == IF CarriesHolders(f) THEN f.assigned ELSE a
<1>1. /\ Len(inbox) \in Nat \ {0} /\ DOMAIN inbox = 1..Len(inbox)
      /\ DOMAIN rest = 1..(Len(inbox) - 1)
      /\ \A k \in DOMAIN rest : k + 1 \in DOMAIN inbox /\ rest[k] = inbox[k + 1]
      /\ f = inbox[1]
      BY LenProperties, HeadTailProperties, EmptySeq
<1>2. f \in Frames
      BY <1>1, ElementOfSeq
<1>3. f.type = "Applied" => f.prompt = f.answered + 1 /\ f.answered \in Nat
      BY <1>2, FrameFields, ClientAssumption DEF Applieds, Positions
<1>4. ASSUME NEW k \in DOMAIN inbox, k # 1
      PROVE  k - 1 \in DOMAIN rest /\ inbox[k] = rest[k - 1]
  <2>1. k - 1 \in 1..(Len(inbox) - 1) /\ (k - 1) + 1 = k
        BY <1>1, <1>4
  <2> HIDE DEF rest
  <2> QED BY <1>1, <2>1
<1> HIDE DEF f, rest
<1>5. ASSUME StateComing(inbox, p, r) PROVE StateComing(rest, q, r)
  <2>1. p <= q /\ q <= r
    <3>1. Ordered(rest, q, r) /\ p <= q
          BY TailOrdered DEF f, rest
    <3> QED BY <3>1 DEF Ordered
  <2>2. CASE p = r
    <3>1. q \in Nat
          BY <1>2, FrameIsNumbered DEF Folded, FrameNumbers, CarriesState
    <3> QED BY <2>1, <2>2, <3>1 DEF StateComing
  <2>3. CASE CarriesState(f) /\ f.prompt = r
    <3>1. q = r
      <4>1. CASE f.type = "Hello"
            BY <2>3, <4>1 DEF Folded
      <4>2. CASE f.type = "Applied"
            BY <1>3, <2>1, <2>3, <4>2 DEF Folded, Ordered
      <4> QED BY <2>3, <4>1, <4>2 DEF CarriesState
    <3> QED BY <3>1 DEF StateComing
  <2>4. CASE \E k \in DOMAIN rest : CarriesState(rest[k]) /\ rest[k].prompt = r
        BY <2>4 DEF StateComing
  <2> QED BY <1>1, <1>4, <1>5, <2>2, <2>3, <2>4 DEF StateComing
<1>6. ASSUME HoldersComing(inbox, a, h) PROVE HoldersComing(rest, b, h)
  <2>1. CASE a = h /\ \A k \in DOMAIN inbox : ~CarriesHolders(inbox[k])
    <3>1. ~CarriesHolders(f) /\ \A k \in DOMAIN rest : ~CarriesHolders(rest[k])
          BY <1>1, <2>1
    <3> QED BY <2>1, <3>1 DEF HoldersComing
  <2>2. ASSUME NEW k \in DOMAIN inbox, CarriesHolders(inbox[k]), inbox[k].assigned = h,
               NoneAfter(inbox, k)
        PROVE  HoldersComing(rest, b, h)
    <3>1. CASE k = 1
      <4>1. \A j \in DOMAIN rest : ~CarriesHolders(rest[j])
            BY <1>1, <2>2, <3>1 DEF NoneAfter
      <4> QED BY <1>1, <2>2, <3>1, <4>1 DEF HoldersComing
    <3>2. CASE k # 1
      <4>1. k - 1 \in DOMAIN rest /\ rest[k - 1] = inbox[k]
            BY <1>4, <3>2
      <4>2. NoneAfter(rest, k - 1)
            BY <1>1, <2>2 DEF NoneAfter
      <4> QED BY <2>2, <4>1, <4>2 DEF HoldersComing
    <3> QED BY <3>1, <3>2
  <2> QED BY <1>6, <2>1, <2>2 DEF HoldersComing
<1> QED BY <1>5, <1>6 DEF f, rest

-------------------------------------------------------------------------------
(* Steps of the server and the network *)

Sockets == [open : BOOLEAN, attached : BOOLEAN, up : BOOLEAN,
            greeted : {"no", "game", "lobby"}, inbox : Seq(Frames), outbox : Seq(Commands)]
Rooms == [phase : {"lobby", "live", "deleted"}, prompt : Positions, creator : Accounts,
          assigned : Assignment, signed_in : BOOLEAN]

LEMMA Numbers ==
    ASSUME Types
    PROVE  /\ Positions \subseteq Nat
           /\ ws \in Sockets /\ room \in Rooms
           /\ ws.inbox \in Seq(Frames) /\ ws.outbox \in Seq(Commands)
           /\ page.prompt \in Nat /\ room.prompt \in Nat
           /\ page.prompt \in Positions /\ room.prompt \in Positions
<1>1. ws \in Sockets /\ room \in Rooms
      BY DEF Types, Sockets, Rooms
<1>2. page.prompt \in Positions /\ room.prompt \in Positions
      BY DEF Types
<1>3. Positions \subseteq Nat
      BY ClientAssumption DEF Positions
<1> QED BY <1>1, <1>2, <1>3 DEF Sockets

\* A frame that says of the room what it is after a step.
Brings(f) ==
    /\ f \in Frames
    /\ room' \in Rooms /\ room.prompt <= room'.prompt
    /\ IF CarriesState(f) THEN f.prompt = room'.prompt ELSE room'.prompt = room.prompt
    /\ IF CarriesHolders(f) THEN f.assigned = room'.assigned ELSE room'.assigned = room.assigned

\* A socket with the same inbox, whatever else of it has been read.
Alike(w) ==
    /\ w \in Sockets
    /\ w.inbox = ws.inbox /\ w.attached = ws.attached /\ w.up = ws.up /\ w.greeted = ws.greeted

LEMMA OrderedOnward ==
    ASSUME NEW inbox \in Seq(Frames), NEW p \in Nat, NEW r \in Nat, NEW s \in Nat,
           Ordered(inbox, p, r), r <= s
    PROVE  Ordered(inbox, p, s)
<1>1. <<>> \in Seq(Frames) /\ DOMAIN <<>> = {} /\ inbox \o <<>> = inbox
      BY EmptySeq, LenProperties, ConcatEmptySeq
<1>2. Ordered(inbox \o <<>>, p, s)
      BY <1>1, MoreOrdered
<1> QED BY <1>1, <1>2

LEMMA MoreFrame ==
    ASSUME NEW inbox \in Seq(Frames), NEW f \in Frames,
           NEW p \in Nat, NEW r \in Nat, NEW s \in Nat, Ordered(inbox, p, r), r <= s,
           CarriesState(f) => f.prompt = s
    PROVE  Ordered(Append(inbox, f), p, s)
<1>1. /\ <<f>> \in Seq(Frames) /\ DOMAIN <<f>> = 1..1 /\ <<f>>[1] = f
      /\ Append(inbox, f) = inbox \o <<f>>
      BY AppendIsConcat
<1>2. \A k \in DOMAIN <<f>> : <<f>>[k] = f
      BY <1>1
<1>3. Ordered(inbox \o <<f>>, p, s)
  <2> DEFINE more == <<f>>
  <2>1. \A k \in DOMAIN more : /\ CarriesState(more[k]) => more[k].prompt <= s
                               /\ more[k].type = "Hello" => more[k].prompt = s
        BY <1>2 DEF CarriesState
  <2>2. more \in Seq(Frames)
        BY <1>1
  <2> HIDE DEF more
  <2>3. Ordered(inbox \o more, p, s)
        BY <2>1, <2>2, MoreOrdered
  <2> QED BY <2>3 DEF more
<1> QED BY <1>1, <1>3

LEMMA NewsTold ==
    ASSUME Types, NewsInv, NEW w, Alike(w), NEW f, Brings(f), ws' = Told(w, f), page' = page
    PROVE  /\ NewsInv'
           /\ ws' \in Sockets
           /\ ws'.open = w.open /\ ws'.greeted = w.greeted /\ ws'.outbox = w.outbox
           /\ ~w.attached => ws' = w
<1> DEFINE shows == page.prompt
           has == room.prompt
           gets == room'.prompt
           waiting == ws.inbox
           holders == page.assigned
           held == room.assigned
           holds == room'.assigned
<1>1. waiting \in Seq(Frames) /\ shows \in Nat /\ has \in Nat /\ gets \in Nat /\ has <= gets
  <2>1. room'.prompt \in Positions
        BY DEF Brings, Rooms
  <2> QED BY <2>1, Numbers DEF Brings
<1>2. Ordered(waiting, shows, has) /\ page.game = shows
      BY DEF NewsInv
<1>3. CASE ~(w.attached /\ w.up)
  <2>1. ws' = w
        BY <1>3 DEF Told
  <2>2. Ordered(waiting, shows, gets)
        BY <1>1, <1>2, OrderedOnward
  <2>3. ~Followed'
        BY <1>3, <2>1 DEF Followed
  <2>4. NewsInv'
        BY <1>2, <2>1, <2>2, <2>3 DEF NewsInv, Alike, Fresh
  <2> QED BY <2>1, <2>4 DEF Alike
<1>4. CASE w.attached /\ w.up
  <2> DEFINE more == Append(waiting, f)
  <2>1. ws' = [w EXCEPT !.inbox = more]
        BY <1>4 DEF Told, Alike
  <2>2. more \in Seq(Frames)
        BY <1>1, AppendProperties DEF Brings
  <2>3. Ordered(more, shows, gets)
        BY <1>1, <1>2, MoreFrame DEF Brings
  <2>4. HasHello(more) => f.type = "Hello" \/ HasHello(waiting)
    <3>1. /\ Len(waiting) \in Nat /\ DOMAIN waiting = 1..Len(waiting) /\ DOMAIN more = 1..(Len(waiting) + 1)
          /\ \A k \in 1..Len(waiting) : more[k] = waiting[k]
          /\ more[Len(waiting) + 1] = f
          BY <1>1, LenProperties, AppendProperties DEF Brings
    <3> HIDE DEF more, waiting
    <3> QED BY <3>1 DEF HasHello
  <2> HIDE DEF more
  <2>5. /\ ws' \in Sockets /\ ws'.inbox = more /\ ws'.greeted = ws.greeted
        /\ ws'.open = w.open /\ ws'.outbox = w.outbox
        BY <2>1, <2>2 DEF Alike, Sockets
  <2>6. ASSUME Followed' PROVE StateComing(more, shows, gets) /\ HoldersComing(more, holders, holds)
    <3>1. \/ f.type = "Hello"
          \/ StateComing(waiting, shows, has) /\ HoldersComing(waiting, holders, held)
          BY <1>4, <2>4, <2>5, <2>6 DEF NewsInv, Followed, Alike
    <3>2. /\ f \in Frames
          /\ IF CarriesState(f) THEN f.prompt = gets ELSE f.type # "Hello" /\ gets = has
          /\ IF CarriesHolders(f) THEN f.assigned = holds ELSE f.type # "Hello" /\ holds = held
          BY DEF Brings, CarriesState, CarriesHolders
    <3> HIDE DEF waiting, shows, has, gets, holders, holds, held
    <3>3. IF CarriesState(f) THEN f.prompt = gets ELSE StateComing(waiting, shows, gets)
          BY <3>1, <3>2
    <3>4. IF CarriesHolders(f) THEN f.assigned = holds ELSE HoldersComing(waiting, holders, holds)
          BY <3>1, <3>2
    <3>5. /\ StateComing(Append(waiting, f), shows, gets)
          /\ HoldersComing(Append(waiting, f), holders, holds)
          BY <1>1, <3>2, <3>3, <3>4, StateFrame, HoldersFrame
    <3> QED BY <3>5 DEF more
  <2>7. NewsInv'
    <3>1. Fresh'
          BY <1>4, <2>1 DEF Fresh, Alike, Sockets
    <3> QED BY <1>2, <2>3, <2>5, <2>6, <3>1 DEF NewsInv
  <2> QED BY <1>4, <2>5, <2>7 DEF Alike
<1> QED BY <1>3, <1>4

\* A socket the server is done with is told of nothing more.
LEMMA NewsClosed ==
    ASSUME Types, NewsInv, NEW w, Alike(w), NEW code \in Codes, ws' = Closed(w, code),
           page' = page, room'.prompt = room.prompt
    PROVE  /\ NewsInv'
           /\ ws' \in Sockets
           /\ ws'.open = w.open /\ ws'.greeted = w.greeted /\ ws'.outbox = w.outbox
           /\ w = NoSocket => ws' = NoSocket
<1> DEFINE more == IF w.up THEN Append(ws.inbox, Close(code)) ELSE ws.inbox
<1>1. ws' = [w EXCEPT !.up = FALSE, !.attached = FALSE, !.inbox = more]
      BY DEF Closed, Alike
<1>2. /\ Close(code) \in Frames /\ ~CarriesState(Close(code))
      BY FramesMade DEF Close, CarriesState
<1>3. more \in Seq(Frames) /\ Ordered(more, page.prompt, room.prompt)
  <2>1. /\ ws.inbox \in Seq(Frames) /\ page.prompt \in Nat /\ room.prompt \in Nat
        /\ Ordered(ws.inbox, page.prompt, room.prompt)
        BY Numbers DEF NewsInv
  <2>2. /\ Append(ws.inbox, Close(code)) \in Seq(Frames)
        /\ Ordered(Append(ws.inbox, Close(code)), page.prompt, room.prompt)
        BY <1>2, <2>1, AppendProperties, MoreFrame
  <2> QED BY <2>1, <2>2
<1> HIDE DEF more
<1>4. /\ ws' \in Sockets /\ ws'.inbox = more /\ ~ws'.attached
      /\ ws'.open = w.open /\ ws'.greeted = w.greeted /\ ws'.outbox = w.outbox
      BY <1>1, <1>3 DEF Alike, Sockets
<1>5. NewsInv'
  <2>1. ~ws'.up
        BY <1>1 DEF Alike, Sockets
  <2> QED BY <1>3, <1>4, <2>1 DEF NewsInv, Followed, Fresh
<1>6. ASSUME w = NoSocket PROVE ws' = NoSocket
  <2>1. ~w.up /\ w.inbox = <<>> /\ ~w.attached /\ more = w.inbox
        BY <1>6 DEF more, NoSocket, Alike
  <2> QED BY <1>1, <1>6, <2>1 DEF NoSocket
<1> QED BY <1>4, <1>5, <1>6

\* What a step of the server leaves of the rest of the invariant.
LEMMA ServerStep ==
    ASSUME IndInv, UNCHANGED pageVars, NewsInv', ws' \in Sockets, room' \in Rooms,
           server' \in [up : BOOLEAN, build : Builds, resumes : BOOLEAN],
           lingering' \in Seq(Commands), reply' \in Seq(Replies),
           ws'.open = ws.open, ws'.greeted = ws.greeted,
           \A k \in DOMAIN ws'.outbox : ws'.outbox[k].on = "this socket",
           ws = NoSocket => ws' = NoSocket
    PROVE  IndInv'
<1>1. Types'
      BY DEF IndInv, Types, Sockets, Rooms, pageVars
<1>2. OneSocket' /\ UnlockedIsCurrent' /\ QueueMeant' /\ OutboxMeant'
      BY DEF IndInv, OneSocket, UnlockedIsCurrent, Leaving, QueueMeant, OutboxMeant, pageVars
<1> QED BY <1>1, <1>2 DEF IndInv

-------------------------------------------------------------------------------
(* What the page does *)

Pages == [lobby : BOOLEAN, game : Positions, prompt : Positions, assigned : Assignment,
          last_submit : SUBSET Investigators, blamed : BOOLEAN]

LEMMA Queued ==
    ASSUME NEW q \in Seq(Commands), NEW c \in Commands
    PROVE  /\ Append(q, c) \in Seq(Commands)
           /\ \A k \in DOMAIN Append(q, c) :
                 (k \in DOMAIN q /\ Append(q, c)[k] = q[k]) \/ Append(q, c)[k] = c
<1> DEFINE more == Append(q, c)
           n == Len(q)
<1>1. /\ n \in Nat /\ DOMAIN q = 1..n /\ DOMAIN more = 1..(n + 1)
      /\ \A k \in 1..n : more[k] = q[k]
      /\ more[n + 1] = c
      /\ more \in Seq(Commands)
      BY LenProperties, AppendProperties
<1> HIDE DEF more, n
<1>2. \A k \in DOMAIN more : (k \in DOMAIN q /\ more[k] = q[k]) \/ more[k] = c
      BY <1>1
<1> QED BY <1>1, <1>2 DEF more

LEMMA Click ==
    ASSUME IndInv, NEW c \in Commands, c.on = "this socket", Clicks(c),
           status \in {"Connected", "InLobby"}, UNCHANGED <<pc, status, ws, lingering, reply, server, room>>,
           page' \in Pages, page'.game = page.game, page'.prompt = page.prompt, page'.assigned = page.assigned
    PROVE  IndInv'
<1> DEFINE made == IF ws.open THEN c ELSE [c EXCEPT !.on = "no socket"]
<1>1. made \in Commands /\ (ws.open => made.on = "this socket")
      BY CommandFields
<1>2. queue' = Append(queue, made)
      BY DEF Clicks
<1> HIDE DEF made
<1>3. queue \in Seq(Commands)
      BY DEF IndInv, Types
<1>4. /\ queue' \in Seq(Commands)
      /\ \A k \in DOMAIN queue' : (k \in DOMAIN queue /\ queue'[k] = queue[k]) \/ queue'[k] = made
      BY <1>1, <1>2, <1>3, Queued
<1>5. ASSUME pc \notin {"checking", "stopped", "left"} PROVE ws.open
  <2>1. ws.greeted # "no"
        BY <1>5 DEF IndInv, UnlockedIsCurrent, Leaving
  <2>2. NoSocket.greeted = "no"
        BY DEF NoSocket
  <2>3. ws # NoSocket
        BY <2>1, <2>2
  <2> QED BY <2>3 DEF IndInv, OneSocket
<1>6. QueueMeant'
  <2>1. ASSUME pc \notin {"checking", "stopped", "left"}, NEW k \in DOMAIN queue'
        PROVE  queue'[k].on = "this socket"
    <3>1. /\ made.on = "this socket"
          /\ \A m \in DOMAIN queue : queue[m].on = "this socket"
          BY <1>1, <1>5, <2>1 DEF IndInv, QueueMeant
    <3> QED BY <1>4, <2>1, <3>1
  <2> QED BY <2>1 DEF QueueMeant
<1>7. Types'
  <2>1. queue' \in Seq(Commands) /\ Types
        BY <1>4 DEF IndInv
  <2>2. (pc \in {"signing in", "connecting", "open", "waiting", "checking", "stopped", "left"} /\ status \in Statuses)'
        BY <2>1 DEF Types
  <2>3. (lingering \in Seq(Commands) /\ reply \in Seq(Replies) /\ ws \in Sockets /\ room \in Rooms)'
        BY <2>1 DEF Types, Sockets, Rooms
  <2>4. (server \in [up : BOOLEAN, build : Builds, resumes : BOOLEAN])'
        BY <2>1 DEF Types
  <2>5. page' \in Pages
        OBVIOUS
  <2> HIDE DEF Statuses, Commands, Replies, Builds
  <2> QED BY <2>1, <2>2, <2>3, <2>4, <2>5 DEF Types, Sockets, Rooms, Pages
<1>8. NewsInv'
      BY DEF IndInv, NewsInv, Fresh, Followed
<1>9. OneSocket' /\ UnlockedIsCurrent' /\ OutboxMeant'
      BY DEF IndInv, OneSocket, UnlockedIsCurrent, Leaving, OutboxMeant
<1> QED BY <1>6, <1>7, <1>8, <1>9 DEF IndInv

LEMMA StepClicked == ASSUME IndInv, Clicked PROVE IndInv'
<1>1. page \in Pages /\ page.game = page.prompt /\ page.prompt \in Positions /\ page.game \in Positions
      BY DEF IndInv, Types, NewsInv, Pages
<1>2. ASSUME NEW i \in Investigators, ClickAnswer(i), UNCHANGED <<ws, lingering, reply, server, room, faults>>
      PROVE  IndInv'
  <2> DEFINE c == Submit(page.prompt, i)
  <2>1. c \in Submits /\ c.on = "this socket"
        BY <1>1, <1>2, ClientAssumption DEF ClickAnswer, Awaits, Submit, Submits, Ons, Positions
  <2>2. /\ page' \in Pages /\ page'.game = page.game /\ page'.prompt = page.prompt
        /\ page'.assigned = page.assigned
        BY <1>1, <1>2 DEF ClickAnswer, Pages
  <2>3. Clicks(c) /\ status = "Connected" /\ UNCHANGED <<pc, status>>
        BY <1>2 DEF ClickAnswer, LocksBoard
  <2> HIDE DEF c
  <2> QED BY <1>2, <2>1, <2>2, <2>3, Click DEF Commands
<1>3. ASSUME NEW i \in Investigators, NEW a \in Accounts, ClickReassign(i, a),
             UNCHANGED <<ws, lingering, reply, server, room, faults>>
      PROVE  IndInv'
  <2> DEFINE c == Reassign(i, a)
  <2>1. c \in Reassigns /\ c.on = "this socket"
        BY DEF Reassign, Reassigns, Ons
  <2>2. Clicks(c) /\ status = "Connected" /\ UNCHANGED <<pc, status, page>>
        BY <1>3 DEF ClickReassign, LocksBoard
  <2> HIDE DEF c
  <2> QED BY <1>1, <1>3, <2>1, <2>2, Click DEF Commands
<1>4. ASSUME NEW t \in {"Take", "Start"}, ClickInLobby(t),
             UNCHANGED <<ws, lingering, reply, server, room, faults>>
      PROVE  IndInv'
  <2> DEFINE c == LobbyCommand(t)
  <2>1. c \in LobbyCommands /\ c.on = "this socket"
        BY DEF LobbyCommand, LobbyCommands, Ons
  <2>2. Clicks(c) /\ status = "InLobby" /\ UNCHANGED <<pc, status, page>>
        BY <1>4 DEF ClickInLobby
  <2> HIDE DEF c
  <2> QED BY <1>1, <1>4, <2>1, <2>2, Click DEF Commands
<1> QED BY <1>2, <1>3, <1>4 DEF Clicked

LEMMA NothingQueued == Outlived(Drained) \in Seq(Commands) /\ DOMAIN Outlived(Drained) = {}
<1>1. DOMAIN Drained = {}
      BY LenProperties, EmptySeq DEF Drained
<1>2. Outlived(Drained) \in [1..0 -> Commands]
      BY <1>1 DEF Outlived
<1> QED BY <1>1, <1>2, SeqDef DEF Outlived

\* However a socket ends.
LEMMA HungUp ==
    ASSUME IndInv, Hangup, UNCHANGED <<page, server, room>>, status' \in Statuses,
           pc' \in {"waiting", "checking", "stopped", "left"},
           status' \in {"Connected", "InLobby"} => pc' \in {"checking", "left"}
    PROVE  IndInv'
<1>1. /\ queue' \in Seq(Commands) /\ DOMAIN queue' = {}
      BY NothingQueued DEF Hangup
<1>2. /\ <<>> \in Seq(Commands) /\ <<>> \in Seq(Frames) /\ <<>> \in Seq(Replies)
      /\ DOMAIN <<>> = {}
      BY EmptySeq, LenProperties
<1>3. lingering' \in Seq(Commands)
      BY <1>2, Numbers DEF Hangup, IndInv
<1>4. /\ ws' = NoSocket /\ ~NoSocket.attached /\ ~NoSocket.up /\ ~NoSocket.open
      /\ NoSocket.inbox = <<>> /\ NoSocket.outbox = <<>> /\ NoSocket \in Sockets
      BY <1>2 DEF Hangup, NoSocket, Sockets
<1>5. Types'
      BY <1>1, <1>2, <1>3, <1>4 DEF IndInv, Types, Sockets, Hangup
<1>6. NewsInv'
      BY <1>2, <1>4, Numbers DEF IndInv, NewsInv, Ordered, Fresh, Followed
<1>7. OneSocket' /\ UnlockedIsCurrent' /\ QueueMeant' /\ OutboxMeant'
      BY <1>1, <1>2, <1>4 DEF OneSocket, UnlockedIsCurrent, Leaving, QueueMeant, OutboxMeant
<1> QED BY <1>5, <1>6, <1>7 DEF IndInv

LEMMA Ended ==
    ASSUME IndInv, NEW code \in Codes, Ends(code), UNCHANGED <<server, room>>
    PROVE  IndInv'
<1>1. status \in Statuses
      BY DEF IndInv, Types
<1>2. /\ status' \in Statuses /\ pc' \in {"waiting", "checking", "stopped", "left"}
      /\ status' \in {"Connected", "InLobby"} => pc' \in {"checking", "left"}
      BY <1>1 DEF Ends, NextStep, RetryingAfter, Codes, Statuses
<1> QED BY <1>2, HungUp DEF Ends

\* The page after a frame, of which Folded is the prompt.
LEMMA ReducedPage ==
    ASSUME Types, page.game = page.prompt, NEW f \in Frames
    PROVE  /\ Reduced(f) \in Pages
           /\ Reduced(f).prompt = Folded(f, page.prompt) /\ Reduced(f).game = Reduced(f).prompt
           /\ Reduced(f).assigned = IF CarriesHolders(f) THEN f.assigned ELSE page.assigned
<1>1. page \in Pages /\ page.prompt \in Nat
      BY Numbers DEF Types, Pages
<1>2. CASE f.type = "Hello"
  <2>1. f \in Hellos
        BY <1>2, FrameFields
  <2>2. Reduced(f) = [lobby |-> FALSE, game |-> f.game, prompt |-> f.prompt, assigned |-> f.assigned,
                      last_submit |-> {}, blamed |-> FALSE]
        BY <1>2 DEF Reduced
  <2> QED BY <1>2, <2>1, <2>2 DEF Pages, Hellos, Folded, CarriesHolders
<1>3. CASE f.type = "Applied"
  <2>1. f \in Applieds
        BY <1>3, FrameFields
  <2>2. f.answered \in Nat /\ f.prompt \in Positions /\ f.game = f.prompt /\ f.game \in Positions
        BY <2>1, ClientAssumption DEF Applieds, Positions
  <2>3. CASE f.answered < page.prompt
    <3>1. Reduced(f) = page
          BY <1>3, <2>3 DEF Reduced
    <3> QED BY <1>1, <1>3, <2>2, <2>3, <3>1 DEF Folded, CarriesHolders
  <2>4. CASE ~(f.answered < page.prompt)
    <3>1. Reduced(f) = [page EXCEPT !.game = f.game, !.prompt = f.prompt]
          BY <1>3, <2>4 DEF Reduced
    <3>2. /\ Reduced(f) \in Pages /\ Reduced(f).game = f.game /\ Reduced(f).prompt = f.prompt
          /\ Reduced(f).assigned = page.assigned
          BY <1>1, <2>2, <3>1 DEF Pages
    <3> QED BY <1>1, <1>3, <2>2, <2>4, <3>2 DEF Folded, CarriesHolders
  <2> QED BY <2>3, <2>4
<1>4. CASE f.type = "Assigned"
  <2>1. f.assigned \in Assignment
        BY <1>4, FrameFields DEF Assigneds
  <2>2. Reduced(f) = [page EXCEPT !.assigned = f.assigned]
        BY <1>4 DEF Reduced
  <2>3. /\ Reduced(f) \in Pages /\ Reduced(f).game = page.game /\ Reduced(f).prompt = page.prompt
        /\ Reduced(f).assigned = f.assigned
        BY <1>1, <2>1, <2>2 DEF Pages
  <2> QED BY <1>4, <2>3 DEF Folded, CarriesHolders
<1>5. CASE f.type = "Lobby"
  <2>1. Reduced(f) = [page EXCEPT !.lobby = TRUE]
        BY <1>5 DEF Reduced
  <2>2. /\ Reduced(f) \in Pages /\ Reduced(f).game = page.game /\ Reduced(f).prompt = page.prompt
        /\ Reduced(f).assigned = page.assigned
        BY <1>1, <2>1 DEF Pages
  <2> QED BY <1>5, <2>2 DEF Folded, CarriesHolders
<1>6. CASE f.type = "Rejected"
  <2> DEFINE blamed == Blamed(f.why)
  <2>1. blamed \in BOOLEAN
        BY <1>1 DEF Blamed, Pages
  <2>2. Reduced(f) = [page EXCEPT !.blamed = blamed]
        BY <1>6 DEF Reduced
  <2> HIDE DEF blamed
  <2>3. /\ Reduced(f) \in Pages /\ Reduced(f).game = page.game /\ Reduced(f).prompt = page.prompt
        /\ Reduced(f).assigned = page.assigned
        BY <1>1, <2>1, <2>2 DEF Pages
  <2> QED BY <1>6, <2>3 DEF Folded, CarriesHolders
<1>7. CASE f.type \notin {"Hello", "Applied", "Assigned", "Lobby", "Rejected"}
  <2>1. Reduced(f) = page
        BY <1>7 DEF Reduced
  <2> QED BY <1>1, <1>7, <2>1 DEF Folded, CarriesHolders
<1> QED BY <1>2, <1>3, <1>4, <1>5, <1>6, <1>7

\* A frame the page takes in.
LEMMA TakesIn ==
    ASSUME IndInv, pc = "open", ws.inbox # <<>>, NEW f, f = Head(ws.inbox),
           page' = Reduced(f), status' = Greeting(f, status, "Connected", "InLobby"),
           ws' = [ws EXCEPT !.inbox = Tail(@), !.greeted = Greeting(f, @, "game", "lobby")],
           UNCHANGED <<pc, queue, lingering, reply, server, room>>
    PROVE  /\ IndInv'
           /\ page'.prompt >= page.prompt /\ page'.game >= page.game
<1> DEFINE inbox == ws.inbox
           greeted == Greeting(f, ws.greeted, "game", "lobby")
           h == room.assigned
<1>1. /\ inbox \in Seq(Frames) /\ ws \in Sockets /\ page \in Pages
      /\ page.prompt \in Nat /\ room.prompt \in Nat
      /\ Ordered(inbox, page.prompt, room.prompt) /\ page.game = page.prompt
      /\ Types
      BY Numbers DEF IndInv, Types, NewsInv, Pages
<1>2. Len(inbox) > 0 /\ Tail(inbox) \in Seq(Frames) /\ f \in Frames
      BY <1>1, EmptySeq, HeadTailProperties, LenProperties
<1>3. /\ page' \in Pages /\ page'.prompt = Folded(f, page.prompt) /\ page'.game = page'.prompt
      /\ page'.assigned = IF CarriesHolders(f) THEN f.assigned ELSE page.assigned
      BY <1>1, <1>2, ReducedPage
<1>4. /\ Ordered(Tail(inbox), page'.prompt, room.prompt)
      /\ page.prompt <= page'.prompt
      BY <1>1, <1>3, TailOrdered
<1>5. greeted \in {"no", "game", "lobby"} /\ status' \in Statuses
      BY <1>1 DEF Types, Sockets, Greeting, Statuses
<1> HIDE DEF greeted
<1>6. /\ ws' \in Sockets /\ ws'.inbox = Tail(inbox) /\ ws'.greeted = greeted
      /\ ws'.open = ws.open /\ ws'.up = ws.up /\ ws'.attached = ws.attached /\ ws'.outbox = ws.outbox
      BY <1>1, <1>2, <1>5 DEF Sockets, greeted
<1>7. Types'
      BY <1>1, <1>3, <1>5, <1>6 DEF Types, Sockets, Rooms, Pages
<1>8. HasHello(Tail(inbox)) \/ f.type = "Hello" => HasHello(inbox)
  <2>1. /\ Len(inbox) \in Nat \ {0} /\ DOMAIN inbox = 1..Len(inbox)
        /\ DOMAIN Tail(inbox) = 1..(Len(inbox) - 1)
        /\ \A k \in DOMAIN Tail(inbox) : k + 1 \in DOMAIN inbox /\ Tail(inbox)[k] = inbox[k + 1]
        /\ f = inbox[1]
        BY <1>1, LenProperties, HeadTailProperties, EmptySeq
  <2> HIDE DEF inbox
  <2> QED BY <2>1 DEF HasHello
<1>9. Fresh'
      BY <1>6 DEF IndInv, NewsInv, Fresh
<1>10. Followed' => /\ StateComing(Tail(inbox), page'.prompt, room.prompt)
                    /\ HoldersComing(Tail(inbox), page'.assigned, room.assigned)
  <2>1. ASSUME Followed' PROVE Followed
        BY <1>6, <1>8, <2>1 DEF Followed, greeted, Greeting
  <2>2. ASSUME Followed
        PROVE  /\ StateComing(inbox, page.prompt, room.prompt)
               /\ HoldersComing(inbox, page.assigned, room.assigned)
        BY <2>2 DEF IndInv, NewsInv
  <2> QED BY <1>1, <1>3, <2>1, <2>2, TailComing
<1>11. NewsInv'
      BY <1>3, <1>4, <1>6, <1>9, <1>10 DEF NewsInv
<1>12. UnlockedIsCurrent'
      BY <1>6 DEF IndInv, UnlockedIsCurrent, Leaving, greeted, Greeting
<1>13. OneSocket' /\ QueueMeant' /\ OutboxMeant'
      BY <1>6 DEF IndInv, OneSocket, QueueMeant, OutboxMeant
<1>14. page'.prompt >= page.prompt /\ page'.game >= page.game
  <2>1. page'.prompt \in Nat
        BY <1>3, ClientAssumption DEF Pages, Positions
  <2> QED BY <1>1, <1>3, <1>4, <2>1
<1> QED BY <1>7, <1>11, <1>12, <1>13, <1>14 DEF IndInv

\* A step of the page that leaves its socket and its game as they are.
LEMMA PageStep ==
    ASSUME IndInv, UNCHANGED <<page, queue, ws, lingering, reply, server, room>>,
           pc' \in {"signing in", "connecting", "open", "waiting", "checking", "stopped", "left"},
           status' \in Statuses,
           pc' = "open" <=> pc = "open",
           pc \in {"checking", "stopped", "left"} => pc' \in {"checking", "stopped", "left"},
           \/ status' \notin {"Connected", "InLobby"}
           \/ status' = status /\ (pc \in {"checking", "left"} => pc' = pc)
    PROVE  IndInv'
<1>1. Types'
      BY DEF IndInv, Types
<1>2. NewsInv'
      BY DEF IndInv, NewsInv, Fresh, Followed
<1>3. OneSocket' /\ QueueMeant' /\ OutboxMeant'
      BY DEF IndInv, OneSocket, QueueMeant, OutboxMeant
<1>4. UnlockedIsCurrent'
      BY DEF IndInv, UnlockedIsCurrent, Leaving
<1> QED BY <1>1, <1>2, <1>3, <1>4 DEF IndInv

LEMMA StepConnect ==
    ASSUME IndInv, pc = "connecting", pc' = "open", status' = (IF IsRetrying THEN status ELSE "Connecting"),
           ws' = Socket, UNCHANGED <<page, queue, lingering, reply, server, room>>
    PROVE  IndInv'
<1>1. /\ <<>> \in Seq(Commands) /\ <<>> \in Seq(Frames) /\ DOMAIN <<>> = {}
      BY EmptySeq, LenProperties
<1>2. /\ Socket \in Sockets /\ Socket.open /\ Socket.up /\ ~Socket.attached
      /\ Socket.greeted = "no" /\ Socket.inbox = <<>> /\ Socket.outbox = <<>>
      BY <1>1 DEF Socket, NoSocket, Sockets
<1>3. status' \in Statuses /\ status' \notin {"Connected", "InLobby"}
      BY DEF IndInv, Types, IsRetrying, Statuses
<1> HIDE DEF Statuses
<1>4. Types'
      BY <1>2, <1>3 DEF IndInv, Types, Sockets
<1>5. NewsInv'
      BY <1>1, <1>2, Numbers DEF IndInv, NewsInv, Fresh, Followed, Ordered
<1>6. OneSocket' /\ UnlockedIsCurrent' /\ QueueMeant' /\ OutboxMeant'
      BY <1>1, <1>2, <1>3 DEF IndInv, OneSocket, UnlockedIsCurrent, QueueMeant, OutboxMeant
<1> QED BY <1>4, <1>5, <1>6 DEF IndInv

LEMMA StepSendOutbound ==
    ASSUME IndInv, SendOutbound, UNCHANGED <<lingering, reply, server, room>>
    PROVE  IndInv'
<1> DEFINE c == Head(queue)
           sent == IF ws.up THEN Append(ws.outbox, c) ELSE ws.outbox
<1>1. queue \in Seq(Commands) /\ queue # <<>> /\ ws \in Sockets /\ ws.outbox \in Seq(Commands)
      BY Numbers DEF IndInv, Types, SendOutbound
<1>2. /\ c \in Commands /\ Tail(queue) \in Seq(Commands)
      /\ c = queue[1] /\ 1 \in DOMAIN queue
      /\ \A k \in DOMAIN Tail(queue) : k + 1 \in DOMAIN queue /\ Tail(queue)[k] = queue[k + 1]
      BY <1>1, EmptySeq, HeadTailProperties, LenProperties
<1>3. \A k \in DOMAIN queue : queue[k].on = "this socket"
      BY DEF IndInv, QueueMeant, SendOutbound
<1>4. /\ Append(ws.outbox, c) \in Seq(Commands)
      /\ \A k \in DOMAIN Append(ws.outbox, c) :
            \/ k \in DOMAIN ws.outbox /\ Append(ws.outbox, c)[k] = ws.outbox[k]
            \/ Append(ws.outbox, c)[k] = c
      BY <1>1, <1>2, Queued
<1>5. sent \in Seq(Commands) /\ \A k \in DOMAIN sent : sent[k].on = "this socket"
  <2>1. \A k \in DOMAIN Append(ws.outbox, c) : Append(ws.outbox, c)[k].on = "this socket"
        BY <1>2, <1>3, <1>4 DEF IndInv, OutboxMeant
  <2> QED BY <1>1, <1>4, <2>1 DEF IndInv, OutboxMeant
<1>6. ws' = [ws EXCEPT !.outbox = sent]
      BY <1>1 DEF SendOutbound, Sockets
<1> HIDE DEF sent, c
<1>7. /\ ws' \in Sockets /\ ws'.outbox = sent /\ ws'.inbox = ws.inbox /\ ws'.greeted = ws.greeted
      /\ ws'.open = ws.open /\ ws'.up = ws.up /\ ws'.attached = ws.attached
      BY <1>1, <1>5, <1>6 DEF Sockets
<1>8. queue' = Tail(queue) /\ UNCHANGED <<pc, status, page>> /\ pc = "open"
      BY DEF SendOutbound
<1>9. Types'
      BY <1>2, <1>7, <1>8 DEF IndInv, Types, Sockets
<1>10. NewsInv'
      BY <1>7, <1>8 DEF IndInv, NewsInv, Fresh, Followed
<1>11. OneSocket' /\ UnlockedIsCurrent' /\ OutboxMeant'
      BY <1>5, <1>7, <1>8 DEF IndInv, OneSocket, UnlockedIsCurrent, Leaving, OutboxMeant
<1>12. QueueMeant'
      BY <1>2, <1>3, <1>8 DEF QueueMeant
<1> QED BY <1>9, <1>10, <1>11, <1>12 DEF IndInv

LEMMA StepTransport ==
    ASSUME IndInv, Transport
    PROVE  /\ IndInv'
           /\ page'.prompt >= page.prompt /\ page'.game >= page.game
<1>1. UNCHANGED <<server, room>>
      BY DEF Transport
<1>2. ASSUME page' = page PROVE page'.prompt >= page.prompt /\ page'.game >= page.game
  <2>1. page.prompt \in Nat /\ page.game = page.prompt
        BY Numbers DEF IndInv, NewsInv
  <2> QED BY <1>2, <2>1
<1>3. CASE CheckSignIn /\ UNCHANGED <<ws, lingering, reply>>
  <2>1. IndInv'
        BY <1>1, <1>3, PageStep DEF CheckSignIn, Statuses, IndInv, Types
  <2> QED BY <1>2, <1>3, <2>1 DEF CheckSignIn
<1>4. CASE Connect /\ UNCHANGED reply
  <2>1. UNCHANGED <<page, queue, lingering, reply>> /\ pc = "connecting"
        BY <1>4 DEF Connect
  <2>2. CASE pc' = "open" /\ status' = (IF IsRetrying THEN status ELSE "Connecting") /\ ws' = Socket
        BY <1>1, <1>2, <2>1, <2>2, StepConnect
  <2>3. CASE pc' = "waiting" /\ status' = RetryingAfter("none") /\ ws' = ws
    <3>1. IndInv'
          BY <1>1, <2>1, <2>3, PageStep DEF RetryingAfter, Statuses
    <3> QED BY <1>2, <2>1, <3>1
  <2> QED BY <1>4, <2>2, <2>3 DEF Connect
<1>5. CASE Backoff /\ UNCHANGED <<ws, lingering, reply>>
  <2>1. IndInv'
        BY <1>1, <1>5, PageStep DEF Backoff, IndInv, Types
  <2> QED BY <1>2, <1>5, <2>1 DEF Backoff
<1>6. CASE SendOutbound /\ UNCHANGED <<lingering, reply>>
      BY <1>1, <1>2, <1>6, StepSendOutbound DEF SendOutbound
<1>7. CASE Receive
  <2> DEFINE f == Head(ws.inbox)
  <2>1. pc = "open" /\ ws.inbox # <<>>
        BY <1>7 DEF Receive
  <2>2. f \in Frames
    <3>1. ws.inbox \in Seq(Frames)
          BY Numbers DEF IndInv
    <3> QED BY <2>1, <3>1, EmptySeq, HeadTailProperties
  <2>3. CASE f.type = "Close" /\ Ends(f.code)
    <3>1. f.code \in Codes
          BY <2>2, <2>3, FrameFields DEF Closes
    <3>2. page' = page
          BY <2>3 DEF Ends
    <3> QED BY <1>1, <1>2, <2>3, <3>1, <3>2, Ended
  <2>4. CASE Skewed
    <3>1. IndInv'
          BY <1>1, <2>4, HungUp DEF Skewed, Statuses
    <3> QED BY <1>2, <2>4, <3>1 DEF Skewed
  <2>5. CASE /\ page' = Reduced(f) /\ status' = Greeting(f, status, "Connected", "InLobby")
             /\ ws' = [ws EXCEPT !.inbox = Tail(@), !.greeted = Greeting(f, @, "game", "lobby")]
             /\ UNCHANGED <<pc, queue, lingering, reply>>
        BY <1>1, <2>1, <2>5, TakesIn
  <2> QED BY <1>7, <2>3, <2>4, <2>5 DEF Receive
<1>8. CASE Silence
  <2>1. page' = page /\ Ends("none") /\ "none" \in Codes
        BY <1>8 DEF Silence, Ends, Codes
  <2> QED BY <1>1, <1>2, <2>1, Ended
<1> QED BY <1>3, <1>4, <1>5, <1>6, <1>7, <1>8 DEF Transport

-------------------------------------------------------------------------------
(* What the server and the network do *)

Servers == [up : BOOLEAN, build : Builds, resumes : BOOLEAN]

LEMMA ServerIs == ASSUME IndInv PROVE /\ Types /\ NewsInv
                                     /\ ws \in Sockets /\ room \in Rooms /\ server \in Servers
                                     /\ lingering \in Seq(Commands) /\ reply \in Seq(Replies)
                                     /\ <<>> \in Seq(Commands) /\ <<>> \in Seq(Replies) /\ <<>> \in Seq(Frames)
                                     /\ \A k \in DOMAIN ws.outbox : ws.outbox[k].on = "this socket"
BY Numbers, EmptySeq DEF IndInv, Types, Servers, Sockets, Rooms, OutboxMeant

LEMMA AsItIs == ASSUME IndInv PROVE Alike(ws)
BY ServerIs DEF Alike

LEMMA NoSocketIs == /\ ~NoSocket.open /\ ~NoSocket.attached /\ ~NoSocket.up
                    /\ NoSocket.inbox = <<>> /\ NoSocket.outbox = <<>>
BY DEF NoSocket

\* A command that may be carried out, whoever's it is.
Feasible(c) ==
    /\ c.type \in {"Submit", "Reassign", "Take", "Start"}
    /\ c.type = "Submit" => room.prompt < MaxPrompt
    /\ c.type = "Reassign" => c.investigator \in Investigators /\ c.to \in Accounts

\* What is broadcast of a command says what the room becomes.
LEMMA CarriedBrings ==
    ASSUME Types, NEW c, Feasible(c), room' = Carried(c)
    PROVE  Brings(News(c))
<1>1. room \in Rooms /\ room.prompt \in Positions /\ room.prompt \in Nat
      BY Numbers
<1>2. CASE c.type = "Submit"
  <2>1. room' = [room EXCEPT !.prompt = @ + 1] /\ News(c) = Applied(room.prompt)
        BY <1>2 DEF Carried, News
  <2>2. room.prompt + 1 \in Positions /\ room.prompt + 1 \in Nat
        BY <1>1, <1>2, ClientAssumption DEF Feasible, Positions
  <2>3. /\ room' \in Rooms /\ room'.prompt = room.prompt + 1 /\ room'.assigned = room.assigned
        BY <1>1, <2>1, <2>2 DEF Rooms
  <2>4. /\ Applied(room.prompt) \in Frames /\ Applied(room.prompt).type = "Applied"
        /\ Applied(room.prompt).prompt = room.prompt + 1
        BY <1>1, <1>2, FramesMade DEF Feasible, Applied
  <2> QED BY <1>1, <2>1, <2>3, <2>4 DEF Brings, CarriesState, CarriesHolders
<1>3. CASE c.type = "Reassign"
  <2> DEFINE held == [room.assigned EXCEPT ![c.investigator] = c.to]
  <2>1. room' = [room EXCEPT !.assigned = held] /\ News(c) = Assigned(Carried(c).assigned)
        BY <1>1, <1>3 DEF Carried, News, Rooms
  <2>2. held \in Assignment
        BY <1>1, <1>3 DEF Feasible, Rooms, Assignment
  <2> HIDE DEF held
  <2>3. /\ room' \in Rooms /\ room'.prompt = room.prompt /\ room'.assigned = held
        BY <1>1, <2>1, <2>2 DEF Rooms
  <2>4. News(c) = Assigned(held)
        BY <2>1, <2>3
  <2>5. /\ Assigned(held) \in Frames /\ Assigned(held).type = "Assigned" /\ Assigned(held).assigned = held
        BY <2>2, FramesMade DEF Assigned
  <2> QED BY <1>1, <2>3, <2>4, <2>5 DEF Brings, CarriesState, CarriesHolders
<1>4. CASE c.type = "Start"
  <2>1. room' = [room EXCEPT !.phase = "live"] /\ News(c) = Hello
        BY <1>4 DEF Carried, News
  <2>2. /\ room' \in Rooms /\ room'.prompt = room.prompt /\ room'.assigned = room.assigned
        BY <1>1, <2>1 DEF Rooms
  <2>3. /\ Hello \in Frames /\ Hello.type = "Hello" /\ Hello.prompt = room.prompt
        /\ Hello.assigned = room.assigned
        BY FramesMade DEF Hello
  <2> QED BY <1>1, <2>1, <2>2, <2>3 DEF Brings, CarriesState, CarriesHolders
<1>5. CASE c.type = "Take"
  <2>1. room' = room /\ News(c) = LobbyFrame
        BY <1>5 DEF Carried, News
  <2>2. LobbyFrame \in Frames /\ LobbyFrame.type = "Lobby"
        BY FramesMade DEF LobbyFrame
  <2> QED BY <1>1, <2>1, <2>2 DEF Brings, CarriesState, CarriesHolders
<1> QED BY <1>2, <1>3, <1>4, <1>5 DEF Feasible

\* A command the room carries out, told to the page's socket.
LEMMA Carries ==
    ASSUME IndInv, UNCHANGED <<pageVars, server>>, NEW w, Alike(w), w.open = ws.open,
           \A k \in DOMAIN w.outbox : w.outbox[k].on = "this socket",
           ws = NoSocket => w = NoSocket,
           NEW c, Feasible(c), room' = Carried(c), ws' = Told(w, News(c)),
           lingering' \in Seq(Commands), reply' \in Seq(Replies)
    PROVE  IndInv'
<1>1. Types /\ NewsInv /\ server \in Servers
      BY ServerIs
<1>2. Brings(News(c))
      BY <1>1, CarriedBrings
<1>3. page' = page /\ server' \in Servers
      BY <1>1 DEF pageVars
<1>4. /\ NewsInv' /\ ws' \in Sockets
      /\ ws'.open = w.open /\ ws'.greeted = w.greeted /\ ws'.outbox = w.outbox
      /\ ~w.attached => ws' = w
      BY <1>1, <1>2, <1>3, NewsTold
<1>5. room' \in Rooms
      BY <1>2 DEF Brings
<1>6. ws = NoSocket => ws' = NoSocket
      BY <1>4, NoSocketIs
<1>7. ws'.open = ws.open /\ ws'.greeted = ws.greeted
      BY <1>4 DEF Alike
<1> QED BY <1>3, <1>4, <1>5, <1>6, <1>7, ServerStep DEF Servers

\* The outbox once its first command is taken in.
LEMMA TakenIn ==
    ASSUME IndInv, ws.outbox # <<>>
    PROVE  LET w == [ws EXCEPT !.outbox = Tail(@)] IN
           /\ Head(ws.outbox) \in Commands
           /\ Alike(w) /\ w.open = ws.open
           /\ \A k \in DOMAIN w.outbox : w.outbox[k].on = "this socket"
<1> DEFINE out == ws.outbox
           w == [ws EXCEPT !.outbox = Tail(out)]
<1>1. out \in Seq(Commands) /\ ws \in Sockets
      BY ServerIs DEF Sockets
<1>2. /\ Head(out) \in Commands /\ Tail(out) \in Seq(Commands)
      /\ \A k \in DOMAIN Tail(out) : k + 1 \in DOMAIN out /\ Tail(out)[k] = out[k + 1]
      BY <1>1, EmptySeq, HeadTailProperties, LenProperties
<1>3. \A k \in DOMAIN out : out[k].on = "this socket"
      BY ServerIs
<1>4. w.outbox = Tail(out) /\ w.open = ws.open /\ Alike(w)
      BY <1>1, <1>2 DEF Alike, Sockets
<1>5. w = [ws EXCEPT !.outbox = Tail(@)]
      BY <1>1 DEF Sockets
<1>6. \A k \in DOMAIN w.outbox : w.outbox[k].on = "this socket"
      BY <1>2, <1>3, <1>4
<1> HIDE DEF w
<1> QED BY <1>2, <1>4, <1>5, <1>6

LEMMA OneReply == ASSUME NEW r \in Replies PROVE <<r>> \in Seq(Replies)
OBVIOUS

LEMMA OutcomeFits ==
    ASSUME Types, NEW c \in Commands, NEW why \in Outcomes(c)
    PROVE  /\ why = "Accepted" => Feasible(c)
           /\ ReplyTo(why) \in Seq(Replies)
<1>1. c.type \in {"Submit", "Reassign", "Take", "Start"}
      BY CommandFields
<1>2. why \in {"Accepted", "LobbyRefused", "NotStarted", "StalePrompt", "NotYours", "Engine", "Failed", "Reassign"}
      BY <1>1 DEF Outcomes
<1>3. ASSUME why = "Accepted" PROVE Feasible(c)
  <2>1. CASE c.type = "Submit"
    <3>1. c.prompt < MaxPrompt
          BY <2>1, CommandFields DEF Submits
    <3>2. c.prompt = room.prompt
          BY <1>3, <2>1 DEF Outcomes
    <3> QED BY <2>1, <3>1, <3>2 DEF Feasible
  <2>2. CASE c.type = "Reassign"
        BY <2>2, CommandFields DEF Reassigns, Feasible
  <2> QED BY <1>1, <2>1, <2>2 DEF Feasible
<1>4. ReplyTo(why) \in Seq(Replies)
  <2>1. CASE why = "Accepted"
        BY <2>1, EmptySeq DEF ReplyTo
  <2>2. CASE why = "LobbyRefused"
    <3>1. Reply(why, "") \in Replies
          BY <2>2 DEF Reply, Replies, Whys
    <3>2. ReplyTo(why) = <<Reply(why, "")>>
          BY <2>2 DEF ReplyTo
    <3> QED BY <3>1, <3>2, OneReply
  <2>3. CASE why \notin {"Accepted", "LobbyRefused"}
    <3>1. Reply("Rejected", why) \in Replies
          BY <1>2, <2>3 DEF Reply, Replies, Whys
    <3>2. ReplyTo(why) = <<Reply("Rejected", why)>>
          BY <2>3 DEF ReplyTo
    <3> QED BY <3>1, <3>2, OneReply
  <2> QED BY <2>1, <2>2, <2>3
<1> QED BY <1>3, <1>4

LEMMA StepHandle == ASSUME IndInv, Handle PROVE IndInv'
<1> DEFINE c == Head(ws.outbox)
           taken == [ws EXCEPT !.outbox = Tail(@)]
<1>1. ws.attached /\ ws.outbox # <<>> /\ UNCHANGED <<pageVars, lingering, server>>
      BY DEF Handle
<1>2. /\ c \in Commands /\ Alike(taken) /\ taken.open = ws.open
      /\ \A k \in DOMAIN taken.outbox : taken.outbox[k].on = "this socket"
      BY <1>1, TakenIn
<1>3. PICK why \in Outcomes(c) :
         /\ reply' = ReplyTo(why)
         /\ IF why = "Accepted" THEN room' = Carried(c) /\ ws' = Told(taken, News(c))
            ELSE room' = room /\ ws' = taken
      BY DEF Handle
<1> HIDE DEF c, taken
<1>4. /\ why = "Accepted" => Feasible(c)
      /\ reply' \in Seq(Replies)
      BY <1>2, <1>3, OutcomeFits, ServerIs
<1>5. ws # NoSocket /\ lingering' \in Seq(Commands)
      BY <1>1, NoSocketIs, ServerIs
<1>6. CASE why = "Accepted"
      BY <1>1, <1>2, <1>3, <1>4, <1>5, <1>6, Carries
<1>7. CASE why # "Accepted"
  <2>1. room' = room /\ ws' = taken
        BY <1>3, <1>7
  <2>2. NewsInv' /\ ws' \in Sockets /\ ws'.greeted = ws.greeted
        BY <1>1, <1>2, <2>1, ServerIs DEF NewsInv, Alike, Fresh, Followed, pageVars
  <2> QED BY <1>1, <1>2, <1>4, <1>5, <2>1, <2>2, ServerIs, ServerStep DEF Servers
<1> QED BY <1>6, <1>7

LEMMA StepHandleLingering == ASSUME IndInv, HandleLingering PROVE IndInv'
<1> DEFINE c == Head(lingering)
<1>1. lingering # <<>> /\ lingering' = Tail(lingering) /\ UNCHANGED <<pageVars, reply, server>>
      BY DEF HandleLingering
<1>2. c \in Commands /\ lingering' \in Seq(Commands)
      BY <1>1, ServerIs, EmptySeq, HeadTailProperties
<1>3. PICK why \in Outcomes(c) :
         IF why = "Accepted" THEN room' = Carried(c) /\ ws' = Told(ws, News(c)) ELSE UNCHANGED <<room, ws>>
      BY DEF HandleLingering
<1> HIDE DEF c
<1>4. why = "Accepted" => Feasible(c)
      BY <1>2, OutcomeFits, ServerIs
<1>5. reply' \in Seq(Replies)
      BY <1>1, ServerIs
<1>6. CASE why = "Accepted"
  <2>1. Alike(ws) /\ \A k \in DOMAIN ws.outbox : ws.outbox[k].on = "this socket"
        BY ServerIs, AsItIs
  <2> QED BY <1>1, <1>2, <1>3, <1>4, <1>5, <1>6, <2>1, Carries
<1>7. CASE why # "Accepted"
  <2>1. NewsInv'
        BY <1>1, <1>3, <1>7 DEF IndInv, NewsInv, Fresh, Followed, pageVars
  <2> QED BY <1>1, <1>2, <1>3, <1>5, <1>7, <2>1, ServerIs, ServerStep DEF Servers
<1> QED BY <1>6, <1>7

LEMMA StepOthers == ASSUME IndInv, Others PROVE IndInv'
<1>1. PICK c \in OfOthers : room' = Carried(c) /\ ws' = Told(ws, News(c))
      BY DEF Others
<1>2. UNCHANGED <<pageVars, lingering, reply, server>>
      BY DEF Others
<1>3. Feasible(c)
  <2>1. CASE room.phase = "lobby"
        BY <1>1, <2>1 DEF OfOthers, Feasible
  <2>2. CASE room.phase # "lobby" /\ c.type = "Submit"
    <3>1. room.prompt # MaxPrompt
          BY <1>1, <2>2 DEF OfOthers
    <3>2. room.prompt \in Positions
          BY ServerIs DEF Rooms
    <3> QED BY <2>2, <3>1, <3>2, ClientAssumption DEF Feasible, Positions
  <2>3. CASE room.phase # "lobby" /\ c.type # "Submit"
        BY <1>1, <2>3 DEF OfOthers, Feasible
  <2> QED BY <2>1, <2>2, <2>3
<1>4. /\ Alike(ws) /\ \A k \in DOMAIN ws.outbox : ws.outbox[k].on = "this socket"
      /\ lingering' \in Seq(Commands) /\ reply' \in Seq(Replies)
      BY <1>2, ServerIs, AsItIs
<1> QED BY <1>1, <1>2, <1>3, <1>4, Carries

LEMMA StepSendReply == ASSUME IndInv, SendReply PROVE IndInv'
<1> DEFINE f == Head(reply)
<1>1. reply # <<>> /\ ws' = Told(ws, f) /\ reply' = <<>> /\ UNCHANGED <<pageVars, lingering, server, room>>
      BY DEF SendReply
<1>2. f \in Replies
      BY <1>1, ServerIs, EmptySeq, HeadTailProperties
<1>3. ~CarriesState(f) /\ ~CarriesHolders(f) /\ f \in Frames
      BY <1>2 DEF Replies, CarriesState, CarriesHolders, Frames
<1> HIDE DEF f
<1>4. Brings(f)
  <2>1. room \in Rooms /\ room.prompt \in Nat
        BY ServerIs, Numbers
  <2>2. room' = room
        BY <1>1
  <2> QED BY <1>3, <2>1, <2>2 DEF Brings
<1>5. page' = page /\ Alike(ws) /\ Types /\ NewsInv
      BY <1>1, ServerIs, AsItIs DEF pageVars
<1>6. /\ NewsInv' /\ ws' \in Sockets
      /\ ws'.open = ws.open /\ ws'.greeted = ws.greeted /\ ws'.outbox = ws.outbox
      /\ ~ws.attached => ws' = ws
      BY <1>1, <1>4, <1>5, NewsTold
<1> QED BY <1>1, <1>6, ServerIs, NoSocketIs, ServerStep DEF Servers

\* A socket that is not told of anything more, whatever of it is lost.
LEMMA NewsCut ==
    ASSUME Types, NewsInv, ws' \in Sockets, page' = page, room'.prompt = room.prompt,
           ~ws'.up, ws'.inbox \in {<<>>, ws.inbox}
    PROVE  NewsInv'
<1>1. DOMAIN <<>> = {}
      BY LenProperties, EmptySeq
<1>2. Ordered(ws'.inbox, page.prompt, room.prompt)
  <2>1. Ordered(ws.inbox, page.prompt, room.prompt)
        BY DEF NewsInv
  <2>2. Ordered(<<>>, page.prompt, room.prompt)
        BY <1>1, <2>1 DEF Ordered
  <2> QED BY <2>1, <2>2
<1> QED BY <1>2 DEF NewsInv, Fresh, Followed

\* A Hello, and answers it includes behind it.
LEMMA AttachGame ==
    ASSUME NEW inbox \in Seq(Frames), NEW hello \in Frames, NEW more \in Seq(Frames),
           NEW p \in Nat, NEW r \in Nat, NEW a, Ordered(inbox, p, r),
           hello.type = "Hello", hello.prompt = r,
           \A k \in DOMAIN more : more[k].type = "Applied" /\ more[k].prompt <= r
    PROVE  LET all == Append(inbox, hello) \o more IN
           /\ all \in Seq(Frames)
           /\ Ordered(all, p, r)
           /\ StateComing(all, p, r)
           /\ HoldersComing(all, a, hello.assigned)
<1> DEFINE first == Append(inbox, hello)
           n == Len(inbox) + 1
           all == first \o more
<1>1. /\ n \in Nat /\ Len(first) = n /\ DOMAIN first = 1..n /\ first[n] = hello /\ n \in DOMAIN first
      /\ first \in Seq(Frames)
      BY LenProperties, AppendProperties
<1>2. Ordered(first, p, r)
      BY MoreFrame DEF CarriesState
<1> HIDE DEF first, n
<1>3. /\ all \in Seq(Frames) /\ Len(more) \in Nat /\ DOMAIN more = 1..Len(more)
      /\ DOMAIN all = 1..(n + Len(more))
      /\ \A k \in 1..n : all[k] = first[k]
      /\ \A k \in (n + 1)..(n + Len(more)) : all[k] = more[k - n]
  <2>1. Len(more) \in Nat /\ DOMAIN more = 1..Len(more)
        BY LenProperties
  <2>2. /\ all \in Seq(Frames) /\ Len(all) = Len(first) + Len(more)
        /\ \A k \in 1..(Len(first) + Len(more)) :
              all[k] = IF k <= Len(first) THEN first[k] ELSE more[k - Len(first)]
        BY <1>1, ConcatProperties
  <2>3. DOMAIN all = 1..Len(all)
        BY <2>2, LenProperties
  <2> HIDE DEF all
  <2> QED BY <1>1, <2>1, <2>2, <2>3
<1>4. Ordered(all, p, r)
  <2>1. \A k \in DOMAIN more : /\ CarriesState(more[k]) => more[k].prompt <= r
                               /\ more[k].type = "Hello" => more[k].prompt = r
        BY DEF CarriesState
  <2> QED BY <1>1, <1>2, <2>1, MoreOrdered
<1> HIDE DEF all
<1>5. n \in DOMAIN all /\ all[n] = hello
      BY <1>1, <1>3
<1>6. StateComing(all, p, r)
      BY <1>5 DEF StateComing, CarriesState
<1>7. NoneAfter(all, n)
  <2>1. ASSUME NEW j \in DOMAIN all, j > n PROVE ~CarriesHolders(all[j])
    <3>1. j \in (n + 1)..(n + Len(more)) /\ j - n \in DOMAIN more
          BY <1>1, <1>3, <2>1
    <3>2. all[j] = more[j - n]
          BY <1>3, <3>1
    <3> QED BY <3>1, <3>2 DEF CarriesHolders
  <2> QED BY <2>1 DEF NoneAfter
<1>8. HoldersComing(all, a, hello.assigned)
      BY <1>5, <1>7 DEF HoldersComing, CarriesHolders
<1> QED BY <1>3, <1>4, <1>6, <1>8 DEF all, first

LEMMA StepAttach == ASSUME IndInv, Attach PROVE IndInv'
<1>1. /\ ws.open /\ ws.up /\ ~ws.attached
      /\ UNCHANGED <<pageVars, lingering, reply, server, room>>
      BY DEF Attach
<1>2. /\ Types /\ NewsInv /\ ws \in Sockets /\ ws # NoSocket
      /\ page' = page /\ room'.prompt = room.prompt
      /\ Ordered(ws.inbox, page.prompt, room.prompt) /\ page.game = page.prompt
      BY <1>1, ServerIs, NoSocketIs DEF pageVars, NewsInv
<1>3. /\ ws.inbox \in Seq(Frames) /\ page.prompt \in Nat /\ room.prompt \in Nat
      /\ room.prompt \in Positions
      BY <1>2, Numbers
<1>4. ws.greeted = "no" /\ ws.inbox = <<>>
      BY <1>1, <1>2 DEF NewsInv, Fresh
<1>5. ASSUME NewsInv', ws' \in Sockets, ws'.open = ws.open, ws'.greeted = ws.greeted,
             ws'.outbox = ws.outbox
      PROVE  IndInv'
      BY <1>1, <1>2, <1>5, ServerIs, ServerStep DEF Servers
<1>6. ASSUME NEW code \in Codes, ws' = Closed(ws, code) PROVE IndInv'
      BY <1>2, <1>5, <1>6, AsItIs, NewsClosed
<1>7. CASE ws' = Told([ws EXCEPT !.attached = TRUE], LobbyFrame)
  <2> DEFINE more == Append(ws.inbox, LobbyFrame)
  <2>1. ws' = [ws EXCEPT !.attached = TRUE, !.inbox = more]
        BY <1>1, <1>2, <1>7 DEF Told, Sockets
  <2>2. LobbyFrame \in Frames /\ LobbyFrame.type = "Lobby"
        BY <1>2, FramesMade DEF LobbyFrame
  <2>3. /\ more \in Seq(Frames) /\ Ordered(more, page.prompt, room.prompt)
    <3>1. ~CarriesState(LobbyFrame)
          BY <2>2 DEF CarriesState
    <3> QED BY <1>2, <1>3, <2>2, <3>1, AppendProperties, MoreFrame
  <2>4. ~HasHello(more)
    <3>1. Len(<<>>) = 0
          BY EmptySeq
    <3>2. Len(more) = 1 /\ DOMAIN more = 1..1 /\ more[1] = LobbyFrame
          BY <1>3, <1>4, <2>2, <3>1, AppendProperties, LenProperties
    <3> HIDE DEF more
    <3> QED BY <2>2, <3>2 DEF HasHello
  <2> HIDE DEF more
  <2>5. /\ ws' \in Sockets /\ ws'.inbox = more /\ ws'.open = ws.open /\ ws'.greeted = ws.greeted
        /\ ws'.attached /\ ws'.outbox = ws.outbox
        BY <1>2, <2>1, <2>3 DEF Sockets
  <2>6. NewsInv'
        BY <1>2, <1>4, <2>3, <2>4, <2>5 DEF NewsInv, Fresh, Followed
  <2> QED BY <1>5, <2>5, <2>6
<1>8. ASSUME NEW n \in 0..room.prompt, ws' = Overlapped(n) PROVE IndInv'
  <2> DEFINE more == [k \in 1..n |-> Applied(room.prompt - n + k - 1)]
             all == Append(ws.inbox, Hello) \o more
  <2>1. ws' = [ws EXCEPT !.attached = TRUE, !.inbox = all]
        BY <1>1, <1>2, <1>8 DEF Overlapped, Told, Sockets
  <2>2. Hello \in Frames /\ Hello.type = "Hello" /\ Hello.prompt = room.prompt /\ Hello.assigned = room.assigned
        BY <1>2, FramesMade DEF Hello
  <2>3. n \in Nat
        BY <1>3
  <2>4. ASSUME NEW k \in 1..n
        PROVE  /\ Applied(room.prompt - n + k - 1) \in Frames
               /\ Applied(room.prompt - n + k - 1).type = "Applied"
               /\ Applied(room.prompt - n + k - 1).prompt <= room.prompt
    <3> DEFINE p == room.prompt - n + k - 1
    <3>1. p \in Positions /\ p < MaxPrompt /\ p + 1 <= room.prompt
          BY <1>3, <2>3, ClientAssumption DEF Positions
    <3> HIDE DEF p
    <3>2. Applied(p).type = "Applied" /\ Applied(p).prompt = p + 1
          BY DEF Applied
    <3>3. Applied(p) \in Frames
          BY <1>2, <3>1, FramesMade
    <3> QED BY <3>1, <3>2, <3>3 DEF p
  <2>5. more \in [1..n -> Frames] /\ DOMAIN more = 1..n
        BY <2>4
  <2>6. more \in Seq(Frames)
        BY <2>3, <2>5, SeqDef
  <2>7. \A k \in DOMAIN more : more[k].type = "Applied" /\ more[k].prompt <= room.prompt
        BY <2>4, <2>5
  <2> HIDE DEF more
  <2>8. /\ all \in Seq(Frames) /\ Ordered(all, page.prompt, room.prompt)
        /\ StateComing(all, page.prompt, room.prompt)
        /\ HoldersComing(all, page.assigned, room.assigned)
        BY <1>2, <1>3, <2>2, <2>6, <2>7, AttachGame
  <2> HIDE DEF all
  <2>9. /\ ws' \in Sockets /\ ws'.inbox = all /\ ws'.open = ws.open /\ ws'.greeted = ws.greeted
        /\ ws'.attached /\ ws'.outbox = ws.outbox
        BY <1>2, <2>1, <2>8 DEF Sockets
  <2>10. NewsInv'
        BY <1>1, <1>2, <2>8, <2>9 DEF NewsInv, Fresh
  <2> QED BY <1>5, <2>9, <2>10
<1>9. \/ \E code \in Codes : ws' = Closed(ws, code)
      \/ ws' = Told([ws EXCEPT !.attached = TRUE], LobbyFrame)
      \/ \E n \in 0..room.prompt : ws' = Overlapped(n)
      BY DEF Attach, Codes
<1> QED BY <1>6, <1>7, <1>8, <1>9

LEMMA StepStop == ASSUME IndInv, Stop PROVE IndInv'
<1>1. /\ UNCHANGED <<pageVars, room>> /\ lingering' = <<>> /\ reply' = <<>>
      /\ server' = [server EXCEPT !.up = FALSE]
      BY DEF Stop
<1>2. Types /\ NewsInv /\ ws \in Sockets /\ page' = page /\ room'.prompt = room.prompt
      /\ lingering' \in Seq(Commands) /\ reply' \in Seq(Replies) /\ room' \in Rooms
      BY <1>1, ServerIs DEF pageVars
<1>3. server' \in Servers
      BY <1>1, ServerIs DEF Servers
<1>4. ASSUME NewsInv', ws' \in Sockets, ws'.open = ws.open, ws'.greeted = ws.greeted,
             ws'.outbox = ws.outbox, ws = NoSocket => ws' = NoSocket
      PROVE  IndInv'
  <2>1. \A k \in DOMAIN ws'.outbox : ws'.outbox[k].on = "this socket"
        BY <1>4, ServerIs
  <2> QED BY <1>1, <1>2, <1>3, <1>4, <2>1, ServerStep DEF Servers
<1>5. ASSUME NEW code \in Codes, ws' = Closed(ws, code) PROVE IndInv'
      BY <1>2, <1>4, <1>5, AsItIs, NewsClosed
<1>6. CASE ws' = [ws EXCEPT !.up = FALSE, !.attached = FALSE]
  <2>1. /\ ws' \in Sockets /\ ~ws'.up /\ ws'.inbox = ws.inbox /\ ws'.open = ws.open
        /\ ws'.greeted = ws.greeted /\ ws'.outbox = ws.outbox
        BY <1>2, <1>6 DEF Sockets
  <2>2. ASSUME ws = NoSocket PROVE ws' = NoSocket
    <3>1. ws' = ws
          BY <1>2, <1>6, <2>2, NoSocketIs DEF Sockets
    <3> QED BY <2>2, <3>1
  <2> QED BY <1>2, <1>4, <2>1, <2>2, NewsCut
<1>7. \/ \E code \in Codes : ws' = Closed(ws, code)
      \/ ws' = [ws EXCEPT !.up = FALSE, !.attached = FALSE]
      BY DEF Stop, Codes
<1> QED BY <1>5, <1>6, <1>7

\* A step that closes the socket, or leaves it, whatever else it does to the room.
LEMMA ClosesOrNot ==
    ASSUME IndInv, UNCHANGED <<pageVars, lingering>>, reply' \in Seq(Replies), server' \in Servers,
           room' \in Rooms, room'.prompt = room.prompt, room'.assigned = room.assigned,
           ws' = ws \/ \E code \in Codes : ws' = Closed(ws, code)
    PROVE  IndInv'
<1>1. /\ Types /\ NewsInv /\ ws \in Sockets /\ page' = page
      /\ lingering' \in Seq(Commands)
      BY ServerIs DEF pageVars
<1>2. CASE ws' = ws
  <2>1. NewsInv'
        BY <1>1, <1>2 DEF NewsInv, Fresh, Followed
  <2> QED BY <1>1, <1>2, <2>1, ServerIs, ServerStep DEF Servers
<1>3. ASSUME NEW code \in Codes, ws' = Closed(ws, code) PROVE IndInv'
  <2>1. /\ NewsInv' /\ ws' \in Sockets /\ ws'.open = ws.open /\ ws'.greeted = ws.greeted
        /\ ws'.outbox = ws.outbox
        /\ ws = NoSocket => ws' = NoSocket
        BY <1>1, <1>3, AsItIs, NewsClosed
  <2>2. \A k \in DOMAIN ws'.outbox : ws'.outbox[k].on = "this socket"
        BY <2>1, ServerIs
  <2> QED BY <1>1, <2>1, <2>2, ServerStep DEF Servers
<1> QED BY <1>2, <1>3

LEMMA StepDrop ==
    ASSUME IndInv, Drop
    PROVE  IndInv'
<1>1. /\ ws.up /\ UNCHANGED <<pageVars, lingering, reply, server, room>>
      BY DEF Drop
<1>2. PICK inbox \in {<<>>, ws.inbox}, outbox \in {<<>>, ws.outbox} :
         ws' = [ws EXCEPT !.up = FALSE, !.inbox = inbox, !.outbox = outbox]
      BY DEF Drop
<1>3. /\ Types /\ NewsInv /\ ws \in Sockets /\ ws # NoSocket /\ page' = page /\ room'.prompt = room.prompt
      /\ lingering' \in Seq(Commands) /\ reply' \in Seq(Replies) /\ room' \in Rooms /\ server' \in Servers
      BY <1>1, ServerIs, NoSocketIs DEF pageVars
<1>4. inbox \in Seq(Frames) /\ outbox \in Seq(Commands)
      BY <1>3, EmptySeq DEF Sockets
<1>5. /\ ws' \in Sockets /\ ~ws'.up /\ ws'.inbox = inbox /\ ws'.open = ws.open
      /\ ws'.greeted = ws.greeted /\ ws'.outbox = outbox
      BY <1>2, <1>3, <1>4 DEF Sockets
<1>6. \A k \in DOMAIN outbox : outbox[k].on = "this socket"
  <2>1. DOMAIN <<>> = {}
        BY EmptySeq, LenProperties
  <2>2. \A k \in DOMAIN ws.outbox : ws.outbox[k].on = "this socket"
        BY ServerIs
  <2> QED BY <2>1, <2>2
<1>7. NewsInv'
      BY <1>3, <1>5, NewsCut
<1> QED BY <1>1, <1>3, <1>5, <1>6, <1>7, ServerStep DEF Servers

LEMMA StepFault == ASSUME IndInv, Fault PROVE IndInv'
<1>1. CASE Stop
      BY <1>1, StepStop
<1>2. CASE Delete
  <2>1. room' = [room EXCEPT !.phase = "deleted"] /\ UNCHANGED <<pageVars, lingering, server>> /\ reply' = <<>>
        BY <1>2 DEF Delete
  <2>2. /\ room' \in Rooms /\ room'.prompt = room.prompt /\ room'.assigned = room.assigned
        /\ server' \in Servers /\ reply' \in Seq(Replies)
        BY <2>1, ServerIs DEF Rooms
  <2>3. ws' = ws \/ \E code \in Codes : ws' = Closed(ws, code)
        BY <1>2 DEF Delete, Codes
  <2> QED BY <2>1, <2>2, <2>3, ClosesOrNot
<1>3. CASE Remove
  <2>1. UNCHANGED <<pageVars, lingering, server, room>> /\ reply' = <<>>
        BY <1>3 DEF Remove
  <2>2. /\ room' \in Rooms /\ room'.prompt = room.prompt /\ room'.assigned = room.assigned
        /\ server' \in Servers /\ reply' \in Seq(Replies)
        BY <2>1, ServerIs
  <2>3. ws' = ws \/ \E code \in Codes : ws' = Closed(ws, code)
        BY <1>3 DEF Remove, Codes
  <2> QED BY <2>1, <2>2, <2>3, ClosesOrNot
<1>4. CASE SignOut
  <2>1. room' = [room EXCEPT !.signed_in = FALSE] /\ UNCHANGED <<pageVars, lingering, server, reply, ws>>
        BY <1>4 DEF SignOut
  <2>2. /\ room' \in Rooms /\ room'.prompt = room.prompt /\ room'.assigned = room.assigned
        /\ server' \in Servers /\ reply' \in Seq(Replies)
        BY <2>1, ServerIs DEF Rooms
  <2> QED BY <2>1, <2>2, ClosesOrNot
<1>5. CASE Drop
      BY <1>5, StepDrop
<1>6. CASE Late
  <2>1. UNCHANGED <<server, room>> /\ "none" \in Codes
        BY <1>6 DEF Late, Codes
  <2>2. CASE Ends("none")
        BY <2>1, <2>2, Ended
  <2>3. CASE ws' = Closed(ws, "none") /\ UNCHANGED <<pageVars, lingering, reply>>
    <3>1. /\ room' \in Rooms /\ room'.prompt = room.prompt /\ room'.assigned = room.assigned
          /\ server' \in Servers /\ reply' \in Seq(Replies)
          BY <2>1, <2>3, ServerIs
    <3> QED BY <2>1, <2>3, <3>1, ClosesOrNot
  <2> QED BY <1>6, <2>2, <2>3 DEF Late
<1>7. CASE RequestFails
  <2>1. status' \in {"Failed", "SignedOut"} /\ UNCHANGED <<pc, page, queue, ws, lingering, reply, server, room>>
        BY <1>7 DEF RequestFails
  <2>2. pc \in {"signing in", "connecting", "open", "waiting", "checking", "stopped", "left"}
        BY DEF IndInv, Types
  <2> QED BY <2>1, <2>2, PageStep DEF Statuses
<1> QED BY <1>1, <1>2, <1>3, <1>4, <1>5, <1>6, <1>7 DEF Fault

LEMMA StepRestart == ASSUME IndInv, Restart PROVE IndInv'
<1>1. /\ UNCHANGED <<pageVars, ws, lingering, reply, room>>
      /\ server' \in Servers
      BY DEF Restart, Servers, Builds
<1>2. reply' \in Seq(Replies) /\ room' \in Rooms /\ room'.prompt = room.prompt /\ room'.assigned = room.assigned
      BY <1>1, ServerIs
<1> QED BY <1>1, <1>2, ClosesOrNot

LEMMA StepForgotten == ASSUME IndInv, Forgotten PROVE IndInv'
<1>1. lingering' = <<>> /\ UNCHANGED <<pageVars, ws, reply, server, room>>
      BY DEF Forgotten
<1>2. NewsInv'
      BY <1>1, ServerIs DEF NewsInv, Fresh, Followed, pageVars
<1> QED BY <1>1, <1>2, ServerIs, ServerStep DEF Servers

LEMMA IndNext ==
    ASSUME IndInv, [Next]_vars
    PROVE  IndInv'
<1>1. CASE UNCHANGED vars
  <2>1. UNCHANGED <<pc, status, page, queue, ws, lingering, reply, server, room>>
        BY <1>1 DEF vars
  <2>2. /\ pc \in {"signing in", "connecting", "open", "waiting", "checking", "stopped", "left"}
        /\ status \in Statuses
        BY DEF IndInv, Types
  <2> QED BY <2>1, <2>2, PageStep
<1> QED BY <1>1, StepClicked, StepTransport, StepAttach, StepHandle, StepHandleLingering, StepSendReply,
           StepOthers, StepRestart, StepForgotten, StepFault DEF Next

THEOREM Inductive == Spec => []IndInv
<1>1. IndInv /\ [Next]_vars => IndInv'
      BY IndNext
<1> QED BY InitInd, <1>1, PTL DEF Spec

-------------------------------------------------------------------------------
(* The properties *)

(* What a page shows is what it may act on, whatever crossed a reconnect: it takes input
   only on a socket whose Hello it shows, and once all that was sent has arrived it
   shows the server's game (store.rs reduce, locks_board). *)
THEOREM ShowsTheGame == Spec => []PageTrue
<1>1. ASSUME IndInv PROVE PageTrue
  <2>1. TypeOK
    <3>1. ws.open <=> pc = "open"
          BY <1>1, NoSocketIs DEF IndInv, OneSocket
    <3>2. room.prompt \in Positions /\ room.assigned \in Assignment
          BY <1>1, ServerIs DEF Rooms
    <3> QED BY <1>1, <3>1, <3>2 DEF IndInv, Types, TypeOK
  <2>2. UnlockedIsCurrent
        BY <1>1 DEF IndInv
  <2>3. UpToDate
    <3>1. SUFFICES ASSUME ws.greeted = "game", ws.up, ws.attached, ws.inbox = <<>>
                   PROVE  page.prompt = room.prompt /\ page.game = room.prompt /\ page.assigned = room.assigned
          BY DEF UpToDate
    <3>2. DOMAIN <<>> = {}
          BY LenProperties, EmptySeq
    <3>3. /\ page.game = page.prompt
          /\ StateComing(<<>>, page.prompt, room.prompt)
          /\ HoldersComing(<<>>, page.assigned, room.assigned)
          BY <1>1, <3>1 DEF IndInv, NewsInv, Followed
    <3> QED BY <3>2, <3>3 DEF StateComing, HoldersComing
  <2> QED BY <2>1, <2>2, <2>3 DEF PageTrue
<1> QED BY Inductive, <1>1, PTL

(* Every command that reaches the server was clicked on the socket it arrives on, and an
   answer names the prompt of the state it was clicked in (transport.rs connect_once). *)
THEOREM AnswersMeant == Spec => []CommandsMeant
<1>1. ASSUME IndInv PROVE CommandsMeant
  <2>1. \A q \in {ws.outbox, lingering} : q \in Seq(Commands)
        BY <1>1, ServerIs DEF Sockets
  <2>2. ASSUME NEW q \in {ws.outbox, lingering}, NEW k \in DOMAIN q, q[k].type = "Submit"
        PROVE  q[k].prompt = q[k].shown
    <3>1. q[k] \in Commands
          BY <2>1, <2>2, ElementOfSeq, LenProperties
    <3> QED BY <2>2, <3>1, CommandFields DEF Submits
  <2> QED BY <1>1, <2>2 DEF CommandsMeant, IndInv, OutboxMeant
<1> QED BY Inductive, <1>1, PTL

(* No frame, however late, takes a page back to a state it has left (store.rs reduce). *)
THEOREM NeverBack == Spec => OnlyForward
<1>1. ASSUME IndInv, [Next]_vars PROVE [page'.prompt >= page.prompt /\ page'.game >= page.game]_page
  <2>1. CASE page' = page
        BY <2>1
  <2>2. CASE Transport
        BY <1>1, <2>2, StepTransport
  <2>3. ASSUME NEW i \in Investigators, ClickAnswer(i)
        PROVE  page'.prompt >= page.prompt /\ page'.game >= page.game
    <3>1. page \in Pages /\ page.prompt \in Nat /\ page.game = page.prompt
          BY <1>1, Numbers DEF IndInv, Types, NewsInv, Pages
    <3>2. page' = [page EXCEPT !.last_submit = {i}]
          BY <2>3 DEF ClickAnswer
    <3>3. page'.prompt = page.prompt /\ page'.game = page.game
          BY <3>1, <3>2 DEF Pages
    <3> QED BY <3>1, <3>3
  <2>4. \/ page' = page \/ Transport \/ \E i \in Investigators : ClickAnswer(i)
    <3>1. CASE Clicked
          BY <3>1 DEF Clicked, ClickReassign, ClickInLobby
    <3>2. CASE Attach \/ Handle \/ HandleLingering \/ SendReply \/ Others \/ Restart \/ Forgotten
          BY <3>2 DEF Attach, Handle, HandleLingering, SendReply, Others, Restart, Forgotten, pageVars
    <3>3. CASE Fault
          BY <3>3 DEF Fault, Stop, Delete, Remove, SignOut, Drop, Late, RequestFails, Ends, pageVars
    <3>4. CASE UNCHANGED vars
          BY <3>4 DEF vars
    <3> QED BY <1>1, <3>1, <3>2, <3>3, <3>4 DEF Next
  <2> QED BY <2>1, <2>2, <2>3, <2>4
<1> QED BY Inductive, <1>1, PTL DEF Spec, OnlyForward

===============================================================================
