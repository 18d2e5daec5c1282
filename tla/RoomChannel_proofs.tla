------------------------- MODULE RoomChannel_proofs -------------------------
(***************************************************************************)
(* What a connection is promised by its room's channel, for any accounts,  *)
(* connections, channel capacity and number of changes.                    *)
(*                                                                         *)
(* Every step either leaves the room and its events alone or adds one      *)
(* event that takes the facets it carries one version on (RoomSteps).      *)
(* The rest of the argument is about one receiver at a time.               *)
(***************************************************************************)
EXTENDS RoomChannel, SequenceTheorems, TLAPS

Carries(k, f) == f \in DOMAIN events[k].view

\* The events' facets come in the order of their versions, up to the room's.
InOrder ==
    \A k \in 1..Len(events) : \A f \in Facets : Carries(k, f) =>
        /\ events[k].view[f] \in 1..room[f]
        /\ \A j \in 1..Len(events) :
              j < k /\ Carries(j, f) => events[j].view[f] < events[k].view[f]

\* What waits for a receiver, facet by facet: TakesOn, an event at a time.
Behind(c) ==
    \A f \in Facets :
        /\ view[c][f] <= room[f]
        /\ \A k \in at[c]..Len(events) : Carries(k, f) => events[k].view[f] > view[c][f]
        /\ \A v \in (view[c][f] + 1)..room[f] :
              \E k \in at[c]..Len(events) : Carries(k, f) /\ events[k].view[f] = v

\* A reply is built of what the room held by then.
BuiltFrom(c) ==
    /\ pc[c] = "draining" => \A f \in Facets : reply[c][f] <= room[f]
    /\ pc[c] = "replying" /\ c \notin lagged => \A f \in Facets : reply[c][f] <= view[c][f]

\* Only a task that went past the trigger's arm before it fired has taken a
\* frame in after it, and that one task is back at the arm before the next.
Overtime(c) ==
    /\ overtime[c] <= 1
    /\ overtime[c] = 1 => shutdown /\ pc[c] \in {"top", "handling", "draining", "replying"}

TaskInv(c) ==
    /\ Attached(c) /\ c \notin lagged => Behind(c)
    /\ BuiltFrom(c)
    /\ Overtime(c)

IndInv ==
    /\ TypeOK
    /\ events \in Seq(Event)
    /\ InOrder
    /\ \A c \in Conns : TaskInv(c)

\* One more event, which takes the facets S one version on.
Grows ==
    \E S \in SUBSET Facets : \E closes \in SUBSET Accounts :
        /\ room' = [f \in Facets |-> IF f \in S THEN room[f] + 1 ELSE room[f]]
        /\ Len(events') = Len(events) + 1
        /\ \A k \in 1..Len(events) : events'[k] = events[k]
        /\ events'[Len(events) + 1].view = [f \in S |-> room[f] + 1]
        /\ events'[Len(events) + 1].closes = closes

LEMMA BroadcastGrows ==
    ASSUME TypeOK, events \in Seq(Event),
           NEW S \in SUBSET Facets, NEW closes \in SUBSET Accounts, Broadcast(S, closes)
    PROVE  Grows /\ events' \in Seq(Event)
<1> DEFINE new == [f \in S |-> room[f] + 1]
           event == [view |-> new, closes |-> closes]
<1>1. new \in [S -> Nat]
      BY DEF TypeOK, View
<1>2. event \in [view : [S -> Nat], closes : SUBSET Accounts]
      BY <1>1
<1>3. event \in Event
      BY <1>2, Zenon DEF Event
<1>4. events' = Append(events, event)
      BY DEF Broadcast
<1>5. /\ events' \in Seq(Event)
      /\ Len(events') = Len(events) + 1
      /\ \A k \in 1..Len(events) : events'[k] = events[k]
      /\ events'[Len(events) + 1] = event
      <2> HIDE DEF event
      <2> QED BY <1>3, <1>4, AppendProperties
<1>6. room' = [f \in Facets |-> IF f \in S THEN room[f] + 1 ELSE room[f]]
      BY DEF Broadcast, Update
<1> QED BY <1>5, <1>6 DEF Grows

\* A step of the room, or of a task on the room's behalf.
LEMMA RoomSteps ==
    ASSUME TypeOK, events \in Seq(Event), ChannelAssumption,
           Changes \/ Delete \/ \E c \in Conns : Attach(c)
    PROVE  (Grows /\ events' \in Seq(Event)) \/ UNCHANGED <<room, events>>
<1>0. \A S \in SUBSET Facets : \A closes \in SUBSET Accounts :
          Broadcast(S, closes) => Grows /\ events' \in Seq(Event)
      BY BroadcastGrows
<1>1. /\ {"lobby"} \in SUBSET Facets /\ GameFacets \in SUBSET Facets /\ {"members"} \in SUBSET Facets
      /\ {"game"} \in SUBSET Facets /\ {"assigned"} \in SUBSET Facets /\ {} \in SUBSET Facets
      /\ {} \in SUBSET Accounts /\ Accounts \in SUBSET Accounts
      /\ \A a \in members : {a} \in SUBSET Accounts
      BY DEF Facets, GameFacets, TypeOK
<1>2. CASE Changes
      BY <1>0, <1>1, <1>2 DEF Changes
<1>3. CASE Delete
      BY <1>0, <1>1, <1>3 DEF Delete
<1>4. CASE \E c \in Conns : Attach(c)
      BY <1>0, <1>1, <1>4 DEF Attach
<1> QED BY <1>2, <1>3, <1>4

LEMMA GrowsTypes ==
    ASSUME TypeOK, events \in Seq(Event), events' \in Seq(Event), Grows
    PROVE  /\ room' \in View
           /\ DOMAIN events' = 1..Len(events')
           /\ \A k \in DOMAIN events' : /\ events'[k].closes \subseteq Accounts
                                        /\ DOMAIN events'[k].view \subseteq Facets
<1>1. room' \in View
      BY DEF Grows, TypeOK, View
<1>2. Len(events) \in Nat /\ DOMAIN events' = 1..Len(events')
      BY LenProperties
<1>3. PICK S \in SUBSET Facets, closes \in SUBSET Accounts :
          /\ Len(events') = Len(events) + 1
          /\ \A k \in 1..Len(events) : events'[k] = events[k]
          /\ events'[Len(events) + 1].view = [f \in S |-> room[f] + 1]
          /\ events'[Len(events) + 1].closes = closes
      BY DEF Grows
<1>4. ASSUME NEW k \in 1..Len(events')
      PROVE  events'[k].closes \subseteq Accounts /\ DOMAIN events'[k].view \subseteq Facets
  <2>1. CASE k \in 1..Len(events)
        BY <1>3, <2>1 DEF TypeOK
  <2>2. CASE k = Len(events) + 1
        BY <1>3, <2>2
  <2> QED BY <1>2, <1>3, <2>1, <2>2
<1> QED BY <1>1, <1>2, <1>4

\* Whatever the step does to the connections, the events stay in order.
LEMMA GrowsInOrder ==
    ASSUME TypeOK, events \in Seq(Event), InOrder, Grows
    PROVE  InOrder'
<1>1. /\ Len(events) \in Nat
      /\ \A f \in Facets : room[f] \in Nat
      BY LenProperties DEF TypeOK, View
<1>2. PICK S \in SUBSET Facets :
          /\ room' = [f \in Facets |-> IF f \in S THEN room[f] + 1 ELSE room[f]]
          /\ Len(events') = Len(events) + 1
          /\ \A k \in 1..Len(events) : events'[k] = events[k]
          /\ events'[Len(events) + 1].view = [f \in S |-> room[f] + 1]
      BY DEF Grows
<1>3. SUFFICES ASSUME NEW k \in 1..Len(events'), NEW f \in Facets, f \in DOMAIN events'[k].view
               PROVE  /\ events'[k].view[f] \in 1..room'[f]
                      /\ \A j \in 1..Len(events') :
                            j < k /\ f \in DOMAIN events'[j].view
                                => events'[j].view[f] < events'[k].view[f]
      BY DEF InOrder, Carries
<1>4. room'[f] \in Nat /\ room'[f] >= room[f]
      BY <1>1, <1>2
<1>5. CASE k \in 1..Len(events)
      BY <1>1, <1>2, <1>3, <1>4, <1>5 DEF InOrder, Carries
<1>6. CASE k = Len(events) + 1
  <2>1. f \in S /\ events'[k].view[f] = room[f] + 1 /\ room'[f] = room[f] + 1
        BY <1>2, <1>3, <1>6
  <2>2. ASSUME NEW j \in 1..Len(events), f \in DOMAIN events[j].view
        PROVE  events[j].view[f] <= room[f] /\ events[j].view[f] \in Nat
        BY <1>1, <2>2 DEF InOrder, Carries
  <2> QED BY <1>1, <1>2, <1>6, <2>1, <2>2
<1> QED BY <1>1, <1>2, <1>5, <1>6

\* One more event is one more thing that waits.
LEMMA GrowsBehind ==
    ASSUME TypeOK, events \in Seq(Event), InOrder, Grows,
           NEW c \in Conns, Behind(c), at'[c] = at[c], view'[c] = view[c]
    PROVE  Behind(c)'
<1>1. /\ Len(events) \in Nat
      /\ at[c] \in 1..(Len(events) + 1)
      /\ \A f \in Facets : room[f] \in Nat /\ view[c][f] \in Nat
      BY LenProperties DEF TypeOK, View
<1>2. PICK S \in SUBSET Facets :
          /\ room' = [f \in Facets |-> IF f \in S THEN room[f] + 1 ELSE room[f]]
          /\ Len(events') = Len(events) + 1
          /\ \A k \in 1..Len(events) : events'[k] = events[k]
          /\ events'[Len(events) + 1].view = [f \in S |-> room[f] + 1]
      BY DEF Grows
<1>3. SUFFICES ASSUME NEW f \in Facets
               PROVE  /\ view[c][f] <= room'[f]
                      /\ \A k \in at[c]..Len(events') :
                            f \in DOMAIN events'[k].view => events'[k].view[f] > view[c][f]
                      /\ \A v \in (view[c][f] + 1)..room'[f] :
                            \E k \in at[c]..Len(events') :
                               f \in DOMAIN events'[k].view /\ events'[k].view[f] = v
      BY DEF Behind, Carries
<1>4. view[c][f] <= room[f] /\ room'[f] \in Nat /\ room'[f] = IF f \in S THEN room[f] + 1 ELSE room[f]
      BY <1>1, <1>2 DEF Behind
<1>5. ASSUME NEW k \in at[c]..Len(events'), f \in DOMAIN events'[k].view
      PROVE  events'[k].view[f] > view[c][f]
  <2>1. CASE k \in at[c]..Len(events)
        BY <1>1, <1>2, <1>5, <2>1 DEF Behind, Carries
  <2>2. CASE k = Len(events) + 1
        BY <1>1, <1>2, <1>4, <1>5, <2>2
  <2> QED BY <1>1, <1>2, <2>1, <2>2
<1>6. ASSUME NEW v \in (view[c][f] + 1)..room'[f]
      PROVE  \E k \in at[c]..Len(events') : f \in DOMAIN events'[k].view /\ events'[k].view[f] = v
  <2>1. CASE v <= room[f]
    <3>1. PICK k \in at[c]..Len(events) : Carries(k, f) /\ events[k].view[f] = v
          BY <1>1, <2>1 DEF Behind
    <3>2. k \in at[c]..Len(events') /\ events'[k] = events[k]
          BY <1>1, <1>2
    <3> QED BY <3>1, <3>2 DEF Carries
  <2>2. CASE v > room[f]
    <3>1. f \in S /\ v = room[f] + 1
          BY <1>1, <1>4, <2>2
    <3>2. Len(events) + 1 \in at[c]..Len(events')
          BY <1>1, <1>2
    <3> QED BY <1>2, <3>1, <3>2
  <2> QED BY <1>1, <1>4, <2>1, <2>2
<1> QED BY <1>1, <1>4, <1>5, <1>6

\* The next event takes its facets on by one version exactly: those before it
\* were sent, and those after it are newer.
LEMMA ForwardBehind ==
    ASSUME TypeOK, events \in Seq(Event), InOrder, NEW c \in Conns, Behind(c), Waiting(c),
           UNCHANGED <<room, events>>,
           at'[c] = at[c] + 1, view'[c] = Update(view[c], events[at[c]].view)
    PROVE  Behind(c)'
<1>1. /\ Len(events) \in Nat
      /\ at[c] \in 1..Len(events)
      /\ \A f \in Facets : room[f] \in Nat /\ view[c][f] \in Nat
      BY LenProperties DEF TypeOK, View, Waiting
<1>2. SUFFICES ASSUME NEW f \in Facets
               PROVE  /\ view'[c][f] <= room[f]
                      /\ \A k \in (at[c] + 1)..Len(events) :
                            Carries(k, f) => events[k].view[f] > view'[c][f]
                      /\ \A v \in (view'[c][f] + 1)..room[f] :
                            \E k \in (at[c] + 1)..Len(events) :
                               Carries(k, f) /\ events[k].view[f] = v
      BY DEF Behind, Carries
<1>3. CASE ~Carries(at[c], f)
  <2>1. view'[c][f] = view[c][f]
        BY <1>3 DEF Update, Carries
  <2>2. ASSUME NEW v \in (view[c][f] + 1)..room[f]
        PROVE  \E k \in (at[c] + 1)..Len(events) : Carries(k, f) /\ events[k].view[f] = v
    <3>1. PICK k \in at[c]..Len(events) : Carries(k, f) /\ events[k].view[f] = v
          BY DEF Behind
    <3>2. k # at[c]
          BY <1>3, <3>1
    <3> QED BY <1>1, <3>1, <3>2
  <2> QED BY <1>1, <2>1, <2>2 DEF Behind
<1>4. CASE Carries(at[c], f)
  <2> DEFINE sent == events[at[c]].view[f]
  <2>1. view'[c][f] = sent /\ sent \in 1..room[f]
        BY <1>1, <1>4 DEF Update, Carries, InOrder
  <2>2. \A k \in (at[c] + 1)..Len(events) : Carries(k, f) => events[k].view[f] > sent
        BY <1>1, <1>4, <2>1 DEF InOrder
  <2>3. ASSUME NEW v \in (sent + 1)..room[f]
        PROVE  \E k \in (at[c] + 1)..Len(events) : Carries(k, f) /\ events[k].view[f] = v
    <3>1. sent > view[c][f]
          BY <1>1, <1>4 DEF Behind
    <3>2. PICK k \in at[c]..Len(events) : Carries(k, f) /\ events[k].view[f] = v
          BY <1>1, <2>1, <3>1 DEF Behind
    <3>3. k # at[c]
          BY <1>1, <2>1, <3>2
    <3> QED BY <1>1, <3>2, <3>3
  <2> QED BY <2>1, <2>2, <2>3
<1> QED BY <1>3, <1>4

LEMMA RoomNext ==
    ASSUME IndInv, [Next]_vars
    PROVE  \/ Grows /\ events' \in Seq(Event)
           \/ UNCHANGED <<room, events>>
<1>1. CASE Changes \/ Delete \/ \E c \in Conns : Attach(c)
      BY <1>1, ChannelAssumption, RoomSteps DEF IndInv
<1>2. CASE Trigger \/ UNCHANGED vars
      BY <1>2 DEF Trigger, vars, roomVars
<1>3. ASSUME NEW c \in Conns,
             Open(c) \/ TakeFrame(c) \/ Fail(c) \/ PollShutdown(c) \/ PollEvents(c) \/ Rest(c)
             \/ Replied(c) \/ Drain(c) \/ SendReply(c)
      PROVE  UNCHANGED <<room, events>>
      BY <1>3 DEF Open, TakeFrame, Fail, PollShutdown, PollEvents, Rest, Replied, Drain,
                  SendReply, Skip, Forward, End, roomVars
<1>4. ASSUME NEW c \in Conns, Carried(c) PROVE Changes
      BY <1>4 DEF Carried
<1> QED BY <1>1, <1>2, <1>3, <1>4 DEF Next, Runs

LEMMA TypeNext == ASSUME IndInv, [Next]_vars PROVE TypeOK'
<1>1. /\ Len(events) \in Nat /\ Len(events') \in Nat /\ Len(events) <= Len(events')
      /\ room' \in View
      /\ DOMAIN events' = 1..Len(events')
      /\ \A k \in DOMAIN events' : /\ events'[k].closes \subseteq Accounts
                                   /\ DOMAIN events'[k].view \subseteq Facets
  <2>1. CASE Grows /\ events' \in Seq(Event)
        BY <2>1, GrowsTypes, LenProperties DEF IndInv, Grows
  <2>2. CASE UNCHANGED <<room, events>>
        BY <2>2, LenProperties DEF IndInv, TypeOK
  <2> QED BY <2>1, <2>2, RoomNext
<1> DEFINE RoomOK == /\ phase \in {"lobby", "live", "deleted"}
                     /\ members \subseteq Accounts
           TaskOK == /\ pc \in [Conns -> PCs]
                     /\ at \in [Conns -> 1..(Len(events) + 1)]
                     /\ view \in [Conns -> View]
                     /\ reply \in [Conns -> View]
                     /\ lagged \subseteq Conns
                     /\ shutdown \in BOOLEAN
                     /\ overtime \in [Conns -> Nat]
<1>2. Nothing \in View
      BY DEF Nothing, View
<1>3. CASE Delete
  <2>1. RoomOK'
        BY <1>3 DEF Delete, IndInv, TypeOK
  <2>2. TaskOK'
        BY <1>1, <1>3 DEF Delete, IndInv, TypeOK
  <2> QED BY <1>1, <2>1, <2>2 DEF TypeOK
<1>4. CASE Trigger
      BY <1>4 DEF Trigger, roomVars, IndInv, TypeOK
<1>5. CASE UNCHANGED vars
      BY <1>5 DEF vars, IndInv, TypeOK
<1>6. ASSUME NEW c \in Conns, Attach(c) PROVE TypeOK'
  <2>1. RoomOK'
        BY <1>6, ChannelAssumption DEF Attach, IndInv, TypeOK
  <2>2. Subscription(events') \in 1..(Len(events') + 1)
        BY <1>1 DEF Subscription
  <2>3. TaskOK'
    <3> HIDE DEF Subscription
    <3>1. at' \in [Conns -> 1..(Len(events') + 1)]
          BY <1>1, <1>6, <2>2 DEF Attach, IndInv, TypeOK
    <3>2. view' \in [Conns -> View]
          BY <1>1, <1>6 DEF Attach, IndInv, TypeOK
    <3> QED BY <1>6, <3>1, <3>2 DEF Attach, Goto, PCs, IndInv, TypeOK
  <2> QED BY <1>1, <2>1, <2>3 DEF TypeOK
<1>7. ASSUME NEW c \in Conns, Carried(c) PROVE TypeOK'
  <2>1. RoomOK'
        BY <1>7 DEF Carried, Changes, IndInv, TypeOK
  <2>2. TaskOK'
        BY <1>1, <1>7 DEF Carried, Goto, PCs, IndInv, TypeOK
  <2> QED BY <1>1, <2>1, <2>2 DEF TypeOK
<1>8. ASSUME NEW c \in Conns, End(c) PROVE TypeOK'
  <2>1. RoomOK'
        BY <1>8 DEF End, roomVars, IndInv, TypeOK
  <2>2. TaskOK'
        BY <1>1, <1>2, <1>8 DEF End, Goto, PCs, roomVars, IndInv, TypeOK
  <2> QED BY <1>1, <2>1, <2>2 DEF TypeOK
<1>9. ASSUME NEW c \in Conns, NEW then \in PCs, Skip(c, then) PROVE TypeOK'
  <2>1. Len(events) - Capacity + 1 \in 1..(Len(events) + 1)
        BY <1>1, <1>9, ChannelAssumption DEF Skip, Overrun, IndInv, TypeOK
  <2>2. TaskOK'
        BY <1>9, <2>1 DEF Skip, Goto, roomVars, IndInv, TypeOK
  <2> QED BY <1>1, <1>9, <2>2 DEF Skip, roomVars, IndInv, TypeOK
<1>10. ASSUME NEW c \in Conns, NEW then \in PCs, Forward(c, then) PROVE TypeOK'
  <2>1. CASE End(c)
        BY <1>8, <2>1
  <2>2. CASE ~End(c)
    <3>1. /\ at' = [at EXCEPT ![c] = @ + 1]
          /\ view' = [view EXCEPT ![c] = Update(@, events[at[c]].view)]
          /\ Goto(c, then)
          /\ UNCHANGED <<roomVars, reply, lagged, shutdown, overtime>>
          BY <1>10, <2>2 DEF Forward
    <3>2. at[c] \in 1..Len(events)
          BY <1>1, <1>10 DEF Forward, Waiting, IndInv, TypeOK
    <3>3. Update(view[c], events[at[c]].view) \in View
          BY <1>1, <3>2 DEF Update, View, IndInv, InOrder, Carries, TypeOK
    <3>4. TaskOK'
          BY <1>1, <3>1, <3>2, <3>3 DEF Goto, roomVars, IndInv, TypeOK
    <3> QED BY <1>1, <3>1, <3>4 DEF roomVars, IndInv, TypeOK
  <2> QED BY <2>1, <2>2
<1>11. ASSUME NEW c \in Conns, Open(c) \/ Rest(c) \/ Replied(c) \/ SendReply(c) \/ TakeFrame(c)
       PROVE  TypeOK'
  <2>1. CASE Open(c) \/ Rest(c)
        BY <1>1, <2>1 DEF Open, Rest, Goto, PCs, roomVars, IndInv, TypeOK
  <2>2. CASE Replied(c)
        BY <1>1, <2>2 DEF Replied, Goto, PCs, roomVars, IndInv, TypeOK
  <2>3. CASE SendReply(c)
        BY <1>1, <1>2, <2>3 DEF SendReply, Goto, PCs, roomVars, IndInv, TypeOK
  <2>4. CASE TakeFrame(c)
        BY <1>1, <2>4 DEF TakeFrame, Goto, PCs, roomVars, IndInv, TypeOK
  <2> QED BY <1>11, <2>1, <2>2, <2>3, <2>4
<1>12. ASSUME NEW c \in Conns, Fail(c) \/ PollShutdown(c) \/ PollEvents(c) \/ Drain(c) PROVE TypeOK'
  <2>1. \/ End(c)
        \/ \E then \in PCs : Skip(c, then) \/ Forward(c, then)
        \/ /\ \E l \in PCs : Goto(c, l)
           /\ UNCHANGED <<roomVars, at, view, reply, lagged, shutdown, overtime>>
        BY <1>12 DEF Fail, PollShutdown, PollEvents, Drain, PCs
  <2>2. ASSUME \E l \in PCs : Goto(c, l), UNCHANGED <<roomVars, at, view, reply, lagged, shutdown, overtime>>
        PROVE  TypeOK'
        BY <2>2 DEF Goto, roomVars, IndInv, TypeOK
  <2> QED BY <1>8, <1>9, <1>10, <2>1, <2>2
<1> QED BY <1>3, <1>4, <1>5, <1>6, <1>7, <1>8, <1>9, <1>10, <1>11, <1>12 DEF Next, Runs

\* A task the step does not touch.
Still(c) ==
    /\ at'[c] = at[c] /\ view'[c] = view[c] /\ reply'[c] = reply[c]
    /\ pc'[c] = pc[c] /\ overtime'[c] = overtime[c]
    /\ c \in lagged' <=> c \in lagged
    /\ shutdown => shutdown'

\* The room never takes a facet back.
LEMMA RoomOnward ==
    ASSUME IndInv, [Next]_vars
    PROVE  \A f \in Facets : room[f] \in Nat /\ room'[f] \in Nat /\ room[f] <= room'[f]
<1>1. \A f \in Facets : room[f] \in Nat
      BY DEF IndInv, TypeOK, View
<1>2. CASE Grows
      BY <1>1, <1>2 DEF Grows
<1> QED BY <1>1, <1>2, RoomNext

LEMMA StillBehind ==
    ASSUME IndInv, [Next]_vars, NEW c \in Conns, Behind(c), at'[c] = at[c], view'[c] = view[c]
    PROVE  Behind(c)'
<1>1. CASE Grows /\ events' \in Seq(Event)
      BY <1>1, GrowsBehind DEF IndInv
<1>2. CASE UNCHANGED <<room, events>>
      BY <1>2 DEF Behind, Carries
<1> QED BY <1>1, <1>2, RoomNext

LEMMA StillTask ==
    ASSUME IndInv, [Next]_vars, NEW c \in Conns, Still(c)
    PROVE  TaskInv(c)'
<1>1. Attached(c)' /\ c \notin lagged' => Behind(c)'
      BY StillBehind DEF Still, Attached, IndInv, TaskInv
<1>2. BuiltFrom(c)'
  <2>1. \A f \in Facets : reply[c][f] \in Nat
        BY DEF IndInv, TypeOK, View
  <2> QED BY <2>1, RoomOnward DEF Still, BuiltFrom, IndInv, TaskInv
<1>3. Overtime(c)'
      BY DEF Still, Overtime, IndInv, TaskInv
<1> QED BY <1>1, <1>2, <1>3 DEF TaskInv

\* The task d of the step itself, one action at a time.
LEMMA MovedTask ==
    ASSUME IndInv, [Next]_vars, NEW d \in Conns,
           Open(d) \/ TakeFrame(d) \/ Fail(d) \/ Runs(d)
    PROVE  TaskInv(d)'
<1> USE DEF IndInv
<1>0. /\ Len(events) \in Nat
      /\ overtime[d] \in Nat /\ pc[d] \in PCs
      /\ \A f \in Facets : room[f] \in Nat /\ view[d][f] \in Nat /\ reply[d][f] \in Nat
      BY LenProperties DEF TypeOK, View
<1>1. CASE Open(d)
      BY <1>1 DEF Open, Goto, TypeOK, TaskInv, Attached, BuiltFrom, Overtime
<1>2. CASE TakeFrame(d)
  <2>1. /\ at'[d] = at[d] /\ view'[d] = view[d] /\ lagged' = lagged
        /\ pc[d] = "frames" /\ pc'[d] = "handling"
        /\ overtime'[d] = IF shutdown THEN overtime[d] + 1 ELSE overtime[d]
        /\ UNCHANGED shutdown
        BY <1>2 DEF TakeFrame, Goto, TypeOK
  <2>2. overtime[d] = 0
        BY <1>0, <2>1 DEF Overtime, TaskInv
  <2> QED BY <2>1, <2>2, StillBehind DEF TaskInv, Attached, BuiltFrom, Overtime
<1>3. ASSUME End(d) PROVE TaskInv(d)'
      BY <1>3 DEF End, Goto, TypeOK, TaskInv, Attached, BuiltFrom, Overtime
<1>4. CASE Attach(d)
  <2>1. /\ pc[d] = "attaching" /\ pc'[d] = "top" /\ overtime'[d] = overtime[d]
        /\ at'[d] = Len(events') + 1 /\ view'[d] = room'
        BY <1>4 DEF Attach, Goto, Subscription, TypeOK
  <2>3. overtime'[d] = 0
        BY <1>0, <2>1 DEF Overtime, TaskInv
  <2>2. Behind(d)'
    <3>1. \A f \in Facets : room'[f] \in Nat
          BY RoomOnward
    <3>2. Len(events') \in Nat
          BY TypeNext, RoomNext, LenProperties
    <3> QED BY <2>1, <3>1, <3>2 DEF Behind, Carries
  <2> QED BY <2>1, <2>2, <2>3 DEF TaskInv, Attached, BuiltFrom, Overtime
<1>5. ASSUME NEW then \in {"top", "draining"}, Skip(d, then),
             pc[d] = (IF then = "top" THEN "events" ELSE "draining")
      PROVE  TaskInv(d)'
  <2>1. /\ d \in lagged' /\ pc'[d] = then /\ reply'[d] = reply[d] /\ overtime'[d] = overtime[d]
        /\ UNCHANGED <<room, shutdown>>
        BY <1>5 DEF Skip, Goto, roomVars, TypeOK
  <2> QED BY <1>5, <2>1 DEF TaskInv, BuiltFrom, Overtime
<1>6. ASSUME NEW then \in {"top", "draining"}, Forward(d, then),
             pc[d] = (IF then = "top" THEN "events" ELSE "draining")
      PROVE  TaskInv(d)'
  <2>1. CASE ~End(d)
    <3>1. /\ at'[d] = at[d] + 1
          /\ view'[d] = Update(view[d], events[at[d]].view)
          /\ pc'[d] = then /\ reply'[d] = reply[d] /\ overtime'[d] = overtime[d]
          /\ UNCHANGED <<room, events, lagged, shutdown>>
          /\ Waiting(d)
          BY <1>6, <2>1 DEF Forward, Goto, roomVars, TypeOK
    <3>2. d \notin lagged => Behind(d)'
          BY <1>6, <3>1, ForwardBehind DEF Attached, TaskInv
    <3> QED BY <1>6, <3>1, <3>2 DEF TaskInv, BuiltFrom, Overtime
  <2> QED BY <1>3, <2>1
<1>7. CASE PollShutdown(d)
  <2>1. CASE ~End(d)
        BY <1>7, <2>1, StillBehind DEF PollShutdown, Goto, TypeOK, TaskInv, Attached, BuiltFrom, Overtime
  <2> QED BY <1>3, <2>1
<1>8. CASE PollEvents(d)
  <2>1. CASE ~Waiting(d) /\ Goto(d, "frames")
             /\ UNCHANGED <<roomVars, at, view, reply, lagged, shutdown, overtime>>
        BY <1>8, <2>1, StillBehind DEF PollEvents, Goto, TypeOK, TaskInv, Attached, BuiltFrom, Overtime
  <2> QED BY <1>5, <1>6, <1>8, <2>1 DEF PollEvents
<1>9. CASE Rest(d)
      BY <1>9, StillBehind DEF Rest, Goto, TypeOK, TaskInv, Attached, BuiltFrom, Overtime
<1>10. CASE Carried(d)
      BY <1>10, StillBehind DEF Carried, Goto, TypeOK, TaskInv, Attached, BuiltFrom, Overtime
<1>11. CASE Replied(d)
  <2>1. /\ pc[d] = "handling" /\ pc'[d] = "draining" /\ reply'[d] = room
        /\ at'[d] = at[d] /\ view'[d] = view[d] /\ overtime'[d] = overtime[d]
        /\ UNCHANGED <<room, lagged, shutdown>>
        BY <1>11 DEF Replied, Goto, roomVars, TypeOK
  <2> QED BY <1>0, <2>1, StillBehind DEF TaskInv, Attached, BuiltFrom, Overtime
<1>12. CASE Drain(d)
  <2>1. CASE ~Waiting(d) /\ Goto(d, "replying")
             /\ UNCHANGED <<roomVars, at, view, reply, lagged, shutdown, overtime>>
    <3>1. /\ pc[d] = "draining" /\ pc'[d] = "replying" /\ at'[d] = at[d] /\ view'[d] = view[d]
          /\ reply'[d] = reply[d] /\ overtime'[d] = overtime[d]
          /\ UNCHANGED <<lagged, shutdown>>
          BY <1>12, <2>1 DEF Drain, Goto, TypeOK
    <3>2. d \notin lagged => Behind(d)'
          BY <3>1, StillBehind DEF Attached, TaskInv
    <3>3. ASSUME d \notin lagged, NEW f \in Facets PROVE reply[d][f] <= view[d][f]
      <4>1. ~\E k \in at[d]..Len(events) : TRUE
            BY <1>0, <2>1 DEF Waiting, TypeOK
      <4>2. room[f] <= view[d][f]
            BY <1>0, <3>1, <3>3, <4>1 DEF Behind, Attached, TaskInv
      <4> QED BY <1>0, <3>1, <4>2 DEF BuiltFrom, TaskInv
    <3> QED BY <3>1, <3>2, <3>3 DEF TaskInv, BuiltFrom, Overtime
  <2> QED BY <1>5, <1>6, <1>12, <2>1 DEF Drain
<1>13. CASE SendReply(d)
      BY <1>13, StillBehind DEF SendReply, Goto, TypeOK, TaskInv, Attached, BuiltFrom, Overtime
<1>14. CASE Fail(d)
      BY <1>3, <1>14 DEF Fail
<1> QED BY <1>1, <1>2, <1>4, <1>7, <1>8, <1>9, <1>10, <1>11, <1>12, <1>13, <1>14 DEF Runs

\* A step moves one task at most.
LEMMA OtherTasks ==
    ASSUME IndInv, NEW c \in Conns,
           NEW d \in Conns, d # c, Open(d) \/ TakeFrame(d) \/ Fail(d) \/ Runs(d)
    PROVE  Still(c)
<1> USE DEF IndInv, TypeOK, Still, Goto
<1>1. ASSUME End(d) PROVE Still(c)
      BY <1>1 DEF End
<1>2. ASSUME NEW then, Skip(d, then) PROVE Still(c)
      BY <1>2 DEF Skip
<1>3. ASSUME NEW then, Forward(d, then) PROVE Still(c)
      BY <1>1, <1>3 DEF Forward
<1>4. CASE Open(d) \/ TakeFrame(d) \/ Attach(d) \/ Rest(d) \/ Carried(d) \/ Replied(d) \/ SendReply(d)
      BY <1>4 DEF Open, TakeFrame, Attach, Rest, Carried, Replied, SendReply
<1>5. CASE Fail(d) \/ PollShutdown(d)
      BY <1>1, <1>5 DEF Fail, PollShutdown
<1>6. CASE PollEvents(d) \/ Drain(d)
      BY <1>2, <1>3, <1>6 DEF PollEvents, Drain
<1> QED BY <1>4, <1>5, <1>6 DEF Runs

LEMMA IndNext == ASSUME IndInv, [Next]_vars PROVE IndInv'
<1>1. TypeOK'
      BY TypeNext
<1>2. events' \in Seq(Event)
      BY RoomNext DEF IndInv
<1>3. InOrder'
  <2>1. CASE UNCHANGED <<room, events>>
        BY <2>1 DEF IndInv, InOrder, Carries
  <2> QED BY <2>1, RoomNext, GrowsInOrder DEF IndInv
<1>4. ASSUME NEW c \in Conns PROVE TaskInv(c)'
  <2>1. CASE Delete \/ Trigger \/ UNCHANGED vars
    <3>1. Still(c)
          BY <2>1 DEF Delete, Trigger, vars, Still
    <3> QED BY <3>1, StillTask
  <2>2. ASSUME NEW d \in Conns, Open(d) \/ TakeFrame(d) \/ Fail(d) \/ Runs(d)
        PROVE  TaskInv(c)'
        BY <2>2, MovedTask, OtherTasks, StillTask
  <2> QED BY <2>1, <2>2 DEF Next
<1> QED BY <1>1, <1>2, <1>3, <1>4 DEF IndInv, TaskInv

LEMMA InitInd == Init => IndInv
<1> SUFFICES ASSUME Init PROVE IndInv
    OBVIOUS
<1>1. events \in Seq(Event) /\ Len(events) = 0
      BY EmptySeq DEF Init
<1>2. Nothing \in View
      BY DEF Nothing, View
<1>3. TypeOK
  <2>1. DOMAIN events = 1..Len(events) /\ \A k \in DOMAIN events : FALSE
        BY <1>1, LenProperties
  <2>2. members \subseteq Accounts /\ room \in View
        BY <1>2, ChannelAssumption DEF Init
  <2>3. /\ pc \in [Conns -> PCs] /\ at \in [Conns -> 1..(Len(events) + 1)]
        /\ view \in [Conns -> View] /\ reply \in [Conns -> View] /\ overtime \in [Conns -> Nat]
        BY <1>1, <1>2 DEF Init, PCs
  <2> QED BY <2>1, <2>2, <2>3 DEF Init, TypeOK
<1>4. InOrder
      BY <1>1 DEF InOrder
<1>5. \A c \in Conns : TaskInv(c)
      BY DEF Init, TaskInv, Attached, BuiltFrom, Overtime
<1> QED BY <1>1, <1>3, <1>4, <1>5 DEF IndInv, TaskInv

LEMMA Inductive == Spec => []IndInv
BY InitInd, IndNext, PTL DEF Spec

\* A connection that was never overrun has been sent, of each facet, exactly
\* what came before what still waits for it: nothing twice, nothing skipped.
THEOREM NoneSkipped == Spec => []NothingSkipped
<1>1. ASSUME IndInv PROVE NothingSkipped
  <2>1. SUFFICES ASSUME NEW c \in Conns, Behind(c) PROVE TakesOn(c)
        BY <1>1 DEF IndInv, TaskInv, NothingSkipped
  <2>2. /\ Len(events) \in Nat /\ at[c] \in 1..(Len(events) + 1)
        /\ \A f \in Facets : room[f] \in Nat /\ view[c][f] \in Nat
        BY <1>1, LenProperties DEF IndInv, TypeOK, View
  <2>3. ASSUME NEW f \in Facets
        PROVE  {events[k].view[f] : k \in {n \in at[c]..Len(events) : f \in DOMAIN events[n].view}}
                  = (view[c][f] + 1)..room[f]
    <3>1. ASSUME NEW k \in at[c]..Len(events), Carries(k, f)
          PROVE  events[k].view[f] \in (view[c][f] + 1)..room[f]
          BY <1>1, <2>1, <2>2, <3>1 DEF Behind, IndInv, InOrder
    <3>2. \A v \in (view[c][f] + 1)..room[f] :
             \E k \in at[c]..Len(events) : Carries(k, f) /\ events[k].view[f] = v
          BY <2>1 DEF Behind
    <3> QED BY <3>1, <3>2 DEF Carries
  <2> QED BY <2>3 DEF TakesOn
<1> QED BY <1>1, Inductive, PTL

\* A client is told of every change made before a reply was built before it is
\* sent that reply.
THEOREM CauseFirst == Spec => []ReplyAfterItsCause
<1>1. IndInv => ReplyAfterItsCause
      BY DEF IndInv, TaskInv, ReplyAfterItsCause, BuiltFrom, TypeOK, View
<1> QED BY <1>1, Inductive, PTL

\* However many frames a client keeps sending, its task carries out one more
\* at most once the shutdown has been triggered.
THEOREM OneMoreFrame == Spec => []OneFrameOvertime
<1>1. IndInv => OneFrameOvertime
      BY DEF IndInv, TaskInv, OneFrameOvertime, Overtime
<1> QED BY <1>1, Inductive, PTL

===============================================================================
