----------------------------- MODULE RoomRegistry -----------------------------
(***************************************************************************)
(* The room registry of the server (server/src/rooms.rs) for one game id,  *)
(* with the two handlers that call it: a connection (a websocket, or a     *)
(* listing) gets the room and holds it; DELETE /games/{id}                 *)
(* (server/src/lifecycle.rs) gets the room and deletes the game under it,  *)
(* or, for a game that does not load, deletes it through delete_with.      *)
(*                                                                         *)
(* Every operation of the registry touches the one slot of its game, so    *)
(* the map is modelled by that slot.  The map's lock is held for one step  *)
(* at a time: each action below that reads or writes `slot` is one         *)
(* critical section, and everything between two of them interleaves.       *)
(***************************************************************************)
EXTENDS Naturals, FiniteSets

CONSTANTS
    Tasks,          \* tasks that call the registry
    Deleters,       \* those that handle a DELETE; the others attach
    Creators,       \* deleters whose account created the game
    Droppable,      \* those whose future may be dropped: an HTTP handler's is
                    \* when its client goes away, a spawned socket task's is not
    Entries,        \* allocations an Arc<Entry> can have
    Resumes,        \* the builds considered: whether the stored game rebuilds
    MaxGeneration,  \* bound: registrations counted on one slot
    NoSlot, NoTask

ASSUME RegistryAssumption ==
    /\ IsFiniteSet(Tasks)
    /\ Deleters \subseteq Tasks
    /\ Creators \subseteq Deleters
    /\ Droppable \subseteq Tasks
    /\ Resumes \subseteq BOOLEAN
    /\ MaxGeneration \in Nat
    /\ NoTask \notin Tasks
    /\ NoSlot \notin [entry : Entries, connections : Nat, generation : Nat, timer : Nat]

VARIABLES
    rows,       \* whether the game's rows are stored
    resumable,  \* whether they rebuild under this build
    slot,       \* the game's place in the map, or NoSlot
    cell,       \* what each entry's OnceCell holds
    runner,     \* the task running each entry's initialiser
    deleted,    \* entries whose room's game is RoomGame::Deleted
    roomLock,   \* the task holding each room's game lock
    timers,     \* idle timers not yet finished or aborted
    pc, entry, call, result, next,  \* each task's place in its handler
    erasing,    \* a delete whose waiter was dropped while it was committing
    returned,   \* a delete has answered 204 (history)
    late        \* tasks whose get began after that (history)

taskVars == <<pc, entry, call, result, next>>
storeVars == <<rows, resumable, erasing>>
history == <<returned, late>>
cellVars == <<cell, runner, deleted, roomLock>>
vars == <<rows, resumable, slot, cell, runner, deleted, roomLock, timers,
          pc, entry, call, result, next, erasing, returned, late>>

Fleeting == {"notfound", "transient"}           \* results a load never leaves behind
Results  == Fleeting \cup {"room", "unresumable"}
Calls    == {"attach", "delete", "delete_with"}

\* The awaits a dropped future can be suspended at.
Loading  == {"reading", "rebuilding"}
Erasing  == {"checking", "deleting", "erased"}  \* inside delete_with's initialiser
Awaits   == {"waiting", "connected", "locked", "marking"} \cup Loading \cup Erasing

PCs == Awaits \cup {"idle", "settling", "filling", "forgetting", "leaving", "replacing"}

Slot  == [entry : Entries, connections : Nat, generation : Nat, timer : Nat]
Timer == [entry : Entries, generation : Nat, awake : BOOLEAN]

TypeOK ==
    /\ rows \in BOOLEAN
    /\ resumable \in BOOLEAN
    /\ slot \in Slot \cup {NoSlot}
    /\ cell \in [Entries -> Results \cup {"empty"}]
    /\ runner \in [Entries -> Tasks \cup {NoTask}]
    /\ deleted \subseteq Entries
    /\ roomLock \in [Entries -> Tasks \cup {NoTask}]
    /\ timers \subseteq Timer
    /\ pc \in [Tasks -> PCs]
    /\ entry \in [Tasks -> Entries]
    /\ call \in [Tasks -> Calls]
    /\ result \in [Tasks -> Results]
    /\ next \in [Tasks -> {"idle", "replacing", "done"}]
    /\ erasing \in BOOLEAN
    /\ returned \in BOOLEAN
    /\ late \subseteq Tasks

-------------------------------------------------------------------------------
(* A registration is counted from its register until its drop. *)
Registered(t) == pc[t] \notin {"idle", "replacing"}
On(e) == {t \in Tasks : Registered(t) /\ entry[t] = e}

\* Place::slot: the map still holds this very entry.
Mapped_AnyEntry(e) == slot # NoSlot
Mapped(e) == slot # NoSlot /\ slot.entry = e

\* Entry::failed
Failed_OrUnloaded(e) == cell[e] # "room"
Failed(e) == cell[e] \notin {"empty", "room"}

\* An allocation is free once no slot, place or timer holds its Arc.
Unreferenced ==
    {e \in Entries : /\ ~Mapped(e)
                     /\ On(e) = {}
                     /\ \A tm \in timers : tm.entry # e}

Init ==
    /\ rows \in BOOLEAN
    /\ resumable \in Resumes
    /\ slot = NoSlot
    /\ cell = [e \in Entries |-> "empty"]
    /\ runner = [e \in Entries |-> NoTask]
    /\ deleted = {}
    /\ roomLock = [e \in Entries |-> NoTask]
    /\ timers = {}
    /\ pc = [t \in Tasks |-> "idle"]
    /\ \E e \in Entries : entry = [t \in Tasks |-> e]
    /\ call = [t \in Tasks |-> "attach"]
    /\ result = [t \in Tasks |-> "notfound"]
    /\ next = [t \in Tasks |-> "idle"]
    /\ erasing = FALSE
    /\ returned = FALSE
    /\ late = {}

-------------------------------------------------------------------------------
(* Slots and idle timers *)

\* Abort the slot's timer: one still asleep never runs, one that has woken may
\* already be past the abort.
AbortTimer ==
    LET aborted == {tm \in timers : slot # NoSlot /\ tm.entry = slot.entry
                                     /\ tm.generation = slot.timer}
    IN  \E gone \in SUBSET aborted :
            /\ \A tm \in aborted \ gone : tm.awake
            /\ timers' = timers \ gone

\* count_on, on the slot itself: one more connection, a new generation, no timer.
CountOn_Flag(s) ==
    [entry |-> s.entry, connections |-> 1, generation |-> s.generation + 1, timer |-> 0]
CountOn(s) ==
    [entry |-> s.entry, connections |-> s.connections + 1,
     generation |-> s.generation + 1, timer |-> 0]

Unloaded(e) == [entry |-> e, connections |-> 0, generation |-> 0, timer |-> 0]

\* A fresh allocation, its cell empty.
Allocate(e) ==
    /\ e \in Unreferenced
    /\ cell' = [cell EXCEPT ![e] = "empty"]
    /\ runner' = [runner EXCEPT ![e] = NoTask]
    /\ deleted' = deleted \ {e}
    /\ roomLock' = [roomLock EXCEPT ![e] = NoTask]

\* remove_if: take this entry out of the map if it is still there.
Unmap(e) == slot' = IF Mapped(e) THEN NoSlot ELSE slot

-------------------------------------------------------------------------------
(* get_or_load *)

\* register: count a connection on the game's slot, putting one in if need be.
Get(t) ==
    /\ pc[t] = "idle"
    /\ \/ /\ slot # NoSlot
          /\ slot.generation < MaxGeneration
          /\ slot' = CountOn(slot)
          /\ AbortTimer
          /\ entry' = [entry EXCEPT ![t] = slot.entry]
          /\ UNCHANGED cellVars
       \/ /\ slot = NoSlot
          /\ \E e \in Entries :
                /\ Allocate(e)
                /\ slot' = CountOn(Unloaded(e))
                /\ entry' = [entry EXCEPT ![t] = e]
          /\ UNCHANGED timers
    /\ pc' = [pc EXCEPT ![t] = "waiting"]
    /\ call' = [call EXCEPT ![t] = IF t \in Deleters THEN "delete" ELSE "attach"]
    /\ late' = IF returned THEN late \cup {t} ELSE late
    /\ UNCHANGED <<storeVars, result, next, returned>>

\* get_or_init: the first waiter of an empty cell runs the initialiser; if it is
\* dropped, the next waiter runs its own.
BeginInit(t) ==
    /\ pc[t] = "waiting"
    /\ cell[entry[t]] = "empty"
    /\ runner[entry[t]] = NoTask
    /\ runner' = [runner EXCEPT ![entry[t]] = t]
    /\ pc' = [pc EXCEPT ![t] = IF call[t] = "delete_with" THEN "checking" ELSE "reading"]
    /\ UNCHANGED <<storeVars, slot, cell, deleted, roomLock, timers, entry, call, result,
                   next, history>>

\* Loader::read: the rows, no rows, or a database error.
Read(t) ==
    /\ pc[t] = "reading"
    /\ \/ /\ rows
          /\ pc' = [pc EXCEPT ![t] = "rebuilding"]
          /\ UNCHANGED result
       \/ /\ pc' = [pc EXCEPT ![t] = "settling"]
          /\ result' = [result EXCEPT ![t] = IF rows THEN "transient" ELSE "notfound"]
    /\ UNCHANGED <<storeVars, slot, cellVars, timers, entry, call, next, history>>

\* Loader::rebuild, on a blocking thread, of the rows read.
Rebuild(t) ==
    /\ pc[t] = "rebuilding"
    /\ pc' = [pc EXCEPT ![t] = "settling"]
    /\ result' = [result EXCEPT ![t] = IF resumable THEN "room" ELSE "unresumable"]
    /\ UNCHANGED <<storeVars, slot, cellVars, timers, entry, call, next, history>>

\* Loader::is_permanent, and a room: what the entry keeps.
Kept_AnyFailure(r) == r # "notfound"
Kept(r) == r \notin Fleeting

\* The end of load_into: a result that is not kept leaves the map first.
Settle(t) ==
    /\ pc[t] = "settling"
    /\ IF Kept(result[t]) THEN UNCHANGED slot ELSE Unmap(entry[t])
    /\ pc' = [pc EXCEPT ![t] = "filling"]
    /\ UNCHANGED <<storeVars, cellVars, timers, entry, call, result, next, history>>

\* The initialiser returns: the cell is set, and its waiters share what it holds.
Fill(t) ==
    /\ pc[t] = "filling"
    /\ cell' = [cell EXCEPT ![entry[t]] = result[t]]
    /\ runner' = [runner EXCEPT ![entry[t]] = NoTask]
    /\ pc' = [pc EXCEPT ![t] = IF call[t] = "delete_with" THEN "leaving" ELSE "waiting"]
    /\ UNCHANGED <<storeVars, slot, deleted, roomLock, timers, entry, call, result, next,
                   history>>

\* get_or_init returns the cell's value: a room, or a failure that drops the
\* registration.  An unresumable game is deleted through delete_with.  In
\* delete_with a value some get loaded first is thrown away with its entry.
Observe(t) ==
    /\ pc[t] = "waiting"
    /\ cell[entry[t]] # "empty"
    /\ pc' = [pc EXCEPT ![t] = IF cell[entry[t]] = "room" /\ call[t] # "delete_with"
                                THEN "connected" ELSE "leaving"]
    /\ IF \/ call[t] = "delete_with"
          \/ (call[t] = "delete" /\ cell[entry[t]] = "unresumable")
       THEN /\ call' = [call EXCEPT ![t] = "delete_with"]
            /\ next' = [next EXCEPT ![t] = "replacing"]
       ELSE UNCHANGED <<call, next>>
    /\ UNCHANGED <<storeVars, slot, cellVars, timers, entry, result, history>>

\* The connection's holder lets go of it: its socket closed.
Close(t) ==
    /\ pc[t] = "connected"
    /\ call[t] = "attach"
    /\ pc' = [pc EXCEPT ![t] = "leaving"]
    /\ UNCHANGED <<storeVars, slot, cellVars, timers, entry, call, result, next, history>>

\* The slot with one connection fewer, and its timer.
Uncounted(timer) ==
    [entry |-> slot.entry, connections |-> slot.connections - 1,
     generation |-> slot.generation, timer |-> timer]

\* Registration::drop: uncount, and start the idle timer of a slot left empty.
Leave(t) ==
    /\ pc[t] = "leaving"
    /\ \/ /\ ~Mapped(entry[t])
          /\ UNCHANGED <<slot, timers>>
       \/ /\ Mapped(entry[t])
          /\ IF slot.connections > 1 \/ Failed(entry[t])
             THEN /\ slot' = Uncounted(slot.timer)
                  /\ UNCHANGED timers
             ELSE /\ slot' = Uncounted(slot.generation)
                  /\ timers' = timers \cup {[entry |-> entry[t], awake |-> FALSE,
                                             generation |-> slot.generation]}
    /\ pc' = [pc EXCEPT ![t] = IF next[t] = "replacing" THEN "replacing" ELSE "idle"]
    /\ next' = [next EXCEPT ![t] = "idle"]
    /\ result' = [result EXCEPT ![t] = "notfound"]
    /\ returned' = (returned \/ next[t] = "done")
    /\ late' = IF next[t] = "replacing" THEN late ELSE late \ {t}
    /\ UNCHANGED <<storeVars, cellVars, entry, call>>

\* What a dropped future lets go of: the cell's permit, the room's lock.
Release_LeaksPermit(t) ==
    /\ UNCHANGED runner
    /\ roomLock' = [roomLock EXCEPT ![entry[t]] = IF @ = t THEN NoTask ELSE @]
Release(t) ==
    /\ runner' = [runner EXCEPT ![entry[t]] = IF @ = t THEN NoTask ELSE @]
    /\ roomLock' = [roomLock EXCEPT ![entry[t]] = IF @ = t THEN NoTask ELSE @]

\* The future is dropped at an await: what it holds is released, then its
\* registration drops.  A commit already handed to the
\* database's worker still happens.
Cancel(t) ==
    /\ t \in Droppable
    /\ pc[t] \in Awaits
    /\ pc' = [pc EXCEPT ![t] = "leaving"]
    /\ next' = [next EXCEPT ![t] = "idle"]
    /\ Release(t)
    /\ \/ UNCHANGED erasing
       \/ /\ pc[t] \in {"deleting", "locked"}
          /\ erasing' = TRUE
    /\ UNCHANGED <<rows, resumable, slot, cell, deleted, timers, entry, call, result, history>>

OrphanCommit ==
    /\ erasing
    /\ rows' = FALSE
    /\ erasing' = FALSE
    /\ UNCHANGED <<resumable, slot, cellVars, timers, taskVars, history>>

-------------------------------------------------------------------------------
(* The idle timer *)

Wake(tm) ==
    /\ ~tm.awake
    /\ timers' = (timers \ {tm}) \cup {[tm EXCEPT !.awake = TRUE]}
    /\ UNCHANGED <<storeVars, slot, cellVars, taskVars, history>>

\* Whether a timer that woke may still evict: nothing registered since it started.
Evicts_AnyGeneration(tm) == Mapped(tm.entry) /\ ~Failed(tm.entry)
Evicts_OffByOne(tm) ==
    /\ Mapped(tm.entry)
    /\ slot.generation < tm.generation
    /\ ~Failed(tm.entry)
Evicts(tm) ==
    /\ Mapped(tm.entry)
    /\ slot.generation = tm.generation
    /\ ~Failed(tm.entry)

Evict(tm) ==
    /\ tm.awake
    /\ timers' = timers \ {tm}
    /\ slot' = IF Evicts(tm) THEN NoSlot ELSE slot
    /\ UNCHANGED <<storeVars, cellVars, taskVars, history>>

-------------------------------------------------------------------------------
(* DELETE of a game with a room: GameRoom::delete, then forget *)

\* The room's lock, then who asks: not the creator, or already deleted, refused.
LockRoom(t) ==
    /\ pc[t] = "connected"
    /\ call[t] = "delete"
    /\ roomLock[entry[t]] = NoTask
    /\ IF t \in Creators /\ entry[t] \notin deleted
       THEN /\ pc' = [pc EXCEPT ![t] = "locked"]
            /\ roomLock' = [roomLock EXCEPT ![entry[t]] = t]
       ELSE /\ pc' = [pc EXCEPT ![t] = "leaving"]
            /\ UNCHANGED roomLock
    /\ UNCHANGED <<storeVars, slot, cell, runner, deleted, timers, entry, call, result, next,
                   history>>

\* store::delete_game commits, or fails and leaves everything as it was.
CommitDelete(t) ==
    /\ pc[t] = "locked"
    /\ \/ /\ rows' = FALSE
          /\ pc' = [pc EXCEPT ![t] = "marking"]
          /\ UNCHANGED roomLock
       \/ /\ pc' = [pc EXCEPT ![t] = "leaving"]
          /\ roomLock' = [roomLock EXCEPT ![entry[t]] = NoTask]
          /\ UNCHANGED rows
    /\ UNCHANGED <<resumable, erasing, slot, cell, runner, deleted, timers, entry, call, result, next,
                   history>>

\* The commit's reply arrives without the room being marked.
MarkDeleted_Unmarked(t) ==
    /\ pc[t] = "marking"
    /\ roomLock' = [roomLock EXCEPT ![entry[t]] = NoTask]
    /\ pc' = [pc EXCEPT ![t] = "forgetting"]
    /\ UNCHANGED <<storeVars, slot, cell, runner, deleted, timers, entry, call, result, next,
                   history>>

\* The commit's reply arrives: the room's game becomes Deleted, its lock free.
MarkDeleted(t) ==
    /\ pc[t] = "marking"
    /\ deleted' = deleted \cup {entry[t]}
    /\ roomLock' = [roomLock EXCEPT ![entry[t]] = NoTask]
    /\ pc' = [pc EXCEPT ![t] = "forgetting"]
    /\ UNCHANGED <<storeVars, slot, cell, runner, timers, entry, call, result, next, history>>

\* Only the deleter's own connection is let go.
Forget_Skipped(t) ==
    /\ pc[t] = "forgetting"
    /\ pc' = [pc EXCEPT ![t] = "leaving"]
    /\ next' = [next EXCEPT ![t] = "done"]
    /\ UNCHANGED <<storeVars, slot, timers, cellVars, entry, call, result, history>>

\* forget: take the game's slot out of the map, whatever it holds.
Forget(t) ==
    /\ pc[t] = "forgetting"
    /\ slot' = NoSlot
    /\ AbortTimer
    /\ pc' = [pc EXCEPT ![t] = "leaving"]
    /\ next' = [next EXCEPT ![t] = "done"]
    /\ UNCHANGED <<storeVars, cellVars, entry, call, result, history>>

-------------------------------------------------------------------------------
(* DELETE of an unresumable game: delete_with(delete_unresumable) *)

\* register_afresh: a new entry in place of whatever the map held.
RegisterAfresh(t) ==
    /\ pc[t] = "replacing"
    /\ \E e \in Entries :
          /\ Allocate(e)
          /\ slot' = CountOn(Unloaded(e))
          /\ entry' = [entry EXCEPT ![t] = e]
    /\ AbortTimer
    /\ pc' = [pc EXCEPT ![t] = "waiting"]
    /\ UNCHANGED <<storeVars, call, result, next, history>>

\* creator_of: only the stored creator may go on; anyone else, a missing game
\* or a database error loads the game again.
CreatorOf(t) ==
    /\ pc[t] = "checking"
    /\ \/ /\ rows /\ t \in Creators
          /\ pc' = [pc EXCEPT ![t] = "deleting"]
       \/ pc' = [pc EXCEPT ![t] = "reading"]
    /\ UNCHANGED <<storeVars, slot, cellVars, timers, entry, call, result, next, history>>

\* The rows' transaction is rolled back rather than committed.
DeleteRows_RolledBack(t) ==
    /\ pc[t] = "deleting"
    /\ pc' = [pc EXCEPT ![t] = "erased"]
    /\ UNCHANGED <<storeVars, slot, cellVars, timers, entry, call, result, next, history>>

\* store::delete_game, in delete_with's initialiser.
DeleteRows(t) ==
    /\ pc[t] = "deleting"
    /\ \/ /\ rows' = FALSE
          /\ pc' = [pc EXCEPT ![t] = "erased"]
       \/ /\ UNCHANGED rows
          /\ pc' = [pc EXCEPT ![t] = "reading"]
    /\ UNCHANGED <<resumable, erasing, slot, cellVars, timers, entry, call, result, next, history>>

\* The delete went through: the entry leaves the map and holds NotFound.
Erased(t) ==
    /\ pc[t] = "erased"
    /\ Unmap(entry[t])
    /\ result' = [result EXCEPT ![t] = "notfound"]
    /\ next' = [next EXCEPT ![t] = "done"]
    /\ pc' = [pc EXCEPT ![t] = "filling"]
    /\ UNCHANGED <<storeVars, cellVars, timers, entry, call, history>>

-------------------------------------------------------------------------------
Internal(t) ==
    \/ BeginInit(t) \/ Read(t) \/ Rebuild(t) \/ Settle(t) \/ Fill(t) \/ Observe(t) \/ Leave(t)
    \/ LockRoom(t) \/ CommitDelete(t) \/ MarkDeleted(t) \/ Forget(t)
    \/ RegisterAfresh(t) \/ CreatorOf(t) \/ DeleteRows(t) \/ Erased(t)

Next ==
    \/ \E t \in Tasks :
          \/ Get(t)
          \/ Internal(t)
          \/ Close(t)
          \/ Cancel(t)
    \/ \E tm \in timers : Wake(tm) \/ Evict(tm)
    \/ OrphanCommit

Spec == Init /\ [][Next]_vars

\* The runtime polls every task that can go on and fires every timer.  The
\* cell's permit is handed to its waiters first come, first served.
Fairness ==
    /\ \A t \in Tasks : WF_vars(Internal(t)) /\ SF_vars(BeginInit(t))
    /\ \A e \in Entries, g \in 1..MaxGeneration, a \in BOOLEAN :
          LET tm == [entry |-> e, generation |-> g, awake |-> a]
          IN  WF_vars(tm \in timers /\ (Wake(tm) \/ Evict(tm)))

FairSpec == Spec /\ Fairness

-------------------------------------------------------------------------------
(* What the registry promises *)

\* The count on the game's slot is the number of registrations living on its
\* entry (count_on and Registration::drop): an undercount would evict a room in
\* use, or underflow; an overcount would keep it forever.
Counted == slot # NoSlot => slot.connections = Cardinality(On(slot.entry))

\* A room some task holds is the one in the map, unless its game was deleted:
\* two connections never reach two rooms of one game, whatever the idle timers,
\* dropped loads and deletes race (rooms.rs:167-169).
HeldRoomInMap ==
    \A t \in Tasks :
        Registered(t) /\ cell[entry[t]] = "room" /\ entry[t] \notin deleted
            => Mapped(entry[t])

\* Nothing that another load could answer differently is left in the map: a
\* missing game and a database error are never cached (rooms.rs:164-165).
NothingFleetingCached == slot # NoSlot => cell[slot.entry] \notin Fleeting

\* A slot nobody is counted on has a timer that will evict it, or is a cached
\* permanent failure: no path of leaves, failed or dropped loads leaks a room.
NoStrandedSlot ==
    slot # NoSlot /\ slot.connections = 0 =>
        \/ cell[slot.entry] = "unresumable"
        \/ \E tm \in timers : tm.entry = slot.entry /\ tm.generation = slot.generation

\* Once a delete has answered, every get begun later finds no game: neither the
\* deleted room, nor a fresh room, nor a cached failure (rooms.rs:219-225).
DeletedIsGone ==
    \A t \in late : Registered(t) => cell[entry[t]] \notin {"room", "unresumable"}

\* That holds whoever deletes a game that rebuilds, and of one that does not when
\* one task deletes it.  A second delete of such a game puts its own entry in place
\* of the one the first deletes under; refused, it loads the game there, and what it
\* read before the rows went stays cached (rooms.rs:227-228, 248-253).
LateGetFindsNoGame ==
    resumable \/ (\A d, u \in Deleters : d = u) => DeletedIsGone

\* Every get ends: with the room, or back to its caller, even when the task
\* running the load it waits on is dropped.
GetReturns ==
    \A t \in Tasks : pc[t] = "waiting" ~> pc[t] \in {"connected", "idle"}

\* A slot nobody registers on again is evicted.
IdleSlotEvicted ==
    (slot # NoSlot /\ slot.connections = 0 /\ cell[slot.entry] # "unresumable")
        ~> (slot = NoSlot \/ slot.connections > 0 \/ cell[slot.entry] = "unresumable")
===============================================================================
