-------------------------- MODULE RoomRegistry_proofs --------------------------
(***************************************************************************)
(* The registry's invariants, for any number of tasks and entries.         *)
(*                                                                         *)
(* The argument: a slot's count is the number of registrations on its      *)
(* entry (Counted), so a timer that finds the generation it started at     *)
(* finds a count of zero (TimersBehind) and evicts an entry nobody holds.  *)
(***************************************************************************)
EXTENDS RoomRegistry, FiniteSetTheorems, TLAPS

\* An idle timer captured a generation of its slot; as long as that is the
\* slot's own, nobody is counted on it.
TimersBehind ==
    \A tm \in timers : Mapped(tm.entry) =>
        /\ tm.generation <= slot.generation
        /\ tm.generation = slot.generation => slot.connections = 0

\* The steps that leave the slot, the timers and the registrations alone.
Quiet ==
    /\ slot' = slot
    /\ timers' = timers
    /\ entry' = entry
    /\ \A t \in Tasks : Registered(t)' = Registered(t)

LEMMA QuietActions ==
    ASSUME TypeOK, NEW t \in Tasks,
           \/ BeginInit(t) \/ Read(t) \/ Rebuild(t) \/ Fill(t) \/ Observe(t) \/ Close(t)
           \/ Cancel(t) \/ LockRoom(t) \/ CommitDelete(t) \/ MarkDeleted(t) \/ CreatorOf(t)
           \/ DeleteRows(t)
    PROVE  Quiet
<1> USE DEF TypeOK, Quiet, Registered, cellVars, history, storeVars, taskVars
<1>1. CASE BeginInit(t)    BY <1>1 DEF BeginInit
<1>2. CASE Read(t)         BY <1>2 DEF Read
<1>3. CASE Rebuild(t)      BY <1>3 DEF Rebuild
<1>4. CASE Fill(t)         BY <1>4 DEF Fill
<1>5. CASE Observe(t)      BY <1>5 DEF Observe
<1>6. CASE Close(t)        BY <1>6 DEF Close
<1>7. CASE Cancel(t)       BY <1>7 DEF Cancel, Awaits, Loading, Erasing
<1>8. CASE LockRoom(t)     BY <1>8 DEF LockRoom
<1>9. CASE CommitDelete(t) BY <1>9 DEF CommitDelete
<1>10. CASE MarkDeleted(t) BY <1>10 DEF MarkDeleted
<1>11. CASE CreatorOf(t)   BY <1>11 DEF CreatorOf
<1>12. CASE DeleteRows(t)  BY <1>12 DEF DeleteRows
<1> QED BY <1>1, <1>2, <1>3, <1>4, <1>5, <1>6, <1>7, <1>8, <1>9, <1>10, <1>11, <1>12

\* Every step is quiet, or one of the steps that change the slot, its timers or
\* who is registered.
LEMMA StepKinds ==
    ASSUME TypeOK, [Next]_vars
    PROVE  \/ Quiet
           \/ \E t \in Tasks : \/ Get(t) \/ Leave(t) \/ Settle(t) \/ Forget(t)
                               \/ RegisterAfresh(t) \/ Erased(t)
           \/ \E tm \in timers : Wake(tm) \/ Evict(tm)
<1>1. CASE UNCHANGED vars
      BY <1>1 DEF vars, Quiet, Registered
<1>2. CASE OrphanCommit
      BY <1>2 DEF OrphanCommit, Quiet, Registered, taskVars
<1>3. CASE Next
      BY <1>2, <1>3, QuietActions DEF Next, Internal
<1> QED BY <1>1, <1>3

-------------------------------------------------------------------------------
LEMMA FiniteOn == ASSUME NEW e PROVE IsFiniteSet(On(e)) /\ Cardinality(On(e)) \in Nat
BY RegistryAssumption, FS_Subset, FS_CardinalityType DEF On

LEMMA TypeInit == Init => TypeOK
<1> SUFFICES ASSUME Init PROVE TypeOK
    OBVIOUS
<1>1. PICK e \in Entries : entry = [t \in Tasks |-> e]
      BY DEF Init
<1>2. entry \in [Tasks -> Entries]
      BY <1>1
<1>3. /\ pc \in [Tasks -> PCs]
      /\ call \in [Tasks -> Calls]
      /\ result \in [Tasks -> Results]
      /\ next \in [Tasks -> {"idle", "replacing", "done"}]
      BY DEF Init, PCs, Calls, Results, Fleeting
<1>4. /\ cell \in [Entries -> Results \cup {"empty"}]
      /\ runner \in [Entries -> Tasks \cup {NoTask}]
      /\ roomLock \in [Entries -> Tasks \cup {NoTask}]
      BY DEF Init
<1>5. /\ rows \in BOOLEAN /\ resumable \in BOOLEAN /\ erasing \in BOOLEAN /\ returned \in BOOLEAN
      /\ slot \in Slot \cup {NoSlot}
      /\ deleted \subseteq Entries /\ timers \subseteq Timer /\ late \subseteq Tasks
      BY RegistryAssumption DEF Init
<1> QED BY <1>2, <1>3, <1>4, <1>5 DEF TypeOK

LEMMA UnloadedSlot == ASSUME NEW e \in Entries PROVE CountOn(Unloaded(e)) \in Slot
BY DEF CountOn, Unloaded, Slot

LEMMA CountedSlot == ASSUME TypeOK, slot # NoSlot PROVE CountOn(slot) \in Slot
BY DEF TypeOK, CountOn, Slot

LEMMA UncountedSlot ==
    ASSUME TypeOK, Counted, NEW t \in Tasks, Registered(t), Mapped(entry[t]), NEW g \in Nat
    PROVE  Uncounted(g) \in Slot
<1>1. t \in On(slot.entry)
      BY DEF On, Mapped
<1>2. slot.connections # 0
      BY <1>1, FiniteOn, RegistryAssumption, FS_EmptySet, FS_Subset DEF Counted, Mapped, On
<1> QED BY <1>2 DEF TypeOK, Mapped, Slot, Uncounted

\* A drop leaves the slot in the map, with its entry and one connection fewer.
LEMMA LeaveSlot ==
    ASSUME TypeOK, Counted, NEW t \in Tasks, Leave(t)
    PROVE  /\ slot' \in Slot \cup {NoSlot}
           /\ slot' # NoSlot <=> slot # NoSlot
           /\ slot # NoSlot => slot'.entry = slot.entry
<1>1. CASE ~Mapped(entry[t])
      BY <1>1 DEF Leave, TypeOK
<1>2. CASE Mapped(entry[t])
  <2>1. slot # NoSlot /\ slot.timer \in Nat /\ slot.generation \in Nat
        BY <1>2 DEF Mapped, TypeOK, Slot
  <2>2. PICK g \in Nat : slot' = Uncounted(g)
        BY <1>2, <2>1 DEF Leave
  <2>3. slot' \in Slot
        BY <1>2, <2>2, UncountedSlot DEF Leave, Registered
  <2>4. slot' # NoSlot
        BY <2>3, RegistryAssumption DEF Slot
  <2>5. slot'.entry = slot.entry
        BY <2>2 DEF Uncounted
  <2> QED BY <2>1, <2>3, <2>4, <2>5
<1> QED BY <1>1, <1>2

LEMMA FirstCount ==
    ASSUME NEW e \in Entries
    PROVE  CountOn(Unloaded(e)) = [entry |-> e, connections |-> 1, generation |-> 1, timer |-> 0]
BY DEF CountOn, Unloaded

LEMMA AllocateType ==
    ASSUME TypeOK, NEW e \in Entries, Allocate(e)
    PROVE  /\ cell' \in [Entries -> Results \cup {"empty"}]
           /\ runner' \in [Entries -> Tasks \cup {NoTask}]
           /\ deleted' \subseteq Entries
           /\ roomLock' \in [Entries -> Tasks \cup {NoTask}]
BY DEF TypeOK, Allocate

LEMMA TypeNext == TypeOK /\ Counted /\ [Next]_vars => TypeOK'
<1> SUFFICES ASSUME TypeOK, Counted, [Next]_vars PROVE TypeOK'
    OBVIOUS
<1> USE DEF PCs, Awaits, Loading, Erasing, Calls, Results, Fleeting,
            cellVars, taskVars, storeVars, history
<1>1. ASSUME NEW t \in Tasks, Get(t) PROVE TypeOK'
  <2>1. timers' \subseteq timers
        BY <1>1 DEF Get, AbortTimer
  <2>2. slot' \in Slot
        BY <1>1, CountedSlot, UnloadedSlot DEF Get
  <2>3. entry' \in [Tasks -> Entries]
        BY <1>1 DEF Get, TypeOK, Slot
  <2>4. /\ cell' \in [Entries -> Results \cup {"empty"}]
        /\ runner' \in [Entries -> Tasks \cup {NoTask}]
        /\ deleted' \subseteq Entries
        /\ roomLock' \in [Entries -> Tasks \cup {NoTask}]
        BY <1>1, AllocateType DEF Get, TypeOK
  <2> QED BY <1>1, <2>1, <2>2, <2>3, <2>4 DEF Get, TypeOK
<1>2. ASSUME NEW t \in Tasks, Internal(t), ~Leave(t), ~RegisterAfresh(t) PROVE TypeOK'
  <2>1. CASE BeginInit(t)    BY <2>1 DEF BeginInit, TypeOK
  <2>2. CASE Read(t)         BY <2>2 DEF Read, TypeOK
  <2>3. CASE Rebuild(t)      BY <2>3 DEF Rebuild, TypeOK
  <2>4. CASE Settle(t)       BY <2>4 DEF Settle, Unmap, TypeOK
  <2>5. CASE Fill(t)         BY <2>5 DEF Fill, TypeOK
  <2>6. CASE Observe(t)      BY <2>6 DEF Observe, TypeOK
  <2>7. CASE LockRoom(t)     BY <2>7 DEF LockRoom, TypeOK
  <2>8. CASE CommitDelete(t) BY <2>8 DEF CommitDelete, TypeOK
  <2>9. CASE MarkDeleted(t)  BY <2>9 DEF MarkDeleted, TypeOK
  <2>10. CASE Forget(t)      BY <2>10 DEF Forget, AbortTimer, TypeOK
  <2>11. CASE CreatorOf(t)   BY <2>11 DEF CreatorOf, TypeOK
  <2>12. CASE DeleteRows(t)  BY <2>12 DEF DeleteRows, TypeOK
  <2>13. CASE Erased(t)      BY <2>13 DEF Erased, Unmap, TypeOK
  <2> QED BY <1>2, <2>1, <2>2, <2>3, <2>4, <2>5, <2>6, <2>7, <2>8, <2>9, <2>10, <2>11,
             <2>12, <2>13 DEF Internal
<1>3. ASSUME NEW t \in Tasks, Leave(t) PROVE TypeOK'
  <2>1. slot' \in Slot \cup {NoSlot}
        BY <1>3, LeaveSlot
  <2>2. timers' \subseteq Timer
    <3>1. Mapped(entry[t]) => [entry |-> entry[t], awake |-> FALSE,
                               generation |-> slot.generation] \in Timer
          BY DEF TypeOK, Mapped, Slot, Timer
    <3> QED BY <1>3, <3>1 DEF Leave, TypeOK
  <2> QED BY <1>3, <2>1, <2>2 DEF Leave, TypeOK
<1>4. ASSUME NEW t \in Tasks, RegisterAfresh(t) PROVE TypeOK'
  <2>1. PICK e \in Entries : /\ Allocate(e)
                             /\ slot' = CountOn(Unloaded(e))
                             /\ entry' = [entry EXCEPT ![t] = e]
        BY <1>4 DEF RegisterAfresh
  <2>2. timers' \subseteq timers
        BY <1>4 DEF RegisterAfresh, AbortTimer
  <2> QED BY <1>4, <2>1, <2>2, UnloadedSlot, AllocateType DEF RegisterAfresh, TypeOK
<1>5. ASSUME NEW t \in Tasks, Close(t) PROVE TypeOK'
      BY <1>5 DEF Close, TypeOK
<1>6. ASSUME NEW t \in Tasks, Cancel(t) PROVE TypeOK'
      BY <1>6 DEF Cancel, Release, TypeOK
<1>7. ASSUME NEW tm \in timers, Wake(tm) PROVE TypeOK'
  <2>1. [tm EXCEPT !.awake = TRUE] \in Timer
        BY DEF TypeOK, Timer
  <2> QED BY <1>7, <2>1 DEF Wake, TypeOK
<1>8. ASSUME NEW tm \in timers, Evict(tm) PROVE TypeOK'
      BY <1>8 DEF Evict, TypeOK
<1>9. CASE OrphanCommit
      BY <1>9 DEF OrphanCommit, TypeOK
<1>10. CASE UNCHANGED vars
      BY <1>10 DEF vars, TypeOK
<1> QED BY <1>1, <1>2, <1>3, <1>4, <1>5, <1>6, <1>7, <1>8, <1>9, <1>10 DEF Next

-------------------------------------------------------------------------------
\* On(e) as an operator of the values it depends on, which distributes over prime.
Holders(p, en, e) == {t \in Tasks : p[t] \notin {"idle", "replacing"} /\ en[t] = e}

LEMMA HoldersOn == \A e : On(e) = Holders(pc, entry, e)
BY DEF On, Holders, Registered

LEMMA FiniteHolders == \A p, en, e : IsFiniteSet(Holders(p, en, e))
BY RegistryAssumption, FS_Subset DEF Holders

LEMMA CountedNext == TypeOK /\ TypeOK' /\ Counted /\ [Next]_vars => Counted'
<1> SUFFICES ASSUME TypeOK, TypeOK', Counted, [Next]_vars, slot' # NoSlot
             PROVE  slot'.connections = Cardinality(Holders(pc', entry', slot'.entry))
    BY DEF Counted, On, Holders, Registered
<1> USE DEF Registered
<1>1. CASE Quiet
      BY <1>1, HoldersOn DEF Quiet, Counted, Holders
<1>2. ASSUME NEW t \in Tasks, Get(t), slot # NoSlot
      PROVE  slot'.connections = Cardinality(Holders(pc', entry', slot'.entry))
  <2>1. slot'.entry = slot.entry /\ slot'.connections = slot.connections + 1
        BY <1>2 DEF Get, CountOn
  <2>2. t \notin Holders(pc, entry, slot.entry)
        BY <1>2 DEF Get, Holders, Registered
  <2>3. Holders(pc', entry', slot.entry) = Holders(pc, entry, slot.entry) \cup {t}
        BY <1>2 DEF Get, Holders, Registered, TypeOK
  <2>4. slot.connections = Cardinality(Holders(pc, entry, slot.entry))
        BY <1>2, HoldersOn DEF Counted
  <2>5. Cardinality(Holders(pc, entry, slot.entry) \cup {t})
          = Cardinality(Holders(pc, entry, slot.entry)) + 1
        BY <2>2, FiniteHolders, FS_AddElement
  <2> QED BY <2>1, <2>3, <2>4, <2>5
<1>3. ASSUME NEW t \in Tasks, Get(t) \/ RegisterAfresh(t), RegisterAfresh(t) \/ slot = NoSlot
      PROVE  slot'.connections = Cardinality(Holders(pc', entry', slot'.entry))
  <2>1. PICK e \in Entries : /\ Allocate(e)
                             /\ slot' = CountOn(Unloaded(e))
                             /\ entry' = [entry EXCEPT ![t] = e]
        BY <1>3 DEF Get, RegisterAfresh
  <2>2. slot'.entry = e /\ slot'.connections = 1
        BY <2>1, FirstCount
  <2>3. Holders(pc, entry, e) = {}
        BY <2>1 DEF Allocate, Unreferenced, On, Holders
  <2>4. Holders(pc', entry', e) = {t}
        BY <1>3, <2>1, <2>3 DEF Get, RegisterAfresh, Holders, Registered, TypeOK
  <2> QED BY <2>2, <2>4, FS_Singleton
<1>4. ASSUME NEW t \in Tasks, Leave(t)
      PROVE  slot'.connections = Cardinality(Holders(pc', entry', slot'.entry))
  <2>1. \A e : Holders(pc', entry', e) = Holders(pc, entry, e) \ {t}
        BY <1>4 DEF Leave, Holders, Registered, TypeOK
  <2>2. CASE Mapped(entry[t])
    <3>1. slot'.entry = slot.entry /\ slot'.connections = slot.connections - 1
          BY <1>4, <2>2 DEF Leave, Uncounted
    <3>2. t \in Holders(pc, entry, slot.entry)
          BY <1>4, <2>2 DEF Leave, Holders, Mapped, Registered
    <3> QED BY <2>1, <2>2, <3>1, <3>2, FiniteHolders, HoldersOn, FS_RemoveElement DEF Counted, Mapped
  <2>3. CASE ~Mapped(entry[t])
    <3>1. slot' = slot
          BY <1>4, <2>3 DEF Leave
    <3>2. Holders(pc, entry, slot.entry) \ {t} = Holders(pc, entry, slot.entry)
          BY <2>3, <3>1 DEF Mapped, Holders
    <3> QED BY <2>1, <3>1, <3>2, HoldersOn DEF Counted
  <2> QED BY <2>2, <2>3
<1>5. ASSUME NEW t \in Tasks, Settle(t) \/ Erased(t)
      PROVE  slot'.connections = Cardinality(Holders(pc', entry', slot'.entry))
  <2>1. slot' = slot
        BY <1>5 DEF Settle, Erased, Unmap
  <2>2. \A e : Holders(pc', entry', e) = Holders(pc, entry, e)
        BY <1>5 DEF Settle, Erased, Holders, Registered, TypeOK
  <2> QED BY <2>1, <2>2, HoldersOn DEF Counted
<1>6. ASSUME NEW tm \in timers, Wake(tm) \/ Evict(tm)
      PROVE  slot'.connections = Cardinality(Holders(pc', entry', slot'.entry))
  <2>1. slot' = slot
        BY <1>6 DEF Wake, Evict
  <2>2. \A e : Holders(pc', entry', e) = Holders(pc, entry, e)
        BY <1>6 DEF Wake, Evict, taskVars, Holders, Registered
  <2> QED BY <2>1, <2>2, HoldersOn DEF Counted
<1>7. ASSUME NEW t \in Tasks, Forget(t) PROVE FALSE
      BY <1>7 DEF Forget
<1> QED BY <1>1, <1>2, <1>3, <1>4, <1>5, <1>6, <1>7, StepKinds

\* Type correctness and the count on the slot: neither holds without the other,
\* since a leave takes one off the count.
THEOREM CountCorrect == Spec => [](TypeOK /\ Counted)
<1>1. Init => TypeOK /\ Counted
      BY TypeInit DEF Init, Counted
<1>2. TypeOK /\ Counted /\ [Next]_vars => (TypeOK /\ Counted)'
      BY TypeNext, CountedNext
<1> QED BY <1>1, <1>2, PTL DEF Spec

-------------------------------------------------------------------------------
(* One room per game.  The invariant that is inductive, part by part. *)

\* Only the task that holds an entry's permit loads it, and its cell is empty.
Running(t) == pc[t] \in Loading \cup Erasing \cup {"settling", "filling"}
PermitHeld ==
    \A t \in Tasks : Running(t) => runner[entry[t]] = t /\ cell[entry[t]] = "empty"

\* A game that rebuilds is never deleted as an unresumable one, and one that
\* does not rebuild never has a room.
Rebuilds ==
    resumable =>
        /\ \A t \in Tasks : /\ result[t] # "unresumable"
                             /\ call[t] # "delete_with"
                             /\ next[t] # "replacing"
                             /\ pc[t] \notin Erasing \cup {"replacing"}
        /\ \A e \in Entries : cell[e] # "unresumable"
NeverRoom ==
    ~resumable => /\ \A t \in Tasks : result[t] # "room"
                  /\ \A e \in Entries : cell[e] # "room"

\* Whoever is past its get has a room, and a deleted entry is a room's.
HasRoom ==
    /\ \A t \in Tasks :
          pc[t] \in {"connected", "locked", "marking", "forgetting"} => cell[entry[t]] = "room"
    /\ \A e \in deleted : cell[e] = "room"

\* A delete holds its room's lock from its check to the mark.
Locks ==
    \A t \in Tasks :
        pc[t] \in {"locked", "marking"} => roomLock[entry[t]] = t /\ entry[t] \notin deleted

\* The slot a delete forgets is that of the room it has just deleted.
Forgetting ==
    \A t \in Tasks : pc[t] = "forgetting" =>
        /\ entry[t] \in deleted
        /\ Mapped(entry[t])
        /\ \A u \in Tasks : pc[u] = "forgetting" => u = t

\* A load that is about to hand out a fleeting result has left the map.
FleetingUnmapped ==
    \A t \in Tasks : pc[t] = "filling" /\ result[t] \in Fleeting => ~Mapped(entry[t])

\* A registration on an entry outside the map waits for a fleeting result, or
\* holds one, or holds a deleted room.
Waiters ==
    resumable =>
        \A t \in Tasks :
            Registered(t) /\ entry[t] \notin deleted /\ cell[entry[t]] \in {"empty", "room"}
                => \/ Mapped(entry[t])
                   \/ \E r \in Tasks : /\ pc[r] = "filling"
                                       /\ entry[r] = entry[t]
                                       /\ result[r] \in Fleeting

IndInv ==
    /\ TypeOK
    /\ Counted
    /\ TimersBehind
    /\ PermitHeld
    /\ Rebuilds
    /\ NeverRoom
    /\ HasRoom
    /\ Locks
    /\ Forgetting
    /\ FleetingUnmapped
    /\ NothingFleetingCached
    /\ Waiters

\* The parts of the invariant that speak of entries' contents and their holders.
Contents ==
    /\ PermitHeld
    /\ Rebuilds
    /\ NeverRoom
    /\ HasRoom
    /\ Locks
    /\ Forgetting
    /\ FleetingUnmapped
    /\ NothingFleetingCached
    /\ Waiters

\* A timer evicts an entry that nobody is counted on, so that nobody holds.
LEMMA EvictedUnheld ==
    ASSUME TypeOK, Counted, TimersBehind, NEW tm \in timers, Evicts(tm)
    PROVE  On(slot.entry) = {}
<1>1. slot # NoSlot /\ slot.connections = 0
      BY DEF Evicts, TimersBehind, Mapped
<1>2. Cardinality(On(slot.entry)) = 0
      BY <1>1 DEF Counted
<1> QED BY <1>2, FiniteOn, FS_EmptySet

LEMMA InitInd == Init => IndInv
<1> SUFFICES ASSUME Init PROVE IndInv
    OBVIOUS
<1>1. TypeOK
      BY TypeInit
<1>2. \A t \in Tasks : pc[t] = "idle" /\ result[t] = "notfound" /\ call[t] = "attach"
                        /\ next[t] = "idle"
      BY DEF Init
<1>3. slot = NoSlot /\ timers = {} /\ deleted = {} /\ \A e \in Entries : cell[e] = "empty"
      BY DEF Init
<1> QED BY <1>1, <1>2, <1>3
        DEF IndInv, Counted, TimersBehind, Mapped, PermitHeld, Running, Loading, Erasing,
            Rebuilds, NeverRoom, HasRoom, Locks, Forgetting, FleetingUnmapped,
            NothingFleetingCached, Waiters, Registered

LEMMA TimersNext == ASSUME IndInv, [Next]_vars PROVE TimersBehind'
<1> USE DEF IndInv, TimersBehind, Mapped
<1>1. CASE Quiet
      BY <1>1 DEF Quiet
<1>2. ASSUME NEW t \in Tasks, Get(t), slot # NoSlot PROVE TimersBehind'
  <2>1. /\ slot'.entry = slot.entry
        /\ slot'.generation = slot.generation + 1
        /\ timers' \subseteq timers
        BY <1>2 DEF Get, CountOn, AbortTimer
  <2>2. slot.generation \in Nat /\ \A tm \in timers : tm.generation \in Nat
        BY <1>2 DEF TypeOK, Slot, Timer
  <2> QED BY <1>2, <2>1, <2>2
<1>3. ASSUME NEW t \in Tasks, Get(t) \/ RegisterAfresh(t), RegisterAfresh(t) \/ slot = NoSlot
      PROVE  TimersBehind'
  <2>1. PICK e \in Entries : Allocate(e) /\ slot' = CountOn(Unloaded(e))
        BY <1>3 DEF Get, RegisterAfresh
  <2>2. slot'.entry = e /\ timers' \subseteq timers
        BY <1>3, <2>1, FirstCount DEF Get, RegisterAfresh, AbortTimer
  <2>3. \A tm \in timers : tm.entry # e
        BY <2>1 DEF Allocate, Unreferenced
  <2> QED BY <2>2, <2>3
<1>4. ASSUME NEW t \in Tasks, Leave(t) PROVE TimersBehind'
  <2>1. CASE ~Mapped(entry[t])
        BY <1>4, <2>1 DEF Leave
  <2>2. CASE Mapped(entry[t])
    <3>1. slot.connections \in Nat \ {0} /\ slot.generation \in Nat
      <4>1. Registered(t) /\ \A g \in Nat : Uncounted(g) \in Slot
            BY <1>4, <2>2, UncountedSlot DEF Leave, Registered
      <4>2. slot.connections \in Nat /\ slot.generation \in Nat
            BY <2>2 DEF TypeOK, Slot
      <4>3. slot.connections - 1 \in Nat
            BY <4>1 DEF Uncounted, Slot
      <4> QED BY <4>2, <4>3
    <3>2. /\ slot'.entry = slot.entry
          /\ slot'.generation = slot.generation
          /\ slot'.connections = slot.connections - 1
          BY <1>4, <2>2 DEF Leave, Uncounted
    <3>3. \/ timers' = timers
          \/ /\ slot.connections <= 1
             /\ timers' = timers \cup {[entry |-> entry[t], awake |-> FALSE,
                                       generation |-> slot.generation]}
          BY <1>4, <2>2, <3>1 DEF Leave
    <3> QED BY <2>2, <3>1, <3>2, <3>3
  <2> QED BY <2>1, <2>2
<1>5. ASSUME NEW t \in Tasks, Settle(t) \/ Erased(t) PROVE TimersBehind'
      BY <1>5 DEF Settle, Erased, Unmap
<1>6. ASSUME NEW t \in Tasks, Forget(t) PROVE TimersBehind'
      BY <1>6 DEF Forget
<1>7. ASSUME NEW tm \in timers, Wake(tm) \/ Evict(tm) PROVE TimersBehind'
  <2>1. [tm EXCEPT !.awake = TRUE].entry = tm.entry
        /\ [tm EXCEPT !.awake = TRUE].generation = tm.generation
        BY DEF TypeOK, Timer
  <2> QED BY <1>7, <2>1 DEF Wake, Evict
<1> QED BY <1>1, <1>2, <1>3, <1>4, <1>5, <1>6, <1>7, StepKinds

LEMMA ContentsNext == ASSUME IndInv, [Next]_vars PROVE Contents'
<1> USE RegistryAssumption
    DEF IndInv, TypeOK, Contents, PermitHeld, Running, Rebuilds, NeverRoom, HasRoom, Locks,
        Forgetting, FleetingUnmapped, NothingFleetingCached, Waiters, Registered, Mapped,
        Loading, Erasing, Awaits, Fleeting, cellVars, taskVars, history, storeVars
<1>1. ASSUME NEW t \in Tasks, BeginInit(t) PROVE Contents'
      BY <1>1 DEF BeginInit
<1>2. ASSUME NEW t \in Tasks, Read(t) PROVE Contents'
      BY <1>2 DEF Read
<1>3. ASSUME NEW t \in Tasks, Rebuild(t) PROVE Contents'
      BY <1>3 DEF Rebuild
<1>4. ASSUME NEW t \in Tasks, Settle(t) PROVE Contents'
      BY <1>4 DEF Settle, Unmap, Kept
<1>5. ASSUME NEW t \in Tasks, Fill(t) PROVE Contents'
      BY <1>5 DEF Fill
<1>6. ASSUME NEW t \in Tasks, Observe(t) PROVE Contents'
      BY <1>6 DEF Observe
<1>7. ASSUME NEW t \in Tasks, Close(t) PROVE Contents'
      BY <1>7 DEF Close
<1>8. ASSUME NEW t \in Tasks, Leave(t) PROVE Contents'
  <2>1. /\ slot' # NoSlot <=> slot # NoSlot
        /\ slot # NoSlot => slot'.entry = slot.entry
        BY <1>8, LeaveSlot
  <2> HIDE DEF TypeOK
  <2> QED BY <1>8, <2>1 DEF Leave, TypeOK
<1>9. ASSUME NEW t \in Tasks, Cancel(t) PROVE Contents'
      BY <1>9 DEF Cancel, Release
<1>10. ASSUME NEW t \in Tasks, LockRoom(t) PROVE Contents'
      BY <1>10 DEF LockRoom
<1>11. ASSUME NEW t \in Tasks, CommitDelete(t) PROVE Contents'
      BY <1>11 DEF CommitDelete
<1>12. ASSUME NEW t \in Tasks, MarkDeleted(t) PROVE Contents'
      BY <1>12 DEF MarkDeleted
<1>13. ASSUME NEW t \in Tasks, Forget(t) PROVE Contents'
      BY <1>13 DEF Forget
<1>14. ASSUME NEW t \in Tasks, CreatorOf(t) PROVE Contents'
      BY <1>14 DEF CreatorOf
<1>15. ASSUME NEW t \in Tasks, DeleteRows(t) PROVE Contents'
      BY <1>15 DEF DeleteRows
<1>16. ASSUME NEW t \in Tasks, Erased(t) PROVE Contents'
      BY <1>16 DEF Erased, Unmap
<1>17. ASSUME NEW t \in Tasks, Get(t) PROVE Contents'
  <2>1. CASE slot # NoSlot
    <3>1. slot' # NoSlot /\ slot'.entry = slot.entry
          BY <1>17, <2>1, CountedSlot, RegistryAssumption DEF Get, CountOn, Slot
    <3>2. /\ entry' = [entry EXCEPT ![t] = slot.entry]
          /\ slot.entry \in Entries
          /\ UNCHANGED cellVars
          BY <1>17, <2>1 DEF Get, Slot
    <3> QED BY <1>17, <2>1, <3>1, <3>2 DEF Get
  <2>2. CASE slot = NoSlot
    <3>1. PICK e \in Entries : /\ Allocate(e)
                               /\ slot' = CountOn(Unloaded(e))
                               /\ entry' = [entry EXCEPT ![t] = e]
          BY <1>17, <2>2 DEF Get
    <3>2. slot' # NoSlot /\ slot'.entry = e
          BY <3>1, UnloadedSlot, FirstCount, RegistryAssumption DEF Slot
    <3>3. \A u \in Tasks : Registered(u) => entry[u] # e
          BY <3>1 DEF Allocate, Unreferenced, On
    <3>4. /\ cell' = [cell EXCEPT ![e] = "empty"]
          /\ runner' = [runner EXCEPT ![e] = NoTask]
          /\ deleted' = deleted \ {e}
          /\ roomLock' = [roomLock EXCEPT ![e] = NoTask]
          BY <3>1 DEF Allocate
    <3> QED BY <1>17, <2>2, <3>1, <3>2, <3>3, <3>4 DEF Get
  <2> QED BY <2>1, <2>2
<1>18. ASSUME NEW t \in Tasks, RegisterAfresh(t) PROVE Contents'
      BY <1>18 DEF RegisterAfresh, Allocate, CountOn, Unloaded, Unreferenced, On
<1>19. ASSUME NEW tm \in timers, Wake(tm) \/ Evict(tm) PROVE Contents'
  <2>1. CASE Wake(tm) \/ ~Evicts(tm)
        BY <1>19, <2>1 DEF Wake, Evict
  <2>2. CASE Evicts(tm)
    <3>1. \A u \in Tasks : Registered(u) => entry[u] # slot.entry
          BY <2>2, EvictedUnheld DEF On
    <3> QED BY <1>19, <2>2, <3>1 DEF Wake, Evict, Evicts
  <2> QED BY <2>1, <2>2
<1>20. CASE OrphanCommit
      BY <1>20 DEF OrphanCommit
<1>21. CASE UNCHANGED vars
      BY <1>21 DEF vars
<1> QED BY <1>1, <1>2, <1>3, <1>4, <1>5, <1>6, <1>7, <1>8, <1>9, <1>10, <1>11, <1>12, <1>13, <1>14, <1>15, <1>16, <1>17, <1>18, <1>19, <1>20, <1>21 DEF Next, Internal

LEMMA IndNext == IndInv /\ [Next]_vars => IndInv'
BY TypeNext, CountedNext, TimersNext, ContentsNext DEF IndInv, Contents

LEMMA Inductive == Spec => []IndInv
BY InitInd, IndNext, PTL DEF Spec

\* One room per game: a room some task holds is the one in the map, unless its
\* game was deleted.  A timer evicts only an entry nobody holds; a load that is
\* not kept leaves the map before anyone can hold its result; and a delete
\* forgets only the room it has marked deleted.
THEOREM OneRoom == Spec => []HeldRoomInMap
<1>1. IndInv => HeldRoomInMap
  <2> SUFFICES ASSUME IndInv, NEW t \in Tasks, Registered(t), cell[entry[t]] = "room",
                      entry[t] \notin deleted, ~Mapped(entry[t])
               PROVE  FALSE
      BY DEF HeldRoomInMap
  <2>1. resumable
        BY RegistryAssumption DEF IndInv, NeverRoom, TypeOK
  <2>2. PICK r \in Tasks : pc[r] = "filling" /\ entry[r] = entry[t]
        BY <2>1 DEF IndInv, Waiters
  <2> QED BY <2>2 DEF IndInv, PermitHeld, Running
<1> QED BY <1>1, Inductive, PTL

\* A missing game and a database error are never left in the map for a later get.
THEOREM NeverCached == Spec => []NothingFleetingCached
<1>1. IndInv => NothingFleetingCached
      BY DEF IndInv
<1> QED BY <1>1, Inductive, PTL

\* The registry's state is always of its type: no count underflows.
THEOREM Typed == Spec => []TypeOK
<1>1. IndInv => TypeOK
      BY DEF IndInv
<1> QED BY <1>1, Inductive, PTL

-------------------------------------------------------------------------------
(* No slot is leaked: one nobody is counted on has the timer that will evict it, *)
(* or holds a failure that every load would give again.                          *)

\* Timers come only with a drop to zero, and go only with a new count, or by
\* running: one that runs at the slot's own generation evicts it.
LEMMA StrandedNext == ASSUME IndInv, NoStrandedSlot, [Next]_vars PROVE NoStrandedSlot'
<1> USE DEF NoStrandedSlot
<1> SUFFICES ASSUME slot' # NoSlot, slot'.connections = 0
             PROVE  \/ cell'[slot'.entry] = "unresumable"
                    \/ \E tm \in timers' : /\ tm.entry = slot'.entry
                                           /\ tm.generation = slot'.generation
    OBVIOUS
<1> DEFINE Safe == \/ cell'[slot'.entry] = "unresumable"
                   \/ \E tm \in timers' : /\ tm.entry = slot'.entry
                                          /\ tm.generation = slot'.generation
<1> USE DEF cellVars, taskVars, storeVars, history
<1> HIDE DEF Safe
<1>1. ASSUME slot' = slot, timers' = timers, cell' = cell PROVE Safe
      BY <1>1 DEF Safe
<1>2. ASSUME NEW t \in Tasks, Get(t) PROVE Safe
  <2>1. slot'.connections # 0
    <3>1. CASE slot = NoSlot
          BY <1>2, <3>1, FirstCount DEF Get
    <3>2. CASE slot # NoSlot
      <4>1. slot.connections \in Nat
            BY <3>2 DEF IndInv, TypeOK, Slot
      <4>2. slot'.connections = slot.connections + 1
            BY <1>2, <3>2 DEF Get, CountOn
      <4> QED BY <4>1, <4>2
    <3> QED BY <3>1, <3>2
  <2> QED BY <2>1
<1>3. ASSUME NEW t \in Tasks, RegisterAfresh(t) PROVE Safe
      BY <1>3, FirstCount DEF RegisterAfresh
<1>4. ASSUME NEW t \in Tasks, Leave(t) PROVE Safe
  <2>1. cell' = cell
        BY <1>4 DEF Leave
  <2>2. CASE ~Mapped(entry[t])
        BY <1>1, <1>4, <2>1, <2>2 DEF Leave
  <2>3. CASE Mapped(entry[t])
    <3>1. slot'.entry = slot.entry /\ slot'.generation = slot.generation
          BY <1>4, <2>3 DEF Leave, Uncounted
    <3>2. slot # NoSlot /\ slot.entry = entry[t] /\ cell[slot.entry] \in Results \cup {"empty"}
          BY <2>3 DEF Mapped, IndInv, TypeOK, Slot
    <3>3. CASE Failed(entry[t])
      <4>1. cell[slot.entry] \notin Fleeting
            BY <3>2 DEF IndInv, NothingFleetingCached
      <4> QED BY <2>1, <3>1, <3>2, <3>3, <4>1 DEF Failed, Results, Fleeting, Safe
    <3>4. CASE slot.connections > 1
      <4>1. slot.connections \in Nat /\ slot'.connections = slot.connections - 1
            BY <1>4, <2>3, <3>2 DEF Leave, Uncounted, IndInv, TypeOK, Slot
      <4> QED BY <3>4, <4>1
    <3>5. CASE ~(slot.connections > 1 \/ Failed(entry[t]))
      <4> DEFINE tm == [entry |-> entry[t], awake |-> FALSE, generation |-> slot.generation]
      <4>1. tm \in timers'
            BY <1>4, <2>3, <3>5 DEF Leave
      <4>2. tm.entry = slot'.entry /\ tm.generation = slot'.generation
            BY <3>1, <3>2
      <4> QED BY <4>1, <4>2 DEF Safe
    <3> QED BY <3>3, <3>4, <3>5
  <2> QED BY <2>2, <2>3
<1>5. ASSUME NEW t \in Tasks, Settle(t) \/ Erased(t) PROVE Safe
      BY <1>1, <1>5 DEF Settle, Erased, Unmap
<1>6. ASSUME NEW t \in Tasks, Forget(t) PROVE Safe
      BY <1>6 DEF Forget
<1>7. ASSUME NEW t \in Tasks, Fill(t) PROVE Safe
  <2>1. slot' = slot /\ timers' = timers /\ cell' = [cell EXCEPT ![entry[t]] = result[t]]
        BY <1>7 DEF Fill
  <2>2. cell[entry[t]] = "empty"
        BY <1>7 DEF Fill, IndInv, PermitHeld, Running
  <2>3. cell[slot.entry] = "unresumable" => cell'[slot.entry] = "unresumable"
        BY <2>1, <2>2 DEF IndInv, TypeOK
  <2> QED BY <2>1, <2>3 DEF Safe
<1>8. ASSUME NEW wk \in timers, Wake(wk) PROVE Safe
  <2>1. slot' = slot /\ cell' = cell /\ wk \in Timer
        BY <1>8 DEF Wake, IndInv, TypeOK
  <2> DEFINE up == [wk EXCEPT !.awake = TRUE]
  <2>2. up.entry = wk.entry /\ up.generation = wk.generation
        BY <2>1 DEF Timer
  <2>3. timers' = (timers \ {wk}) \cup {up}
        BY <1>8 DEF Wake
  <2>4. ASSUME NEW tm \in timers PROVE \E x \in timers' : x.entry = tm.entry /\ x.generation = tm.generation
    <3>1. CASE tm = wk  BY <2>2, <2>3, <3>1
    <3>2. CASE tm # wk  BY <2>3, <3>2
    <3> QED BY <3>1, <3>2
  <2> QED BY <2>1, <2>4 DEF Safe
<1>9. ASSUME NEW ev \in timers, Evict(ev) PROVE Safe
  <2>1. /\ slot' = slot /\ slot # NoSlot
        /\ cell' = cell
        /\ ~Evicts(ev)
        /\ timers' = timers \ {ev}
        BY <1>9 DEF Evict
  <2>2. CASE ev.entry = slot.entry /\ ev.generation = slot.generation
    <3>1. cell[slot.entry] \in Results \cup {"empty"} /\ cell[slot.entry] \notin Fleeting
          BY <2>1 DEF IndInv, TypeOK, Slot, NothingFleetingCached
    <3>2. Failed(slot.entry)
          BY <2>1, <2>2 DEF Evicts, Mapped
    <3> QED BY <2>1, <3>1, <3>2 DEF Failed, Results, Fleeting, Safe
  <2>3. CASE ~(ev.entry = slot.entry /\ ev.generation = slot.generation)
        BY <2>1, <2>3 DEF Safe
  <2> QED BY <2>2, <2>3
<1>10. ASSUME NEW t \in Tasks,
              \/ BeginInit(t) \/ Read(t) \/ Rebuild(t) \/ Observe(t) \/ Close(t) \/ Cancel(t)
              \/ LockRoom(t) \/ CommitDelete(t) \/ MarkDeleted(t) \/ CreatorOf(t) \/ DeleteRows(t)
       PROVE  Safe
       BY <1>1, <1>10 DEF BeginInit, Read, Rebuild, Observe, Close, Cancel, LockRoom,
                          CommitDelete, MarkDeleted, CreatorOf, DeleteRows
<1>11. ASSUME OrphanCommit \/ UNCHANGED vars PROVE Safe
       BY <1>1, <1>11 DEF OrphanCommit, vars
<1>12. ASSUME NEW t \in Tasks, Internal(t) PROVE Safe
       BY <1>3, <1>4, <1>5, <1>6, <1>7, <1>10, <1>12 DEF Internal
<1>13. ASSUME Next PROVE Safe
  <2>1. ASSUME NEW t \in Tasks, Get(t) \/ Internal(t) \/ Close(t) \/ Cancel(t) PROVE Safe
        BY <1>2, <1>10, <1>12, <2>1
  <2>2. ASSUME NEW tm \in timers, Wake(tm) \/ Evict(tm) PROVE Safe
        BY <1>8, <1>9, <2>2
  <2> QED BY <1>11, <1>13, <2>1, <2>2 DEF Next
<1> QED BY <1>11, <1>13 DEF Safe

\* A slot nobody is counted on has a timer that will evict it, or is a cached
\* permanent failure: no path of leaves, failed or dropped loads leaks a room
\* (Registration::drop and evict_if_idle).
THEOREM NoneStranded == Spec => []NoStrandedSlot
<1>1. Init => NoStrandedSlot
      BY DEF Init, NoStrandedSlot
<1>2. IndInv /\ NoStrandedSlot /\ [Next]_vars => NoStrandedSlot'
      BY StrandedNext
<1> QED BY <1>1, <1>2, Inductive, PTL DEF Spec

-------------------------------------------------------------------------------
(* A deleted game stays gone.                                              *)
(*                                                                         *)
(* Once a delete has gone through, the rows are gone and the map holds no  *)
(* entry a load had begun on before: what any later load reads is nothing. *)

SoleDeleter == \A d, u \in Deleters : d = u

\* A delete has gone through: answered, or about to.
Gone == returned \/ \E t \in Tasks : next[t] = "done"

\* An entry whose cell holds no game, nor will: no load of it has read rows.
Clean(e) ==
    /\ cell[e] \notin {"room", "unresumable"}
    /\ \A r \in Tasks : entry[r] = e /\ Running(r) =>
          /\ pc[r] # "rebuilding"
          /\ pc[r] \in {"settling", "filling"} => result[r] \in Fleeting

\* No task is past its commit with the rows still stored.
RowsGone ==
    Gone \/ (\E t \in Tasks : pc[t] \in {"marking", "forgetting", "erased"}) => ~rows

\* Only a DELETE deletes, and only by way of Observe through delete_with.
DeleteWith ==
    \A t \in Tasks :
        /\ call[t] # "attach" => t \in Deleters
        /\ pc[t] \in Erasing \cup {"replacing"} \/ next[t] = "replacing"
              => call[t] = "delete_with"
        /\ pc[t] = "idle" => next[t] = "idle"

\* The entry delete_with registered is the game's own until its cell is filled,
\* as long as no other delete replaces it.
OwnEntry ==
    \A t \in Tasks :
        Registered(t) /\ call[t] = "delete_with" /\ cell[entry[t]] = "empty"
            => \/ Mapped(entry[t])
               \/ \E r \in Tasks : /\ pc[r] = "filling"
                                   /\ entry[r] = entry[t]
                                   /\ result[r] \in Fleeting

\* What a delete leaves behind: nothing in the map, nor with a later get, that
\* holds the game or will.
LeftClean ==
    Gone => /\ slot # NoSlot => Clean(slot.entry)
            /\ \A t \in late : Registered(t) => Clean(entry[t])

GoneInv ==
    /\ late # {} => returned
    /\ RowsGone
    /\ DeleteWith
    /\ SoleDeleter => OwnEntry
    /\ resumable \/ SoleDeleter => LeftClean

LEMMA GoneInit == Init => GoneInv
<1> SUFFICES ASSUME Init PROVE GoneInv
    OBVIOUS
<1>1. \A t \in Tasks : pc[t] = "idle" /\ call[t] = "attach" /\ next[t] = "idle"
      BY DEF Init
<1>2. late = {} /\ returned = FALSE
      BY DEF Init
<1> QED BY <1>1, <1>2 DEF GoneInv, RowsGone, Gone, DeleteWith, OwnEntry, LeftClean, Registered,
                          Erasing

\* The rows are gone from the commit on, and who came late came after an answer.
LEMMA RowsNext ==
    ASSUME IndInv, GoneInv, [Next]_vars
    PROVE  RowsGone' /\ DeleteWith' /\ (late' # {} => returned') /\ (~rows => ~rows')
<1> USE DEF IndInv, TypeOK, GoneInv, RowsGone, Gone, DeleteWith, Erasing, Awaits, Loading,
            cellVars, taskVars, storeVars, history
<1> DEFINE P == RowsGone' /\ DeleteWith' /\ (late' # {} => returned') /\ (~rows => ~rows')
<1>1. ASSUME NEW t \in Tasks, Get(t) PROVE P
  <2>1. /\ pc[t] = "idle"
        /\ pc' = [pc EXCEPT ![t] = "waiting"]
        /\ call' = [call EXCEPT ![t] = IF t \in Deleters THEN "delete" ELSE "attach"]
        /\ late' = IF returned THEN late \cup {t} ELSE late
        /\ UNCHANGED <<rows, next, returned>>
        BY <1>1 DEF Get
  <2>2. RowsGone'
        BY <2>1
  <2>3. DeleteWith'
        BY <2>1
  <2> QED BY <2>1, <2>2, <2>3
<1>2. ASSUME NEW t \in Tasks, BeginInit(t) \/ Read(t) \/ Rebuild(t) \/ Settle(t) \/ Fill(t)
      PROVE  P
      BY <1>2 DEF BeginInit, Read, Rebuild, Settle, Fill
<1>3. ASSUME NEW t \in Tasks, Observe(t) PROVE P
      BY <1>3 DEF Observe
<1>4. ASSUME NEW t \in Tasks, Leave(t) PROVE P
      BY <1>4 DEF Leave
<1>5. ASSUME NEW t \in Tasks, Close(t) \/ Cancel(t) PROVE P
      BY <1>5 DEF Close, Cancel
<1>6. ASSUME NEW t \in Tasks, LockRoom(t) \/ CommitDelete(t) \/ MarkDeleted(t) \/ Forget(t)
      PROVE  P
      BY <1>6 DEF LockRoom, CommitDelete, MarkDeleted, Forget
<1>7. ASSUME NEW t \in Tasks, CreatorOf(t) \/ DeleteRows(t) \/ Erased(t) PROVE P
      BY <1>7 DEF CreatorOf, DeleteRows, Erased
<1>8. ASSUME NEW t \in Tasks, RegisterAfresh(t) PROVE P
      BY <1>8 DEF RegisterAfresh
<1>9. ASSUME NEW tm \in timers, Wake(tm) \/ Evict(tm) PROVE P
      BY <1>9 DEF Wake, Evict
<1>10. CASE OrphanCommit \/ UNCHANGED vars
      BY <1>10 DEF OrphanCommit, vars
<1> QED BY <1>1, <1>2, <1>3, <1>4, <1>5, <1>6, <1>7, <1>8, <1>9, <1>10 DEF Next, Internal

\* One delete at a time: nothing takes its entry out of the map but the end of a
\* load of that entry.
LEMMA OwnNext == ASSUME IndInv, GoneInv, SoleDeleter, [Next]_vars PROVE OwnEntry'
<1> USE DEF cellVars, taskVars, storeVars, history, Registered, Mapped, OwnEntry
<1>0. OwnEntry /\ DeleteWith /\ TypeOK /\ PermitHeld
      BY DEF GoneInv, IndInv
<1>1. ASSUME NEW t \in Tasks, Get(t), slot # NoSlot PROVE OwnEntry'
  <2>1. slot' # NoSlot /\ slot'.entry = slot.entry /\ UNCHANGED <<cell, result>>
        BY <1>1, CountedSlot, <1>0, RegistryAssumption DEF Get, CountOn, Slot
  <2>2. /\ pc[t] = "idle"
        /\ pc' = [pc EXCEPT ![t] = "waiting"]
        /\ entry' = [entry EXCEPT ![t] = slot.entry]
        /\ call' = [call EXCEPT ![t] = IF t \in Deleters THEN "delete" ELSE "attach"]
        BY <1>1 DEF Get
  <2> QED BY <1>0, <2>1, <2>2 DEF TypeOK
<1>2. ASSUME NEW t \in Tasks, Get(t), slot = NoSlot PROVE OwnEntry'
  <2>1. PICK e \in Entries : /\ Allocate(e)
                             /\ slot' = CountOn(Unloaded(e))
                             /\ entry' = [entry EXCEPT ![t] = e]
        BY <1>2 DEF Get
  <2>2. /\ cell' = [cell EXCEPT ![e] = "empty"] /\ UNCHANGED result
        /\ \A u \in Tasks : Registered(u) => entry[u] # e
        BY <1>2, <2>1 DEF Get, Allocate, Unreferenced, On
  <2>3. /\ pc[t] = "idle"
        /\ pc' = [pc EXCEPT ![t] = "waiting"]
        /\ call' = [call EXCEPT ![t] = IF t \in Deleters THEN "delete" ELSE "attach"]
        BY <1>2 DEF Get
  <2> QED BY <1>0, <1>2, <2>1, <2>2, <2>3 DEF TypeOK
<1>3. ASSUME NEW t \in Tasks, RegisterAfresh(t) PROVE OwnEntry'
  <2>1. PICK e \in Entries : /\ Allocate(e)
                             /\ slot' = CountOn(Unloaded(e))
                             /\ entry' = [entry EXCEPT ![t] = e]
        BY <1>3 DEF RegisterAfresh
  <2>2. slot' # NoSlot /\ slot'.entry = e
        BY <2>1, UnloadedSlot, FirstCount, RegistryAssumption DEF Slot
  <2>3. t \in Deleters /\ call' = call
        BY <1>0, <1>3 DEF RegisterAfresh, DeleteWith
  <2>4. \A u \in Tasks : call'[u] = "delete_with" => u = t
        BY <1>0, <2>3 DEF DeleteWith, SoleDeleter
  <2> QED BY <1>0, <2>1, <2>2, <2>4 DEF TypeOK
<1>4. ASSUME NEW t \in Tasks, Leave(t) PROVE OwnEntry'
  <2>1. /\ slot' # NoSlot <=> slot # NoSlot
        /\ slot # NoSlot => slot'.entry = slot.entry
        BY <1>0, <1>4, LeaveSlot DEF IndInv
  <2>2. /\ pc[t] = "leaving"
        /\ pc'[t] \in {"replacing", "idle"}
        /\ \A u \in Tasks \ {t} : pc'[u] = pc[u] /\ result'[u] = result[u]
        /\ UNCHANGED <<call, cell, entry>>
        BY <1>0, <1>4 DEF Leave, TypeOK
  <2> QED BY <1>0, <2>1, <2>2
<1>5. ASSUME NEW t \in Tasks, Settle(t) PROVE OwnEntry'
  <2>1. /\ pc[t] = "settling"
        /\ pc' = [pc EXCEPT ![t] = "filling"]
        /\ UNCHANGED <<call, cell, entry, result>>
        BY <1>5 DEF Settle
  <2>2. slot' = slot \/ (result[t] \in Fleeting /\ slot' = NoSlot /\ Mapped(entry[t]))
        BY <1>5 DEF Settle, Unmap, Kept
  <2>3. pc'[t] = "filling" /\ \A u \in Tasks : u # t => pc'[u] = pc[u]
        BY <1>0, <2>1 DEF TypeOK
  <2>4. \A u \in Tasks : pc[u] = "filling" => pc'[u] = "filling"
        BY <2>3
  <2>5. \A u \in Tasks : Registered(u)' => Registered(u)
        BY <2>1, <2>3
  <2> QED BY <1>0, <2>1, <2>2, <2>3, <2>4, <2>5
<1>6. ASSUME NEW t \in Tasks, Erased(t) PROVE OwnEntry'
  <2>1. /\ pc[t] = "erased"
        /\ pc' = [pc EXCEPT ![t] = "filling"]
        /\ result' = [result EXCEPT ![t] = "notfound"]
        /\ UNCHANGED <<call, cell, entry>>
        BY <1>6 DEF Erased
  <2>2. slot' = slot \/ (slot' = NoSlot /\ Mapped(entry[t]))
        BY <1>6 DEF Erased, Unmap
  <2>3. pc'[t] = "filling" /\ result'[t] \in Fleeting
        /\ \A u \in Tasks : u # t => pc'[u] = pc[u] /\ result'[u] = result[u]
        BY <1>0, <2>1 DEF TypeOK, Fleeting
  <2>4. \A u \in Tasks : pc[u] = "filling" /\ result[u] \in Fleeting
                            => pc'[u] = "filling" /\ result'[u] \in Fleeting
        BY <2>1, <2>3
  <2>5. \A u \in Tasks : Registered(u)' => Registered(u)
        BY <2>1, <2>3
  <2> QED BY <1>0, <2>1, <2>2, <2>3, <2>4, <2>5
<1>7. ASSUME NEW t \in Tasks, Fill(t) PROVE OwnEntry'
  <2>1. /\ pc[t] = "filling"
        /\ pc'[t] # "idle" /\ pc'[t] # "replacing"
        /\ \A u \in Tasks : u # t => pc'[u] = pc[u]
        /\ cell' = [cell EXCEPT ![entry[t]] = result[t]]
        /\ UNCHANGED <<call, slot, entry, result>>
        BY <1>0, <1>7 DEF Fill, TypeOK
  <2>2. result[t] # "empty" /\ entry[t] \in Entries
        BY <1>0 DEF TypeOK, Results, Fleeting
  <2>3. ASSUME NEW u \in Tasks, Registered(u)', call'[u] = "delete_with", cell'[entry'[u]] = "empty"
        PROVE  \/ Mapped(entry[u])'
               \/ \E r \in Tasks : /\ pc'[r] = "filling" /\ entry'[r] = entry'[u]
                                   /\ result'[r] \in Fleeting
    <3>1. entry[u] # entry[t] /\ cell[entry[u]] = "empty" /\ u # t
          BY <1>0, <2>1, <2>2, <2>3 DEF TypeOK
    <3>2. Registered(u) /\ call[u] = "delete_with"
          BY <2>1, <2>3, <3>1
    <3>3. \/ Mapped(entry[u])
          \/ \E r \in Tasks : /\ pc[r] = "filling" /\ entry[r] = entry[u]
                              /\ result[r] \in Fleeting
          BY <1>0, <3>1, <3>2
    <3> QED BY <2>1, <3>1, <3>3
  <2> QED BY <2>3
<1>8. ASSUME NEW t \in Tasks, Forget(t) PROVE OwnEntry'
  <2>1. cell[entry[t]] = "room"
        BY <1>8 DEF IndInv, HasRoom, Forget
  <2>2. resumable
        BY <1>0, <2>1 DEF IndInv, NeverRoom, TypeOK
  <2>3. \A u \in Tasks : call'[u] # "delete_with"
        BY <1>8, <2>2 DEF IndInv, Rebuilds, Forget
  <2> QED BY <2>3
<1>9. ASSUME NEW t \in Tasks, Observe(t) PROVE OwnEntry'
  <2>1. /\ cell[entry[t]] # "empty"
        /\ UNCHANGED <<slot, cell, entry, result>>
        /\ pc[t] = "waiting" /\ pc' = [pc EXCEPT ![t] = pc'[t]]
        /\ \A u \in Tasks : u # t => call'[u] = call[u]
        BY <1>0, <1>9 DEF Observe, TypeOK
  <2>2. \A u \in Tasks : u # t => pc'[u] = pc[u]
        BY <1>0, <2>1 DEF TypeOK
  <2> QED BY <1>0, <2>1, <2>2
<1>10. ASSUME NEW t \in Tasks,
              \/ BeginInit(t) \/ Read(t) \/ Rebuild(t) \/ Close(t) \/ Cancel(t)
              \/ LockRoom(t) \/ CommitDelete(t) \/ MarkDeleted(t) \/ CreatorOf(t) \/ DeleteRows(t)
       PROVE  OwnEntry'
  <2>1. /\ UNCHANGED <<slot, cell, entry, call>>
        /\ \A u \in Tasks : Registered(u)' => Registered(u)
        /\ \A u \in Tasks : pc[u] = "filling" => pc'[u] = "filling" /\ result'[u] = result[u]
        BY <1>0, <1>10 DEF BeginInit, Read, Rebuild, Close, Cancel, LockRoom, CommitDelete,
                           MarkDeleted, CreatorOf, DeleteRows, TypeOK, Awaits, Loading, Erasing
  <2> QED BY <1>0, <2>1
<1>11. ASSUME NEW tm \in timers, Wake(tm) \/ Evict(tm) PROVE OwnEntry'
  <2>1. UNCHANGED <<cell, entry, call, pc, result>>
        BY <1>11 DEF Wake, Evict
  <2>2. slot' = slot \/ On(slot.entry) = {}
        BY <1>0, <1>11, EvictedUnheld DEF Wake, Evict, IndInv
  <2> QED BY <1>0, <2>1, <2>2 DEF On
<1>12. ASSUME OrphanCommit \/ UNCHANGED vars PROVE OwnEntry'
  <2>1. UNCHANGED <<slot, cell, entry, call, pc, result>>
        BY <1>12 DEF OrphanCommit, vars
  <2> QED BY <1>0, <2>1
<1> HIDE DEF OwnEntry
<1>13. ASSUME NEW t \in Tasks, Get(t) \/ Internal(t) \/ Close(t) \/ Cancel(t) PROVE OwnEntry'
       BY <1>1, <1>2, <1>3, <1>4, <1>5, <1>6, <1>7, <1>8, <1>9, <1>10, <1>13 DEF Internal
<1> QED BY <1>11, <1>12, <1>13 DEF Next

\* With the rows gone, no load of a clean entry can end in a game.
LEMMA CleanStays ==
    ASSUME IndInv, GoneInv, ~rows, [Next]_vars, NEW e \in Entries, Clean(e)
    PROVE  Clean(e)'
<1> USE DEF Clean, Running, Loading, Erasing, Fleeting, cellVars, taskVars, storeVars, history
<1>0. TypeOK
      BY DEF IndInv
<1>1. ASSUME NEW t \in Tasks, Get(t) PROVE Clean(e)'
  <2>1. /\ pc' = [pc EXCEPT ![t] = "waiting"]
        /\ UNCHANGED result
        BY <1>1 DEF Get
  <2>2. cell'[e] \in {cell[e], "empty"}
        BY <1>0, <1>1 DEF Get, Allocate, TypeOK
  <2>3. \A u \in Tasks : u # t => entry'[u] = entry[u]
        BY <1>0, <1>1 DEF Get, TypeOK
  <2> QED BY <1>0, <2>1, <2>2, <2>3 DEF TypeOK
<1>2. ASSUME NEW t \in Tasks, RegisterAfresh(t) PROVE Clean(e)'
  <2>1. /\ pc' = [pc EXCEPT ![t] = "waiting"]
        /\ UNCHANGED result
        BY <1>2 DEF RegisterAfresh
  <2>2. cell'[e] \in {cell[e], "empty"}
        BY <1>0, <1>2 DEF RegisterAfresh, Allocate, TypeOK
  <2>3. \A u \in Tasks : u # t => entry'[u] = entry[u]
        BY <1>0, <1>2 DEF RegisterAfresh, TypeOK
  <2> QED BY <1>0, <2>1, <2>2, <2>3 DEF TypeOK
<1>3. ASSUME NEW t \in Tasks, Fill(t) PROVE Clean(e)'
      BY <1>0, <1>3 DEF Fill, TypeOK
<1>4. ASSUME NEW t \in Tasks, Read(t) \/ Rebuild(t) \/ Settle(t) PROVE Clean(e)'
      BY <1>0, <1>4 DEF Read, Rebuild, Settle, TypeOK
<1>5. ASSUME NEW t \in Tasks, BeginInit(t) \/ CreatorOf(t) \/ DeleteRows(t) \/ Erased(t)
      PROVE  Clean(e)'
      BY <1>0, <1>5 DEF BeginInit, CreatorOf, DeleteRows, Erased, TypeOK
<1>6. ASSUME NEW t \in Tasks,
             \/ Observe(t) \/ Close(t) \/ Cancel(t) \/ LockRoom(t) \/ CommitDelete(t)
             \/ MarkDeleted(t) \/ Forget(t)
      PROVE  Clean(e)'
  <2>1. /\ UNCHANGED <<cell, entry, result>>
        /\ \A u \in Tasks : Running(u)' => pc'[u] = pc[u]
        BY <1>0, <1>6 DEF Observe, Close, Cancel, LockRoom, CommitDelete, MarkDeleted, Forget,
                          TypeOK
  <2> QED BY <2>1
<1>7. ASSUME NEW t \in Tasks, Leave(t) PROVE Clean(e)'
  <2>1. /\ UNCHANGED <<cell, entry>>
        /\ \A u \in Tasks : Running(u)' => pc'[u] = pc[u] /\ result'[u] = result[u]
        BY <1>0, <1>7 DEF Leave, TypeOK
  <2> QED BY <2>1
<1>8. ASSUME NEW tm \in timers, Wake(tm) \/ Evict(tm) PROVE Clean(e)'
      BY <1>8 DEF Wake, Evict
<1>9. ASSUME OrphanCommit \/ UNCHANGED vars PROVE Clean(e)'
      BY <1>9 DEF OrphanCommit, vars
<1> HIDE DEF Clean
<1>10. ASSUME NEW t \in Tasks, Get(t) \/ Internal(t) \/ Close(t) \/ Cancel(t) PROVE Clean(e)'
       BY <1>1, <1>2, <1>3, <1>4, <1>5, <1>6, <1>7, <1>10 DEF Internal
<1> QED BY <1>8, <1>9, <1>10 DEF Next

\* A fresh entry is clean: no load has begun on it.
LEMMA FreshClean ==
    ASSUME TypeOK, NEW t \in Tasks, NEW e \in Entries, Allocate(e),
           pc' = [pc EXCEPT ![t] = "waiting"], entry' = [entry EXCEPT ![t] = e]
    PROVE  Clean(e)'
<1>1. \A u \in Tasks : Registered(u) => entry[u] # e
      BY DEF Allocate, Unreferenced, On
<1>2. \A u \in Tasks \ {t} : entry'[u] = entry[u] /\ pc'[u] = pc[u]
      BY DEF TypeOK
<1>3. pc'[t] = "waiting" /\ cell'[e] = "empty"
      BY DEF TypeOK, Allocate
<1> QED BY <1>1, <1>2, <1>3 DEF Clean, Running, Registered, Loading, Erasing

\* Where the entry of the slot, and of a registration, come from in a step.
LEMMA EntriesNext ==
    ASSUME IndInv, [Next]_vars
    PROVE  \/ /\ slot' # NoSlot => slot # NoSlot /\ slot'.entry = slot.entry
              /\ \A u \in Tasks : Registered(u)' => Registered(u) /\ entry'[u] = entry[u]
              /\ late' \subseteq late
           \/ \E t \in Tasks, e \in Entries :
                 /\ slot' # NoSlot /\ slot'.entry = e
                 /\ (slot # NoSlot /\ slot.entry = e) \/ Clean(e)'
                 /\ entry' = [entry EXCEPT ![t] = e]
                 /\ \A u \in Tasks \ {t} : Registered(u)' => Registered(u)
                 /\ late' \subseteq late \cup {t}
<1> USE DEF cellVars, taskVars, storeVars, history
<1> DEFINE Same == /\ slot' # NoSlot => slot # NoSlot /\ slot'.entry = slot.entry
                   /\ \A u \in Tasks : Registered(u)' => Registered(u) /\ entry'[u] = entry[u]
                   /\ late' \subseteq late
           Enter(t, e) ==
                 /\ slot' # NoSlot /\ slot'.entry = e
                 /\ (slot # NoSlot /\ slot.entry = e) \/ Clean(e)'
                 /\ entry' = [entry EXCEPT ![t] = e]
                 /\ \A u \in Tasks \ {t} : Registered(u)' => Registered(u)
                 /\ late' \subseteq late \cup {t}
           Either == Same \/ \E t \in Tasks, e \in Entries : Enter(t, e)
<1>0. TypeOK /\ Counted
      BY DEF IndInv
<1>1. ASSUME NEW t \in Tasks, Get(t) PROVE Either
  <2>0. /\ pc' = [pc EXCEPT ![t] = "waiting"]
        /\ late' \subseteq late \cup {t}
        BY <1>1 DEF Get
  <2>1. \A u \in Tasks \ {t} : Registered(u)' => Registered(u)
        BY <1>0, <2>0 DEF Registered, TypeOK
  <2>2. CASE slot # NoSlot
    <3>1. slot' # NoSlot /\ slot'.entry = slot.entry /\ slot.entry \in Entries
          BY <1>0, <1>1, <2>2, CountedSlot, RegistryAssumption DEF Get, CountOn, Slot, TypeOK
    <3>2. entry' = [entry EXCEPT ![t] = slot.entry]
          BY <1>1, <2>2 DEF Get
    <3>3. Enter(t, slot.entry)
          BY <2>0, <2>1, <2>2, <3>1, <3>2
    <3> QED BY <3>1, <3>3
  <2>3. CASE slot = NoSlot
    <3>1. PICK e \in Entries : /\ Allocate(e)
                               /\ slot' = CountOn(Unloaded(e))
                               /\ entry' = [entry EXCEPT ![t] = e]
          BY <1>1, <2>3 DEF Get
    <3>2. slot' # NoSlot /\ slot'.entry = e
          BY <3>1, UnloadedSlot, FirstCount, RegistryAssumption DEF Slot
    <3>3. Clean(e)'
          BY <1>0, <2>0, <3>1, FreshClean
    <3>4. Enter(t, e)
          BY <2>0, <2>1, <3>1, <3>2, <3>3
    <3> QED BY <3>4
  <2> QED BY <2>2, <2>3
<1>2. ASSUME NEW t \in Tasks, RegisterAfresh(t) PROVE Either
  <2>0. /\ pc' = [pc EXCEPT ![t] = "waiting"]
        /\ late' = late
        BY <1>2 DEF RegisterAfresh
  <2>1. \A u \in Tasks \ {t} : Registered(u)' => Registered(u)
        BY <1>0, <2>0 DEF Registered, TypeOK
  <2>2. PICK e \in Entries : /\ Allocate(e)
                             /\ slot' = CountOn(Unloaded(e))
                             /\ entry' = [entry EXCEPT ![t] = e]
        BY <1>2 DEF RegisterAfresh
  <2>3. slot' # NoSlot /\ slot'.entry = e
        BY <2>2, UnloadedSlot, FirstCount, RegistryAssumption DEF Slot
  <2>4. Clean(e)'
        BY <1>0, <2>0, <2>2, FreshClean
  <2>5. Enter(t, e)
        BY <2>0, <2>1, <2>2, <2>3, <2>4
  <2> QED BY <2>5
<1>3. ASSUME NEW t \in Tasks, Leave(t) PROVE Same
  <2>1. slot' # NoSlot => slot # NoSlot /\ slot'.entry = slot.entry
        BY <1>0, <1>3, LeaveSlot
  <2> QED BY <1>0, <1>3, <2>1 DEF Leave, Registered, TypeOK
<1>4. ASSUME NEW t \in Tasks, Settle(t) \/ Erased(t) \/ Forget(t) PROVE Same
      BY <1>0, <1>4 DEF Settle, Erased, Forget, Unmap, Registered, TypeOK
<1>5. ASSUME NEW tm \in timers, Wake(tm) \/ Evict(tm) PROVE Same
      BY <1>5 DEF Wake, Evict, Registered
<1>6. CASE Quiet /\ late' = late
      BY <1>6 DEF Quiet
<1>7. ASSUME NEW t \in Tasks,
             \/ BeginInit(t) \/ Read(t) \/ Rebuild(t) \/ Fill(t) \/ Observe(t) \/ Close(t)
             \/ Cancel(t) \/ LockRoom(t) \/ CommitDelete(t) \/ MarkDeleted(t) \/ CreatorOf(t)
             \/ DeleteRows(t)
      PROVE  Quiet /\ late' = late
  <2>1. late' = late
        BY <1>7 DEF BeginInit, Read, Rebuild, Fill, Observe, Close, Cancel, LockRoom,
                    CommitDelete, MarkDeleted, CreatorOf, DeleteRows
  <2> QED BY <1>0, <1>7, <2>1, QuietActions
<1>8. ASSUME OrphanCommit \/ UNCHANGED vars PROVE Quiet /\ late' = late
      BY <1>8 DEF OrphanCommit, vars, Quiet, Registered
<1>9. ASSUME NEW t \in Tasks, Get(t) \/ Internal(t) \/ Close(t) \/ Cancel(t)
      PROVE  Either \/ (Quiet /\ late' = late)
  <2> HIDE DEF Enter, Same
  <2> QED BY <1>1, <1>2, <1>3, <1>4, <1>7, <1>9 DEF Internal
<1>10. Either \/ (Quiet /\ late' = late)
  <2> HIDE DEF Enter, Same
  <2> QED BY <1>5, <1>8, <1>9 DEF Next
<1> QED BY <1>6, <1>10

\* A delete goes through in one of two steps.
LEMMA GoneNext ==
    ASSUME IndInv, [Next]_vars, ~Gone, Gone'
    PROVE  \E t \in Tasks : Forget(t) \/ Erased(t)
<1> USE DEF cellVars, taskVars, storeVars, history, Gone
<1>0. TypeOK
      BY DEF IndInv
<1>1. ASSUME NEW t \in Tasks, Leave(t) PROVE FALSE
  <2>1. /\ next' = [next EXCEPT ![t] = "idle"]
        /\ returned' = (returned \/ next[t] = "done")
        BY <1>1 DEF Leave
  <2> QED BY <1>0, <2>1 DEF TypeOK
<1>2. ASSUME NEW t \in Tasks, Observe(t) \/ Cancel(t) PROVE FALSE
  <2>1. /\ \A u \in Tasks : next'[u] \in {next[u], "replacing", "idle"}
        /\ returned' = returned
        BY <1>0, <1>2 DEF Observe, Cancel, TypeOK
  <2> QED BY <2>1
<1>3. ASSUME UNCHANGED <<next, returned>> PROVE FALSE
      BY <1>3
<1>4. ASSUME NEW t \in Tasks,
             \/ BeginInit(t) \/ Read(t) \/ Rebuild(t) \/ Settle(t) \/ Fill(t) \/ Close(t)
             \/ LockRoom(t) \/ CommitDelete(t) \/ MarkDeleted(t) \/ CreatorOf(t)
             \/ DeleteRows(t) \/ RegisterAfresh(t) \/ Get(t)
      PROVE  UNCHANGED <<next, returned>>
      BY <1>4 DEF BeginInit, Read, Rebuild, Settle, Fill, Close, LockRoom, CommitDelete,
                  MarkDeleted, CreatorOf, DeleteRows, RegisterAfresh, Get
<1>5. ASSUME \/ \E tm \in timers : Wake(tm) \/ Evict(tm)
             \/ OrphanCommit
             \/ UNCHANGED vars
      PROVE  UNCHANGED <<next, returned>>
      BY <1>5 DEF Wake, Evict, OrphanCommit, vars
<1> HIDE DEF Gone
<1> QED BY <1>1, <1>2, <1>3, <1>4, <1>5 DEF Next, Internal

\* The delete takes its entry out of the map as it ends: what is registered after
\* begins on an entry of its own, and reads no rows.
LEMMA LeftNext ==
    ASSUME IndInv, GoneInv, [Next]_vars, resumable \/ SoleDeleter
    PROVE  LeftClean'
<1> USE DEF cellVars, taskVars, storeVars, history
<1>0. TypeOK /\ LeftClean /\ (late # {} => Gone) /\ (Gone => ~rows)
      BY DEF GoneInv, IndInv, Gone, RowsGone
<1>1. CASE Gone
  <2>1. \A e \in Entries : Clean(e) => Clean(e)'
        BY <1>0, <1>1, CleanStays
  <2>2. slot # NoSlot => slot.entry \in Entries /\ Clean(slot.entry)
        BY <1>0, <1>1 DEF LeftClean, TypeOK, Slot
  <2>3. \A u \in late : u \in Tasks /\ entry[u] \in Entries
        BY <1>0 DEF TypeOK
  <2>4. CASE /\ slot' # NoSlot => slot # NoSlot /\ slot'.entry = slot.entry
             /\ \A u \in Tasks : Registered(u)' => Registered(u) /\ entry'[u] = entry[u]
             /\ late' \subseteq late
    <3>1. slot' # NoSlot => Clean(slot.entry)' /\ slot'.entry = slot.entry
          BY <2>1, <2>2, <2>4
    <3> QED BY <1>0, <1>1, <2>1, <2>2, <2>3, <2>4 DEF LeftClean, Clean, Running
  <2>5. ASSUME NEW t \in Tasks, NEW e \in Entries,
               slot' # NoSlot, slot'.entry = e,
               (slot # NoSlot /\ slot.entry = e) \/ Clean(e)',
               entry' = [entry EXCEPT ![t] = e],
               \A u \in Tasks \ {t} : Registered(u)' => Registered(u),
               late' \subseteq late \cup {t}
        PROVE  LeftClean'
    <3>1. Clean(e)'
          BY <2>1, <2>2, <2>5
    <3>2. entry'[t] = e /\ \A u \in Tasks \ {t} : entry'[u] = entry[u]
          BY <1>0, <2>5 DEF TypeOK
    <3>3. \A u \in late' : Registered(u)' => u = t \/ (u \in late /\ Registered(u) /\ entry'[u] = entry[u])
          BY <2>3, <2>5, <3>2
    <3>4. ASSUME NEW u \in late', Registered(u)' PROVE Clean(entry[u])'
      <4>1. CASE u = t
            BY <3>1, <3>2, <4>1
      <4>2. CASE u # t
        <5>1. u \in late /\ Registered(u) /\ entry'[u] = entry[u]
              BY <3>3, <3>4, <4>2
        <5>2. PICK f \in Entries : f = entry[u]
              BY <2>3, <5>1
        <5>3. Clean(f)'
              BY <1>0, <1>1, <2>1, <5>1, <5>2 DEF LeftClean
        <5> QED BY <5>1, <5>2, <5>3
      <4> QED BY <4>1, <4>2
    <3> QED BY <2>5, <3>1, <3>4 DEF LeftClean
  <2> QED BY <2>4, <2>5, EntriesNext
<1>2. CASE ~Gone
  <2> SUFFICES ASSUME Gone' PROVE LeftClean'
      BY DEF LeftClean
  <2>1. late = {}
        BY <1>0, <1>2
  <2>2. PICK t \in Tasks : Forget(t) \/ Erased(t)
        BY <1>2, GoneNext
  <2>3. late' = {}
        BY <2>1, <2>2 DEF Forget, Erased
  <2>4. CASE Forget(t)
        BY <2>3, <2>4 DEF Forget, LeftClean
  <2>5. CASE Erased(t)
    <3>1. /\ pc[t] = "erased"
          /\ slot' = IF Mapped(entry[t]) THEN NoSlot ELSE slot
          BY <2>5 DEF Erased, Unmap
    <3>2. call[t] = "delete_with" /\ Registered(t) /\ Running(t)
          BY <3>1 DEF GoneInv, DeleteWith, Erasing, Registered, Running
    <3>3. SoleDeleter
          BY <3>1 DEF IndInv, Rebuilds, Erasing
    <3>4. OwnEntry
          BY <3>3 DEF GoneInv
    <3>5. runner[entry[t]] = t /\ cell[entry[t]] = "empty"
          BY <3>2 DEF IndInv, PermitHeld
    <3>6. ASSUME NEW r \in Tasks, pc[r] = "filling", entry[r] = entry[t] PROVE FALSE
          BY <3>1, <3>5, <3>6 DEF IndInv, PermitHeld, Running
    <3>7. Mapped(entry[t])
          BY <3>2, <3>4, <3>5, <3>6 DEF OwnEntry
    <3> QED BY <2>3, <3>1, <3>7 DEF LeftClean
  <2> QED BY <2>2, <2>4, <2>5
<1> QED BY <1>1, <1>2

LEMMA GoneStep == IndInv /\ GoneInv /\ [Next]_vars => GoneInv'
<1> SUFFICES ASSUME IndInv, GoneInv, [Next]_vars PROVE GoneInv'
    OBVIOUS
<1>1. resumable' = resumable
      BY DEF Next, Internal, Get, BeginInit, Read, Rebuild, Settle, Fill, Observe, Close, Leave,
             Cancel, LockRoom, CommitDelete, MarkDeleted, Forget, RegisterAfresh, CreatorOf,
             DeleteRows, Erased, Wake, Evict, OrphanCommit, vars, storeVars
<1>2. RowsGone' /\ DeleteWith' /\ (late' # {} => returned')
      BY RowsNext
<1>3. SoleDeleter => OwnEntry'
      BY OwnNext
<1>4. resumable \/ SoleDeleter => LeftClean'
      BY LeftNext
<1> QED BY <1>1, <1>2, <1>3, <1>4 DEF GoneInv, SoleDeleter

\* Once a delete has answered, no get begun later finds the game, whatever loads,
\* deletes and timers it races: of a game that rebuilds, whoever deletes it; of one
\* that does not, when only one task does (GameRegistry::delete_with and forget).
THEOREM DeletedStaysGone == Spec => []LateGetFindsNoGame
<1>1. IndInv /\ GoneInv => LateGetFindsNoGame
  <2> SUFFICES ASSUME IndInv, GoneInv, resumable \/ SoleDeleter,
                      NEW t \in late, Registered(t)
               PROVE  cell[entry[t]] \notin {"room", "unresumable"}
      BY DEF LateGetFindsNoGame, DeletedIsGone, SoleDeleter
  <2>1. Gone /\ LeftClean
        BY DEF GoneInv, Gone
  <2> QED BY <2>1 DEF LeftClean, Clean
<1>2. Spec => []GoneInv
      BY GoneInit, GoneStep, Inductive, PTL DEF Spec
<1> QED BY <1>1, <1>2, Inductive, PTL

===============================================================================
