---------------------------- MODULE MCRoomRegistry ----------------------------
(* RoomRegistry on a small instance: three tasks race on one game. *)
EXTENDS RoomRegistry, TLC

\* Two states that differ only in the contents of freed entries, or in which
\* entry an idle task used last, behave alike.
Live == Entries \ Unreferenced
Fingerprint ==
    <<rows, resumable, slot, timers, pc, result, next, erasing, returned, late, deleted \cap Live,
      [e \in Live |-> <<cell[e], runner[e], roomLock[e]>>],
      [t \in Tasks |-> IF Registered(t) THEN <<entry[t], call[t]>> ELSE <<>>]>>

Symmetry == Permutations(Entries)
===============================================================================
