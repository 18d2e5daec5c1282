------------------------------ MODULE MCLobbyRoom -----------------------------
(* LobbyRoom on a small instance: the creator and a guest with two tabs. *)
EXTENDS LobbyRoom, TLC

CONSTANTS creator, guest, host, tab1, tab2

MCAccountOf == host :> creator @@ tab1 :> guest @@ tab2 :> guest

\* What a connection is doing matters only until it is done, the copy and the
\* departure only while the lock is held, and what a listing found until it is
\* answered.
Doing == [c \in Conns |-> IF pc[c] \in {"waiting", "locked", "stored"} THEN op[c] ELSE "nothing"]
Listed == IF listing.at = "answered" THEN [NoListing EXCEPT !.at = "answered"] ELSE listing
Fingerprint ==
    <<stored, room, holder, pc, Doing, closing, orphan, Listed,
      IF holder = NoConn THEN <<>> ELSE <<changed, departing>>>>

Symmetry == Permutations(Pool) \cup Permutations({tab1, tab2})
===============================================================================
