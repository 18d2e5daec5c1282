----------------------------- MODULE MCLiveSession ----------------------------
(* LiveSession on a small game: two investigators answer in turn, a draw      *)
(* moves the RNG, and the game ends after a few answers.                      *)
EXTENDS LiveSession, TLC

CONSTANTS MaxLog, creator, guest, outsider, host, tab1, tab2

MCAccountOf == host :> creator @@ tab1 :> guest @@ tab2 :> guest

MCStates ==
    {s \in [turn : Investigators, drawn : 0..MaxLog, left : 0..MaxLog] : s.drawn + s.left <= MaxLog}
MCOpened == [turn |-> 1, drawn |-> 0, left |-> MaxLog]
MCAwaiting(s) == s.left > 0
MCAccepts(s, a) == s.left > 0 /\ a.investigator = s.turn
MCStep(s, a) ==
    [turn |-> IF a.response = "again" THEN s.turn ELSE 3 - s.turn,
     drawn |-> IF a.response = "draw" THEN s.drawn + 1 ELSE s.drawn,
     left |-> s.left - 1]
MCDraws(s) == s.drawn

\* What is pending, and what a frame answers, matters only while it is handled.
Fingerprint ==
    <<rows, holders, session, loading, holder, pc, seen, latest,
      [c \in Conns |-> IF pc[c] \in {"closed", "attached"} THEN 0 ELSE prompt[c]],
      IF holder = NoConn THEN <<>> ELSE <<pending>>,
      IF loading = "no" THEN <<>> ELSE <<load>>>>

Symmetry == Permutations({tab1, tab2})
===============================================================================
