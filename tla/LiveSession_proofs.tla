-------------------------- MODULE LiveSession_proofs --------------------------
(***************************************************************************)
(* The session implements the log, and a log it stored always replays, for *)
(* any engine, connections and number of answers.                          *)
(*                                                                         *)
(* The argument: the lock's holder decides on what is stored, and nobody   *)
(* else writes before it has stored and committed its decision (InHand);   *)
(* so the log is extended at its end by an answer the engine accepts in    *)
(* the state its rows lead to.  The states they lead through form a path   *)
(* from setup along which each row passes the checks of its replay         *)
(* (Replayable).                                                           *)
(***************************************************************************)
EXTENDS LiveSession, FiniteSetTheorems, TLAPS

Storing == {"inserting", "inserted", "updating", "updated"}

\* The lock's holder is the one connection in the middle of a change, and
\* connections are open on a session only.
Locked ==
    /\ \A c \in Conns : pc[c] \in Storing <=> holder = c
    /\ \A c \in Conns : pc[c] # "closed" => session # NoSession
    /\ session # NoSession => loading = "no"

\* Nobody is between a write and its commit.
Still(at) == \A c \in Conns : pc[c] # at

\* The decision the holder has in hand, at each place.
InHand ==
    /\ session # NoSession /\ Still("inserted") =>
          Logged(session.prompt) /\ session.state = latest
    /\ session # NoSession /\ Still("updated") => session.assignment = holders
    /\ \A c \in Conns :
          /\ pc[c] = "inserting" =>
                /\ pending \in Accepted
                /\ prompt[c] = session.prompt
                /\ session.assignment[pending.answer.investigator] = AccountOf[c]
                /\ Accepts(session.state, pending.answer)
                /\ pending.state = Step(session.state, pending.answer)
          /\ pc[c] = "inserted" =>
                /\ pending \in Accepted
                /\ Logged(session.prompt + 1)
                /\ pending.state = latest
          /\ pc[c] = "updating" =>
                /\ pending \in Reassigned
                /\ Awaiting(session.state)
                /\ AccountOf[c] \in {Creator, session.assignment[pending.investigator]}
                /\ pending.to # session.assignment[pending.investigator]
          /\ pc[c] = "updated" =>
                /\ pending \in Reassigned
                /\ holders = [session.assignment EXCEPT ![pending.investigator] = pending.to]

\* p is the path of states the first n rows lead through.
Path(p, n) ==
    /\ p \in [0..n -> States]
    /\ p[0] = Opened
    /\ \A k \in 0..(n - 1) :
          Replays(p[k], rows[k]) /\ p[k + 1] = Step(p[k], rows[k].answer)

\* A rebuild has replayed the first k rows, and is where they lead.
At(p, n, k) == [rows |-> rows, holders |-> holders, left |-> k..(n - 1), seq |-> k,
                state |-> p[k]]
LoadOn(p, n) ==
    /\ loading # "unresumable"
    /\ loading = "rebuilding" => \E k \in 0..n : load = At(p, n, k)

\* The path reaches the state the last answer was accepted into.
PathOf(p, n) == Logged(n) /\ Path(p, n) /\ p[n] = latest /\ LoadOn(p, n)

Replayable == \E n \in Nat : \E p \in [0..n -> States] : PathOf(p, n)

IndInv == TypeOK /\ Locked /\ InHand /\ Replayable /\ ToldIsStored

-------------------------------------------------------------------------------
\* A log ends at one position.
LEMMA OneEnd == ASSUME NEW m \in Nat, NEW n \in Nat, 0..(m - 1) = 0..(n - 1) PROVE m = n
<1>1. CASE m < n
  <2>1. m \in 0..(n - 1) /\ m \notin 0..(m - 1)
        BY <1>1
  <2> QED BY <2>1
<1>2. CASE n < m
  <2>1. n \in 0..(m - 1) /\ n \notin 0..(n - 1)
        BY <1>2
  <2> QED BY <2>1
<1> QED BY <1>1, <1>2

LEMMA CommitType ==
    ASSUME IndInv, NEW c \in Conns, Commit(c) \/ CommitReassignment(c)
    PROVE  session # NoSession /\ session' \in Session /\ session' # NoSession
<1>1. session \in Session
      BY DEF Commit, CommitReassignment, IndInv, TypeOK, Locked
<1>2. CASE Commit(c)
  <2>1. pending.state \in States
        BY <1>2 DEF Commit, IndInv, InHand, Accepted
  <2> QED BY <1>1, <1>2, <2>1, SessionAssumption DEF Commit, Session
<1>3. CASE CommitReassignment(c)
  <2>1. pending.investigator \in Investigators /\ pending.to \in Accounts
        BY <1>3, EngineAssumption DEF CommitReassignment, IndInv, InHand, Reassigned
  <2> QED BY <1>1, <1>3, <2>1, SessionAssumption DEF CommitReassignment, Session, Assignment
<1> QED BY <1>2, <1>3

LEMMA LocksNext == ASSUME IndInv, [Next]_vars PROVE Locked'
<1> USE SessionAssumption DEF IndInv, TypeOK, Locked, Storing, PCs
<1>1. ASSUME NEW c \in Conns, Attach(c) \/ Hear(c) \/ Send(c) \/ Close(c) PROVE Locked'
      BY <1>1 DEF Attach, Hear, Send, Close
<1>2. ASSUME NEW c \in Conns, Submit(c) \/ Reassign(c) PROVE Locked'
      BY <1>2 DEF Submit, Reassign, Decide
<1>3. ASSUME NEW c \in Conns, Refuse(c) \/ WriteFails(c) PROVE Locked'
      BY <1>3 DEF Refuse, WriteFails, Finish
<1>4. ASSUME NEW c \in Conns, Insert(c) \/ UpdateHolder(c) PROVE Locked'
      BY <1>4 DEF Insert, UpdateHolder
<1>5. ASSUME NEW c \in Conns, Commit(c) \/ CommitReassignment(c) PROVE Locked'
      BY <1>5, CommitType DEF Commit, CommitReassignment, Finish
<1>6. CASE Read \/ Replay \/ Rebuilt \/ Stop
      BY <1>6 DEF Read, Replay, Rebuilt, Stop
<1>7. CASE UNCHANGED vars
      BY <1>7 DEF vars
<1> QED BY <1>1, <1>2, <1>3, <1>4, <1>5, <1>6, <1>7 DEF Next

\* The rows' path goes on when an answer is inserted.
LEMMA PathExtends ==
    ASSUME IndInv, NEW c \in Conns, Insert(c), NEW n \in Nat, NEW p \in [0..n -> States],
           PathOf(p, n)
    PROVE  /\ session.prompt = n
           /\ (Logged(n + 1))'
           /\ \E q \in [0..(n + 1) -> States] : PathOf(q, n + 1)'
<1>1. /\ session \in Session
      /\ Logged(session.prompt)
      /\ session.state = latest
      /\ pending \in Accepted
      /\ Accepts(latest, pending.answer)
      /\ pending.state = Step(latest, pending.answer)
      /\ loading = "no"
  <2>1. pc[c] = "inserting" /\ session # NoSession
        BY DEF Insert, IndInv, Locked
  <2>2. Still("inserted")
        BY <2>1, SessionAssumption DEF Insert, IndInv, Locked, Still, Storing
  <2> QED BY <2>1, <2>2 DEF IndInv, InHand, TypeOK, Locked
<1>2. session.prompt = n
      BY <1>1, OneEnd DEF PathOf, Logged, Session
<1>3. (Logged(n + 1))'
      BY <1>2 DEF Insert, Extend, PathOf, Logged
<1>4. PICK q \in [0..(n + 1) -> States] :
         \A k \in 0..(n + 1) : q[k] = IF k = n + 1 THEN pending.state ELSE p[k]
  <2>1. [k \in 0..(n + 1) |-> IF k = n + 1 THEN pending.state ELSE p[k]] \in [0..(n + 1) -> States]
        BY <1>1 DEF Accepted
  <2> QED BY <2>1
<1>5. rows' = Extend(rows, n, RowOf(c)) /\ latest' = pending.state /\ loading' = "no"
      BY <1>1, <1>2 DEF Insert
<1>6. ASSUME NEW k \in 0..n
      PROVE  Replays(q[k], rows'[k]) /\ q[k + 1] = Step(q[k], rows'[k].answer)
  <2>1. CASE k = n
    <3>1. q[k] = latest /\ q[k + 1] = pending.state
          BY <1>4, <2>1 DEF PathOf
    <3>2. rows'[k] = RowOf(c)
          BY <1>5, <2>1 DEF Extend
    <3>3. RowOf(c).answer = pending.answer /\ RowOf(c).draws = Draws(pending.state)
          BY DEF RowOf
    <3>4. Awaiting(latest)
          BY <1>1, EngineAssumption DEF Accepted, IndInv, TypeOK
    <3> QED BY <1>1, <3>1, <3>2, <3>3, <3>4 DEF Replays
  <2>2. CASE k \in 0..(n - 1)
    <3>1. q[k] = p[k] /\ q[k + 1] = p[k + 1] /\ rows'[k] = rows[k]
          BY <1>4, <1>5, <2>2 DEF Extend, PathOf, Logged
    <3> QED BY <2>2, <3>1 DEF PathOf, Path
  <2> QED BY <2>1, <2>2
<1>7. q[0] = Opened /\ q[n + 1] = latest'
      BY <1>4, <1>5 DEF PathOf, Path
<1>8. Path(q, n + 1)'
      BY <1>4, <1>6, <1>7 DEF Path, Replays
<1> QED BY <1>2, <1>3, <1>4, <1>5, <1>7, <1>8 DEF PathOf, LoadOn

LEMMA ReplayableNext == ASSUME IndInv, [Next]_vars PROVE Replayable'
<1>0. PICK n \in Nat : \E p \in [0..n -> States] : PathOf(p, n)
      BY DEF IndInv, Replayable
<1>1. PICK p \in [0..n -> States] : PathOf(p, n)
      BY <1>0
<1>2. ASSUME UNCHANGED <<rows, latest>>, LoadOn(p, n)' PROVE Replayable'
  <2>1. PathOf(p, n)'
        BY <1>1, <1>2 DEF PathOf, Path, Logged, Replays
  <2> QED BY <2>1 DEF Replayable
<1>3. ASSUME NEW c \in Conns, Insert(c) PROVE Replayable'
      BY <1>1, <1>3, PathExtends DEF Replayable
<1>4. ASSUME UNCHANGED <<rows, latest, loading, load>>, holders' = holders \/ loading = "no"
      PROVE  Replayable'
      BY <1>1, <1>2, <1>4 DEF PathOf, LoadOn, At
<1>5. ASSUME NEW c \in Conns,
             \/ Attach(c) \/ Hear(c) \/ Send(c) \/ Close(c) \/ Submit(c) \/ Reassign(c)
             \/ Refuse(c) \/ Commit(c) \/ CommitReassignment(c) \/ WriteFails(c)
      PROVE  Replayable'
      BY <1>4, <1>5 DEF Attach, Hear, Send, Close, Submit, Reassign, Decide, Refuse, Commit,
                        CommitReassignment, WriteFails
<1>6. ASSUME NEW c \in Conns, UpdateHolder(c) PROVE Replayable'
  <2>1. loading = "no"
        BY <1>6 DEF UpdateHolder, IndInv, Locked
  <2> QED BY <1>4, <1>6, <2>1 DEF UpdateHolder
<1>7. CASE Read
  <2>1. load' = At(p, n, 0)
        BY <1>1, <1>7 DEF Read, Load, At, PathOf, Path, Logged
  <2>2. UNCHANGED <<rows, holders, latest>> /\ loading' = "rebuilding"
        BY <1>7 DEF Read
  <2>3. LoadOn(p, n)'
        BY <2>1, <2>2 DEF LoadOn, At
  <2> QED BY <1>2, <2>2, <2>3
<1>8. CASE Replay
  <2>1. PICK k \in 0..n : load = At(p, n, k)
        BY <1>1, <1>8 DEF Replay, PathOf, LoadOn
  <2>2. load.rows = rows /\ load.left = k..(n - 1) /\ load.state = p[k]
        BY <2>1 DEF At
  <2>3. k \in 0..(n - 1) /\ Min(load.left) = k
    <3>1. k \in k..(n - 1)
          BY <1>8, <2>2 DEF Replay
    <3>2. \A x \in k..(n - 1) : (\A y \in k..(n - 1) : x <= y) => x = k
          BY <3>1
    <3>3. \E x \in k..(n - 1) : \A y \in k..(n - 1) : x <= y
          BY <3>1
    <3> QED BY <2>2, <3>1, <3>2, <3>3 DEF Min
  <2>4. Replays(p[k], rows[k]) /\ p[k + 1] = Step(p[k], rows[k].answer)
        BY <1>1, <2>3 DEF PathOf, Path
  <2>5. /\ load' = [load EXCEPT !.left = @ \ {k}, !.seq = @ + 1, !.state = Step(@, rows[k].answer)]
        /\ loading' = loading
        BY <1>8, <2>2, <2>3, <2>4 DEF Replay
  <2>6. (k..(n - 1)) \ {k} = (k + 1)..(n - 1)
        BY <2>3
  <2>7. load' = At(p, n, k + 1)
        BY <2>1, <2>4, <2>5, <2>6 DEF At
  <2>8. UNCHANGED <<rows, holders, latest>>
        BY <1>8 DEF Replay
  <2>9. k + 1 \in 0..n /\ load' = At(p, n, k + 1)'
        BY <2>3, <2>7, <2>8 DEF At
  <2>10. loading' # "unresumable"
        BY <1>1, <2>5 DEF PathOf, LoadOn
  <2>11. LoadOn(p, n)'
        BY <2>9, <2>10 DEF LoadOn
  <2> QED BY <1>2, <2>8, <2>11
<1>9. CASE Rebuilt \/ Stop
      BY <1>2, <1>9 DEF Rebuilt, Stop, LoadOn
<1>10. CASE UNCHANGED vars
      BY <1>4, <1>10 DEF vars
<1> QED BY <1>3, <1>5, <1>6, <1>7, <1>8, <1>9, <1>10 DEF Next
LEMMA TypeNext == ASSUME IndInv, [Next]_vars PROVE TypeOK'
<1> USE SessionAssumption, EngineAssumption DEF IndInv, TypeOK, PCs
<1>1. ASSUME NEW c \in Conns, Attach(c) \/ Hear(c) \/ Send(c) \/ Close(c) PROVE TypeOK'
  <2>1. session # NoSession => session.prompt \in Nat
        BY DEF Session
  <2>2. CASE Attach(c)
        BY <2>1, <2>2 DEF Attach
  <2>3. CASE Hear(c)
    <3>1. session # NoSession
          BY <2>3 DEF Hear, Locked
    <3>2. PICK n \in (seen[c] + 1)..session.prompt : seen' = [seen EXCEPT ![c] = n]
          BY <2>3 DEF Hear
    <3>3. n \in Nat
          BY <2>1, <3>1, <3>2
    <3> QED BY <2>3, <3>2, <3>3 DEF Hear
  <2>4. CASE Send(c)
        BY <2>4 DEF Send
  <2>5. CASE Close(c)
        BY <2>5 DEF Close
  <2> QED BY <1>1, <2>2, <2>3, <2>4, <2>5
<1>2. ASSUME NEW c \in Conns, Submit(c) PROVE TypeOK'
  <2>1. session \in Session
        BY <1>2 DEF Submit, Decide, Locked
  <2>2. pending' \in Accepted
        BY <1>2, <2>1 DEF Submit, Accepted, Session
  <2> QED BY <1>2, <2>2 DEF Submit, Decide
<1>3. ASSUME NEW c \in Conns, Reassign(c) PROVE TypeOK'
  <2>1. pending' \in Reassigned
        BY <1>3 DEF Reassign, Reassigned
  <2> QED BY <1>3, <2>1 DEF Reassign, Decide
<1>4. ASSUME NEW c \in Conns, Refuse(c) \/ WriteFails(c) PROVE TypeOK'
      BY <1>4 DEF Refuse, WriteFails, Finish
<1>5. ASSUME NEW c \in Conns, Insert(c) PROVE TypeOK'
  <2>1. session.prompt \in Nat
        BY <1>5 DEF Insert, Locked, Session
  <2>2. pending \in Accepted
        BY <1>5 DEF Insert, InHand
  <2>3. RowOf(c) \in Row
        BY <2>2 DEF RowOf, Row, Accepted
  <2>4. DOMAIN rows' \subseteq Nat /\ \A n \in DOMAIN rows' : rows'[n] \in Row
        BY <1>5, <2>1, <2>3 DEF Insert, Extend
  <2>5. latest' \in States
        BY <1>5, <2>2 DEF Insert, Accepted
  <2> QED BY <1>5, <2>4, <2>5 DEF Insert
<1>6. ASSUME NEW c \in Conns, UpdateHolder(c) PROVE TypeOK'
  <2>1. pending \in Reassigned
        BY <1>6 DEF UpdateHolder, InHand
  <2>2. holders' \in Assignment
        BY <1>6, <2>1 DEF UpdateHolder, Reassigned, Assignment
  <2> QED BY <1>6, <2>2 DEF UpdateHolder
<1>7. ASSUME NEW c \in Conns, Commit(c) \/ CommitReassignment(c) PROVE TypeOK'
  <2>1. session' \in Session
        BY <1>7, CommitType
  <2> QED BY <1>7, <2>1 DEF Commit, CommitReassignment, Finish
<1>8. CASE Rebuilt
  <2>1. PICK n \in Nat : \E p \in [0..n -> States] : PathOf(p, n)
        BY DEF Replayable
  <2>2. PICK p \in [0..n -> States] : PathOf(p, n)
        BY <2>1
  <2>3. PICK k \in 0..n : load = At(p, n, k)
        BY <1>8, <2>2 DEF Rebuilt, PathOf, LoadOn
  <2>4. session' \in Session
        BY <1>8, <2>3 DEF Rebuilt, At, Session
  <2> QED BY <1>8, <2>4 DEF Rebuilt
<1>9. CASE Read \/ Replay \/ Stop
      BY <1>9 DEF Read, Replay, Stop
<1>10. CASE UNCHANGED vars
      BY <1>10 DEF vars
<1> QED BY <1>1, <1>2, <1>3, <1>4, <1>5, <1>6, <1>7, <1>8, <1>9, <1>10 DEF Next

\* A rebuilt session stands where its rows lead.
LEMMA RebuiltAtEnd ==
    ASSUME IndInv, Rebuilt
    PROVE  /\ \A c \in Conns : pc[c] = "closed"
           /\ Logged(session'.prompt) /\ session'.prompt \in Nat
           /\ session'.state = latest
           /\ session'.assignment = holders
<1>1. PICK n \in Nat : \E p \in [0..n -> States] : PathOf(p, n)
      BY DEF IndInv, Replayable
<1>2. PICK p \in [0..n -> States] : PathOf(p, n)
      BY <1>1
<1>3. PICK k \in 0..n : load = At(p, n, k)
      BY <1>2 DEF Rebuilt, PathOf, LoadOn
<1>4. k..(n - 1) = {}
      BY <1>3 DEF Rebuilt, At
<1>5. k = n
      BY <1>4
<1>6. session' = [state |-> p[n], prompt |-> n, assignment |-> holders]
      BY <1>3, <1>5 DEF Rebuilt, At
<1>7. \A c \in Conns : pc[c] = "closed"
      BY DEF Rebuilt, IndInv, Locked
<1> QED BY <1>2, <1>6, <1>7 DEF PathOf

LEMMA InHandNext == ASSUME IndInv, [Next]_vars PROVE InHand'
<1> USE SessionAssumption DEF IndInv, Locked, Storing, Still, Logged
<1>1. ASSUME NEW c \in Conns, Attach(c) \/ Hear(c) \/ Send(c) \/ Close(c) \/ Refuse(c)
      PROVE  InHand'
      BY <1>1 DEF Attach, Hear, Send, Close, Refuse, Finish, InHand, TypeOK
<1>2. ASSUME NEW c \in Conns, Submit(c) PROVE InHand'
  <2>1. session \in Session
        BY <1>2 DEF Submit, Decide, TypeOK
  <2>2. pending' \in Accepted
        BY <1>2, <2>1, EngineAssumption DEF Submit, Accepted, Session
  <2> QED BY <1>2, <2>2 DEF Submit, Decide, InHand, TypeOK
<1>3. ASSUME NEW c \in Conns, Reassign(c) PROVE InHand'
  <2>1. pending' \in Reassigned
        BY <1>3 DEF Reassign, Reassigned
  <2> QED BY <1>3, <2>1 DEF Reassign, Decide, InHand, TypeOK
<1>4. ASSUME NEW c \in Conns, WriteFails(c) PROVE InHand'
      BY <1>4 DEF WriteFails, Finish, InHand, TypeOK
<1>5. ASSUME NEW c \in Conns, Insert(c) PROVE InHand'
  <2>1. PICK n \in Nat : \E p \in [0..n -> States] : PathOf(p, n)
        BY DEF Replayable
  <2>2. session.prompt = n /\ DOMAIN rows' = 0..(n + 1 - 1)
        BY <1>5, <2>1, PathExtends
  <2> QED BY <1>5, <2>2 DEF Insert, InHand, TypeOK
<1>6. ASSUME NEW c \in Conns, Commit(c) PROVE InHand'
      BY <1>6 DEF Commit, Finish, InHand, TypeOK
<1>7. ASSUME NEW c \in Conns, UpdateHolder(c) PROVE InHand'
      BY <1>7 DEF UpdateHolder, InHand, TypeOK
<1>8. ASSUME NEW c \in Conns, CommitReassignment(c) PROVE InHand'
  <2>1. session \in Session
        BY <1>8 DEF CommitReassignment, TypeOK
  <2> QED BY <1>8, <2>1 DEF CommitReassignment, Finish, InHand, TypeOK, Session
<1>9. CASE Rebuilt
  <2>1. UNCHANGED <<rows, latest, holders, pc>>
        BY <1>9 DEF Rebuilt
  <2> QED BY <1>9, <2>1, RebuiltAtEnd DEF InHand
<1>10. CASE Read \/ Replay \/ Stop
      BY <1>10 DEF Read, Replay, Stop, InHand
<1>11. CASE UNCHANGED vars
      BY <1>11 DEF vars, InHand
<1> QED BY <1>1, <1>2, <1>3, <1>4, <1>5, <1>6, <1>7, <1>8, <1>9, <1>10, <1>11 DEF Next

\* The log reaches at least to an open session's prompt.
LEMMA LogReaches ==
    ASSUME IndInv, session # NoSession
    PROVE  session.prompt \in Nat /\ \A n \in 1..session.prompt : n - 1 \in DOMAIN rows
<1>1. session.prompt \in Nat
      BY DEF IndInv, TypeOK, Session
<1>2. Logged(session.prompt) \/ Logged(session.prompt + 1)
      BY DEF IndInv, InHand, Still
<1> QED BY <1>1, <1>2 DEF Logged

LEMMA ToldNext == ASSUME IndInv, [Next]_vars PROVE ToldIsStored'
<1> USE DEF IndInv, TypeOK, ToldIsStored
<1>1. ASSUME NEW c \in Conns, Attach(c) PROVE ToldIsStored'
      BY <1>1, LogReaches DEF Attach
<1>2. ASSUME NEW c \in Conns, Hear(c) PROVE ToldIsStored'
  <2>1. session # NoSession
        BY <1>2 DEF Hear, Locked
  <2>2. PICK n \in (seen[c] + 1)..session.prompt : seen' = [seen EXCEPT ![c] = n]
        BY <1>2 DEF Hear
  <2>3. n - 1 \in DOMAIN rows
        BY <2>1, <2>2, LogReaches
  <2> QED BY <1>2, <2>2, <2>3 DEF Hear
<1>3. ASSUME NEW c \in Conns, Insert(c) PROVE ToldIsStored'
      BY <1>3 DEF Insert, Extend
<1>4. ASSUME UNCHANGED <<rows, seen>> PROVE ToldIsStored'
      BY <1>4
<1> QED BY <1>1, <1>2, <1>3, <1>4
        DEF Next, Read, Replay, Rebuilt, Stop, Send, Close, Submit, Reassign, Decide, Refuse,
            Commit, UpdateHolder, CommitReassignment, WriteFails, vars

LEMMA InitInd == Init => IndInv
<1> SUFFICES ASSUME Init PROVE IndInv
    OBVIOUS
<1> USE SessionAssumption, EngineAssumption DEF Init
<1>1. DOMAIN rows = {} /\ 0..(0 - 1) = {}
      OBVIOUS
<1>2. TypeOK
      BY <1>1 DEF TypeOK, PCs, Session
<1>3. Locked
  <2>1. session \in Session
        BY DEF Session
  <2>2. pc = [c \in Conns |-> "closed"] /\ holder = NoConn /\ loading = "no"
        OBVIOUS
  <2> QED BY <2>1, <2>2 DEF Locked, Storing
<1>4. InHand
      BY <1>1 DEF InHand, Logged
<1>5. Replayable
  <2>1. PICK p \in [0..0 -> States] : p[0] = Opened
    <3> DEFINE q == [k \in 0..0 |-> Opened]
    <3>1. q \in [0..0 -> States] /\ q[0] = Opened
          OBVIOUS
    <3> HIDE DEF q
    <3> QED BY <3>1
  <2>2. Logged(0) /\ LoadOn(p, 0) /\ p[0] = latest
        BY <1>1, <2>1 DEF LoadOn, Logged
  <2>3. Path(p, 0)
        BY <1>1, <2>1 DEF Path
  <2>4. PathOf(p, 0)
        BY <2>2, <2>3 DEF PathOf
  <2> QED BY <2>4 DEF Replayable
<1>6. ToldIsStored
      BY DEF ToldIsStored
<1> QED BY <1>2, <1>3, <1>4, <1>5, <1>6 DEF IndInv

LEMMA Inductive == Spec => []IndInv
<1>1. IndInv /\ [Next]_vars => IndInv'
      BY TypeNext, LocksNext, InHandNext, ReplayableNext, ToldNext DEF IndInv
<1> QED BY <1>1, InitInd, PTL DEF Spec

-------------------------------------------------------------------------------
\* Between two frames the session is what its rows rebuild, for any engine and
\* any number of answers (session.rs apply, reassign, rebuild).
THEOREM Rebuildable == Spec => []SessionIsStored
<1>1. IndInv => SessionIsStored
  <2>1. ASSUME IndInv, holder = NoConn PROVE Still("inserted") /\ Still("updated")
        BY <2>1, SessionAssumption DEF IndInv, Locked, Still, Storing
  <2> QED BY <2>1 DEF SessionIsStored, IndInv, InHand
<1> QED BY <1>1, Inductive, PTL

LEMMA LogSize == ASSUME NEW n \in Nat PROVE Cardinality(0..(n - 1)) = n
<1>1. n - 1 \in Int /\ 0 \in Int
      OBVIOUS
<1>2. Cardinality(0..(n - 1)) = IF 0 > n - 1 THEN 0 ELSE (n - 1) - 0 + 1
      BY <1>1, FS_Interval, Zenon
<1> QED BY <1>2

\* The log never has a gap or an entry past its end (store.rs insert_action).
THEOREM NoGap == Spec => []LogContiguous
<1>1. IndInv => LogContiguous
  <2> SUFFICES ASSUME IndInv PROVE LogContiguous
      OBVIOUS
  <2>1. PICK n \in Nat : \E p \in [0..n -> States] : PathOf(p, n)
        BY DEF IndInv, Replayable
  <2>2. DOMAIN rows = 0..(n - 1)
        BY <2>1 DEF PathOf, Logged
  <2> QED BY <2>2, LogSize DEF LogContiguous, Logged
<1> QED BY <1>1, Inductive, PTL

\* A client is never told of an answer that a stop could lose (session.rs
\* apply stores before it commits; ws.rs broadcasts after).
THEOREM NeverTakenBack == Spec => []ToldIsStored
<1> QED BY Inductive, PTL DEF IndInv

\* Whatever answers were accepted, under whatever engine, the log they left is
\* replayed without a divergence (session.rs replay_step).
THEOREM AlwaysResumable == Spec => []ReplaySucceeds
<1>1. IndInv => ReplaySucceeds
      BY DEF IndInv, Replayable, PathOf, LoadOn, ReplaySucceeds
<1> QED BY <1>1, Inductive, PTL

\* Every variable has its type (live.rs, session.rs).
THEOREM TypeCorrect == Spec => []TypeOK
<1> QED BY Inductive, PTL DEF IndInv
-------------------------------------------------------------------------------
\* The abstract log's operators are this module's.
LEMMA SameRules ==
    /\ A!Answer = Answer
    /\ \A l, n, e : A!Extend(l, n, e) = Extend(l, n, e)
<1>1. A!Answer = Answer
      BY Zenon DEF A!Answer, Answer
<1>2. ASSUME NEW l, NEW n, NEW e PROVE A!Extend(l, n, e) = Extend(l, n, e)
      BY Zenon DEF A!Extend, Extend
<1> QED BY <1>1, <1>2

\* An answer's insert is the abstract log's next answer.
LEMMA InsertRefines == ASSUME IndInv, NEW c \in Conns, Insert(c) PROVE A!Next
<1>1. PICK n \in Nat : \E p \in [0..n -> States] : PathOf(p, n)
      BY DEF IndInv, Replayable
<1>2. session.prompt = n /\ DOMAIN rows = 0..(n - 1) /\ DOMAIN rows' = 0..((n + 1) - 1)
      BY <1>1, PathExtends DEF PathOf, Logged
<1>3. Cardinality(DOMAIN rows) = n /\ Cardinality(DOMAIN rows') = n + 1
      BY <1>2, LogSize
<1>4. pc[c] = "inserting" /\ session # NoSession /\ Still("inserted") /\ Still("updated")
      BY SessionAssumption DEF Insert, IndInv, Locked, Still, Storing
<1>5. session.state = latest /\ session.assignment = holders
      BY <1>4 DEF IndInv, InHand
<1>6. /\ pending \in Accepted
      /\ prompt[c] = n
      /\ holders[pending.answer.investigator] = AccountOf[c]
      /\ Accepts(latest, pending.answer)
      /\ pending.state = Step(latest, pending.answer)
      BY <1>2, <1>4, <1>5 DEF IndInv, InHand
<1>7. AccountOf[c] \in Accounts
      BY SessionAssumption, EngineAssumption
<1>8. pending.answer \in A!Answer
      BY <1>6, SameRules DEF Accepted
<1>9. rows' = Extend(rows, n, RowOf(c))
      BY <1>2 DEF Insert
<1>10. RowOf(c).answer = pending.answer /\ RowOf(c).by = AccountOf[c] /\ RowOf(c).to = n
      BY <1>6 DEF RowOf
<1> DEFINE log == [k \in DOMAIN rows |-> [answer |-> rows[k].answer, by |-> rows[k].by,
                                          to |-> rows[k].to]]
           entry == [answer |-> pending.answer, by |-> AccountOf[c], to |-> n]
<1>11. log' = Extend(log, n, entry)
      BY <1>2, <1>9, <1>10 DEF Extend
<1>12. log' = A!Extend(log, n, entry)
      BY <1>11, SameRules
<1>13. PICK account \in Accounts, answer \in A!Answer :
          account = AccountOf[c] /\ answer = pending.answer
      BY <1>7, <1>8
<1>14. A!Answered(account, answer)
      BY <1>3, <1>6, <1>12, <1>13 DEF A!Answered, Insert
<1> HIDE DEF log, entry
<1> QED BY <1>14 DEF A!Next

\* A holder's update is the abstract reassignment.
LEMMA UpdateRefines == ASSUME IndInv, NEW c \in Conns, UpdateHolder(c) PROVE A!Next
<1>1. pc[c] = "updating" /\ session # NoSession /\ Still("inserted") /\ Still("updated")
      BY SessionAssumption DEF UpdateHolder, IndInv, Locked, Still, Storing
<1>2. session.state = latest /\ session.assignment = holders
      BY <1>1 DEF IndInv, InHand
<1>3. /\ pending \in Reassigned
      /\ Awaiting(latest)
      /\ AccountOf[c] \in {Creator, holders[pending.investigator]}
      /\ pending.to # holders[pending.investigator]
      BY <1>1, <1>2 DEF IndInv, InHand
<1>4. AccountOf[c] \in Accounts /\ pending.to \in Accounts /\ pending.investigator \in Investigators
      BY <1>3, SessionAssumption, EngineAssumption DEF Reassigned
<1>5. A!Reassigned(AccountOf[c], pending.investigator, pending.to)
      BY <1>3 DEF A!Reassigned, UpdateHolder, Reassigned
<1> QED BY <1>4, <1>5 DEF A!Next

LEMMA StepRefines == ASSUME IndInv, [Next]_vars PROVE [A!Next]_A!vars
<1>1. ASSUME UNCHANGED <<rows, holders, latest>> PROVE UNCHANGED A!vars
      BY <1>1 DEF A!vars
<1>2. ASSUME NEW c \in Conns, Insert(c) PROVE A!Next
      BY <1>2, InsertRefines
<1>3. ASSUME NEW c \in Conns, UpdateHolder(c) PROVE A!Next
      BY <1>3, UpdateRefines
<1> QED BY <1>1, <1>2, <1>3
        DEF Next, Read, Replay, Rebuilt, Stop, Attach, Hear, Send, Close, Submit, Reassign,
            Decide, Refuse, Commit, CommitReassignment, WriteFails, vars

LEMMA InitRefines == Init => A!Init
<1>1. ASSUME Init PROVE A!Init
  <2>1. DOMAIN rows = 0..(0 - 1) /\ 0 \in Nat
        BY <1>1 DEF Init
  <2>2. Cardinality(DOMAIN rows) = 0
        BY <2>1, LogSize
  <2>3. holders \in [Investigators -> Accounts] /\ latest = Opened
        BY <1>1 DEF Init, Assignment
  <2> QED BY <1>1, <2>1, <2>2, <2>3 DEF A!Init, Init
<1> QED BY <1>1

\* Each stored answer was given to the prompt the game awaited by the account
\* holding its investigator, and accepted there (live.rs submit, reassign).
THEOREM SessionImplementsLog == Spec => ImplementsLog
<1> QED BY InitRefines, StepRefines, Inductive, PTL DEF Spec, ImplementsLog, A!Spec
===============================================================================
