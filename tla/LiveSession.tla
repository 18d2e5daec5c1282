------------------------------ MODULE LiveSession -----------------------------
(***************************************************************************)
(* A started game as the server plays it: GameSession (server/src/         *)
(* session.rs) over LiveGame (protocol/src/live.rs) and the game's rows    *)
(* (server/src/store.rs).                                                  *)
(*                                                                         *)
(* A connection's answer is decided on a copy, stored at the log position  *)
(* it answers, and only then committed to the game, all under the room's   *)
(* lock; the server may stop between any two of these.  A stopped or idle  *)
(* game is rebuilt by setting it up and replaying its rows one by one.     *)
(*                                                                         *)
(* A client answers the last prompt it was told of, which may be stale: an *)
(* Applied is still on its way, or the same answer was sent twice.  What   *)
(* it answers does not depend on the session and is chosen when decided.   *)
(***************************************************************************)
EXTENDS GameEngine, FiniteSetsExt

CONSTANTS
    Conns,
    AccountOf,  \* the account each connection is signed in as
    NoConn, NoSession

Assignment == [Investigators -> Accounts]
Row == [answer : Answer, draws : Nat, by : Accounts, to : Nat]
Session == [state : States, prompt : Nat, assignment : Assignment]

ASSUME SessionAssumption ==
    /\ AccountOf \in [Conns -> Members]
    /\ NoConn \notin Conns
    /\ NoSession \notin Session

VARIABLES
    rows,       \* the actions rows, by seq; `by` and `to` are history
    holders,    \* the game_assignments rows
    session,    \* the room's session, or NoSession
    loading,    \* whether a rebuild is under way, or has failed
    load,       \* the rebuild: the rows read, those left, and where it stands
    holder,     \* the connection holding the room's lock
    pc,         \* each connection's place
    prompt,     \* the log position its frame answers
    pending,    \* what the lock's holder is storing
    seen,       \* the latest log position each client was told of
    latest      \* the state the stored answers were accepted into (history)

vars == <<rows, holders, session, loading, load, holder, pc, prompt, pending, seen, latest>>

PCs == {"closed", "attached", "waiting", "inserting", "inserted", "updating", "updated"}
Accepted == [answer : Answer, state : States]
Reassigned == [investigator : Investigators, to : Members]

TypeOK ==
    /\ DOMAIN rows \subseteq Nat /\ \A n \in DOMAIN rows : rows[n] \in Row
    /\ holders \in Assignment
    /\ session \in Session \cup {NoSession}
    /\ loading \in {"no", "rebuilding", "unresumable"}
    /\ holder \in Conns \cup {NoConn}
    /\ pc \in [Conns -> PCs]
    /\ prompt \in [Conns -> Nat]
    /\ pending \in Accepted \cup Reassigned
    /\ seen \in [Conns -> Nat]
    /\ latest \in States

\* What a rebuild starts from.
Load == [rows |-> rows, holders |-> holders, left |-> DOMAIN rows, seq |-> 0, state |-> Opened]

Init ==
    /\ rows = [n \in {} |-> Opened]
    /\ holders \in Assignment
    /\ session = [state |-> Opened, prompt |-> 0, assignment |-> holders]
    /\ loading = "no"
    /\ load = Load
    /\ holder = NoConn
    /\ pc = [c \in Conns |-> "closed"]
    /\ prompt = [c \in Conns |-> 0]
    /\ pending \in Reassigned
    /\ seen = [c \in Conns |-> 0]
    /\ latest = Opened

-------------------------------------------------------------------------------
(* Loading *)

\* GameSession::read: the rows, before anything is checked.
Read ==
    /\ session = NoSession
    /\ loading = "no"
    /\ loading' = "rebuilding"
    /\ load' = Load
    /\ UNCHANGED <<rows, holders, session, holder, pc, prompt, pending, seen, latest>>

\* replay_step's checks: a prompt is asked, the engine accepts the answer, and
\* the RNG stands where it stood.
Replays(s, row) ==
    /\ Awaiting(s)
    /\ Accepts(s, row.answer)
    /\ Draws(Step(s, row.answer)) = row.draws

\* One logged answer is replayed, in seq order.
Replay ==
    /\ loading = "rebuilding"
    /\ load.left # {}
    /\ LET n == Min(load.left)
           row == load.rows[n]
       IN  IF Replays(load.state, row)
           THEN /\ load' = [load EXCEPT !.left = @ \ {n}, !.seq = @ + 1,
                                        !.state = Step(@, row.answer)]
                /\ UNCHANGED loading
           ELSE /\ loading' = "unresumable"
                /\ UNCHANGED load
    /\ UNCHANGED <<rows, holders, session, holder, pc, prompt, pending, seen, latest>>

\* The rebuilt session: its prompt is the number of answers replayed.
Rebuilt ==
    /\ loading = "rebuilding"
    /\ load.left = {}
    /\ session' = [state |-> load.state, prompt |-> load.seq, assignment |-> load.holders]
    /\ loading' = "no"
    /\ UNCHANGED <<rows, holders, load, holder, pc, prompt, pending, seen, latest>>

\* The server stops at any point, or evicts a room left idle.
Stop ==
    /\ session' = NoSession
    /\ loading' = "no"
    /\ holder' = NoConn
    /\ pc' = [c \in Conns |-> "closed"]
    /\ UNCHANGED <<rows, holders, load, prompt, pending, seen, latest>>

-------------------------------------------------------------------------------
(* Connections *)

\* attach, under the lock: the Hello tells the client the prompt.
Attach(c) ==
    /\ pc[c] = "closed"
    /\ session # NoSession
    /\ holder = NoConn
    /\ pc' = [pc EXCEPT ![c] = "attached"]
    /\ seen' = [seen EXCEPT ![c] = session.prompt]
    /\ UNCHANGED <<rows, holders, session, loading, load, holder, prompt, pending, latest>>

\* The client is told of answers committed since.
Hear(c) ==
    /\ pc[c] # "closed"
    /\ \E n \in (seen[c] + 1)..session.prompt : seen' = [seen EXCEPT ![c] = n]
    /\ UNCHANGED <<rows, holders, session, loading, load, holder, pc, prompt, pending, latest>>

\* A frame arrives, sent when the client had been told of some prompt.
Send(c) ==
    /\ pc[c] = "attached"
    /\ pc' = [pc EXCEPT ![c] = "waiting"]
    /\ \E n \in 0..seen[c] : prompt' = [prompt EXCEPT ![c] = n]
    /\ UNCHANGED <<rows, holders, session, loading, load, holder, pending, seen, latest>>

Close(c) ==
    /\ pc[c] = "attached"
    /\ pc' = [pc EXCEPT ![c] = "closed"]
    /\ UNCHANGED <<rows, holders, session, loading, load, holder, prompt, pending, seen, latest>>

\* The lock is taken and something is decided that must be stored.
Decide(c, storing) ==
    /\ pc[c] = "waiting"
    /\ holder = NoConn
    /\ holder' = c
    /\ pc' = [pc EXCEPT ![c] = storing]
    /\ UNCHANGED <<rows, holders, session, loading, load, prompt, seen, latest>>

\* The lock is let go of.
Finish(c) ==
    /\ holder' = NoConn
    /\ pc' = [pc EXCEPT ![c] = "attached"]

\* The prompt is not checked.
Submit_Stale(c) ==
    /\ Decide(c, "inserting")
    /\ \E answer \in Answer :
          /\ session.assignment[answer.investigator] = AccountOf[c]
          /\ Accepts(session.state, answer)
          /\ pending' = [answer |-> answer, state |-> Step(session.state, answer)]

\* LiveGame::submit accepts an answer: to the prompt the game awaits, for an
\* investigator the account holds, as the engine allows.
Submit(c) ==
    /\ Decide(c, "inserting")
    /\ prompt[c] = session.prompt
    /\ \E answer \in Answer :
          /\ session.assignment[answer.investigator] = AccountOf[c]
          /\ Accepts(session.state, answer)
          /\ pending' = [answer |-> answer, state |-> Step(session.state, answer)]

\* LiveGame::reassign accepts.
Reassign(c) ==
    /\ Decide(c, "updating")
    /\ Awaiting(session.state)
    /\ \E i \in Investigators, to \in Members :
          /\ AccountOf[c] \in {Creator, session.assignment[i]}
          /\ to # session.assignment[i]
          /\ pending' = [investigator |-> i, to |-> to]

\* A frame is refused, with nothing changed: some always can be.
Refuse(c) ==
    /\ pc[c] = "waiting"
    /\ holder = NoConn
    /\ Finish(c)
    /\ UNCHANGED <<rows, holders, session, loading, load, prompt, pending, seen, latest>>

-------------------------------------------------------------------------------
\* What is stored of the accepted answer: the checkpoint is the RNG's count
\* after the answer applied.
RowOf_DrawsBefore(c) == [answer |-> pending.answer, draws |-> Draws(session.state),
                         by |-> AccountOf[c], to |-> prompt[c]]
RowOf(c) == [answer |-> pending.answer, draws |-> Draws(pending.state),
             by |-> AccountOf[c], to |-> prompt[c]]

\* A failed insert goes on as a stored one does.
Insert_ErrorIgnored(c) ==
    /\ pc[c] = "inserting"
    /\ pc' = [pc EXCEPT ![c] = "inserted"]
    /\ \/ /\ session.prompt \notin DOMAIN rows
          /\ rows' = Extend(rows, session.prompt, RowOf(c))
          /\ latest' = pending.state
       \/ UNCHANGED <<rows, latest>>
    /\ UNCHANGED <<holders, session, loading, load, holder, prompt, pending, seen>>

\* insert_action, at the prompt's position, which must be free.
Insert(c) ==
    /\ pc[c] = "inserting"
    /\ session.prompt \notin DOMAIN rows
    /\ rows' = Extend(rows, session.prompt, RowOf(c))
    /\ latest' = pending.state
    /\ pc' = [pc EXCEPT ![c] = "inserted"]
    /\ UNCHANGED <<holders, session, loading, load, holder, prompt, pending, seen>>

\* The state is installed, the prompt left as it was.
Commit_SamePrompt(c) ==
    /\ pc[c] = "inserted"
    /\ session' = [session EXCEPT !.state = pending.state]
    /\ Finish(c)
    /\ UNCHANGED <<rows, holders, loading, load, prompt, pending, seen, latest>>

\* LiveGame::commit, and the Applied that is broadcast.
Commit(c) ==
    /\ pc[c] = "inserted"
    /\ session' = [state |-> pending.state, prompt |-> session.prompt + 1,
                   assignment |-> session.assignment]
    /\ Finish(c)
    /\ UNCHANGED <<rows, holders, loading, load, prompt, pending, seen, latest>>

\* update_holder
UpdateHolder(c) ==
    /\ pc[c] = "updating"
    /\ holders' = [holders EXCEPT ![pending.investigator] = pending.to]
    /\ pc' = [pc EXCEPT ![c] = "updated"]
    /\ UNCHANGED <<rows, session, loading, load, holder, prompt, pending, seen, latest>>

\* LiveGame::commit_reassignment
CommitReassignment(c) ==
    /\ pc[c] = "updated"
    /\ session' = [session EXCEPT !.assignment[pending.investigator] = pending.to]
    /\ Finish(c)
    /\ UNCHANGED <<rows, holders, loading, load, prompt, pending, seen, latest>>

\* A write fails: the frame is refused, with nothing changed.
WriteFails(c) ==
    /\ pc[c] \in {"inserting", "updating"}
    /\ Finish(c)
    /\ UNCHANGED <<rows, holders, session, loading, load, prompt, pending, seen, latest>>

-------------------------------------------------------------------------------
Next ==
    \/ Read \/ Replay \/ Rebuilt \/ Stop
    \/ \E c \in Conns :
          \/ Attach(c) \/ Hear(c) \/ Send(c) \/ Close(c)
          \/ Submit(c) \/ Reassign(c) \/ Refuse(c)
          \/ Insert(c) \/ Commit(c) \/ UpdateHolder(c) \/ CommitReassignment(c) \/ WriteFails(c)

Spec == Init /\ [][Next]_vars

-------------------------------------------------------------------------------
(* What the session promises *)

\* The log holds one answer at every position before the prompt, and none past
\* it: no answer is skipped, overwritten or stored twice.
Logged(n) == DOMAIN rows = 0..(n - 1)
LogContiguous == Logged(Cardinality(DOMAIN rows))

\* A prompt a client was told of is never taken back: every answer before it is
\* stored, whenever the server stops.
ToldIsStored == \A c \in Conns : seen[c] > 0 => seen[c] - 1 \in DOMAIN rows

\* Between two frames the session is what its rows rebuild: its prompt the
\* first free position, its state the one the answers were accepted into, its
\* holders the stored ones.
SessionIsStored ==
    session # NoSession /\ holder = NoConn =>
        /\ Logged(session.prompt)
        /\ session.state = latest
        /\ session.assignment = holders

\* A log this build stored always replays under it.
ReplaySucceeds == loading # "unresumable"

\* The session implements the log: each stored answer was given by the holder
\* of its investigator to the prompt the game awaited.
A == INSTANCE AnswerLog WITH
        log    <- [n \in DOMAIN rows |-> [answer |-> rows[n].answer, by |-> rows[n].by,
                                          to |-> rows[n].to]],
        prompt <- Cardinality(DOMAIN rows),
        state  <- latest,
        held   <- holders
ImplementsLog == A!Spec
===============================================================================
