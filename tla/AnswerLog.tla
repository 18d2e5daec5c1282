------------------------------- MODULE AnswerLog ------------------------------
(***************************************************************************)
(* What a started game promises its players: one log of answers, each      *)
(* given by the account that held its investigator, to the prompt the game *)
(* was then waiting on, and accepted by the engine; and one holder for     *)
(* each investigator.                                                      *)
(***************************************************************************)
EXTENDS GameEngine

VARIABLES
    log,    \* the answers, by log position: what, by whom, to which prompt
    prompt, \* the log position of the prompt the game waits on
    state,  \* the state the answers lead to
    held    \* who holds each investigator

vars == <<log, prompt, state, held>>

Init ==
    /\ log = [k \in {} |-> Opened]
    /\ prompt = 0
    /\ state = Opened
    /\ held \in [Investigators -> Accounts]

\* `account` answers the prompt the game waits on, for an investigator it holds.
Answered(account, answer) ==
    /\ held[answer.investigator] = account
    /\ Accepts(state, answer)
    /\ log' = Extend(log, prompt, [answer |-> answer, by |-> account, to |-> prompt])
    /\ prompt' = prompt + 1
    /\ state' = Step(state, answer)
    /\ UNCHANGED held

\* `by` gives an investigator to another member: its own, unless `by` created
\* the game, and while the game is still being played.
Reassigned(by, investigator, to) ==
    /\ Awaiting(state)
    /\ by = Creator \/ held[investigator] = by
    /\ to \in Members
    /\ to # held[investigator]
    /\ held' = [held EXCEPT ![investigator] = to]
    /\ UNCHANGED <<log, prompt, state>>

Next ==
    \/ \E account \in Accounts, answer \in Answer : Answered(account, answer)
    \/ \E by, to \in Accounts, i \in Investigators : Reassigned(by, i, to)

Spec == Init /\ [][Next]_vars
===============================================================================
