# Eldritch, specified

A TLA+ development of Eldritch, a browser implementation of a cooperative card game: one
server process holds every game being played, plays it under a deterministic rules
engine, stores what its players do in SQLite, and broadcasts it to their browsers over
websockets. The modules here model the code that decides, stores and sends, the page
that shows it, and the parts of the engine where players interleave: its loop over a
game's rounds, its Enemy phase and its skill tests. TLC checks them on small instances,
and TLAPS proves the properties that matter most for every value of their constants.

Paths below are relative to `crates/` of the repository where they start with a crate's
name (`server/src/room.rs`).

## 1. The system and its parts

Who talks to whom:

    browser --- websocket ---> ws.rs (one task per socket)
                                 |  get_or_load            HTTP DELETE
                                 v                              |
                             rooms.rs  <------------------ lifecycle.rs
                      (one slot per game id: Entry, count, idle timer)
                                 |  Arc<GameRoom>
                                 v
                             room.rs  -- lock --> RoomGame = Lobby | Live | Deleted
                              |    |                 |            |
                    broadcast |    | transaction     |            v
                              v    v                 v      session.rs: GameSession
                     every socket  store.rs    protocol/lobby.rs     |
                                   (SQLite)                    protocol/live.rs
                                                                     |
                                                               game-core (engine)

| Part | State it keeps | Operations | Hard behaviour | What makes it correct |
|---|---|---|---|---|
| Room registry, `server/src/rooms.rs` | for each game id a slot: an `Entry` (a `OnceCell` of a loaded room or a failure), a connection count, a generation, an idle timer | `get_or_load`, `delete_with`, `forget`, `Registration::drop`, the idle timer | loads shared by waiters any of which can be dropped at an await; timers that have woken when they are aborted; deletes racing gets | one room per game; counts exact; no fleeting failure cached; nothing stranded; a deleted game stays deleted |
| Lobby rules, `protocol/src/lobby.rs` | members, picks in seating order, lead | join, take, give up, weakness, seating, lead, leave, remove, start | sequences of legal commands that end with a lead or seat nobody has | the lead is a pick; picks distinct; the creator stays; the lead is kept over Start |
| Room in its lobby, `server/src/room.rs`, `lobby.rs` | the lobby, under one lock; the rows stored of it | attach, the lobby commands, Start, delete | stored between a copy's change and its publication; failed transactions; a stop between two steps; departures racing connections | memory and store agree between changes; each stored change is one whole command |
| Live session and store, `server/src/session.rs`, `protocol/src/live.rs`, `server/src/store.rs` | engine state, prompt (log position), assignment; rows of logged answers and holders | submit, reassign, commit, read, rebuild, replay | the server stops between insert, commit and broadcast; stale and repeated answers; a reassignment crossing an answer | the log has no gap, always replays, each answer was its holder's, to the prompt awaited |
| Room channel and socket task, `server/src/ws.rs`, `room.rs`, `shutdown.rs` | a bounded broadcast ring; each socket's receiver and loop | attach, forward, take a frame, reply, close; shutdown | a receiver that overruns the ring; a reply overtaking the broadcast that caused it; shutdown racing a frame | no event skipped or sent twice short of an overrun; replies after their causes; delete and shutdown close everyone |
| Games listing, `server/src/lifecycle.rs` | none (reads rows and rooms) | `GET /games` | two queries, with a Start between them, and a look at a room whose lock another holds | no game of the account's is missed |
| Logged answers, `protocol/src/logged_answer.rs` | none | record, find again at replay | options that moved since the answer was recorded | replay finds the option recorded, or refuses |
| Web client, `web/src/store.rs`, `transport.rs`, `controls.rs` | the room as last told; a reconnect loop; an outgoing queue | `reduce`, connect, send, click | a Hello and the answers it overlaps; commands clicked for a socket that is gone; a server that restarts, or comes back as another build | the page shows the server's game and never an earlier one; a command goes out on the socket it was clicked on or not at all; the page ends up connected or saying why not |
| Engine: apply, drive loop, continuation stack, `game-core/src/engine/mod.rs`, `dispatch/mod.rs` | the board, a stack of frames, an ending latched | `apply`, `drive`, answer, cancel | a rejection after a change; frames nothing advances; an ending under a resolution | a rejected action changes nothing; at rest the stack's top asks someone |
| Engine: phases, turns, rounds, `dispatch/phases.rs` | phase anchors and turn frames on the stack | each frame's steps | players eliminated between two of them | each part once and in order, by players still in the game |
| Engine: timing points and windows, `dispatch/coordinator.rs`, `emit.rs`, `reaction_windows.rs` | a coordinator, its cells and windows, what an effect has parked | emit, queue, offer, fire, pass, cancel, park | a condition cancelled in its When cell; a reaction that raises a timing point; options that lapse while offered | effects resolve whole; what they raised is announced; every window closes |
| Engine: attacks, damage, elimination, `dispatch/combat.rs`, `hunters.rs`, `engagement.rs`, `elimination.rs` | enemies, who they are engaged with, an attack loop, a deal being shared out | hunt, engage, attack, deal, soak, defeat, eliminate | attackers listed before the attacks ahead of them resolve | an attack is by an enemy that may attack, and lands in full or not at all; engagement follows the board |
| Engine: skill tests, `dispatch/skill_test.rs`, `actions/*.rs` | the test on its frame: commits, token, verdict, pending results | the step machine, commits, results, tear-down | its performer, a helper or its enemy gone in the middle; a verdict that flips | every card is somewhere once; one verdict; each result once; a test ends |
| Engine: acts, agendas, encounters, legality, card play, effects | decks, doom, clues, the board | | | in part (Round), the rest not modelled (section 8) |
| Card data and scenarios, accounts, views, RNG | | | | not modelled (section 8) |

The properties above come from the hazards listed in `PROJECT.json`, each at the line
where it bites.

## 2. The modules

    RoomRegistry ........... RoomRegistry_proofs      MCRoomRegistry
    LobbyRules
      Lobby (abstract) ...... implemented by
      LobbyRoom ............. LobbyRoom_proofs        MCLobbyRoom
    GameEngine
      AnswerLog (abstract) .. implemented by
      LiveSession ........... LiveSession_proofs      MCLiveSession
    RoomChannel ............ RoomChannel_proofs       MCRoomChannel
    Client ................. Client_proofs            MCClient
    Seating (the seating, the walks in player order)
      RoundSequence (abstract) implemented by
      Frames, Round ........ Round_proofs             MCRound
    Timing (a timing point's coordinator, cells and windows) and Seating
      EnemyPhase ........... EnemyPhase_proofs        MCEnemyPhase
      SkillTest ............ SkillTest_proofs         MCSkillTest

RoomChannel, RoomRegistry, LobbyRoom and LiveSession are the four layers of one path: a
socket's task (RoomChannel) gets a room (RoomRegistry), which is a lobby (LobbyRoom)
until it is a game (LiveSession). Client is the other end of the socket. Each abstracts
its neighbours to what it needs of them, and says so in its header. The promise one
makes is the assumption of the next:

- LobbyRoom and LiveSession assume one room per game: RoomRegistry's `HeldRoomInMap`.
- RoomRegistry assumes that a room is rebuilt from its rows alone: LobbyRoom's `Saved`
  and LiveSession's `SessionIsStored`. Both model the request that is dropped between a
  delete's commit and the room's mark: RoomRegistry what the map then holds, LobbyRoom
  what the room then stores.
- RoomChannel assumes that a change and its broadcast are one step: both happen under
  the room's lock, which LobbyRoom and LiveSession model in full.
- Client's server is what these establish: a change and its broadcast are one step, a
  reply never overtakes a broadcast (`ReplyAfterItsCause`), a socket short of an overrun
  is sent every change once (`NothingSkipped`), and an answer told is never lost by a
  restart (`ToldIsStored`).

Round opens the engine that LiveSession takes as given: each of its applies, from an
answer to the next prompt, is one step of GameEngine. What Round leaves open as an
ability over the stack, EnemyPhase and SkillTest open in turn: the deals, attacks,
windows and tests an ability or an action brings about.

### RoomRegistry

One game id; the map is the slot of that id. Every operation touches one slot and holds
the map's mutex for one critical section, so an action is one such section and
everything between two of them interleaves.

| Model | Code |
|---|---|
| `slot` | `Slots` map entry: `Slot { entry, connections, generation, idle_timer }`; `timer` is the generation its last timer was started for, `timers` those not yet finished or aborted |
| `cell[e]`, `runner[e]` | `Entry`'s `OnceCell` and the task whose initialiser holds its permit |
| `Get` | `register` / `count_on` |
| `BeginInit`, `Read`, `Rebuild`, `Settle`, `Fill`, `Observe` | `get_or_init`, `load_into`, `Loader::read`, `Loader::rebuild`, the removal of a result not kept, the waiters' share |
| `Leave` | `Registration::drop` |
| `Cancel`, `OrphanCommit` | a future dropped at an await; a commit its database worker still carries out |
| `Wake`, `Evict` | the idle timer's sleep ending, and its critical section |
| `LockRoom`, `CommitDelete`, `MarkDeleted`, `Forget` | `GameRoom::delete` and `forget` |
| `RegisterAfresh`, `CreatorOf`, `DeleteRows`, `Erased` | `register_afresh`, `delete_with`, `delete_unresumable` |

Entries are allocations, reused once nothing refers to them. Whether the stored game
rebuilds under this build (`resumable`) is chosen once, from the constant `Resumes`: the
build does not change while the process runs. `rows` starts present or absent, so a get
of a game that never existed is included.

### LobbyRules, Lobby, LobbyRoom

`LobbyRules` translates `protocol/src/lobby.rs`, one operator per command, as relations
between the game before and after: the relation fails where the code refuses. `Lobby` is
the abstract specification, a game that changes one whole command at a time. `LobbyRoom`
is the room: a connection takes the lock, changes a copy (`changed`), stores it in a
transaction that may fail, publishes it, and the server may stop between any two of
these. What a transaction writes is what its statements do to the rows (`StoreMember`,
`StoreLobby`, `StoreStart`, `StoreDelete`), which is the copy for as long as the rows
are those the room was loaded from. A connection whose account departs closes when it
next forwards the room's events, which is after the frame it has already taken in:
`closing` holds such connections. The card codes, decks and the setup that Start stores
are left out; Start's `leader` is the index the code looks up.

A DELETE is a request, dropped when its client goes (`DropDelete`); a socket's task is
not. Dropped between its commit and the mark on the room (`room.rs:361-364`), it lets go
of the lock with the rows gone and the room serving on, until the room is evicted or the
server stops (`Evict`, `Restart`): `orphan` is where that has got to, and `abandoned` is
what it is to `Lobby`. In such a room an attach stores a membership, a command's
`UPDATE` finds no lobby and a pick's row none to refer to, and a Start stores the game
again without the members it had. So `Saved` says what is stored of such a room
(`Outlives`), and `Lobby` lets an abandoned game, and no other, take members and come
back (`Joined`, `Forgotten`, `Revived`).

`listing` is a `GET /games` running meanwhile, for one account: `List` is the query for
lobbies, `ReadLobby` the read of each, `QueryStarted` the query for started games,
`StartedEntry` the summary of each under its room's lock, or `LoadFails`. It reads only.

### GameEngine, AnswerLog, LiveSession

`GameEngine` is the rules engine as the session sees it: a deterministic machine given
by constants, of which only `EngineAssumption` is assumed. `AnswerLog` is the abstract
specification: one log, each answer by the holder of its investigator, to the prompt
then awaited. `LiveSession` is `GameSession` over `LiveGame` over the rows. `Submit` and
`Reassign` decide under the lock; `Insert` or `UpdateHolder` writes, or `WriteFails`;
`Commit` or `CommitReassignment` installs. `Stop` covers a crash, a shutdown and an
eviction at any point; `Read`, `Replay`, `Rebuilt` load the game again, row by row, with
replay's checks, any of which may find the log unresumable. A client answers the latest
or any earlier prompt it was told of (`prompt[c] \in 0..seen[c]`), which covers answers
sent twice and answers that crossed an `Applied`. `by`, `to` in rows and `latest` are
history: nothing reads them but the refinement.

### RoomChannel

The broadcast ring holds `Capacity` events; a receiver that falls further behind is
handed `Lagged` and goes on with the oldest kept. Every event carries whole facets (the
lobby; the game's state, its holders, its members), never a difference, so an event is
the versions of the facets it carries. `handle_socket`'s biased `select!` is its arms in
order: `PollShutdown`, `PollEvents`, then a frame (`TakeFrame`) or nothing (`Rest`). A
reply is built, then waits for `forward_waiting` (`Drain`). `Fail` is every way a task
ends without being asked to: the client is gone, silent or too slow.

### Client

One page of one game. A game's state is the number of answers it has taken, so the state
at a prompt is the prompt's log position.

| Model | Code |
|---|---|
| `pc` | where `transport::run` and `connect_once` are: signing in, connecting, open, waiting to retry, checking the sign-in, stopped, or gone home |
| `status`, `page` | `ClientState` and the room it holds: state, prompt, holders, the answer last sent, whether a refusal blames the client |
| `Reduced`, `Blamed` | `store::reduce`, `reduce_refusal` |
| `Ends`, `NextStep`, `RetryingAfter` | `socket_ending.rs`: what each close code leads to |
| `Connect`, `SendOutbound`, `Receive`, `Silence`, `Hangup` | `connect_once`'s loop, `silence_deadline`, and the drain of the outbound queue |
| `ClickAnswer`, `ClickReassign`, `ClickInLobby` | what `controls.rs` and the lobby's screen send |
| `ws`, `lingering`, `reply` | the connection, the frames of the last one that the server has yet to read, a reply its task has yet to send |
| `Attach`, `Handle`, `Others`, `Stop`, `Restart`, `Delete`, `Remove`, `SignOut`, `Drop`, `Late` | the server and the network |

A command carries the socket it was clicked for and the game its player was shown, which
are history. `Overlapped` is a Hello followed by answers it already includes: `reduce`
is written for a server that sends them (`store.rs:551-553`), so the page is checked
against one that may, although `GameRoom::attach` never does. Pings, the home page, the
count of attempts and what the panels latch of events are left out.

### Seating, Frames, RoundSequence, Round

`Seating` holds the walks in player order. `Frames` holds the continuation frames that
carry a round, what the drive loop reads off each (does it await input, does the
scenario's ending cancel it, is it a phase anchor, is it a queued ability).
`RoundSequence` is the abstract specification: phases follow each other, each player in
the game takes each phase's part once before the phase ends, outside the Investigation
phase in player order, and nothing follows the ending. `Round` is the engine: `drive`
over the stack.

| Model | Code |
|---|---|
| `stack`, head on top | `GameState::continuations` |
| `running` | inside an `apply_via`: an answer sets it, `Rest` or `FinalizeScenarioEnd` clears it |
| `Drive`'s actions | one pass each of `drive_frames`: what its top frame does when driven |
| `Answer`'s actions | the `resume_*` handler of the prompt on top, when it accepts |
| `Cancel`, `Latched` | `scenario_end_cancels_top`, `end_scenario` and `insert_ending_at_bottom` |
| `taken` | history: who took their part of the phase |

An emit queues at most one thing, an ability or a reaction window; what the ability does
is left open. It may ask first, then eliminate an investigator, advance the act or the
agenda, end the scenario, or do none of these. So an ability stands for whatever its
effect frames, a skill test or a deal of damage would do to the stack, at every place
the framework lets one in. An action or a play at the open turn is the same ability over
the turn's frame; one that provokes attacks parks beneath them. The board the abilities
change (cards, clues, doom, enemies) is left out: where the code reads it (has anyone a
play for this window, how many enemies attack, does the card surge) the model chooses.
`UpkeepResume::AfterDraw` is folded into `Drawing`, which it becomes without a frame
between them. A phase in which nobody is Active is parked in the code; the model keeps
the branch, which no run reaches, because the ending has latched by then and cancels the
anchor (`EndingAtBottom`, `AtRest`).

### Timing, EnemyPhase

`Timing` is the timing machinery as operators on the stack: the coordinator of one
condition (`EmitEvent`, walking When, the condition's resolution, At and After), one
cell (`TimingPoint`, its forced abilities and then its reactions), the window that
offers them (`TimingPointWindow`, with who has passed), the cancellation of the impact
whose When cell is open, and the base beneath an effect (`EffectBase`), where an At or
After cell that the effect raises waits until the effect has resolved.

`EnemyPhase` is one Enemy phase. An action is one pass of the drive loop or one accepted
answer.

| Model | Code |
|---|---|
| `MoveHunter`, `ResumeHunterChoice` | `hunters.rs`: the nearest prey, the ways to it, the lead's choice among several |
| `Engaged`, `Tied`, `ResumeEngagementTie` | `engage_or_report_tie`, `engage_each_or_push_ties` |
| `DriveAttackLoop`, `ResumeAttackOrderPick`, `ExhaustAfterAttack` | the attack loop: the list of attackers fixed at its start, the head kept until its attack is over |
| `ResolveEnemyAttack`, `DistributeUncontested`, `AskDistribution`, `ResumeDamageDistribution`, `Announce`, `FinishDeal` | one deal of damage and horror, shared out with an asset |
| `ResolveDamagePlaced` | placing it, which may defeat the asset or the investigator |
| `RunEliminationSteps`, `FireWeaknessGameEnd` | `elimination.rs`: a weakness resolved first, then enemies freed and engaged again |
| `OpenCell`, `Park`, `QueueForced`, `OpenReactionRun`, `AdvanceResolution`, `FirePendingTrigger`, `Pass` | the drive of a coordinator, of a cell and of a window, and the answers to it |
| `struck`, `cancelled`, `announced` | history |

The cards that listen are one for each cell an attack opens: Dodge cancels it (When),
Guard Dog hits back when it deals damage (When), Agnes Baker when horror is placed
(After), Roland Banks when an enemy is defeated (After), and the Acolyte's forced doom
follows its attack (After). Each is the shape of its ability, read off its
implementation under `cards/src/impls`. `deal_enemy_attack`'s assertion is
`ResolveEnemyAttack`'s guard: the run `combat_gone` finds the state in which it fails
(finding 2), and in `combat`, whose enemies survive one hit and of which one hunts its
bearer only, it never does, or the phase would be stuck there.

### SkillTest

One turn of one investigator, at one location with one enemy, with a second investigator
beside them who may help; somebody elsewhere keeps the scenario going.

| Model | Code |
|---|---|
| `test` | `SkillTestFrame`; its frame in `stack` marks where it stands |
| `TakeFight`, `TakeEvade`, `TakeInvestigate`, `Activate`, `ResumeActionResolution` | the actions that begin a test, two of them parked beneath the attack they provoke |
| `StartSkillTest`, `ChooseSubstitution` | `start_skill_test`, and a test that may use another skill |
| `PreCommitWindow` to `PostOnResolution` | the step machine, one action for each cursor it advances from |
| `NextHelper`, `HelperCommits`, `PerformerCommits` | commits under each card's limit, counted over everybody |
| `RevealToken`, `ResolveReveal`, `CancelToken` | a token, what it records, and one that is cancelled and drawn again |
| `DetermineOutcome`, `ResolveVerdict`, `PlayLucky` | the verdict announced, and void when a reaction flips it |
| `CollectResults`, `Apply`, `PickResult` | results pending and the order they are picked in; `Found` looks a result up as the code does, by its position among the cards committed *when it is applied* |
| `TearDown`, `PerformerEliminated`, `TargetLeavesPlay` | the end of a test, reached or abandoned |
| `Gone`, `TakeCommittedCards` | an investigator eliminated in the middle, whose cards leave the test |
| `resolved` | the verdict: whether the test succeeded, and whether by two or more (`clear`), all that is asked of its margin |
| `told`, `due`, `applied` | history |

A cell of a test's conditions and a player window are one frame each, closed once
whoever may act in it has: Timing and EnemyPhase have that machinery. Harm is placed in
one step. An enemy freed by an elimination engages a survivor at once (`FreedFrom`): the
lead's choice among several, a frame in EnemyPhase, is here made in the same step, since
nothing is done before it is answered. A row counts only towards the skill it is over,
so a weapon's falls away once Intellect is used instead (`Counted`), and the total is
clamped last (`Total`). `rejected` is set where the drive loop, with nobody to answer
to, would reject or panic; `TestSound` says it never does.

## 3. The runs

| Run | Instance | Shows |
|---|---|---|
| `registry_room` | a socket, a droppable listing and the creator's droppable delete; 3 entries; generation up to 2; a game that rebuilds and one that does not | one room (`HeldRoomInMap`), exact counts (`Counted`), no fleeting failure cached, nothing stranded, and no get begun after a delete answered finds the game (`LateGetFindsNoGame`; two deletes of a game that does not rebuild are section 6's) |
| `registry_liveness` | fairness; a droppable get and a delete, 2 entries | every get ends although the loader it waits on is dropped; an idle room is evicted |
| `lobby_room` | creator with one connection, guest with two, who lists games meanwhile; a droppable DELETE; 3 investigators in the pool and one outside it; 2 picks | the room is what is stored, unless a dropped DELETE left it serving (`Saved`); it implements `Lobby`, keeps the rules' invariants and its members' connections (`LobbySound`); no listing misses the game |
| `live_session` | creator with one connection, member with two, an account that is no member; 2 investigators; a game of 2 answers | the log has no gap, replays, and implements `AnswerLog` |
| `room_channel` | fairness; two sockets, a ring of 2, 4 changes before a delete | short of an overrun each client is sent every change once, in order, ahead of replies; delete and shutdown close everyone, overrun or not |
| `client` | fairness; one page, one investigator, a game of 2 answers, 2 faults, one command and two messages under way | the page shows the server's game (`PageTrue`) and never goes back, no command reaches a socket it was not clicked for, and the page ends up told of its game or saying why not (`Settles`) |
| `round` | fairness; two investigators, surges of 2, 2 attackers, 1 hunter, acknowledged advances | the stack keeps its order (`StackInPlace`), every apply stops at a prompt that may be asked, the rounds are the framework's, every apply ends, and a game whose ending latched closes (`EverythingEnds`) |
| `round_turn` | as `round` | violation, finding 1 |
| `combat` | fairness; 3 investigators, 2 enemies that hunt, 3 locations in a row; every board that leaves no enemy idle | every attack is by an enemy that may attack (`AttackersFair`), lands in full or not at all (`DealsInFull`, `CancelledLandsNothing`); effects resolve whole and what they raise is announced (`EffectsWhole`); engagement follows the board (`BoardSound`); the phase ends |
| `combat_gone` | the same with enemies that fall at one hit, and no bearer | violation, finding 2 |
| `skill_test` | fairness; two investigators, 7 cards, 2 actions, an enemy of health 1, 4 tokens | cards, modifiers and limits are accounted for and the loop never rejects (`TestSound`); one verdict, told ahead of its results (`OneVerdict`); a test ends |
| `skill_test_order` | the same with 1 action | violation, finding 3 |

Several properties have parts, each an operator with its own comment: `LobbySound` is
`TypeOK`, the rules' three invariants and `AttachedIsMember`; `BoardSound` is `TypeOK`,
`EngagedTogether` and `NoIdleEnemy`; `AttackersFair` is `AttacksOnce` and
`OnlyTheEngagedAttack`; `EffectsWhole` is `EffectFinishesFirst` and `DefeatsAnnounced`;
`PageTrue` is `TypeOK`, `UnlockedIsCurrent` and `UpToDate`; `StackInPlace` is `TypeOK`,
`FramesInPlace` and `NoAbilityBuried`; `EverythingEnds` is a run that ends and an ending
that closes; `TestSound` is `TypeOK`, `CardsAccounted` and what is stated with it.

**Why the bounds are enough.** In the registry three tasks are what each race takes: one
that holds or loads, one that waits on it or is dropped, one that deletes. Three entries
let a deleted entry, the one that replaced it and a fresh one be alive at once; a fourth
would have no task to be referred to by. The generation counts registrations on one
slot: 2 lets a timer of the earlier one be awake beside the current one. In the lobby
two picks are the least with an order to change and a lead to lose; two tabs of one
guest let one act while the other's departure takes effect. `MaxPicks` is 4 in the code;
the limit is met at 2 by the third investigator. The guest is who lists: the account
that may join, leave, be removed and join again between the queries. The session's game
of two answers has a log that is empty, half and full when the server stops; games of
three answers with two accounts pass too. A ring of two with four changes can be overrun
once with the first two events, and again with those after them. A page needs two faults
for one to hit it while it recovers from another; two answers let a Hello overlap one
answer it includes while another follows, and let an answer be stale by one and by two.
A round needs two players for a queue or a walk that one of them drops out of; two
attackers for an order to choose; two cards in a surging draw for the frame to be driven
twice. One ability at a time is enough, because an ability runs with the stack below it
untouched, and may leave another on top of it by eliminating or advancing, whose emits
queue abilities again. In the Enemy phase two enemies are the least of which one attack
defeats, engages or moves the other, and three investigators let one who is attacked be
lost while the enemy freed has two others to choose from; the boards include each way
two enemies can be engaged, exhausted or away, and investigators whom one attack defeats
and whom it does not. In the skill test the helper's card has the title of the
performer's, so that one limit covers both; the hands, decks and discard piles differ in
having nothing to draw, a card, and a card only once reshuffled; each of the four tokens
is one branch of what a token can do; two actions let a second test begin on what the
first left.

**Bounds in the guards.** `MaxGeneration` (registrations on one slot, `Get`) and
`MaxEvents` (changes before a delete, `Changes`) are the only ones in the server's
modules; the session's log is bounded by the game that `MCLiveSession` defines, which
ends. In Client, `MaxFaults` bounds what goes wrong or ends outside the page (`Fault`),
`MaxQueue` the commands under way and `MaxInbox` the messages past those that open a
socket; a reconnect of a server that stays down is not bounded, and need not be. In
Round, `Surges`, `Attackers` and `Hunters` bound a draw's chain, one player's attackers
and the hunters of a phase; the stack is bounded because a reverse does not advance its
own deck again (`Advancing`) and an elimination happens once for each player. EnemyPhase
has none: one phase ends. In SkillTest, `Actions`.

**Views and symmetry.** Each `Fingerprint` drops only what no enabled action can read
before it is written again: a freed entry's cell, the copy of a lock nobody holds, a
load that is not under way. `Symmetry` permutes entries, the pool's investigators, and
two tabs of one account: no definition tells them apart. The runs with liveness
properties use neither.

**Where deadlock is not checked.** `registry_room` stops when the generation's bound is
reached on a slot holding a cached failure, which no timer evicts. The channel's run
stops when the game is deleted and the server is shut down: no socket opens again. The
client's stops when the page has stopped or left and the faults are spent: only a reload
by its user goes on. The skill test's stop when the actions are spent or the turn's
investigator is out.

## 4. Fairness

Only the runs with liveness properties assume any.

- *Registry.* Weak fairness of each task's own next step (`Internal`): tokio polls every
  task that was woken, and every await there ends, a database call in a result or an
  error. Strong fairness of `BeginInit`: the cell's permit is a semaphore handed to its
  waiters first come, first served, so a waiter cannot be passed over for ever by others
  that arrive later and are dropped. Weak fairness of each timer. Nothing is assumed of
  `Get`, `Close` and `Cancel`: clients need not come, go or stay.
- *Channel.* Weak fairness of each task's own step (`Runs`). Nothing is assumed of
  frames, of failures once attached, of `Delete` or of `Trigger`.
- *Client.* Weak fairness of `Transport`, the page's own steps: a browser runs the tasks
  that are ready, and `connect_once` bounds every wait by a timeout. Weak fairness of
  `Attach`: a server that is up takes a socket in. Weak fairness of `Restart`: a server
  that stopped is started again, by whoever runs it. Nothing is assumed of what is
  clicked, of other members, or of faults, which are finitely many.
- *Round.* Weak fairness of `Drive`: the loop is a plain loop in one call, which goes on
  until it returns. Weak fairness of `Answer`: a prompt is answered in the end; only the
  closing of a latched ending needs it, because what is under way when it latches may
  ask. Nothing is assumed of which answer is given, nor that a game ever ends.
- *EnemyPhase* and *SkillTest.* The same: weak fairness of the loop and of the answers.
  In SkillTest both are `Next`; no answer may be given for ever, because each spends a
  card, an ability or an action.

## 5. What is proved

The proofs hold for any number of tasks, connections, accounts, investigators and
events, under the named `ASSUME`s of the modules and nothing else, but for one theorem
about the Enemy phase whose hypothesis, `Hardy`, is explained there.

**RoomRegistry_proofs**: `Typed` (`[]TypeOK`), `CountCorrect` (`[]Counted`), `OneRoom`
(`[]HeldRoomInMap`), `NeverCached` (`[]NothingFleetingCached`), `NoneStranded`
(`[]NoStrandedSlot`) and `DeletedStaysGone` (`[]LateGetFindsNoGame`). None is inductive
alone. The invariant `IndInv` adds: timers never carry a generation later than the
slot's (`TimersBehind`), so that a timer of an older generation cannot evict; an empty
cell with a task past `waiting` has that task as its runner (`PermitHeld`); a room comes
only from rows that rebuild and an unresumable failure only from rows that do not
(`Rebuilds`, `NeverRoom`, `HasRoom`); room locks, forgetting and a result about to be
filled in are where the code left them (`Locks`, `Forgetting`, `FleetingUnmapped`); and
a task waiting on an entry that has left the map will see it filled (`Waiters`).
`NoneStranded` rests on `Counted`: a slot's count reaches zero only in a leave, which
starts the timer. `DeletedStaysGone` adds `GoneInv`: what is true of a delete at each
step between its commit and its answer (`RowsGone`, `DeleteWith`), that a sole deleter
still has its own entry in the map or nothing (`OwnEntry`), and what that leaves behind
(`LeftClean`): a room still held or a load under way can only come from before the
commit, and is no later get's.

**LobbyRoom_proofs**: `SavedAlways` (`[]Saved`), `LobbyStaysSound` (`[]LobbySound`),
`ListingComplete` (`NothingUnlisted`) and `RoomImplementsLobby` (`Spec =>
ImplementsLobby`). The invariant, `RoomInd`, relates the lock's holder to where it is:
while it is `locked` the copy is one command on the room; once it is `stored` the copy
is to what is stored as the room was. That relation is `Kin`: the two are the same game,
or, in a room a dropped DELETE left serving, the room `Outlives` its rows. It is
preserved because each transaction's statements, run on the rows (`WrittenOutlived`),
keep members that are among the copy's and touch nothing else, until a Start writes the
copy itself but for its members. A listing only reads (`ListingReads`), so it disturbs
neither. The refinement maps a change stored under `Kin` to the command on what was
stored before it, or, after a dropped DELETE, to `Joined`, `Forgotten` or `Revived`
(`StoreSimulates`): `StartedAgain` rebuilds from the game a Start stores a lobby it
could have been started from. `LobbySound` goes through every command of `LobbyRules`: a
pick given up and an account departed leave out elements of a sequence in order (`Kept`,
whose properties are shown by induction on its length), so picks stay distinct and a new
first pick is there for the lead. `ListingComplete` adds what the listing has seen at
each of its steps.

**RoomChannel_proofs**: `NoneSkipped` (`[]NothingSkipped`), `CauseFirst`
(`[]ReplyAfterItsCause`) and `OneMoreFrame` (`[]OneFrameOvertime`). The invariant says,
for each receiver that was not overrun, of each facet, which versions are in the events
it has yet to receive: those after what it was last sent up to the room's, each in one
event. A reply was built from a room whose versions are at most those the receiver is at
once it has drained what then waited for it.

**Client_proofs**: `ShowsTheGame` (`[]PageTrue`), `AnswersMeant` (`[]CommandsMeant`) and
`NeverBack` (`OnlyForward`). The invariant relates the page to the whole of what is on
its way to it: the next frame takes the page to a state no earlier, and what survives
that frame is again such a sequence (`StateComing`, `HoldersComing`). So the argument is
about one frame at a time, whatever the length of the inbox: `Reduced` of the next frame
gives the page that the invariant of the rest asks for.

**LiveSession_proofs**: `TypeCorrect` (`[]TypeOK`), `NoGap`, `NeverTakenBack`,
`Rebuildable`, `AlwaysResumable`, and `SessionImplementsLog` (`Spec => ImplementsLog`).
What a replay reaches is defined by recursion over the log. The proof needs no induction
over it, because the invariant carries the path itself: it says there *is* a sequence of
states, one before each row, that starts at `Opened`, whose every step is a row's
accepted answer with that row's draw count, and that ends at `latest`. An insert extends
the path by one state; a replay stands on it; a stop leaves it alone. So the theorem
needs only that the engine is a function of its state: `EngineAssumption`.

**Round_proofs**: `StackStands` (`[]StackInPlace`), `RestsAtPrompts` (`[]AtRest`),
`EndingStaysAtBottom` (`[]EndingAtBottom`), `TheLivingAreAsked`
(`[]FrameworkAsksTheLiving`) and `RoundsFollow` (`Spec => ImplementsSequence`), for any
seating, length of surge and number of attackers and hunters. The four invariants and
the refinement share one inductive invariant, `IndInv`, stated of the stack two
neighbours at a time: what a frame may be by itself (`FrameOK`), which frame it may
stand directly on and at which of that frame's steps (`Stands`), what that says of how
far the phase has come (`Runs`), what holds of an anchor nothing is asked above (`Idle`)
and of the frame on top (`OnTop`), and that the ending's frame is the bottom one just
when the ending has latched. `Runs` and `OnTop` are claimed only until it has: a latched
ending cancels the prompts that would rely on them, and the rounds may be left halfway.
The link to `taken` is what makes the refinement go through. Outside the Investigation
phase an anchor is at a player with everybody before them done and nobody past them
(`Before`, `UpTo`), so that whoever the walk finds next is due (`FirstDue`, `NextDue`);
the encounter draws' queue holds everybody not yet drawn for, in order, its head perhaps
eliminated since. The proof keeps the many places an ability can be let in to one lemma:
a loose frame, which stands on anything and holds anything, may be put on any stack that
is `Firm`, and `Firm` is what every frame that may be covered leaves. An elimination
changes frames in the middle of the stack (`EndTurnOnElimination`); `EndTurnGood` shows
that the changed stack is as good over the players who remain. `Idle` is needed even for
`StackInPlace`: without it an anchor at `TurnBegins` could open the turn of nobody, and
that turn's end would put nobody into `turns_taken`.

**SkillTest_proofs**: `NothingLeftBehind` (`[]TestSound`) and `VerdictToldOnce`
(`[]OneVerdict`), for any cards and limits, bag, seating, hands and number of actions;
`TestAssumption` and `HandsAssumption` say only what each constant is, and that a turn
begins with everybody in the game and each card in one zone of its owner's. The
invariant has two halves. `ControlInv` gives the whole shape of the stack: with a test
in flight it is some effects, over at most one cell, window or prompt that is open, over
the test's frame; with none it is empty, or an action parked beneath the attack it
provoked. `Placed` says at which of its steps the test is beneath each thing that can be
open, and when effects may be over it. So an answer or an effect finds the test where it
left it: a prevented token leaves it at the draw, a verdict still to stand leaves it at
its acknowledgement. `Decided` ties what is told to the cell of the announcement: told
from the moment it is past the condition, and once. It is one clause over the step and
what is open, not over the history, so a flipped verdict announced again is no case of
its own. `Tallied` does the same for the token and its row. `Opposed` is what the
assertion in `evade::after_test` needs: an evasion decided, and not failed, still has
its enemy. An enemy defeated before the verdict has the test abandoned at its next step
(`TargetLeavesPlay`); after it no window opens, and what could still defeat one is an
effect, over the announcement of a failure or past the follow-up (`Unopposed`).
`CardInv` is `CardsAccounted` said card by card (`OneOf` six places), which is inductive
only together with the limbo holding each card at one position; its steps are one lemma
for a seat whose cards change zones (`Rezoned`), and the commit, the elimination and the
tear-down, which move several cards at once. That the sum of everybody's commits keeps
to a title's limit is a fact about the cardinality of their union (`StaysLimited`). TLC
checked `IndInv` on `skill_test`'s instance before it was proved.

**EnemyPhase_proofs**: `BoardStaysSound` (`[]BoardSound`), `NoPointIsLost`
(`[]DealsInFull`), `EffectsResolveWhole` (`[]EffectsWhole`), `CancelledIsAbandoned`
(`[]CancelledLandsNothing`), `NobodyAttacksTwice` (`[]AttacksOnce`) and `AttacksAreFair`
(`[]AttackersFair`), for any seating, map, enemies, attacks, carriers of the cards and
boards the phase may start from. `EnemyAssumption` and `BoardsAssumption` say what each
constant is, and that every enemy starts in play, engaged with somebody at its location,
or exhausted, or away from all it hunts. The six share one inductive invariant,
`IndInv`, which has three parts:

- *The stack* (`Good`): each frame's `Stands` says what it is and what is under it. An
  attack's coordinator stands on its loop and the phase's anchor and on nothing else; a
  cell's point on the coordinator whose step it is; a window on its point. `Quiet` of
  what is under a frame says that no attack is still to land there, which is what lets a
  frame that hurts or eliminates somebody change the board: no attack below relies on
  it. `Boundless` says that no effect below is open to an At or After cell (that is
  `EffectsWhole`), and Dodge's effect names the seven frames it is over, since it alone
  reaches into the middle of the stack, to the attack it cancels.
- *The stack and the board* (`Fits`, `Asking`): the attackers a loop has still to come
  to are engaged with its player, ready and have not struck, for as long as that player
  is in the game; an attack about to land is by such an enemy on such a player; a deal's
  share fits its asset; a cancelled attack has no frame that harms.
- *The board and its history*: `Strikes` (an enemy that has begun its attack is
  exhausted, or the attack is under way, or the phase is ending: why one whose prey it
  defeats does not attack the next player too), `Defeats` (a defeat whose After cell is
  still to come is in the stack, parked or not), and `DoomCounted` (the doom placed is a
  set of Acolytes whose attack landed and is past the frames that could place it again).

An action is a lemma, `Step...`. Nearly all are one of a few ways to change the stack,
proved once: a cell ended and its coordinator walked on (`Walked`), a condition resolved
(`Resolved`), a deal or a window taken a step further (`DealGoesOn`, `WindowChanged`),
anything done that moves and hurts nobody (`Settled`), the board changed over a stack on
which no attack is still to land (`Moved`), and the engagements made after an arrival or
an elimination (`Rearranged`), which leave each enemy freed either engaged, or tied and
in the frame that asks. `AttackersFair` cannot hold without more, because finding 2's
state is reachable: a reaction to an earlier attack may defeat an enemy on the list.
`Hardy` is the condition on the boards under which none does: nobody has Agnes Baker's
reaction, or no enemy starts one point short of its health. It holds of `combat`'s
boards and not of `combat_gone`'s, and it is a condition of the theorem, not of the
code. Under it `AttacksAreFair` holds. That one point is all an enemy can lose before it
attacks is `Spared`: a reaction of Agnes's is spent once a phase, and Guard Dog hits
only the enemy whose attack is under way. Without it `AttacksLandFairly` remains: an
attack still to land is on a player in the game, and its enemy, if in play, is ready and
engaged with them. So an enemy that is gone is the only thing that goes wrong with the
fixed list. TLC checked `IndInv` on both runs' instances before it was proved.

**Induction.** Where a fact about a recursive function is needed, `NatInduct` states
induction over a set of numbers, without an operator parameter, and each use names the
set.

**Only model-checked**: liveness (no prover here handles fairness or `ENABLED`), that is
`GetReturns`, `IdleSlotEvicted`, `DeleteClosesAll`, `ShutdownCloses`, `Settles`,
`EverythingEnds`, `PhaseEnds` and `TestEnds`. Every invariant a passing run checks is
stated by a theorem, `AttackersFair` under `Hardy` as said above.

## 6. Findings

Three are runs that TLC finds violated:

1. **A turn of a player who is out** (`round_turn`). Between an investigator's turn
   beginning and the push of its frame come what `TurnBegan` queues and a player window.
   An investigator eliminated there has no turn frame for `end_turn_on_elimination` to
   arm, and `TurnBegins` pushes an open one without reading their status: they are asked
   for their turn, and can only end it.
2. **An attacker that is gone** (`combat_gone`). The list of attackers is fixed when a
   player's attacks begin. A reaction to one attack (Agnes Baker's) may defeat an enemy
   still on the list; when its turn comes `deal_enemy_attack` panics on its assertion.
3. **A result that is never applied** (`skill_test_order`). Results pending are
   positions among what the committed cards add. A helper defeated by the result of
   their own card takes their cards off the test, the positions shift, and the last
   position names nothing.

Others were met while modelling. The model does what the code does, and the properties
allow for it:

- *A dropped DELETE.* `GameRoom::delete` awaits the transaction and marks the room
  deleted after it (`room.rs:361-364`). A request dropped at that await leaves a room
  that serves a game with no rows, until its last holder leaves. Whoever attaches
  meanwhile is stored as a member of a game that is not there, and a Start stores the
  deleted game again, without the memberships the delete took, its creator's perhaps
  among them. `Saved`, `LobbySound` and `ImplementsLobby` say exactly this much of such
  a room, and of no other.
- *Two deletes of an unresumable game.* The second, of an account that is not the
  creator, runs `register_afresh`, which puts a fresh entry in the place of the one the
  first deletes under, and loads the game there before the first's transaction commits.
  The first's `remove_if` (`rooms.rs:249`) then finds an entry that is not its own and
  leaves it; the second is refused; and what it read, that the game is unresumable,
  stays cached. Every later get reports the game unresumable, where `rooms.rs:220-222`
  promises it finds no game. `LateGetFindsNoGame` therefore speaks of one deleter, or of
  a game that rebuilds, and is proved so. To see the race, check the invariant
  `DeletedIsGone` of MCRoomRegistry with `Tasks = {sock, other, del}`, `Deleters = {del,
  other}`, `Creators = {del}`, `Droppable = {}`, `Resumes = {FALSE}`, three entries and
  `MaxGeneration = 2`: TLC violates it at depth 27.
- *Picks of an account that left.* A command sent before its account departs is carried
  out after it, and `Lobby::take` does not ask for membership: a pick is held by an
  account that is no member.
- *Lagged is not a resync.* A client that overran the ring goes on with later events,
  and no later event need carry the facet it missed.
- *A game listed twice.* Start between the listing's two queries puts the game in both,
  where `lifecycle.rs:52` says one entry per game.
- *The client is blamed for lost races.* A reassignment that crosses another of the same
  investigator, or the game's last answer, is refused, and `reduce_refusal` says the
  client has a bug (`store.rs:662-697`); only an answer that lost such a race is
  excused.
- *A comment on attaching.* `store.rs:551-553` says a socket that attaches can be sent
  an `Applied` its `Hello` already includes; under `GameRoom::attach`'s lock it cannot
  (`room.rs:133-138`).
- *A failed New game locks a live board.* It sets `Failed`, which only the next `Hello`
  or `Lobby` clears.
- *An evasion takes its enemy to be in play.* `evade::after_test` asserts it; no card
  modelled removes the enemy between the verdict and the follow-up.
- *An empty encounter deck and discard.* Every Confirm of the draw is rejected
  (`encounter.rs:781`), and the game cannot go on.
- *A comment on rollback.* `act_agenda.rs:334-337` says a rejected `apply` "does not
  roll back `state`", so a latch set on a doomed path would persist; `apply_via`
  restores the whole state it cloned before the handler ran (`engine/mod.rs:222`).

## 7. Plan

Done: the server's four layers and its listing, the page at the other end, and of the
engine its rounds, one Enemy phase with its windows, and a turn's skill tests. Next, in
this order:

1. `ApplyVia`: a rejection's rollback of state, events and RNG, and the ending's
   emission at the boundary; its abstract specification is `GameEngine`, which
   LiveSession rests on.
2. `ActAgenda` and `Encounter`: doom, clue allocation, encounter deck and discard.
3. `Actions`: costs, a card in mid-play, slots.
4. `LoggedAnswer`: what an answer is recorded as and how replay finds it, checked
   against a reference definition over small prompts.
5. Refinements: Round's `Ability` by SkillTest and EnemyPhase, through their frames'
   interface.

Each new module's invariants are to be proved as these are; no safety invariant of the
modules written is left unproved.

## 8. Not modelled

Logged answers are taken at their word: LiveSession's `Replays` asks that a stored
answer is accepted again under the build that wrote it, which assumes that a prompt's
options have distinct keys, as `logged_answer.rs`'s search by key does. Card data, card
implementations and scenarios are data and generated code: programs of the card
language, whose meaning is the game's text; EnemyPhase and SkillTest model a few of
them, by their shape, as the cards that make the machinery interleave. Card play, the
evaluator, legality and enumeration interpret those programs over a board that no module
has whole. The RNG is a seeded generator of which the session uses only the draw count.
Accounts and sign-in are OAuth against an outside provider; Client has its two outcomes.
The web views render. SQL's own guarantees (a transaction is applied whole or not at
all) are assumed, as are those of tokio's mutex, `OnceCell` and broadcast channel, which
RoomRegistry and RoomChannel model from how the server uses them.
