# Token Poker: a verification project in TLA+

Token Poker is a Texas Hold'em table without a server. Every player runs a
*sidecar* (Rust), the sidecars talk to each other over libp2p, and everything
that matters is agreed by signatures of all the players concerned: who sits
where, who plays the next hand, which action was taken, how the hand ended.
There is no host, no sequencer and no database. What keeps the game together
is that every sidecar runs the same code on messages that arrive late, twice,
in a different order or not at all. That is what this project models.

The modules are translated from the sources under `src/` (Rust, and JavaScript
for the runtime's client); the documents
under `docs/` are used only to say what the program is meant to do.

| file | what it is |
| --- | --- |
| `SidePots.tla` | seats, distances, the pots of a showdown (pure operators) |
| `HoldemHand.tla` | the betting state `HoldemHand` and its methods (pure operators) |
| `Holdem.tla` | one hand as a state machine, its properties and its inductive invariant |
| `HoldemProofs.tla` | the TLAPS proofs about `Holdem` |
| `HandEvaluator.tla` | the strength of seven cards, and the rules of poker it is compared with (pure operators) |
| `HoldemCards.tla`, `MCHoldemCards.tla` | `Holdem` decided by cards; thirty deals |
| `HandProtocol.tla` | one hand over the network: deal, signed actions, reveals, receipt; implements `Holdem` |
| `MCHandProtocol.tla` | starting stacks for the runs of `HandProtocol` |
| `Membership.tla` | the domain's seats and waiting list (pure operators) |
| `TableSession.tla` | the table between hands: joins, leaves, memberships, rosters, hand boundaries |
| `MCTableSession.tla` | the tables its runs start from |
| `TablePool.tla`, `MCTablePool.tla` | matchmaking, the rooms it leads to and connection leases |
| `TablePoolProofs.tla` | the TLAPS proof about `TablePool` |
| `Archive.tla`, `MCArchive.tla` | receipts and identity backups on volunteer nodes, identity commands |
| `ArchiveProofs.tla` | the TLAPS proofs about `Archive` |
| `SessionProjection.tla` | what the runtime and its clients keep of the worker's events (pure operators) |
| `RuntimeSupervisor.tla` | the shared runtime, its journal, its workers and the clients that attach to it |
| `MCRuntimeSupervisor.tla` | the sessions a worker prints in the run of `RuntimeSupervisor` |
| `*.cfg` | the TLC instances |
| `PROJECT.json` | components, runs, mutants, the map to the source, hazards, findings, theorems |

Run `tlc -config X.cfg M` or `tlapm XProofs.tla` in this directory (the proofs
take one to two minutes per module).


## 1. Inventory of the system

Paths are relative to `src/crates/token-holdem-*/src` unless they say otherwise.

**Betting state machine** (`domain/holdem.rs`). State: a seat per player
(stack, chips paid on this street and in the hand, active / folded / all-in),
the street, the bet to match, the last full raise, who owes an answer
(`pending`), who may raise (`raise_rights`), whose turn it is. Operations:
`start`, `act` (fold, check, call, raise to), the street change inside `act`,
`settle_showdown`. Hard: short all-ins that do or do not re-open the raising,
streets that run out because nobody can act, side pots of unequal all-ins,
odd chips. Correct when chips are conserved, no street closes on an unmatched
bet, each seat wins at most what it covered, and every hand ends.

**Hand protocol** (`sidecar/hand_runtime.rs`, `network/hand.rs`). State, per
peer: the ephemeral keys, shuffles and shares received, its own `HoldemHand`,
the log of committed actions, actions held back, the reveal it waits for, the
transcript, the receipt and its signatures, the peers that are disconnected.
Operations: `start`, `tick`, `submit_action`, the handlers of the six public
and the one private message, `request_safe_leave`, `leave`,
`peer_disconnected`, `peer_connected`. It talks to the betting state (every
peer replays the same actions on it), to the session (which starts it and takes
its boundary) and to the archive (which takes the receipt). Hard: no sequencer,
actions that overtake the cards they were signed over, devices that sign twice,
players that stop answering. Correct when the peers play one hand, in step, and
end with one receipt.

**Receipt consensus** (`sidecar/receipt_runtime.rs`, `domain/receipt.rs`,
`identity/receipt_signature.rs`). A receipt, the signatures collected, whether
it is final. Correct when two final receipts of a hand are equal.

**Table session** (`sidecar/table_session_runtime.rs`,
`network/table_session.rs`, `network/hand_roster_protocol.rs`,
`domain/membership.rs`, `domain/hand_roster.rs`). State, per player: join and
leave intents heard of, the certified membership (seats, waiting list, version),
the proposal it is collecting signatures for, the same for the roster of the
next hand, the hand clock. Operations: `create`, `join`, `tick`,
`request_leave`, `force_local_leave_if_due`, `on_hand_boundary`, the handlers
of eight messages. Hard: proposals that compete, a boundary that different
players reach at different times, leaves that cross a roster, renewals, timers.
Correct when everybody who acts on a membership or a roster acts on one that
all of its players signed, and the table goes on.

**Sidecar command loop** (`sidecar/main.rs`, `command.rs`). One `select!` loop
that hands commands, network events and the 250 ms tick to the runtimes above
and carries their results from one to the other. No await between reading and
writing a runtime's state, so a handler is one atomic step: this is why the
modules have one action per handler.

**Public pool** (`sidecar/table_pool_runtime.rs`, `network/table_pool.rs`,
`domain/table_pool.rs`). State, per player: the advertisements heard of, the
tables rejected, a phase (searching, joining, creating, in a room), the own
advertisement. Operations: `join`, `cancel`, `tick` (which expires, publishes
and decides), `merge_pool_message`, `mark_joined`, `set_local_advertisement`.
Hard: two players that both found a table, a join that times out and succeeds
later, lone tables that must merge. Correct when pool and room agree and the
players of a pool meet.

**Runtime supervisor and event journal** (`sidecar/runtime_supervisor.rs`,
`runtime_protocol.rs`) and **MCP plugin** (`src/plugins/token-holdem/mcp`,
JavaScript). A process that keeps the sidecar alive between clients, a journal
of its events (4096 entries, 8 MiB, a projection of what was dropped), clients
that attach with a cursor. Hard: attaching while events flow, a worker of an
earlier generation that ends late, truncation.

**Connection lease** (`network/connection_lease.rs`). The set of peers whose
connections are kept alive, shared by pool, session and hand. Correct when
every retained peer has an owner that will release it.

**Archive and identity** (`sidecar/archive_runtime.rs`, the identity commands of
`sidecar/main.rs`). Receipts and recovery envelopes copied to volunteer nodes
until enough confirm; the identity of the observed account, created, replaced,
backed up and restored. Hard: nodes that crash in the middle of a write,
operations restarted while answers to the earlier one are on their way, an
envelope that arrives after the account changed. Correct when what is shown as
archived is on the nodes and nobody's identity changes at a table.

**The rest.** Discovery and relay reservations, volunteer policy, identity and
certificates, the cryptographic adapter, statistics, the user interface, the
installer. `PROJECT.json` lists every one with what is (not) modelled.


## 2. How the modules fit together

`Holdem` is the abstract hand: `HandProtocol` implements it (`PlaysHoldem`) and
`HoldemCards` is the same hand with its strengths taken from cards.
`TableSession` decides who plays the next hand; it uses `Membership` as the
reference for its layouts. `TablePool` instantiates `TableSession` for the
agreement inside each room and adds how players get there. `Archive` takes the
receipts that hands end with. `RuntimeSupervisor` carries the events of all of
them to the clients.

Open, in the order of what it would add: proofs for `HandProtocol` (`LogsAgree`
for any number of seats) and `TableSession` (`CertifiedByAll`), which need an
invariant that ties messages to the state of their sender; hands played inside
`TablePool`'s rooms; the 24 attempts of a direct message.

Some of the properties described below are checked in groups, as the conjunction of
parts that belong together; the parts are definitions of their own:

| property of a run | parts |
| --- | --- |
| `BettingIsSound` | `StacksAccounted`, `TurnOwed`, `BetsMatched`, `ShowdownCovered` |
| `PotsAreFair` | `ZeroSum`, `PotsFollowCoverage`, `EqualHandsEqualShares` |
| `ActionsAgree` | `LogsAgree`, `DeferredAwaitsReveal` |
| `LayoutIsSound` | `LayoutIsValid`, `LayoutFollowsDomain` |
| `EverythingIsSigned` | `CertifiedByAll`, `HandsAreAgreed`, `AbandonmentIsSigned` |
| `HandsStayInStep` | `OneHandPerNumber`, `HandClocksAgree` |
| `JoinersGetToPlay` | `JoinersAreAdmitted`, `JoinersPlay` |
| `ShownIsHeld` | `ArchivedIsHeld`, `ReplicasAreOfThisIdentity` |
| `DownloadsEnd` | `RestoreEnds`, `ListedIsFetched` |
| `ShowsTheSession` | `MirrorsSession`, `MissesNothing` |

`PROJECT.json` records one mutant for each group. It shows that the group can be
broken, not that each part of it can.


## 3. The betting state: `SidePots`, `HoldemHand`, `Holdem`, `HandEvaluator`

`HoldemHand` turns every method of the struct into an operator from the hand
before to the hand after. Field names are those of the code; `pending` and
`raise_rights` are sets, the vector of seats is a function of the seat. Chips
are natural numbers: the code uses `u64` with checked arithmetic and the totals
of a table are far below the limit; that no subtraction goes below zero is part
of the type invariant. In `Holdem` cards are a *rank* per seat, because
`settle_showdown` uses cards only through `evaluate_seven`; the proofs hold for
any ranks.

`Holdem` starts a hand with any dealer and any stacks within the buy-ins; an
action (`Fold`, `Check`, `Call`, `RaiseTo`) is what `act` accepts for the
seat to act, and `Settle` is the showdown with any ranks. `HoldemCards` replaces
`Settle` by `Reveal`, which deals a board and hole cards and evaluates them with
`HandEvaluator`: the best of the 21 choices of five cards, a card being its index
in the deck and a `HandRank` the number its category and kickers spell.

**Run `holdem3`** (3 seats, stacks of 2 to 5 small blinds, thirty deals). The deals
are ten boards with three hands each, dealt in turn to the three seats: every
category, the wheel, a board that plays, a third pair as kicker, two sets of
three, quads on the board, a flush among six suited cards. Three
seats are the least with a side pot and with a seat that is neither blind;
stacks of 2 to 5 with blinds 1 and 2 give short all-ins below, at and above a
full raise. It checks the type invariant and

* `StacksAccounted`, `ZeroSum`: no chip is made or lost, in betting or settlement;
* `TurnOwed`, `BetsMatched`, `FullRaiseReopens`, `ShowdownCovered`: who owes an
  answer, that nobody gets past a bet without matching it, that several short
  all-ins that add up to a raise re-open the raising, that the showdown is not
  reached with an unmatched bet on any street;
* `PotsFollowCoverage`, `EqualHandsEqualShares`: what each seat wins, in terms of
  the strengths the evaluator computed;
* `BestHandWins`: what each seat wins in terms of the cards, by `Reading`, the
  rules of poker applied to all seven cards without trying choices of five;
* `HandEnds` under weak fairness of the actions: a seat that does not answer
  within its time checks or folds (`automatic_local_action`).

**Run `holdem4_fails`** (4 seats; expected violation of `SettlementSucceeds`).
Two seats all-in short, two others bet on, and both fold: the highest pot has
two payers and no eligible seat, and `settle_showdown` returns `StateInvariant`
after the lower pots were paid. See the findings.

### What is proved

`HoldemProofs` proves, for **every** number of seats from 2 to 9, all blinds,
buy-ins, stacks, dealers and ranks (the assumptions
`StakeLevelAssumption` and `HandRanksAssumption`, which are what
`StakeLevel::new` and `start` check):

| theorem | states |
| --- | --- |
| `Invariance` | `Spec => []IInv` |
| `TypeCorrect` | `Spec => []TypeOK` |
| `ChipsConserved` | `Spec => []StacksAccounted` |
| `TurnIsOwed` | `Spec => []TurnOwed` |
| `BetsAreMatched` | `Spec => []BetsMatched` |
| `RaisesReopen` | `Spec => []FullRaiseReopens` |
| `ShowdownIsCovered` | `Spec => []ShowdownCovered` |
| `BettingStaysSound` | `Spec => []BettingIsSound`, from the four of its parts |
| `FailuresNeedAllIn` | `Spec => []FailureNeedsAllIn` |

The properties are not inductive as they stand. `ShowdownCovered` speaks of the
whole hand, `BetsMatched` of one street, so the invariant `IInv` adds the bridge:
while betting is open, a seat with chips behind has paid on the *earlier*
streets at least as much as any other seat (the last conjunct of `HandCore`). With
it, closing a street that is matched makes the totals equal again, which is the
lemma `MatchedCovers`. The rest of `HandCore` says that the seats owing an answer
have chips, that raise rights belong to them, and that nobody has paid more
than the bet. `HandOpen` is a hand in which somebody is to act, `HandClosed` one
that waits for the showdown; an action leads from the first to the first, the
second or a finished hand (`AfterActionKeeps`, with one lemma per kind of
action: `FoldCore`, `CheckCore`, `CallCore`, `RaiseCore`), and `AdvanceKeeps`
covers the street change. `FailuresNeedAllIn` narrows the finding above: the
settlement can fail only when every contender is all-in, because a contender with
chips behind is eligible for every pot (`CoveredSettles`).

Only model-checked: `ZeroSum`, `PotsFollowCoverage` and `EqualHandsEqualShares`
(sums over the pots need induction over a set) and `HandEnds` (liveness).


## 4. One hand over the network: `HandProtocol`

`active[p]` is the `ActiveHand` of seat p, with the fields of the struct.
`messages` is everything ever sent; a handler may be given any of it at any time,
any number of times, so loss, delay, duplication and reordering need no
actions of their own. Gossip and the direct queue carry the same messages, and
the model does not tell them apart. A message holds what the properties tell
apart: a share is (card, seat), a key or a shuffle its seat. `public_state_hash`
and the receipt are modelled by what is hashed (the actions, the opened cards in
their order, the final stacks).

| code | model |
| --- | --- |
| `HandRuntime::start`, early messages replayed | `StartHand` |
| `handle_public`, `handle_direct_public`, `handle_private` before the hand | `BufferEarlyMessage` |
| the same during the hand: accept, then `drive`, then `commit_deferred_actions` | `HandleMessage` |
| `submit_action` | `SubmitAction` |
| `tick`: `drive`, then the automatic action of a turn that is over | `Tick` |
| `request_safe_leave` | `RequestSafeLeave` |
| `leave`, `abort_for_signed_leave` | `Leave` |
| `peer_disconnected`, `peer_connected` | `PeerDisconnected`, `PeerConnected` |
| a device that signs two actions for one turn | `SignTwice` |

A handler is an operator from the hand before to the hand after, in the order
of the calls in the code, and collects what it sends in `sent`; a handler that
returns an error is `Nil` and the message is dropped.

**Run `hand_deal`** (2 seats, from the key exchange; one hole card, a flop of
two; stack of 3; seat 0 may ask to leave, one connection may break, two early
messages fit). One hole card and a flop of two keep both kinds of reveal with
more than one card, and the shares of different cards arrive separately.

* `DealtBeforeBetting`: nobody bets before everybody has seen their cards.
* `StatesAgree`: peers with the same log that wait for no card have the same
  public state, transcript order included. Otherwise the next signature would not
  verify.
* `HandCompletes`: the hand ends with the receipt signed by all, whoever stops
  answering, asks to leave or loses a connection for a while.

**Run `hand_three`** (3 seats, after the deal, shares given at once arrive
together). Three seats are the least for which a third party sees the messages of
two others in either order. The deal is left out (`FromDealt`) and shares
are grouped (`Batched`) to keep the instance small; `hand_deal` has both.

* `LogsAgree`: the logs of any two peers are prefixes of one another.
* `DeferredAwaitsReveal`: an action held back is the next one, and a reveal that
  will release it is still pending; none is forgotten.
* `NobodySeesAhead`: a board card is open for somebody only when everybody has
  finished the street before it.
* `PlaysHoldem`: with the hand of the peer that is furthest ahead as the
  refinement mapping, every step is a step of `Holdem` or none. In the instance
  checked, what is proved of `Holdem` thereby holds of the hand the peers play.

**Run `hand_twins`** (3 seats after the deal; seat 1 may sign two actions for one
turn, seat 2 may drop the hand). Stacks are chosen so that a call and a raise of
seat 1 both end the betting: then both forks can be settled.

* `ReceiptsAgree`: two final receipts are equal, although logs may fork.
* `HoleCardsStayPrivate`: the cards of a seat are open to others only if that
  seat itself is at the showdown and has not folded, although peers on
  different forks give shares for different hands.
* `ConflictFreezes`: a peer that has seen both actions commits, opens and settles
  nothing more.

*Fairness.* `Fairness` is weak fairness of `Runs` (the hand starts, a message that
is not yet accepted is delivered, a turn's time ends, a lost connection comes
back), with `ENABLED` written out as `~Idle`. The code ticks four times a
second, sends a direct message again every four ticks and dials lost peers. Two
things are assumed on top: the 24 attempts of a message are enough, and a
participant that is lost comes back. An action that a peer holds back has been
acknowledged and is *not* sent again, so `HandCompletes` does depend on the loop
that looks for held-back actions.

The model has no clocks. A signed action is checked against a validity window of
the device certificate, which outlives a hand.


## 5. The table between hands: `TableSession`

`session[p]` is the `ActiveSession` of player p; `hand[p]` is the roster in p's
hand runtime, reduced to whether it is done. A proposal is named by its
content, so "the previous hash" is the previous proposal; hashes are compared in
the code to choose between competing proposals, and the model takes an arbitrary
order, the same for all (`hashOrder`). `signed` and `receipts` are the signatures
ever given. Actions follow the handlers: `Tick` (renewal, abandonment, proposals),
`Join`, `RequestLeave`, `ForceLeave`, one `Receive...` per message,
`HandBoundary`, `PeerDown`, `PeerUp`. Every handler ends with the loop that
accepts, activates and proposes until nothing changes (`Converge`), as in
`process_table_session_events` and `tick`.

The run `table` has three tables (`Tables` in `MCTableSession`). The invariants and
action properties are checked on all of them, the two liveness properties on
`Renewal` only:

| table | what may happen |
| --- | --- |
| `Arrival` | a third player, who comes first in the order of claims, joins a table of two before, during or after its first hand |
| `Departure` | two players, three hands; both may leave, force their leave or lose a connection |
| `Renewal` | a player joins a table of one whose founder may renew its intent at any moment |

* `CertifiedByAll`, `HandsAreAgreed`: a membership or a roster is used only after
  everybody listed in it signed it.
* `AbandonmentIsSigned`: a hand is given up only for a leave signed during it.
* `LeaveIsCertified`: a room closes for a player who was alone or whose timer forced
  it, or after a membership without the player was signed.
* `OneHandPerNumber`: there are no complete receipts of two hands with one number.
* `HandClocksAgree`: players of a hand do not drift more than a hand apart.
* `LayoutIsValid`: the membership a coordinator would propose next is one that the
  domain and the wire format accept, so that a tick does not fail for ever.
* `LayoutFollowsDomain`: that membership is the one the domain's own algorithm
  gives (`queue_joins` during a hand, `reconcile_at_hand_boundary` between hands).
  The domain's version (`Membership`) is the one with unit tests, but the runtime
  has its own (`next_membership_layout`), so the two are compared: the seats, and
  who waits, wherever the domain accepts its own result of queueing the joins.
* `SeatsSurvive`: nobody loses a seat without leaving.
* `JoinersAreAdmitted`, `JoinersPlay`: a player who joins a table of one is admitted
  and dealt in (liveness).

`table_leave_race`, `table_replaced` and `table_fork` are expected violations, see
the findings.

Bounds: `MaxClaims` join intents per player, `MaxHands` hands, `MaxVersion`
memberships, `MaxDrops` lost connections, each in a guard and each set per table.
Two players are enough for a leave to cross a roster and three for a join to cross
one: a proposal needs the signatures of those seated, and the coordinator, another
seated player and the newcomer are the three roles. One hand gives the phases
before, during and after; `Departure` has three, so that hands follow one another.
No table of the run starts with three seated players, and that does matter: see the
findings. The run allows the system to stop (no deadlock check), because a
table that everybody left is finished.

Liveness assumes weak fairness of the runtime's own steps taken together (`Runs`):
ticks, deliveries (republished until acknowledged or obsolete), countdown, receipt,
boundary. It is assumed, and used, only for a table founded by one player. Joins,
leaves, renewals and lost connections are choices of the environment and get no
fairness.

Two limits are stated in the properties because the code has them: a roster half
activated when a membership is renewed is never given up (`JoinersPlay` therefore
says nothing once any intent has been renewed), and a player who left and came back can accept an old certified roster
(`HandClocksAgree` is checked without returns).


## 6. Finding a table: `TablePool`

`pool[p]` is the `ActivePool` of player p and `session[p]` its `ActiveSession`,
whose `room` is the state of `TableSession`; `retained[p]` is the set of the
connection lease. The agreement inside a room is `TableSession`'s operators
(`Room == INSTANCE TableSession`); the handlers of `main.rs` that join pool and
room are the actions.

| code | model |
| --- | --- |
| `join_public_pool`, `CancelPublicPool`, `leave_table` | `JoinPublicPool`, `CancelPublicPool`, `LeaveTable` |
| `create_friend_room`, `join_friend_room` | `CreateFriendRoom`, `JoinFriendRoom` |
| `protocol_tick`: the pool's tick with its decision, then the session's and the hand's | `ProtocolTick`; with the join time-out `ProtocolTickExpires`; with the leave time-out `ForceLocalLeave` |
| `merge_pool_message` | `MergeAdvertisement` |
| `handle_message` of the session, then `process_table_session_events` | `HandleMessages` |
| `HandRuntime::start`, for the peers it keeps connected | `StartHand` |
| a process that ends | `Crash` |

An advertisement reaches others late or never and can be read until it expires,
which happens when nobody renews it. All that a player publishes at one moment is
delivered together (`HandleMessages`), in one order; the interleavings of single
messages are `TableSession`'s. Leaving is modelled between hands, and a hand only as
the peers it keeps connected. A table id is a number: only the order of ids matters, and a derived id is fresh. Of
the rank delay it is kept that any searching player may be the one to create a
table. A join attempt may run out at any moment.

**Run `pool`** (seven setups: two players and three table ids, or three players and
two ids; late time-outs, leaves and returns, friend rooms, a hand, a crash).

* `RoomMatchesPhase`: the phase of the pool and the room of the player agree.
* `LeasesAreOwned`: a connection is retained only for the pool, the room or a player
  met in a hand.
* `NobodyIsLeftBehind`: a player who moves to another table leaves nobody behind who
  was admitted to the old one.
* `PlayersMeet`: searching players end up at one table (liveness).

`RoomMatchesPhase` and `NobodyIsLeftBehind` leave out a player who has asked to leave.
Both exclusions are needed: what the code does with such a player is in the findings.
That of `NobodyIsLeftBehind` comes from a larger instance (three players, three ids,
two late time-outs, two leaves), where TLC violated the property without it. With it,
the same instance was searched to depth 22 (30 million states, 14 million still
queued) for the invariants and `NobodyIsLeftBehind`, without a violation. That search
was not finished and had no fairness, so it says nothing of `PlayersMeet`. The run
itself has three players only without time-outs and leaves.

Bounds: a table of three needs three versions, and one that reaches `LastVersion`
counts as `Exhausted`. Three ids are a table for each of two players and one more.
How often each kind of event happens is in `MCSetups`. Fairness: weak fairness of
what runs by itself taken together (ticks, deliveries, decisions, expiry), and of the
forced leave, a timer of its own. A player that has left or crashed may rest for
ever, so deadlock is not checked.

`PlayersMeet` has two exceptions. `Exhausted` is the model's: ids or versions have
run out. `RemembersGone` is the code's: a table that counts with a player who is
gone neither completes its proposal nor counts as alone until the intents expire.

### What is proved

`TablePoolProofs` proves `NoLeaseLeaks == Spec => []LeasesAreOwned` for every set of
players and tables and every setup (`PoolAssumption`: players and tables are finite
sets of numbers, `Nil` is no player, the setups are well formed). `LeasesAreOwned` is
not inductive: a session that is not marked as owning its leases does not give them
back on closing, and a hand's peers are retained again on each tick. `IInv` adds that a session that is not marked
`owns_explicit_peers` has no explicit peers, that the peers of a running hand are
among those met, and that an advertisement names a player. Each handler is a
function of one process (`At`, `Become`), so there is one lemma per function that
it keeps a process `Accounted`, and `Become` changes one process only.


## 7. Archive and identity: `Archive`

One player's sidecar, the volunteer nodes it is configured with and the requests
between them. `archive` is the `ArchiveRuntime`, `node[n]` what the
`VolunteerArchive` of n has on disk, `asked` and `answers` what is under way.
`account`, `identity`, `restore` and `busy` are the parts of `main.rs` that the
identity commands read. A receipt stands for its address and content, an envelope
for the root identity it opens to (or `Damaged`); an answer that does not verify
is a refusal, because `handle_response` treats it like one.

The commands (`TokenSnapshot`, `CreateIdentity`, `RestoreIdentity`,
`RestoreRemoteIdentity`, `ConfigureArchiveNodes`, `Synchronize`,
`FetchArchivedReceipt`, ...) and the handlers of answers (`HandleResponse`,
`FailRequest`) are whole: the events the archive returns are processed in the same
step (`ProcessArchiveEvent`), as the loop in `main.rs` does. A node answers with
`Serve` or crashes at any of the points of `put` (`CrashInPut`: object written or
not, index files written for some of the players, a temporary file left behind). A
request that only reads is answered and handled in one step (`HandleRead`): disks
only grow, so a later answer says no less.

**Run `archive`** (two nodes, two accounts, one receipt, two root identities; five
scenarios, `AllScenarios`).

* `ConfirmedIsHeld`, `ArchivedIsHeld`: a confirmed replica is complete, and a
  receipt shown as archived is where it is said to be.
* `ReplicasAreOfThisIdentity`: the number of backups shown counts this identity's,
  not those of one it replaced.
* `IdentityMatchesAccount`, `IdentityIsStable`: the identity belongs to the account,
  and does not change at a table.
* `RestoreEnds`: a restore ends, unless the nodes are changed while it runs.
* `RestoreTriesAllNodes`: on a device without an identity it is given up only at the
  last node's answer.
* `ListedIsFetched`: a listed receipt is fetched, or all nodes failed to give it, or
  the nodes were changed.

The exceptions are the code's; the findings say what it does there.

Bounds: two nodes are the least with "enough of them", "the other one" and a node
that was dropped; two roots the least with an identity replaced under the same
locator. `left` counts how often each kind of event may still happen. Fairness: weak
fairness of `Network`: a request under way is answered and the answer handled. A
failure (libp2p times requests out) is a fault that also gives an answer, a negative
one; faults, crashes and commands get no fairness. A user who does nothing more stops the system,
so deadlock is not checked.

### What is proved

`ArchiveProofs` proves, for any nodes, accounts, receipts and scenarios
(`ArchiveAssumption`: `Nil` is no account, the scenarios start with disks and
recovery codes of the right shape and configure known nodes):

| theorem | states |
| --- | --- |
| `IdentityIsTheAccounts` | `Spec => []IdentityMatchesAccount` |
| `SeatedIdentityIsStable` | `Spec => IdentityIsStable` |
| `ReplicasAreComplete` | `Spec => []ConfirmedIsHeld` |

For the first two, `IInv` adds to the property that a player at a table has an
identity and that identities and recovery codes are of accounts; one lemma per
function of `main.rs` says what it does to the identity and the pending restore. The third rests on `HInv`: a positive answer to a put that is still
under way comes from a node that holds the receipt. Answers are late and nodes
crash meanwhile, so it also needs that disks only grow (`GrowthKeeps`). That `put`
writes every index file before it answers is what makes the answer true.


## 8. The runtime and its clients: `SessionProjection`, `RuntimeSupervisor`

`SessionProjection` is what the runtime keeps of the worker's events: one event
per slot, which later events replace or withdraw. The Rust journal and the
JavaScript client fold the same events in the same way, so `Observe` stands for
both. `RuntimeSupervisor` has the journal, the actor, the worker processes, the
handler of each connection and the client's view.

The actor's handlers await between their steps, and other tasks run meanwhile.
`todo` is the sequence of steps it has left, so that appending to the journal and
broadcasting, or resetting the generation and stopping the old worker, are
separate steps, as they are in the code. A connection has its subscription
(`live`, with the capacity of the broadcast channel), the last sequence handed on
(`delivered`) and what the client has not read yet (`pipe`).

| run | instance | checks |
| --- | --- | --- |
| `runtime` | one client, workers with one of two sessions, any two faults | `TypeOK`, `JournalOfOneWorker`, `EveryEventArrives`, `ShowsTheSession`, `EndsUpCurrent` (liveness) |

Bounds: a fault is a worker that exits, a start, stop or bootstrap that fails, a
restart, an idle shutdown or a broken connection; two of them (`MaxFaults`) give
a restart whose client is cut off, or a worker that ends while another fault is
handled. `EventLimit`, `BroadcastCapacity`, `OutputCapacity` and `PipeCapacity`
are 1. With a journal of one entry the table is still current when its event has
been dropped, and the leave from the pool is dropped while a client is away. The
journal's bytes are not counted: its two limits evict in the same loop. The run
does not check for deadlock, because a client that has read everything waits.

`EndsUpCurrent` assumes weak fairness of all that runs by itself: the actor, the
tasks of the connections, a worker with something to print, and the client, which
attaches again at its next poll. Faults get no fairness.


## 9. Findings

| run | what the code does |
| --- | --- |
| `holdem4_fails` | a showdown whose highest pot was paid only by folded seats cannot be settled; the hand never gets a receipt |
| `table_leave_race` | a player who asks to leave after the roster of the next hand was agreed is counted in that hand but never plays it |
| `table_replaced` | a join that reaches the coordinator while a roster is half agreed makes a player start a second hand over the first, and lose both |
| `table_fork` | a join proposed before and after the end of a hand gives two certified memberships of one version |

Read in passing, without a run: the error text in `network/table_session.rs:956`
names a lifetime of up to 120 seconds where the limit is an hour (line 21);
`docs/MATCHMAKING.md` describes a match ticket of 120 seconds where the code has a
pool ticket of 60 minutes; `docs/HAND-PROTOCOL.md:49` names a `NextHandReady`
message that does not exist on the wire, the roster proposal takes its place.

Of the table: the check that a proposal moves nobody during a hand
(`table_session_runtime.rs:1939`) is made when the proposal arrives. With three
players seated and one leaving, a player can sign a membership without the leaver,
activate a roster with the leaver, and then receive the last signature of the
membership: it takes effect during the hand and drops a player of it. TLC found this
in 11 steps of `TableSession` with founders {1, 2, 3} and leaver 3, for the invariant
that the seats of an active roster are those of the membership. The project keeps no
run of it; the tables of the run `table` do not reach it.

Of the pool, read and met as exceptions of the properties: a player who asks to leave
during a join attempt is not let go when the attempt runs out; its pool may move it to
another table, where the leave is forgotten, or decide to create one, which
`main.rs:774` refuses, so that the pool stays in `Creating` until the forced leave.
A joiner whose host vanishes after acknowledging it stays where it is, where
`docs/MATCHMAKING.md` says that it searches again. A player who leaves a table and
returns within the lifetime of the leave intent is treated as leaving. The peers of a
hand stay retained after it, because the hand runtime retains on every tick and
never releases (the `met` of `LeasesAreOwned`).

Of the archive: changing the nodes during a remote restore forgets its requests, and
the restore stays pending; a failing backup under the same locator cancels a running
restore; a receipt whose fetch failed everywhere is not fetched again until the nodes
are changed; a temporary file that a crash left in a player's index directory makes
`list` fail from then on (`archive_runtime.rs:1037`); an identity created anew under a
locator is refused by nodes that hold the older envelope.

Of the client of the runtime, two. A client that attaches again to the
same generation is told, when events were dropped, that its identity, pool, room
and hand were restored from the projection (`sidecar-runtime.mjs:372`). What is
current is restored (`MissesNothing`), but the client does not reset what it
showed before, so something withdrawn meanwhile by a dropped event stays.
`MirrorsSession` leaves that client out, with the history `missed`; without this
exclusion TLC finds it: the pool still shown after it was left. And a
replay sends each projected event once, in order: statistics come before an
identity that was announced again later, which withdraws them from a client with
nothing else. That one is read from `observe`; no script has statistics.


## 10. What is not modelled

* Cryptography: proofs of shuffles and shares, signatures, certificates. Messages
  in the model are valid, and a card needs a share of everybody.
* Wire formats, encodings, sizes, room codes, log and event texts.
* Clocks: a timer is an action that may happen while its condition holds.
* Peers that deviate from the code, apart from a device that signs two actions.
* Of the pool: tickets (they order the players waiting to create a table; in the
  model any of them may), the limits on the size of the directory, direct
  synchronisation. Of the lease: the handler that turns the set into keep-alive.
* Of the archive: node signatures and pinned keys, the limits on entries per player
  and on envelopes, `P2pRemoteEventStore` (which the sidecar does not use).
* More than three players at a table: the limit on leave intents
  (`network/table_session.rs:526`) is translated, but three players do not reach it.
* The 24 attempts of a direct message, dialling, relay reservations and rendezvous
  registration: a connection may break and come back at any time, whatever the cause.
* Statistics: a sequential fold of the receipts that `Archive` has verified.
* Of the runtime: what a worker is sent, malformed frames, a client that asks for
  the shutdown, the death of the supervisor's own process.
* The user interface, installer and volunteer status: no state of their own that
  others depend on.

Liveness, and facts about sums and recursion over data, are model-checked only:
the proof system has neither temporal reasoning about fairness nor induction
over sets.
