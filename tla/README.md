# State channels: a TLA+ verification project

This project models the state-channel framework of this repository: the Solidity
contracts that open a channel, settle disputes and keep posted blocks
(`contracts/V1`), and the TypeScript client that plays the channel off-chain
(`src/`). Paths below are relative to the repository root.

## 1. Inventory of the system

### On-chain (`contracts/V1`)

| part | state it keeps | operations |
|---|---|---|
| `AStateChannelManagerProxy` (+ `MathStateChannelManagerProxy`) | `encodedStates`, `genesisTimestamps`, `latestFork`, `postedBlockCalldata` per channel | `openChannel`, `postBlockCalldata`, `joinChannelWithAgreement`, `leaveChannelWithAgreement`, `executeStateTransitionOnState` and the `onlySelf` wrappers around the application |
| `DisputeManagerFacet` (reached by `delegatecall`, same storage) | `disputes[channelId]`, one record per channel, reused | `createDispute`, `challengeDispute`, the seven fraud proofs, settlement of joins, slashes and timeouts |
| `StateChannelCommon`, `StateChannelManagerStorage` | none of their own / the storage layout | views and `setState`, the only place a fork is made |
| `StateChannelUtilLibrary` | none | signature recovery, thresholds |
| `AStateMachine` and `MathStateMachine` | the application's state | `stateTransition`, `joinChannel`, `slashParticipant`, `removeParticipant`, `getNextToWrite` |

A transaction is atomic: it commits or reverts. What is hard here is what a
*sequence* of transactions by several participants does to the one dispute
record, and the deadlines: each round applies the joins, slashes and the timeout
of all rounds to whatever state the last challenger claims.

### Off-chain (`src/`)

| part | state it keeps | operations |
|---|---|---|
| `StateManager` | the mutex, the lifetime of tasks | `playTransaction`, `onSignedBlock`, `onBlockConfirmation`, `setState`, `collectOnChainBlock`, `onDisputeUpdate`, timeouts and queue processing, all at await granularity |
| `ValidationService`, decision handlers | none | the pipeline from a signed block to a decision and what each decision does |
| `AgreementManager` with `ForkService`, `QueueService`, `OnChainTracker`, `BlockValidator`, `SignatureService` | forks and agreements, queues of early blocks and confirmations, posted blocks | `newFork`, `addBlock`, `confirmBlock`, the queues, `collect`, `getFinalizedAndLatestWithVotes` |
| `Mutex` | a flag and a queue of waiters | `lock`, `unlock` |
| `DisputeHandler`, `ProofManager` | disputed forks, local proofs, known disputes | `createDispute`, `onDispute`, `rechallengeRecursive`, construction and filtering of proofs |
| `EvmStateMachine`, `ContractExecuter` | an EVM with the application deployed | `setState`, `stateTransition`, views |
| `P2PManager`, `ProfileManager`, `InitHandshakeService`, `WebRTCSetupService`, transports | open connections, profiles by address and by transport, challenges, WebRTC connections being set up | connect, handshake, upgrade of a connection to WebRTC, disconnect |
| `JoinChannelService`, `SignatureCollectionMap` | the signatures of each join request, the queue of complete ones, the timers that prune | `onJoinChannelRequest` as request and as confirmation, pruning |
| `StateTransitionService`, `P2pSigner`, the RPC core | the sender of the last message | broadcast and dispatch of calls |
| `StateChannelEventListener` | filters | delivers contract events to the `StateManager` |
| `Clock` | an offset | chain time for the client |

How they interact: an author plays a transaction (`P2pSigner.sendTransaction` ->
`playTransaction`) and broadcasts the signed block; a peer executes it
(`onSignedBlock`), confirms it and broadcasts the confirmation
(`onBlockConfirmation`). If a participant misbehaves or is late, `DisputeHandler`
creates a dispute on the contract; the contract's `SetState` event makes every
peer start the next fork from the settled state, its `DisputeUpdated` event
makes every client look whether it has proofs against the record.

What is hard:

* the client is asynchronous JavaScript in which every `await` lets another task
  run; some tasks hold the mutex and some (`setState`, `onBlockConfirmation`,
  `collectOnChainBlock`, everything in `DisputeHandler` and the RPC services)
  do not;
* messages may be late, early, duplicated, or contradict each other;
* a transaction may revert because somebody else's was first, may be lost, and
  may commit without the client learning of it;
* the connection to a peer is replaced by another while both are in use, and
  the transport an answer goes to is read after an await;
* a join request is signed, passed on and pruned at every client in its own
  order, against participants that a dispute may change.

### What makes each part correct

* contracts: forks are numbered and never rewritten; a dispute runs until its
  deadline; whoever was slashed or timed out stays out, whatever later rounds
  claim; a joiner stays in; a settlement loses nobody of the state that was voted
  for; an honest participant is slashed for a known cause only; rounds run out;
  finality does not regress;
* client: the local chain is linked and executed, one block per height; a peer
  never disputes a block that is correct; the lock is always given back;
* disputes: what the client claims and proves would be accepted when it arrives;
  it restrains itself as the contract expects of an honest participant; a
  challenge hits the record it was made for; every call ends;
* connections: a peer is known by one transport; what closes a transport leaves no
  profile with it; what has ended is no longer used;
* joining: what is queued everybody signed; what is signed is pruned; the gossip
  of a request ends.

## 2. Modules

| module | models |
|---|---|
| `ChannelTypes` | states, blocks and the application (`AStateMachine` as `MathStateMachine` implements it) |
| `StateChannelManager` | the contracts' storage for one channel and every transaction on it; the clock; the signing of blocks as the environment |
| `MCStateChannelManager`, `SCM_*.cfg` | its instances for TLC |
| `StateChannelManagerProofs` | its inductive invariant and theorems |
| `StateManager` | one client: `StateManager`, validation, decision handlers, agreements, queues, the mutex, scheduled callbacks, and the parts of `DisputeHandler` and `P2pSigner` they call; network, chain, clock and user as the environment |
| `MCStateManager`, `SM_*.cfg` | its instances for TLC |
| `StateManagerProofs` | its inductive invariant and theorems, whatever arrives |
| `StateManagerHistoryProofs` | the history of forks and the timeouts, while the EVM follows the latest fork |
| `StateManagerHonestProofs` | what holds among honest participants, the EVM's following the fork included |
| `ChannelLedger` | what a client promises about what it has agreed to: an append-only ledger, the abstract specification of `StateManager` |
| `ChannelLedgerProofs` | that `StateManager` implements it |
| `DisputeHandler` | the clients' side of disputes, composed with the contracts (an instance of `StateChannelManager`), which it is checked to refine |
| `MCDisputeHandler`, `DH_*.cfg` | its instance for TLC |
| `DisputeHandlerProofs` | the inductive invariant of the composition, theorems about the clients, and the refinement |
| `Peer` | connections, handshake, profiles and the upgrade to WebRTC, at every client |
| `MCPeer`, `Peer_Upgrade.cfg` | its instance for TLC |
| `PeerProofs` | its inductive invariant and theorems |
| `JoinChannel` | the gathering of signatures for a join request, at every client |
| `MCJoinChannel`, `Join_Sign.cfg` | its instance for TLC |
| `JoinChannelProofs` | its inductive invariant and theorems |

Operators headed "Faulty variant" are plausible bugs of the operator that
follows them. Nothing uses them: they replace it to confirm that a property
notices.

### 2.1 The contracts: `StateChannelManager`

| variable | code |
|---|---|
| `latestFork`, `encodedStates`, `genesisTimestamps`, `postedBlockCalldata` | the mappings of `StateChannelManagerStorage` at one channel |
| `dispute` | `disputes[channelId]`, field by field |
| `now` | `block.timestamp` |
| `signed` | the signatures that exist anywhere; calldata can only carry those |
| `agreement` | what became of a `joinChannelWithAgreement` or `leaveChannelWithAgreement` |

Every transaction is one action, and every `require` a guard, because a
transaction commits as a whole or not at all. `CreateDispute` and
`ChallengeDispute` are whole handlers: the checks (`MayOpen`, `MayChallenge`),
`isFinalizedAndLatest`, the fraud proofs in their order (each a validity
condition, an effect, and whether it counts as a success), and the settlement
(`Settle`: joins, then slashes, then the timeout, then `setState`). The record
keeps what the code does not reset: `createDispute` inherits slashed
participants, votes and joiners of the dispute before.

Anyone may submit anything that can be assembled from existing signatures. A
participant in `Honest` restrains itself as the client does: `HonestSigns` (one
block per height, on top of what it signed, executed and stamped as the client
stamps), `HonestClaim` (its votes end with a block it signed, and without votes it claims
the genesis) and `HonestTimeout`. Two constants grade that restraint, because the
client does not live up to either: `Punctual` (an honest author writes within
`p2pTime`) and `StopsSigning` (a client signs nothing more in a fork once it timed
somebody out there). Every passing run with an honest participant has both FALSE.
They are TRUE in `SCM_OwnVote`, whose counterexample thus does not come from a
late or careless client. What others claim without any vote is taken from `ClaimedStates`; the
contract accepts every state there is, also one that leaves a participant out.

A double-sign proof carries one pair of blocks here and an array of them in the
code; several pairs are several proofs of one transaction. The one difference is
that the code goes on undoing the fold for every pair that follows a successful one.

A hash is modelled by the value hashed, a signature by membership in `signed`, the
application by a number and a set of participants, with the order of turns as
the operator `NextToWrite`. The deadline check of a signed join is the code's
(reversed) one. `OnlySelf` is false for every caller who is an address, so the
transactions by agreement revert, as they do in the code.

### 2.2 The client: `StateManager`

| variable | code |
|---|---|
| `machine` | the application's state in the EVM |
| `forks` | `ForkService.forks`: genesis, `chainBlocks` of `OnChainTracker`, agreements with their signers |
| `blockQ` | `QueueService.blockQ`, one block per fork, height and author |
| `disputedForks`, `disputes`, `raised` | `DisputeHandler`: forks it disputed, disputes it knows of, disputes it sent |
| `mutex`, `tasks` | `Mutex`, and the calls that are under way: where each stands, its block, the confirmer it came with, the dequeued blocks that follow |
| `wakeup`, `timers`, `pendingPosts` | the scheduled callbacks `queueProcessing`, `participantTimeout` and `maybePostBlockOnChain` |
| `posted`, `heard`, `nextEvent` | the chain, as far as this client reads it |
| `released` | the blocks this peer's signature was broadcast for |

**What is one step.** The client is single-threaded, and another event can only
run while a call waits for something outside: the mutex, the signer, an answer
of the chain, a timer. The application's EVM is in memory, so awaiting it runs
microtasks only. A step therefore reaches from one such wait to the next. The
waits are the values of `pc`: `lock`, `askChain` (`isGoodTimestamp` asks the
contract), `sign`, `playLock`, `seal` (`createBlock` signs). A task that was
just handed the mutex (`validate`, `play`) is a microtask: the guard `Drained`
makes it run before the event loop takes anything else.

**Actions.** `ReceiveBlock` is the arrival of a block at `onSignedBlock`; the
actions of `Validate` are the decisions of `validateSignedBlock` in the order of
its early returns, each with the whole decision handler and the `unlock` that
follows: `IgnoreBlock` (DISCONNECT, PAST_FORK, NOT_ENOUGH_TIME), `IgnoreDuplicate`,
`QueueBlock`, `RejectConflict`, `RejectBlock`, `RejectExecuted`, `RejectFuture`,
`AcceptBlock`, and `AcceptUnseen` for an exception that is taken for success.
`ConfirmBlock` and `ConfirmThrows` are the two ends of the handler of SUCCESS.
`ReceiveConfirmation` is `onBlockConfirmation`, `Play` and the actions of
`Author` are `sendTransaction` and `playTransaction`. `ProcessQueue`,
`CheckTimeout`, `TimeoutAnswered`, `DelayedTimeout` and `MaybePost` are
the callbacks. `SetState`, `DisputeUpdated`, `CollectBlock` and
`CollectThrows` handle the contract's events; none of them takes the mutex.
`DisputeUpdated` also stands for the end of `createDispute`, where the client
reads its dispute back.

The chain's answer is taken when the call goes on. The code's answer may be as old
as the question, in which case a block is refused that a fresher answer would have
allowed: to the rest of the model that is a message that came later. A transaction
that reverts in the EVM has no outcome of its own either: `RejectBlock` and
`PlayRefused` do what the code then does.

An exception that leaves a handler is an action of its own with what was done
up to it; `Abandon` leaves the mutex locked, as the code does when it throws
between `lock` and `unlock`.

### 2.3 Disputes: `DisputeHandler`

| variable | code |
|---|---|
| `now` and the storage variables | the contract's, as in section 2.1 |
| `emitted` | the records that `DisputeUpdated` events have carried; each may be delivered late, repeatedly or never |
| `signed` | the signatures that have been broadcast |
| `forks[p][f][h]` | the agreement of client `p` at a height of a fork: the block and who signed it |
| `disputedForks`, `localProofs`, `disputes` | the fields of `DisputeHandler`; of a known dispute only `challengeCnt`, which is all that is compared |
| `calls[p][k]` | the calls under way, with the transaction they have sent |

A call of `createDispute` or `onDispute` waits at `create` (the transaction of
`createNewDispute`), `read` (`getDispute` afterwards), `challenge` (the transaction
of `rechallengeRecursive`) or `reread` (`getDispute` after that). `CreateCommits`
and `ChallengeCommits` are the contract's own transactions, taken from the
instance `Contract`, carried out with exactly the claim, the proofs and the count
the client sent when it sent them; `CreateFails` and `ChallengeFails` are a
revert or a loss, possible in every state. A commit may lack its receipt, after
which `retry` sends the same transaction again. `FinalizedAndLatestWithVotes`
and the proofs are translated from `AgreementManager` and `ProofManager`,
`IsProofValid` is `filterValidProofs` with its comparison that never holds, and
`Decodes` says which proofs the contract can read: three kinds are encoded with
`string` where it decodes `bytes`.

What `StateManager` notices are the actions of `Notice`: a double sign, a block
that does not execute, a block too far ahead, a participant that is late, an
event. What it does with blocks is `Play`, coarser than in section 2.2: a block
enters the chain and is confirmed in two steps, between which anything may
happen, and the confirmation goes out even if the fork was disputed meanwhile.

### 2.4 Connections: `Peer`

`peers[c]` is the state of one client: `openConnections`, the transports it
closed and those reported as closed, `challenges` of `InitHandshakeService`,
`profileOf` and `profiles` of `ProfileManager`, `senderTransport` of the RPC
core, the awaits it is in (`signing`, `offering`, `answering`, `candidates`),
`connectionMap` of `WebRTCSetupService`, and `unanswered`, the connections with a
local offer, which are the only ones that an answer can be applied to. `wires[l][c]` is what is under way over a
connection: in order on one, in any order between two. `ended` are the
connections closed at an end or broken, `negotiated` the WebRTC connections both
sides have described.

A handler runs up to its await in one step: `OnInitHandshakeRequest` notes the
challenge and signs, `AnswerHandshake` sends, to whichever transport
`senderTransport` names by then, as the code does. What a wrongly delivered answer
recovers to is an address nobody has (`Recovered`). Every response that qualifies
initiates another upgrade, the first as well as a misrouted or repeated one: the
connections are numbered by the client that made them (`Upgrade(d, c, i)`), both
ends may make them, and `MaxUpgrades` bounds their number only. An answer is
applied to whichever connection `connectionMap` holds for its sender by then; it
completes its own one and spends the offer of any other. `Close`, `RemoveTransport`,
`RemoveConnection`, `UpdateTransport` are functions from a client's state to
its next one, because the code calls them from inside each other.

### 2.5 Joining: `JoinChannel`

`joinChannelMap`, `joinChannelQueue` and the timers are those of
`JoinChannelService` at each client, `calls` the handlers that wait for a
signature (`sign`) or for the participants (`confirm`), `wires` bags of messages.
`Receive` decides by what the map says when the message arrives; `Signed` and
`Confirmed` go on by what it says then. Losing a message is leaving it in the bag.

### 2.6 How they meet

All modules but `Peer` and `JoinChannel` share `ChannelTypes`.

`DisputeHandler` contains `Contract == INSTANCE StateChannelManager WITH
agreement <- "none"`, with the storage, the clock and the signatures as they are
(no transaction by agreement is ever sent by a client). Its property
`ImplementsContract` says that every step of the clients and of the other
participants is a step of that module or leaves its variables alone. As
`StateChannelManager` restrains the participants in `Honest`, this also says
that the client as written keeps to `HonestSigns`, `HonestClaim` and
`HonestTimeout`, which the contract runs assume. TLC checks it in `DH_Disputes`,
and `DisputeHandlerProofs` proves it step by step (section 5.3).

`ChannelLedger` has two variables, the ledger and the signed blocks, and three
actions: the chain starts a fork; a block of the author whose turn it is, leading to
the state it claims, takes the next place of its fork; signatures are added under a
block, the client's own at most once. A block of its own the client signs in the step
that adds it. `StateManager` maps to it by `LedgerOf(forks)`, the forks without the
posts seen on the chain, and `released`; everything else (messages, calls, mutex,
EVM, timers, disputes) is invisible. Its property `ImplementsLedger` is the
specification of that module. That nothing is ever taken back, that the forks
are in order and that nothing is signed which is not in the chain can be read off
the three actions.

`StateManager` models the contract as its environment: `SetState` may carry any
settled state with times that do not run backwards, which is `ForksInOrder` of
`StateChannelManager`; conversely `NeverDoubleSigns`, `AgreedBlocksExecute` and
`ChainLinked` justify the coarser client of `DisputeHandler`.

## 3. Runs

All runs use the modules as they are; a cfg only gives constants their values.
`CHECK_DEADLOCK FALSE` is set everywhere because a bounded system stops: the
clock, the forks, the requests and the posts reach their bounds.

| run | instance | shows |
|---|---|---|
| `SCM_Fraud` | two or three founders who sign and claim anything, a state without one of them too; two conflicting first blocks, an application that lets 3 join, two proofs per transaction: joins, double signs, folds of prior blocks, newer states | `TypeOK`, `ForkAccounting`, `ExpelledStayOut`, `ClaimantNotSlashed`, `JoinersTakePart`, `SettlementLosesNobody`, `DisputeRunsItsCourse` |
| `SCM_Honest` | 2 of three participants runs the client, the others do what they like: blocks of the first fork and of the one without 1, in time and late, timeouts, rechallenged folds, posts, double signs, wrong data, newer states, blocks ahead of time, a claim that leaves 1 out, two disputes | `LatestForkIsSettlement`, `ForksInOrder`, `ChallengesArePaidFor`, `ForksAreImmutable`, `SlashedForCause` |
| `SCM_OwnVote` | an honest participant, NewerState proofs | refutes `HonestNotSlashed` |
| `SM_Hostile` | three calls at once; a peer that sends, posts and repeats wrong, early and conflicting blocks; signer and chain may fail; the user plays out of turn | `TypeOK`, `LockDiscipline`, `AgreedBlocksExecute`, `NeverDoubleSigns`, `StandsByItsBlocks` |
| `SM_Forks` | a second fork is settled at any moment; posts of both forks; timeouts | `ChainInOrder`, `TimeoutsAreDue`, `ImplementsLedger` |
| `SM_Honest` | three honest participants; blocks, confirmations and posts in any order and repeatedly; fair event loop | `MachineFollowsFork`, `ChainLinked`, `NoFraudAmongHonest`, `LockIsHeld`, `WaiterGetsLock`, `QueuedIsPlayed` |
| `SM_LockLeak` | a block stamped ahead of its time, out of turn | refutes `LockIsHeld` |
| `SM_LostConfirmation` | a confirmation that arrives before its block | refutes `EarlyConfirmationsCount` |
| `DH_Disputes` | one client with its calls to the contract, two participants who sign, post, dispute and challenge as they like, lost and repeated transactions and events | `TypeOK`, `ClaimsStand`, `EvidenceSuffices`, `RecordsAreNamed`, `ImplementsContract`, `CallsEnd` |
| `DH_Challenge` | the same instance | refutes `ChallengesHitTheirTarget` |
| `Peer_Upgrade` | two clients, a connection and up to two upgrades of it, one of which may break, answers that are late or over the wrong connection, a client that leaves; ended connections are reported | `TypeOK`, `OneTransportPerPeer`, `NeverReplacesItself`, `EndedGoes` |
| `Join_Sign` | two participants and an applicant, a request that expires, a participant that is taken out | `TypeOK`, `SignedIsPruned`, `EchoesBounded`, `QueuedByAll` |

**Bounds of the contract runs.** `MaxFork = 3` allows a dispute, its challenges
and the beginning of the next dispute, which is what the reused record needs to go
wrong. `MaxVotes`, `MaxProofs` and `MaxSignatures` bound one transaction's
calldata and the signatures in existence: a double sign needs two signatures
of one signer, a finalized block one of each participant. `P2pTime` and
`ChallengeTime` are one unit, so `MaxTime = 2` reaches, meets and passes a deadline.
In `SCM_Honest` the clock goes to 3, so that one dispute can follow another and a
block can be too late as well as too early, and three signatures are what the longest
way to a slash takes: a finished block of the folded height. With any one of the three
causes left out of `SlashedForCause`, TLC finds a violation there. FoldPriorBlock and
JoinChannel, which slash nobody, are left to `SCM_Fraud`, because
`ChallengesArePaidFor` exempts them; the theorem on `SlashedForCause` includes them.
Addresses are ordered, and turns follow that order, so there is no symmetry.

**Bounds of the client runs.** `Tasks` bounds the calls under way: two can
contend for the mutex, three make a queue in which order and wake-up matter. The
tasks are interchangeable, hence `SYMMETRY` where only safety is checked.
`Messages` and `Confirmations` are never consumed: each may arrive any number of
times, which is loss, duplication and reordering. `MaxNumber` stops new calls
when the application has advanced so far. `MaxPosted = 1` suffices for a post
to race its block, its timeout and its echo. Timer callbacks that would be due
after `MaxTime` are not scheduled.

**Bounds of the dispute runs.** Client 2 sits between two others. There are four
blocks: two first ones that conflict, of which one does not execute, the client's
own second, and one by 3, out of its turn and stamped ahead. 1 signs both first
blocks, so every proof the client has can come up: a double sign, data that does
not execute, a block too far ahead, and the timeout of a silent peer; `MaxFork = 3`
leaves room for challenges by both sides and for another's dispute in between.
One call at a time suffices for races with other participants' transactions;
calls of one client share nothing but sets that only grow.

**Bounds of the others.** In `Peer_Upgrade` one dialled connection is what the code
makes of a pair of peers: Hyperswarm keeps one connection per pair. One of the two
prefers WebRTC, which starts the upgrade. `Trickling` says whose connections find ICE
candidates, which is what moves the other end's `senderTransport` while an answer is
being signed. `MaxUpgrades` gives the client of the lower address two upgrades
(`TwoByFirst`): the second is initiated by an answer that went over the Holepunch
connection although it was meant for the WebRTC one. The other client initiates only
when an answer meant for it goes astray, which takes candidates of its own: that, and more upgrades, is left to the theorem on
`OneTransportPerPeer`. (With candidates of both ends, but no breaks, TLC finds the
first three properties kept too.) A response that would initiate one more
than `MaxUpgrades` stays undelivered or is refused as late. In
`Join_Sign`, a single request already meets itself: every client passes it on,
so copies, confirmations and the expiry race; two participants make a signature
of another client, and not only one's own, necessary for completeness.

**Fairness.** `SM_Honest` and `SM_LostConfirmation` use `FairSpec` of
`StateManager`. A call whose promise is settled is resumed: weak fairness of
each task's steps, justified by the event loop and, in an instance with
`Reliable = TRUE`, by a signer and a chain that answer. The queue callback is
strongly fair: JavaScript timers that are due get their turn between messages,
but in the model the task it needs may be busy in between. `DH_Disputes` assumes
weak fairness of the steps of each call: every transaction and every question is
answered, be it by an error, which a provider's timeout guarantees. `Peer_Upgrade`
assumes that a connection which has ended is reported to both ends, by its close
event. The network, the user, the other participants, the clock and the
contract's events are not fair at all.

## 4. Divergences met while modelling

Four runs refute what a comment, a document or an assertion of the repository
says (`SCM_OwnVote`, `SM_LockLeak`, `SM_LostConfirmation`, `DH_Challenge`);
`PROJECT.json` quotes the lines. The modules contain the following behaviours
too, which have no run of their own.

Contracts:

* `createDispute` reuses the storage record, so a second dispute starts with the
  slashed participants of the first, although the comment at
  `DisputeManagerFacet.sol:204` calls the array "default empty".
* `applyDisputeToLatestState` replaces `processExits` in every round, also when
  the exits of the round before were not processed, although `DisputeTypes.sol:34`
  says they are processed once the dispute is finalized. `SettlementLosesNobody`
  therefore speaks of the dispute on record only.
* Exits are computed only for whom the settlement expels itself. A claim without votes
  may be any state (`isFinalizedAndLatest`, lines 867-934), and one with votes is any
  state that the author of the last block signed: whoever has no seat there is gone
  without an exit. TLC shows the first with three participants and no block at all:
  2 claims a state without 1 in order to time 3 out, and 1 is neither in the next fork
  nor among `processExits`.
* Whoever signed a join must be past its deadline for the join to be accepted: the
  comparison at line 792 is the wrong way round (`JoinChannelValid`).
* `challengeDispute` compares heights with the first vote on record, which is not
  the finalized block when the claim was the genesis: a finalized state can be
  replaced by the older genesis in spite of
  `ErrorChallengeNewFinalizedBeforeOldFinalized`. A dispute without votes cannot
  be challenged at all: there is no first vote to read (line 267).
* `joinChannelWithAgreement` and `leaveChannelWithAgreement` always revert: they
  reach functions that are `onlySelf` by an internal call.
* A block stamped later than its window allows is fraud to the contract (lines
  705-746), but an honest author who plays late stamps just that
  (`adjustTimestampIfNeeded`, `StateManager.ts:573-579`). Such a stamp is one of the
  three causes of `SlashedForCause`, as is one past the clock, which the client makes
  when its own clock is behind its predecessor's.
* IncorrectData pairs a block with any author-signed block of the fork that leads to
  the same state, also with one stamped differently from the one it was built on.
* FoldRechallenge slashes the recorded `timeoutDisputer`, who may be left from an
  earlier round or dispute, whatever it claimed since: the second cause of
  `SlashedForCause`. The third is the claim whose last vote the disputer's own
  signature reaches (`SCM_OwnVote`).

`StateManager`:

* `isGoodTimestamp` throws "Not implemented" for a block stamped before its
  predecessor; the default flag is SUCCESS, so the block is signed without being
  executed, `confirmBlock` throws, and the mutex stays locked (`AcceptUnseen`).
* `sendTransaction` makes the header before it waits for the mutex; if the height
  is taken meanwhile, `addBlock` throws after the EVM has moved (`PlayThrows`).
* `setState` does not take the mutex. A block that waits in `isGoodTimestamp`
  while it runs is executed on the new fork's state and added to the old fork,
  although `types.ts:12` says the users follow the state machine set by the latest
  fork. `MachineFollowsFork` is therefore checked in an instance with one fork. A
  timeout set then is about the new fork's first block and names whoever the old
  fork's state has in turn, so with three participants `TimeoutsAreDue` fails too.
* `tryTimeoutParticipant` looks at the chain before it waits and not after, so
  a participant whose block arrived during the delay is accused (`DelayedTimeout`).
  A timeout set while the peer seals its own block names the next participant at
  the height of the peer's own block (lines 496-515); `TimeoutsAreDue` leaves that
  case out.
* `createRegularBlockIncorrectDataProof` looks for the state at the height of the
  rejected block, where there is none, so such a block is never disputed
  (`CanProveIncorrect`).
* A fork whose number is not the next one is dropped (`ForkService.ts:23`): a client
  that missed or never heard the first one has no forks from then on.
* `getLatestForkCnt` is 0 without any fork, so an authentic first block that
  precedes its `SetState` event is dropped, not queued (`Decision`).

`DisputeHandler` and `ProofManager`:

* The proofs of kind FoldRechallenge, NewerState and IncorrectData are encoded
  with the ABI type `string` for what the contract decodes as `bytes`; every
  transaction that carries one reverts (`Decodes`). What remains to a client is
  DoubleSign and BlockTooFarInFuture. The encoder of FoldPriorBlock names a field
  the proof does not have, and nothing calls it.
* `isFoldRechallengeValid` compares a number with a bigint by `===`, so a folded
  block is never rechallenged. The blocks of an IncorrectData proof are in the
  reverse of the order the contract reads.
* `shouldUpdateDispute` returns early for a count the client has, so a proof found
  after that waits for the next challenge of somebody else.
* The timed-out participant is compared with "0x00", which no address is, to find
  out whether there is one.
* BlockTooFarInFuture is noticed only in the client's own turn and for a block of
  somebody else.
* `createDispute` is tried twice and given up while the fork stays marked as
  disputed: the client then confirms nothing of it any more.
* A client that timed a peer out while it was executing the peer's block confirms
  that block afterwards, and it keeps playing its own turns in the disputed fork,
  as the TODO at `DisputeHandler.ts:158` concedes. The signature can contradict
  the timeout it claimed: hence the constant `StopsSigning`.

`Peer` (the handshake and its services):

* The answer to a handshake request and every ICE candidate go to the sender of
  the last message at that moment (`InitHandshakeService.ts:66`), which another
  connection may have become: the answer then recovers to an address nobody has,
  and a profile is made for it. If that address is above the client's own, and the
  answer came over the Holepunch connection, it initiates another upgrade over the same
  connection; both ends may then initiate, and answers may be
  applied to another connection than theirs, whose offer they spend.
* With several upgrades of one connection the two ends may introduce them in different
  orders: each end closes the transport that the other one keeps, and no
  contact is left, or a misrouted response leaves the Holepunch connection in
  use. The code promises neither that the contact survives nor that the old connection
  goes, and no property here says so; that the first takes three upgrades at least is
  what a search of smaller instances with TLC suggests.
* A response that is late, or for a transport without a profile, takes the
  connection out of `openConnections` without closing it; the request that came
  too late is never answered (lines 35-50, 77-100).
* An offer that arrives before the profile of its sender is dropped, and the
  upgrade never happens.
* Data that was under way on a Holepunch connection when it closed may register
  a profile for it again.
* Were a pair of peers to have two dialled connections, the two ends could replace
  them in opposite order and close both. Hyperswarm keeps one per pair, and the
  instance does too.

`JoinChannel`:

* A client files its own signature under the address of whoever wants to join
  (`JoinChannelService.ts:45`), so participants who signed are not counted as
  signers of their own map: none of them ever finds a request complete, only
  clients outside the channel do. Nothing reads the queue of complete requests.
* Two copies of a request that arrive before the first is signed are both signed
  and both passed on; with `n` clients one request comes to at most
  `2^(n-1) - 1` signatures of one client (`EchoesBounded`).
* A confirmation that arrives before its request is taken for the request, and
  what it confirms is lost. One that awaits the participants while the request is pruned puts
  it back, with no timer, in spite of the comment at line 26: in the instance of `Join_Sign`
  TLC finds such an entry after ten steps. `SignedIsPruned`
  therefore speaks of requests that hold the client's signature.
* Each confirmation after a request is complete queues it again.

## 5. Proofs

Every module of section 2.1 to 2.5 has theorems, the client four modules of them.
All of them hold for every set of addresses, clients, connections, calls and
requests, all blocks, messages, times and bounds that the named assumptions of the
modules allow; what a theorem asks beyond those stands in its `ASSUME`, or in front
of its implication, and is named below.

Each model has one invariant that is inductive, `IInv`, and a theorem
`Invariance`; the properties follow from it. Lemmas come first by data (what a
chain, a bag, a map or a profile becomes under one operator of the model), then
one per action.

### 5.1 `StateChannelManagerProofs`

Type correctness, `ForkAccounting`, `LatestForkIsSettlement`, `ExpelledStayOut`,
`ClaimantNotSlashed`, `ForksInOrder`, `JoinersTakePart`, `ChallengesArePaidFor`,
`SettlementLosesNobody`, and the action properties `ForksAreImmutable`,
`DisputeRunsItsCourse` and `SlashedForCause`. None has a hypothesis: they hold for all
kinds of proofs, all states anyone may claim, and both values of `Punctual` and
`StopsSigning`, and leave `NextToWrite` unconstrained.

`IInv` is the type invariant, seven of the safety properties, `Opened` (no fork
is made before the channel is opened, which `OpenChannel` would otherwise
overwrite), and that the votes on record are about forks that have started.
`LatestForkIsSettlement` and `ForksInOrder` need `ForkAccounting` and
`Opened`, and `ExpelledStayOut` survives a round only because the settlement starts
from a record whose slashed participants include those of the rounds before. The
lemmas follow the code: what one fraud proof may do to a record
(`ApplyProofLemma`), what a settlement makes of any record, then one lemma per
transaction. `ChallengesArePaidFor` has an induction of its own on top of `IInv`:
a round adds one to the count and at least one to the slashed participants,
whose cardinality is finite.

`ExitsAreOwed` proves `SettlementLosesNobody`: whoever sits in the state that the last
vote on record leads to, or was let in by a proof, plays on or is owed an exit.
It starts from the votes and not from the disputed fork's participants, because
nothing keeps a claim from leaving one of those out (section 4).

`HonestSlashedForCause` proves `SlashedForCause`. Its invariant is `HonestPlay`: a
client signs one block per height, and only blocks that execute, which rules out
double signatures and the execution half of IncorrectData. What remains of the seven
kinds is matched, proof by proof, to the three causes that the property names, against
the record as it is when the second proof of a transaction is applied. That these
causes exist is what the code allows (section 4), not a premise of the theorem.

### 5.2 The client

**`StateManagerProofs`**: `ChainInOrder`, `AgreedBlocksExecute`, `NeverDoubleSigns`,
`StandsByItsBlocks`, `LockDiscipline` and the type invariant, for any number of calls,
messages, settled forks and posts, with a reliable or unreliable signer and chain, a
careful or careless user.

None of them is inductive. The invariant ties them to where each call stands:

* `LockDiscipline`: a call between `lock` and `unlock` is alone. Without it another
  one could append to the fork a call has validated its block against.
* `TaskInv`: a call that waits for the chain (`askChain`) still has its place at the
  end of its own fork, even if `setState` moved to a new one meanwhile; what is to be
  sealed is faithful; a block under the peer's own name is in progress only if the
  peer released it or is writing it.
* `Releases`: what was released is in the chain, and whatever else carries the
  peer's name in queue, posts and timers was released by it. This is where
  `NeverDoubleSigns` comes from: an echo of an own block never is a second one.
* `Ordered`: agreements are at the place of their block and are faithful (right
  author, right state). `NotAccused`: no accusation, and no timer, names the peer.

The type invariant has one hypothesis, `WritersAreAddresses`: `getNextToWrite`
returns an address or nobody, as its Solidity type says; an accusation of
timeout carries that result. The other theorems do not need it.

**`ChannelLedgerProofs`**: `ImplementsLedger`, without any hypothesis. The lemmas
map what a step does to `forks` (`addBlock`, `confirmBlock`, `newFork`, a post that is
recorded) to the ledger's actions. That a block the peer accepts is not its own comes
from `Releases`, and that it takes the next place, after any wait, from `TaskInv`.

**`StateManagerHistoryProofs`**: `Spec /\ []Steady => []ChainLinked` and the same for
`TimeoutsAreDue`. `Steady` is `MachineFollowsFork` and `Undisturbed`: no fork is
settled while a call waits, with a block of the fork before, for the chain's answer
or for the signature of a block it seals. Both parts name what the code itself does
not prevent (section 4): an exception after the EVM has executed leaves it ahead of
the chain, and `setState` takes no mutex. With either of them gone the next block
commits to a state that is not the chain's. Even honest participants come to that: a
call asks the chain about a block of fork 0, fork 1 is settled with the same state,
and the call then executes its block on the state of fork 1 and adds it to fork 0
(TLC shows it with two forks and `P2pTime = 0`).

* `Chained`: the blocks of a fork commit to one another's states, and no later block
  is older than an earlier one. `CallInv` carries it over the waits: what waits for
  the chain is not older than the fork's latest, what is sealed extends it.
* `TimerInv`: a timer is about the next place of its fork or one that is taken
  since, names the writer after the block before, and is due a whole window after that
  block. Its last stage keeps its own time because nothing is looked at again after
  the delay; `DueInv` says the same of an accusation. Time along a fork is
  needed, because `tryTimeoutParticipant` measures from the fork's *latest* block, and
  the property from the one before the accused turn.

**`StateManagerHonestProofs`**: `MachineFollowsFork`, `NoFraudAmongHonest`,
`LockIsHeld`, each as `ASSUME WellBehaved PROVE Spec /\ []AmongHonest => []P`, and
`HonestHistory`, which combines them with the module before: among honest
participants `ChainLinked` and `TimeoutsAreDue` need no condition on the EVM.

* `WellBehaved`, of the constants: the user plays one transaction at a time and only in
  turn, the signer and the chain answer, nobody confirms in the peer's name. Without
  the first two the EVM may stay ahead of the chain, or the mutex locked, as section 4
  tells: an exception between `lock` and `unlock` is not made up for.
* `AmongHonest`, of the states: `Undisturbed`, and every block that is validated or
  posted is `Rightful` (where its place is taken it is the block of the chain,
  where its place is the next it continues the history and executes) and `Timely`
  (it is not older than the block before, and within the window by the chain's answer).
  `SM_LockLeak` shows why stamps must be honest too. It says nothing of the order
  in which blocks, confirmations, posts and their echoes arrive, of how often, or of
  which calls are under way: that is what the theorems are about.

TLC confirms `AmongHonest` and the invariant `PeerInv` in every state of the instance
of `SM_Honest`, so the hypotheses are met by what honest participants do. `PeerInv`
adds to the three properties that one call at most plays (`OnePlays`), that forks are
set in the order of their events (`InSequence`), and what is true of a call that is
writing (`WriteInv`): its header is for the next place, at the peer's turn; what it
seals has that place, with the EVM at its state; and what is about to be confirmed
can be confirmed. That no exception leaves the mutex locked follows from the last.

### 5.3 `DisputeHandlerProofs`

The type invariant, `RecordsAreNamed`, `ClaimsStand`, `EvidenceSuffices` and the
refinement `ImplementsContract`, all with `WritersAreAddresses`. The invariant is a
conjunction of

* `World`: the contracts' type invariant and `ForkAccounting`; posts and emitted
  records come from the past, and the emitted records are in the order of fork and
  count, the last of them the standing one (`Precedes`). That order is why
  `RecordsAreNamed` survives the reuse of the storage record.
* `ForksOK`: every chain of a client is executed from its fork's genesis, vouched
  for by all recorded signers and confirmed by the client up to the last block but
  one; its states only grow, so a chain that is back in its genesis state never
  left it, which settles the comparison of states where the code means heights.
* `SignedOK`: a client signs what it has in a chain. `HandlersOK`: of every call
  whose transaction is under way, what the contract will ask of its claim
  (`ClaimOK`) and of its proofs (`Convicts`) holds, whenever it gets there.

The theorems about the contract cannot be cited here, since tlapm does not carry
theorems over to an instance: what is needed of them is proved again with the
prefix `Contract!`.

`ImplementsContractHolds` maps a step of a client that signs to `SignBlock` with
`HonestSigns`, a commit to `CreateDispute` or `ChallengeDispute` with `HonestClaim`
and `HonestTimeout`, the environment's steps to themselves, and everything else
to a stutter. Beyond `WritersAreAddresses` it asks for `ClientsFit`: the contract's
model accepts both kinds of proofs that a client's encoder gets right, two in one
transaction (`MaxProofs > 1`), and does not pretend that the client stops signing
after a timeout (`StopsSigning = FALSE`, see section 4). Each is a fact of the
code, where transactions are not bounded. `DH_Disputes` bounds a transaction to
one proof (`MaxProofs = 1`): in that instance no client ever has two, and two
take TLC longer than a run should. With `ImplementsContractHolds` the theorems of
section 5.1 that hold for both switches hold of the composition.

A least counterexample replaces induction where a chain is followed from its
beginning (`Least`, `LatestLemma`, from the well-foundedness of the natural
numbers), because the induction rules of the library cannot be used.

### 5.4 `PeerProofs` and `JoinChannelProofs`

`Peer`: the type invariant and `OneTransportPerPeer`. The invariant says of every
client that profiles and transports lead back to each other (`LeadsBack`), that it
keeps only its own connections (`Own`), and of every connection that what is under
way over it is one of the five messages (`WiresInv`). The links are arbitrary dialled
connections, several per pair of clients included, each with any number of
upgrades by both ends.

`JoinChannel`: the type invariant, `SignedIsPruned` and the action property
`QueuedByAll`. The invariant says what files, messages and calls carry: a signature
is under its signer's address or the applicant's (`Filed`), nobody is handed its own
confirmation, and a call that confirms has one (`Carried`). `QueuedByAll` exempts the
applicant, under whose address a client files its own signature (section 4).

### 5.5 Only model-checked

* `CallsEnd`, `WaiterGetsLock`, `QueuedIsPlayed`, `EndedGoes`: they depend on
  fairness, which is out of the prover's reach.
* `EchoesBounded`: it counts the copies of a request along all orders of clients,
  an induction over data.
* `NeverReplacesItself`: it needs that every challenge is answered at most once, a count
  over messages under way and handlers that wait.

## 6. Not modelled

* `disputeFoldRechallenge`, `disputeFoldPriorBlock`, `disputeBlockTooFarInFuture`
  and the proofs only they make: nothing in the repository calls them. The
  contract accepts those proofs, and `StateChannelManager` models that.
* `Clock.syncClock`: it runs once, before a channel is opened, and asks the chain
  for its time. (It divides by the number of blocks it saw, which may be none;
  the offset is then not a number, and is taken over once.)
* The deployment of the application into the embedded EVM (`EvmStateMachine`,
  `p2pSetup`), contract deployment scripts, ABI encoding, gas, logging and the
  framing of RPC messages: they keep no state of the channel.
* `DHTDiscoveryService`, a stub; the TEST service, `LocalTransport` and
  `LocalDiscovery`, which serve tests; topics, relays and reconnecting of
  Hyperswarm.
* Two `SetState` events of one poll interleave their calls to the EVM; the model
  handles an event's EVM calls at once. An unhandled promise rejection may end a
  Node process; the model lets the client live on. Success callbacks of the
  application, and `dispose`.
* A confirmation that waited for its block is recorded right after the unlock in
  the code, together with it in the model: no other event runs in between.
* The example applications.

## 7. Plan

In this order.

1. `NeverReplacesItself`, from the invariant that each challenge has one request,
   one signing or one response, and none of them once it was used.
2. Two clients composed on one network, to discharge the environment assumptions
   of `StateManager`: `Rightful` and `Timely` of what the other one sends.
3. An instance of `StateManager` that starts at a later fork than the client knows,
   with a property about what it then may still do.
