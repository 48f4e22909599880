---------------------------- MODULE StateManager ----------------------------
(***************************************************************************)
(* The off-chain half of a state channel: one peer that runs the client.   *)
(* StateManager with its ValidationService and decision handlers, the      *)
(* AgreementManager (ForkService, QueueService, OnChainTracker,            *)
(* BlockValidator), the Mutex, and what the DisputeHandler and P2pSigner   *)
(* do on their behalf.                                                     *)
(*                                                                         *)
(* The client is JavaScript.  A call runs until it waits for the mutex,    *)
(* for a signature, for an answer of the chain or for a timer; the         *)
(* application's EVM lives in memory, so awaiting it lets no other event   *)
(* in.  A call that is under way is a task; a task the mutex was just      *)
(* handed to runs before the event loop takes the next event (Drained).    *)
(*                                                                         *)
(* The environment is the network, which delivers signed blocks and        *)
(* confirmations in any order and any number of times, the chain with its  *)
(* events and answers, the clock, and the user who plays transactions.     *)
(***************************************************************************)
EXTENDS ChannelTypes

CONSTANTS
    Me,               \* signerAddress
    Tasks,            \* the calls that may be under way at once
    Amounts,          \* the transactions the user may play
    Careful,          \* does the user play one at a time, and only in turn
    Reliable,         \* do the signer and the chain answer every question
    Messages,         \* the signed blocks that peers may send
    Confirmations,    \* the confirmations that peers may send
    Settlements,      \* what SetState events may carry: a state and its time
    FirstFork,        \* the fork of the first SetState event that is heard
    P2pTime, AgreementTime, ChainFallbackTime,
    TolerancePast, ToleranceFuture,         \* of subjectiveTimingFlag
    MaxTime, MaxFork, MaxNumber, MaxPosted  \* bounds

VARIABLES
    now,              \* Clock.getTimeInSeconds, and the chain's clock
    machine,          \* the application's state in the EVM
    forks,            \* ForkService.forks
    blockQ,           \* QueueService.blockQ
    disputedForks,    \* DisputeHandler.disputedForks
    disputes,         \* the forks DisputeHandler.disputes knows a dispute of
    raised,           \* the disputes this peer sent to the chain
    released,         \* the blocks a signature of this peer was broadcast for
    mutex,            \* Mutex
    tasks,            \* the calls under way
    wakeup,           \* is the queueProcessing callback scheduled
    timers,           \* the participantTimeout callbacks and their stages
    pendingPosts,     \* the maybePostBlockOnChain callbacks
    posted,           \* the block calldata on the chain
    heard,            \* the part of it whose event was handled
    nextEvent         \* the fork of the next SetState event

agreement == <<machine, forks, blockQ>>
disputing == <<disputedForks, disputes, raised>>
running   == <<mutex, tasks>>
callbacks == <<wakeup, timers, pendingPosts>>
chain     == <<posted, heard, nextEvent>>
vars == <<now, agreement, disputing, released, running, callbacks, chain>>

SignedBlock  == [signer : Addr, block : Block]
Settlement   == [state : State, timestamp : Nat]
Confirmation == [signer : Addr, block : Block, confirmer : Addr]

ASSUME MeAssumption == Me \in Addr /\ Careful \in BOOLEAN /\ Reliable \in BOOLEAN
ASSUME TasksAssumption == IsFiniteSet(Tasks)
ASSUME InputsAssumption ==
    /\ Amounts \subseteq Nat
    /\ Messages \subseteq SignedBlock
    /\ Confirmations \subseteq Confirmation
    /\ Settlements \subseteq Settlement
    /\ \A e \in Settlements : e.state.participants # {}
ASSUME ClientTimesAssumption ==
    {P2pTime, AgreementTime, ChainFallbackTime, TolerancePast, ToleranceFuture}
        \subseteq Nat
ASSUME ClientBoundsAssumption ==
    {FirstFork, MaxTime, MaxFork, MaxNumber, MaxPosted} \subseteq Nat

TimeoutWaitTime == P2pTime + AgreementTime + ChainFallbackTime

MaxOf(m, n) == IF m > n THEN m ELSE n

-----------------------------------------------------------------------------
(* ForkService and BlockValidator: what the peer agreed to.  forks[f + 1]  *)
(* is fork f; agreements[h + 1] is its block of height h.                  *)

LatestForkCnt == IF forks = <<>> THEN 0 ELSE Len(forks) - 1

IsValidForkCnt(f) == f < Len(forks)

Fork(f) == forks[f + 1]

Agreed(f, h) == IsValidForkCnt(f) /\ h < Len(Fork(f).agreements)

AgreementAt(f, h) == Fork(f).agreements[h + 1]

NextBlockHeight == IF forks = <<>> THEN 0 ELSE Len(Fork(LatestForkCnt).agreements)

IsParticipantInLatestFork(a) ==
    forks # <<>> /\ a \in Fork(LatestForkCnt).genesis.participants

IsBlockInChain(b) ==
    /\ Agreed(b.forkCnt, b.transactionCnt)
    /\ AgreementAt(b.forkCnt, b.transactionCnt).block = b

IsBlockQueued(b) == \E m \in blockQ : m.block = b

(* Faulty variant: only the queue is searched.                             *)
IsBlockDuplicateOfQueued(b) == IsBlockQueued(b)

IsBlockDuplicate(b) == IsBlockInChain(b) \/ IsBlockQueued(b)

LatestBlockTimestamp(f) ==
    LET n == Len(Fork(f).agreements)
    IN  MaxOf(Fork(f).genesisTimestamp,
              IF n = 0 THEN 0 ELSE Fork(f).agreements[n].block.timestamp)

AgreementOn(b, state) == [block |-> b, signers |-> {b.participant}, state |-> state]

(* Faulty variant: the block is added to the latest fork, not its own.     *)
WithBlockInLatest(b) ==
    IF Agreed(b.forkCnt, b.transactionCnt) THEN forks
    ELSE [forks EXCEPT ![LatestForkCnt + 1].agreements = Append(@, AgreementOn(b, b.state))]

(* Faulty variant: the state is recorded as it was before the block.       *)
WithBlockBefore(b) ==
    IF Agreed(b.forkCnt, b.transactionCnt) THEN forks
    ELSE [forks EXCEPT ![b.forkCnt + 1].agreements = Append(@, AgreementOn(b, b.previousState))]

(* addBlock: it throws, and adds nothing, where there is a block already.  *)
WithBlock(b) ==
    IF Agreed(b.forkCnt, b.transactionCnt) THEN forks
    ELSE [forks EXCEPT ![b.forkCnt + 1].agreements = Append(@, AgreementOn(b, b.state))]

(* newFork: one that is not the next is dropped.                           *)
WithFork(f, state, time) ==
    IF Len(forks) # f THEN forks
    ELSE Append(forks, [ genesis          |-> state,
                         genesisTimestamp |-> time,
                         chainBlocks      |-> {},
                         agreements       |-> <<>> ])

(* Faulty variant: the signatures replace those that are there.            *)
WithSignersOnly(b, signers) ==
    [forks EXCEPT ![b.forkCnt + 1].agreements[b.transactionCnt + 1].signers = signers]

(* confirmBlock, of a block that is in the chain.                          *)
WithSigners(b, signers) ==
    [forks EXCEPT ![b.forkCnt + 1].agreements[b.transactionCnt + 1].signers = @ \cup signers]

CanConfirm(b) == IsBlockInChain(b) /\ Me \notin AgreementAt(b.forkCnt, b.transactionCnt).signers

DidSign(a, b) == a \in AgreementAt(b.forkCnt, b.transactionCnt).signers

DidEveryoneSign(f, h) ==
    Agreed(f, h) /\ Fork(f).genesis.participants \subseteq AgreementAt(f, h).signers

(* Faulty variant: the block is queued without its signature.              *)
QueuedUnsigned(m) == blockQ \cup {m.block}

(* queueBlock keeps one block per fork, height and author.                 *)
Queued(m) ==
    {q \in blockQ : \/ q.block.forkCnt # m.block.forkCnt
                    \/ q.block.transactionCnt # m.block.transactionCnt
                    \/ q.block.participant # m.block.participant} \cup {m}

(* tryDequeueBlocks *)
Ready == {m \in blockQ : /\ m.block.forkCnt = LatestForkCnt
                         /\ m.block.transactionCnt = NextBlockHeight}

-----------------------------------------------------------------------------
(* OnChainTracker, and the contract's views of the posted calldata.        *)

LatestOf(times) == CHOOSE t \in times \cup {0} : \A u \in times : u <= t

LatestChainBlock(f, h) ==
    LatestOf({c.timestamp : c \in {d \in Fork(f).chainBlocks : d.transactionCnt <= h}})

DidPostOnChain(f, h, a) ==
    /\ IsValidForkCnt(f)
    /\ \E c \in Fork(f).chainBlocks : c.transactionCnt = h /\ c.participant = a

WithChainBlock(p) ==
    LET b == p.block
    IN  IF DidPostOnChain(b.forkCnt, b.transactionCnt, b.participant) THEN forks
        ELSE [forks EXCEPT ![b.forkCnt + 1].chainBlocks =
                 @ \cup {[transactionCnt |-> b.transactionCnt,
                          participant    |-> b.participant,
                          timestamp      |-> p.timestamp]}]

LatestTimestamp(f, h) == MaxOf(LatestBlockTimestamp(f), LatestChainBlock(f, h))

(* getChainLatestBlockTimestamp and getBlockCallData of the contract.      *)
PostedAt(f, h) ==
    LatestOf({p.timestamp : p \in {q \in posted : /\ q.block.forkCnt = f
                                                  /\ q.block.transactionCnt <= h}})

IsPosted(f, h, a) ==
    \E p \in posted : /\ p.block.forkCnt = f
                      /\ p.block.transactionCnt = h
                      /\ p.block.participant = a

-----------------------------------------------------------------------------
(* DisputeHandler.  A dispute of a fork the client already knows a dispute *)
(* of only adds to its proofs.                                             *)

Accusation(kind, f, h, a) ==
    [kind |-> kind, forkCnt |-> f, transactionCnt |-> h, accused |-> a]

CreateDispute(f, accusation) ==
    /\ disputedForks' = disputedForks \cup {f}
    /\ raised' = IF f \in disputes THEN raised ELSE raised \cup {accusation}
    /\ UNCHANGED disputes

DisputeDoubleSign(b) ==
    CreateDispute(b.forkCnt,
        Accusation("DoubleSign", b.forkCnt, b.transactionCnt, b.participant))

(* createIncorrectDataProof: past the first block of a fork it wants the   *)
(* state the chain has at the height of the incorrect block.  Where there  *)
(* is none it throws, and no dispute is created.                           *)
CanProveIncorrect(b) ==
    b.transactionCnt = 0 \/ Agreed(b.forkCnt, b.transactionCnt)

DisputeIncorrectData(b) ==
    IF CanProveIncorrect(b)
    THEN CreateDispute(b.forkCnt,
             Accusation("IncorrectData", b.forkCnt, b.transactionCnt, b.participant))
    ELSE UNCHANGED disputing

(* Faulty variant: the author of the block in the chain is accused.        *)
DisputeConflictOfAgreed(b) ==
    LET agreed == AgreementAt(b.forkCnt, b.transactionCnt).block
    IN  IF agreed.participant = b.participant THEN DisputeDoubleSign(b)
        ELSE DisputeIncorrectData(agreed)

(* BlockValidator.check of an authentic block at a height that is taken,   *)
(* and what is done about it.                                              *)
DisputeConflict(b) ==
    IF AgreementAt(b.forkCnt, b.transactionCnt).block.participant = b.participant
    THEN DisputeDoubleSign(b)
    ELSE DisputeIncorrectData(b)

-----------------------------------------------------------------------------
(* Tasks and the mutex.                                                    *)

NoMessage == [signer |-> Nobody]

Idle == [pc |-> "idle", msg |-> NoMessage, confirmer |-> Nobody, rest |-> <<>>]

(* The call onSignedBlock(m); then a confirmation by confirmer, or the     *)
(* rest of the dequeued blocks.                                            *)
OnSignedBlock(m, confirmer, rest) ==
    [pc |-> "lock", msg |-> m, confirmer |-> confirmer, rest |-> rest]

Waiting(t) == tasks[t].pc \in {"lock", "playLock"}

Holding(t) == tasks[t].pc \in {"validate", "askChain", "sign", "play", "seal"}

Drained == \A t \in Tasks : tasks[t].pc \notin {"validate", "play"}

Granted(task) == [task EXCEPT !.pc = IF @ = "lock" THEN "validate" ELSE "play"]

(* Mutex.lock, at the start of the call in task.                           *)
Lock(t, task) ==
    IF mutex.isLocked
    THEN /\ mutex' = [mutex EXCEPT !.queue = Append(@, t)]
         /\ tasks' = [tasks EXCEPT ![t] = task]
    ELSE /\ mutex' = [mutex EXCEPT !.isLocked = TRUE]
         /\ tasks' = [tasks EXCEPT ![t] = Granted(task)]

(* Faulty variant: unlock wakes the waiter and opens the lock as well.     *)
UnlockOpens(t, next) ==
    /\ mutex' = [ isLocked |-> FALSE,
                  queue |-> IF mutex.queue = <<>> THEN <<>> ELSE Tail(mutex.queue) ]
    /\ tasks' = [ u \in Tasks |->
                     IF u = t THEN Idle
                     ELSE IF mutex.queue # <<>> /\ u = Head(mutex.queue)
                     THEN Granted(tasks[u]) ELSE tasks[u] ]

(* Faulty variant: unlock opens the lock and wakes nobody.                 *)
UnlockWakesNobody(t, next) ==
    /\ mutex' = [mutex EXCEPT !.isLocked = (next # Idle)]
    /\ tasks' = [tasks EXCEPT ![t] = IF next = Idle THEN Idle ELSE Granted(next)]

(* Mutex.unlock hands the lock to the first waiter; then t ends, or goes   *)
(* on to the next call, which locks again.                                 *)
Unlock(t, next) ==
    IF mutex.queue = <<>>
    THEN /\ mutex' = [mutex EXCEPT !.isLocked = (next # Idle)]
         /\ tasks' = [tasks EXCEPT ![t] = IF next = Idle THEN Idle ELSE Granted(next)]
    ELSE /\ mutex' = [mutex EXCEPT !.queue =
                         IF next = Idle THEN Tail(@) ELSE Append(Tail(@), t)]
         /\ tasks' = [tasks EXCEPT ![t] = next, ![Head(mutex.queue)] = Granted(@)]

(* An exception between lock and unlock that nobody catches.               *)
Abandon(t) ==
    /\ tasks' = [tasks EXCEPT ![t] = Idle]
    /\ UNCHANGED mutex

(* What follows onSignedBlock: the loop over the dequeued blocks stops at  *)
(* a dispute.                                                              *)
After(t, flag) ==
    IF tasks[t].rest = <<>> \/ flag = "DISPUTE" THEN Idle
    ELSE OnSignedBlock(Head(tasks[t].rest), Nobody, Tail(tasks[t].rest))

(* A confirmation that waited for its block is recorded once the block is  *)
(* in the chain.  Otherwise it is lost: queueConfirmation is bound to the  *)
(* StateManager, which has no queue, and throws.                           *)
Confirmer(t) == {tasks[t].confirmer} \ {Nobody}

ConfirmerOf(t) == {a \in Confirmer(t) : IsParticipantInLatestFork(a)}

-----------------------------------------------------------------------------
(* The application in the EVM: getNextToWrite and stateTransition.         *)

Writer == NextToWrite(machine)

StateTransition(b) == Executed(machine, b)

IsMyTurn == machine.participants # {} /\ Writer = Me

-----------------------------------------------------------------------------
(* onSuccessCommon, with the machine and the forks as the step leaves      *)
(* them.  The timeout callback does nothing about a turn of this peer.     *)

Turn == [forkCnt        |-> LatestForkCnt,
         transactionCnt |-> NextBlockHeight,
         participant    |-> Writer]

(* A task scheduled past the bound of time never runs.                     *)
ScheduleTask(scheduled, task) ==
    IF task.due > MaxTime THEN scheduled ELSE scheduled \cup {task}

TryTimeoutNext ==
    timers' = IF IsMyTurn' \/ machine'.participants = {} THEN timers
              ELSE ScheduleTask(timers,
                       [turn |-> Turn', due |-> now + TimeoutWaitTime, stage |-> "check"])

(* Faulty variant: the queue is not looked at again.                       *)
OnSuccessQuiet == UNCHANGED wakeup /\ TryTimeoutNext

OnSuccess == wakeup' = TRUE /\ TryTimeoutNext

-----------------------------------------------------------------------------
(* onSignedBlock: validateSignedBlock, its early returns in their order,   *)
(* and the handler of each decision.                                       *)

IsSignedBlockAuthentic(m) == m.signer = m.block.participant

Decision(m) ==
    LET b == m.block
    IN  IF ~IsSignedBlockAuthentic(m) THEN "DISCONNECT"
        ELSE IF b.forkCnt < LatestForkCnt \/ b.forkCnt \in disputedForks THEN "PAST_FORK"
        ELSE IF IsBlockDuplicate(b) THEN "DUPLICATE"
        ELSE IF b.forkCnt > LatestForkCnt \/ b.transactionCnt > NextBlockHeight THEN "NOT_READY"
        ELSE IF ~IsParticipantInLatestFork(b.participant) THEN "DISCONNECT"
        ELSE IF b.transactionCnt < NextBlockHeight THEN "CONFLICT"
        ELSE IF b.timestamp < LatestBlockTimestamp(b.forkCnt) THEN "TOO_EARLY"
        ELSE IF b.timestamp > LatestTimestamp(b.forkCnt, b.transactionCnt) + P2pTime THEN "ASK_CHAIN"
        ELSE "EXECUTE"

(* The chain's answer to isGoodTimestamp. *)
IsGoodTimestamp(b) ==
    b.timestamp <= MaxOf(LatestTimestamp(b.forkCnt, b.transactionCnt),
                         PostedAt(b.forkCnt, b.transactionCnt)) + P2pTime

SubjectiveTimingFlag(time) ==
    IF now > time + TolerancePast THEN "NOT_ENOUGH_TIME"
    ELSE IF time > now + ToleranceFuture THEN "TOO_FAR"
    ELSE "SUCCESS"

IsEnoughTimeSubjective(b) == IF IsMyTurn THEN SubjectiveTimingFlag(b.timestamp) ELSE "SUCCESS"

(* Faulty variant: the state a block claims is not recomputed.             *)
ExecutionTrusted(b) ==
    IF IsEnoughTimeSubjective(b) # "SUCCESS" THEN IsEnoughTimeSubjective(b)
    ELSE IF b.participant # Writer THEN "NOT_NEXT"
    ELSE IF b.previousState = machine THEN "SUCCESS"
    ELSE "WRONG_HASH"

(* isEnoughTimeSubjective, the author's turn, processStateTransition.      *)
Execution(b) ==
    IF IsEnoughTimeSubjective(b) # "SUCCESS" THEN IsEnoughTimeSubjective(b)
    ELSE IF b.participant # Writer THEN "NOT_NEXT"
    ELSE IF b.previousState = machine /\ b.state = StateTransition(b) THEN "SUCCESS"
    ELSE "WRONG_HASH"

Decides(t, decisions) ==
    tasks[t].pc = "validate" /\ Decision(tasks[t].msg) \in decisions

(* The chain's answer counts as of the step that uses it: an answer may be *)
(* as old as the question, this one is the latest that could have come.    *)
Answered(t) == tasks[t].pc = "askChain" /\ Drained

Outcome(t, outcome) ==
    /\ \/ Decides(t, {"EXECUTE"})
       \/ Answered(t) /\ IsGoodTimestamp(tasks[t].msg.block)
    /\ Execution(tasks[t].msg.block) = outcome

(* A peer's signed block arrives. *)
ReceiveBlock(t, m) ==
    /\ Drained
    /\ tasks[t] = Idle
    /\ machine.number < MaxNumber
    /\ m.block.participant = Me => m.block \in released
    /\ Lock(t, OnSignedBlock(m, Nobody, <<>>))
    /\ UNCHANGED <<now, agreement, disputing, released, callbacks, chain>>

(* Decisions without a consequence.                                        *)
IgnoreBlock(t) ==
    /\ Decides(t, {"DISCONNECT", "PAST_FORK"}) \/ Outcome(t, "NOT_ENOUGH_TIME")
    /\ Unlock(t, After(t, "IGNORED"))
    /\ UNCHANGED <<now, agreement, disputing, released, callbacks, chain>>

(* Faulty variant: the early return skips the unlock.                      *)
IgnoreDuplicateReturns(t) ==
    /\ Decides(t, {"DUPLICATE"})
    /\ Abandon(t)
    /\ UNCHANGED <<now, agreement, disputing, released, callbacks, chain>>

(* After DUPLICATE a confirmation whose block is in the chain by now still *)
(* counts.                                                                 *)
IgnoreDuplicate(t) ==
    LET b == tasks[t].msg.block
    IN  /\ Decides(t, {"DUPLICATE"})
        /\ forks' = IF IsBlockInChain(b) THEN WithSigners(b, ConfirmerOf(t)) ELSE forks
        /\ Unlock(t, After(t, "DUPLICATE"))
        /\ UNCHANGED <<now, machine, blockQ, disputing, released, callbacks, chain>>

QueueBlock(t) ==
    /\ Decides(t, {"NOT_READY"})
    /\ blockQ' = Queued(tasks[t].msg)
    /\ Unlock(t, After(t, "NOT_READY"))
    /\ UNCHANGED <<now, machine, forks, disputing, released, callbacks, chain>>

(* A block that contradicts one in the chain.                              *)
RejectConflict(t) ==
    /\ Decides(t, {"CONFLICT"})
    /\ DisputeConflict(tasks[t].msg.block)
    /\ Unlock(t, After(t, "DISPUTE"))
    /\ UNCHANGED <<now, agreement, released, callbacks, chain>>

(* isGoodTimestamp has to ask the chain.                                   *)
AskChain(t) ==
    /\ Decides(t, {"ASK_CHAIN"})
    /\ tasks' = [tasks EXCEPT ![t].pc = "askChain"]
    /\ UNCHANGED <<now, agreement, disputing, released, mutex, callbacks, chain>>

(* A wrong timestamp or a wrong author; the machine has not moved.         *)
RejectBlock(t) ==
    /\ \/ Answered(t) /\ ~IsGoodTimestamp(tasks[t].msg.block)
       \/ Outcome(t, "NOT_NEXT")
    /\ DisputeIncorrectData(tasks[t].msg.block)
    /\ Unlock(t, After(t, "DISPUTE"))
    /\ UNCHANGED <<now, agreement, released, callbacks, chain>>

(* A block with a wrong hash is rejected when the machine has moved.       *)
RejectExecuted(t) ==
    /\ Outcome(t, "WRONG_HASH")
    /\ machine' = StateTransition(tasks[t].msg.block)
    /\ DisputeIncorrectData(tasks[t].msg.block)
    /\ Unlock(t, After(t, "DISPUTE"))
    /\ UNCHANGED <<now, forks, blockQ, released, callbacks, chain>>

(* The dispute is created on the spot and DISPUTE returned without an      *)
(* agreementFlag: the handler throws, and the mutex stays locked.          *)
RejectFuture(t) ==
    LET b == tasks[t].msg.block
    IN  /\ Outcome(t, "TOO_FAR")
        /\ CreateDispute(LatestForkCnt, Accusation("BlockTooFarInFuture",
                             b.forkCnt, b.transactionCnt, b.participant))
        /\ Abandon(t)
        /\ UNCHANGED <<now, agreement, released, callbacks, chain>>

AcceptBlock(t) ==
    LET b == tasks[t].msg.block
    IN  /\ Outcome(t, "SUCCESS")
        /\ machine' = StateTransition(b)
        /\ forks' = WithBlock(b)
        /\ tasks' = [tasks EXCEPT ![t].pc = "sign"]
        /\ UNCHANGED <<now, blockQ, disputing, released, mutex, callbacks, chain>>

(* isGoodTimestamp throws, "Not implemented" or because the chain did not  *)
(* answer; the flag still has its initial value, so the handler of SUCCESS *)
(* runs.                                                                   *)
AcceptUnseen(t) ==
    /\ Decides(t, {"TOO_EARLY"}) \/ (Answered(t) /\ ~Reliable)
    /\ tasks' = [tasks EXCEPT ![t].pc = "sign"]
    /\ UNCHANGED <<now, agreement, disputing, released, mutex, callbacks, chain>>

(* The handler of SUCCESS, once the confirmation is signed.  It throws if  *)
(* the signer fails, and confirmBlock does if the block is not in the      *)
(* chain or confirmed before.                                              *)
ConfirmBlock(t) ==
    LET b == tasks[t].msg.block
    IN  /\ tasks[t].pc = "sign"
        /\ Drained
        /\ CanConfirm(b)
        /\ forks' = WithSigners(b, {Me} \cup ConfirmerOf(t))
        /\ released' = released \cup {b}
        /\ UNCHANGED machine
        /\ OnSuccess
        /\ Unlock(t, After(t, "SUCCESS"))
        /\ UNCHANGED <<now, blockQ, disputing, pendingPosts, chain>>

ConfirmThrows(t) ==
    LET b == tasks[t].msg.block
    IN  /\ tasks[t].pc = "sign"
        /\ Drained
        /\ Reliable => ~CanConfirm(b)
        /\ Abandon(t)
        /\ UNCHANGED <<now, agreement, disputing, released, callbacks, chain>>

-----------------------------------------------------------------------------
(* onBlockConfirmation: at once if the block is in the chain, otherwise    *)
(* after onSignedBlock.                                                    *)

ReceiveConfirmation(t, c) ==
    LET m == [signer |-> c.signer, block |-> c.block]
    IN  /\ Drained
        /\ IsSignedBlockAuthentic(m)
        /\ c.block.participant = Me => c.block \in released
        /\ c.block.forkCnt >= LatestForkCnt
        /\ IF IsBlockInChain(c.block)
           THEN /\ IsParticipantInLatestFork(c.confirmer)
                /\ forks' = WithSigners(c.block, {c.confirmer})
                /\ UNCHANGED running
           ELSE /\ tasks[t] = Idle
                /\ machine.number < MaxNumber
                /\ Lock(t, OnSignedBlock(m, c.confirmer, <<>>))
                /\ UNCHANGED forks
        /\ UNCHANGED <<now, machine, blockQ, disputing, released, callbacks, chain>>

-----------------------------------------------------------------------------
(* sendTransaction and playTransaction.  The header is made before the     *)
(* call waits for the mutex.                                               *)

Playing(t) == tasks[t].pc \in {"playLock", "play", "seal"}

Play(t, amount) ==
    LET header == [ participant    |-> Me,
                    forkCnt        |-> LatestForkCnt,
                    transactionCnt |-> NextBlockHeight,
                    timestamp      |-> now,
                    amount         |-> amount,
                    previousState  |-> NoState,
                    state          |-> NoState ]
    IN  /\ Drained
        /\ tasks[t] = Idle
        /\ Careful => IsMyTurn /\ \A u \in Tasks : ~Playing(u)
        /\ machine.number < MaxNumber
        /\ Lock(t, [Idle EXCEPT !.pc = "playLock",
                                !.msg = [signer |-> Me, block |-> header]])
        /\ UNCHANGED <<now, agreement, disputing, released, callbacks, chain>>

(* Not my turn, or no fork yet. *)
PlayRefused(t) ==
    /\ tasks[t].pc = "play"
    /\ ~IsMyTurn \/ forks = <<>>
    /\ Unlock(t, Idle)
    /\ UNCHANGED <<now, agreement, disputing, released, callbacks, chain>>

(* Faulty variant: the timestamp is sent as it is.                         *)
UnadjustedTimestamp(header) == header.timestamp

(* adjustTimestampIfNeeded *)
AdjustedTimestamp(header) ==
    LET latest == LatestBlockTimestamp(LatestForkCnt)
    IN  IF header.timestamp < latest THEN latest + 1 ELSE header.timestamp

ApplyTransaction(header) ==
    [previousState |-> machine, state |-> StateTransition(header)]

CreateBlock(header, applied) ==
    [header EXCEPT !.timestamp     = AdjustedTimestamp(header),
                   !.previousState = applied.previousState,
                   !.state         = applied.state]

(* The transaction is applied, and the block is being signed.              *)
PlayApplied(t) ==
    LET header  == tasks[t].msg.block
        applied == ApplyTransaction(header)
    IN  /\ tasks[t].pc = "play"
        /\ IsMyTurn /\ forks # <<>>
        /\ machine' = applied.state
        /\ tasks' = [tasks EXCEPT ![t].pc = "seal",
                                 ![t].msg.block = CreateBlock(header, applied)]
        /\ UNCHANGED <<now, forks, blockQ, disputing, released, mutex, callbacks, chain>>

(* Faulty variant: a block whose place is taken is broadcast all the same. *)
PlaySealedAnyway(t) ==
    LET b == tasks[t].msg.block
    IN  /\ tasks[t].pc = "seal"
        /\ Drained
        /\ forks' = WithBlock(b)
        /\ released' = released \cup {b}
        /\ UNCHANGED <<machine, pendingPosts>>
        /\ OnSuccess
        /\ Unlock(t, Idle)
        /\ UNCHANGED <<now, blockQ, disputing, chain>>

(* addBlock, onSuccessCommon, the broadcast.                               *)
PlaySealed(t) ==
    LET b == tasks[t].msg.block
    IN  /\ tasks[t].pc = "seal"
        /\ Drained
        /\ ~Agreed(b.forkCnt, b.transactionCnt)
        /\ forks' = WithBlock(b)
        /\ released' = released \cup {b}
        /\ pendingPosts' = ScheduleTask(pendingPosts, [block |-> b, due |-> now + AgreementTime])
        /\ UNCHANGED machine
        /\ OnSuccess
        /\ Unlock(t, Idle)
        /\ UNCHANGED <<now, blockQ, disputing, chain>>

(* The signer fails or addBlock throws; the machine keeps the transaction. *)
PlayThrows(t) ==
    LET b == tasks[t].msg.block
    IN  /\ tasks[t].pc = "seal"
        /\ Drained
        /\ Reliable => Agreed(b.forkCnt, b.transactionCnt)
        /\ Unlock(t, Idle)
        /\ UNCHANGED <<now, agreement, disputing, released, callbacks, chain>>

-----------------------------------------------------------------------------
(* Scheduled callbacks.                                                    *)

Orders(S) ==
    {q \in [1..Cardinality(S) -> S] : \A i, j \in DOMAIN q : q[i] = q[j] => i = j}

(* tryExecuteFromQueue.  The queue of confirmations is always empty.       *)
ProcessQueue(t) ==
    /\ Drained
    /\ wakeup
    /\ tasks[t] = Idle
    /\ wakeup' = FALSE
    /\ blockQ' = blockQ \ Ready
    /\ \/ Ready = {} /\ UNCHANGED running
       \/ \E q \in Orders(Ready) :
              q # <<>> /\ Lock(t, OnSignedBlock(Head(q), Nobody, Tail(q)))
    /\ UNCHANGED <<now, machine, forks, disputing, released, timers, pendingPosts, chain>>

(* tryTimeoutParticipant up to its question to the chain.                  *)
TimeoutDue(x) ==
    LET f == x.turn.forkCnt  h == x.turn.transactionCnt
    IN  /\ IsValidForkCnt(f)
        /\ ~DidEveryoneSign(f, h)
        /\ ~DidPostOnChain(f, h, x.turn.participant)
        /\ now >= LatestChainBlock(f, h) + TimeoutWaitTime

CheckTimeout(x) ==
    /\ Drained
    /\ x.stage = "check" /\ x.due <= now
    /\ timers' = (timers \ {x}) \cup
           (IF TimeoutDue(x) THEN {[x EXCEPT !.stage = "asked"]} ELSE {})
    /\ UNCHANGED <<now, agreement, disputing, released, running, wakeup, pendingPosts, chain>>

DisputeTimeout(x) ==
    CreateDispute(x.turn.forkCnt,
        Accusation("Timeout", x.turn.forkCnt, x.turn.transactionCnt, x.turn.participant))

(* Faulty variant: the window is counted from the posts on the chain.      *)
TimeoutReadyByChain(f) == LatestChainBlock(f, 0) + TimeoutWaitTime

TimeoutReady(f) == LatestBlockTimestamp(f) + TimeoutWaitTime

(* The chain's answer to getBlockCallData, or its failure.  Nothing else   *)
(* is looked at again, neither now nor after the delay.                    *)
TimeoutAnswered(x) ==
    LET f == x.turn.forkCnt
        ready == TimeoutReady(f)
    IN  /\ Drained
        /\ x.stage = "asked"
        /\ \/ /\ IsPosted(f, x.turn.transactionCnt, x.turn.participant) \/ ~Reliable
              /\ timers' = timers \ {x}
              /\ UNCHANGED disputing
           \/ /\ ~IsPosted(f, x.turn.transactionCnt, x.turn.participant)
              /\ IF now > ready
                 THEN /\ DisputeTimeout(x)
                      /\ timers' = timers \ {x}
                 ELSE /\ timers' = (timers \ {x}) \cup
                             {[x EXCEPT !.stage = "delayed", !.due = ready]}
                      /\ UNCHANGED disputing
        /\ UNCHANGED <<now, agreement, released, running, wakeup, pendingPosts, chain>>

DelayedTimeout(x) ==
    /\ Drained
    /\ x.stage = "delayed" /\ x.due <= now
    /\ DisputeTimeout(x)
    /\ timers' = timers \ {x}
    /\ UNCHANGED <<now, agreement, released, running, wakeup, pendingPosts, chain>>

(* maybePostBlockOnChain; the transaction may fail.                        *)
MaybePost(x) ==
    /\ Drained
    /\ x.due <= now
    /\ pendingPosts' = pendingPosts \ {x}
    /\ \/ UNCHANGED posted
       \/ /\ ~DidEveryoneSign(x.block.forkCnt, x.block.transactionCnt)
          /\ Cardinality(posted) < MaxPosted
          /\ posted' = posted \cup {[block |-> x.block, timestamp |-> now]}
    /\ UNCHANGED <<now, agreement, disputing, released, running, wakeup, timers, heard, nextEvent>>

-----------------------------------------------------------------------------
(* Events of the chain.  None of their handlers takes the mutex.           *)

(* A peer posts a block that its author signed. *)
PeerPosts(m) ==
    /\ Drained
    /\ m.signer = m.block.participant
    /\ m.block.participant # Me
    /\ Cardinality(posted) < MaxPosted
    /\ posted' = posted \cup {[block |-> m.block, timestamp |-> now]}
    /\ UNCHANGED <<now, agreement, disputing, released, running, callbacks, heard, nextEvent>>

(* A SetState event.  The contract's forks are ordered in time.            *)
HearSettlement(e) ==
    /\ Drained
    /\ nextEvent <= MaxFork
    /\ e.timestamp <= now
    /\ forks # <<>> => e.timestamp >= Fork(LatestForkCnt).genesisTimestamp
    /\ nextEvent' = nextEvent + 1

SetState(e) ==
    /\ HearSettlement(e)
    /\ machine' = e.state
    /\ forks' = WithFork(nextEvent, e.state, e.timestamp)
    /\ OnSuccess
    /\ UNCHANGED <<now, blockQ, disputing, released, running, pendingPosts, posted, heard>>

(* A DisputeUpdated event, of a fork that has been set.                    *)
HearDispute(f) == Drained /\ f < nextEvent

(* onDispute, up to the rechallenge.                                       *)
DisputeUpdated(f) ==
    /\ HearDispute(f)
    /\ disputedForks' = disputedForks \cup {f}
    /\ disputes' = disputes \cup {f}
    /\ UNCHANGED <<now, agreement, raised, released, running, callbacks, chain>>

(* BlockCalldataPosted -> collectOnChainBlock.                             *)
Hear(p) == Drained /\ p \in posted \ heard /\ heard' = heard \cup {p}

(* BlockValidator.check of a block whose height is free.                   *)
Contradicts(b) ==
    IF b.transactionCnt = 0 THEN b.previousState # Fork(b.forkCnt).genesis
    ELSE /\ Agreed(b.forkCnt, b.transactionCnt - 1)
         /\ AgreementAt(b.forkCnt, b.transactionCnt - 1).block.state # b.previousState

(* The post is recorded if the block is there already, or if nothing is    *)
(* known against it; then the block is queued too.                         *)
CollectBlock(p) ==
    LET b == p.block
    IN  /\ Hear(p)
        /\ IsValidForkCnt(b.forkCnt)
        /\ \/ /\ IsBlockDuplicate(b)
              /\ UNCHANGED blockQ
              /\ forks' = WithChainBlock(p)
              /\ UNCHANGED disputing
           \/ /\ ~IsBlockDuplicate(b)
              /\ ~Agreed(b.forkCnt, b.transactionCnt) /\ ~Contradicts(b)
              /\ blockQ' = Queued([signer |-> b.participant, block |-> b])
              /\ forks' = WithChainBlock(p)
              /\ UNCHANGED disputing
           \/ /\ ~IsBlockDuplicate(b)
              /\ Agreed(b.forkCnt, b.transactionCnt)
              /\ DisputeConflict(b)
              /\ UNCHANGED <<blockQ, forks>>
           \/ /\ ~IsBlockDuplicate(b)
              /\ ~Agreed(b.forkCnt, b.transactionCnt) /\ Contradicts(b)
              /\ CanProveIncorrect(b)
              /\ DisputeIncorrectData(b)
              /\ UNCHANGED <<blockQ, forks>>
        /\ UNCHANGED machine
        /\ OnSuccess
        /\ UNCHANGED <<now, released, running, pendingPosts, posted, nextEvent>>

(* An exception ends the handler: of an unknown fork the block is queued   *)
(* but the post not recorded; of a block that contradicts the chain and    *)
(* cannot be proved incorrect nothing remains.                             *)
CollectThrows(p) ==
    LET b == p.block
    IN  /\ Hear(p)
        /\ \/ /\ ~IsValidForkCnt(b.forkCnt)
              /\ blockQ' = Queued([signer |-> b.participant, block |-> b])
           \/ /\ IsValidForkCnt(b.forkCnt)
              /\ ~IsBlockDuplicate(b)
              /\ ~CanProveIncorrect(b) /\ Contradicts(b)
              /\ UNCHANGED blockQ
        /\ UNCHANGED <<now, machine, forks, disputing, released, running, callbacks,
                       posted, nextEvent>>

Tick ==
    /\ Drained
    /\ now < MaxTime
    /\ now' = now + 1
    /\ UNCHANGED <<agreement, disputing, released, running, callbacks, chain>>

-----------------------------------------------------------------------------
Init ==
    /\ now = 0
    /\ machine = NoState
    /\ forks = <<>>
    /\ blockQ = {}
    /\ disputedForks = {} /\ disputes = {} /\ raised = {}
    /\ released = {}
    /\ mutex = [isLocked |-> FALSE, queue |-> <<>>]
    /\ tasks = [t \in Tasks |-> Idle]
    /\ wakeup = FALSE
    /\ timers = {}
    /\ pendingPosts = {}
    /\ posted = {} /\ heard = {}
    /\ nextEvent = FirstFork

(* A call that is under way takes a step. *)
Validate(t) ==
    \/ IgnoreBlock(t) \/ IgnoreDuplicate(t) \/ QueueBlock(t)
    \/ RejectConflict(t) \/ RejectBlock(t) \/ RejectExecuted(t) \/ RejectFuture(t)
    \/ AskChain(t) \/ AcceptBlock(t) \/ AcceptUnseen(t)

Confirm(t) == ConfirmBlock(t) \/ ConfirmThrows(t)

Author(t) == PlayRefused(t) \/ PlayApplied(t) \/ PlaySealed(t) \/ PlayThrows(t)

Step(t) == Validate(t) \/ Confirm(t) \/ Author(t)

Callback ==
    \/ \E t \in Tasks : ProcessQueue(t)
    \/ \E x \in timers : CheckTimeout(x) \/ TimeoutAnswered(x) \/ DelayedTimeout(x)
    \/ \E x \in pendingPosts : MaybePost(x)

Event ==
    \/ \E e \in Settlements : SetState(e)
    \/ \E f \in 0..MaxFork : DisputeUpdated(f)
    \/ \E p \in posted : CollectBlock(p) \/ CollectThrows(p)

Environment ==
    \/ \E t \in Tasks : \/ \E m \in Messages : ReceiveBlock(t, m)
                        \/ \E c \in Confirmations : ReceiveConfirmation(t, c)
                        \/ \E a \in Amounts : Play(t, a)
    \/ \E m \in Messages : PeerPosts(m)
    \/ Tick

Next ==
    \/ \E t \in Tasks : Step(t)
    \/ Callback
    \/ Event
    \/ Environment

Spec == Init /\ [][Next]_vars

(* The event loop resumes every call whose promise is settled; the signer  *)
(* and the chain answer.  A callback that is due has its turn between the  *)
(* messages, however many arrive: strong fairness, for the calls they      *)
(* start keep it from running over and over.                               *)
FairSpec ==
    /\ Spec
    /\ \A t \in Tasks : WF_vars(Step(t))
    /\ SF_vars(\E t \in Tasks : ProcessQueue(t))

-----------------------------------------------------------------------------
Agreements == [block : Block, signers : SUBSET Addr, state : State]

Turns == [forkCnt : Nat, transactionCnt : Nat, participant : Addr \cup {Nobody}]

ForkRecord == [ genesis          : State,
           genesisTimestamp : Nat,
           chainBlocks      : SUBSET [transactionCnt : Nat, participant : Addr, timestamp : Nat],
           agreements       : Seq(Agreements) ]

Post == [block : Block, timestamp : Nat]

Task ==
    [ pc        : {"idle", "lock", "validate", "askChain", "sign", "playLock", "play", "seal"},
      msg       : SignedBlock \cup {NoMessage},
      confirmer : Addr \cup {Nobody},
      rest      : Seq(SignedBlock) ]

Accusations ==
    [ kind           : {"DoubleSign", "IncorrectData", "BlockTooFarInFuture", "Timeout"},
      forkCnt        : Nat,
      transactionCnt : Nat,
      accused        : Addr \cup {Nobody} ]

(* The variables keep their types; only an idle task has no message.       *)
TypeOK ==
    /\ now \in Nat
    /\ machine \in State
    /\ forks \in Seq(ForkRecord)
    /\ blockQ \subseteq SignedBlock
    /\ disputedForks \subseteq Nat /\ disputes \subseteq Nat
    /\ raised \subseteq Accusations
    /\ released \subseteq Block
    /\ mutex \in [isLocked : BOOLEAN, queue : Seq(Tasks)]
    /\ tasks \in [Tasks -> Task]
    /\ \A t \in Tasks : tasks[t].pc # "idle" => tasks[t].msg \in SignedBlock
    /\ wakeup \in BOOLEAN
    /\ timers \subseteq [turn : Turns, due : Nat, stage : {"check", "asked", "delayed"}]
    /\ pendingPosts \subseteq [block : Block, due : Nat]
    /\ heard \subseteq posted /\ posted \subseteq Post
    /\ nextEvent \in Nat

(* The mutex excludes, and forgets nobody: one task at most is between     *)
(* lock and unlock, then the mutex is locked, and the waiting tasks are    *)
(* the queue, each once (Mutex.lock, Mutex.unlock, the queue loop that     *)
(* locks again right after it unlocked).                                   *)
LockDiscipline ==
    /\ \A t, u \in Tasks : Holding(t) /\ Holding(u) => t = u
    /\ (\E t \in Tasks : Holding(t) \/ Waiting(t)) => mutex.isLocked
    /\ {t \in Tasks : Waiting(t)} = {mutex.queue[i] : i \in DOMAIN mutex.queue}
    /\ \A i, j \in DOMAIN mutex.queue : mutex.queue[i] = mutex.queue[j] => i = j

(* Every fork's chain has the block of height h at place h, whatever       *)
(* arrives while a call waits for the mutex, the chain or the signer       *)
(* (ForkService.addBlock indexes agreements by height).                    *)
ChainInOrder ==
    \A f \in 0..(Len(forks) - 1) : \A h \in 0..(Len(Fork(f).agreements) - 1) :
        /\ AgreementAt(f, h).block.forkCnt = f
        /\ AgreementAt(f, h).block.transactionCnt = h

(* A block enters the chain only if it is its author's turn in the state   *)
(* it commits to and leads to the state it claims (processStateTransition, *)
(* playTransaction).                                                       *)
AgreedBlocksExecute ==
    \A f \in 0..(Len(forks) - 1) : \A h \in 0..(Len(Fork(f).agreements) - 1) :
        LET b == AgreementAt(f, h).block
        IN  /\ b.participant = NextToWrite(b.previousState)
            /\ b.state = Executed(b.previousState, b)
            /\ AgreementAt(f, h).state = b.state

(* The peer never signs two blocks of one fork and height, neither by      *)
(* confirming after it wrote nor by writing after it confirmed: it would   *)
(* be slashed for a double sign (ConfirmBlock, PlaySealed).                *)
NeverDoubleSigns ==
    \A b, c \in released :
        b.forkCnt = c.forkCnt /\ b.transactionCnt = c.transactionCnt => b = c

(* What the peer put its signature under stays in its chain, so the whole  *)
(* chain can be shown when a dispute asks for it, and the peer accuses     *)
(* nobody of its own blocks, whatever is posted and echoed                 *)
(* (ConfirmBlock, PlaySealed, CollectBlock, DisputeConflict).              *)
StandsByItsBlocks ==
    /\ \A b \in released : IsBlockInChain(b)
    /\ \A r \in raised : r.accused # Me

(* The state the latest fork is at: the settled one, or that of its last   *)
(* block.                                                                  *)
LatestState ==
    LET f == Fork(LatestForkCnt)  n == Len(f.agreements)
    IN  IF n = 0 THEN f.genesis ELSE f.agreements[n].state

(* "The users follow the state machine set by the latest fork" (types.ts): *)
(* unless a transaction is just being sealed, the EVM is at the state of   *)
(* the latest fork's last block, so what is executed next extends it.      *)
MachineFollowsFork ==
    forks # <<>> /\ (\A t \in Tasks : tasks[t].pc # "seal") => machine = LatestState

(* The chain of a fork is one history: every block commits to the state    *)
(* the one before it leads to, the first to the settled state, and time    *)
(* does not run backwards (BlockValidator, isGoodTimestamp).               *)
ChainLinked ==
    \A f \in 0..(Len(forks) - 1) : \A h \in 0..(Len(Fork(f).agreements) - 1) :
        LET b == AgreementAt(f, h).block
        IN  IF h = 0
            THEN b.previousState = Fork(f).genesis /\ b.timestamp >= Fork(f).genesisTimestamp
            ELSE /\ b.previousState = AgreementAt(f, h - 1).state
                 /\ b.timestamp >= AgreementAt(f, h - 1).block.timestamp

(* Among honest participants nobody is accused of a fraud, in whatever     *)
(* order their blocks, confirmations and posts arrive.                     *)
NoFraudAmongHonest == \A r \in raised : r.kind = "Timeout"

(* The mutex is only locked while some call is inside (onSignedBlock,      *)
(* playTransaction: every lock is followed by an unlock).                  *)
LockIsHeld == mutex.isLocked => \E t \in Tasks : Holding(t)

(* A participant is accused of a timeout only if it is the one to write    *)
(* after the block before, and only when the whole window has passed since *)
(* that block (tryTimeoutParticipant, onSuccessCommon).  Turns of the peer *)
(* itself are left out: while it seals a block, an event that arrives sets *)
(* a timeout for whoever comes next at the height of that very block.      *)
TimeoutsAreDue ==
    \A r \in raised : r.kind = "Timeout" =>
        LET f == r.forkCnt
            h == r.transactionCnt
            Due(writer, since) == /\ r.accused = writer \/ Me = writer
                                  /\ now >= since + TimeoutWaitTime
        IN  IF h = 0 THEN Due(NextToWrite(Fork(f).genesis), Fork(f).genesisTimestamp)
            ELSE /\ Agreed(f, h - 1)
                 /\ Due(NextToWrite(AgreementAt(f, h - 1).state),
                        AgreementAt(f, h - 1).block.timestamp)

(* The client implements a ledger of what it has agreed to: whatever       *)
(* arrives in whatever order, forks, blocks and signatures are only added, *)
(* a faithful block at the next place of its fork, and its own signature   *)
(* once, and only under what is in the ledger by then (ForkService,        *)
(* confirmBlock, playTransaction).  Posts on the chain are not part of it. *)
LedgerOf(F) ==
    [i \in DOMAIN F |-> [ genesis          |-> F[i].genesis,
                          genesisTimestamp |-> F[i].genesisTimestamp,
                          agreements       |-> F[i].agreements ]]

Ledger == INSTANCE ChannelLedger WITH ledger <- LedgerOf(forks), signed <- released

ImplementsLedger == Ledger!Spec

(* Whoever waits for the mutex gets it.                                    *)
WaiterGetsLock == \A t \in Tasks : Waiting(t) ~> Holding(t)

(* Once there is a fork, a queued block whose turn it is gets into the     *)
(* chain, unless the fork is disputed or settled in the meantime.          *)
QueuedIsPlayed ==
    \A m \in Messages :
        (/\ m \in blockQ
         /\ forks # <<>>
         /\ m.block.forkCnt = LatestForkCnt /\ m.block.transactionCnt = NextBlockHeight)
        ~> (\/ IsBlockInChain(m.block)
            \/ m.block.forkCnt \in disputedForks
            \/ m.block.forkCnt < LatestForkCnt)

(* -- Properties that the code's own words claim and the code refutes. --  *)

(* "If not ready, queue the confirmation": a confirmation that arrives     *)
(* before its block can be executed counts once the block is executed.     *)
EarlyConfirmationsCount ==
    \A c \in Confirmations :
        (/\ \E t \in Tasks : tasks[t].confirmer = c.confirmer /\ tasks[t].msg.block = c.block
         /\ <>IsBlockInChain(c.block))
        ~> (\/ IsBlockInChain(c.block) /\ DidSign(c.confirmer, c.block)
            \/ c.block.forkCnt \in disputedForks)

=============================================================================
