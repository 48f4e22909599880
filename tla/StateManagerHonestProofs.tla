----------------------- MODULE StateManagerHonestProofs -----------------------
(***************************************************************************)
(* What holds of StateManager among honest participants: blocks, their     *)
(* confirmations and posts arrive in whatever order, any number of times,  *)
(* while the user plays in turn and timers run out.                        *)
(***************************************************************************)
EXTENDS StateManagerHistoryProofs

(* A block of an honest participant: in a fork the peer knows, it is the   *)
(* block of the chain where its place is taken, and where its place is the *)
(* next it continues the history and does what it says.                    *)
Rightful(b) ==
    b.forkCnt < Len(forks) =>
        LET r == forks[b.forkCnt + 1]
            n == Len(r.agreements)
        IN  /\ b.transactionCnt < n => r.agreements[b.transactionCnt + 1].block = b
            /\ b.transactionCnt = n => b.previousState = Tip(r) /\ Faithful(b)

(* Where it is the next block, it is made after the one before and within  *)
(* its window, by the answer of the chain.                                 *)
Timely(b) ==
    Placed(b, forks) =>
        b.timestamp >= LatestBlockTimestamp(b.forkCnt) /\ IsGoodTimestamp(b)

(* What the peer validates, and what it reads from the chain, was made by  *)
(* honest participants.                                                    *)
HonestTraffic ==
    /\ \A t \in Tasks : tasks[t].pc \in {"validate", "askChain"} =>
          Rightful(tasks[t].msg.block) /\ Timely(tasks[t].msg.block)
    /\ \A p \in posted \ heard : Rightful(p.block)

AmongHonest == HonestTraffic /\ Undisturbed

(* The user plays one at a time and in turn, the signer and the chain      *)
(* answer, and nobody confirms in the peer's name.                         *)
WellBehaved == Careful /\ Reliable /\ \A c \in Confirmations : c.confirmer # Me

(* A transaction the user plays is about the next place of the chain, at   *)
(* the peer's turn; a block that is sealed is at that place and the EVM at *)
(* its state; a block that is to be confirmed can be.                      *)
WriteInv(task) ==
    LET b == task.msg.block
    IN  /\ task.pc \in {"playLock", "play"} =>
              IF forks = <<>> THEN nextEvent # 0
              ELSE b.forkCnt = LatestForkCnt =>
                       b.transactionCnt = NextBlockHeight /\ NextToWrite(LatestState) = Me
        /\ task.pc = "seal" => Placed(b, forks) /\ machine = b.state
        /\ task.pc = "sign" => CanConfirm(b)

(* The events of the chain are heard from the first on, or there is never  *)
(* a fork.                                                                 *)
InSequence ==
    /\ forks # <<>> => nextEvent = Len(forks)
    /\ machine.participants # {} => nextEvent # 0

OnePlays == \A t, u \in Tasks : Playing(t) /\ Playing(u) => t = u

(* The invariant that is inductive among honest participants.              *)
PeerInv ==
    /\ MachineFollowsFork
    /\ LockIsHeld
    /\ NoFraudAmongHonest
    /\ InSequence
    /\ OnePlays
    /\ \A t \in Tasks : WriteInv(tasks[t])

-----------------------------------------------------------------------------
(* Nothing an honest participant made is rejected.                         *)

(* The block a call is about to execute is the one that comes next.        *)
LEMMA HonestBlock ==
    ASSUME IInv, PeerInv, AmongHonest, NEW t \in Tasks,
           Decides(t, {"TOO_EARLY", "ASK_CHAIN", "EXECUTE"}) \/ Answered(t)
    PROVE  LET b == tasks[t].msg.block
           IN  /\ b \in Block /\ Holding(t) /\ b.forkCnt = Len(forks) - 1
               /\ b.participant = Writer /\ Writer # Me
               /\ b.previousState = machine /\ b.state = StateTransition(b)
               /\ b.timestamp \in Nat /\ LatestBlockTimestamp(b.forkCnt) \in Nat
               /\ b.timestamp >= LatestBlockTimestamp(b.forkCnt) /\ IsGoodTimestamp(b)
<1>1. PICK b : b = tasks[t].msg.block
  OBVIOUS
<1>2. /\ Holding(t) /\ tasks[t].msg \in SignedBlock /\ b \in Block /\ Placed(b, forks)
      /\ b.participant # Me /\ forks # <<>> /\ forks \in Seq(ForkRecord)
  BY <1>1, OutcomeFacts DEF IInv, Typing
<1>3. tasks[t].pc \in {"validate", "askChain"}
  BY DEF Decides, Answered
<1>4. b.forkCnt = LatestForkCnt
  <2>1. CASE tasks[t].pc = "askChain"
    BY <1>1, <2>1 DEF AmongHonest, Undisturbed
  <2>2. CASE tasks[t].pc # "askChain"
    <3>1. Decision(tasks[t].msg) \in {"TOO_EARLY", "ASK_CHAIN", "EXECUTE"}
      BY <2>2 DEF Decides, Answered
    <3>2. ~(b.forkCnt < LatestForkCnt) /\ ~(b.forkCnt > LatestForkCnt)
      BY <1>1, <3>1 DEF Decision
    <3> QED
      BY <1>2, <3>2, LatestFork DEF Block
  <2> QED
    BY <2>1, <2>2
<1>5. b.forkCnt = Len(forks) - 1 /\ b.forkCnt + 1 = Len(forks) /\ b.forkCnt \in Nat
      /\ b.forkCnt < Len(forks) /\ b.timestamp \in Nat
  BY <1>2, <1>4, LatestFork DEF Block, Placed
<1>6. Rightful(b) /\ Timely(b)
  BY <1>1, <1>3 DEF AmongHonest, HonestTraffic
<1>7. b.previousState = Tip(forks[Len(forks)]) /\ Faithful(b)
  BY <1>2, <1>5, <1>6 DEF Rightful, Placed
<1>8. b.previousState = machine
  <2>1. \A u \in Tasks : tasks[u].pc # "seal"
    BY <1>2, <1>3 DEF IInv, LockDiscipline, Holding
  <2> QED
    BY <1>2, <1>7, <2>1, LatestTip DEF PeerInv, MachineFollowsFork
<1>9. b.participant = Writer /\ Writer # Me /\ b.state = StateTransition(b)
  BY <1>2, <1>7, <1>8 DEF Faithful, Writer, StateTransition
<1>10. b.timestamp >= LatestBlockTimestamp(b.forkCnt) /\ IsGoodTimestamp(b)
  BY <1>2, <1>6 DEF Timely
<1>11. LatestBlockTimestamp(b.forkCnt) \in Nat
  BY <1>2, <1>5, TimestampIsNat
<1> QED
  BY <1>1, <1>2, <1>5, <1>8, <1>9, <1>10, <1>11

(* So it is executed.                                                      *)
LEMMA HonestOutcome ==
    ASSUME IInv, PeerInv, AmongHonest, NEW t \in Tasks, NEW outcome,
           outcome # "SUCCESS"
    PROVE  ~Outcome(t, outcome)
<1> SUFFICES ASSUME Outcome(t, outcome) PROVE FALSE
  OBVIOUS
<1>1. PICK b : b = tasks[t].msg.block
  OBVIOUS
<1>2. Execution(b) = outcome
  BY <1>1 DEF Outcome
<1>3. Decides(t, {"TOO_EARLY", "ASK_CHAIN", "EXECUTE"}) \/ Answered(t)
  BY DEF Outcome, Decides
<1>4. b.participant = Writer /\ Writer # Me /\ b.previousState = machine
      /\ b.state = StateTransition(b)
  BY <1>1, <1>3, HonestBlock
<1>5. IsEnoughTimeSubjective(b) = "SUCCESS"
  BY <1>4 DEF IsEnoughTimeSubjective, IsMyTurn
<1>6. Execution(b) = "SUCCESS"
  BY <1>4, <1>5 DEF Execution
<1> QED
  BY <1>2, <1>6

(* What an honest participant made does not contradict the chain.          *)
LEMMA HonestAgrees ==
    ASSUME IInv, NEW b \in Block, Rightful(b), IsValidForkCnt(b.forkCnt),
           ~IsBlockInChain(b)
    PROVE  ~Agreed(b.forkCnt, b.transactionCnt) /\ ~Contradicts(b)
<1>1. /\ b.forkCnt \in Nat /\ b.transactionCnt \in Nat /\ b.forkCnt < Len(forks)
      /\ forks \in Seq(ForkRecord) /\ Ordered(forks)
  BY DEF Block, IsValidForkCnt, IInv, Typing
<1>2. PICK i \in 1..Len(forks) : i = b.forkCnt + 1
  BY <1>1
<1>3. PICK r \in ForkRecord : r = forks[i] /\ r = Fork(b.forkCnt)
  BY <1>1, <1>2, ElementOf DEF Fork
<1>4. PICK n \in Nat : n = Len(r.agreements)
  BY ForkParts
<1>5. /\ b.transactionCnt < n => r.agreements[b.transactionCnt + 1].block = b
      /\ b.transactionCnt = n => b.previousState = Tip(r)
  BY <1>1, <1>2, <1>3, <1>4 DEF Rightful
<1>6. ~(b.transactionCnt < n)
  BY <1>1, <1>3, <1>4, <1>5 DEF IsBlockInChain, Agreed, IsValidForkCnt, AgreementAt
<1>7. ~Agreed(b.forkCnt, b.transactionCnt)
  BY <1>3, <1>4, <1>6 DEF Agreed
<1>8. ASSUME Contradicts(b) PROVE FALSE
  <2>1. CASE b.transactionCnt = 0
    <3>1. n = 0
      BY <1>1, <1>6, <2>1
    <3>2. Tip(r) = r.genesis
      BY <1>4, <3>1 DEF Tip, StateBefore
    <3> QED
      BY <1>3, <1>5, <1>8, <2>1, <3>1, <3>2 DEF Contradicts
  <2>2. CASE b.transactionCnt # 0
    <3>1. PICK h : h = b.transactionCnt - 1
      OBVIOUS
    <3>2. h \in Nat /\ h + 1 = b.transactionCnt
      BY <1>1, <2>2, <3>1
    <3>3. h < n /\ AgreementAt(b.forkCnt, h).block.state # b.previousState
      BY <1>3, <1>4, <1>8, <2>2, <3>1 DEF Contradicts, Agreed
    <3>4. b.transactionCnt = n /\ n \in 1..n /\ n # 0
      BY <1>1, <1>6, <3>2, <3>3
    <3>5. AgreementAt(b.forkCnt, h) = r.agreements[n]
      BY <1>3, <3>2, <3>4 DEF AgreementAt
    <3>6. r.agreements[n].state = r.agreements[n].block.state
      <4>1. n \in 1..Len(forks[i].agreements) /\ r = forks[i]
        BY <1>3, <1>4, <3>4
      <4>2. forks[i].agreements[n].state = forks[i].agreements[n].block.state
        BY <1>1, <1>2, <4>1 DEF Ordered
      <4> QED
        BY <4>1, <4>2
    <3>7. Tip(r) = r.agreements[n].state
      <4>1. n + 1 # 1 /\ n + 1 - 1 = n
        BY <3>4
      <4> QED
        BY <1>4, <4>1 DEF Tip, StateBefore
    <3> QED
      BY <1>5, <3>3, <3>4, <3>5, <3>6, <3>7
  <2> QED
    BY <2>1, <2>2
<1> QED
  BY <1>7, <1>8

(* The steps that reject a block, or end in an exception, are not taken.   *)
LEMMA NothingRejected ==
    ASSUME IInv, PeerInv, AmongHonest, WellBehaved, NEW t \in Tasks
    PROVE  /\ ~RejectConflict(t) /\ ~RejectBlock(t) /\ ~RejectExecuted(t) /\ ~RejectFuture(t)
           /\ ~AcceptUnseen(t) /\ ~ConfirmThrows(t) /\ ~PlayThrows(t)
<1>1. PICK b : b = tasks[t].msg.block
  OBVIOUS
<1>2. TaskInv(tasks[t], forks, released) /\ forks \in Seq(ForkRecord)
  BY DEF IInv, Typing
<1>3. ASSUME RejectConflict(t) PROVE FALSE
  <2>1. tasks[t].pc = "validate" /\ Decision(tasks[t].msg) = "CONFLICT"
    BY <1>3 DEF RejectConflict, Decides
  <2>2. tasks[t].msg \in SignedBlock /\ b \in Block /\ Rightful(b)
    BY <1>1, <1>2, <2>1 DEF TaskInv, SignedBlock, AmongHonest, HonestTraffic
  <2>3. ~InChain(b, forks) /\ forks # <<>>
    BY <1>1, <2>1, <2>2, DecisionFacts
  <2>4. /\ ~(b.forkCnt < LatestForkCnt) /\ ~(b.forkCnt > LatestForkCnt)
        /\ b.transactionCnt < NextBlockHeight
    BY <1>1, <2>1 DEF Decision
  <2>5. b.forkCnt = LatestForkCnt /\ LatestForkCnt < Len(forks)
        /\ NextBlockHeight = Len(forks[b.forkCnt + 1].agreements)
    BY <1>2, <2>2, <2>3, <2>4, LatestFork DEF Block
  <2> QED
    BY <2>2, <2>3, <2>4, <2>5 DEF Rightful, InChain
<1>4. ~RejectBlock(t)
  <2>1. ~Outcome(t, "NOT_NEXT")
    BY HonestOutcome
  <2>2. Answered(t) => IsGoodTimestamp(tasks[t].msg.block)
    BY HonestBlock
  <2> QED
    BY <2>1, <2>2 DEF RejectBlock
<1>5. ~RejectExecuted(t) /\ ~RejectFuture(t)
  BY HonestOutcome DEF RejectExecuted, RejectFuture
<1>6. ASSUME AcceptUnseen(t) PROVE FALSE
  <2>1. tasks[t].pc = "validate" /\ Decision(tasks[t].msg) = "TOO_EARLY"
    BY <1>6 DEF AcceptUnseen, Decides, WellBehaved
  <2>2. Decides(t, {"TOO_EARLY", "ASK_CHAIN", "EXECUTE"})
    BY <2>1 DEF Decides
  <2>3. b.timestamp \in Nat /\ LatestBlockTimestamp(b.forkCnt) \in Nat
        /\ b.timestamp >= LatestBlockTimestamp(b.forkCnt)
    BY <1>1, <2>2, HonestBlock
  <2>4. b.timestamp < LatestBlockTimestamp(b.forkCnt)
    BY <1>1, <2>1 DEF Decision
  <2> QED
    BY <2>3, <2>4
<1>7. ~ConfirmThrows(t)
  BY DEF ConfirmThrows, PeerInv, WriteInv, WellBehaved
<1>8. ASSUME PlayThrows(t) PROVE FALSE
  <2>1. tasks[t].pc = "seal" /\ Agreed(b.forkCnt, b.transactionCnt)
    BY <1>1, <1>8 DEF PlayThrows, WellBehaved
  <2>2. Placed(b, forks) /\ b \in Block
    BY <1>1, <1>2, <2>1 DEF PeerInv, WriteInv, TaskInv, SignedBlock
  <2>3. b.forkCnt + 1 \in 1..Len(forks)
    BY <1>2, <2>2 DEF Placed, Block
  <2>4. PICK r \in ForkRecord : r = forks[b.forkCnt + 1]
    BY <1>2, <2>3, ElementOf
  <2>5. Len(r.agreements) \in Nat /\ b.transactionCnt = Len(r.agreements)
        /\ b.transactionCnt < Len(r.agreements)
    BY <2>1, <2>2, <2>4, ForkParts DEF Placed, Agreed, Fork
  <2> QED
    BY <2>5
<1> QED
  BY <1>3, <1>4, <1>5, <1>6, <1>7, <1>8

-----------------------------------------------------------------------------
(* Every step keeps the invariant.                                         *)

(* The posts of honest participants accuse nobody.                         *)
LEMMA NothingContradicts ==
    ASSUME IInv, AmongHonest, NEW p \in posted, CollectBlock(p)
    PROVE  UNCHANGED disputing
<1>1. PICK b : b = p.block
  OBVIOUS
<1>2. b \in Block /\ Rightful(b) /\ IsValidForkCnt(b.forkCnt)
  BY <1>1, Heard DEF CollectBlock, Hear, AmongHonest, HonestTraffic
<1>3. ~IsBlockDuplicate(b) => ~Agreed(b.forkCnt, b.transactionCnt) /\ ~Contradicts(b)
  BY <1>2, HonestAgrees DEF IsBlockDuplicate
<1> QED
  BY <1>1, <1>3 DEF CollectBlock

(* So what is accused of is a timeout.                                     *)
LEMMA NoFraudKept ==
    ASSUME IInv, PeerInv, AmongHonest, WellBehaved, [Next]_vars
    PROVE  NoFraudAmongHonest'
<1>1. \A r \in raised : r.kind = "Timeout"
  BY DEF PeerInv, NoFraudAmongHonest
<1>2. CASE raised' = raised
  BY <1>1, <1>2 DEF NoFraudAmongHonest
<1>3. ASSUME NEW x \in timers, TimeoutAnswered(x) \/ DelayedTimeout(x)
      PROVE  NoFraudAmongHonest'
  <2>1. raised' = raised \/ DisputeTimeout(x)
    BY <1>3 DEF TimeoutAnswered, DelayedTimeout, disputing
  <2> QED
    BY <1>1, <1>2, <2>1 DEF DisputeTimeout, CreateDispute, Accusation, NoFraudAmongHonest
<1>4. ASSUME NEW t \in Tasks, Step(t)
      PROVE  raised' = raised
  BY <1>4, NothingRejected DEF Step, Validate, Confirm, Author, IgnoreBlock,
     IgnoreDuplicate, QueueBlock, AskChain, AcceptBlock, ConfirmBlock, PlayRefused,
     PlayApplied, PlaySealed, disputing
<1>5. ASSUME NEW p \in posted, CollectBlock(p)
      PROVE  raised' = raised
  BY <1>5, NothingContradicts DEF disputing
<1>6. \/ \E t \in Tasks : Step(t)
      \/ \E p \in posted : CollectBlock(p)
      \/ \E x \in timers : TimeoutAnswered(x) \/ DelayedTimeout(x)
      \/ raised' = raised
  BY DEF Next, Callback, Event, Environment, ProcessQueue, MaybePost, CheckTimeout, SetState,
         DisputeUpdated, CollectThrows, ReceiveBlock, ReceiveConfirmation, Play, PeerPosts,
         Tick, vars, disputing
<1> QED
  BY <1>2, <1>3, <1>4, <1>5, <1>6

(* While the mutex is locked some call has it.                             *)
LEMMA LockKept ==
    ASSUME IInv, PeerInv, AmongHonest, WellBehaved, [Next]_vars
    PROVE  LockIsHeld'
<1>1. /\ tasks \in [Tasks -> Task] /\ Excludes
      /\ mutex.isLocked => \E u \in Tasks : Holding(u)
  BY InvariantExcludes DEF IInv, Typing, PeerInv, LockIsHeld
<1>2. CASE UNCHANGED running
  BY <1>1, <1>2 DEF running, LockIsHeld, Holding
<1>3. ASSUME NEW t \in Tasks, NEW next \in Task, Starts(t, next)
      PROVE  \E u \in Tasks : Holding(u)'
  <2>1. CASE mutex.isLocked
    <3>1. PICK u \in Tasks : Holding(u)
      BY <1>1, <2>1
    <3>2. u # t
      BY <1>3, <3>1, IdleIsTask DEF Starts, Holding
    <3>3. tasks'[u] = tasks[u]
      BY <1>1, <1>3, <2>1, <3>2 DEF Starts, Lock
    <3> QED
      BY <3>1, <3>3 DEF Holding
  <2>2. CASE ~mutex.isLocked
    <3>1. tasks'[t] = Granted(next) /\ Granted(next).pc \in {"validate", "play"}
      BY <1>1, <1>3, <2>2, GrantedIsTask DEF Starts, Lock
    <3> QED
      BY <3>1 DEF Holding
  <2> QED
    BY <2>1, <2>2
<1>4. ASSUME NEW t \in Tasks, NEW next \in Task, Leaves(t, next)
      PROVE  mutex'.isLocked => \E u \in Tasks : Holding(u)'
  <2>1. mutex \in [isLocked : BOOLEAN, queue : Seq(Tasks)]
    BY <1>1 DEF Excludes, MutexType
  <2>2. CASE mutex.queue = <<>>
    <3>1. /\ mutex' = [mutex EXCEPT !.isLocked = (next # Idle)]
          /\ tasks' = [tasks EXCEPT ![t] = IF next = Idle THEN Idle ELSE Granted(next)]
      BY <1>4, <2>2 DEF Leaves, Unlock
    <3>2. CASE next = Idle
      <4>1. mutex'.isLocked = FALSE
        BY <2>1, <3>1, <3>2
      <4> QED
        BY <4>1
    <3>3. CASE next # Idle
      <4>1. tasks'[t] = Granted(next) /\ Granted(next).pc = "validate"
        BY <1>1, <1>4, <3>1, <3>3, GrantedIsTask DEF Leaves
      <4> QED
        BY <4>1 DEF Holding
    <3> QED
      BY <3>2, <3>3
  <2>3. CASE mutex.queue # <<>>
    <3>1. PICK h \in Tasks : h = Head(mutex.queue) /\ Waiting(h)
      <4>1. 1 \in DOMAIN mutex.queue /\ Head(mutex.queue) = mutex.queue[1]
        BY <2>1, <2>3
      <4>2. mutex.queue[1] \in {u \in Tasks : Waiting(u)}
        BY <1>1, <4>1 DEF Excludes, LockDiscipline
      <4> QED
        BY <4>1, <4>2
    <3>2. tasks' = [tasks EXCEPT ![t] = next, ![h] = Granted(@)]
      BY <1>4, <2>3, <3>1 DEF Leaves, Unlock
    <3>3. h # t
      BY <1>4, <3>1 DEF Leaves, Holding, Waiting
    <3>4. tasks'[h] = Granted(tasks[h])
      BY <1>1, <3>2, <3>3
    <3>5. Granted(tasks[h]).pc \in {"validate", "play"}
      BY <1>1, <3>1, GrantedIsTask DEF Waiting
    <3> QED
      BY <3>4, <3>5 DEF Holding
  <2> QED
    BY <2>2, <2>3
<1>5. ASSUME NEW t \in Tasks, Goes(t)
      PROVE  \E u \in Tasks : Holding(u)'
  <2>1. tasks'[t].pc \in {"askChain", "sign", "seal"}
    BY <1>1, <1>5 DEF Goes, AskChain, AcceptBlock, AcceptUnseen, PlayApplied, Task
  <2> QED
    BY <2>1 DEF Holding
<1>6. \A t \in Tasks : ~Throws(t)
  BY NothingRejected DEF Throws
<1> QED
  BY <1>2, <1>3, <1>4, <1>5, <1>6, CallSteps DEF LockIsHeld

(* The forks the peer hears of are the ones that come next.                *)
LEMMA SettledFork ==
    ASSUME IInv, PeerInv, NEW e \in Settlements, SetState(e)
    PROVE  /\ machine' = e.state /\ e.state \in State /\ nextEvent' = nextEvent + 1
           /\ nextEvent \in Nat
           /\ \/ forks = <<>> /\ nextEvent # 0 /\ forks' = <<>>
              \/ /\ nextEvent = Len(forks) /\ Len(forks') = Len(forks) + 1
                 /\ forks'[Len(forks')].genesis = e.state
                 /\ forks'[Len(forks')].agreements = <<>>
<1>1. /\ machine' = e.state /\ nextEvent' = nextEvent + 1
      /\ forks' = WithFork(nextEvent, e.state, e.timestamp)
  BY DEF SetState, HearSettlement
<1>2. forks \in Seq(ForkRecord) /\ nextEvent \in Nat
  BY DEF IInv, Typing
<1>3. e.state \in State /\ e.timestamp \in Nat
  BY InputsAssumption DEF Settlement
<1>4. forks # <<>> => nextEvent = Len(forks)
  BY DEF PeerInv, InSequence
<1>5. CASE Len(forks) # nextEvent
  <2>1. forks = <<>> /\ forks' = <<>>
    BY <1>1, <1>4, <1>5 DEF WithFork
  <2>2. nextEvent # 0
    BY <1>5, <2>1
  <2> QED
    BY <1>1, <1>2, <1>3, <2>1, <2>2
<1>6. CASE Len(forks) = nextEvent
  <2>1. PICK r : r = [ genesis          |-> e.state,
                       genesisTimestamp |-> e.timestamp,
                       chainBlocks      |-> {},
                       agreements       |-> <<>> ]
    OBVIOUS
  <2>2. forks' = Append(forks, r) /\ r.genesis = e.state /\ r.agreements = <<>>
    BY <1>1, <1>6, <2>1 DEF WithFork
  <2>3. r \in ForkRecord
    BY <1>3, <2>1 DEF ForkRecord
  <2>4. Len(forks') = Len(forks) + 1 /\ forks'[Len(forks')] = r
    BY <1>2, <2>2, <2>3
  <2> QED
    BY <1>1, <1>2, <1>3, <1>6, <2>2, <2>4
<1> QED
  BY <1>5, <1>6

(* What moves the EVM.                                                     *)
LEMMA MachineMoves ==
    ASSUME [Next]_vars
    PROVE  \/ machine' = machine
           \/ \E e \in Settlements : SetState(e)
           \/ \E t \in Tasks : AcceptBlock(t) \/ RejectExecuted(t) \/ PlayApplied(t)
BY DEF Next, Step, Validate, Confirm, Author, IgnoreBlock, IgnoreDuplicate, QueueBlock,
       RejectConflict, RejectBlock, RejectFuture, AskChain, AcceptUnseen, ConfirmBlock,
       ConfirmThrows, PlayRefused, PlaySealed, PlayThrows, Callback, Event, Environment,
       ProcessQueue, CheckTimeout, TimeoutAnswered, DelayedTimeout, MaybePost,
       DisputeUpdated, CollectBlock, CollectThrows, ReceiveBlock, ReceiveConfirmation, Play,
       PeerPosts, Tick, vars, agreement

(* The forks and the events stay in sequence.                              *)
LEMMA SequenceKept ==
    ASSUME IInv, IInv', PeerInv, AmongHonest, WellBehaved, [Next]_vars
    PROVE  InSequence'
<1>1. forks \in Seq(ForkRecord) /\ forks' \in Seq(ForkRecord) /\ machine \in State
      /\ (forks # <<>> => nextEvent = Len(forks))
      /\ (machine.participants # {} => nextEvent # 0)
  BY DEF IInv, Typing, PeerInv, InSequence
<1>2. CASE \E e \in Settlements : SetState(e)
  <2>1. PICK e \in Settlements : SetState(e)
    BY <1>2
  <2>2. /\ nextEvent' = nextEvent + 1 /\ nextEvent \in Nat
        /\ \/ forks' = <<>>
           \/ nextEvent = Len(forks) /\ Len(forks') = Len(forks) + 1
    BY <2>1, SettledFork
  <2> QED
    BY <2>2 DEF InSequence
<1>3. CASE ~\E e \in Settlements : SetState(e)
  <2>1. Len(forks') = Len(forks)
    BY <1>3, ForksChange, BlockAdded
  <2>2. nextEvent' = nextEvent
    BY <1>3 DEF Next, Step, Validate, Confirm, Author, IgnoreBlock, IgnoreDuplicate,
         QueueBlock, RejectConflict, RejectBlock, RejectExecuted, RejectFuture, AskChain,
         AcceptBlock, AcceptUnseen, ConfirmBlock, ConfirmThrows, PlayRefused, PlayApplied,
         PlaySealed, PlayThrows, Callback, Event, Environment, ProcessQueue, CheckTimeout,
         TimeoutAnswered, DelayedTimeout, MaybePost, DisputeUpdated, CollectBlock,
         CollectThrows, ReceiveBlock, ReceiveConfirmation, Play, PeerPosts, Tick, vars, chain
  <2>3. machine'.participants = machine.participants
    <3>1. machine' = machine \/ \E t \in Tasks : AcceptBlock(t) \/ PlayApplied(t)
      BY <1>3, MachineMoves, NothingRejected
    <3>2. \A b : Executed(machine, b).participants = machine.participants
      BY <1>1 DEF Executed, State
    <3> QED
      BY <3>1, <3>2 DEF AcceptBlock, PlayApplied, StateTransition, ApplyTransaction
  <2>4. forks' # <<>> => forks # <<>>
    <3>1. CASE forks = <<>>
      <4>1. Len(forks') = 0
        BY <2>1, <3>1
      <4> QED
        BY <1>1, <4>1
    <3> QED
      BY <3>1
  <2> QED
    BY <1>1, <2>1, <2>2, <2>3, <2>4 DEF InSequence
<1> QED
  BY <1>2, <1>3

(* Only the user's call plays, and a second only when the first is over.   *)
LEMMA PlaysBefore ==
    ASSUME IInv, [Next]_vars, NEW u \in Tasks, Playing(u)'
    PROVE  Playing(u) \/ \E a \in Amounts : Play(u, a)
<1>1. tasks \in [Tasks -> Task] /\ tasks[u] \in Task
  BY DEF IInv, Typing
<1>2. tasks'[u].pc \in {"playLock", "play", "seal"}
  BY DEF Playing
<1>3. CASE Elsewhere(u)
  <2>1. CASE Waiting(u) /\ tasks'[u] = Granted(tasks[u])
    <3>1. tasks[u].pc \in {"lock", "playLock"}
      BY <2>1 DEF Waiting
    <3>2. Granted(tasks[u]).pc = IF tasks[u].pc = "lock" THEN "validate" ELSE "play"
      BY <1>1, <3>1, GrantedIsTask
    <3> QED
      BY <1>2, <2>1, <3>1, <3>2 DEF Playing
  <2>2. CASE tasks'[u] = tasks[u]
    BY <1>2, <2>2 DEF Playing
  <2> QED
    BY <1>2, <1>3, <2>1, <2>2 DEF Elsewhere
<1>4. CASE Goes(u)
  <2>1. CASE AskChain(u) \/ AcceptBlock(u) \/ AcceptUnseen(u)
    <3>1. tasks'[u].pc \in {"askChain", "sign"}
      BY <1>1, <2>1 DEF AskChain, AcceptBlock, AcceptUnseen, Task
    <3> QED
      BY <1>2, <3>1
  <2>2. CASE PlayApplied(u)
    BY <2>2 DEF PlayApplied, Playing
  <2> QED
    BY <1>4, <2>1, <2>2 DEF Goes
<1> QED
  BY <1>3, <1>4, CallsMove

(* So one call at a time plays.                                            *)
LEMMA OnePlaysKept ==
    ASSUME IInv, PeerInv, WellBehaved, [Next]_vars
    PROVE  OnePlays'
<1>1. ASSUME NEW t \in Tasks, NEW u \in Tasks, Playing(u)', t # u,
             NEW a \in Amounts, Play(t, a)
      PROVE  FALSE
  <2>1. ~Playing(u)
    BY <1>1 DEF Play, WellBehaved
  <2>2. PICK next \in Task : Lock(t, next)
    BY <1>1, PlayedCall
  <2>3. tasks'[u] = tasks[u]
    BY <1>1, <2>2 DEF Lock, IInv, Typing
  <2> QED
    BY <1>1, <2>1, <2>3 DEF Playing
<1>2. ASSUME NEW t \in Tasks, NEW u \in Tasks, Playing(t)', Playing(u)'
      PROVE  t = u
  <2>1. Playing(t) /\ Playing(u) => t = u
    BY DEF PeerInv, OnePlays
  <2> QED
    BY <1>1, <1>2, <2>1, PlaysBefore
<1> QED
  BY <1>2 DEF OnePlays

(* A call that seals a block waits for the signer.                         *)
LEMMA SealStays ==
    ASSUME IInv, [Next]_vars, NEW u \in Tasks, tasks[u].pc = "seal"
    PROVE  tasks'[u] = tasks[u] \/ PlaySealed(u) \/ PlayThrows(u)
<1>1. tasks \in [Tasks -> Task] /\ Excludes /\ Holding(u) /\ ~Waiting(u)
  BY InvariantExcludes DEF IInv, Typing, Holding, Waiting
<1>2. \A t \in Tasks : Holding(t) => t = u
  BY <1>1 DEF IInv, LockDiscipline
<1>3. ASSUME NEW t \in Tasks, NEW next \in Task, Starts(t, next)
      PROVE  tasks'[u] = tasks[u]
  <2>1. t # u
    BY <1>3, IdleIsTask DEF Starts
  <2>2. Moves(t, next)
    BY <1>1, <1>3, IdleIsTask, LockLemma DEF Starts
  <2> QED
    BY <1>1, <2>1, <2>2 DEF Moves
<1>4. ASSUME NEW t \in Tasks, NEW next \in Task, Leaves(t, next)
      PROVE  PlaySealed(u) \/ PlayThrows(u)
  <2>1. t = u
    BY <1>2, <1>4 DEF Leaves
  <2> QED
    BY <1>4, <2>1 DEF Leaves
<1>5. ASSUME NEW t \in Tasks, Goes(t) \/ Throws(t)
      PROVE  FALSE
  <2>1. tasks[t].pc \in {"validate", "askChain", "sign", "play"}
    BY <1>5 DEF Goes, Throws, AskChain, AcceptBlock, AcceptUnseen, PlayApplied, RejectFuture,
       ConfirmThrows, Outcome, Decides, Answered
  <2>2. t = u
    BY <1>2, <2>1 DEF Holding
  <2> QED
    BY <2>1, <2>2
<1> QED
  BY <1>3, <1>4, <1>5, CallSteps DEF running

(* The latest fork is at the state of the block that was added to it.      *)
LEMMA TipOfBlock ==
    ASSUME IInv, NEW b \in Block, Placed(b, forks), b.forkCnt + 1 = Len(forks)
    PROVE  /\ Len(WithBlock(b)) = Len(forks)
           /\ Tip(WithBlock(b)[Len(forks)]) = b.state
<1>1. PICK k : k = b.forkCnt + 1
  OBVIOUS
<1>2. PICK a : a = AgreementOn(b, b.state)
  OBVIOUS
<1>3. PICK A \in Seq(Agreements) : A = forks[k].agreements
  BY <1>1, BlockAppended DEF IInv, Typing
<1>4. /\ Len(WithBlock(b)) = Len(forks) /\ a \in Agreements /\ Len(A) \in Nat
      /\ WithBlock(b)[k].agreements = Append(A, a)
  BY <1>1, <1>2, <1>3, BlockAppended DEF IInv, Typing
<1>5. PICK r : r = WithBlock(b)[k]
  OBVIOUS
<1>6. PICK n \in Nat : n = Len(A) + 1 /\ n # 0
  BY <1>4
<1>7. Len(r.agreements) = n /\ r.agreements[n] = a
  BY <1>3, <1>4, <1>5, <1>6
<1>8. n + 1 # 1 /\ n + 1 - 1 = n
  BY <1>6
<1>9. Tip(r) = r.agreements[n].state
  BY <1>7, <1>8 DEF Tip, StateBefore
<1>10. a.state = b.state
  BY <1>2 DEF AgreementOn
<1> QED
  BY <1>1, <1>4, <1>5, <1>7, <1>9, <1>10

(* Where no block is added and no fork, the latest fork is at the state it *)
(* was.                                                                    *)
LEMMA SameTip ==
    ASSUME IInv, IInv', Unextended(forks, forks'), Len(forks') = Len(forks), forks # <<>>
    PROVE  /\ forks' # <<>> /\ LatestForkCnt' = LatestForkCnt
           /\ NextBlockHeight' = NextBlockHeight /\ LatestState' = LatestState
<1>1. forks \in Seq(ForkRecord) /\ forks' \in Seq(ForkRecord)
  BY DEF IInv, Typing
<1>2. PICK k \in 1..Len(forks) : k = Len(forks)
  BY <1>1, LatestIs
<1>3. forks' # <<>>
  BY <1>2
<1>4. PICK r \in ForkRecord : r = forks[k]
  BY <1>1, ElementOf
<1>5. PICK s \in ForkRecord : s = forks'[k]
  BY <1>1, ElementOf
<1>6. Extends(r, s) /\ Len(s.agreements) = Len(r.agreements)
  BY <1>4, <1>5 DEF Unextended, Grown, SameLengths
<1>7. Tip(s) = Tip(r)
  BY <1>6, SameHistory
<1>8. /\ LatestForkCnt' = Len(forks') - 1 /\ NextBlockHeight' = Len(s.agreements)
      /\ LatestState' = Tip(s)
  BY <1>1, <1>2, <1>3, <1>5, LatestTipAfter
<1>9. /\ LatestForkCnt = Len(forks) - 1 /\ LatestForkCnt + 1 = k
      /\ NextBlockHeight = Len(forks[LatestForkCnt + 1].agreements)
      /\ LatestState = Tip(r)
  BY <1>1, <1>2, <1>4, LatestFork, LatestTip
<1> QED
  BY <1>3, <1>4, <1>6, <1>7, <1>8, <1>9

(* The EVM stays at the state of the latest fork.                          *)
LEMMA MachineKept ==
    ASSUME IInv, IInv', PeerInv, AmongHonest, WellBehaved, [Next]_vars
    PROVE  MachineFollowsFork'
<1> SUFFICES ASSUME forks' # <<>>, \A t \in Tasks : tasks'[t].pc # "seal"
             PROVE  machine' = LatestState'
  BY DEF MachineFollowsFork
<1>1. /\ forks \in Seq(ForkRecord) /\ forks' \in Seq(ForkRecord)
      /\ tasks \in [Tasks -> Task]
  BY DEF IInv, Typing
<1>2. LatestState' = Tip(forks'[Len(forks')])
  BY <1>1, LatestTipAfter
<1>3. ASSUME NEW e \in Settlements, SetState(e)
      PROVE  machine' = LatestState'
  <2>1. machine' = e.state /\ forks'[Len(forks')].genesis = e.state
        /\ forks'[Len(forks')].agreements = <<>>
    BY <1>3, SettledFork
  <2>2. PICK r : r = forks'[Len(forks')]
    OBVIOUS
  <2>3. Len(r.agreements) = 0
    BY <2>1, <2>2
  <2>4. Tip(r) = r.genesis
    BY <2>3 DEF Tip, StateBefore
  <2> QED
    BY <1>2, <2>1, <2>2, <2>4
<1>4. ASSUME NEW t \in Tasks, AcceptBlock(t) \/ PlaySealed(t)
      PROVE  machine' = LatestState'
  <2>1. PICK b : b = tasks[t].msg.block
    OBVIOUS
  <2>2. b \in Block /\ Placed(b, forks) /\ forks' = WithBlock(b)
    BY <1>4, <2>1, BlockAdded
  <2>3. b.forkCnt + 1 = Len(forks) /\ machine' = b.state
    <3>1. CASE AcceptBlock(t)
      <4>1. Decides(t, {"TOO_EARLY", "ASK_CHAIN", "EXECUTE"}) \/ Answered(t)
        BY <3>1 DEF AcceptBlock, Outcome, Decides
      <4>2. b.forkCnt = Len(forks) - 1 /\ b.state = StateTransition(b)
        BY <2>1, <4>1, HonestBlock
      <4>3. machine' = StateTransition(b)
        BY <2>1, <3>1 DEF AcceptBlock
      <4> QED
        BY <1>1, <4>2, <4>3
    <3>2. CASE PlaySealed(t)
      <4>1. tasks[t].pc = "seal" /\ machine' = machine
        BY <3>2 DEF PlaySealed
      <4>2. machine = b.state
        BY <2>1, <4>1 DEF PeerInv, WriteInv
      <4>3. b.forkCnt = LatestForkCnt
        BY <2>1, <4>1 DEF AmongHonest, Undisturbed
      <4>4. forks # <<>>
        BY <2>2 DEF Placed, Block
      <4> QED
        BY <1>1, <4>1, <4>2, <4>3, <4>4, LatestTip
    <3> QED
      BY <1>4, <3>1, <3>2
  <2>4. Len(forks') = Len(forks) /\ Tip(forks'[Len(forks)]) = b.state
    BY <2>2, <2>3, TipOfBlock
  <2> QED
    BY <1>2, <2>3, <2>4
<1>5. CASE /\ ~\E e \in Settlements : SetState(e)
           /\ ~\E t \in Tasks : AcceptBlock(t) \/ PlaySealed(t)
  <2>1. Unextended(forks, forks') /\ Len(forks') = Len(forks)
    BY <1>5, ForksChange
  <2>2. forks # <<>>
    BY <1>1, <2>1
  <2>3. \A t \in Tasks : tasks[t].pc # "seal"
    BY <1>5, SealStays, NothingRejected
  <2>4. ASSUME NEW t \in Tasks, PlayApplied(t) PROVE FALSE
    <3>1. PICK b : tasks' = [tasks EXCEPT ![t].pc = "seal", ![t].msg.block = b]
      BY <2>4 DEF PlayApplied
    <3>2. tasks'[t].pc = "seal"
      BY <1>1, <3>1 DEF Task
    <3> QED
      BY <3>2
  <2>5. machine' = machine
    BY <1>5, <2>4, MachineMoves, NothingRejected
  <2>6. LatestState' = LatestState
    BY <2>1, <2>2, SameTip
  <2> QED
    BY <2>2, <2>3, <2>5, <2>6 DEF PeerInv, MachineFollowsFork
<1> QED
  BY <1>3, <1>4, <1>5

(* Only a settlement is an event that is counted.                          *)
LEMMA EventsStay ==
    ASSUME [Next]_vars, ~\E e \in Settlements : SetState(e)
    PROVE  nextEvent' = nextEvent
BY DEF Next, Step, Validate, Confirm, Author, IgnoreBlock, IgnoreDuplicate,
       QueueBlock, RejectConflict, RejectBlock, RejectExecuted, RejectFuture, AskChain,
       AcceptBlock, AcceptUnseen, ConfirmBlock, ConfirmThrows, PlayRefused, PlayApplied,
       PlaySealed, PlayThrows, Callback, Event, Environment, ProcessQueue, CheckTimeout,
       TimeoutAnswered, DelayedTimeout, MaybePost, DisputeUpdated, CollectBlock,
       CollectThrows, ReceiveBlock, ReceiveConfirmation, Play, PeerPosts, Tick, vars, chain

(* A transaction that waits for the mutex, or has just got it, is about    *)
(* the peer's turn still, or about a fork before the latest.               *)
LEMMA PlayWaits ==
    ASSUME IInv, IInv', PeerInv, AmongHonest, [Next]_vars, NEW u \in Tasks,
           tasks[u].pc \in {"playLock", "play"}
    PROVE  IF forks' = <<>> THEN nextEvent' # 0
           ELSE tasks[u].msg.block.forkCnt = LatestForkCnt' =>
                   /\ tasks[u].msg.block.transactionCnt = NextBlockHeight'
                   /\ NextToWrite(LatestState') = Me
<1>1. PICK b : b = tasks[u].msg.block
  OBVIOUS
<1>2. /\ forks \in Seq(ForkRecord) /\ forks' \in Seq(ForkRecord)
      /\ b \in Block /\ Reaches(b, forks)
  BY <1>1 DEF IInv, Typing, TaskInv, SignedBlock
<1>3. IF forks = <<>> THEN nextEvent # 0
      ELSE b.forkCnt = LatestForkCnt =>
               b.transactionCnt = NextBlockHeight /\ NextToWrite(LatestState) = Me
  BY <1>1 DEF PeerInv, WriteInv
<1>4. CASE \E e \in Settlements : SetState(e)
  <2>1. PICK e \in Settlements : SetState(e)
    BY <1>4
  <2>2. /\ nextEvent' = nextEvent + 1 /\ nextEvent \in Nat
        /\ \/ forks = <<>> /\ nextEvent # 0 /\ forks' = <<>>
           \/ nextEvent = Len(forks) /\ Len(forks') = Len(forks) + 1
    BY <2>1, SettledFork
  <2>3. CASE forks' = <<>>
    BY <2>2, <2>3
  <2>4. CASE forks' # <<>>
    <3>1. nextEvent = Len(forks) /\ Len(forks') = Len(forks) + 1
      BY <2>2, <2>4
    <3>2. forks # <<>>
      BY <1>3, <3>1
    <3>3. b.forkCnt < Len(forks) /\ Len(forks) \in Nat /\ b.forkCnt \in Nat
      BY <1>2, <3>2, LatestIs DEF Reaches, Block
    <3>4. LatestForkCnt' = Len(forks)
      BY <1>2, <2>4, <3>1, <3>3, LatestTipAfter
    <3> QED
      BY <1>1, <2>4, <3>3, <3>4
  <2> QED
    BY <2>3, <2>4
<1>5. ASSUME NEW t \in Tasks, AcceptBlock(t), ~\E e \in Settlements : SetState(e)
      PROVE  forks' # <<>> /\ b.forkCnt # LatestForkCnt'
  <2>1. Decides(t, {"TOO_EARLY", "ASK_CHAIN", "EXECUTE"}) \/ Answered(t)
    BY <1>5 DEF AcceptBlock, Outcome, Decides
  <2>2. Holding(t) /\ Writer # Me
    BY <2>1, HonestBlock
  <2>3. Len(forks') = Len(forks) /\ forks # <<>>
    BY <1>5, <2>1, OutcomeFacts, BlockAdded
  <2>4. \A v \in Tasks : tasks[v].pc # "seal"
    BY <2>1, <2>2 DEF Decides, Answered, Holding, IInv, LockDiscipline
  <2>5. NextToWrite(LatestState) # Me
    BY <2>2, <2>3, <2>4 DEF Writer, PeerInv, MachineFollowsFork
  <2>6. forks' # <<>>
    BY <1>2, <2>3, LatestIs
  <2>7. LatestForkCnt' = LatestForkCnt
    BY <1>2, <2>3, <2>6, LatestTipAfter, LatestFork
  <2> QED
    BY <1>3, <2>3, <2>5, <2>6, <2>7
<1>6. ASSUME NEW t \in Tasks, PlaySealed(t) PROVE FALSE
  <2>1. tasks[t].pc = "seal"
    BY <1>6 DEF PlaySealed
  <2>2. Playing(t) /\ Playing(u)
    BY <2>1 DEF Playing
  <2> QED
    BY <2>1, <2>2 DEF PeerInv, OnePlays
<1>7. CASE /\ ~\E e \in Settlements : SetState(e)
           /\ ~\E t \in Tasks : AcceptBlock(t) \/ PlaySealed(t)
  <2>1. Unextended(forks, forks') /\ Len(forks') = Len(forks)
    BY <1>7, ForksChange
  <2>2. nextEvent' = nextEvent
    BY <1>7, EventsStay
  <2>3. CASE forks = <<>>
    <3>1. forks' = <<>>
      BY <1>2, <2>1, <2>3
    <3> QED
      BY <1>3, <2>2, <2>3, <3>1
  <2>4. CASE forks # <<>>
    BY <1>1, <1>3, <2>1, <2>4, SameTip
  <2> QED
    BY <2>3, <2>4
<1> QED
  BY <1>1, <1>4, <1>5, <1>6, <1>7

(* What is being sealed keeps its place, and the EVM the state it is at.   *)
LEMMA SealWaits ==
    ASSUME IInv, IInv', PeerInv, AmongHonest, AmongHonest', WellBehaved, [Next]_vars,
           NEW u \in Tasks, tasks[u].pc = "seal", tasks'[u] = tasks[u]
    PROVE  Placed(tasks[u].msg.block, forks') /\ machine' = tasks[u].msg.block.state
<1>1. PICK b : b = tasks[u].msg.block
  OBVIOUS
<1>2. /\ forks \in Seq(ForkRecord) /\ forks' \in Seq(ForkRecord) /\ b \in Block
      /\ tasks \in [Tasks -> Task] /\ Placed(b, forks) /\ machine = b.state
  BY <1>1 DEF IInv, Typing, TaskInv, SignedBlock, PeerInv, WriteInv
<1>3. Holding(u) /\ \A t \in Tasks : Holding(t) => t = u
  BY DEF Holding, IInv, LockDiscipline
<1>4. ASSUME NEW e \in Settlements, SetState(e) PROVE FALSE
  <2>1. b.forkCnt = LatestForkCnt'
    BY <1>1 DEF AmongHonest, Undisturbed
  <2>2. b.forkCnt \in Nat /\ b.forkCnt < Len(forks) /\ forks # <<>> /\ Len(forks) \in Nat
    BY <1>2 DEF Placed, Block
  <2>3. Len(forks') = Len(forks) + 1
    BY <1>4, <2>2, SettledFork
  <2>4. forks' # <<>>
    BY <2>2, <2>3
  <2>5. LatestForkCnt' = Len(forks)
    BY <1>2, <2>2, <2>3, <2>4, LatestTipAfter
  <2> QED
    BY <2>1, <2>2, <2>5
<1>5. ASSUME NEW t \in Tasks, AcceptBlock(t) \/ PlaySealed(t) PROVE FALSE
  <2>1. t = u
    BY <1>3, <1>5, BlockAdded
  <2>2. PlaySealed(u)
    BY <1>5, <2>1 DEF AcceptBlock, Outcome, Decides, Answered
  <2>3. Moves(u, Idle)
    BY <1>3, <2>2, IdleIsTask, InvariantExcludes, UnlockLemma DEF PlaySealed
  <2>4. tasks'[u] = Idle
    BY <2>3, IdleIsTask DEF Moves
  <2> QED
    BY <2>4, IdleIsTask
<1>6. ASSUME NEW t \in Tasks, PlayApplied(t) PROVE FALSE
  <2>1. tasks[t].pc = "play"
    BY <1>6 DEF PlayApplied
  <2>2. t = u
    BY <1>3, <2>1 DEF Holding
  <2> QED
    BY <2>1, <2>2
<1>7. Unextended(forks, forks')
  BY <1>5, ForksChange
<1>8. Placed(b, forks')
  BY <1>2, <1>7, GrownPlaces DEF Unextended
<1>9. machine' = machine
  BY <1>4, <1>5, <1>6, MachineMoves, NothingRejected
<1> QED
  BY <1>1, <1>2, <1>8, <1>9

(* Where the peer has not signed it has not signed still.                  *)
Unsigned(F, G) ==
    \A i \in 1..Len(F) : \A j \in 1..Len(F[i].agreements) :
        Me \notin F[i].agreements[j].signers => Me \notin G[i].agreements[j].signers

(* A confirmation of somebody else is not a signature of the peer.         *)
LEMMA OthersSign ==
    ASSUME forks \in Seq(ForkRecord), NEW b \in Block, InChain(b, forks),
           NEW S \in SUBSET Addr, Me \notin S
    PROVE  Unsigned(forks, WithSigners(b, S))
<1>1. PICK k \in 1..Len(forks) : k = b.forkCnt + 1
  BY DEF Block, InChain
<1>2. PICK r \in ForkRecord : r = forks[k]
  BY <1>1, ElementOf
<1>3. PICK A \in Seq(Agreements) : A = r.agreements
  BY DEF ForkRecord
<1>4. PICK h \in 1..Len(A) : h = b.transactionCnt + 1
  BY <1>1, <1>2, <1>3 DEF Block, InChain
<1>5. PICK a \in Agreements : a = A[h]
  BY <1>3, <1>4, ElementOf
<1>6. PICK c \in Agreements : c = [a EXCEPT !.signers = @ \cup S]
  BY DEF Agreements
<1>7. PICK B \in Seq(Agreements) : B = [A EXCEPT ![h] = c]
  <2>1. [A EXCEPT ![h] = c] \in Seq(Agreements)
    OBVIOUS
  <2> QED
    BY <2>1
<1>8. PICK s \in ForkRecord : s = [r EXCEPT !.agreements = B]
  BY DEF ForkRecord
<1>9. WithSigners(b, S) = [forks EXCEPT ![k] = s]
  BY <1>1, <1>2, <1>3, <1>4, <1>5, <1>6, <1>7, <1>8 DEF WithSigners
<1>10. ASSUME NEW i \in 1..Len(forks), NEW j \in 1..Len(forks[i].agreements),
              Me \notin forks[i].agreements[j].signers
       PROVE  Me \notin WithSigners(b, S)[i].agreements[j].signers
  <2>1. CASE i # k
    BY <1>9, <1>10, <2>1
  <2>2. CASE i = k
    <3>1. WithSigners(b, S)[i].agreements = B /\ forks[i].agreements = A
      BY <1>2, <1>3, <1>8, <1>9, <2>2 DEF ForkRecord
    <3>2. B[j] = IF j = h THEN c ELSE A[j]
      BY <1>3, <1>4, <1>7, <1>10, <3>1
    <3>3. c.signers = a.signers \cup S
      BY <1>6 DEF Agreements
    <3> QED
      BY <1>5, <1>10, <3>1, <3>2, <3>3
  <2> QED
    BY <2>1, <2>2
<1> QED
  BY <1>10 DEF Unsigned

(* Neither is a post, nor a new fork.                                      *)
LEMMA NobodySigns ==
    ASSUME forks \in Seq(ForkRecord)
    PROVE  /\ \A p \in Post : IsValidForkCnt(p.block.forkCnt) =>
                 Unsigned(forks, WithChainBlock(p))
           /\ \A f, state, time : Unsigned(forks, WithFork(f, state, time))
<1>1. ASSUME NEW p \in Post, IsValidForkCnt(p.block.forkCnt)
      PROVE  Unsigned(forks, WithChainBlock(p))
  <2>1. PICK k \in 1..Len(forks) : k = p.block.forkCnt + 1
    BY <1>1 DEF Post, Block, IsValidForkCnt
  <2>2. PICK r \in ForkRecord : r = forks[k]
    BY <2>1, ElementOf
  <2>3. PICK b : b = p.block
    OBVIOUS
  <2>4. PICK C : C = r.chainBlocks \cup {[transactionCnt |-> b.transactionCnt,
                                          participant    |-> b.participant,
                                          timestamp      |-> p.timestamp]}
    OBVIOUS
  <2>5. PICK s : s = [r EXCEPT !.chainBlocks = C]
    OBVIOUS
  <2>6. s.agreements = r.agreements
    BY <2>2, <2>5 DEF ForkRecord
  <2>7. WithChainBlock(p) = forks \/ WithChainBlock(p) = [forks EXCEPT ![k] = s]
    BY <2>1, <2>2, <2>3, <2>4, <2>5 DEF WithChainBlock
  <2>8. \A i \in 1..Len(forks) : WithChainBlock(p)[i].agreements = forks[i].agreements
    BY <2>1, <2>2, <2>6, <2>7
  <2> QED
    BY <2>8 DEF Unsigned
<1>2. ASSUME NEW f, NEW state, NEW time
      PROVE  Unsigned(forks, WithFork(f, state, time))
  <2>1. PICK r : r = [ genesis |-> state, genesisTimestamp |-> time,
                       chainBlocks |-> {}, agreements |-> <<>> ]
    OBVIOUS
  <2>2. WithFork(f, state, time) = forks \/ WithFork(f, state, time) = Append(forks, r)
    BY <2>1 DEF WithFork
  <2>3. \A i \in 1..Len(forks) : WithFork(f, state, time)[i] = forks[i]
    BY <2>2
  <2> QED
    BY <2>3 DEF Unsigned
<1> QED
  BY <1>1, <1>2

(* While a call has the lock and signs, nothing else confirms a block in   *)
(* the peer's name.                                                        *)
LEMMA NotSigned ==
    ASSUME IInv, WellBehaved, [Next]_vars, NEW u \in Tasks,
           tasks[u].pc = "sign", tasks'[u] = tasks[u]
    PROVE  Unsigned(forks, forks')
<1>1. /\ forks \in Seq(ForkRecord) /\ tasks \in [Tasks -> Task] /\ Holding(u)
      /\ \A t \in Tasks : Holding(t) => t = u
  BY DEF IInv, Typing, LockDiscipline, Holding
<1>2. CASE forks' = forks
  BY <1>2 DEF Unsigned
<1>3. ASSUME NEW e \in Settlements, SetState(e)
      PROVE  Unsigned(forks, forks')
  BY <1>1, <1>3, NobodySigns DEF SetState
<1>4. ASSUME NEW p \in posted, CollectBlock(p)
      PROVE  Unsigned(forks, forks')
  <2>1. p \in Post /\ IsValidForkCnt(p.block.forkCnt)
    BY <1>4 DEF CollectBlock, IInv, Typing
  <2>2. forks' = forks \/ forks' = WithChainBlock(p)
    BY <1>4 DEF CollectBlock
  <2> QED
    BY <1>1, <1>2, <2>1, <2>2, NobodySigns
<1>5. ASSUME NEW t \in Tasks, NEW c \in Confirmations, ReceiveConfirmation(t, c)
      PROVE  Unsigned(forks, forks')
  <2>1. c \in Confirmation /\ c.confirmer # Me
    BY InputsAssumption DEF WellBehaved
  <2>2. c.block \in Block /\ {c.confirmer} \in SUBSET Addr /\ Me \notin {c.confirmer}
    BY <2>1 DEF Confirmation
  <2>3. CASE IsBlockInChain(c.block)
    <3>1. forks' = WithSigners(c.block, {c.confirmer}) /\ InChain(c.block, forks)
      BY <1>5, <2>3, InChainIsIsBlockInChain DEF ReceiveConfirmation
    <3> QED
      BY <1>1, <2>2, <3>1, OthersSign
  <2>4. CASE ~IsBlockInChain(c.block)
    BY <1>2, <1>5, <2>4 DEF ReceiveConfirmation
  <2> QED
    BY <2>3, <2>4
<1>6. ASSUME NEW t \in Tasks, Step(t), forks' # forks
      PROVE  FALSE
  <2>1. IgnoreDuplicate(t) \/ ConfirmBlock(t) \/ AcceptBlock(t) \/ PlaySealed(t)
    BY <1>6 DEF Step, Validate, Confirm, Author, IgnoreBlock, QueueBlock, RejectConflict,
       RejectBlock, RejectExecuted, RejectFuture, AskChain, AcceptUnseen, ConfirmThrows,
       PlayRefused, PlayApplied, PlayThrows, agreement
  <2>2. Holding(t)
    BY <2>1 DEF IgnoreDuplicate, ConfirmBlock, AcceptBlock, PlaySealed, Outcome, Decides,
       Answered, Holding
  <2>3. t = u
    BY <1>1, <2>2
  <2>4. ConfirmBlock(u)
    BY <2>1, <2>3 DEF IgnoreDuplicate, AcceptBlock, PlaySealed, Outcome, Decides, Answered
  <2>5. PICK next : next = After(u, "SUCCESS")
    OBVIOUS
  <2>6. Unlock(u, next) /\ TaskInv(tasks[u], forks, released)
    BY <2>4, <2>5 DEF ConfirmBlock, IInv
  <2>7. Moves(u, next) /\ next \in Task /\ (next = Idle \/ next.pc = "lock")
    BY <1>1, <2>5, <2>6, UnlockAfter, AfterInv
  <2>8. next.pc \in {"idle", "lock"} /\ (next.pc = "lock" => Granted(next).pc = "validate")
    BY <2>7, IdleIsTask, GrantedIsTask
  <2> QED
    BY <2>7, <2>8 DEF Moves
<1>7. \/ \E t \in Tasks : Step(t)
      \/ \E e \in Settlements : SetState(e)
      \/ \E p \in posted : CollectBlock(p)
      \/ \E t \in Tasks : \E c \in Confirmations : ReceiveConfirmation(t, c)
      \/ forks' = forks
  BY DEF Next, Callback, Event, Environment, ProcessQueue, CheckTimeout, TimeoutAnswered,
         DelayedTimeout, MaybePost, DisputeUpdated, CollectThrows, ReceiveBlock, Play,
         PeerPosts, Tick, vars, agreement
<1> QED
  BY <1>2, <1>3, <1>4, <1>5, <1>6, <1>7

(* CanConfirm, in terms of the forks.                                      *)
Confirmable(b, F) ==
    InChain(b, F) /\ Me \notin F[b.forkCnt + 1].agreements[b.transactionCnt + 1].signers

(* It is the same, before a step and after it.                             *)
LEMMA ConfirmableIsCanConfirm ==
    ASSUME NEW t \in Tasks
    PROVE  /\ CanConfirm(tasks[t].msg.block) <=> Confirmable(tasks[t].msg.block, forks)
           /\ CanConfirm(tasks[t].msg.block)' <=> Confirmable(tasks'[t].msg.block, forks')
<1>1. CanConfirm(tasks[t].msg.block) <=> Confirmable(tasks[t].msg.block, forks)
  BY DEF CanConfirm, Confirmable, IsBlockInChain, InChain, Agreed, IsValidForkCnt,
         AgreementAt, Fork
<1>2. CanConfirm(tasks[t].msg.block)' <=> Confirmable(tasks'[t].msg.block, forks')
  BY DEF CanConfirm, Confirmable, IsBlockInChain, InChain, Agreed, IsValidForkCnt,
         AgreementAt, Fork
<1> QED
  BY <1>1, <1>2

(* So the block can be confirmed still when the signature is there.        *)
LEMMA SignWaits ==
    ASSUME IInv, IInv', PeerInv, WellBehaved, [Next]_vars, NEW u \in Tasks,
           tasks[u].pc = "sign", tasks'[u] = tasks[u]
    PROVE  Confirmable(tasks[u].msg.block, forks')
<1>1. PICK b : b = tasks[u].msg.block
  OBVIOUS
<1>2. /\ forks \in Seq(ForkRecord) /\ forks' \in Seq(ForkRecord) /\ b \in Block
      /\ Grown(forks, forks')
  BY <1>1, NextKeepsInvariant, StutterKeepsInvariant
     DEF IInv, Typing, TaskInv, SignedBlock
<1>3. Confirmable(b, forks)
  BY <1>1, ConfirmableIsCanConfirm DEF PeerInv, WriteInv
<1>4. PICK k \in 1..Len(forks) : k = b.forkCnt + 1
  BY <1>2, <1>3 DEF Confirmable, InChain, Block
<1>5. PICK A \in Seq(Agreements) : A = forks[k].agreements
  <2>1. forks[k] \in ForkRecord
    BY <1>2, ElementOf
  <2> QED
    BY <2>1 DEF ForkRecord
<1>6. PICK h \in 1..Len(A) : h = b.transactionCnt + 1
  BY <1>2, <1>3, <1>4, <1>5 DEF Confirmable, InChain, Block
<1>7. Me \notin forks'[k].agreements[h].signers
  BY <1>3, <1>4, <1>5, <1>6, NotSigned DEF Confirmable, Unsigned
<1>8. InChain(b, forks')
  BY <1>2, <1>3, GrownPlaces DEF Confirmable
<1> QED
  BY <1>1, <1>4, <1>6, <1>7, <1>8 DEF Confirmable

(* A block that has just been added has its author's signature only.       *)
LEMMA AcceptSigns ==
    ASSUME IInv, NEW u \in Tasks, AcceptBlock(u)
    PROVE  Confirmable(tasks[u].msg.block, forks')
<1>1. PICK b : b = tasks[u].msg.block
  OBVIOUS
<1>2. /\ forks \in Seq(ForkRecord) /\ Ordered(forks)
      /\ b \in Block /\ Placed(b, forks) /\ Faithful(b)
      /\ b.participant # Me /\ forks' = WithBlock(b)
  BY <1>1, AcceptedBlock DEF IInv, Typing, AcceptBlock
<1>3. InChain(b, forks')
  BY <1>2, WithBlockLemma
<1>4. PICK k : k = b.forkCnt + 1
  OBVIOUS
<1>5. PICK a : a = AgreementOn(b, b.state)
  OBVIOUS
<1>6. PICK A \in Seq(Agreements) : A = forks[k].agreements
  BY <1>2, <1>4, BlockAppended
<1>7. /\ a \in Agreements /\ Len(A) \in Nat
      /\ forks'[k].agreements = Append(A, a)
  BY <1>2, <1>4, <1>5, <1>6, BlockAppended
<1>8. b.transactionCnt = Len(A)
  BY <1>2, <1>4, <1>6 DEF Placed
<1>9. forks'[k].agreements[b.transactionCnt + 1] = a
  BY <1>7, <1>8
<1>10. a.signers = {b.participant}
  BY <1>5 DEF AgreementOn
<1> QED
  BY <1>1, <1>2, <1>3, <1>4, <1>9, <1>10 DEF Confirmable

(* A transaction is applied at the next place of the latest fork.          *)
LEMMA AppliedIsPlaced ==
    ASSUME IInv, PeerInv, AmongHonest', NEW u \in Tasks, PlayApplied(u)
    PROVE  /\ tasks'[u].pc = "seal"
           /\ Placed(tasks'[u].msg.block, forks') /\ machine' = tasks'[u].msg.block.state
<1>1. PICK header : header = tasks[u].msg.block
  OBVIOUS
<1>2. PICK b : b = CreateBlock(header, ApplyTransaction(header))
  OBVIOUS
<1>3. /\ tasks[u].pc = "play" /\ IsMyTurn /\ forks # <<>> /\ forks' = forks
      /\ machine' = StateTransition(header)
      /\ tasks' = [tasks EXCEPT ![u].pc = "seal", ![u].msg.block = b]
  BY <1>1, <1>2 DEF PlayApplied, ApplyTransaction
<1>4. /\ tasks \in [Tasks -> Task] /\ tasks[u] \in Task /\ tasks[u].msg \in SignedBlock
      /\ header \in Block /\ header.participant = Me
      /\ forks \in Seq(ForkRecord)
  BY <1>1, <1>3 DEF IInv, Typing, TaskInv, SignedBlock
<1>5. tasks'[u].pc = "seal" /\ tasks'[u].msg.block = b
  BY <1>3, <1>4 DEF Task, SignedBlock
<1>6. b.forkCnt = header.forkCnt /\ b.transactionCnt = header.transactionCnt
  BY <1>2, <1>3, <1>4, CreatedBlock
<1>7. b.state = StateTransition(header)
  <2>1. b = [header EXCEPT !.timestamp     = AdjustedTimestamp(header),
                           !.previousState = machine,
                           !.state         = StateTransition(header)]
    BY <1>2 DEF CreateBlock, ApplyTransaction
  <2> QED
    BY <1>4, <2>1 DEF Block
<1>8. header.forkCnt = LatestForkCnt
  <2>1. b.forkCnt = LatestForkCnt'
    BY <1>5 DEF AmongHonest, Undisturbed
  <2> QED
    BY <1>3, <1>6, <2>1 DEF LatestForkCnt
<1>9. header.transactionCnt = NextBlockHeight
  BY <1>1, <1>3, <1>8 DEF PeerInv, WriteInv
<1>10. Placed(b, forks)
  BY <1>3, <1>4, <1>6, <1>8, <1>9, LatestFork DEF Placed
<1> QED
  BY <1>3, <1>5, <1>7, <1>10

(* A transaction the user plays is about the peer's turn.                  *)
LEMMA PlayStarts ==
    ASSUME IInv, PeerInv, WellBehaved, NEW u \in Tasks, NEW a \in Amounts, Play(u, a)
    PROVE  WriteInv(tasks[u])'
<1>1. PICK next \in Task : /\ Lock(u, next) /\ next.pc = "playLock"
                           /\ next.msg.block.forkCnt = LatestForkCnt
                           /\ next.msg.block.transactionCnt = NextBlockHeight
  BY PlayedCall
<1>2. Granted(next).pc = "play" /\ Granted(next).msg = next.msg
  BY <1>1, GrantedIsTask
<1>3. tasks'[u].pc \in {"playLock", "play"} /\ tasks'[u].msg = next.msg
  <2>1. tasks'[u] = next \/ tasks'[u] = Granted(next)
    BY <1>1 DEF Lock, IInv, Typing
  <2> QED
    BY <1>1, <1>2, <2>1
<1>4. /\ IsMyTurn /\ (\A t \in Tasks : ~Playing(t))
      /\ UNCHANGED <<agreement, chain>>
  BY DEF Play, WellBehaved
<1>5. forks' = forks /\ nextEvent' = nextEvent
  BY <1>4 DEF agreement, chain
<1>6. LatestForkCnt' = LatestForkCnt /\ NextBlockHeight' = NextBlockHeight
      /\ LatestState' = LatestState
  BY <1>5 DEF LatestForkCnt, NextBlockHeight, LatestState, Fork
<1>7. forks = <<>> => nextEvent # 0
  BY <1>4 DEF IsMyTurn, PeerInv, InSequence
<1>8. forks # <<>> => NextToWrite(LatestState) = Me
  <2>1. \A t \in Tasks : tasks[t].pc # "seal"
    BY <1>4 DEF Playing
  <2> QED
    BY <1>4, <2>1 DEF IsMyTurn, Writer, PeerInv, MachineFollowsFork
<1> QED
  BY <1>1, <1>3, <1>5, <1>6, <1>7, <1>8 DEF WriteInv

(* What holds of the calls that write or sign is kept.                     *)
LEMMA WriteKept ==
    ASSUME IInv, IInv', PeerInv, AmongHonest, AmongHonest', WellBehaved, [Next]_vars,
           NEW u \in Tasks
    PROVE  WriteInv(tasks[u])'
<1>1. tasks \in [Tasks -> Task] /\ tasks[u] \in Task
  BY DEF IInv, Typing
<1>2. CASE tasks'[u] = tasks[u]
  <2>1. CASE tasks[u].pc \in {"playLock", "play"}
    BY <1>2, <2>1, PlayWaits DEF WriteInv
  <2>2. CASE tasks[u].pc = "seal"
    BY <1>2, <2>2, SealWaits DEF WriteInv
  <2>3. CASE tasks[u].pc = "sign"
    <3>1. CanConfirm(tasks[u].msg.block)'
      BY <1>2, <2>3, SignWaits, ConfirmableIsCanConfirm
    <3> QED
      BY <1>2, <2>3, <3>1 DEF WriteInv
  <2>4. CASE tasks[u].pc \notin {"playLock", "play", "seal", "sign"}
    BY <1>2, <2>4 DEF WriteInv
  <2> QED
    BY <2>1, <2>2, <2>3, <2>4
<1>3. CASE Waiting(u) /\ tasks'[u] = Granted(tasks[u])
  <2>1. /\ tasks'[u].pc = IF tasks[u].pc = "lock" THEN "validate" ELSE "play"
        /\ tasks'[u].msg = tasks[u].msg
    BY <1>1, <1>3, GrantedIsTask DEF Waiting
  <2>2. CASE tasks[u].pc = "lock"
    BY <2>1, <2>2 DEF WriteInv
  <2>3. CASE tasks[u].pc = "playLock"
    BY <2>1, <2>3, PlayWaits DEF WriteInv
  <2> QED
    BY <1>3, <2>2, <2>3 DEF Waiting
<1>4. CASE tasks'[u].pc \in {"idle", "lock", "validate"}
  BY <1>4 DEF WriteInv
<1>5. CASE AskChain(u)
  <2>1. tasks'[u].pc = "askChain"
    BY <1>1, <1>5 DEF AskChain, Task
  <2> QED
    BY <2>1 DEF WriteInv
<1>6. CASE AcceptBlock(u)
  <2>1. tasks'[u].pc = "sign" /\ tasks'[u].msg = tasks[u].msg
    BY <1>1, <1>6 DEF AcceptBlock, Task
  <2>2. CanConfirm(tasks[u].msg.block)'
    BY <1>6, <2>1, AcceptSigns, ConfirmableIsCanConfirm
  <2> QED
    BY <2>1, <2>2 DEF WriteInv
<1>7. CASE PlayApplied(u)
  BY <1>7, AppliedIsPlaced DEF WriteInv
<1>8. CASE \E a \in Amounts : Play(u, a)
  BY <1>8, PlayStarts
<1> QED
  BY <1>2, <1>3, <1>4, <1>5, <1>6, <1>7, <1>8, CallsMove, NothingRejected
     DEF Elsewhere, Goes

(* Among honest participants every step keeps the invariant.               *)
LEMMA PeerInvKept ==
    ASSUME IInv, IInv', PeerInv, AmongHonest, AmongHonest', WellBehaved, [Next]_vars
    PROVE  PeerInv'
BY MachineKept, LockKept, NoFraudKept, SequenceKept, OnePlaysKept, WriteKept DEF PeerInv

(* It holds before anything happens.                                       *)
LEMMA InitialPeer == Init => PeerInv
<1> SUFFICES ASSUME Init PROVE PeerInv
  OBVIOUS
<1>1. /\ forks = <<>> /\ machine = NoState /\ raised = {} /\ ~mutex.isLocked
      /\ \A t \in Tasks : tasks[t] = Idle
  BY DEF Init
<1>2. \A t \in Tasks : tasks[t].pc = "idle"
  BY <1>1, IdleIsTask
<1>3. machine.participants = {}
  BY <1>1 DEF NoState
<1> QED
  BY <1>1, <1>2, <1>3 DEF PeerInv, MachineFollowsFork, LockIsHeld, NoFraudAmongHonest,
     InSequence, OnePlays, Playing, WriteInv

-----------------------------------------------------------------------------
(* The theorems.                                                           *)

(* The invariant holds of every behaviour among honest participants.       *)
THEOREM PeerInvariance ==
    ASSUME WellBehaved PROVE Spec /\ []AmongHonest => []PeerInv
<1>1. Init => PeerInv
  BY InitialPeer
<1>2. IInv /\ IInv' /\ PeerInv /\ AmongHonest /\ AmongHonest' /\ [Next]_vars => PeerInv'
  BY PeerInvKept
<1> QED
  BY <1>1, <1>2, Invariance, PTL DEF Spec

(* "The users follow the state machine set by the latest fork" (types.ts): *)
(* among honest participants, while no fork is settled in the middle of a  *)
(* call, the EVM is at the state of the latest fork's last block unless a  *)
(* transaction is just being sealed.                                       *)
THEOREM MachineFollowsForkHolds ==
    ASSUME WellBehaved PROVE Spec /\ []AmongHonest => []MachineFollowsFork
<1>1. PeerInv => MachineFollowsFork
  BY DEF PeerInv
<1> QED
  BY <1>1, PeerInvariance, PTL

(* Among honest participants nobody is accused of a fraud, in whatever     *)
(* order, and however late, their blocks, confirmations and posts arrive   *)
(* (validateSignedBlock, collectOnChainBlock).                             *)
THEOREM NoFraudAmongHonestHolds ==
    ASSUME WellBehaved PROVE Spec /\ []AmongHonest => []NoFraudAmongHonest
<1>1. PeerInv => NoFraudAmongHonest
  BY DEF PeerInv
<1> QED
  BY <1>1, PeerInvariance, PTL

(* Among honest participants the mutex is only locked while some call is   *)
(* inside: no exception leaves it locked (onSignedBlock, playTransaction). *)
THEOREM LockIsHeldHolds ==
    ASSUME WellBehaved PROVE Spec /\ []AmongHonest => []LockIsHeld
<1>1. PeerInv => LockIsHeld
  BY DEF PeerInv
<1> QED
  BY <1>1, PeerInvariance, PTL

(* Among honest participants nothing more is needed for the history of     *)
(* every fork and for the timeouts.                                        *)
THEOREM HonestHistory ==
    ASSUME WellBehaved PROVE Spec /\ []AmongHonest => [](ChainLinked /\ TimeoutsAreDue)
<1>1. PeerInv /\ AmongHonest => Steady
  BY DEF PeerInv, AmongHonest, Steady
<1> QED
  BY <1>1, PeerInvariance, ChainLinkedHolds, TimeoutsAreDueHolds, PTL

=============================================================================
