---------------------- MODULE StateManagerHistoryProofs ----------------------
(***************************************************************************)
(* What holds of StateManager as long as the EVM is at the state of the    *)
(* latest fork and no fork is settled in the middle of a call: the chain   *)
(* of every fork is one history, and timeouts are due.  Peers may send     *)
(* anything; the signer, the chain and the user may fail.                  *)
(***************************************************************************)
EXTENDS StateManagerProofs

(* The state and the time before the block at place j of a fork.           *)
StateBefore(r, j) == IF j = 1 THEN r.genesis ELSE r.agreements[j - 1].state

TimeBefore(r, j) ==
    IF j = 1 THEN r.genesisTimestamp ELSE r.agreements[j - 1].block.timestamp

(* LatestBlockTimestamp of a fork, and the state it is at.                 *)
Newest(r) ==
    LET n == Len(r.agreements)
    IN  MaxOf(r.genesisTimestamp, IF n = 0 THEN 0 ELSE r.agreements[n].block.timestamp)

Tip(r) == StateBefore(r, Len(r.agreements) + 1)

(* The blocks of a fork are one history, from the settled state on, and no *)
(* later block is older than an earlier one.                               *)
Chained(r) ==
    \A j \in 1..Len(r.agreements) :
        LET b == r.agreements[j].block
        IN  /\ b.previousState = StateBefore(r, j)
            /\ b.timestamp >= r.genesisTimestamp
            /\ \A k \in 1..j : r.agreements[k].block.timestamp <= b.timestamp

(* No fork is settled while a call waits, for the chain or the signer,     *)
(* with a block of the fork before.                                        *)
Undisturbed ==
    \A t \in Tasks :
        tasks[t].pc \in {"askChain", "seal"} => tasks[t].msg.block.forkCnt = LatestForkCnt

Steady == MachineFollowsFork /\ Undisturbed

(* The block a call holds while it waits for the chain is not older than   *)
(* its fork's latest; what the peer seals extends the latest fork at its   *)
(* own turn.                                                               *)
CallInv(task, F) ==
    LET b == task.msg.block
        r == F[b.forkCnt + 1]
    IN  /\ task.pc = "askChain" => b.timestamp >= Newest(r)
        /\ task.pc = "seal" => /\ b.forkCnt = Len(F) - 1
                               /\ b.timestamp >= Newest(r)
                               /\ b.previousState = Tip(r)
                               /\ NextToWrite(Tip(r)) = Me

(* The turn of a participant, or of the peer, after a block of the chain.  *)
TurnOf(f, h, a, F) ==
    /\ f \in Nat /\ h \in Nat /\ f < Len(F) /\ h <= Len(F[f + 1].agreements)
    /\ LET writer == NextToWrite(StateBefore(F[f + 1], h + 1))
       IN  a = writer \/ Me = writer

(* A timer is about such a turn, or there is no fork and it never asks the *)
(* chain; the delayed ones wait for the whole window.                      *)
TimerInv(x, F) ==
    LET f == x.turn.forkCnt  h == x.turn.transactionCnt
    IN  /\ x = [turn |-> x.turn, due |-> x.due, stage |-> x.stage]
        /\ x.due \in Nat /\ f \in Nat
        /\ IF F = <<>> THEN x.stage = "check" ELSE TurnOf(f, h, x.turn.participant, F)
        /\ x.stage = "delayed" => x.due >= TimeBefore(F[f + 1], h + 1) + TimeoutWaitTime

DueInv(r, F, time) ==
    LET f == r.forkCnt  h == r.transactionCnt
    IN  r.kind = "Timeout" =>
            /\ TurnOf(f, h, r.accused, F)
            /\ time >= TimeBefore(F[f + 1], h + 1) + TimeoutWaitTime

HInv ==
    /\ \A i \in 1..Len(forks) : Chained(forks[i])
    /\ \A t \in Tasks : CallInv(tasks[t], forks)
    /\ forks # <<>> => nextEvent # 0
    /\ nextEvent = 0 => timers = {}
    /\ \A x \in timers : TimerInv(x, forks)
    /\ \A r \in raised : DueInv(r, forks, now)

-----------------------------------------------------------------------------
(* Lemmas on forks and their histories.                                    *)

(* What a fork record holds.                                               *)
LEMMA ForkParts ==
    ASSUME NEW r \in ForkRecord
    PROVE  /\ Len(r.agreements) \in Nat /\ r.genesisTimestamp \in Nat
           /\ \A j \in 1..Len(r.agreements) :
                 /\ r.agreements[j] \in Agreements
                 /\ r.agreements[j].block \in Block
                 /\ r.agreements[j].block.timestamp \in Nat
<1>1. /\ r.agreements \in Seq(Agreements) /\ Len(r.agreements) \in Nat
      /\ r.genesisTimestamp \in Nat
  BY DEF ForkRecord
<1>2. ASSUME NEW j \in 1..Len(r.agreements)
      PROVE  /\ r.agreements[j] \in Agreements
             /\ r.agreements[j].block \in Block
             /\ r.agreements[j].block.timestamp \in Nat
  <2>1. r.agreements[j] \in Agreements
    BY <1>1, ElementOf
  <2> QED
    BY <2>1 DEF Agreements, Block
<1> QED
  BY <1>1, <1>2

(* A time before a block is a time, and no block of a history is older     *)
(* than any before it: the newest is the latest.                           *)
LEMMA NewestIsLatest ==
    ASSUME NEW r \in ForkRecord, Chained(r)
    PROVE  /\ Newest(r) \in Nat /\ Newest(r) >= r.genesisTimestamp
           /\ \A j \in 1..Len(r.agreements) : r.agreements[j].block.timestamp <= Newest(r)
           /\ \A j \in 1..(Len(r.agreements) + 1) :
                 TimeBefore(r, j) \in Nat /\ TimeBefore(r, j) <= Newest(r)
<1> DEFINE n == Len(r.agreements)
           T(j) == r.agreements[j].block.timestamp
<1>1. n \in Nat /\ r.genesisTimestamp \in Nat /\ \A j \in 1..n : T(j) \in Nat
  BY ForkParts
<1>2. CASE n = 0
  BY <1>1, <1>2 DEF Newest, MaxOf, TimeBefore
<1>3. CASE n # 0
  <2>1. n \in 1..n
    BY <1>1, <1>3
  <2>2. Newest(r) = MaxOf(r.genesisTimestamp, T(n))
    BY <1>3 DEF Newest
  <2>3. \A j \in 1..n : T(j) <= T(n)
    BY <2>1 DEF Chained
  <2>4. Newest(r) \in Nat /\ Newest(r) >= r.genesisTimestamp /\ Newest(r) >= T(n)
    <3> HIDE DEF T
    <3> QED
      BY <1>1, <2>1, <2>2 DEF MaxOf
  <2>5. \A j \in 1..n : T(j) <= Newest(r)
    <3> HIDE DEF T
    <3> QED
      BY <1>1, <2>1, <2>3, <2>4
  <2>6. ASSUME NEW j \in 1..(n + 1)
        PROVE  TimeBefore(r, j) \in Nat /\ TimeBefore(r, j) <= Newest(r)
    <3>1. CASE j = 1
      BY <1>1, <2>4, <3>1 DEF TimeBefore
    <3>2. CASE j # 1
      <4>1. j - 1 \in 1..n /\ TimeBefore(r, j) = T(j - 1)
        BY <1>1, <3>2 DEF TimeBefore
      <4> HIDE DEF T
      <4> QED
        BY <1>1, <2>5, <4>1
    <3> QED
      BY <3>1, <3>2
  <2> QED
    BY <2>4, <2>5, <2>6
<1> QED
  BY <1>2, <1>3

(* What comes before a place does not change when a fork is extended.      *)
LEMMA BeforeStays ==
    ASSUME NEW f \in ForkRecord, NEW g \in ForkRecord, Extends(f, g),
           NEW j \in 1..(Len(f.agreements) + 1)
    PROVE  StateBefore(g, j) = StateBefore(f, j) /\ TimeBefore(g, j) = TimeBefore(f, j)
<1>1. Len(f.agreements) \in Nat
  BY ForkParts
<1>2. CASE j = 1
  BY <1>2 DEF StateBefore, TimeBefore, Extends
<1>3. CASE j # 1
  <2>1. j - 1 \in 1..Len(f.agreements)
    BY <1>1, <1>3
  <2> QED
    BY <1>3, <2>1 DEF StateBefore, TimeBefore, Extends
<1> QED
  BY <1>2, <1>3

(* A fork to which only signers and posts are added has the same history.  *)
LEMMA SameHistory ==
    ASSUME NEW f \in ForkRecord, NEW g \in ForkRecord, Extends(f, g),
           Len(g.agreements) = Len(f.agreements)
    PROVE  /\ Newest(g) = Newest(f) /\ Tip(g) = Tip(f)
           /\ Chained(f) => Chained(g)
<1> DEFINE n == Len(f.agreements)
<1>1. n \in Nat /\ n + 1 \in 1..(n + 1)
  BY ForkParts
<1>2. Tip(g) = Tip(f)
  BY <1>1, BeforeStays DEF Tip
<1>3. \A j \in 1..n : g.agreements[j].block = f.agreements[j].block
  BY DEF Extends
<1>4. Newest(g) = Newest(f)
  <2>1. CASE n = 0
    BY <2>1 DEF Newest, Extends
  <2>2. CASE n # 0
    <3>1. n \in 1..n
      BY <1>1, <2>2
    <3> QED
      BY <1>3, <2>2, <3>1 DEF Newest, Extends
  <2> QED
    BY <2>1, <2>2
<1>5. ASSUME Chained(f) PROVE Chained(g)
  <2>1. ASSUME NEW j \in 1..n
        PROVE  /\ g.agreements[j].block.previousState = StateBefore(g, j)
               /\ g.agreements[j].block.timestamp >= g.genesisTimestamp
               /\ \A k \in 1..j :
                     g.agreements[k].block.timestamp <= g.agreements[j].block.timestamp
    <3>1. j \in 1..(n + 1) /\ \A k \in 1..j : k \in 1..n
      BY <1>1
    <3>2. StateBefore(g, j) = StateBefore(f, j)
      BY <3>1, BeforeStays
    <3>3. /\ f.agreements[j].block.previousState = StateBefore(f, j)
          /\ f.agreements[j].block.timestamp >= f.genesisTimestamp
          /\ \A k \in 1..j :
                f.agreements[k].block.timestamp <= f.agreements[j].block.timestamp
      BY <1>5 DEF Chained
    <3>4. g.genesisTimestamp = f.genesisTimestamp
      BY DEF Extends
    <3> QED
      BY <1>3, <3>1, <3>2, <3>3, <3>4
  <2> QED
    BY <2>1 DEF Chained
<1> QED
  BY <1>2, <1>4, <1>5

(* A turn is a turn still when forks have grown.                           *)
LEMMA TurnStays ==
    ASSUME NEW F \in Seq(ForkRecord), NEW G \in Seq(ForkRecord), Grown(F, G),
           NEW f, NEW h, NEW a, TurnOf(f, h, a, F)
    PROVE  /\ TurnOf(f, h, a, G)
           /\ TimeBefore(G[f + 1], h + 1) = TimeBefore(F[f + 1], h + 1)
<1>1. /\ f \in Nat /\ h \in Nat /\ f < Len(F) /\ h <= Len(F[f + 1].agreements)
      /\ \/ a = NextToWrite(StateBefore(F[f + 1], h + 1))
         \/ Me = NextToWrite(StateBefore(F[f + 1], h + 1))
  BY DEF TurnOf
<1>2. PICK i \in 1..Len(F) : i = f + 1
  BY <1>1
<1>3. i \in 1..Len(G) /\ f < Len(G)
  BY <1>1, <1>2 DEF Grown
<1>4. F[i] \in ForkRecord /\ G[i] \in ForkRecord /\ Extends(F[i], G[i])
  BY <1>2, <1>3, ElementOf DEF Grown
<1>5. PICK m \in Nat : m = Len(F[i].agreements)
  BY <1>4, ForkParts
<1>6. PICK n \in Nat : n = Len(G[i].agreements)
  BY <1>4, ForkParts
<1>7. h + 1 \in 1..(m + 1) /\ m <= n /\ h <= n
  BY <1>1, <1>2, <1>4, <1>5, <1>6 DEF Extends
<1>8. /\ StateBefore(G[i], h + 1) = StateBefore(F[i], h + 1)
      /\ TimeBefore(G[i], h + 1) = TimeBefore(F[i], h + 1)
  BY <1>4, <1>5, <1>7, BeforeStays
<1> QED
  BY <1>1, <1>2, <1>3, <1>6, <1>7, <1>8 DEF TurnOf

(* Every fork is as long as it was, and a new one is empty.                *)
Unextended(F, G) ==
    /\ Grown(F, G) /\ SameLengths(F, G)
    /\ \A i \in 1..Len(G) : i > Len(F) => G[i].agreements = <<>>

(* Then the histories are what they were.                                  *)
LEMMA HistoriesStay ==
    ASSUME NEW F \in Seq(ForkRecord), NEW G \in Seq(ForkRecord), Unextended(F, G),
           \A i \in 1..Len(F) : Chained(F[i])
    PROVE  \A i \in 1..Len(G) : Chained(G[i])
<1>1. ASSUME NEW i \in 1..Len(G)
      PROVE  Chained(G[i])
  <2>1. CASE i \in 1..Len(F)
    <3>1. F[i] \in ForkRecord /\ G[i] \in ForkRecord
      BY <1>1, <2>1, ElementOf
    <3> QED
      BY <2>1, <3>1, SameHistory DEF Unextended, Grown, SameLengths
  <2>2. CASE i \notin 1..Len(F)
    <3>1. i > Len(F)
      BY <2>2
    <3>2. G[i].agreements = <<>>
      BY <1>1, <3>1 DEF Unextended
    <3>3. Len(G[i].agreements) = 0
      BY <3>2
    <3> QED
      BY <3>3 DEF Chained
  <2> QED
    BY <2>1, <2>2
<1> QED
  BY <1>1

(* addBlock of a block with a free place: it is the last of its fork.      *)
LEMMA BlockAppended ==
    ASSUME forks \in Seq(ForkRecord), Ordered(forks), NEW b \in Block, Placed(b, forks)
    PROVE  LET k == b.forkCnt + 1
               a == AgreementOn(b, b.state)
               A == forks[k].agreements
               G == WithBlock(b)
           IN  /\ k \in 1..Len(forks) /\ forks[k] \in ForkRecord
               /\ A \in Seq(Agreements) /\ Len(A) \in Nat /\ a \in Agreements
               /\ Len(G) = Len(forks)
               /\ \A i \in 1..Len(forks) : i # k => G[i] = forks[i]
               /\ G[k].agreements = Append(A, a)
               /\ G[k].genesis = forks[k].genesis
               /\ G[k].genesisTimestamp = forks[k].genesisTimestamp
<1> DEFINE k == b.forkCnt + 1
           a == AgreementOn(b, b.state)
           A == forks[k].agreements
           G == WithBlock(b)
<1>1. b.forkCnt \in Nat /\ k \in 1..Len(forks)
  BY DEF Block, Placed
<1>2. forks[k] \in ForkRecord /\ A \in Seq(Agreements) /\ Len(A) \in Nat
  <2>1. forks[k] \in ForkRecord
    BY <1>1
  <2> QED
    BY <2>1 DEF ForkRecord
<1>3. ~Agreed(b.forkCnt, b.transactionCnt)
  BY <1>1, <1>2 DEF Agreed, Placed, Fork, IsValidForkCnt
<1>4. PICK r : r = [forks[k] EXCEPT !.agreements = Append(A, a)]
  OBVIOUS
<1>5. G = [forks EXCEPT ![k] = r]
  BY <1>3, <1>4 DEF WithBlock
<1>6. a \in Agreements
  BY DEF AgreementOn, Agreements, Block
<1>7. /\ r \in ForkRecord /\ r.agreements = Append(A, a) /\ r.genesis = forks[k].genesis
      /\ r.genesisTimestamp = forks[k].genesisTimestamp
  <2>1. Append(A, a) \in Seq(Agreements)
    BY <1>2, <1>6
  <2> QED
    BY <1>2, <1>4, <2>1 DEF ForkRecord
<1> HIDE DEF G, k
<1>8. Len(G) = Len(forks) /\ G[k] = r /\ \A i \in 1..Len(forks) : i # k => G[i] = forks[i]
  BY <1>1, <1>5, <1>7
<1> QED
  BY <1>1, <1>2, <1>6, <1>7, <1>8 DEF G, k

(* addBlock of one that continues its fork continues the history.          *)
LEMMA HistoryContinued ==
    ASSUME forks \in Seq(ForkRecord), Ordered(forks), NEW b \in Block,
           Placed(b, forks), Faithful(b),
           \A i \in 1..Len(forks) : Chained(forks[i]),
           b.previousState = Tip(forks[b.forkCnt + 1]),
           b.timestamp >= Newest(forks[b.forkCnt + 1])
    PROVE  \A i \in 1..Len(WithBlock(b)) : Chained(WithBlock(b)[i])
<1> DEFINE k == b.forkCnt + 1
           a == AgreementOn(b, b.state)
           A == forks[k].agreements
           G == WithBlock(b)
<1>1. b.forkCnt \in Nat /\ b.timestamp \in Nat /\ k \in 1..Len(forks) /\ a.block = b
  BY DEF Block, Placed, AgreementOn
<1>2. forks[k] \in ForkRecord /\ A \in Seq(Agreements) /\ Len(A) \in Nat
  BY BlockAppended
<1>3. /\ Len(G) = Len(forks) /\ \A i \in 1..Len(forks) : i # k => G[i] = forks[i]
  BY BlockAppended
<1>4. /\ G[k].agreements = Append(A, a) /\ G[k].genesis = forks[k].genesis
      /\ G[k].genesisTimestamp = forks[k].genesisTimestamp
  BY BlockAppended
<1> HIDE DEF G, a
<1>5. G \in Seq(ForkRecord) /\ Grown(forks, G)
  BY WithBlockLemma DEF G
<1>6. G[k] \in ForkRecord /\ Extends(forks[k], G[k])
  BY <1>1, <1>3, <1>5, ElementOf DEF Grown
<1>7. PICK n \in Nat : n = Len(A)
  BY <1>2
<1>8. Len(G[k].agreements) = n + 1 /\ G[k].agreements[n + 1] = a
  BY <1>2, <1>4, <1>7
<1>9. \A j \in 1..n : G[k].agreements[j].block = forks[k].agreements[j].block
  BY <1>6, <1>7 DEF Extends
<1>10. /\ Newest(forks[k]) \in Nat /\ Newest(forks[k]) >= forks[k].genesisTimestamp
       /\ \A j \in 1..n : A[j].block.timestamp <= Newest(forks[k])
       /\ \A j \in 1..n : A[j].block.timestamp \in Nat
       /\ forks[k].genesisTimestamp \in Nat
  BY <1>1, <1>2, <1>7, NewestIsLatest, ForkParts
<1>11. Chained(G[k])
  <2>1. ASSUME NEW j \in 1..(n + 1)
        PROVE  LET c == G[k].agreements[j].block
               IN  /\ c.previousState = StateBefore(G[k], j)
                   /\ c.timestamp >= G[k].genesisTimestamp
                   /\ \A i \in 1..j : G[k].agreements[i].block.timestamp <= c.timestamp
    <3>1. StateBefore(G[k], j) = StateBefore(forks[k], j)
      BY <1>2, <1>6, <1>7, BeforeStays
    <3>2. CASE j = n + 1
      <4>1. G[k].agreements[j].block = b
        BY <1>1, <1>8, <3>2
      <4>2. b.previousState = StateBefore(forks[k], j)
        BY <1>7, <3>2 DEF Tip
      <4>3. b.timestamp >= Newest(forks[k])
        OBVIOUS
      <4>4. ASSUME NEW i \in 1..j PROVE G[k].agreements[i].block.timestamp <= b.timestamp
        <5>1. CASE i = j
          BY <1>1, <4>1, <5>1
        <5>2. CASE i # j
          <6>1. i \in 1..n
            BY <3>2, <5>2
          <6>2. G[k].agreements[i].block = A[i].block
            BY <1>9, <6>1
          <6>3. A[i].block.timestamp \in Nat /\ A[i].block.timestamp <= Newest(forks[k])
            BY <1>10, <6>1
          <6>4. G[k].agreements[i].block.timestamp = A[i].block.timestamp
            BY <6>2
          <6> QED
            BY <1>1, <1>10, <4>3, <6>3, <6>4
        <5> QED
          BY <5>1, <5>2
      <4>5. b.timestamp >= G[k].genesisTimestamp
        BY <1>1, <1>4, <1>10, <4>3
      <4> QED
        BY <3>1, <4>1, <4>2, <4>4, <4>5
    <3>3. CASE j # n + 1
      <4>1. j \in 1..n /\ \A i \in 1..j : i \in 1..n
        BY <3>3
      <4>2. /\ A[j].block.previousState = StateBefore(forks[k], j)
            /\ A[j].block.timestamp >= forks[k].genesisTimestamp
            /\ \A i \in 1..j : A[i].block.timestamp <= A[j].block.timestamp
        BY <1>1, <1>7, <4>1 DEF Chained
      <4> QED
        BY <1>4, <1>9, <3>1, <4>1, <4>2
    <3> QED
      BY <3>2, <3>3
  <2> QED
    BY <1>8, <2>1 DEF Chained
<1> QED
  BY <1>3, <1>11 DEF G

-----------------------------------------------------------------------------
(* What one step does to the forks and to the calls.                       *)

(* Forks that do not change are not extended.                              *)
LEMMA UnextendedReflexive ==
    ASSUME IInv, forks' = forks
    PROVE  Unextended(forks, forks') /\ Len(forks') = Len(forks)
<1>1. forks \in Seq(ForkRecord)
  BY DEF IInv, Typing
<1> QED
  BY <1>1, GrownReflexive DEF Unextended

(* Signers are added to a block of the chain, or none are.                 *)
LEMMA UnextendedSigners ==
    ASSUME IInv, NEW b \in Block, NEW S \in SUBSET Addr,
           forks' = IF IsBlockInChain(b) THEN WithSigners(b, S) ELSE forks
    PROVE  Unextended(forks, forks') /\ Len(forks') = Len(forks)
<1>1. forks \in Seq(ForkRecord) /\ Ordered(forks)
  BY DEF IInv, Typing
<1>2. CASE ~IsBlockInChain(b)
  BY <1>2, UnextendedReflexive
<1>3. CASE IsBlockInChain(b)
  <2>1. forks' = WithSigners(b, S) /\ InChain(b, forks)
    BY <1>3, InChainIsIsBlockInChain
  <2>2. Grown(forks, forks') /\ SameLengths(forks, forks') /\ Len(forks') = Len(forks)
    BY <1>1, <2>1, WithSignersLemma
  <2> QED
    BY <2>2 DEF Unextended
<1> QED
  BY <1>2, <1>3

(* Only two steps add a block to a fork, and only one adds a fork.         *)
LEMMA ForksChange ==
    ASSUME IInv, [Next]_vars
    PROVE  \/ /\ Unextended(forks, forks')
              /\ Len(forks') = Len(forks) \/ \E e \in Settlements : SetState(e)
           \/ \E t \in Tasks : AcceptBlock(t) \/ PlaySealed(t)
<1>1. forks \in Seq(ForkRecord) /\ Ordered(forks) /\ nextEvent \in Nat
  BY DEF IInv, Typing
<1>2. CASE \E t \in Tasks : Step(t)
  <2>1. PICK t \in Tasks : Step(t)
    BY <1>2
  <2>2. PICK b : b = tasks[t].msg.block
    OBVIOUS
  <2>3. tasks[t].pc # "idle" => b \in Block
    BY <2>2 DEF IInv, TaskInv, SignedBlock
  <2>4. CASE IgnoreDuplicate(t)
    <3>1. /\ tasks[t].pc = "validate"
          /\ forks' = IF IsBlockInChain(b) THEN WithSigners(b, ConfirmerOf(t)) ELSE forks
      BY <2>2, <2>4 DEF IgnoreDuplicate, Decides
    <3> QED
      BY <2>3, <3>1, ConfirmerIsAddr, UnextendedSigners
  <2>5. CASE ConfirmBlock(t)
    <3>1. /\ tasks[t].pc = "sign" /\ IsBlockInChain(b)
          /\ forks' = WithSigners(b, {Me} \cup ConfirmerOf(t))
      BY <2>2, <2>5 DEF ConfirmBlock, CanConfirm
    <3>2. {Me} \cup ConfirmerOf(t) \in SUBSET Addr
      BY ConfirmerIsAddr, MeAssumption
    <3> QED
      BY <2>3, <3>1, <3>2, UnextendedSigners
  <2>6. CASE forks' = forks
    BY <2>6, UnextendedReflexive
  <2>7. \/ IgnoreDuplicate(t) \/ ConfirmBlock(t) \/ forks' = forks
        \/ AcceptBlock(t) \/ PlaySealed(t)
    BY <2>1 DEF Step, Validate, Confirm, Author, IgnoreBlock, QueueBlock,
         RejectConflict, RejectBlock, RejectExecuted, RejectFuture,
         AskChain, AcceptUnseen, ConfirmThrows, PlayRefused,
         PlayApplied, PlayThrows, agreement
  <2> QED
    BY <2>4, <2>5, <2>6, <2>7
<1>3. CASE \E e \in Settlements : SetState(e)
  <2>1. PICK e \in Settlements : SetState(e)
    BY <1>3
  <2>2. forks' = WithFork(nextEvent, e.state, e.timestamp)
    BY <2>1 DEF SetState
  <2>3. e.state \in State /\ e.timestamp \in Nat
    BY InputsAssumption DEF Settlement
  <2> QED
    BY <1>1, <1>3, <2>2, <2>3, WithForkLemma DEF Unextended
<1>4. CASE \E p \in posted : CollectBlock(p)
  <2>1. PICK p \in posted : CollectBlock(p)
    BY <1>4
  <2>2. p \in Post /\ IsValidForkCnt(p.block.forkCnt)
    BY <2>1 DEF CollectBlock, IInv, Typing
  <2>3. forks' = forks \/ forks' = WithChainBlock(p)
    BY <2>1 DEF CollectBlock
  <2>4. CASE forks' = WithChainBlock(p)
    <3>1. Grown(forks, forks') /\ SameLengths(forks, forks') /\ Len(forks') = Len(forks)
      BY <1>1, <2>2, <2>4, WithChainBlockLemma
    <3> QED
      BY <3>1 DEF Unextended
  <2> QED
    BY <2>3, <2>4, UnextendedReflexive
<1>5. CASE \E t \in Tasks : \E c \in Confirmations : ReceiveConfirmation(t, c)
  <2>1. PICK t \in Tasks, c \in Confirmations : ReceiveConfirmation(t, c)
    BY <1>5
  <2>2. c \in Confirmation
    BY InputsAssumption
  <2>3. c.block \in Block /\ {c.confirmer} \in SUBSET Addr
    BY <2>2 DEF Confirmation
  <2>4. forks' = IF IsBlockInChain(c.block) THEN WithSigners(c.block, {c.confirmer}) ELSE forks
    BY <2>1 DEF ReceiveConfirmation
  <2> QED
    BY <2>3, <2>4, UnextendedSigners
<1>6. CASE forks' = forks
  BY <1>6, UnextendedReflexive
<1>7. \/ \E t \in Tasks : Step(t)
      \/ \E e \in Settlements : SetState(e)
      \/ \E p \in posted : CollectBlock(p)
      \/ \E t \in Tasks : \E c \in Confirmations : ReceiveConfirmation(t, c)
      \/ forks' = forks
  BY DEF Next, Callback, Event, Environment, ProcessQueue, CheckTimeout, TimeoutAnswered,
         DelayedTimeout, MaybePost, DisputeUpdated, CollectThrows, ReceiveBlock, Play,
         PeerPosts, Tick, vars, agreement
<1> QED
  BY <1>2, <1>3, <1>4, <1>5, <1>6, <1>7

(* Then the block has a free place in its fork, and no other call has the  *)
(* lock.                                                                   *)
LEMMA BlockAdded ==
    ASSUME IInv, NEW t \in Tasks, AcceptBlock(t) \/ PlaySealed(t)
    PROVE  LET b == tasks[t].msg.block
           IN  /\ b \in Block /\ Placed(b, forks) /\ Faithful(b)
               /\ forks' = WithBlock(b) /\ Len(forks') = Len(forks)
               /\ \A u \in Tasks : Holding(u) => u = t
<1>1. PICK b : b = tasks[t].msg.block
  OBVIOUS
<1>2. Holding(t) /\ b \in Block /\ Placed(b, forks) /\ Faithful(b)
  BY <1>1, AcceptedBlock, SealedBlock
<1>3. forks' = WithBlock(b)
  BY <1>1 DEF AcceptBlock, PlaySealed
<1>4. Len(forks') = Len(forks)
  <2>1. /\ b.forkCnt + 1 \in 1..Len(forks) /\ forks \in Seq(ForkRecord)
    BY <1>2 DEF Block, Placed, IInv, Typing
  <2>2. forks' = forks \/ \E r : forks' = [forks EXCEPT ![b.forkCnt + 1] = r]
    BY <1>3 DEF WithBlock
  <2> QED
    BY <2>1, <2>2
<1>5. \A u \in Tasks : Holding(u) => u = t
  BY <1>2 DEF IInv, LockDiscipline
<1> QED
  BY <1>1, <1>2, <1>3, <1>4, <1>5

(* What a call is after a step that did not move it to a later stage.      *)
Elsewhere(u) ==
    \/ tasks'[u] = tasks[u]
    \/ Waiting(u) /\ tasks'[u] = Granted(tasks[u])
    \/ tasks'[u].pc \in {"idle", "lock", "validate"}

(* A call that ends, or that waits for the lock to validate a block.       *)
LEMMA MovesAfter ==
    ASSUME NEW t \in Tasks, NEW next \in Task, Moves(t, next), next.pc \in {"idle", "lock"},
           NEW u \in Tasks
    PROVE  Elsewhere(u)
<1>1. CASE u # t
  BY <1>1 DEF Moves, Elsewhere
<1>2. CASE u = t
  <2>1. next.pc = "lock" => Granted(next).pc = "validate"
    BY GrantedIsTask
  <2> QED
    BY <1>2, <2>1 DEF Moves, Elsewhere
<1> QED
  BY <1>1, <1>2

(* A call starts: it has the lock, or waits for it.                        *)
Starts(t, next) ==
    /\ tasks[t] = Idle /\ Lock(t, next) /\ next.pc \in {"lock", "playLock"}
    /\ next.pc = "playLock" => \E a \in Amounts : Play(t, a)

(* A call unlocks, and ends or waits for the lock again.                   *)
Leaves(t, next) ==
    /\ Holding(t) /\ Unlock(t, next) /\ (next = Idle \/ next.pc = "lock")
    /\ tasks[t].pc = "seal" => PlaySealed(t) \/ PlayThrows(t)

(* A call goes on to a later stage and keeps the lock.                     *)
Goes(t) == AskChain(t) \/ AcceptBlock(t) \/ AcceptUnseen(t) \/ PlayApplied(t)

(* A call that throws keeps the lock as well, for ever.                    *)
Throws(t) == Abandon(t) /\ (RejectFuture(t) \/ ConfirmThrows(t))

(* The header that is made when the user plays a transaction.              *)
LEMMA PlayedCall ==
    ASSUME IInv, NEW t \in Tasks, NEW a \in Amounts, Play(t, a)
    PROVE  \E next \in Task :
              /\ Lock(t, next) /\ next.pc = "playLock"
              /\ next.msg.block.forkCnt = LatestForkCnt
              /\ next.msg.block.transactionCnt = NextBlockHeight
<1>1. PICK header : header = [ participant    |-> Me,
                               forkCnt        |-> LatestForkCnt,
                               transactionCnt |-> NextBlockHeight,
                               timestamp      |-> now,
                               amount         |-> a,
                               previousState  |-> NoState,
                               state          |-> NoState ]
  OBVIOUS
<1>2. /\ header \in Block
      /\ header.forkCnt = LatestForkCnt /\ header.transactionCnt = NextBlockHeight
  <2>1. forks \in Seq(ForkRecord) /\ now \in Nat
    BY DEF IInv, Typing
  <2> QED
    BY <1>1, <2>1, LatestFork, MeAssumption, InputsAssumption DEF Block, State, NoState
<1>3. PICK m \in SignedBlock : m = [signer |-> Me, block |-> header]
  BY <1>2, MeAssumption DEF SignedBlock
<1>4. PICK next : next = [Idle EXCEPT !.pc = "playLock", !.msg = m]
  OBVIOUS
<1>5. next \in Task /\ next.pc = "playLock" /\ next.msg = m
  BY <1>4, IdleIsTask DEF Task
<1>6. Lock(t, next)
  BY <1>1, <1>3, <1>4 DEF Play
<1> QED
  BY <1>2, <1>3, <1>5, <1>6

(* What a step does to the calls.                                          *)
LEMMA CallSteps ==
    ASSUME IInv, [Next]_vars
    PROVE  \/ UNCHANGED running
           \/ \E t \in Tasks : \E next \in Task : Starts(t, next) \/ Leaves(t, next)
           \/ \E t \in Tasks : Goes(t) \/ Throws(t)
<1>1. \A t \in Tasks : TaskInv(tasks[t], forks, released)
  BY DEF IInv
<1>2. ASSUME NEW t \in Tasks, tasks[t] = Idle, NEW m \in SignedBlock,
             NEW a \in Addr \cup {Nobody}, NEW rest \in Seq(SignedBlock),
             Lock(t, OnSignedBlock(m, a, rest))
      PROVE  \E next \in Task : Starts(t, next)
  <2>1. PICK next : next = OnSignedBlock(m, a, rest)
    OBVIOUS
  <2>2. next \in Task /\ next.pc = "lock"
    BY <2>1 DEF OnSignedBlock, Task
  <2> QED
    BY <1>2, <2>1, <2>2 DEF Starts
<1>3. ASSUME NEW t \in Tasks, Validate(t) \/ Confirm(t)
      PROVE  (\E next \in Task : Leaves(t, next)) \/ Goes(t) \/ Throws(t)
  <2>1. Holding(t) /\ tasks[t].pc # "seal"
    BY <1>3 DEF Validate, Confirm, IgnoreBlock, IgnoreDuplicate, QueueBlock, RejectConflict,
         RejectBlock, RejectExecuted, RejectFuture, AskChain, AcceptBlock, AcceptUnseen,
         ConfirmBlock, ConfirmThrows, Outcome, Decides, Answered, Holding
  <2>2. \A flag : Unlock(t, After(t, flag)) => \E next \in Task : Leaves(t, next)
    BY <1>1, <2>1, AfterInv DEF Leaves
  <2>3. Goes(t) \/ Throws(t) \/ \E flag : Unlock(t, After(t, flag))
    BY <1>3 DEF Validate, Confirm, IgnoreBlock, IgnoreDuplicate, QueueBlock, RejectConflict,
         RejectBlock, RejectExecuted, RejectFuture, ConfirmBlock, ConfirmThrows, Goes, Throws
  <2> QED
    BY <2>2, <2>3
<1>4. ASSUME NEW t \in Tasks, Author(t)
      PROVE  (\E next \in Task : Leaves(t, next)) \/ Goes(t)
  <2>1. PlayApplied(t) \/ (Unlock(t, Idle) /\ Holding(t)
           /\ (tasks[t].pc = "seal" => PlaySealed(t) \/ PlayThrows(t)))
    BY <1>4 DEF Author, PlayRefused, PlaySealed, PlayThrows, Holding
  <2> QED
    BY <2>1, IdleIsTask DEF Leaves, Goes
<1>5. ASSUME NEW t \in Tasks, ProcessQueue(t)
      PROVE  UNCHANGED running \/ \E next \in Task : Starts(t, next)
  <2>1. CASE UNCHANGED running
    BY <2>1
  <2>2. CASE ~UNCHANGED running
    <3>1. PICK q \in Orders(Ready) : q # <<>> /\ Lock(t, OnSignedBlock(Head(q), Nobody, Tail(q)))
      BY <1>5, <2>2 DEF ProcessQueue
    <3>2. Head(q) \in SignedBlock /\ Tail(q) \in Seq(SignedBlock)
      BY <3>1, OrdersLemma
    <3>3. tasks[t] = Idle
      BY <1>5 DEF ProcessQueue
    <3> QED
      BY <1>2, <3>1, <3>2, <3>3
  <2> QED
    BY <2>1, <2>2
<1>6. <<>> \in Seq(SignedBlock)
  OBVIOUS
<1>7. ASSUME NEW t \in Tasks, NEW m \in Messages, ReceiveBlock(t, m)
      PROVE  \E next \in Task : Starts(t, next)
  BY <1>2, <1>6, <1>7, InputsAssumption DEF ReceiveBlock
<1>8. ASSUME NEW t \in Tasks, NEW c \in Confirmations, ReceiveConfirmation(t, c)
      PROVE  UNCHANGED running \/ \E next \in Task : Starts(t, next)
  <2>1. c \in Confirmation
    BY InputsAssumption
  <2>2. PICK m \in SignedBlock : m = [signer |-> c.signer, block |-> c.block]
    BY <2>1 DEF Confirmation, SignedBlock
  <2>3. c.confirmer \in Addr \cup {Nobody}
    BY <2>1 DEF Confirmation
  <2>4. CASE UNCHANGED running
    BY <2>4
  <2>5. CASE ~UNCHANGED running
    <3>1. tasks[t] = Idle /\ Lock(t, OnSignedBlock(m, c.confirmer, <<>>))
      BY <1>8, <2>2, <2>5 DEF ReceiveConfirmation
    <3> QED
      BY <1>2, <1>6, <2>3, <3>1
  <2> QED
    BY <2>4, <2>5
<1>9. ASSUME NEW t \in Tasks, NEW a \in Amounts, Play(t, a)
      PROVE  \E next \in Task : Starts(t, next)
  <2>1. PICK next \in Task : Lock(t, next) /\ next.pc = "playLock"
    BY <1>9, PlayedCall
  <2>2. tasks[t] = Idle
    BY <1>9 DEF Play
  <2> QED
    BY <1>9, <2>1, <2>2 DEF Starts
<1>10. CASE \/ \E x \in timers : CheckTimeout(x) \/ TimeoutAnswered(x) \/ DelayedTimeout(x)
            \/ \E x \in pendingPosts : MaybePost(x)
            \/ Event \/ (\E m \in Messages : PeerPosts(m)) \/ Tick \/ UNCHANGED vars
  BY <1>10 DEF CheckTimeout, TimeoutAnswered, DelayedTimeout, MaybePost, Event, SetState,
     DisputeUpdated, CollectBlock, CollectThrows, PeerPosts, Tick, vars
<1> QED
  BY <1>3, <1>4, <1>5, <1>7, <1>8, <1>9, <1>10 DEF Next, Step, Callback, Environment

(* Where a step leaves a call.                                             *)
LEMMA CallsMove ==
    ASSUME IInv, [Next]_vars, NEW u \in Tasks
    PROVE  Elsewhere(u) \/ Goes(u) \/ \E a \in Amounts : Play(u, a)
<1>1. /\ tasks \in [Tasks -> Task] /\ Excludes
  BY InvariantExcludes DEF IInv, Typing
<1>2. ASSUME NEW t \in Tasks, NEW next \in Task, Starts(t, next), next.pc = "lock"
      PROVE  Elsewhere(u)
  <2>1. Moves(t, next)
    BY <1>1, <1>2, IdleIsTask, LockLemma DEF Starts
  <2> QED
    BY <1>2, <2>1, MovesAfter
<1>3. ASSUME NEW t \in Tasks, NEW next \in Task, Starts(t, next), next.pc # "lock"
      PROVE  Elsewhere(u) \/ \E a \in Amounts : Play(u, a)
  <2>1. CASE u = t
    BY <1>3, <2>1 DEF Starts
  <2>2. CASE u # t
    <3>1. tasks'[u] = tasks[u]
      BY <1>1, <1>3, <2>2 DEF Starts, Lock
    <3> QED
      BY <3>1 DEF Elsewhere
  <2> QED
    BY <2>1, <2>2
<1>4. ASSUME NEW t \in Tasks, NEW next \in Task, Leaves(t, next)
      PROVE  Elsewhere(u)
  <2>1. Moves(t, next)
    BY <1>1, <1>4, UnlockLemma DEF Leaves
  <2> QED
    BY <1>4, <2>1, IdleIsTask, MovesAfter DEF Leaves
<1>5. ASSUME NEW t \in Tasks, Goes(t)
      PROVE  Elsewhere(u) \/ Goes(u)
  <2>1. u # t => tasks'[u] = tasks[u]
    BY <1>1, <1>5 DEF Goes, AskChain, AcceptBlock, AcceptUnseen, PlayApplied
  <2> QED
    BY <1>5, <2>1 DEF Elsewhere
<1>6. ASSUME NEW t \in Tasks, Throws(t)
      PROVE  Elsewhere(u)
  BY <1>1, <1>6, IdleIsTask DEF Throws, Abandon, Elsewhere
<1>7. CASE UNCHANGED running
  BY <1>7 DEF running, Elsewhere
<1> QED
  BY <1>2, <1>3, <1>4, <1>5, <1>6, <1>7, CallSteps

-----------------------------------------------------------------------------
(* The invariant holds as long as the EVM and the forks are in step.       *)

(* The latest fork, before a step or after it.                             *)
LEMMA LatestIs ==
    ASSUME NEW F \in Seq(ForkRecord), F # <<>>
    PROVE  Len(F) \in Nat \ {0} /\ Len(F) \in 1..Len(F) /\ F[Len(F)] \in ForkRecord
<1>1. Len(F) \in Nat \ {0} /\ Len(F) \in 1..Len(F)
  OBVIOUS
<1> QED
  BY <1>1, ElementOf

(* The state of the latest fork is that of its last block.                 *)
LEMMA LatestTip ==
    ASSUME forks \in Seq(ForkRecord), forks # <<>>
    PROVE  LatestForkCnt + 1 = Len(forks) /\ LatestState = Tip(forks[Len(forks)])
<1>1. LatestForkCnt = Len(forks) - 1 /\ Len(forks) \in Nat /\ LatestForkCnt + 1 = Len(forks)
  BY LatestIs DEF LatestForkCnt
<1>2. PICK r \in ForkRecord : r = forks[Len(forks)]
  BY LatestIs
<1>3. Fork(LatestForkCnt) = r
  BY <1>1, <1>2 DEF Fork
<1>4. PICK n \in Nat : n = Len(r.agreements)
  BY ForkParts
<1>5. LatestState = IF n = 0 THEN r.genesis ELSE r.agreements[n].state
  BY <1>3, <1>4 DEF LatestState
<1>6. Tip(r) = IF n = 0 THEN r.genesis ELSE r.agreements[n].state
  BY <1>4 DEF Tip, StateBefore
<1> QED
  BY <1>1, <1>2, <1>5, <1>6

(* The same after a step.                                                  *)
LEMMA LatestTipAfter ==
    ASSUME forks' \in Seq(ForkRecord), forks' # <<>>
    PROVE  /\ LatestForkCnt' = Len(forks') - 1
           /\ NextBlockHeight' = Len(forks'[Len(forks')].agreements)
           /\ LatestState' = Tip(forks'[Len(forks')])
<1>1. LatestForkCnt' = Len(forks') - 1 /\ Len(forks') \in Nat /\ LatestForkCnt' + 1 = Len(forks')
  BY LatestIs DEF LatestForkCnt
<1>2. PICK r \in ForkRecord : r = forks'[Len(forks')]
  BY LatestIs
<1>3. Fork(LatestForkCnt)' = r
  BY <1>1, <1>2 DEF Fork
<1>4. PICK n \in Nat : n = Len(r.agreements)
  BY ForkParts
<1>5. LatestState' = IF n = 0 THEN r.genesis ELSE r.agreements[n].state
  BY <1>3, <1>4 DEF LatestState
<1>6. Tip(r) = IF n = 0 THEN r.genesis ELSE r.agreements[n].state
  BY <1>4 DEF Tip, StateBefore
<1>7. NextBlockHeight' = Len(r.agreements)
  BY <1>3 DEF NextBlockHeight
<1>8. LatestState' = Tip(r)
  BY <1>5, <1>6
<1> QED
  BY <1>1, <1>2, <1>7, <1>8

(* What a block that a step adds says of its fork.                         *)
LEMMA AddedContinues ==
    ASSUME IInv, HInv, Steady, NEW t \in Tasks, AcceptBlock(t) \/ PlaySealed(t)
    PROVE  LET b == tasks[t].msg.block
               r == forks[b.forkCnt + 1]
           IN  b.previousState = Tip(r) /\ b.timestamp >= Newest(r)
<1>1. PICK b : b = tasks[t].msg.block
  OBVIOUS
<1>2. /\ b \in Block /\ Placed(b, forks) /\ forks \in Seq(ForkRecord)
      /\ \A u \in Tasks : Holding(u) => u = t
  BY <1>1, BlockAdded DEF IInv, Typing
<1>3. b.forkCnt \in Nat /\ b.forkCnt < Len(forks) /\ forks # <<>>
  BY <1>2 DEF Block, Placed
<1>4. CASE PlaySealed(t)
  <2>1. tasks[t].pc = "seal"
    BY <1>4 DEF PlaySealed
  <2> QED
    BY <1>1, <2>1 DEF HInv, CallInv
<1>5. CASE AcceptBlock(t)
  <2>1. b.previousState = machine /\ tasks[t].pc \in {"validate", "askChain"}
    BY <1>1, <1>5, AcceptedBlock DEF AcceptBlock, Outcome, Decides, Answered
  <2>2. \A u \in Tasks : tasks[u].pc # "seal"
    BY <1>2, <2>1 DEF Holding
  <2>3. machine = Tip(forks[Len(forks)])
    BY <1>2, <1>3, <2>2, LatestTip DEF Steady, MachineFollowsFork
  <2>4. CASE tasks[t].pc = "askChain"
    <3>1. b.forkCnt = LatestForkCnt /\ b.timestamp >= Newest(forks[b.forkCnt + 1])
      BY <1>1, <2>4 DEF Steady, Undisturbed, HInv, CallInv
    <3>2. b.forkCnt + 1 = Len(forks)
      BY <1>2, <1>3, <3>1, LatestTip
    <3> QED
      BY <1>1, <2>1, <2>3, <3>1, <3>2
  <2>5. CASE tasks[t].pc # "askChain"
    <3>1. Decision(tasks[t].msg) = "EXECUTE" /\ tasks[t].msg \in SignedBlock
      BY <1>5, <2>5, AcceptedBlock DEF AcceptBlock, Outcome, Decides, Answered
    <3>2. /\ ~(b.forkCnt < LatestForkCnt) /\ ~(b.forkCnt > LatestForkCnt)
          /\ ~(b.timestamp < LatestBlockTimestamp(b.forkCnt))
      BY <1>1, <3>1 DEF Decision
    <3>3. b.forkCnt = LatestForkCnt
      BY <1>2, <1>3, <3>2, LatestFork
    <3>4. b.forkCnt + 1 = Len(forks)
      BY <1>2, <1>3, <3>3, LatestTip
    <3>5. LatestBlockTimestamp(b.forkCnt) = Newest(forks[b.forkCnt + 1])
      BY DEF LatestBlockTimestamp, Newest, Fork
    <3>6. LatestBlockTimestamp(b.forkCnt) \in Nat /\ b.timestamp \in Nat
      BY <1>2, <1>3, TimestampIsNat DEF Block
    <3>7. b.timestamp >= Newest(forks[b.forkCnt + 1])
      BY <3>2, <3>5, <3>6
    <3> QED
      BY <1>1, <2>1, <2>3, <3>4, <3>7
  <2> QED
    BY <2>4, <2>5
<1> QED
  BY <1>4, <1>5

(* Forks stay histories.                                                   *)
LEMMA ChainsKept ==
    ASSUME IInv, IInv', HInv, Steady, [Next]_vars
    PROVE  \A i \in 1..Len(forks') : Chained(forks'[i])
<1>1. forks \in Seq(ForkRecord) /\ forks' \in Seq(ForkRecord) /\ Ordered(forks)
  BY DEF IInv, Typing
<1>2. CASE Unextended(forks, forks')
  BY <1>1, <1>2, HistoriesStay DEF HInv
<1>3. ASSUME NEW t \in Tasks, AcceptBlock(t) \/ PlaySealed(t)
      PROVE  \A i \in 1..Len(forks') : Chained(forks'[i])
  <2>1. PICK b : b = tasks[t].msg.block
    OBVIOUS
  <2>2. b \in Block /\ Placed(b, forks) /\ Faithful(b) /\ forks' = WithBlock(b)
    BY <1>3, <2>1, BlockAdded
  <2>3. /\ b.previousState = Tip(forks[b.forkCnt + 1])
        /\ b.timestamp >= Newest(forks[b.forkCnt + 1])
    BY <1>3, <2>1, AddedContinues
  <2> QED
    BY <1>1, <2>2, <2>3, HistoryContinued DEF HInv
<1> QED
  BY <1>2, <1>3, ForksChange

(* The peer's own block is on top of the state the EVM was at.             *)
LEMMA SealContinues ==
    ASSUME IInv, HInv, Steady, Steady', NEW t \in Tasks, PlayApplied(t)
    PROVE  CallInv(tasks'[t], forks')
<1>1. PICK header : header = tasks[t].msg.block
  OBVIOUS
<1>2. PICK b : b = CreateBlock(header, ApplyTransaction(header))
  OBVIOUS
<1>3. /\ tasks[t].pc = "play" /\ IsMyTurn /\ forks # <<>>
      /\ tasks' = [tasks EXCEPT ![t].pc = "seal", ![t].msg.block = b]
      /\ forks' = forks
  BY <1>1, <1>2 DEF PlayApplied
<1>4. /\ TaskInv(tasks[t], forks, released) /\ forks \in Seq(ForkRecord)
      /\ tasks \in [Tasks -> Task] /\ machine \in State
  BY DEF IInv, Typing
<1>5. /\ tasks[t] \in Task /\ tasks[t].msg \in SignedBlock /\ header \in Block
  BY <1>1, <1>3, <1>4 DEF TaskInv, SignedBlock
<1>6. tasks'[t].pc = "seal" /\ tasks'[t].msg.block = b
  BY <1>3, <1>4, <1>5 DEF Task, SignedBlock
<1>7. b = [header EXCEPT !.timestamp     = AdjustedTimestamp(header),
                         !.previousState = machine,
                         !.state         = StateTransition(header)]
  BY <1>2 DEF CreateBlock, ApplyTransaction
<1>8. /\ b.timestamp = AdjustedTimestamp(header) /\ b.previousState = machine
      /\ b.forkCnt = header.forkCnt
  BY <1>5, <1>7 DEF Block
<1>9. header.forkCnt = LatestForkCnt
  <2>1. b.forkCnt = LatestForkCnt'
    BY <1>6 DEF Steady, Undisturbed
  <2> QED
    BY <1>3, <1>8, <2>1 DEF LatestForkCnt
<1>10. /\ Len(forks) \in Nat \ {0} /\ LatestForkCnt = Len(forks) - 1
       /\ LatestForkCnt \in Nat /\ LatestForkCnt + 1 = Len(forks)
  BY <1>3, <1>4, LatestFork, LatestTip
<1>11. machine = Tip(forks[Len(forks)])
  <2>1. \A u \in Tasks : tasks[u].pc # "seal"
    BY <1>3 DEF IInv, LockDiscipline, Holding
  <2> QED
    BY <1>3, <1>4, <2>1, LatestTip DEF Steady, MachineFollowsFork
<1>12. NextToWrite(machine) = Me
  BY <1>3 DEF IsMyTurn, Writer
<1>13. b.timestamp >= Newest(forks[Len(forks)])
  <2>1. LatestBlockTimestamp(LatestForkCnt) = Newest(forks[Len(forks)])
    BY <1>10 DEF LatestBlockTimestamp, Newest, Fork
  <2>2. LatestBlockTimestamp(LatestForkCnt) \in Nat /\ header.timestamp \in Nat
    BY <1>4, <1>5, <1>10, TimestampIsNat DEF Block
  <2> QED
    BY <1>8, <2>1, <2>2 DEF AdjustedTimestamp
<1> QED
  BY <1>3, <1>6, <1>8, <1>9, <1>10, <1>11, <1>12, <1>13 DEF CallInv

(* A call that waits for the chain has a block no older than the latest.   *)
LEMMA AskedContinues ==
    ASSUME IInv, NEW t \in Tasks, AskChain(t)
    PROVE  CallInv(tasks'[t], forks')
<1>1. PICK b : b = tasks[t].msg.block
  OBVIOUS
<1>2. /\ tasks[t].pc = "validate" /\ Decision(tasks[t].msg) = "ASK_CHAIN"
      /\ tasks' = [tasks EXCEPT ![t].pc = "askChain"] /\ forks' = forks
  BY DEF AskChain, Decides, agreement
<1>3. Decides(t, {"TOO_EARLY", "ASK_CHAIN", "EXECUTE"})
  BY <1>2 DEF Decides
<1>4. /\ tasks[t] \in Task /\ b \in Block /\ Placed(b, forks)
      /\ tasks \in [Tasks -> Task] /\ forks \in Seq(ForkRecord)
  BY <1>1, <1>3, OutcomeFacts DEF IInv, Typing
<1>5. tasks'[t].pc = "askChain" /\ tasks'[t].msg = tasks[t].msg
  BY <1>2, <1>4 DEF Task
<1>6. ~(b.timestamp < LatestBlockTimestamp(b.forkCnt))
  BY <1>1, <1>2 DEF Decision
<1>7. LatestBlockTimestamp(b.forkCnt) \in Nat /\ b.timestamp \in Nat
  BY <1>4, TimestampIsNat DEF Block, Placed
<1>8. LatestBlockTimestamp(b.forkCnt) = Newest(forks[b.forkCnt + 1])
  BY DEF LatestBlockTimestamp, Newest, Fork
<1>9. b.timestamp >= Newest(forks[b.forkCnt + 1])
  BY <1>6, <1>7, <1>8
<1> QED
  BY <1>1, <1>2, <1>5, <1>9 DEF CallInv

(* A call that held such a block holds it still, and its fork is the same. *)
LEMMA CallStays ==
    ASSUME IInv, IInv', HInv, Steady', [Next]_vars, NEW u \in Tasks, tasks'[u] = tasks[u],
           tasks[u].pc \in {"askChain", "seal"}
    PROVE  CallInv(tasks'[u], forks')
<1>1. PICK b : b = tasks[u].msg.block
  OBVIOUS
<1>2. /\ TaskInv(tasks[u], forks, released) /\ Holding(u)
      /\ forks \in Seq(ForkRecord) /\ forks' \in Seq(ForkRecord)
  BY DEF IInv, Typing, Holding
<1>3. b \in Block /\ b.forkCnt < Len(forks)
  BY <1>1, <1>2 DEF TaskInv, SignedBlock, Placed
<1>4. PICK k \in 1..Len(forks) : k = b.forkCnt + 1
  BY <1>2, <1>3 DEF Block
<1>5. \A t \in Tasks : AcceptBlock(t) \/ PlaySealed(t) => t = u
  BY <1>2, BlockAdded
<1>6. ASSUME AcceptBlock(u) \/ PlaySealed(u) PROVE FALSE
  <2>1. tasks \in [Tasks -> Task] /\ tasks[u] \in Task
    BY <1>2 DEF IInv, Typing
  <2>2. CASE AcceptBlock(u)
    <3>1. tasks'[u].pc = "sign"
      BY <2>1, <2>2 DEF AcceptBlock, Task
    <3> QED
      BY <3>1
  <2>3. CASE PlaySealed(u)
    <3>1. Unlock(u, Idle) /\ Holding(u)
      BY <1>2, <2>3 DEF PlaySealed
    <3>2. Moves(u, Idle)
      BY <3>1, IdleIsTask, InvariantExcludes, UnlockLemma
    <3>3. tasks'[u] = Idle
      BY <3>2, IdleIsTask DEF Moves
    <3> QED
      BY <3>3, IdleIsTask
  <2> QED
    BY <1>6, <2>2, <2>3
<1>7. Unextended(forks, forks')
  BY <1>5, <1>6, ForksChange
<1>8. /\ k \in 1..Len(forks') /\ Extends(forks[k], forks'[k])
      /\ Len(forks'[k].agreements) = Len(forks[k].agreements)
  BY <1>7 DEF Unextended, Grown, SameLengths
<1>9. forks[k] \in ForkRecord /\ forks'[k] \in ForkRecord
  BY <1>2, <1>8, ElementOf
<1>10. Newest(forks'[k]) = Newest(forks[k]) /\ Tip(forks'[k]) = Tip(forks[k])
  BY <1>8, <1>9, SameHistory
<1>11. CallInv(tasks[u], forks)
  BY DEF HInv
<1>12. CASE tasks[u].pc = "askChain"
  BY <1>1, <1>4, <1>10, <1>11, <1>12 DEF CallInv
<1>13. CASE tasks[u].pc = "seal"
  <2>1. b.forkCnt = LatestForkCnt'
    BY <1>1, <1>13 DEF Steady, Undisturbed
  <2>2. forks' # <<>>
    BY <1>8
  <2>3. b.forkCnt = Len(forks') - 1
    BY <1>2, <2>1, <2>2, LatestTipAfter
  <2> QED
    BY <1>1, <1>4, <1>10, <1>11, <1>13, <2>3 DEF CallInv
<1> QED
  BY <1>12, <1>13

(* So the calls keep what holds of them.                                   *)
LEMMA CallsKept ==
    ASSUME IInv, IInv', HInv, Steady, Steady', [Next]_vars, NEW u \in Tasks
    PROVE  CallInv(tasks'[u], forks')
<1>1. CASE tasks'[u].pc \notin {"askChain", "seal"}
  BY <1>1 DEF CallInv
<1>2. CASE tasks'[u].pc \in {"askChain", "seal"}
  <2>1. tasks \in [Tasks -> Task] /\ tasks[u] \in Task
    BY DEF IInv, Typing
  <2>2. CASE AskChain(u) \/ PlayApplied(u)
    BY <2>2, AskedContinues, SealContinues
  <2>3. CASE AcceptBlock(u) \/ AcceptUnseen(u)
    <3>1. tasks'[u].pc = "sign"
      BY <2>1, <2>3 DEF AcceptBlock, AcceptUnseen, Task
    <3> QED
      BY <1>2, <3>1
  <2>4. CASE \E a \in Amounts : Play(u, a)
    <3>1. PICK next \in Task : Lock(u, next) /\ next.pc = "playLock"
      BY <2>4, PlayedCall
    <3>2. Granted(next).pc = "play"
      BY <3>1, GrantedIsTask
    <3>3. tasks'[u] = next \/ tasks'[u] = Granted(next)
      BY <2>1, <3>1 DEF Lock
    <3> QED
      BY <1>2, <3>1, <3>2, <3>3
  <2>5. CASE Elsewhere(u)
    <3>1. Waiting(u) => Granted(tasks[u]).pc \in {"validate", "play"}
      BY <2>1, GrantedIsTask DEF Waiting
    <3>2. tasks'[u] = tasks[u]
      BY <1>2, <2>5, <3>1 DEF Elsewhere
    <3> QED
      BY <1>2, <3>2, CallStays
  <2> QED
    BY <2>2, <2>3, <2>4, <2>5, CallsMove DEF Goes
<1> QED
  BY <1>1, <1>2

(* Most steps leave the timers alone, or what onSuccessCommon does is all  *)
(* they do with them.                                                      *)
LEMMA TimersChange ==
    ASSUME IInv, [Next]_vars
    PROVE  \/ timers' = timers
           \/ OnSuccess /\ (forks # <<>> \/ \E e \in Settlements : SetState(e))
           \/ \E x \in timers : CheckTimeout(x) \/ TimeoutAnswered(x) \/ DelayedTimeout(x)
<1>1. CASE \E t \in Tasks : Step(t)
  <2>1. PICK t \in Tasks : Step(t)
    BY <1>1
  <2>2. PICK b : b = tasks[t].msg.block
    OBVIOUS
  <2>3. CASE ConfirmBlock(t)
    <3>1. IsBlockInChain(b) /\ OnSuccess /\ tasks[t].pc # "idle"
      BY <2>2, <2>3 DEF ConfirmBlock, CanConfirm
    <3>2. b.forkCnt < Len(forks) /\ b \in Block
      BY <2>2, <3>1 DEF IsBlockInChain, Agreed, IsValidForkCnt, IInv, TaskInv, SignedBlock
    <3>3. forks # <<>>
      BY <3>2 DEF Block
    <3> QED
      BY <3>1, <3>3
  <2>4. CASE PlaySealed(t)
    <3>1. b \in Block /\ Placed(b, forks)
      BY <2>2, <2>4, BlockAdded
    <3>2. forks # <<>>
      BY <3>1 DEF Block, Placed
    <3> QED
      BY <2>4, <3>2 DEF PlaySealed
  <2>5. CASE timers' = timers
    BY <2>5
  <2>6. timers' = timers \/ ConfirmBlock(t) \/ PlaySealed(t)
    BY <2>1 DEF Step, Validate, Confirm, Author, IgnoreBlock, IgnoreDuplicate, QueueBlock,
         RejectConflict, RejectBlock, RejectExecuted, RejectFuture,
         AskChain, AcceptBlock, AcceptUnseen, ConfirmThrows, PlayRefused,
         PlayApplied, PlayThrows, callbacks
  <2> QED
    BY <2>3, <2>4, <2>5, <2>6
<1>2. CASE \E e \in Settlements : SetState(e)
  BY <1>2 DEF SetState
<1>3. CASE \E p \in posted : CollectBlock(p)
  <2>1. PICK p \in posted : CollectBlock(p)
    BY <1>3
  <2>2. OnSuccess /\ p.block \in Block /\ p.block.forkCnt < Len(forks)
    BY <2>1 DEF CollectBlock, IsValidForkCnt, IInv, Typing, Post
  <2>3. forks # <<>>
    BY <2>2 DEF Block
  <2> QED
    BY <2>2, <2>3
<1>4. CASE timers' = timers
  BY <1>4
<1>5. \/ \E t \in Tasks : Step(t)
      \/ \E e \in Settlements : SetState(e)
      \/ \E p \in posted : CollectBlock(p)
      \/ \E x \in timers : CheckTimeout(x) \/ TimeoutAnswered(x) \/ DelayedTimeout(x)
      \/ timers' = timers
  BY DEF Next, Callback, Event, Environment, ProcessQueue, MaybePost, DisputeUpdated,
         CollectThrows, ReceiveBlock, ReceiveConfirmation, Play, PeerPosts, Tick, vars,
         callbacks
<1> QED
  BY <1>1, <1>2, <1>3, <1>4, <1>5

(* The events that are still to come.                                      *)
LEMMA EventsKept ==
    ASSUME IInv, HInv, [Next]_vars
    PROVE  /\ forks' # <<>> => nextEvent' # 0
           /\ nextEvent' = 0 => timers' = {}
           /\ forks = <<>> /\ forks' # <<>> => timers = {}
<1>1. forks \in Seq(ForkRecord) /\ nextEvent \in Nat
  BY DEF IInv, Typing
<1>2. CASE \E e \in Settlements : SetState(e)
  <2>1. PICK e \in Settlements : SetState(e)
    BY <1>2
  <2>2. nextEvent' = nextEvent + 1 /\ forks' = WithFork(nextEvent, e.state, e.timestamp)
    BY <2>1 DEF SetState, HearSettlement
  <2>3. nextEvent' # 0
    BY <1>1, <2>2
  <2>4. forks' # forks => nextEvent = Len(forks)
    BY <2>2 DEF WithFork
  <2>5. forks = <<>> /\ forks' # <<>> => nextEvent = 0
    BY <2>4
  <2> QED
    BY <2>3, <2>5 DEF HInv
<1>3. CASE ~\E e \in Settlements : SetState(e)
  <2>1. nextEvent' = nextEvent
    BY <1>3 DEF Next, Step, Validate, Confirm, Author, IgnoreBlock, IgnoreDuplicate,
         QueueBlock, RejectConflict, RejectBlock, RejectExecuted, RejectFuture, AskChain,
         AcceptBlock, AcceptUnseen, ConfirmBlock, ConfirmThrows, PlayRefused, PlayApplied,
         PlaySealed, PlayThrows, Callback, Event, Environment, ProcessQueue, CheckTimeout,
         TimeoutAnswered, DelayedTimeout, MaybePost, DisputeUpdated, CollectBlock,
         CollectThrows, ReceiveBlock, ReceiveConfirmation, Play, PeerPosts, Tick, vars, chain
  <2>2. Len(forks') = Len(forks)
    BY <1>3, ForksChange, BlockAdded
  <2>3. forks' # <<>> => forks # <<>>
    <3>1. CASE forks = <<>>
      <4>1. Len(forks') = 0 /\ forks' \in Seq(ForkRecord)
        BY <2>2, <3>1, NextKeepsInvariant, StutterKeepsInvariant DEF IInv, Typing
      <4> QED
        BY <4>1
    <3> QED
      BY <3>1
  <2>4. nextEvent = 0 => timers' = {}
    BY <1>3, TimersChange DEF HInv
  <2> QED
    BY <2>1, <2>3, <2>4 DEF HInv
<1> QED
  BY <1>2, <1>3

(* The timer onSuccessCommon sets is about the turn after the latest fork: *)
(* the EVM is at its state, or the peer is sealing the block of that turn. *)
LEMMA NextTurn ==
    ASSUME IInv, IInv', HInv, Steady, Steady', [Next]_vars, forks' # <<>>
    PROVE  TurnOf(LatestForkCnt', NextBlockHeight', Writer', forks')
<1>1. forks' \in Seq(ForkRecord)
  BY DEF IInv, Typing
<1>2. PICK k : k = Len(forks')
  OBVIOUS
<1>3. k \in Nat \ {0} /\ k \in 1..Len(forks') /\ forks'[k] \in ForkRecord
  BY <1>1, <1>2, LatestIs
<1>4. /\ LatestForkCnt' = k - 1 /\ NextBlockHeight' = Len(forks'[k].agreements)
      /\ LatestState' = Tip(forks'[k])
  BY <1>1, <1>2, LatestTipAfter
<1>5. PICK n \in Nat : n = Len(forks'[k].agreements)
  BY <1>3, ForkParts
<1>6. LatestForkCnt' \in Nat /\ LatestForkCnt' < Len(forks') /\ LatestForkCnt' + 1 = k
  BY <1>2, <1>3, <1>4
<1>7. Tip(forks'[k]) = StateBefore(forks'[k], n + 1)
  BY <1>5 DEF Tip
<1>8. Writer' = NextToWrite(Tip(forks'[k])) \/ NextToWrite(Tip(forks'[k])) = Me
  <2>1. CASE \E u \in Tasks : tasks'[u].pc = "seal"
    <3>1. PICK u \in Tasks : tasks'[u].pc = "seal"
      BY <2>1
    <3>2. PICK b : b = tasks'[u].msg.block
      OBVIOUS
    <3>3. b.forkCnt = k - 1 /\ NextToWrite(Tip(forks'[b.forkCnt + 1])) = Me
      BY <1>2, <3>1, <3>2, CallsKept DEF CallInv
    <3>4. b.forkCnt + 1 = k
      BY <1>3, <3>3
    <3> QED
      BY <3>3, <3>4
  <2>2. CASE ~\E u \in Tasks : tasks'[u].pc = "seal"
    <3>1. machine' = LatestState'
      BY <2>2 DEF Steady, MachineFollowsFork
    <3> QED
      BY <1>4, <3>1 DEF Writer
  <2> QED
    BY <2>1, <2>2
<1> QED
  BY <1>4, <1>5, <1>6, <1>7, <1>8 DEF TurnOf

(* A timer that was set says what it said when forks have grown.           *)
LEMMA TimerStays ==
    ASSUME IInv, IInv', HInv, [Next]_vars, NEW x \in timers
    PROVE  TimerInv(x, forks')
<1>1. TimerInv(x, forks) /\ forks \in Seq(ForkRecord) /\ forks' \in Seq(ForkRecord)
  BY DEF HInv, IInv, Typing
<1>2. Grown(forks, forks')
  BY NextKeepsInvariant, StutterKeepsInvariant
<1>3. CASE forks = <<>>
  <2>1. forks' = <<>>
    BY <1>3, EventsKept
  <2> QED
    BY <1>1, <1>3, <2>1
<1>4. CASE forks # <<>>
  <2>1. forks' # <<>>
    BY <1>1, <1>2, <1>4 DEF Grown
  <2>2. TurnOf(x.turn.forkCnt, x.turn.transactionCnt, x.turn.participant, forks)
    BY <1>1, <1>4 DEF TimerInv
  <2> QED
    BY <1>1, <1>2, <1>4, <2>1, <2>2, TurnStays DEF TimerInv
<1> QED
  BY <1>3, <1>4

(* The time a turn is counted from is that of a block, or of the fork, and *)
(* none is later than the newest.                                          *)
LEMMA TurnTime ==
    ASSUME forks \in Seq(ForkRecord), \A i \in 1..Len(forks) : Chained(forks[i]),
           NEW f, NEW h, NEW a, TurnOf(f, h, a, forks)
    PROVE  /\ TimeBefore(forks[f + 1], h + 1) \in Nat /\ Newest(forks[f + 1]) \in Nat
           /\ TimeBefore(forks[f + 1], h + 1) <= Newest(forks[f + 1])
<1>1. f \in Nat /\ h \in Nat /\ f < Len(forks) /\ h <= Len(forks[f + 1].agreements)
  BY DEF TurnOf
<1>2. PICK i \in 1..Len(forks) : i = f + 1
  BY <1>1
<1>3. forks[i] \in ForkRecord /\ Chained(forks[i])
  BY ElementOf
<1>4. PICK n \in Nat : n = Len(forks[i].agreements)
  BY <1>3, ForkParts
<1>5. h + 1 \in 1..(n + 1)
  BY <1>1, <1>2, <1>4
<1> QED
  BY <1>2, <1>3, <1>4, <1>5, NewestIsLatest

(* The window that a timer waits for after it asked the chain ends when    *)
(* that of its turn has ended.                                             *)
LEMMA WindowLemma ==
    ASSUME IInv, HInv, NEW x \in timers, x.stage = "asked"
    PROVE  LET f == x.turn.forkCnt  h == x.turn.transactionCnt
           IN  /\ forks # <<>> /\ TurnOf(f, h, x.turn.participant, forks)
               /\ TimeBefore(forks[f + 1], h + 1) \in Nat
               /\ TimeoutReady(f) \in Nat
               /\ TimeoutReady(f) >= TimeBefore(forks[f + 1], h + 1) + TimeoutWaitTime
<1>1. PICK f : f = x.turn.forkCnt
  OBVIOUS
<1>2. PICK h : h = x.turn.transactionCnt
  OBVIOUS
<1>3. forks # <<>> /\ TurnOf(f, h, x.turn.participant, forks)
  BY <1>1, <1>2 DEF HInv, TimerInv
<1>4. /\ TimeBefore(forks[f + 1], h + 1) \in Nat /\ Newest(forks[f + 1]) \in Nat
      /\ TimeBefore(forks[f + 1], h + 1) <= Newest(forks[f + 1])
  BY <1>3, TurnTime DEF HInv, IInv, Typing
<1>5. TimeoutReady(f) = Newest(forks[f + 1]) + TimeoutWaitTime
  BY DEF TimeoutReady, LatestBlockTimestamp, Newest, Fork
<1>6. TimeoutWaitTime \in Nat
  BY ClientTimesAssumption DEF TimeoutWaitTime
<1>7. /\ TimeoutReady(f) \in Nat
      /\ TimeoutReady(f) >= TimeBefore(forks[f + 1], h + 1) + TimeoutWaitTime
  BY <1>4, <1>5, <1>6
<1> QED
  BY <1>1, <1>2, <1>3, <1>4, <1>7

(* So the timers keep what holds of them.                                  *)
LEMMA TimersKept ==
    ASSUME IInv, IInv', HInv, Steady, Steady', [Next]_vars
    PROVE  \A x \in timers' : TimerInv(x, forks')
<1>1. \A x \in timers : TimerInv(x, forks')
  BY TimerStays
<1>2. ASSUME OnSuccess
      PROVE  \A x \in timers' : TimerInv(x, forks')
  <2>1. PICK x : x = [turn |-> Turn', due |-> now + TimeoutWaitTime, stage |-> "check"]
    OBVIOUS
  <2>2. timers' \subseteq timers \cup {x}
    BY <1>2, <2>1 DEF OnSuccess, TryTimeoutNext, ScheduleTask
  <2>3. now + TimeoutWaitTime \in Nat
    <3>1. now \in Nat
      BY DEF IInv, Typing
    <3>2. TimeoutWaitTime \in Nat
      BY ClientTimesAssumption DEF TimeoutWaitTime
    <3> QED
      BY <3>1, <3>2
  <2>4. x.stage = "check" /\ x.due \in Nat /\ x.turn = Turn'
        /\ x = [turn |-> x.turn, due |-> x.due, stage |-> x.stage]
    BY <2>1, <2>3
  <2>5. x.turn.forkCnt = LatestForkCnt' /\ x.turn.transactionCnt = NextBlockHeight'
        /\ x.turn.participant = Writer'
    BY <2>4 DEF Turn
  <2>6. CASE forks' = <<>>
    <3>1. x.turn.forkCnt = 0
      BY <2>5, <2>6 DEF LatestForkCnt
    <3>2. TimerInv(x, forks')
      BY <2>4, <2>6, <3>1 DEF TimerInv
    <3> QED
      BY <1>1, <2>2, <3>2
  <2>7. CASE forks' # <<>>
    <3>1. TurnOf(x.turn.forkCnt, x.turn.transactionCnt, x.turn.participant, forks')
      BY <2>5, <2>7, NextTurn
    <3>2. x.turn.forkCnt \in Nat
      BY <3>1 DEF TurnOf
    <3>3. TimerInv(x, forks')
      BY <2>4, <2>7, <3>1, <3>2 DEF TimerInv
    <3> QED
      BY <1>1, <2>2, <3>3
  <2> QED
    BY <2>6, <2>7
<1>3. ASSUME NEW x \in timers, CheckTimeout(x)
      PROVE  \A y \in timers' : TimerInv(y, forks')
  <2>1. CASE TimeoutDue(x)
    <3>1. PICK y : y = [x EXCEPT !.stage = "asked"]
      OBVIOUS
    <3>2. timers' \subseteq timers \cup {y} /\ forks' = forks
      BY <1>3, <2>1, <3>1 DEF CheckTimeout, agreement
    <3>3. TimerInv(x, forks')
      BY <1>1
    <3>4. x = [turn |-> x.turn, due |-> x.due, stage |-> x.stage]
      BY <3>3 DEF TimerInv
    <3>5. y.turn = x.turn /\ y.due = x.due /\ y.stage = "asked"
          /\ y = [turn |-> y.turn, due |-> y.due, stage |-> y.stage]
      BY <3>1, <3>4
    <3>6. forks # <<>>
      <4>1. x.turn.forkCnt < Len(forks) /\ x.turn.forkCnt \in Nat
        BY <2>1, <3>3 DEF TimeoutDue, IsValidForkCnt, TimerInv
      <4> QED
        BY <4>1
    <3>7. TimerInv(y, forks')
      BY <3>2, <3>3, <3>5, <3>6 DEF TimerInv
    <3> QED
      BY <1>1, <3>2, <3>7
  <2>2. CASE ~TimeoutDue(x)
    BY <1>1, <1>3, <2>2 DEF CheckTimeout
  <2> QED
    BY <2>1, <2>2
<1>4. ASSUME NEW x \in timers, TimeoutAnswered(x)
      PROVE  \A y \in timers' : TimerInv(y, forks')
  <2>1. PICK ready : ready = TimeoutReady(x.turn.forkCnt)
    OBVIOUS
  <2>2. x.stage = "asked" /\ forks' = forks
    BY <1>4 DEF TimeoutAnswered, agreement
  <2>3. PICK y : y = [x EXCEPT !.stage = "delayed", !.due = ready]
    OBVIOUS
  <2>4. timers' \subseteq timers \cup {y}
    BY <1>4, <2>1, <2>3 DEF TimeoutAnswered
  <2>5. TimerInv(x, forks) /\ x = [turn |-> x.turn, due |-> x.due, stage |-> x.stage]
    BY DEF HInv, TimerInv
  <2>6. y.turn = x.turn /\ y.due = ready /\ y.stage = "delayed"
        /\ y = [turn |-> y.turn, due |-> y.due, stage |-> y.stage]
    BY <2>3, <2>5
  <2>7. TimerInv(y, forks')
    BY <2>1, <2>2, <2>5, <2>6, WindowLemma DEF TimerInv
  <2> QED
    BY <1>1, <2>4, <2>7
<1>5. ASSUME NEW x \in timers, DelayedTimeout(x)
      PROVE  \A y \in timers' : TimerInv(y, forks')
  BY <1>1, <1>5 DEF DelayedTimeout
<1> QED
  BY <1>1, <1>2, <1>3, <1>4, <1>5, TimersChange

(* What a step accuses of: an answer of the chain to a timer, or a timer   *)
(* that has waited for long enough, accuses of a timeout; no other step    *)
(* does.                                                                   *)
LEMMA AccusationsChange ==
    ASSUME [Next]_vars, NEW r \in raised', r \notin raised
    PROVE  \/ r.kind # "Timeout"
           \/ \E x \in timers :
                 /\ r = Accusation("Timeout", x.turn.forkCnt, x.turn.transactionCnt,
                                   x.turn.participant)
                 /\ UNCHANGED <<forks, now>>
                 /\ \/ x.stage = "asked" /\ now > TimeoutReady(x.turn.forkCnt)
                    \/ x.stage = "delayed" /\ now >= x.due
<1>1. ASSUME NEW f, NEW acc, CreateDispute(f, acc) PROVE r = acc
  BY <1>1 DEF CreateDispute
<1>2. ASSUME NEW b, DisputeConflict(b) \/ DisputeIncorrectData(b) PROVE r.kind # "Timeout"
  BY <1>1, <1>2 DEF DisputeConflict, DisputeDoubleSign, DisputeIncorrectData, disputing,
     Accusation
<1>3. ASSUME NEW t \in Tasks, Step(t) PROVE r.kind # "Timeout"
  <2>1. CASE RejectConflict(t) \/ RejectBlock(t) \/ RejectExecuted(t)
    BY <1>2, <2>1 DEF RejectConflict, RejectBlock, RejectExecuted
  <2>2. CASE RejectFuture(t)
    BY <1>1, <2>2 DEF RejectFuture, Accusation
  <2>3. CASE raised' = raised
    BY <2>3
  <2>4. raised' = raised \/ RejectConflict(t) \/ RejectBlock(t) \/ RejectExecuted(t)
          \/ RejectFuture(t)
    BY <1>3 DEF Step, Validate, Confirm, Author, IgnoreBlock, IgnoreDuplicate, QueueBlock,
         AskChain, AcceptBlock, AcceptUnseen, ConfirmBlock, ConfirmThrows, PlayRefused,
         PlayApplied, PlaySealed, PlayThrows, disputing
  <2> QED
    BY <2>1, <2>2, <2>3, <2>4
<1>4. ASSUME NEW p \in posted, CollectBlock(p) PROVE r.kind # "Timeout"
  BY <1>2, <1>4 DEF CollectBlock, disputing
<1>5. ASSUME NEW x \in timers, TimeoutAnswered(x) \/ DelayedTimeout(x)
      PROVE  /\ r = Accusation("Timeout", x.turn.forkCnt, x.turn.transactionCnt,
                               x.turn.participant)
             /\ UNCHANGED <<forks, now>>
             /\ \/ x.stage = "asked" /\ now > TimeoutReady(x.turn.forkCnt)
                \/ x.stage = "delayed" /\ x.due <= now
  <2>1. CASE TimeoutAnswered(x)
    <3>1. DisputeTimeout(x) /\ now > TimeoutReady(x.turn.forkCnt)
      BY <2>1 DEF TimeoutAnswered, disputing
    <3> QED
      BY <1>1, <2>1, <3>1 DEF TimeoutAnswered, DisputeTimeout, agreement
  <2>2. CASE DelayedTimeout(x)
    BY <1>1, <2>2 DEF DelayedTimeout, DisputeTimeout, agreement
  <2> QED
    BY <1>5, <2>1, <2>2
<1>6. \/ \E t \in Tasks : Step(t)
      \/ \E p \in posted : CollectBlock(p)
      \/ \E x \in timers : TimeoutAnswered(x) \/ DelayedTimeout(x)
      \/ raised' = raised
  BY DEF Next, Callback, Event, Environment, ProcessQueue, MaybePost, CheckTimeout, SetState,
         DisputeUpdated, CollectThrows, ReceiveBlock, ReceiveConfirmation, Play, PeerPosts,
         Tick, vars, disputing
<1> QED
  BY <1>3, <1>4, <1>5, <1>6

(* Time does not run backwards.                                            *)
LEMMA TimePasses ==
    ASSUME IInv, [Next]_vars
    PROVE  now \in Nat /\ now' \in Nat /\ now <= now'
<1>1. now \in Nat
  BY DEF IInv, Typing
<1>2. now' = now \/ now' = now + 1
  BY DEF Next, Step, Validate, Confirm, Author, IgnoreBlock, IgnoreDuplicate,
         QueueBlock, RejectConflict, RejectBlock, RejectExecuted, RejectFuture, AskChain,
         AcceptBlock, AcceptUnseen, ConfirmBlock, ConfirmThrows, PlayRefused, PlayApplied,
         PlaySealed, PlayThrows, Callback, Event, Environment, ProcessQueue, CheckTimeout,
         TimeoutAnswered, DelayedTimeout, MaybePost, SetState, DisputeUpdated, CollectBlock,
         CollectThrows, ReceiveBlock, ReceiveConfirmation, Play, PeerPosts, Tick, vars
<1> QED
  BY <1>1, <1>2

(* The accusations of a timeout stay due, and new ones are.                *)
LEMMA AccusationsKept ==
    ASSUME IInv, IInv', HInv, [Next]_vars, NEW r \in raised'
    PROVE  DueInv(r, forks', now')
<1>1. forks \in Seq(ForkRecord) /\ forks' \in Seq(ForkRecord) /\ Grown(forks, forks')
  BY NextKeepsInvariant, StutterKeepsInvariant DEF IInv, Typing
<1>2. TimeoutWaitTime \in Nat
  BY ClientTimesAssumption DEF TimeoutWaitTime
<1>3. CASE r.kind # "Timeout"
  BY <1>3 DEF DueInv
<1>4. CASE r.kind = "Timeout"
  <2>1. PICK f : f = r.forkCnt
    OBVIOUS
  <2>2. PICK h : h = r.transactionCnt
    OBVIOUS
  <2>3. CASE r \in raised
    <3>1. TurnOf(f, h, r.accused, forks) /\ now >= TimeBefore(forks[f + 1], h + 1) + TimeoutWaitTime
      BY <1>4, <2>1, <2>2, <2>3 DEF HInv, DueInv
    <3>2. TurnOf(f, h, r.accused, forks')
          /\ TimeBefore(forks'[f + 1], h + 1) = TimeBefore(forks[f + 1], h + 1)
      BY <1>1, <3>1, TurnStays
    <3>3. TimeBefore(forks[f + 1], h + 1) \in Nat
      BY <3>1, TurnTime DEF HInv, IInv, Typing
    <3>4. now' >= TimeBefore(forks'[f + 1], h + 1) + TimeoutWaitTime
      BY <1>2, <3>1, <3>2, <3>3, TimePasses
    <3> QED
      BY <2>1, <2>2, <3>2, <3>4 DEF DueInv
  <2>4. CASE r \notin raised
    <3>1. PICK x \in timers :
             /\ r = Accusation("Timeout", x.turn.forkCnt, x.turn.transactionCnt,
                               x.turn.participant)
             /\ UNCHANGED <<forks, now>>
             /\ \/ x.stage = "asked" /\ now > TimeoutReady(x.turn.forkCnt)
                \/ x.stage = "delayed" /\ now >= x.due
      BY <1>4, <2>4, AccusationsChange
    <3>2. f = x.turn.forkCnt /\ h = x.turn.transactionCnt /\ r.accused = x.turn.participant
      BY <2>1, <2>2, <3>1 DEF Accusation
    <3>3. TimerInv(x, forks)
      BY DEF HInv
    <3>4. TurnOf(f, h, r.accused, forks)
      BY <3>1, <3>2, <3>3 DEF TimerInv
    <3>5. TimeBefore(forks[f + 1], h + 1) \in Nat /\ now \in Nat
      BY <3>4, TurnTime, TimePasses DEF HInv, IInv, Typing
    <3>6. now >= TimeBefore(forks[f + 1], h + 1) + TimeoutWaitTime
      <4>1. CASE x.stage = "asked"
        <5>1. now > TimeoutReady(f) /\ TimeoutReady(f) \in Nat
              /\ TimeoutReady(f) >= TimeBefore(forks[f + 1], h + 1) + TimeoutWaitTime
          BY <3>1, <3>2, <4>1, WindowLemma
        <5> QED
          BY <1>2, <3>5, <5>1
      <4>2. CASE x.stage = "delayed"
        <5>1. x.due \in Nat /\ now >= x.due
              /\ x.due >= TimeBefore(forks[f + 1], h + 1) + TimeoutWaitTime
          BY <3>1, <3>2, <3>3, <4>2 DEF TimerInv
        <5> QED
          BY <1>2, <3>5, <5>1
      <4> QED
        BY <3>1, <4>1, <4>2
    <3> QED
      BY <2>1, <2>2, <3>1, <3>4, <3>6 DEF DueInv
  <2> QED
    BY <2>3, <2>4
<1> QED
  BY <1>3, <1>4

-----------------------------------------------------------------------------
(* The theorems.                                                           *)

(* As long as the EVM is at the state of the latest fork and no fork is    *)
(* settled in the middle of a call, every step keeps the histories.        *)
LEMMA HistoryKept ==
    ASSUME IInv, IInv', HInv, Steady, Steady', [Next]_vars
    PROVE  HInv'
BY ChainsKept, CallsKept, EventsKept, TimersKept, AccusationsKept DEF HInv

(* They hold before anything happens.                                      *)
LEMMA InitialHistory == Init => HInv
<1> SUFFICES ASSUME Init PROVE HInv
  OBVIOUS
<1>1. /\ forks = <<>> /\ Len(forks) = 0 /\ timers = {} /\ raised = {}
      /\ tasks = [t \in Tasks |-> Idle]
  BY DEF Init
<1>2. \A t \in Tasks : tasks[t].pc = "idle"
  BY <1>1, IdleIsTask
<1> QED
  BY <1>1, <1>2 DEF HInv, CallInv

(* And so in every state of such a behaviour.                              *)
THEOREM HistoryInvariance == Spec /\ []Steady => []HInv
<1>1. Init => HInv
  BY InitialHistory
<1>2. IInv /\ IInv' /\ HInv /\ Steady /\ Steady' /\ [Next]_vars => HInv'
  BY HistoryKept
<1> QED
  BY <1>1, <1>2, Invariance, PTL DEF Spec

(* A fork and a place of its chain, as the properties count them.          *)
LEMMA ForkPlace ==
    ASSUME IInv, NEW f \in 0..(Len(forks) - 1)
    PROVE  /\ f + 1 \in 1..Len(forks) /\ forks[f + 1] \in ForkRecord
           /\ f < Len(forks) /\ Fork(f) = forks[f + 1]
<1>1. forks \in Seq(ForkRecord) /\ Len(forks) \in Nat
  BY DEF IInv, Typing
<1>2. f + 1 \in 1..Len(forks) /\ f < Len(forks)
  BY <1>1
<1> QED
  BY <1>1, <1>2, ElementOf DEF Fork

(* The chain of a fork is one history: every block commits to the state    *)
(* the one before it leads to, the first to the settled state, and time    *)
(* does not run backwards (BlockValidator, isGoodTimestamp), as long as    *)
(* the EVM is at the state of the latest fork and no fork is settled in    *)
(* the middle of a call.                                                   *)
THEOREM ChainLinkedHolds == Spec /\ []Steady => []ChainLinked
<1>1. ASSUME IInv, HInv PROVE ChainLinked
  <2>1. ASSUME NEW f \in 0..(Len(forks) - 1), NEW h \in 0..(Len(Fork(f).agreements) - 1)
        PROVE  LET b == AgreementAt(f, h).block
               IN  IF h = 0
                   THEN /\ b.previousState = Fork(f).genesis
                        /\ b.timestamp >= Fork(f).genesisTimestamp
                   ELSE /\ b.previousState = AgreementAt(f, h - 1).state
                        /\ b.timestamp >= AgreementAt(f, h - 1).block.timestamp
    <3>1. PICK r \in ForkRecord : r = Fork(f) /\ Chained(r)
      BY <1>1, ForkPlace DEF HInv
    <3>2. PICK n \in Nat : n = Len(r.agreements)
      BY ForkParts
    <3>3. PICK j \in 1..n : j = h + 1
      BY <2>1, <3>1, <3>2
    <3>4. AgreementAt(f, h) = r.agreements[j]
      BY <3>1, <3>3 DEF AgreementAt
    <3>5. LET b == r.agreements[j].block
          IN  /\ b.previousState = StateBefore(r, j)
              /\ b.timestamp >= r.genesisTimestamp
              /\ \A k \in 1..j : r.agreements[k].block.timestamp <= b.timestamp
      BY <3>1, <3>2 DEF Chained
    <3>6. CASE h = 0
      <4>1. j = 1 /\ StateBefore(r, j) = r.genesis
        BY <3>3, <3>6 DEF StateBefore
      <4> QED
        BY <3>1, <3>4, <3>5, <3>6, <4>1
    <3>7. CASE h # 0
      <4>1. h \in 1..j /\ j # 1 /\ j - 1 = h /\ h - 1 + 1 = h
        BY <2>1, <3>3, <3>7
      <4>2. h \in 1..n
        BY <3>3, <4>1
      <4>3. AgreementAt(f, h - 1) = r.agreements[h]
        BY <3>1, <4>1 DEF AgreementAt
      <4>4. StateBefore(r, j) = r.agreements[h].state
        BY <4>1 DEF StateBefore
      <4>5. /\ r.agreements[h].block.timestamp <= r.agreements[j].block.timestamp
            /\ r.agreements[h].block.timestamp \in Nat
            /\ r.agreements[j].block.timestamp \in Nat
        BY <3>2, <3>5, <4>1, <4>2, ForkParts
      <4>6. r.agreements[j].block.timestamp >= r.agreements[h].block.timestamp
        BY <4>5
      <4> QED
        BY <3>4, <3>5, <3>7, <4>3, <4>4, <4>6
    <3> QED
      BY <3>6, <3>7
  <2> QED
    BY <2>1 DEF ChainLinked
<1> QED
  BY <1>1, Invariance, HistoryInvariance, PTL

(* A participant is accused of a timeout only if it is the one to write    *)
(* after the block before, and only when the whole window has passed since *)
(* that block (tryTimeoutParticipant, onSuccessCommon), as long as the EVM *)
(* is at the state of the latest fork and no fork is settled in the middle *)
(* of a call.                                                              *)
THEOREM TimeoutsAreDueHolds == Spec /\ []Steady => []TimeoutsAreDue
<1>1. ASSUME IInv, HInv PROVE TimeoutsAreDue
  <2>1. ASSUME NEW r \in raised, r.kind = "Timeout"
        PROVE  LET f == r.forkCnt
                   h == r.transactionCnt
                   Due(writer, since) == /\ r.accused = writer \/ Me = writer
                                         /\ now >= since + TimeoutWaitTime
               IN  IF h = 0
                   THEN Due(NextToWrite(Fork(f).genesis), Fork(f).genesisTimestamp)
                   ELSE /\ Agreed(f, h - 1)
                        /\ Due(NextToWrite(AgreementAt(f, h - 1).state),
                               AgreementAt(f, h - 1).block.timestamp)
    <3>1. PICK f : f = r.forkCnt
      OBVIOUS
    <3>2. PICK h : h = r.transactionCnt
      OBVIOUS
    <3>3. /\ TurnOf(f, h, r.accused, forks)
          /\ now >= TimeBefore(forks[f + 1], h + 1) + TimeoutWaitTime
      BY <1>1, <2>1, <3>1, <3>2 DEF HInv, DueInv
    <3>4. /\ f \in Nat /\ h \in Nat /\ f < Len(forks) /\ h <= Len(forks[f + 1].agreements)
          /\ \/ r.accused = NextToWrite(StateBefore(forks[f + 1], h + 1))
             \/ Me = NextToWrite(StateBefore(forks[f + 1], h + 1))
      BY <3>3 DEF TurnOf
    <3>5. PICK g \in ForkRecord : g = Fork(f) /\ g = forks[f + 1]
      <4>1. f \in 0..(Len(forks) - 1)
        BY <1>1, <3>4 DEF IInv, Typing
      <4> QED
        BY <1>1, <4>1, ForkPlace
    <3>6. CASE h = 0
      <4>1. h + 1 = 1
        BY <3>6
      <4>2. /\ StateBefore(g, h + 1) = Fork(f).genesis
            /\ TimeBefore(g, h + 1) = Fork(f).genesisTimestamp
        BY <3>5, <4>1 DEF StateBefore, TimeBefore
      <4> QED
        BY <3>1, <3>2, <3>3, <3>4, <3>5, <3>6, <4>2
    <3>7. CASE h # 0
      <4>1. h + 1 # 1 /\ h + 1 - 1 = h /\ h - 1 + 1 = h
        BY <3>4, <3>7
      <4>2. /\ StateBefore(g, h + 1) = AgreementAt(f, h - 1).state
            /\ TimeBefore(g, h + 1) = AgreementAt(f, h - 1).block.timestamp
        <5>1. AgreementAt(f, h - 1) = g.agreements[h]
          BY <3>5, <4>1 DEF AgreementAt
        <5>2. /\ StateBefore(g, h + 1) = g.agreements[h].state
              /\ TimeBefore(g, h + 1) = g.agreements[h].block.timestamp
          <6>1. PICK j : j = h + 1
            OBVIOUS
          <6>2. j # 1 /\ j - 1 = h
            BY <3>4, <3>7, <6>1
          <6>3. StateBefore(g, j) = g.agreements[h].state
            BY <6>2 DEF StateBefore
          <6>4. TimeBefore(g, j) = g.agreements[h].block.timestamp
            BY <6>2 DEF TimeBefore
          <6> QED
            BY <6>1, <6>3, <6>4
        <5> QED
          BY <5>1, <5>2
      <4>3. Agreed(f, h - 1)
        <5>1. Len(g.agreements) \in Nat
          BY ForkParts
        <5>2. h - 1 < Len(g.agreements)
          BY <3>4, <3>5, <5>1
        <5> QED
          BY <3>4, <3>5, <5>2 DEF Agreed, IsValidForkCnt
      <4> QED
        BY <3>1, <3>2, <3>3, <3>4, <3>5, <3>7, <4>2, <4>3
    <3> QED
      BY <3>6, <3>7
  <2> QED
    BY <2>1 DEF TimeoutsAreDue
<1> QED
  BY <1>1, Invariance, HistoryInvariance, PTL

=============================================================================
