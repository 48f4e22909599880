-------------------------- MODULE StateManagerProofs --------------------------
(***************************************************************************)
(* What holds of StateManager for every value of its constants: any        *)
(* application, number of calls, messages, settlements, times and bounds,  *)
(* careful or careless users, reliable or unreliable signers and chains.   *)
(***************************************************************************)
EXTENDS StateManager, FiniteSetTheorems, SequenceTheorems, TLAPS

(* A fork before a step and after it: what is there stays there, except    *)
(* that signers are added.                                                 *)
Extends(f, g) ==
    /\ g.genesis = f.genesis /\ g.genesisTimestamp = f.genesisTimestamp
    /\ Len(f.agreements) <= Len(g.agreements)
    /\ \A j \in 1..Len(f.agreements) :
          /\ g.agreements[j].block = f.agreements[j].block
          /\ g.agreements[j].state = f.agreements[j].state
          /\ f.agreements[j].signers \subseteq g.agreements[j].signers

Grown(F, G) == Len(F) <= Len(G) /\ \A i \in 1..Len(F) : Extends(F[i], G[i])

SameLengths(F, G) ==
    \A i \in 1..Len(F) : Len(G[i].agreements) = Len(F[i].agreements)

(* A block of which its author's turn and state are right.                 *)
Faithful(b) ==
    b.participant = NextToWrite(b.previousState) /\ b.state = Executed(b.previousState, b)

(* Every agreement is about a faithful block, at the place of that block.  *)
Ordered(F) ==
    \A i \in 1..Len(F) : \A j \in 1..Len(F[i].agreements) :
        LET a == F[i].agreements[j]
        IN  /\ a.block.forkCnt = i - 1 /\ a.block.transactionCnt = j - 1
            /\ Faithful(a.block)
            /\ a.state = a.block.state

InChain(b, F) ==
    /\ b.forkCnt < Len(F)
    /\ b.transactionCnt < Len(F[b.forkCnt + 1].agreements)
    /\ F[b.forkCnt + 1].agreements[b.transactionCnt + 1].block = b

(* The place of the block is the next one of its fork; it is the next or   *)
(* was, or there are no forks yet.                                         *)
Placed(b, F) ==
    b.forkCnt < Len(F) /\ b.transactionCnt = Len(F[b.forkCnt + 1].agreements)

Reaches(b, F) ==
    IF b.forkCnt < Len(F) THEN b.transactionCnt <= Len(F[b.forkCnt + 1].agreements)
    ELSE b.forkCnt = 0 /\ b.transactionCnt = 0

(* What the peer wrote it released, and the rest is not its own.           *)
Own(b, R) == b.participant = Me => b \in R

(* A call that is under way: its block is the peer's own only if the peer  *)
(* released it or is writing it; while it waits for the chain nobody takes *)
(* the place of its block; what it seals is faithful.                      *)
TaskInv(task, F, R) ==
    /\ task \in Task
    /\ task.pc # "idle" => task.msg \in SignedBlock
    /\ task.pc \in {"lock", "validate", "askChain"} => Own(task.msg.block, R)
    /\ \A i \in 1..Len(task.rest) : Own(task.rest[i].block, R)
    /\ task.pc = "askChain" => Placed(task.msg.block, F)
    /\ task.pc \in {"playLock", "play", "seal"} =>
          task.msg.block.participant = Me /\ Reaches(task.msg.block, F)
    /\ task.pc = "seal" => task.msg.block.forkCnt < Len(F) /\ Faithful(task.msg.block)

(* The types of the variables the agreements depend on.                    *)
Typing ==
    /\ now \in Nat
    /\ machine \in State
    /\ forks \in Seq(ForkRecord)
    /\ blockQ \subseteq SignedBlock /\ IsFiniteSet(blockQ)
    /\ released \subseteq Block
    /\ mutex \in [isLocked : BOOLEAN, queue : Seq(Tasks)]
    /\ tasks \in [Tasks -> Task]
    /\ wakeup \in BOOLEAN
    /\ pendingPosts \subseteq [block : Block, due : Nat]
    /\ heard \subseteq posted /\ posted \subseteq Post
    /\ nextEvent \in Nat

(* What the peer released is in its chain, and nothing else that carries   *)
(* its name is queued, posted or about to be posted.                       *)
Releases ==
    /\ \A b \in released : InChain(b, forks)
    /\ \A m \in blockQ : Own(m.block, released)
    /\ \A p \in posted : Own(p.block, released)
    /\ \A x \in pendingPosts : x.block \in released

(* Nobody accuses itself, now or when a timer runs out.                    *)
NotAccused ==
    /\ \A r \in raised : r.accused # Me
    /\ \A x \in timers : x.turn.participant # Me

(* The invariant that is inductive.                                        *)
IInv ==
    /\ Typing
    /\ LockDiscipline
    /\ Ordered(forks)
    /\ Releases
    /\ NotAccused
    /\ \A t \in Tasks : TaskInv(tasks[t], forks, released)

-----------------------------------------------------------------------------
(* Lemmas on the forks.                                                    *)

(* An element of a sequence is of the set the sequence is over.            *)
LEMMA ElementOf ==
    ASSUME NEW S, NEW q \in Seq(S), NEW i \in 1..Len(q)
    PROVE  q[i] \in S
OBVIOUS

(* A fork extends itself.                                                  *)
LEMMA ExtendsReflexive ==
    ASSUME NEW f \in ForkRecord
    PROVE  Extends(f, f)
<1>1. Len(f.agreements) \in Nat
  BY DEF ForkRecord
<1> QED
  BY <1>1 DEF Extends

Replaced(F, k, r) == [F EXCEPT ![k] = r]

(* A fork is replaced by one that extends it.                              *)
LEMMA ReplacedFork ==
    ASSUME NEW F \in Seq(ForkRecord), NEW k \in 1..Len(F), NEW r \in ForkRecord,
           Extends(F[k], r)
    PROVE  /\ Replaced(F, k, r) \in Seq(ForkRecord)
           /\ Len(Replaced(F, k, r)) = Len(F)
           /\ Replaced(F, k, r)[k] = r
           /\ \A i \in 1..Len(F) : i # k => Replaced(F, k, r)[i] = F[i]
           /\ Grown(F, Replaced(F, k, r))
<1> DEFINE G == Replaced(F, k, r)
<1>1. /\ G \in Seq(ForkRecord) /\ Len(G) = Len(F) /\ G[k] = r
      /\ \A i \in 1..Len(F) : i # k => G[i] = F[i]
  BY DEF Replaced
<1> HIDE DEF G
<1>2. ASSUME NEW i \in 1..Len(F)
      PROVE  Extends(F[i], G[i])
  <2>1. CASE i = k
    BY <1>1, <2>1
  <2>2. CASE i # k
    <3>1. F[i] \in ForkRecord /\ G[i] = F[i]
      BY <1>1, <2>2
    <3> QED
      BY <3>1, ExtendsReflexive
  <2> QED
    BY <2>1, <2>2
<1>3. Grown(F, G)
  BY <1>1, <1>2 DEF Grown
<1> QED
  BY <1>1, <1>3 DEF G

(* Forks that do not change have not shrunk.                               *)
LEMMA GrownReflexive ==
    ASSUME NEW F \in Seq(ForkRecord)
    PROVE  Grown(F, F) /\ SameLengths(F, F)
<1>1. ASSUME NEW i \in 1..Len(F)
      PROVE  Extends(F[i], F[i])
  <2>1. F[i] \in ForkRecord
    OBVIOUS
  <2> QED
    BY <2>1, ExtendsReflexive
<1> QED
  BY <1>1 DEF Grown, SameLengths

(* Where no agreement was added the order is what it was.                  *)
LEMMA OrderKept ==
    ASSUME NEW F \in Seq(ForkRecord), NEW G \in Seq(ForkRecord),
           Grown(F, G), SameLengths(F, G), Ordered(F),
           \A i \in 1..Len(G) : i > Len(F) => G[i].agreements = <<>>
    PROVE  Ordered(G)
<1>1. ASSUME NEW i \in 1..Len(G), NEW j \in 1..Len(G[i].agreements)
      PROVE  /\ G[i].agreements[j].block.forkCnt = i - 1
             /\ G[i].agreements[j].block.transactionCnt = j - 1
             /\ Faithful(G[i].agreements[j].block)
             /\ G[i].agreements[j].state = G[i].agreements[j].block.state
  <2>1. i \in 1..Len(F)
    BY <1>1
  <2>2. j \in 1..Len(F[i].agreements)
    BY <1>1, <2>1 DEF SameLengths
  <2>3. /\ G[i].agreements[j].block = F[i].agreements[j].block
        /\ G[i].agreements[j].state = F[i].agreements[j].state
    BY <2>1, <2>2 DEF Grown, Extends
  <2> QED
    BY <2>1, <2>2, <2>3 DEF Ordered
<1> QED
  BY <1>1 DEF Ordered

(* addBlock, at the next height of a fork.                                 *)
LEMMA WithBlockLemma ==
    ASSUME forks \in Seq(ForkRecord), Ordered(forks), NEW b \in Block,
           Placed(b, forks), Faithful(b)
    PROVE  /\ WithBlock(b) \in Seq(ForkRecord)
           /\ Grown(forks, WithBlock(b))
           /\ Ordered(WithBlock(b))
           /\ InChain(b, WithBlock(b))
<1> DEFINE k == b.forkCnt + 1
           a == AgreementOn(b, b.state)
           A == forks[k].agreements
           r == [forks[k] EXCEPT !.agreements = Append(A, a)]
           G == WithBlock(b)
<1>1. /\ b.forkCnt \in Nat /\ b.transactionCnt \in Nat /\ k \in 1..Len(forks)
      /\ b.forkCnt = k - 1
      /\ a \in Agreements /\ a.block = b /\ a.state = b.state
  BY DEF Block, Placed, AgreementOn, Agreements
<1>2. forks[k] \in ForkRecord /\ A \in Seq(Agreements) /\ Len(A) \in Nat
  <2>1. forks[k] \in ForkRecord
    BY <1>1
  <2> QED
    BY <2>1 DEF ForkRecord
<1>3. ~Agreed(b.forkCnt, b.transactionCnt)
  BY <1>1, <1>2 DEF Agreed, Placed, Fork, IsValidForkCnt
<1>4. /\ Append(A, a) \in Seq(Agreements) /\ Len(Append(A, a)) = Len(A) + 1
      /\ \A j \in 1..Len(A) : Append(A, a)[j] = A[j]
      /\ Append(A, a)[Len(A) + 1] = a
  BY <1>1, <1>2
<1>5. /\ r \in ForkRecord /\ r.agreements = Append(A, a)
      /\ r.genesis = forks[k].genesis /\ r.genesisTimestamp = forks[k].genesisTimestamp
  BY <1>2, <1>4 DEF ForkRecord
<1>11. Extends(forks[k], r)
  <2>1. Len(A) <= Len(r.agreements)
    BY <1>2, <1>4, <1>5
  <2>2. \A j \in 1..Len(A) : r.agreements[j] = A[j]
    BY <1>4, <1>5
  <2> HIDE DEF r
  <2> QED
    BY <1>5, <2>1, <2>2 DEF Extends
<1>6. G = Replaced(forks, k, r)
  BY <1>3 DEF WithBlock, Replaced
<1>7. Len(A) = b.transactionCnt
  BY <1>1 DEF Placed
<1> HIDE DEF G, r, a, k
<1>8. /\ G \in Seq(ForkRecord) /\ Len(G) = Len(forks) /\ G[k] = r
      /\ \A i \in 1..Len(forks) : i # k => G[i] = forks[i]
      /\ Grown(forks, G)
  BY <1>1, <1>5, <1>6, <1>11, ReplacedFork
<1>9. Ordered(G)
  <2>1. ASSUME NEW i \in 1..Len(G), NEW j \in 1..Len(G[i].agreements)
        PROVE  /\ G[i].agreements[j].block.forkCnt = i - 1
               /\ G[i].agreements[j].block.transactionCnt = j - 1
               /\ Faithful(G[i].agreements[j].block)
               /\ G[i].agreements[j].state = G[i].agreements[j].block.state
    <3>1. CASE i # k
      <4>1. G[i] = forks[i] /\ i \in 1..Len(forks)
        BY <1>8, <2>1, <3>1
      <4>2. j \in 1..Len(forks[i].agreements)
        BY <2>1, <4>1
      <4>3. /\ forks[i].agreements[j].block.forkCnt = i - 1
            /\ forks[i].agreements[j].block.transactionCnt = j - 1
            /\ Faithful(forks[i].agreements[j].block)
            /\ forks[i].agreements[j].state = forks[i].agreements[j].block.state
        BY <4>1, <4>2 DEF Ordered
      <4> QED
        BY <4>1, <4>3
    <3>2. CASE i = k /\ j # Len(A) + 1
      <4>1. j \in 1..Len(A) /\ G[i].agreements[j] = A[j]
        <5>1. G[i].agreements = Append(A, a)
          BY <1>5, <1>8, <3>2
        <5>2. j \in 1..(Len(A) + 1)
          BY <1>4, <2>1, <5>1
        <5> QED
          BY <1>2, <1>4, <3>2, <5>1, <5>2
      <4> QED
        BY <1>1, <3>2, <4>1 DEF Ordered
    <3>3. CASE i = k /\ j = Len(A) + 1
      <4>1. G[i].agreements[j] = a
        BY <1>4, <1>5, <1>8, <3>3
      <4>2. b.forkCnt = i - 1 /\ b.transactionCnt = j - 1
        BY <1>1, <1>2, <1>7, <3>3
      <4> QED
        BY <1>1, <4>1, <4>2
    <3> QED
      BY <3>1, <3>2, <3>3
  <2> QED
    BY <2>1 DEF Ordered
<1>10. InChain(b, G)
  <2>1. G[k].agreements[b.transactionCnt + 1] = a /\ Len(G[k].agreements) = b.transactionCnt + 1
    BY <1>4, <1>5, <1>7, <1>8
  <2> QED
    BY <1>1, <1>8, <2>1 DEF InChain, k
<1> QED
  BY <1>8, <1>9, <1>10 DEF G

(* confirmBlock, of a block in the chain.                                  *)
LEMMA WithSignersLemma ==
    ASSUME forks \in Seq(ForkRecord), Ordered(forks), NEW b \in Block,
           InChain(b, forks), NEW S \in SUBSET Addr
    PROVE  /\ WithSigners(b, S) \in Seq(ForkRecord)
           /\ Len(WithSigners(b, S)) = Len(forks)
           /\ Grown(forks, WithSigners(b, S))
           /\ SameLengths(forks, WithSigners(b, S))
           /\ Ordered(WithSigners(b, S))
<1> DEFINE k == b.forkCnt + 1
           h == b.transactionCnt + 1
           A == forks[k].agreements
           a == [A[h] EXCEPT !.signers = @ \cup S]
           B == [A EXCEPT ![h] = a]
           r == [forks[k] EXCEPT !.agreements = B]
           G == WithSigners(b, S)
<1>1. /\ b.forkCnt \in Nat /\ b.transactionCnt \in Nat
      /\ k \in 1..Len(forks) /\ h \in 1..Len(A)
  BY DEF Block, InChain
<1>2. forks[k] \in ForkRecord /\ A \in Seq(Agreements) /\ Len(A) \in Nat
  <2>1. forks[k] \in ForkRecord
    BY <1>1
  <2> QED
    BY <2>1 DEF ForkRecord
<1>3. A[h] \in Agreements
  BY <1>1, <1>2
<1>4. /\ a \in Agreements /\ a.block = A[h].block /\ a.state = A[h].state
      /\ A[h].signers \subseteq a.signers
  BY <1>3 DEF Agreements
<1>5. G = Replaced(forks, k, r)
  BY DEF WithSigners, Replaced
<1> HIDE DEF G, a, h
<1>6. /\ B \in Seq(Agreements) /\ Len(B) = Len(A)
      /\ \A j \in 1..Len(A) : B[j] = IF j = h THEN a ELSE A[j]
  BY <1>1, <1>2, <1>4
<1> HIDE DEF B
<1>7. /\ r \in ForkRecord /\ r.agreements = B
      /\ r.genesis = forks[k].genesis /\ r.genesisTimestamp = forks[k].genesisTimestamp
  BY <1>2, <1>6 DEF ForkRecord
<1> HIDE DEF r, k
<1>8. Extends(forks[k], r)
  BY <1>2, <1>4, <1>6, <1>7 DEF Extends
<1>9. /\ G \in Seq(ForkRecord) /\ Len(G) = Len(forks) /\ G[k] = r
      /\ \A i \in 1..Len(forks) : i # k => G[i] = forks[i]
      /\ Grown(forks, G)
  BY <1>1, <1>5, <1>7, <1>8, ReplacedFork
<1>10. SameLengths(forks, G)
  BY <1>6, <1>7, <1>9 DEF SameLengths
<1>11. Ordered(G)
  BY <1>9, <1>10, OrderKept
<1> QED
  BY <1>9, <1>10, <1>11 DEF G

(* collect, of a post of a fork that is known.                             *)
LEMMA WithChainBlockLemma ==
    ASSUME forks \in Seq(ForkRecord), Ordered(forks), NEW p \in Post,
           IsValidForkCnt(p.block.forkCnt)
    PROVE  /\ WithChainBlock(p) \in Seq(ForkRecord)
           /\ Len(WithChainBlock(p)) = Len(forks)
           /\ Grown(forks, WithChainBlock(p))
           /\ SameLengths(forks, WithChainBlock(p))
           /\ Ordered(WithChainBlock(p))
<1> DEFINE b == p.block
           k == b.forkCnt + 1
           c == [ transactionCnt |-> b.transactionCnt,
                  participant    |-> b.participant,
                  timestamp      |-> p.timestamp ]
           r == [forks[k] EXCEPT !.chainBlocks = @ \cup {c}]
           G == WithChainBlock(p)
<1>1. CASE DidPostOnChain(b.forkCnt, b.transactionCnt, b.participant)
  <2>1. G = forks
    BY <1>1 DEF WithChainBlock
  <2> QED
    BY <2>1, GrownReflexive
<1>2. CASE ~DidPostOnChain(b.forkCnt, b.transactionCnt, b.participant)
  <2>1. /\ b.forkCnt \in Nat /\ k \in 1..Len(forks)
        /\ c \in [transactionCnt : Nat, participant : Addr, timestamp : Nat]
    BY DEF Post, Block, IsValidForkCnt
  <2>2. forks[k] \in ForkRecord
    BY <2>1
  <2>3. /\ r \in ForkRecord /\ r.agreements = forks[k].agreements
        /\ r.genesis = forks[k].genesis /\ r.genesisTimestamp = forks[k].genesisTimestamp
    BY <2>1, <2>2 DEF ForkRecord
  <2>4. G = Replaced(forks, k, r)
    BY <1>2 DEF WithChainBlock, Replaced
  <2>5. Extends(forks[k], r)
    BY <2>2, <2>3, ExtendsReflexive DEF Extends
  <2> HIDE DEF G, r, k
  <2>6. /\ G \in Seq(ForkRecord) /\ Len(G) = Len(forks) /\ G[k] = r
        /\ \A i \in 1..Len(forks) : i # k => G[i] = forks[i]
        /\ Grown(forks, G)
    BY <2>1, <2>3, <2>4, <2>5, ReplacedFork
  <2>7. SameLengths(forks, G)
    BY <2>3, <2>6 DEF SameLengths
  <2>8. Ordered(G)
    BY <2>6, <2>7, OrderKept
  <2> QED
    BY <2>6, <2>7, <2>8 DEF G
<1> QED
  BY <1>1, <1>2

(* newFork.                                                                *)
LEMMA WithForkLemma ==
    ASSUME forks \in Seq(ForkRecord), Ordered(forks),
           NEW f \in Nat, NEW s \in State, NEW time \in Nat
    PROVE  /\ WithFork(f, s, time) \in Seq(ForkRecord)
           /\ Grown(forks, WithFork(f, s, time))
           /\ SameLengths(forks, WithFork(f, s, time))
           /\ Ordered(WithFork(f, s, time))
           /\ \A i \in 1..Len(WithFork(f, s, time)) :
                 i > Len(forks) => WithFork(f, s, time)[i].agreements = <<>>
<1> DEFINE r == [ genesis |-> s, genesisTimestamp |-> time,
                  chainBlocks |-> {}, agreements |-> <<>> ]
           G == WithFork(f, s, time)
<1>1. CASE Len(forks) # f
  <2>1. G = forks
    BY <1>1 DEF WithFork
  <2> QED
    BY <2>1, GrownReflexive
<1>2. CASE Len(forks) = f
  <2>1. r \in ForkRecord /\ r.agreements = <<>>
    BY DEF ForkRecord
  <2>2. G = Append(forks, r)
    BY <1>2 DEF WithFork
  <2> HIDE DEF G, r
  <2>3. /\ G \in Seq(ForkRecord) /\ Len(G) = Len(forks) + 1 /\ G[Len(forks) + 1] = r
        /\ \A i \in 1..Len(forks) : G[i] = forks[i]
    BY <2>1, <2>2
  <2>4. Grown(forks, forks) /\ Len(forks) \in Nat
    BY GrownReflexive
  <2>5. Grown(forks, G) /\ SameLengths(forks, G)
    BY <2>3, <2>4 DEF Grown, SameLengths
  <2>6. Ordered(G)
    BY <2>1, <2>3, <2>4, <2>5, OrderKept
  <2> QED
    BY <2>1, <2>3, <2>4, <2>5, <2>6 DEF G
<1> QED
  BY <1>1, <1>2

-----------------------------------------------------------------------------
(* Lemmas on the mutex.                                                    *)

(* The tasks of a queue, and that each is there once.                      *)
Elems(q) == {q[i] : i \in DOMAIN q}

Once(q) == \A i, j \in DOMAIN q : q[i] = q[j] => i = j

(* Appending adds one element, and repeats none that is not there.         *)
LEMMA AppendElems ==
    ASSUME NEW S, NEW q \in Seq(S), NEW t \in S
    PROVE  /\ Append(q, t) \in Seq(S)
           /\ Elems(Append(q, t)) = Elems(q) \cup {t}
           /\ Once(q) /\ t \notin Elems(q) => Once(Append(q, t))
<1> DEFINE B == Append(q, t)
<1>1. /\ B \in Seq(S) /\ Len(q) \in Nat /\ DOMAIN q = 1..Len(q)
      /\ DOMAIN B = 1..(Len(q) + 1) /\ B[Len(q) + 1] = t
      /\ \A i \in 1..Len(q) : B[i] = q[i]
  OBVIOUS
<1> HIDE DEF B
<1>2. \A i \in DOMAIN B : i \in DOMAIN q \/ i = Len(q) + 1
  BY <1>1
<1>3. DOMAIN q \subseteq DOMAIN B /\ Len(q) + 1 \in DOMAIN B /\ Len(q) + 1 \notin DOMAIN q
  BY <1>1
<1>4. Elems(B) = Elems(q) \cup {t}
  BY <1>1, <1>2, <1>3 DEF Elems
<1>5. ASSUME Once(q), t \notin Elems(q) PROVE Once(B)
  BY <1>1, <1>2, <1>3, <1>5 DEF Elems, Once
<1> QED
  BY <1>1, <1>4, <1>5 DEF B

(* Removing the first of a queue without repetition removes just that.     *)
LEMMA TailElems ==
    ASSUME NEW S, NEW q \in Seq(S), q # <<>>, Once(q)
    PROVE  /\ Tail(q) \in Seq(S)
           /\ Elems(Tail(q)) = Elems(q) \ {Head(q)}
           /\ Once(Tail(q)) /\ Head(q) \in Elems(q)
<1> DEFINE B == Tail(q)
<1>1. /\ B \in Seq(S) /\ Len(q) \in Nat /\ DOMAIN q = 1..Len(q)
      /\ DOMAIN B = 1..(Len(q) - 1) /\ Head(q) = q[1] /\ 1 \in DOMAIN q
      /\ \A i \in 1..(Len(q) - 1) : B[i] = q[i + 1]
  OBVIOUS
<1> HIDE DEF B
<1>2. \A i \in DOMAIN B : i + 1 \in DOMAIN q /\ i + 1 # 1 /\ B[i] = q[i + 1]
  BY <1>1
<1>3. \A i \in DOMAIN q : i = 1 \/ (i - 1 \in DOMAIN B /\ B[i - 1] = q[i])
  <2>1. \A i \in DOMAIN q : i = 1 \/ i - 1 \in 1..(Len(q) - 1)
    BY <1>1
  <2> QED
    BY <1>1, <2>1
<1>4. ASSUME NEW x PROVE x \in Elems(B) <=> x \in Elems(q) /\ x # q[1]
  <2>1. ASSUME x \in Elems(B) PROVE x \in Elems(q) /\ x # q[1]
    <3>1. PICK i \in DOMAIN B : x = B[i]
      BY <2>1 DEF Elems
    <3>2. x = q[i + 1] /\ i + 1 \in DOMAIN q /\ i + 1 # 1
      BY <1>2, <3>1
    <3> QED
      BY <1>1, <3>2 DEF Elems, Once
  <2>2. ASSUME x \in Elems(q), x # q[1] PROVE x \in Elems(B)
    <3>1. PICK i \in DOMAIN q : x = q[i]
      BY <2>2 DEF Elems
    <3> QED
      BY <1>3, <2>2, <3>1 DEF Elems
  <2> QED
    BY <2>1, <2>2
<1>5. Once(B)
  <2>1. ASSUME NEW i \in DOMAIN B, NEW j \in DOMAIN B, B[i] = B[j] PROVE i = j
    <3>1. i + 1 = j + 1
      BY <1>2, <2>1 DEF Once
    <3> QED
      BY <1>1, <3>1
  <2> QED
    BY <2>1 DEF Once
<1>6. Elems(B) = Elems(q) \ {q[1]}
  BY <1>4
<1> QED
  BY <1>1, <1>5, <1>6 DEF B, Elems

MutexType == mutex \in [isLocked : BOOLEAN, queue : Seq(Tasks)]

(* The step moved task t to next, and may have granted the lock to one     *)
(* that waits.                                                             *)
Moves(t, next) ==
    /\ \A u \in Tasks \ {t} :
          tasks'[u] = tasks[u] \/ (Waiting(u) /\ tasks'[u] = Granted(tasks[u]))
    /\ \/ tasks'[t] = next
       \/ next.pc \in {"lock", "playLock"} /\ tasks'[t] = Granted(next)

Excludes == LockDiscipline /\ MutexType /\ tasks \in [Tasks -> Task]

Waiters == {t \in Tasks : Waiting(t)}

(* The discipline of the mutex, in terms of the set of those that wait.    *)
LEMMA DisciplineElems ==
    LockDiscipline <=>
        /\ \A t, u \in Tasks : Holding(t) /\ Holding(u) => t = u
        /\ (\E t \in Tasks : Holding(t) \/ Waiting(t)) => mutex.isLocked
        /\ Waiters = Elems(mutex.queue) /\ Once(mutex.queue)
BY DEF LockDiscipline, Waiters, Elems, Once

(* A call that has ended is a task.                                        *)
LEMMA IdleIsTask == Idle \in Task /\ Idle.pc = "idle"
BY DEF Idle, Task, NoMessage

(* Being handed the lock changes where a call is, and nothing else of it.  *)
LEMMA GrantedIsTask ==
    ASSUME NEW task \in Task, task.pc \in {"lock", "playLock"}
    PROVE  /\ Granted(task) \in Task
           /\ Granted(task).pc = IF task.pc = "lock" THEN "validate" ELSE "play"
           /\ Granted(task).msg = task.msg
           /\ Granted(task).confirmer = task.confirmer
           /\ Granted(task).rest = task.rest
BY DEF Granted, Task

(* Mutex.lock of a call that starts.                                       *)
LEMMA LockLemma ==
    ASSUME Excludes, NEW t \in Tasks, tasks[t].pc = "idle",
           NEW task \in Task, task.pc \in {"lock", "playLock"}, Lock(t, task)
    PROVE  Excludes' /\ Moves(t, task)
<1>1. /\ Granted(task) \in Task /\ Granted(task).pc \in {"validate", "play"}
  BY GrantedIsTask
<1>2. CASE mutex.isLocked
  <2>1. /\ tasks' = [tasks EXCEPT ![t] = task]
        /\ mutex' = [mutex EXCEPT !.queue = Append(@, t)]
    BY <1>2 DEF Lock
  <2>2. /\ tasks' \in [Tasks -> Task] /\ tasks'[t] = task
        /\ \A u \in Tasks : u # t => tasks'[u] = tasks[u]
    BY <2>1 DEF Excludes
  <2>3. mutex.queue \in Seq(Tasks) /\ Waiters = Elems(mutex.queue) /\ Once(mutex.queue)
    BY DisciplineElems DEF Excludes, MutexType
  <2>4. /\ Append(mutex.queue, t) \in Seq(Tasks)
        /\ Elems(Append(mutex.queue, t)) = Elems(mutex.queue) \cup {t}
        /\ t \notin Elems(mutex.queue) => Once(Append(mutex.queue, t))
    BY <2>3, AppendElems
  <2>5. /\ mutex'.isLocked /\ mutex'.queue = Append(mutex.queue, t)
        /\ mutex' \in [isLocked : BOOLEAN, queue : Seq(Tasks)]
    BY <1>2, <2>1, <2>4 DEF Excludes, MutexType
  <2>6. /\ ~Holding(t)' /\ Waiting(t)' /\ ~Waiting(t)
        /\ \A u \in Tasks : u # t => /\ Holding(u)' <=> Holding(u)
                                     /\ Waiting(u)' <=> Waiting(u)
    BY <2>2 DEF Holding, Waiting
  <2>7. Waiters' = Waiters \cup {t} /\ t \notin Waiters
    BY <2>6 DEF Waiters
  <2>8. Waiters' = Elems(mutex'.queue) /\ Once(mutex'.queue)
    BY <2>3, <2>4, <2>5, <2>7
  <2>9. \A u, v \in Tasks : Holding(u)' /\ Holding(v)' => u = v
    BY <2>6 DEF Excludes, LockDiscipline
  <2>10. LockDiscipline'
    BY <2>5, <2>8, <2>9 DEF LockDiscipline, Waiters, Elems, Once
  <2> QED
    BY <2>2, <2>5, <2>10 DEF Excludes, MutexType, Moves
<1>3. CASE ~mutex.isLocked
  <2>1. /\ tasks' \in [Tasks -> Task] /\ tasks'[t] = Granted(task)
        /\ \A u \in Tasks : u # t => tasks'[u] = tasks[u]
        /\ mutex'.isLocked /\ mutex'.queue = mutex.queue
        /\ mutex' \in [isLocked : BOOLEAN, queue : Seq(Tasks)]
    BY <1>1, <1>3 DEF Excludes, MutexType, Lock
  <2>2. \A u \in Tasks : ~Holding(u) /\ ~Waiting(u)
    BY <1>3 DEF Excludes, LockDiscipline
  <2>3. Holding(t)' /\ \A u \in Tasks : ~Waiting(u)' /\ (u # t => ~Holding(u)')
    BY <1>1, <2>1, <2>2 DEF Holding, Waiting
  <2>4. {u \in Tasks : Waiting(u)'} = {u \in Tasks : Waiting(u)}
    BY <2>2, <2>3
  <2> QED
    BY <2>1, <2>3, <2>4 DEF Excludes, MutexType, LockDiscipline, Moves
<1> QED
  BY <1>2, <1>3

(* The call that has the lock goes on, or dies without unlocking.          *)
LEMMA HolderLemma ==
    ASSUME Excludes, NEW t \in Tasks, Holding(t), NEW next \in Task,
           next.pc \in {"idle", "validate", "askChain", "sign", "play", "seal"},
           tasks' = [tasks EXCEPT ![t] = next], UNCHANGED mutex
    PROVE  Excludes' /\ Moves(t, next)
<1>1. /\ tasks' \in [Tasks -> Task] /\ tasks'[t] = next
      /\ \A u \in Tasks : u # t => tasks'[u] = tasks[u]
  BY DEF Excludes
<1>2. \A u \in Tasks : Waiting(u)' = Waiting(u) /\ (Holding(u)' => Holding(u))
  BY <1>1 DEF Holding, Waiting
<1>3. {u \in Tasks : Waiting(u)'} = {u \in Tasks : Waiting(u)}
  BY <1>2
<1> QED
  BY <1>1, <1>2, <1>3 DEF Excludes, MutexType, LockDiscipline, Moves

(* Mutex.unlock by the call that has the lock, which ends or locks again.  *)
LEMMA UnlockLemma ==
    ASSUME Excludes, NEW t \in Tasks, Holding(t),
           NEW next \in Task, next = Idle \/ next.pc = "lock", Unlock(t, next)
    PROVE  Excludes' /\ Moves(t, next)
<1>1. next.pc = (IF next = Idle THEN "idle" ELSE "lock")
  BY IdleIsTask
<1>2. /\ mutex.isLocked /\ mutex.queue \in Seq(Tasks) /\ Len(mutex.queue) \in Nat
      /\ ~Waiting(t) /\ \A u \in Tasks : Holding(u) => u = t
  BY DEF Excludes, MutexType, LockDiscipline, Holding, Waiting
<1>3. CASE mutex.queue = <<>>
  <2>1. \A u \in Tasks : ~Waiting(u)
    BY <1>3 DEF Excludes, LockDiscipline
  <2> DEFINE after == IF next = Idle THEN Idle ELSE Granted(next)
  <2>2. after \in Task /\ after.pc = IF next = Idle THEN "idle" ELSE "validate"
    BY <1>1, IdleIsTask, GrantedIsTask
  <2>3. /\ mutex'.isLocked = (next # Idle) /\ mutex'.queue = <<>>
        /\ mutex' \in [isLocked : BOOLEAN, queue : Seq(Tasks)]
        /\ tasks' = [tasks EXCEPT ![t] = after]
    BY <1>3 DEF Excludes, MutexType, Unlock
  <2>4. Moves(t, next) /\ tasks' \in [Tasks -> Task] /\ tasks'[t] = after
    BY <1>1, <2>2, <2>3 DEF Excludes, Moves
  <2>5. \A u \in Tasks : /\ ~Waiting(u)'
                         /\ Holding(u)' => u = t /\ next # Idle
    BY <1>1, <1>2, <2>1, <2>2, <2>3 DEF Excludes, Holding, Waiting
  <2>6. {u \in Tasks : Waiting(u)'} = {mutex'.queue[i] : i \in DOMAIN mutex'.queue}
    BY <2>3, <2>5
  <2> QED
    BY <2>3, <2>4, <2>5, <2>6 DEF Excludes, MutexType, LockDiscipline
<1>4. CASE mutex.queue # <<>>
  <2> DEFINE q == mutex.queue
  <2>1. Waiters = Elems(q) /\ Once(q)
    BY DisciplineElems DEF Excludes
  <2> PICK h \in Tasks : h = Head(mutex.queue)
    BY <1>2, <1>4
  <2>2. /\ Tail(q) \in Seq(Tasks) /\ Elems(Tail(q)) = Waiters \ {h}
        /\ Once(Tail(q)) /\ h \in Waiters
    BY <1>2, <1>4, <2>1, TailElems
  <2>3. /\ Append(Tail(q), t) \in Seq(Tasks)
        /\ Elems(Append(Tail(q), t)) = Elems(Tail(q)) \cup {t}
        /\ t \notin Elems(Tail(q)) => Once(Append(Tail(q), t))
    <3> DEFINE r == Tail(q)
    <3>1. r \in Seq(Tasks) /\ Once(r)
      BY <2>2
    <3> HIDE DEF r
    <3>2. /\ Append(r, t) \in Seq(Tasks)
          /\ Elems(Append(r, t)) = Elems(r) \cup {t}
          /\ t \notin Elems(r) => Once(Append(r, t))
      BY <3>1, AppendElems
    <3> QED
      BY <3>2 DEF r
  <2>4. h \in Tasks /\ Waiting(h) /\ h # t /\ t \notin Waiters
    BY <1>2, <2>2 DEF Waiters
  <2>5. /\ Granted(tasks[h]) \in Task
        /\ Granted(tasks[h]).pc \in {"validate", "play"}
    BY <2>4, GrantedIsTask DEF Excludes, Waiting
  <2>6. /\ tasks' = [tasks EXCEPT ![t] = next, ![h] = Granted(@)]
        /\ mutex' = [mutex EXCEPT !.queue =
                        IF next = Idle THEN Tail(@) ELSE Append(Tail(@), t)]
    BY <1>4 DEF Unlock
  <2>7. /\ mutex'.isLocked
        /\ mutex'.queue = IF next = Idle THEN Tail(q) ELSE Append(Tail(q), t)
        /\ mutex' \in [isLocked : BOOLEAN, queue : Seq(Tasks)]
    BY <1>2, <2>2, <2>3, <2>6 DEF Excludes, MutexType
  <2> HIDE DEF q
  <2>8. /\ tasks' \in [Tasks -> Task]
        /\ tasks'[t] = next /\ tasks'[h] = Granted(tasks[h])
        /\ \A u \in Tasks : u \notin {t, h} => tasks'[u] = tasks[u]
    BY <2>4, <2>5, <2>6 DEF Excludes
  <2>9. Moves(t, next)
    BY <2>4, <2>8 DEF Moves
  <2>10. ~Holding(t)' /\ Holding(h)' /\ ~Waiting(h)' /\ (Waiting(t)' <=> next # Idle)
    <3>1. tasks'[t].pc = IF next = Idle THEN "idle" ELSE "lock"
      BY <1>1, <2>8
    <3>2. tasks'[h].pc \in {"validate", "play"}
      BY <2>5, <2>8
    <3>3. Holding(h)' /\ ~Waiting(h)'
      BY <3>2 DEF Holding, Waiting
    <3>4. CASE next = Idle
      BY <3>1, <3>3, <3>4 DEF Holding, Waiting
    <3>5. CASE next # Idle
      BY <3>1, <3>3, <3>5 DEF Holding, Waiting
    <3> QED
      BY <3>4, <3>5
  <2>11. \A u \in Tasks : u \notin {t, h} => ~Holding(u)' /\ (Waiting(u)' <=> Waiting(u))
    BY <1>2, <2>8 DEF Holding, Waiting
  <2>12. \A u, v \in Tasks : Holding(u)' /\ Holding(v)' => u = v
    BY <2>10, <2>11
  <2>13. Waiters' = (Waiters \ {h}) \cup (IF next = Idle THEN {} ELSE {t})
    <3>1. ASSUME NEW u \in Tasks
          PROVE  Waiting(u)' <=> (Waiting(u) /\ u # h) \/ (u = t /\ next # Idle)
      <4>1. t \notin Waiters => ~Waiting(t)
        BY DEF Waiters
      <4>2. CASE u = t
        BY <2>4, <2>10, <4>1, <4>2
      <4>3. CASE u = h
        BY <2>4, <2>10, <4>3
      <4>4. CASE u \notin {t, h}
        BY <2>11, <4>4
      <4> QED
        BY <4>2, <4>3, <4>4
    <3>2. CASE next = Idle
      BY <3>1, <3>2 DEF Waiters
    <3>3. CASE next # Idle
      BY <3>1, <3>3 DEF Waiters
    <3> QED
      BY <3>2, <3>3
  <2>14. Waiters' = Elems(mutex'.queue) /\ Once(mutex'.queue)
    BY <2>2, <2>3, <2>4, <2>7, <2>13
  <2>15. LockDiscipline'
    BY <2>7, <2>12, <2>14 DEF LockDiscipline, Waiters, Elems, Once
  <2> QED
    BY <2>7, <2>8, <2>9, <2>15 DEF Excludes, MutexType
<1> QED
  BY <1>3, <1>4

-----------------------------------------------------------------------------
(* Lemmas on the calls and the releases.                                   *)

(* What a step does to the forks.                                          *)
ForksStep ==
    forks' \in Seq(ForkRecord) /\ Grown(forks, forks') /\ Ordered(forks')

(* A block in the chain stays there, and a place once reached is either    *)
(* the next one still or taken.                                            *)
LEMMA GrownPlaces ==
    ASSUME NEW F \in Seq(ForkRecord), NEW G \in Seq(ForkRecord), Grown(F, G),
           NEW b \in Block
    PROVE  /\ InChain(b, F) => InChain(b, G)
           /\ Reaches(b, F) => Reaches(b, G)
           /\ Placed(b, F) /\ SameLengths(F, G) => Placed(b, G)
           /\ b.forkCnt < Len(F) => b.forkCnt < Len(G)
<1>1. b.forkCnt \in Nat /\ b.transactionCnt \in Nat /\ Len(F) \in Nat /\ Len(G) \in Nat
  BY DEF Block
<1>k. PICK k \in Nat : k = b.forkCnt + 1
  BY <1>1
<1>j. PICK j \in Nat : j = b.transactionCnt + 1
  BY <1>1
<1>2. CASE b.forkCnt < Len(F)
  <2>1. k \in 1..Len(F) /\ k \in 1..Len(G) /\ b.forkCnt < Len(G)
    BY <1>1, <1>k, <1>2 DEF Grown
  <2>2. F[k] \in ForkRecord /\ G[k] \in ForkRecord
    BY <2>1, ElementOf
  <2>A. PICK A \in Seq(Agreements) : A = F[k].agreements
    BY <2>2 DEF ForkRecord
  <2>B. PICK B \in Seq(Agreements) : B = G[k].agreements
    BY <2>2 DEF ForkRecord
  <2>3. Len(A) \in Nat /\ Len(B) \in Nat
    BY <2>A, <2>B
  <2>4. Extends(F[k], G[k])
    BY <2>1 DEF Grown
  <2>5. Len(A) <= Len(B) /\ \A i \in 1..Len(A) : B[i].block = A[i].block
    BY <2>4, <2>A, <2>B DEF Extends
  <2>6. SameLengths(F, G) => Len(A) = Len(B)
    BY <2>1, <2>A, <2>B DEF SameLengths
  <2>7. /\ InChain(b, F) <=> j <= Len(A) /\ A[j].block = b
        /\ InChain(b, G) <=> j <= Len(B) /\ B[j].block = b
    <3>1. /\ b.transactionCnt < Len(A) <=> j <= Len(A)
          /\ b.transactionCnt < Len(B) <=> j <= Len(B)
      BY <1>1, <1>j, <2>3
    <3>2. A = F[b.forkCnt + 1].agreements /\ B = G[b.forkCnt + 1].agreements
      BY <1>k, <2>A, <2>B
    <3> QED
      BY <1>2, <1>j, <2>1, <3>1, <3>2 DEF InChain
  <2>8. /\ Reaches(b, F) <=> b.transactionCnt <= Len(A)
        /\ Reaches(b, G) <=> b.transactionCnt <= Len(B)
    BY <1>2, <1>k, <2>A, <2>B, <2>1 DEF Reaches
  <2>9. /\ Placed(b, F) <=> b.transactionCnt = Len(A)
        /\ Placed(b, G) <=> b.transactionCnt = Len(B)
    BY <1>2, <1>k, <2>A, <2>B, <2>1 DEF Placed
  <2>10. InChain(b, F) => InChain(b, G)
    <3>1. Len(A) <= Len(B)
      BY <2>5
    <3>2. j \in Nat /\ j >= 1
      BY <1>1, <1>j
    <3>3. j <= Len(A) => j \in 1..Len(A) /\ j <= Len(B)
      BY <2>3, <3>1, <3>2
    <3> QED
      BY <2>5, <2>7, <3>3
  <2>11. Reaches(b, F) => Reaches(b, G)
    BY <1>1, <2>3, <2>5, <2>8
  <2> QED
    BY <2>1, <2>6, <2>9, <2>10, <2>11
<1>3. CASE ~(b.forkCnt < Len(F))
  <2>1. ~InChain(b, F) /\ ~Placed(b, F)
    BY <1>3 DEF InChain, Placed
  <2>2. ASSUME Reaches(b, F), b.forkCnt < Len(G) PROVE Reaches(b, G)
    <3>1. b.transactionCnt = 0 /\ 1 \in 1..Len(G) /\ b.forkCnt = 0
      BY <1>1, <1>3, <2>2 DEF Reaches
    <3>2. G[1] \in ForkRecord
      BY <3>1
    <3>3. Len(G[1].agreements) \in Nat
      BY <3>2 DEF ForkRecord
    <3> QED
      BY <2>2, <3>1, <3>3 DEF Reaches
  <2>3. ASSUME Reaches(b, F), ~(b.forkCnt < Len(G)) PROVE Reaches(b, G)
    BY <1>3, <2>3 DEF Reaches
  <2> QED
    BY <1>3, <2>1, <2>2, <2>3
<1> QED
  BY <1>2, <1>3

(* What holds of a call is kept when forks grow and blocks are released,   *)
(* unless a fork gets a block while the call waits for the chain.          *)
LEMMA TaskMonotone ==
    ASSUME NEW F \in Seq(ForkRecord), NEW G \in Seq(ForkRecord), Grown(F, G),
           NEW R, NEW S, R \subseteq S, NEW task, TaskInv(task, F, R),
           task.pc = "askChain" => SameLengths(F, G)
    PROVE  TaskInv(task, G, S)
<1>1. task \in Task /\ (task.pc # "idle" => task.msg \in SignedBlock)
  BY DEF TaskInv
<1>2. task.msg \in SignedBlock => task.msg.block \in Block
  BY DEF SignedBlock
<1>3. task.pc # "idle" =>
        /\ Reaches(task.msg.block, F) => Reaches(task.msg.block, G)
        /\ Placed(task.msg.block, F) /\ SameLengths(F, G) => Placed(task.msg.block, G)
        /\ task.msg.block.forkCnt < Len(F) => task.msg.block.forkCnt < Len(G)
  BY <1>1, <1>2, GrownPlaces
<1>4. /\ Own(task.msg.block, R) => Own(task.msg.block, S)
      /\ \A i \in 1..Len(task.rest) : Own(task.rest[i].block, R) => Own(task.rest[i].block, S)
  BY DEF Own
<1>5. /\ task.pc \in {"lock", "validate", "askChain"} => Own(task.msg.block, S)
      /\ \A i \in 1..Len(task.rest) : Own(task.rest[i].block, S)
  BY <1>4 DEF TaskInv
<1>6. task.pc = "askChain" => Placed(task.msg.block, G)
  BY <1>3 DEF TaskInv
<1>7. task.pc \in {"playLock", "play", "seal"} =>
          task.msg.block.participant = Me /\ Reaches(task.msg.block, G)
  BY <1>3 DEF TaskInv
<1>8. task.pc = "seal" => task.msg.block.forkCnt < Len(G) /\ Faithful(task.msg.block)
  BY <1>3 DEF TaskInv
<1> QED
  BY <1>1, <1>5, <1>6, <1>7, <1>8 DEF TaskInv

(* What holds of a call that waits holds when it is handed the lock.       *)
LEMMA GrantedInv ==
    ASSUME NEW F, NEW R, NEW task, TaskInv(task, F, R), task.pc \in {"lock", "playLock"}
    PROVE  TaskInv(Granted(task), F, R)
<1>1. task \in Task
  BY DEF TaskInv
<1>2. /\ Granted(task) \in Task
      /\ Granted(task).pc = IF task.pc = "lock" THEN "validate" ELSE "play"
      /\ Granted(task).msg = task.msg
      /\ Granted(task).rest = task.rest
  BY <1>1, GrantedIsTask
<1> QED
  BY <1>2 DEF TaskInv

(* Nothing is asked of a call that has ended.                              *)
LEMMA IdleInv ==
    ASSUME NEW F, NEW R
    PROVE  TaskInv(Idle, F, R)
<1>1. Idle.rest = <<>> /\ Idle \in Task /\ Idle.pc = "idle"
  BY IdleIsTask DEF Idle
<1> QED
  BY <1>1 DEF TaskInv

(* The call onSignedBlock for a block that is not the peer's own, or that  *)
(* it released.                                                            *)
LEMMA OnSignedBlockInv ==
    ASSUME NEW F, NEW R, NEW m \in SignedBlock, NEW a \in Addr \cup {Nobody},
           NEW rest \in Seq(SignedBlock), Own(m.block, R),
           \A i \in 1..Len(rest) : Own(rest[i].block, R)
    PROVE  /\ OnSignedBlock(m, a, rest) \in Task
           /\ OnSignedBlock(m, a, rest).pc = "lock"
           /\ TaskInv(OnSignedBlock(m, a, rest), F, R)
<1> DEFINE task == OnSignedBlock(m, a, rest)
<1>1. /\ task \in Task /\ task.pc = "lock" /\ task.msg = m /\ task.rest = rest
  BY DEF OnSignedBlock, Task
<1> HIDE DEF task
<1>2. TaskInv(task, F, R)
  BY <1>1 DEF TaskInv
<1> QED
  BY <1>1, <1>2 DEF task

(* The call onSignedBlock, where no dequeued blocks follow.                *)
LEMMA FirstCallInv ==
    ASSUME NEW F, NEW R, NEW m \in SignedBlock, NEW a \in Addr \cup {Nobody},
           Own(m.block, R)
    PROVE  /\ OnSignedBlock(m, a, <<>>) \in Task
           /\ OnSignedBlock(m, a, <<>>).pc = "lock"
           /\ TaskInv(OnSignedBlock(m, a, <<>>), F, R)
<1>1. <<>> \in Seq(SignedBlock) /\ Len(<<>>) = 0
  OBVIOUS
<1>2. PICK rest \in Seq(SignedBlock) : rest = <<>>
  BY <1>1
<1>3. \A i \in 1..Len(rest) : Own(rest[i].block, R)
  BY <1>2
<1> QED
  BY <1>2, <1>3, OnSignedBlockInv

(* The call that follows a call.                                           *)
LEMMA AfterInv ==
    ASSUME NEW F, NEW R, NEW t, TaskInv(tasks[t], F, R), NEW flag
    PROVE  /\ After(t, flag) \in Task
           /\ After(t, flag) = Idle \/ After(t, flag).pc = "lock"
           /\ TaskInv(After(t, flag), F, R)
<1> DEFINE q == tasks[t].rest
<1>1. CASE q = <<>> \/ flag = "DISPUTE"
  <2>1. After(t, flag) = Idle
    BY <1>1 DEF After
  <2> QED
    BY <2>1, IdleInv, IdleIsTask
<1>2. CASE ~(q = <<>> \/ flag = "DISPUTE")
  <2>1. q \in Seq(SignedBlock) /\ q # <<>>
    BY <1>2 DEF TaskInv, Task
  <2>2. \A i \in 1..Len(q) : Own(q[i].block, R)
    BY DEF TaskInv
  <2> HIDE DEF q
  <2>3. /\ Head(q) \in SignedBlock /\ Head(q) = q[1] /\ 1 \in 1..Len(q)
        /\ Tail(q) \in Seq(SignedBlock)
        /\ \A i \in 1..Len(Tail(q)) : Tail(q)[i] = q[i + 1] /\ i + 1 \in 1..Len(q)
    BY <2>1
  <2>4. /\ Own(Head(q).block, R)
        /\ \A i \in 1..Len(Tail(q)) : Own(Tail(q)[i].block, R)
    BY <2>2, <2>3
  <2>5. Nobody \in Addr \cup {Nobody}
    OBVIOUS
  <2>6. After(t, flag) = OnSignedBlock(Head(q), Nobody, Tail(q))
    BY <1>2 DEF After, q
  <2> DEFINE m == Head(q)
             rest == Tail(q)
  <2>7. /\ m \in SignedBlock /\ rest \in Seq(SignedBlock) /\ Own(m.block, R)
        /\ \A i \in 1..Len(rest) : Own(rest[i].block, R)
    BY <2>3, <2>4
  <2> HIDE DEF m, rest
  <2>8. /\ OnSignedBlock(m, Nobody, rest) \in Task
        /\ OnSignedBlock(m, Nobody, rest).pc = "lock"
        /\ TaskInv(OnSignedBlock(m, Nobody, rest), F, R)
    BY <2>5, <2>7, OnSignedBlockInv
  <2> QED
    BY <2>6, <2>8 DEF m, rest
<1> QED
  BY <1>1, <1>2

(* A step of task t, whatever else it does, keeps what holds of the calls  *)
(* if what t does next is in order.  Where a block is added t has the      *)
(* lock, so that nobody else waits for the chain.                          *)
LEMMA TasksMove ==
    ASSUME IInv, ForksStep, released \subseteq released', Excludes',
           NEW t \in Tasks, NEW next, Moves(t, next),
           SameLengths(forks, forks') \/ Holding(t),
           TaskInv(next, forks', released')
    PROVE  \A u \in Tasks : TaskInv(tasks'[u], forks', released')
<1>1. forks \in Seq(ForkRecord) /\ forks' \in Seq(ForkRecord) /\ Grown(forks, forks')
  BY DEF IInv, Typing, ForksStep
<1>2. TaskInv(tasks'[t], forks', released')
  BY GrantedInv DEF Moves
<1>3. ASSUME NEW u \in Tasks \ {t}
      PROVE  TaskInv(tasks'[u], forks', released')
  <2>1. TaskInv(tasks[u], forks, released)
    BY DEF IInv
  <2>2. tasks[u].pc = "askChain" => SameLengths(forks, forks')
    <3>1. tasks[u].pc = "askChain" => Holding(u)
      BY DEF Holding
    <3>2. ~(Holding(u) /\ Holding(t))
      BY DEF IInv, LockDiscipline
    <3> QED
      BY <3>1, <3>2
  <2>3. TaskInv(tasks[u], forks', released')
    BY <1>1, <2>1, <2>2, TaskMonotone
  <2>4. CASE tasks'[u] = tasks[u]
    BY <2>3, <2>4
  <2>5. CASE Waiting(u) /\ tasks'[u] = Granted(tasks[u])
    BY <2>3, <2>5, GrantedInv DEF Waiting
  <2> QED
    BY <2>4, <2>5 DEF Moves
<1> QED
  BY <1>2, <1>3

(* A step of no task that adds no block.                                   *)
LEMMA TasksStay ==
    ASSUME IInv, ForksStep, released \subseteq released',
           SameLengths(forks, forks'), UNCHANGED tasks
    PROVE  \A u \in Tasks : TaskInv(tasks'[u], forks', released')
<1>1. forks \in Seq(ForkRecord) /\ forks' \in Seq(ForkRecord) /\ Grown(forks, forks')
  BY DEF IInv, Typing, ForksStep
<1>2. ASSUME NEW u \in Tasks
      PROVE  TaskInv(tasks'[u], forks', released')
  <2>1. TaskInv(tasks[u], forks, released) /\ tasks' = tasks
    BY DEF IInv
  <2> QED
    BY <1>1, <2>1, TaskMonotone
<1> QED
  BY <1>2

(* A step that releases only what is in the chain, and lets nothing else   *)
(* of the peer's name into the queue, the posts or the pending posts.      *)
LEMMA ReleasesStay ==
    ASSUME IInv, ForksStep, released \subseteq released',
           \A b \in released' : b \in released \/ InChain(b, forks'),
           \A m \in blockQ' : m \in blockQ \/ Own(m.block, released'),
           \A p \in posted' : p \in posted \/ Own(p.block, released'),
           \A x \in pendingPosts' : x \in pendingPosts \/ x.block \in released'
    PROVE  Releases'
<1>1. forks \in Seq(ForkRecord) /\ forks' \in Seq(ForkRecord) /\ Grown(forks, forks')
  BY DEF IInv, Typing, ForksStep
<1>2. released \subseteq Block /\ Releases
  BY DEF IInv, Typing
<1>3. \A b \in released' : InChain(b, forks')
  <2>1. ASSUME NEW b \in released PROVE InChain(b, forks')
    <3>1. b \in Block /\ InChain(b, forks)
      BY <1>2 DEF Releases
    <3> QED
      BY <1>1, <3>1, GrownPlaces
  <2> QED
    BY <2>1
<1>4. \A b : Own(b, released) => Own(b, released')
  BY DEF Own
<1>5. \A m \in blockQ' : Own(m.block, released')
  BY <1>2, <1>4 DEF Releases
<1>6. \A p \in posted' : Own(p.block, released')
  BY <1>2, <1>4 DEF Releases
<1>7. \A x \in pendingPosts' : x.block \in released'
  BY <1>2 DEF Releases
<1> QED
  BY <1>3, <1>5, <1>6, <1>7 DEF Releases, Own

(* A step whose new accusations and timers are not of the peer itself.     *)
LEMMA NotAccusedStay ==
    ASSUME IInv,
           \A r \in raised' : r \in raised \/ r.accused # Me,
           \A x \in timers' : x \in timers \/ x.turn.participant # Me
    PROVE  NotAccused'
BY DEF IInv, NotAccused

(* onSuccessCommon sets no timer for the peer itself.                      *)
LEMMA SuccessTimers ==
    ASSUME OnSuccess
    PROVE  /\ wakeup' \in BOOLEAN
           /\ \A x \in timers' : x \in timers \/ x.turn.participant # Me
<1>1. wakeup' = TRUE /\ TryTimeoutNext
  BY DEF OnSuccess
<1>2. CASE IsMyTurn' \/ machine'.participants = {}
  BY <1>1, <1>2 DEF TryTimeoutNext
<1>3. CASE ~(IsMyTurn' \/ machine'.participants = {})
  <2>1. Turn'.participant # Me
    BY <1>3 DEF IsMyTurn, Turn
  <2> DEFINE x == [turn |-> Turn', due |-> now + TimeoutWaitTime, stage |-> "check"]
  <2>2. timers' \subseteq timers \cup {x}
    BY <1>1, <1>3 DEF TryTimeoutNext, ScheduleTask
  <2> QED
    BY <1>1, <2>1, <2>2
<1> QED
  BY <1>2, <1>3

(* What a step leaves of the forks when it does not touch them.            *)
LEMMA ForksStay ==
    ASSUME IInv, UNCHANGED forks
    PROVE  ForksStep /\ SameLengths(forks, forks')
BY GrownReflexive DEF IInv, Typing, ForksStep

(* Executing a block leads to a state.                                     *)
LEMMA ExecutedState ==
    ASSUME NEW s \in State, NEW b \in Block
    PROVE  Executed(s, b) \in State
BY DEF Executed, State, Block

(* What the lemmas on the mutex need of the invariant.                     *)
LEMMA InvariantExcludes == IInv => Excludes
BY DEF IInv, Typing, Excludes, MutexType

-----------------------------------------------------------------------------
(* What the decisions say of a block.                                      *)

(* IsBlockInChain, of the forks as they are.                               *)
LEMMA InChainIsIsBlockInChain ==
    ASSUME NEW b
    PROVE  IsBlockInChain(b) <=> InChain(b, forks)
BY DEF IsBlockInChain, InChain, Agreed, IsValidForkCnt, AgreementAt, Fork

(* The number of the latest fork, and the next height in it.               *)
LEMMA LatestFork ==
    ASSUME forks \in Seq(ForkRecord)
    PROVE  /\ LatestForkCnt \in Nat /\ NextBlockHeight \in Nat
           /\ forks # <<>> => /\ Len(forks) \in Nat \ {0}
                              /\ LatestForkCnt = Len(forks) - 1
                              /\ NextBlockHeight = Len(forks[LatestForkCnt + 1].agreements)
           /\ forks = <<>> => Len(forks) = 0 /\ LatestForkCnt = 0 /\ NextBlockHeight = 0
<1>1. CASE forks = <<>>
  BY <1>1 DEF LatestForkCnt, NextBlockHeight
<1>2. CASE forks # <<>>
  <2>1. Len(forks) \in Nat \ {0} /\ LatestForkCnt = Len(forks) - 1
    BY <1>2 DEF LatestForkCnt
  <2>2. LatestForkCnt \in Nat /\ LatestForkCnt + 1 \in 1..Len(forks)
    BY <2>1
  <2>3. forks[LatestForkCnt + 1] \in ForkRecord
    BY <2>2, ElementOf
  <2>4. Len(forks[LatestForkCnt + 1].agreements) \in Nat
    BY <2>3 DEF ForkRecord
  <2>5. NextBlockHeight = Len(forks[LatestForkCnt + 1].agreements)
    BY <1>2 DEF NextBlockHeight, Fork
  <2> QED
    BY <1>2, <2>1, <2>2, <2>4, <2>5
<1> QED
  BY <1>1, <1>2

(* A block that is not in the chain and is the peer's own was not released.*)
LEMMA Stranger ==
    ASSUME IInv, NEW b, Own(b, released), ~InChain(b, forks)
    PROVE  b.participant # Me
BY DEF IInv, Releases, Own

(* A block whose place is the next is not in the chain.                    *)
LEMMA PlacedIsFree ==
    ASSUME forks \in Seq(ForkRecord), NEW b \in Block, Placed(b, forks)
    PROVE  ~InChain(b, forks)
<1>1. b.transactionCnt \in Nat
  BY DEF Block
<1> QED
  BY <1>1 DEF Placed, InChain

(* validateSignedBlock goes on to a conflict, the timestamp or the         *)
(* execution only with a block that is not in the chain; to the last two   *)
(* only with one whose place is the next.                                  *)
LEMMA DecisionFacts ==
    ASSUME IInv, NEW m \in SignedBlock
    PROVE  /\ Decision(m) \in {"CONFLICT", "TOO_EARLY", "ASK_CHAIN", "EXECUTE"}
                 => ~InChain(m.block, forks) /\ forks # <<>>
           /\ Decision(m) \in {"TOO_EARLY", "ASK_CHAIN", "EXECUTE"}
                 => Placed(m.block, forks)
<1> DEFINE b == m.block
<1>1. b \in Block
  BY DEF SignedBlock
<1>2. b.forkCnt \in Nat /\ b.transactionCnt \in Nat
  BY <1>1 DEF Block
<1>3. forks \in Seq(ForkRecord)
  BY DEF IInv, Typing
<1>4. Decision(m) \in {"CONFLICT", "TOO_EARLY", "ASK_CHAIN", "EXECUTE"}
        => ~IsBlockDuplicate(b) /\ IsParticipantInLatestFork(b.participant)
  BY DEF Decision
<1>5. ~IsBlockDuplicate(b) => ~InChain(b, forks)
  BY InChainIsIsBlockInChain DEF IsBlockDuplicate
<1>6. Decision(m) \in {"TOO_EARLY", "ASK_CHAIN", "EXECUTE"}
        => /\ ~(b.forkCnt < LatestForkCnt) /\ ~(b.forkCnt > LatestForkCnt)
           /\ ~(b.transactionCnt < NextBlockHeight) /\ ~(b.transactionCnt > NextBlockHeight)
  BY DEF Decision
<1>7. ASSUME Decision(m) \in {"TOO_EARLY", "ASK_CHAIN", "EXECUTE"}
      PROVE  Placed(b, forks)
  <2>1. forks # <<>>
    BY <1>4, <1>7 DEF IsParticipantInLatestFork
  <2>2. /\ b.forkCnt = LatestForkCnt /\ b.transactionCnt = NextBlockHeight
    BY <1>2, <1>3, <1>6, <1>7, LatestFork
  <2>3. LatestForkCnt < Len(forks) /\ NextBlockHeight = Len(forks[LatestForkCnt + 1].agreements)
    BY <1>3, <2>1, LatestFork
  <2> QED
    BY <2>2, <2>3 DEF Placed
<1> QED
  BY <1>4, <1>5, <1>7 DEF IsParticipantInLatestFork

(* The block a call is about to execute has a free place and is not the    *)
(* peer's own.                                                             *)
LEMMA OutcomeFacts ==
    ASSUME IInv, NEW t \in Tasks,
           Decides(t, {"TOO_EARLY", "ASK_CHAIN", "EXECUTE"}) \/ Answered(t)
    PROVE  /\ Holding(t) /\ tasks[t] \in Task /\ tasks[t].msg \in SignedBlock
           /\ tasks[t].msg.block \in Block
           /\ Placed(tasks[t].msg.block, forks)
           /\ tasks[t].msg.block.participant # Me
           /\ Own(tasks[t].msg.block, released)
           /\ forks # <<>>
<1> DEFINE b == tasks[t].msg.block
<1>1. TaskInv(tasks[t], forks, released) /\ forks \in Seq(ForkRecord)
  BY DEF IInv, Typing
<1>2. tasks[t].pc \in {"validate", "askChain"}
  BY DEF Decides, Answered
<1>3. /\ Holding(t) /\ tasks[t] \in Task /\ tasks[t].msg \in SignedBlock
      /\ Own(b, released)
  BY <1>1, <1>2 DEF TaskInv, Holding
<1>4. b \in Block
  BY <1>3 DEF SignedBlock
<1>5. Placed(b, forks)
  <2>1. CASE tasks[t].pc = "askChain"
    BY <1>1, <2>1 DEF TaskInv
  <2>2. CASE tasks[t].pc # "askChain"
    <3>1. Decision(tasks[t].msg) \in {"TOO_EARLY", "ASK_CHAIN", "EXECUTE"}
      BY <2>2 DEF Decides, Answered
    <3> QED
      BY <1>3, <3>1, DecisionFacts
  <2> QED
    BY <2>1, <2>2
<1>6. b.participant # Me
  BY <1>1, <1>3, <1>4, <1>5, PlacedIsFree, Stranger
<1>7. forks # <<>>
  <2>1. b.forkCnt \in Nat /\ b.forkCnt < Len(forks)
    BY <1>4, <1>5 DEF Placed, Block
  <2> QED
    BY <1>1, <2>1, LatestFork
<1> QED
  BY <1>3, <1>4, <1>5, <1>6, <1>7

(* A step of a task that touches neither the agreements nor the releases,  *)
(* nor the chain, nor the callbacks.                                       *)
LEMMA QuietMove ==
    ASSUME IInv, NEW t \in Tasks, NEW next, Excludes', Moves(t, next),
           TaskInv(next, forks, released),
           UNCHANGED <<now, agreement, released, callbacks, chain>>,
           \A r \in raised' : r \in raised \/ r.accused # Me
    PROVE  IInv' /\ Grown(forks, forks')
<1>1. /\ UNCHANGED <<now, machine, forks, blockQ, released>>
      /\ UNCHANGED <<wakeup, timers, pendingPosts, posted, heard, nextEvent>>
  BY DEF agreement, callbacks, chain
<1>2. ForksStep /\ SameLengths(forks, forks')
  BY <1>1, ForksStay
<1>3. TaskInv(next, forks', released')
  BY <1>1
<1>4. \A u \in Tasks : TaskInv(tasks'[u], forks', released')
  BY <1>1, <1>2, <1>3, TasksMove
<1>5. Releases'
  BY <1>1, <1>2, ReleasesStay
<1>6. NotAccused'
  BY <1>1, NotAccusedStay
<1>7. Typing'
  BY <1>1 DEF IInv, Typing, Excludes, MutexType
<1>8. LockDiscipline'
  BY DEF Excludes
<1> QED
  BY <1>2, <1>4, <1>5, <1>6, <1>7, <1>8 DEF IInv, ForksStep

-----------------------------------------------------------------------------
(* The actions, one lemma each: the invariant is kept, and forks grow.     *)

(* The disputes a step may create accuse the author of the block.          *)
LEMMA Accused ==
    ASSUME NEW b, NEW f, NEW kind, NEW h,
           \/ UNCHANGED disputing
           \/ CreateDispute(f, Accusation(kind, f, h, b.participant))
           \/ DisputeIncorrectData(b) \/ DisputeConflict(b),
           b.participant # Me
    PROVE  \A r \in raised' : r \in raised \/ r.accused # Me
BY DEF disputing, CreateDispute, Accusation, DisputeIncorrectData, DisputeConflict,
       DisputeDoubleSign

(* A block that arrives.                                                   *)
LEMMA ReceiveBlockStep ==
    ASSUME IInv, NEW t \in Tasks, NEW m \in Messages, ReceiveBlock(t, m)
    PROVE  IInv' /\ Grown(forks, forks')
<1> DEFINE next == OnSignedBlock(m, Nobody, <<>>)
<1>1. m \in SignedBlock /\ Own(m.block, released)
  BY InputsAssumption DEF ReceiveBlock, Own
<1>2. Nobody \in Addr \cup {Nobody}
  OBVIOUS
<1>3. next \in Task /\ next.pc = "lock" /\ TaskInv(next, forks, released)
  BY <1>1, <1>2, FirstCallInv
<1> HIDE DEF next
<1>4. tasks[t].pc = "idle" /\ Lock(t, next)
  BY IdleIsTask DEF ReceiveBlock, next
<1>5. Excludes' /\ Moves(t, next)
  BY <1>3, <1>4, InvariantExcludes, LockLemma
<1>6. /\ UNCHANGED <<now, agreement, released, callbacks, chain>>
      /\ \A r \in raised' : r \in raised \/ r.accused # Me
  BY DEF ReceiveBlock, disputing
<1> QED
  BY <1>3, <1>5, <1>6, QuietMove

(* A call that has the lock unlocks it and is followed by the next.        *)
LEMMA UnlockAfter ==
    ASSUME IInv, NEW t \in Tasks, NEW flag, Holding(t), Unlock(t, After(t, flag))
    PROVE  /\ Excludes' /\ Moves(t, After(t, flag))
           /\ TaskInv(After(t, flag), forks, released)
<1>1. TaskInv(tasks[t], forks, released)
  BY DEF IInv
<1>2. /\ After(t, flag) \in Task
      /\ After(t, flag) = Idle \/ After(t, flag).pc = "lock"
      /\ TaskInv(After(t, flag), forks, released)
  BY <1>1, AfterInv
<1> QED
  BY <1>2, InvariantExcludes, UnlockLemma

(* A decision without a consequence.                                       *)
LEMMA IgnoreBlockStep ==
    ASSUME IInv, NEW t \in Tasks, IgnoreBlock(t)
    PROVE  IInv' /\ Grown(forks, forks')
<1>1. Holding(t)
  BY DEF IgnoreBlock, Decides, Outcome, Answered, Holding
<1>2. Unlock(t, After(t, "IGNORED"))
  BY DEF IgnoreBlock
<1>3. /\ Excludes' /\ Moves(t, After(t, "IGNORED"))
      /\ TaskInv(After(t, "IGNORED"), forks, released)
  BY <1>1, <1>2, UnlockAfter
<1>4. /\ UNCHANGED <<now, agreement, released, callbacks, chain>>
      /\ \A r \in raised' : r \in raised \/ r.accused # Me
  BY DEF IgnoreBlock, disputing
<1> QED
  BY <1>3, <1>4, QuietMove

(* A block whose place is taken is disputed; it is not the peer's own.     *)
LEMMA RejectConflictStep ==
    ASSUME IInv, NEW t \in Tasks, RejectConflict(t)
    PROVE  IInv' /\ Grown(forks, forks')
<1> DEFINE b == tasks[t].msg.block
<1>1. /\ Decision(tasks[t].msg) = "CONFLICT" /\ tasks[t].pc = "validate"
      /\ DisputeConflict(b) /\ Unlock(t, After(t, "DISPUTE"))
      /\ UNCHANGED <<now, agreement, released, callbacks, chain>>
  BY DEF RejectConflict, Decides
<1>2. TaskInv(tasks[t], forks, released)
  BY DEF IInv
<1>3. tasks[t].msg \in SignedBlock /\ Own(b, released) /\ Holding(t)
  BY <1>1, <1>2 DEF TaskInv, Holding
<1>4. b.participant # Me
  BY <1>1, <1>3, DecisionFacts, Stranger
<1>5. \A r \in raised' : r \in raised \/ r.accused # Me
  BY <1>1, <1>4, Accused
<1>6. /\ Excludes' /\ Moves(t, After(t, "DISPUTE"))
      /\ TaskInv(After(t, "DISPUTE"), forks, released)
  BY <1>1, <1>3, UnlockAfter
<1> QED
  BY <1>1, <1>5, <1>6, QuietMove

(* The chain is asked about the timestamp, with the lock held.             *)
LEMMA AskChainStep ==
    ASSUME IInv, NEW t \in Tasks, AskChain(t)
    PROVE  IInv' /\ Grown(forks, forks')
<1> DEFINE next == [tasks[t] EXCEPT !.pc = "askChain"]
<1>1. Decides(t, {"ASK_CHAIN"})
  BY DEF AskChain
<1>2. TaskInv(tasks[t], forks, released)
  BY DEF IInv
<1>3. Decides(t, {"TOO_EARLY", "ASK_CHAIN", "EXECUTE"})
  BY <1>1 DEF Decides
<1>4. /\ Holding(t) /\ tasks[t] \in Task /\ tasks[t].msg \in SignedBlock
      /\ Placed(tasks[t].msg.block, forks)
      /\ Own(tasks[t].msg.block, released)
  BY <1>3, OutcomeFacts
<1>5. /\ next \in Task /\ next.pc = "askChain"
      /\ next.msg = tasks[t].msg /\ next.rest = tasks[t].rest
  BY <1>4 DEF Task
<1>6. tasks' = [tasks EXCEPT ![t] = next] /\ UNCHANGED mutex
  BY DEF AskChain
<1> HIDE DEF next
<1>7. TaskInv(next, forks, released)
  BY <1>2, <1>4, <1>5 DEF TaskInv
<1>8. Excludes' /\ Moves(t, next)
  BY <1>4, <1>5, <1>6, InvariantExcludes, HolderLemma
<1>9. /\ UNCHANGED <<now, agreement, released, callbacks, chain>>
      /\ \A r \in raised' : r \in raised \/ r.accused # Me
  BY DEF AskChain, disputing
<1> QED
  BY <1>7, <1>8, <1>9, QuietMove

(* A block with a wrong timestamp or author is disputed.                   *)
LEMMA RejectBlockStep ==
    ASSUME IInv, NEW t \in Tasks, RejectBlock(t)
    PROVE  IInv' /\ Grown(forks, forks')
<1> DEFINE b == tasks[t].msg.block
<1>1. /\ DisputeIncorrectData(b) /\ Unlock(t, After(t, "DISPUTE"))
      /\ UNCHANGED <<now, agreement, released, callbacks, chain>>
  BY DEF RejectBlock
<1>2. Decides(t, {"TOO_EARLY", "ASK_CHAIN", "EXECUTE"}) \/ Answered(t)
  BY DEF RejectBlock, Outcome, Decides
<1>3. Holding(t) /\ b.participant # Me
  BY <1>2, OutcomeFacts
<1>4. \A r \in raised' : r \in raised \/ r.accused # Me
  BY <1>1, <1>3, Accused
<1>5. /\ Excludes' /\ Moves(t, After(t, "DISPUTE"))
      /\ TaskInv(After(t, "DISPUTE"), forks, released)
  BY <1>1, <1>3, UnlockAfter
<1> QED
  BY <1>1, <1>4, <1>5, QuietMove

(* A call that dies with the lock held.                                    *)
LEMMA AbandonStep ==
    ASSUME IInv, NEW t \in Tasks, Holding(t), Abandon(t)
    PROVE  /\ Excludes' /\ Moves(t, Idle)
           /\ \A F, R : TaskInv(Idle, F, R)
<1>1. tasks' = [tasks EXCEPT ![t] = Idle] /\ UNCHANGED mutex
  BY DEF Abandon
<1> QED
  BY <1>1, IdleIsTask, IdleInv, InvariantExcludes, HolderLemma

(* A block too far in the future is disputed, and the lock kept.           *)
LEMMA RejectFutureStep ==
    ASSUME IInv, NEW t \in Tasks, RejectFuture(t)
    PROVE  IInv' /\ Grown(forks, forks')
<1> DEFINE b == tasks[t].msg.block
<1>1. /\ CreateDispute(LatestForkCnt, Accusation("BlockTooFarInFuture",
             b.forkCnt, b.transactionCnt, b.participant))
      /\ Abandon(t)
      /\ UNCHANGED <<now, agreement, released, callbacks, chain>>
  BY DEF RejectFuture
<1>2. Decides(t, {"TOO_EARLY", "ASK_CHAIN", "EXECUTE"}) \/ Answered(t)
  BY DEF RejectFuture, Outcome, Decides
<1>3. Holding(t) /\ b.participant # Me
  BY <1>2, OutcomeFacts
<1>4. \A r \in raised' : r \in raised \/ r.accused # Me
  BY <1>1, <1>3 DEF CreateDispute, Accusation
<1>5. Excludes' /\ Moves(t, Idle) /\ TaskInv(Idle, forks, released)
  BY <1>1, <1>3, AbandonStep
<1> QED
  BY <1>1, <1>4, <1>5, QuietMove

(* An exception of isGoodTimestamp leads to the handler of SUCCESS.        *)
LEMMA AcceptUnseenStep ==
    ASSUME IInv, NEW t \in Tasks, AcceptUnseen(t)
    PROVE  IInv' /\ Grown(forks, forks')
<1> DEFINE next == [tasks[t] EXCEPT !.pc = "sign"]
<1>1. TaskInv(tasks[t], forks, released)
  BY DEF IInv
<1>2. Decides(t, {"TOO_EARLY", "ASK_CHAIN", "EXECUTE"}) \/ Answered(t)
  BY DEF AcceptUnseen, Decides
<1>3. Holding(t) /\ tasks[t] \in Task /\ tasks[t].msg \in SignedBlock
  BY <1>2, OutcomeFacts
<1>4. /\ next \in Task /\ next.pc = "sign"
      /\ next.msg = tasks[t].msg /\ next.rest = tasks[t].rest
  BY <1>3 DEF Task
<1>5. tasks' = [tasks EXCEPT ![t] = next] /\ UNCHANGED mutex
  BY DEF AcceptUnseen
<1> HIDE DEF next
<1>6. TaskInv(next, forks, released)
  BY <1>1, <1>3, <1>4 DEF TaskInv
<1>7. Excludes' /\ Moves(t, next)
  BY <1>3, <1>4, <1>5, InvariantExcludes, HolderLemma
<1>8. /\ UNCHANGED <<now, agreement, released, callbacks, chain>>
      /\ \A r \in raised' : r \in raised \/ r.accused # Me
  BY DEF AcceptUnseen, disputing
<1> QED
  BY <1>6, <1>7, <1>8, QuietMove

(* The handler of SUCCESS throws.                                          *)
LEMMA ConfirmThrowsStep ==
    ASSUME IInv, NEW t \in Tasks, ConfirmThrows(t)
    PROVE  IInv' /\ Grown(forks, forks')
<1>1. Holding(t) /\ Abandon(t)
  BY DEF ConfirmThrows, Holding
<1>2. Excludes' /\ Moves(t, Idle) /\ TaskInv(Idle, forks, released)
  BY <1>1, AbandonStep
<1>3. /\ UNCHANGED <<now, agreement, released, callbacks, chain>>
      /\ \A r \in raised' : r \in raised \/ r.accused # Me
  BY DEF ConfirmThrows, disputing
<1> QED
  BY <1>2, <1>3, QuietMove

(* A step of a task that may touch everything but the time and the chain.  *)
LEMMA MoveStep ==
    ASSUME IInv, NEW t \in Tasks, NEW next, Excludes', Moves(t, next),
           ForksStep, SameLengths(forks, forks') \/ Holding(t),
           TaskInv(next, forks', released'),
           released \subseteq released', released' \subseteq Block,
           \A b \in released' : b \in released \/ InChain(b, forks'),
           machine' \in State,
           blockQ' \subseteq SignedBlock, IsFiniteSet(blockQ'),
           \A m \in blockQ' : m \in blockQ \/ Own(m.block, released'),
           wakeup' \in BOOLEAN,
           \A x \in timers' : x \in timers \/ x.turn.participant # Me,
           pendingPosts' \subseteq [block : Block, due : Nat],
           \A x \in pendingPosts' : x \in pendingPosts \/ x.block \in released',
           \A r \in raised' : r \in raised \/ r.accused # Me,
           UNCHANGED <<now, chain>>
    PROVE  IInv' /\ Grown(forks, forks')
<1>1. UNCHANGED <<now, posted, heard, nextEvent>>
  BY DEF chain
<1>2. \A u \in Tasks : TaskInv(tasks'[u], forks', released')
  BY TasksMove
<1>3. Releases'
  BY <1>1, ReleasesStay
<1>4. NotAccused'
  BY NotAccusedStay
<1>5. Typing'
  BY <1>1 DEF IInv, Typing, Excludes, MutexType, ForksStep
<1>6. LockDiscipline'
  BY DEF Excludes
<1> QED
  BY <1>2, <1>3, <1>4, <1>5, <1>6 DEF IInv, ForksStep

(* Nothing changes of the queue, the callbacks and the releases.           *)
LEMMA MoveKeeps ==
    ASSUME IInv, UNCHANGED <<blockQ, released, callbacks>>
    PROVE  /\ released \subseteq released' /\ released' \subseteq Block
           /\ \A b \in released' : b \in released \/ InChain(b, forks')
           /\ blockQ' \subseteq SignedBlock /\ IsFiniteSet(blockQ')
           /\ \A m \in blockQ' : m \in blockQ \/ Own(m.block, released')
           /\ wakeup' \in BOOLEAN
           /\ \A x \in timers' : x \in timers \/ x.turn.participant # Me
           /\ pendingPosts' \subseteq [block : Block, due : Nat]
           /\ \A x \in pendingPosts' : x \in pendingPosts \/ x.block \in released'
BY DEF IInv, Typing, callbacks

(* The confirmer a call brings along is an address.                        *)
LEMMA ConfirmerIsAddr ==
    ASSUME IInv, NEW t \in Tasks
    PROVE  ConfirmerOf(t) \subseteq Addr
<1>1. tasks[t].confirmer \in Addr \cup {Nobody}
  BY DEF IInv, Typing, Task
<1> QED
  BY <1>1 DEF ConfirmerOf, Confirmer

(* Signatures are added to a block that is in the chain.                   *)
LEMMA SignersStep ==
    ASSUME IInv, NEW b \in Block, IsBlockInChain(b), NEW S \in SUBSET Addr,
           forks' = WithSigners(b, S)
    PROVE  ForksStep /\ SameLengths(forks, forks')
<1>1. forks \in Seq(ForkRecord) /\ Ordered(forks) /\ InChain(b, forks)
  BY InChainIsIsBlockInChain DEF IInv, Typing
<1> QED
  BY <1>1, WithSignersLemma DEF ForksStep

(* A duplicate, with a confirmation that may count.                        *)
LEMMA IgnoreDuplicateStep ==
    ASSUME IInv, NEW t \in Tasks, IgnoreDuplicate(t)
    PROVE  IInv' /\ Grown(forks, forks')
<1> DEFINE b == tasks[t].msg.block
           next == After(t, "DUPLICATE")
<1>1. /\ tasks[t].pc = "validate"
      /\ forks' = IF IsBlockInChain(b) THEN WithSigners(b, ConfirmerOf(t)) ELSE forks
      /\ Unlock(t, next)
      /\ UNCHANGED <<now, machine, blockQ, disputing, released, callbacks, chain>>
  BY DEF IgnoreDuplicate, Decides
<1>2. TaskInv(tasks[t], forks, released) /\ Holding(t)
  BY <1>1 DEF IInv, Holding
<1>3. b \in Block
  BY <1>1, <1>2 DEF TaskInv, SignedBlock
<1>4. ForksStep /\ SameLengths(forks, forks')
  <2>1. CASE IsBlockInChain(b)
    <3>1. forks' = WithSigners(b, ConfirmerOf(t))
      BY <1>1, <2>1
    <3> HIDE DEF b
    <3> QED
      BY <1>3, <2>1, <3>1, ConfirmerIsAddr, SignersStep
  <2>2. CASE ~IsBlockInChain(b)
    BY <1>1, <2>2, ForksStay
  <2> QED
    BY <2>1, <2>2
<1>5. Excludes' /\ Moves(t, next) /\ TaskInv(next, forks, released)
  BY <1>1, <1>2, UnlockAfter
<1>6. TaskInv(next, forks', released')
  <2>1. forks \in Seq(ForkRecord) /\ forks' \in Seq(ForkRecord) /\ Grown(forks, forks')
    BY <1>4 DEF IInv, Typing, ForksStep
  <2> HIDE DEF next
  <2> QED
    BY <1>1, <1>4, <1>5, <2>1, TaskMonotone
<1>7. machine' \in State /\ \A r \in raised' : r \in raised \/ r.accused # Me
  BY <1>1 DEF IInv, Typing, disputing
<1> HIDE DEF next, b
<1> QED
  BY <1>1, <1>4, <1>5, <1>6, <1>7, MoveKeeps, MoveStep

(* A block is queued.                                                      *)
LEMMA QueuedStep ==
    ASSUME IInv, NEW m \in SignedBlock, Own(m.block, released'), blockQ' = Queued(m)
    PROVE  /\ blockQ' \subseteq SignedBlock /\ IsFiniteSet(blockQ')
           /\ \A q \in blockQ' : q \in blockQ \/ Own(q.block, released')
<1>1. blockQ \subseteq SignedBlock /\ IsFiniteSet(blockQ)
  BY DEF IInv, Typing
<1>2. PICK Q \in SUBSET blockQ : Queued(m) = Q \cup {m}
  BY DEF Queued
<1>3. IsFiniteSet(Q) /\ IsFiniteSet({m})
  BY <1>1, FS_Subset, FS_Singleton
<1>4. IsFiniteSet(Q \cup {m})
  BY <1>3, FS_Union
<1> QED
  BY <1>1, <1>2, <1>4

(* A block that is not ready.                                              *)
LEMMA QueueBlockStep ==
    ASSUME IInv, NEW t \in Tasks, QueueBlock(t)
    PROVE  IInv' /\ Grown(forks, forks')
<1> DEFINE m == tasks[t].msg
           next == After(t, "NOT_READY")
<1>1. /\ tasks[t].pc = "validate" /\ blockQ' = Queued(m) /\ Unlock(t, next)
      /\ UNCHANGED <<now, machine, forks, disputing, released, callbacks, chain>>
  BY DEF QueueBlock, Decides
<1>2. TaskInv(tasks[t], forks, released) /\ Holding(t)
  BY <1>1 DEF IInv, Holding
<1>3. m \in SignedBlock /\ Own(m.block, released)
  BY <1>1, <1>2 DEF TaskInv
<1>4. Excludes' /\ Moves(t, next) /\ TaskInv(next, forks, released)
  BY <1>1, <1>2, UnlockAfter
<1>5. ForksStep /\ SameLengths(forks, forks') /\ TaskInv(next, forks', released')
  BY <1>1, <1>4, ForksStay
<1>6. /\ blockQ' \subseteq SignedBlock /\ IsFiniteSet(blockQ')
      /\ \A q \in blockQ' : q \in blockQ \/ Own(q.block, released')
  <2> HIDE DEF m
  <2> QED
    BY <1>1, <1>3, QueuedStep
<1>7. /\ released \subseteq released' /\ released' \subseteq Block
      /\ \A b \in released' : b \in released \/ InChain(b, forks')
      /\ wakeup' \in BOOLEAN /\ machine' \in State
      /\ \A x \in timers' : x \in timers \/ x.turn.participant # Me
      /\ pendingPosts' \subseteq [block : Block, due : Nat]
      /\ \A x \in pendingPosts' : x \in pendingPosts \/ x.block \in released'
      /\ \A r \in raised' : r \in raised \/ r.accused # Me
  BY <1>1 DEF IInv, Typing, callbacks, disputing
<1>8. UNCHANGED <<now, chain>>
  BY <1>1
<1> HIDE DEF next, m
<1> QED
  BY <1>4, <1>5, <1>6, <1>7, <1>8, MoveStep

(* A block with a wrong hash is disputed when the machine has moved.       *)
LEMMA RejectExecutedStep ==
    ASSUME IInv, NEW t \in Tasks, RejectExecuted(t)
    PROVE  IInv' /\ Grown(forks, forks')
<1> DEFINE b == tasks[t].msg.block
           next == After(t, "DISPUTE")
<1>1. /\ machine' = StateTransition(b)
      /\ DisputeIncorrectData(b) /\ Unlock(t, next)
      /\ UNCHANGED <<now, forks, blockQ, released, callbacks, chain>>
  BY DEF RejectExecuted
<1>2. Decides(t, {"TOO_EARLY", "ASK_CHAIN", "EXECUTE"}) \/ Answered(t)
  BY DEF RejectExecuted, Outcome, Decides
<1>3. Holding(t) /\ b \in Block /\ b.participant # Me
  BY <1>2, OutcomeFacts
<1>4. Excludes' /\ Moves(t, next) /\ TaskInv(next, forks, released)
  BY <1>1, <1>3, UnlockAfter
<1>5. ForksStep /\ SameLengths(forks, forks') /\ TaskInv(next, forks', released')
  BY <1>1, <1>4, ForksStay
<1>6. machine' \in State
  BY <1>1, <1>3, ExecutedState DEF StateTransition, IInv, Typing
<1>7. \A r \in raised' : r \in raised \/ r.accused # Me
  BY <1>1, <1>3, Accused
<1> HIDE DEF next, b
<1> QED
  BY <1>1, <1>4, <1>5, <1>6, <1>7, MoveKeeps, MoveStep

(* A block that is not in the chain and whose place is next is added.      *)
LEMMA BlockStep ==
    ASSUME IInv, NEW b \in Block, Placed(b, forks), Faithful(b), forks' = WithBlock(b)
    PROVE  ForksStep /\ InChain(b, forks')
BY WithBlockLemma DEF IInv, Typing, ForksStep

(* A block that is accepted fits its place, and its author's turn and      *)
(* state are right.                                                        *)
LEMMA AcceptedBlock ==
    ASSUME IInv, NEW t \in Tasks, AcceptBlock(t)
    PROVE  /\ Holding(t) /\ tasks[t] \in Task /\ tasks[t].msg \in SignedBlock
           /\ tasks[t].msg.block \in Block
           /\ Placed(tasks[t].msg.block, forks) /\ Faithful(tasks[t].msg.block)
           /\ tasks[t].msg.block.participant # Me
           /\ tasks[t].msg.block.previousState = machine
<1> DEFINE b == tasks[t].msg.block
<1>1. Outcome(t, "SUCCESS")
  BY DEF AcceptBlock
<1>2. Decides(t, {"TOO_EARLY", "ASK_CHAIN", "EXECUTE"}) \/ Answered(t)
  BY <1>1 DEF Outcome, Decides
<1>3. /\ Holding(t) /\ tasks[t] \in Task /\ tasks[t].msg \in SignedBlock
      /\ b \in Block /\ Placed(b, forks) /\ b.participant # Me
  BY <1>2, OutcomeFacts
<1>4. Execution(b) = "SUCCESS"
  BY <1>1 DEF Outcome
<1>5. b.participant = Writer /\ b.previousState = machine /\ b.state = StateTransition(b)
  BY <1>4 DEF Execution
<1> QED
  BY <1>3, <1>5 DEF Faithful, Writer, StateTransition

(* A block is executed and added.                                          *)
LEMMA AcceptBlockStep ==
    ASSUME IInv, NEW t \in Tasks, AcceptBlock(t)
    PROVE  IInv' /\ Grown(forks, forks')
<1> DEFINE b == tasks[t].msg.block
           next == [tasks[t] EXCEPT !.pc = "sign"]
<1>1. /\ machine' = StateTransition(b) /\ forks' = WithBlock(b)
      /\ tasks' = [tasks EXCEPT ![t] = next]
      /\ UNCHANGED <<now, blockQ, disputing, released, mutex, callbacks, chain>>
  BY DEF AcceptBlock
<1>3. /\ Holding(t) /\ tasks[t] \in Task /\ tasks[t].msg \in SignedBlock
      /\ b \in Block /\ Placed(b, forks) /\ Faithful(b)
  BY AcceptedBlock
<1>5. ForksStep
  <2> HIDE DEF b
  <2> QED
    BY <1>1, <1>3, BlockStep
<1>6. /\ next \in Task /\ next.pc = "sign"
      /\ next.msg = tasks[t].msg /\ next.rest = tasks[t].rest
  BY <1>3 DEF Task
<1> HIDE DEF next
<1>7. TaskInv(next, forks', released')
  <2>1. TaskInv(tasks[t], forks, released)
    BY DEF IInv
  <2> QED
    BY <1>1, <1>3, <1>6, <2>1 DEF TaskInv
<1>8. Excludes' /\ Moves(t, next)
  BY <1>1, <1>3, <1>6, InvariantExcludes, HolderLemma
<1>9. machine' \in State
  BY <1>1, <1>3, ExecutedState DEF StateTransition, IInv, Typing
<1>10. \A r \in raised' : r \in raised \/ r.accused # Me
  BY <1>1 DEF disputing
<1> HIDE DEF b
<1> QED
  BY <1>1, <1>3, <1>5, <1>7, <1>8, <1>9, <1>10, MoveKeeps, MoveStep

(* The peer's signature is added and broadcast.                            *)
LEMMA ConfirmBlockStep ==
    ASSUME IInv, NEW t \in Tasks, ConfirmBlock(t)
    PROVE  IInv' /\ Grown(forks, forks')
<1> DEFINE b == tasks[t].msg.block
           S == {Me} \cup ConfirmerOf(t)
           next == After(t, "SUCCESS")
<1>1. /\ tasks[t].pc = "sign" /\ CanConfirm(b) /\ forks' = WithSigners(b, S)
      /\ released' = released \cup {b} /\ machine' = machine
      /\ OnSuccess /\ Unlock(t, next)
      /\ UNCHANGED <<now, blockQ, disputing, pendingPosts, chain>>
  BY DEF ConfirmBlock
<1>2. TaskInv(tasks[t], forks, released) /\ Holding(t)
  BY <1>1 DEF IInv, Holding
<1>3. b \in Block
  BY <1>1, <1>2 DEF TaskInv, SignedBlock
<1>4. S \in SUBSET Addr
  BY ConfirmerIsAddr, MeAssumption
<1>5. IsBlockInChain(b) /\ InChain(b, forks)
  BY <1>1, InChainIsIsBlockInChain DEF CanConfirm
<1>6. Excludes' /\ Moves(t, next) /\ TaskInv(next, forks, released)
  BY <1>1, <1>2, UnlockAfter
<1> HIDE DEF b, S, next
<1>7. ForksStep /\ SameLengths(forks, forks')
  BY <1>1, <1>3, <1>4, <1>5, SignersStep
<1>8. forks \in Seq(ForkRecord) /\ forks' \in Seq(ForkRecord) /\ Grown(forks, forks')
  BY <1>7 DEF IInv, Typing, ForksStep
<1>9. released \subseteq released' /\ released' \subseteq Block
  BY <1>1, <1>3 DEF IInv, Typing
<1>10. TaskInv(next, forks', released')
  BY <1>6, <1>7, <1>8, <1>9, TaskMonotone
<1>11. \A c \in released' : c \in released \/ InChain(c, forks')
  <2>1. InChain(b, forks')
    BY <1>3, <1>5, <1>8, GrownPlaces
  <2> QED
    BY <1>1, <2>1
<1>12. /\ blockQ' \subseteq SignedBlock /\ IsFiniteSet(blockQ') /\ machine' \in State
       /\ \A m \in blockQ' : m \in blockQ \/ Own(m.block, released')
       /\ pendingPosts' \subseteq [block : Block, due : Nat]
       /\ \A x \in pendingPosts' : x \in pendingPosts \/ x.block \in released'
       /\ \A r \in raised' : r \in raised \/ r.accused # Me
  BY <1>1 DEF IInv, Typing, disputing
<1>13. wakeup' \in BOOLEAN /\ \A x \in timers' : x \in timers \/ x.turn.participant # Me
  BY <1>1, SuccessTimers
<1>14. UNCHANGED <<now, chain>>
  BY <1>1
<1> QED
  BY <1>6, <1>7, <1>9, <1>10, <1>11, <1>12, <1>13, <1>14, MoveStep

(* A step of no task.                                                      *)
LEMMA StayStep ==
    ASSUME IInv, ForksStep, SameLengths(forks, forks'),
           now' \in Nat, machine' \in State,
           blockQ' \subseteq SignedBlock, IsFiniteSet(blockQ'),
           \A m \in blockQ' : m \in blockQ \/ Own(m.block, released'),
           wakeup' \in BOOLEAN,
           \A x \in timers' : x \in timers \/ x.turn.participant # Me,
           pendingPosts' \subseteq pendingPosts,
           \A r \in raised' : r \in raised \/ r.accused # Me,
           posted' \subseteq Post, heard' \subseteq posted',
           \A p \in posted' : p \in posted \/ Own(p.block, released'),
           nextEvent' \in Nat,
           UNCHANGED <<released, running>>
    PROVE  IInv' /\ Grown(forks, forks')
<1>1. UNCHANGED <<released, mutex, tasks>>
  BY DEF running
<1>2. \A u \in Tasks : TaskInv(tasks'[u], forks', released')
  BY <1>1, TasksStay
<1>3. Releases'
  BY <1>1, ReleasesStay
<1>4. NotAccused'
  BY NotAccusedStay
<1>5. Typing'
  BY <1>1 DEF IInv, Typing, ForksStep
<1>6. LockDiscipline'
  BY <1>1 DEF IInv, LockDiscipline, Holding, Waiting
<1> QED
  BY <1>2, <1>3, <1>4, <1>5, <1>6 DEF IInv, ForksStep

(* A confirmation arrives, before its block or after.                      *)
LEMMA ReceiveConfirmationStep ==
    ASSUME IInv, NEW t \in Tasks, NEW c \in Confirmations, ReceiveConfirmation(t, c)
    PROVE  IInv' /\ Grown(forks, forks')
<1> DEFINE m == [signer |-> c.signer, block |-> c.block]
           next == OnSignedBlock(m, c.confirmer, <<>>)
<1>1. c \in Confirmation
  BY InputsAssumption
<1>2. m \in SignedBlock /\ m.block = c.block /\ c.block \in Block /\ c.confirmer \in Addr
  BY <1>1 DEF Confirmation, SignedBlock
<1>3. /\ c.block.participant = Me => c.block \in released
      /\ IF IsBlockInChain(c.block)
         THEN forks' = WithSigners(c.block, {c.confirmer}) /\ UNCHANGED running
         ELSE tasks[t] = Idle /\ Lock(t, next) /\ UNCHANGED forks
      /\ UNCHANGED <<now, machine, blockQ, disputing, released, callbacks, chain>>
  BY DEF ReceiveConfirmation
<1>4. CASE IsBlockInChain(c.block)
  <2>1. forks' = WithSigners(c.block, {c.confirmer}) /\ {c.confirmer} \in SUBSET Addr
    BY <1>2, <1>3, <1>4
  <2>2. ForksStep /\ SameLengths(forks, forks')
    BY <1>2, <1>4, <2>1, SignersStep
  <2>3. /\ now' \in Nat /\ machine' \in State /\ nextEvent' \in Nat
        /\ posted' \subseteq Post /\ heard' \subseteq posted' /\ posted' = posted
        /\ pendingPosts' \subseteq pendingPosts
        /\ \A r \in raised' : r \in raised \/ r.accused # Me
    BY <1>3 DEF IInv, Typing, disputing, callbacks, chain
  <2>4. UNCHANGED <<released, running>>
    BY <1>3, <1>4
  <2>5. UNCHANGED <<blockQ, released, callbacks>>
    BY <1>3
  <2>6. /\ blockQ' \subseteq SignedBlock /\ IsFiniteSet(blockQ')
        /\ \A q \in blockQ' : q \in blockQ \/ Own(q.block, released')
        /\ wakeup' \in BOOLEAN
        /\ \A x \in timers' : x \in timers \/ x.turn.participant # Me
    BY <2>5, MoveKeeps
  <2> QED
    BY <2>2, <2>3, <2>4, <2>6, StayStep
<1>5. CASE ~IsBlockInChain(c.block)
  <2>1. tasks[t].pc = "idle" /\ Lock(t, next) /\ UNCHANGED forks
    BY <1>3, <1>5, IdleIsTask
  <2>2. Own(m.block, released) /\ c.confirmer \in Addr \cup {Nobody}
    BY <1>2, <1>3 DEF Own
  <2> HIDE DEF m
  <2>3. next \in Task /\ next.pc = "lock" /\ TaskInv(next, forks, released)
    BY <1>2, <2>2, FirstCallInv
  <2> HIDE DEF next
  <2>4. Excludes' /\ Moves(t, next)
    BY <2>1, <2>3, InvariantExcludes, LockLemma
  <2>5. /\ UNCHANGED <<now, agreement, released, callbacks, chain>>
        /\ \A r \in raised' : r \in raised \/ r.accused # Me
    BY <1>3, <2>1 DEF agreement, disputing
  <2> QED
    BY <2>3, <2>4, <2>5, QuietMove
<1> QED
  BY <1>4, <1>5

(* The header of a transaction, before the call waits for the mutex.       *)
LEMMA PlayStep ==
    ASSUME IInv, NEW t \in Tasks, NEW amount \in Amounts, Play(t, amount)
    PROVE  IInv' /\ Grown(forks, forks')
<1> DEFINE header == [ participant    |-> Me,
                       forkCnt        |-> LatestForkCnt,
                       transactionCnt |-> NextBlockHeight,
                       timestamp      |-> now,
                       amount         |-> amount,
                       previousState  |-> NoState,
                       state          |-> NoState ]
           next == [Idle EXCEPT !.pc = "playLock",
                                !.msg = [signer |-> Me, block |-> header]]
<1>1. /\ tasks[t] = Idle /\ Lock(t, next)
      /\ UNCHANGED <<now, agreement, disputing, released, callbacks, chain>>
  BY DEF Play
<1>2. forks \in Seq(ForkRecord) /\ now \in Nat
  BY DEF IInv, Typing
<1>3. header \in Block
  BY <1>2, LatestFork, MeAssumption, InputsAssumption DEF Block, State, NoState
<1>4. Reaches(header, forks) /\ header.participant = Me
  <2>1. header.forkCnt = LatestForkCnt /\ header.transactionCnt = NextBlockHeight
    OBVIOUS
  <2>2. CASE forks = <<>>
    BY <1>2, <2>1, <2>2, LatestFork DEF Reaches
  <2>3. CASE forks # <<>>
    BY <1>2, <2>1, <2>3, LatestFork DEF Reaches
  <2> QED
    BY <2>2, <2>3
<1> HIDE DEF header
<1>5. [signer |-> Me, block |-> header] \in SignedBlock
  BY <1>3, MeAssumption DEF SignedBlock
<1>10. PICK M \in SignedBlock : M = [signer |-> Me, block |-> header]
  BY <1>5
<1>11. next = [Idle EXCEPT !.pc = "playLock", !.msg = M]
  BY <1>10
<1>12. Idle \in Task /\ Idle.rest = <<>>
  BY IdleIsTask DEF Idle
<1> HIDE DEF next
<1>6. /\ next \in Task /\ next.pc = "playLock" /\ next.rest = <<>>
      /\ next.msg \in SignedBlock /\ next.msg.block = header
  BY <1>10, <1>11, <1>12 DEF Task
<1>7. TaskInv(next, forks, released)
  BY <1>4, <1>6 DEF TaskInv
<1>8. Excludes' /\ Moves(t, next)
  BY <1>1, <1>6, IdleIsTask, InvariantExcludes, LockLemma
<1>9. \A r \in raised' : r \in raised \/ r.accused # Me
  BY <1>1 DEF disputing
<1> QED
  BY <1>1, <1>7, <1>8, <1>9, QuietMove

(* A play ends without a block.                                            *)
LEMMA PlayEnds ==
    ASSUME IInv, NEW t \in Tasks, Holding(t), Unlock(t, Idle),
           UNCHANGED <<now, agreement, disputing, released, callbacks, chain>>
    PROVE  IInv' /\ Grown(forks, forks')
<1>1. Excludes' /\ Moves(t, Idle)
  BY IdleIsTask, InvariantExcludes, UnlockLemma
<1>2. \A r \in raised' : r \in raised \/ r.accused # Me
  BY DEF disputing
<1> QED
  BY <1>1, <1>2, IdleInv, QuietMove

(* A transaction out of turn.                                              *)
LEMMA PlayRefusedStep ==
    ASSUME IInv, NEW t \in Tasks, PlayRefused(t)
    PROVE  IInv' /\ Grown(forks, forks')
BY PlayEnds DEF PlayRefused, Holding

(* A transaction that cannot be signed or added.                           *)
LEMMA PlayThrowsStep ==
    ASSUME IInv, NEW t \in Tasks, PlayThrows(t)
    PROVE  IInv' /\ Grown(forks, forks')
BY PlayEnds DEF PlayThrows, Holding

(* The timestamp of the latest block of a fork is a time.                  *)
LEMMA TimestampIsNat ==
    ASSUME forks \in Seq(ForkRecord), NEW f \in Nat, f < Len(forks)
    PROVE  LatestBlockTimestamp(f) \in Nat
<1>1. f + 1 \in 1..Len(forks)
  OBVIOUS
<1>2. PICK r \in ForkRecord : r = Fork(f)
  BY <1>1, ElementOf DEF Fork
<1>3. r.genesisTimestamp \in Nat /\ r.agreements \in Seq(Agreements)
  BY <1>2 DEF ForkRecord
<1>4. PICK A \in Seq(Agreements) : A = r.agreements
  BY <1>3
<1>5. Len(A) # 0 => A[Len(A)].block.timestamp \in Nat
  <2>1. Len(A) # 0 => Len(A) \in 1..Len(A)
    BY <1>4
  <2>2. Len(A) # 0 => A[Len(A)] \in Agreements
    BY <2>1, ElementOf
  <2> QED
    BY <2>2 DEF Agreements, Block
<1>6. LatestBlockTimestamp(f) =
        MaxOf(r.genesisTimestamp, IF Len(A) = 0 THEN 0 ELSE A[Len(A)].block.timestamp)
  BY <1>2, <1>4 DEF LatestBlockTimestamp
<1> QED
  BY <1>3, <1>5, <1>6 DEF MaxOf

(* The block that is sealed: the header, completed.                        *)
LEMMA CreatedBlock ==
    ASSUME IInv, NEW header \in Block, header.participant = Me, IsMyTurn, forks # <<>>,
           NEW b, b = CreateBlock(header, ApplyTransaction(header))
    PROVE  /\ b \in Block /\ Faithful(b) /\ b.participant = Me
           /\ b.forkCnt = header.forkCnt /\ b.transactionCnt = header.transactionCnt
           /\ ApplyTransaction(header).state \in State
<1>1. machine \in State /\ forks \in Seq(ForkRecord)
  BY DEF IInv, Typing
<1>2. StateTransition(header) \in State
  BY <1>1, ExecutedState DEF StateTransition
<1>3. AdjustedTimestamp(header) \in Nat
  <2>1. LatestForkCnt \in Nat /\ LatestForkCnt < Len(forks)
    BY <1>1, LatestFork
  <2>2. PICK time \in Nat : time = LatestBlockTimestamp(LatestForkCnt)
    BY <1>1, <2>1, TimestampIsNat
  <2>3. header.timestamp \in Nat
    BY DEF Block
  <2> QED
    BY <2>2, <2>3 DEF AdjustedTimestamp
<1>4. b = [header EXCEPT !.timestamp     = AdjustedTimestamp(header),
                         !.previousState = machine,
                         !.state         = StateTransition(header)]
  BY DEF CreateBlock, ApplyTransaction
<1>5. /\ b \in Block /\ b.participant = Me /\ b.amount = header.amount
      /\ b.forkCnt = header.forkCnt /\ b.transactionCnt = header.transactionCnt
      /\ b.previousState = machine /\ b.state = StateTransition(header)
  BY <1>1, <1>2, <1>3, <1>4 DEF Block
<1>6. StateTransition(header) = Executed(machine, b)
  BY <1>5 DEF StateTransition, Executed
<1>7. Faithful(b)
  BY <1>5, <1>6 DEF Faithful, IsMyTurn, Writer
<1> QED
  BY <1>2, <1>5, <1>7 DEF ApplyTransaction

(* A transaction is applied, and its block about to be signed.             *)
LEMMA PlayAppliedStep ==
    ASSUME IInv, NEW t \in Tasks, PlayApplied(t)
    PROVE  IInv' /\ Grown(forks, forks')
<1>1. PICK header : header = tasks[t].msg.block
  OBVIOUS
<1>2. PICK b : b = CreateBlock(header, ApplyTransaction(header))
  OBVIOUS
<1>3. /\ tasks[t].pc = "play" /\ IsMyTurn /\ forks # <<>>
      /\ machine' = ApplyTransaction(header).state
      /\ tasks' = [tasks EXCEPT ![t].pc = "seal", ![t].msg.block = b]
      /\ UNCHANGED <<now, forks, blockQ, disputing, released, mutex, callbacks, chain>>
  BY <1>1, <1>2 DEF PlayApplied
<1>4. /\ TaskInv(tasks[t], forks, released) /\ Holding(t)
      /\ forks \in Seq(ForkRecord) /\ tasks \in [Tasks -> Task]
  BY <1>3 DEF IInv, Typing, Holding
<1>5. /\ tasks[t] \in Task /\ tasks[t].msg \in SignedBlock /\ header.participant = Me
      /\ Reaches(header, forks)
  BY <1>1, <1>3, <1>4 DEF TaskInv
<1>6. header \in Block
  BY <1>1, <1>5 DEF SignedBlock
<1>7. /\ b \in Block /\ Faithful(b) /\ b.participant = Me
      /\ b.forkCnt = header.forkCnt /\ b.transactionCnt = header.transactionCnt
      /\ machine' \in State
  BY <1>2, <1>3, <1>5, <1>6, CreatedBlock
<1>8. PICK m : m = [tasks[t].msg EXCEPT !.block = b]
  OBVIOUS
<1>9. m \in SignedBlock /\ m.block = b
  BY <1>5, <1>7, <1>8 DEF SignedBlock
<1>10. PICK next : next = [tasks[t] EXCEPT !.pc = "seal", !.msg = m]
  OBVIOUS
<1>11. /\ next \in Task /\ next.pc = "seal" /\ next.msg = m
       /\ next.rest = tasks[t].rest
  BY <1>5, <1>9, <1>10 DEF Task
<1>12. tasks' = [tasks EXCEPT ![t] = next]
  BY <1>3, <1>4, <1>8, <1>10
<1>13. Reaches(b, forks) /\ b.forkCnt < Len(forks)
  <2>1. Reaches(b, forks)
    BY <1>5, <1>7 DEF Reaches
  <2>2. Len(forks) \in Nat \ {0}
    BY <1>3, <1>4, LatestFork
  <2> QED
    BY <2>1, <2>2 DEF Reaches
<1>14. TaskInv(next, forks, released)
  BY <1>4, <1>7, <1>9, <1>11, <1>13 DEF TaskInv
<1>15. Excludes' /\ Moves(t, next)
  BY <1>3, <1>4, <1>11, <1>12, InvariantExcludes, HolderLemma
<1>16. ForksStep /\ SameLengths(forks, forks') /\ TaskInv(next, forks', released')
  BY <1>3, <1>14, ForksStay
<1>17. \A r \in raised' : r \in raised \/ r.accused # Me
  BY <1>3 DEF disputing
<1> QED
  BY <1>3, <1>7, <1>15, <1>16, <1>17, MoveKeeps, MoveStep

(* The peer's own block is added where its place is free.                  *)
LEMMA SealedBlock ==
    ASSUME IInv, NEW t \in Tasks, PlaySealed(t)
    PROVE  /\ Holding(t) /\ tasks[t].msg \in SignedBlock
           /\ tasks[t].msg.block \in Block
           /\ Placed(tasks[t].msg.block, forks) /\ Faithful(tasks[t].msg.block)
<1>1. PICK b : b = tasks[t].msg.block
  OBVIOUS
<1>2. tasks[t].pc = "seal" /\ ~Agreed(b.forkCnt, b.transactionCnt)
  BY <1>1 DEF PlaySealed
<1>3. TaskInv(tasks[t], forks, released) /\ Holding(t) /\ forks \in Seq(ForkRecord)
  BY <1>2 DEF IInv, Typing, Holding
<1>4. /\ tasks[t].msg \in SignedBlock /\ Reaches(b, forks)
      /\ b.forkCnt < Len(forks) /\ Faithful(b)
  BY <1>1, <1>2, <1>3 DEF TaskInv
<1>5. b \in Block
  BY <1>1, <1>4 DEF SignedBlock
<1>6. Placed(b, forks)
  <2>1. b.forkCnt \in Nat /\ b.transactionCnt \in Nat /\ b.forkCnt + 1 \in 1..Len(forks)
    BY <1>3, <1>4, <1>5 DEF Block
  <2>2. PICK r \in ForkRecord : r = forks[b.forkCnt + 1]
    BY <1>3, <2>1, ElementOf
  <2>3. Len(r.agreements) \in Nat
    BY <2>2 DEF ForkRecord
  <2>4. b.transactionCnt <= Len(r.agreements)
    BY <1>4, <2>2 DEF Reaches
  <2>5. ~(b.transactionCnt < Len(r.agreements))
    BY <1>2, <1>4, <2>2 DEF Agreed, IsValidForkCnt, Fork
  <2> QED
    BY <1>4, <2>1, <2>2, <2>3, <2>4, <2>5 DEF Placed
<1> QED
  BY <1>1, <1>3, <1>4, <1>5, <1>6

(* The peer's own block is added and broadcast.                            *)
LEMMA PlaySealedStep ==
    ASSUME IInv, NEW t \in Tasks, PlaySealed(t)
    PROVE  IInv' /\ Grown(forks, forks')
<1>1. PICK b : b = tasks[t].msg.block
  OBVIOUS
<1>2. /\ tasks[t].pc = "seal"
      /\ forks' = WithBlock(b) /\ released' = released \cup {b}
      /\ pendingPosts' = ScheduleTask(pendingPosts, [block |-> b, due |-> now + AgreementTime])
      /\ machine' = machine /\ OnSuccess /\ Unlock(t, Idle)
      /\ UNCHANGED <<now, blockQ, disputing, chain>>
  BY <1>1 DEF PlaySealed
<1>3. Holding(t) /\ b \in Block /\ Placed(b, forks) /\ Faithful(b)
  BY <1>1, SealedBlock
<1>7. ForksStep /\ InChain(b, forks')
  BY <1>2, <1>3, BlockStep
<1>8. Excludes' /\ Moves(t, Idle)
  BY <1>2, <1>3, IdleIsTask, InvariantExcludes, UnlockLemma
<1>9. /\ released \subseteq released' /\ released' \subseteq Block
      /\ \A c \in released' : c \in released \/ InChain(c, forks')
  BY <1>2, <1>3, <1>7 DEF IInv, Typing
<1>10. /\ pendingPosts' \subseteq [block : Block, due : Nat]
       /\ \A x \in pendingPosts' : x \in pendingPosts \/ x.block \in released'
  <2>1. PICK x : x = [block |-> b, due |-> now + AgreementTime]
    OBVIOUS
  <2>2. x \in [block : Block, due : Nat] /\ x.block = b
    BY <1>3, <2>1, ClientTimesAssumption DEF IInv, Typing
  <2>3. pendingPosts' \subseteq pendingPosts \cup {x}
    BY <1>2, <2>1 DEF ScheduleTask
  <2>4. pendingPosts \subseteq [block : Block, due : Nat]
    BY DEF IInv, Typing
  <2> QED
    BY <1>2, <2>2, <2>3, <2>4
<1>11. /\ blockQ' \subseteq SignedBlock /\ IsFiniteSet(blockQ') /\ machine' \in State
       /\ \A m \in blockQ' : m \in blockQ \/ Own(m.block, released')
       /\ \A r \in raised' : r \in raised \/ r.accused # Me
  BY <1>2 DEF IInv, Typing, disputing
<1>12. wakeup' \in BOOLEAN /\ \A x \in timers' : x \in timers \/ x.turn.participant # Me
  BY <1>2, SuccessTimers
<1>13. UNCHANGED <<now, chain>> /\ TaskInv(Idle, forks', released')
  BY <1>2, IdleInv
<1> QED
  BY <1>3, <1>7, <1>8, <1>9, <1>10, <1>11, <1>12, <1>13, MoveStep

(* An order of the blocks that are ready.                                  *)
LEMMA OrdersLemma ==
    ASSUME IInv, NEW q \in Orders(Ready), q # <<>>
    PROVE  /\ Head(q) \in SignedBlock /\ Own(Head(q).block, released)
           /\ Tail(q) \in Seq(SignedBlock)
           /\ \A i \in 1..Len(Tail(q)) : Own(Tail(q)[i].block, released)
<1>1. /\ Ready \subseteq blockQ /\ blockQ \subseteq SignedBlock /\ IsFiniteSet(blockQ)
      /\ \A m \in blockQ : Own(m.block, released)
  BY DEF IInv, Typing, Releases, Ready
<1>2. Cardinality(Ready) \in Nat
  BY <1>1, FS_Subset, FS_CardinalityType
<1>3. PICK n \in Nat : n = Cardinality(Ready)
  BY <1>2
<1>4. q \in [1..n -> Ready]
  BY <1>3 DEF Orders
<1>5. /\ q \in Seq(SignedBlock)
      /\ \A i \in 1..Len(q) : Own(q[i].block, released)
  <2>1. q \in [1..n -> SignedBlock]
    BY <1>1, <1>4
  <2>2. q \in Seq(SignedBlock)
    BY <2>1, SeqDef
  <2>3. \A i \in 1..n : Own(q[i].block, released)
    BY <1>1, <1>4
  <2>4. Len(q) = n
    BY <1>3, <2>1, <2>2
  <2> QED
    BY <2>2, <2>3, <2>4
<1>6. /\ Head(q) \in SignedBlock /\ Head(q) = q[1] /\ 1 \in 1..Len(q)
      /\ Tail(q) \in Seq(SignedBlock)
      /\ \A i \in 1..Len(Tail(q)) : Tail(q)[i] = q[i + 1] /\ i + 1 \in 1..Len(q)
  <2>1. q \in Seq(SignedBlock)
    BY <1>5
  <2> QED
    BY <2>1
<1> QED
  BY <1>5, <1>6

(* The blocks that are ready are dequeued, in some order.                  *)
LEMMA ProcessQueueStep ==
    ASSUME IInv, NEW t \in Tasks, ProcessQueue(t)
    PROVE  IInv' /\ Grown(forks, forks')
<1>1. /\ tasks[t].pc = "idle" /\ wakeup' = FALSE /\ blockQ' = blockQ \ Ready
      /\ UNCHANGED <<now, machine, forks, disputing, released, timers, pendingPosts, chain>>
  BY IdleIsTask DEF ProcessQueue
<1>2. ForksStep /\ SameLengths(forks, forks')
  BY <1>1, ForksStay
<1>3. /\ blockQ' \subseteq SignedBlock /\ IsFiniteSet(blockQ')
      /\ \A m \in blockQ' : m \in blockQ \/ Own(m.block, released')
  <2>1. blockQ' \subseteq blockQ /\ blockQ \subseteq SignedBlock /\ IsFiniteSet(blockQ)
    BY <1>1 DEF IInv, Typing
  <2> QED
    BY <2>1, FS_Subset
<1>4. /\ now' \in Nat /\ machine' \in State /\ nextEvent' \in Nat
      /\ posted' \subseteq Post /\ heard' \subseteq posted' /\ posted' = posted
      /\ released' \subseteq Block
      /\ pendingPosts' \subseteq [block : Block, due : Nat]
      /\ pendingPosts' = pendingPosts /\ released' = released
      /\ timers' = timers /\ wakeup' \in BOOLEAN
      /\ raised' = raised
  BY <1>1 DEF IInv, Typing, disputing, chain
<1>5. CASE UNCHANGED running
  BY <1>2, <1>3, <1>4, <1>5, StayStep
<1>6. CASE \E q \in Orders(Ready) :
              q # <<>> /\ Lock(t, OnSignedBlock(Head(q), Nobody, Tail(q)))
  <2>1. PICK q \in Orders(Ready) :
              q # <<>> /\ Lock(t, OnSignedBlock(Head(q), Nobody, Tail(q)))
    BY <1>6
  <2>2. PICK m \in SignedBlock : m = Head(q) /\ Own(m.block, released)
    BY <2>1, OrdersLemma
  <2>3. PICK rest \in Seq(SignedBlock) :
            rest = Tail(q) /\ \A i \in 1..Len(rest) : Own(rest[i].block, released)
    BY <2>1, OrdersLemma
  <2>4. PICK next : next = OnSignedBlock(m, Nobody, rest)
    OBVIOUS
  <2>5. Nobody \in Addr \cup {Nobody}
    OBVIOUS
  <2>6. next \in Task /\ next.pc = "lock" /\ TaskInv(next, forks, released)
    BY <2>2, <2>3, <2>4, <2>5, OnSignedBlockInv
  <2>7. Lock(t, next)
    BY <2>1, <2>2, <2>3, <2>4
  <2>8. Excludes' /\ Moves(t, next)
    BY <1>1, <2>6, <2>7, InvariantExcludes, LockLemma
  <2>9. TaskInv(next, forks', released') /\ UNCHANGED <<now, chain>>
    BY <1>1, <2>6
  <2>10. released \subseteq released' /\ \A b \in released' : b \in released \/ InChain(b, forks')
    BY <1>4
  <2> QED
    BY <1>2, <1>3, <1>4, <2>8, <2>9, <2>10, MoveStep
<1> QED
  BY <1>5, <1>6 DEF ProcessQueue

(* A step that touches only the disputes and the timers.                   *)
LEMMA DisputeStep ==
    ASSUME IInv, UNCHANGED <<now, agreement, released, running, wakeup, pendingPosts, chain>>,
           \A x \in timers' : x \in timers \/ x.turn.participant # Me,
           \A r \in raised' : r \in raised \/ r.accused # Me
    PROVE  IInv' /\ Grown(forks, forks')
<1>1. /\ UNCHANGED <<now, machine, forks, blockQ, wakeup, pendingPosts>>
      /\ UNCHANGED <<posted, heard, nextEvent>>
      /\ UNCHANGED <<released, running>>
  BY DEF agreement, chain
<1>2. ForksStep /\ SameLengths(forks, forks')
  BY <1>1, ForksStay
<1>3. /\ now' \in Nat /\ machine' \in State /\ nextEvent' \in Nat
      /\ posted' \subseteq Post /\ heard' \subseteq posted' /\ posted' = posted
      /\ blockQ' \subseteq SignedBlock /\ IsFiniteSet(blockQ') /\ blockQ' = blockQ
      /\ pendingPosts' \subseteq pendingPosts /\ wakeup' \in BOOLEAN
  BY <1>1 DEF IInv, Typing
<1> QED
  BY <1>1, <1>2, <1>3, StayStep

(* A timer is not for the peer itself, at whatever stage it is.            *)
LEMMA CheckTimeoutStep ==
    ASSUME IInv, NEW x \in timers, CheckTimeout(x)
    PROVE  IInv' /\ Grown(forks, forks')
<1>1. x.turn.participant # Me
  BY DEF IInv, NotAccused
<1>2. PICK y : y = [x EXCEPT !.stage = "asked"]
  OBVIOUS
<1>3. x.stage = "check"
  BY DEF CheckTimeout
<1>4. y.turn = x.turn
  BY <1>2
<1>5. timers' \subseteq timers \cup {y}
  BY <1>2 DEF CheckTimeout
<1>6. \A z \in timers' : z \in timers \/ z.turn.participant # Me
  BY <1>1, <1>4, <1>5
<1>7. raised' = raised
  BY DEF CheckTimeout, disputing
<1> QED
  BY <1>6, <1>7, DisputeStep DEF CheckTimeout

(* The chain answers a timer.                                              *)
LEMMA TimeoutAnsweredStep ==
    ASSUME IInv, NEW x \in timers, TimeoutAnswered(x)
    PROVE  IInv' /\ Grown(forks, forks')
<1>1. x.turn.participant # Me
  BY DEF IInv, NotAccused
<1>2. PICK ready : ready = TimeoutReady(x.turn.forkCnt)
  OBVIOUS
<1>3. PICK y : y = [x EXCEPT !.stage = "delayed", !.due = ready]
  OBVIOUS
<1>4. y.turn = x.turn
  BY <1>3
<1>5. timers' \subseteq timers \cup {y}
  BY <1>2, <1>3 DEF TimeoutAnswered
<1>6. \A z \in timers' : z \in timers \/ z.turn.participant # Me
  BY <1>1, <1>4, <1>5
<1>7. UNCHANGED disputing \/ DisputeTimeout(x)
  BY DEF TimeoutAnswered
<1>8. \A r \in raised' : r \in raised \/ r.accused # Me
  BY <1>1, <1>7 DEF disputing, DisputeTimeout, CreateDispute, Accusation
<1> QED
  BY <1>6, <1>8, DisputeStep DEF TimeoutAnswered

(* A timer that was delayed runs out.                                      *)
LEMMA DelayedTimeoutStep ==
    ASSUME IInv, NEW x \in timers, DelayedTimeout(x)
    PROVE  IInv' /\ Grown(forks, forks')
<1>1. x.turn.participant # Me
  BY DEF IInv, NotAccused
<1>2. \A z \in timers' : z \in timers \/ z.turn.participant # Me
  BY DEF DelayedTimeout
<1>3. \A r \in raised' : r \in raised \/ r.accused # Me
  BY <1>1 DEF DelayedTimeout, DisputeTimeout, CreateDispute, Accusation
<1> QED
  BY <1>2, <1>3, DisputeStep DEF DelayedTimeout

(* A dispute is heard of.                                                  *)
LEMMA DisputeUpdatedStep ==
    ASSUME IInv, NEW f, DisputeUpdated(f)
    PROVE  IInv' /\ Grown(forks, forks')
<1>1. /\ UNCHANGED <<now, agreement, released, running, wakeup, pendingPosts, chain>>
      /\ timers' = timers /\ raised' = raised
  BY DEF DisputeUpdated, callbacks
<1> QED
  BY <1>1, DisputeStep

(* A step that touches only the time and the chain.                        *)
LEMMA ChainStep ==
    ASSUME IInv, UNCHANGED <<agreement, disputing, released, running, wakeup, timers>>,
           pendingPosts' \subseteq pendingPosts, now' \in Nat, UNCHANGED nextEvent,
           posted' \subseteq Post, heard' \subseteq posted',
           \A p \in posted' : p \in posted \/ Own(p.block, released')
    PROVE  IInv' /\ Grown(forks, forks')
<1>1. /\ UNCHANGED <<machine, forks, blockQ, wakeup, timers, raised>>
      /\ UNCHANGED <<released, running>>
  BY DEF agreement, disputing
<1>2. ForksStep /\ SameLengths(forks, forks')
  BY <1>1, ForksStay
<1>3. /\ machine' \in State /\ nextEvent' \in Nat
      /\ blockQ' \subseteq SignedBlock /\ IsFiniteSet(blockQ') /\ blockQ' = blockQ
      /\ wakeup' \in BOOLEAN /\ timers' = timers /\ raised' = raised
  BY <1>1 DEF IInv, Typing
<1> QED
  BY <1>1, <1>2, <1>3, StayStep

(* A post is added.                                                        *)
LEMMA Posting ==
    ASSUME IInv, NEW b \in Block, Own(b, released), UNCHANGED <<released, heard>>,
           posted' = posted \cup {[block |-> b, timestamp |-> now]}
    PROVE  /\ posted' \subseteq Post /\ heard' \subseteq posted'
           /\ \A p \in posted' : p \in posted \/ Own(p.block, released')
<1>1. PICK x : x = [block |-> b, timestamp |-> now]
  OBVIOUS
<1>2. /\ now \in Nat /\ posted \subseteq Post /\ heard \subseteq posted
      /\ posted' = posted \cup {x}
  BY <1>1 DEF IInv, Typing
<1>3. x \in Post /\ x.block = b
  BY <1>1, <1>2 DEF Post
<1> QED
  BY <1>2, <1>3

(* The peer posts a block of its own.                                      *)
LEMMA MaybePostStep ==
    ASSUME IInv, NEW x \in pendingPosts, MaybePost(x)
    PROVE  IInv' /\ Grown(forks, forks')
<1>1. /\ UNCHANGED <<agreement, disputing, released, running, wakeup, timers>>
      /\ pendingPosts' \subseteq pendingPosts /\ now' = now
      /\ UNCHANGED <<released, heard>> /\ UNCHANGED nextEvent
      /\ posted' = posted \/ posted' = posted \cup {[block |-> x.block, timestamp |-> now]}
  BY DEF MaybePost
<1>2. PICK b \in Block : b = x.block /\ Own(b, released)
  BY DEF IInv, Typing, Releases, Own
<1>3. now' \in Nat
  BY <1>1 DEF IInv, Typing
<1>4. /\ posted' \subseteq Post /\ heard' \subseteq posted'
      /\ \A p \in posted' : p \in posted \/ Own(p.block, released')
  <2>1. CASE posted' = posted
    BY <1>1, <2>1 DEF IInv, Typing
  <2>2. CASE posted' = posted \cup {[block |-> x.block, timestamp |-> now]}
    BY <1>1, <1>2, <2>2, Posting
  <2> QED
    BY <1>1, <2>1, <2>2
<1> QED
  BY <1>1, <1>3, <1>4, ChainStep

(* A peer posts a block of its own.                                        *)
LEMMA PeerPostsStep ==
    ASSUME IInv, NEW m \in Messages, PeerPosts(m)
    PROVE  IInv' /\ Grown(forks, forks')
<1>1. /\ UNCHANGED <<agreement, disputing, released, running, wakeup, timers>>
      /\ pendingPosts' \subseteq pendingPosts /\ now' = now
      /\ UNCHANGED <<released, heard>> /\ UNCHANGED nextEvent
      /\ posted' = posted \cup {[block |-> m.block, timestamp |-> now]}
      /\ m.block.participant # Me
  BY DEF PeerPosts, callbacks
<1>2. PICK b \in Block : b = m.block
  BY InputsAssumption DEF SignedBlock
<1>3. Own(b, released)
  BY <1>1, <1>2 DEF Own
<1>4. now' \in Nat
  BY <1>1 DEF IInv, Typing
<1>5. /\ posted' \subseteq Post /\ heard' \subseteq posted'
      /\ \A p \in posted' : p \in posted \/ Own(p.block, released')
  BY <1>1, <1>2, <1>3, Posting
<1> QED
  BY <1>1, <1>4, <1>5, ChainStep

(* Time passes.                                                            *)
LEMMA TickStep ==
    ASSUME IInv, Tick
    PROVE  IInv' /\ Grown(forks, forks')
<1>1. /\ UNCHANGED <<agreement, disputing, released, running, wakeup, timers>>
      /\ pendingPosts' \subseteq pendingPosts /\ now' = now + 1
      /\ UNCHANGED <<posted, heard>> /\ UNCHANGED nextEvent
  BY DEF Tick, callbacks, chain
<1>2. now' \in Nat
  BY <1>1 DEF IInv, Typing
<1>3. posted' \subseteq Post /\ heard' \subseteq posted' /\ posted' = posted
  BY <1>1 DEF IInv, Typing
<1> QED
  BY <1>1, <1>2, <1>3, ChainStep

(* A settled state opens a fork, or is dropped.                            *)
LEMMA SetStateStep ==
    ASSUME IInv, NEW e \in Settlements, SetState(e)
    PROVE  IInv' /\ Grown(forks, forks')
<1>1. /\ machine' = e.state /\ forks' = WithFork(nextEvent, e.state, e.timestamp)
      /\ OnSuccess /\ nextEvent' = nextEvent + 1
      /\ UNCHANGED <<now, blockQ, disputing, released, running, pendingPosts, posted, heard>>
  BY DEF SetState, HearSettlement
<1>2. e.state \in State /\ e.timestamp \in Nat
  BY InputsAssumption DEF Settlement
<1>3. forks \in Seq(ForkRecord) /\ Ordered(forks) /\ nextEvent \in Nat
  BY DEF IInv, Typing
<1>4. ForksStep /\ SameLengths(forks, forks')
  BY <1>1, <1>2, <1>3, WithForkLemma DEF ForksStep
<1>5. wakeup' \in BOOLEAN /\ \A x \in timers' : x \in timers \/ x.turn.participant # Me
  BY <1>1, SuccessTimers
<1>6. /\ now' \in Nat /\ machine' \in State /\ nextEvent' \in Nat
      /\ posted' \subseteq Post /\ heard' \subseteq posted' /\ posted' = posted
      /\ blockQ' \subseteq SignedBlock /\ IsFiniteSet(blockQ') /\ blockQ' = blockQ
      /\ pendingPosts' \subseteq pendingPosts /\ raised' = raised
  BY <1>1, <1>2, <1>3 DEF IInv, Typing, disputing
<1> QED
  BY <1>1, <1>4, <1>5, <1>6, StayStep

(* A post that is heard.                                                   *)
LEMMA Heard ==
    ASSUME IInv, NEW p \in posted, Hear(p)
    PROVE  /\ p \in Post /\ p.block \in Block /\ Own(p.block, released)
           /\ [signer |-> p.block.participant, block |-> p.block] \in SignedBlock
           /\ heard' \subseteq posted
<1>1. p \in Post /\ Own(p.block, released) /\ heard' \subseteq posted
  BY DEF IInv, Typing, Releases, Hear
<1>2. p.block \in Block
  BY <1>1 DEF Post
<1>3. p.block.participant \in Addr
  BY <1>2 DEF Block
<1> QED
  BY <1>1, <1>2, <1>3 DEF SignedBlock

(* The event of a post is handled.                                         *)
LEMMA CollectBlockStep ==
    ASSUME IInv, NEW p \in posted, CollectBlock(p)
    PROVE  IInv' /\ Grown(forks, forks')
<1>1. PICK b : b = p.block
  OBVIOUS
<1>2. PICK m : m = [signer |-> b.participant, block |-> b]
  OBVIOUS
<1>3. /\ Hear(p) /\ IsValidForkCnt(b.forkCnt) /\ machine' = machine /\ OnSuccess
      /\ UNCHANGED <<now, released, running, pendingPosts, posted, nextEvent>>
  BY <1>1 DEF CollectBlock
<1>4. /\ p \in Post /\ b \in Block /\ Own(b, released) /\ m \in SignedBlock
      /\ m.block = b /\ heard' \subseteq posted
  BY <1>1, <1>2, <1>3, Heard
<1>5. /\ blockQ' = blockQ \/ blockQ' = Queued(m)
      /\ forks' = forks \/ forks' = WithChainBlock(p)
      /\ \/ UNCHANGED disputing
         \/ ~IsBlockDuplicate(b) /\ (DisputeConflict(b) \/ DisputeIncorrectData(b))
  BY <1>1, <1>2 DEF CollectBlock
<1>6. ForksStep /\ SameLengths(forks, forks')
  <2>1. CASE forks' = forks
    BY <2>1, ForksStay
  <2>2. CASE forks' = WithChainBlock(p)
    BY <1>1, <1>3, <1>4, <2>2, WithChainBlockLemma DEF IInv, Typing, ForksStep
  <2> QED
    BY <1>5, <2>1, <2>2
<1>7. /\ blockQ' \subseteq SignedBlock /\ IsFiniteSet(blockQ')
      /\ \A q \in blockQ' : q \in blockQ \/ Own(q.block, released')
  <2>1. CASE blockQ' = blockQ
    BY <2>1 DEF IInv, Typing
  <2>2. CASE blockQ' = Queued(m)
    BY <1>3, <1>4, <2>2, QueuedStep
  <2> QED
    BY <1>5, <2>1, <2>2
<1>8. \A r \in raised' : r \in raised \/ r.accused # Me
  <2>1. CASE UNCHANGED disputing
    BY <2>1 DEF disputing
  <2>2. CASE ~IsBlockDuplicate(b) /\ (DisputeConflict(b) \/ DisputeIncorrectData(b))
    <3>1. ~InChain(b, forks)
      BY <2>2, InChainIsIsBlockInChain DEF IsBlockDuplicate
    <3>2. b.participant # Me
      BY <1>4, <3>1, Stranger
    <3> QED
      BY <2>2, <3>2, Accused
  <2> QED
    BY <1>5, <2>1, <2>2
<1>9. wakeup' \in BOOLEAN /\ \A x \in timers' : x \in timers \/ x.turn.participant # Me
  BY <1>3, SuccessTimers
<1>10. /\ now' \in Nat /\ machine' \in State /\ nextEvent' \in Nat
       /\ posted' \subseteq Post /\ heard' \subseteq posted' /\ posted' = posted
       /\ pendingPosts' \subseteq pendingPosts
  BY <1>3, <1>4 DEF IInv, Typing
<1> QED
  BY <1>3, <1>6, <1>7, <1>8, <1>9, <1>10, StayStep

(* The event of a post is handled, and the handler throws.                 *)
LEMMA CollectThrowsStep ==
    ASSUME IInv, NEW p \in posted, CollectThrows(p)
    PROVE  IInv' /\ Grown(forks, forks')
<1>1. PICK b : b = p.block
  OBVIOUS
<1>2. PICK m : m = [signer |-> b.participant, block |-> b]
  OBVIOUS
<1>3. /\ Hear(p)
      /\ UNCHANGED <<now, machine, forks, disputing, released, running, callbacks>>
      /\ UNCHANGED <<posted, nextEvent>>
      /\ blockQ' = blockQ \/ blockQ' = Queued(m)
  BY <1>1, <1>2 DEF CollectThrows
<1>4. /\ b \in Block /\ Own(b, released) /\ m \in SignedBlock
      /\ m.block = b /\ heard' \subseteq posted
  BY <1>1, <1>2, <1>3, Heard
<1>5. ForksStep /\ SameLengths(forks, forks')
  BY <1>3, ForksStay
<1>6. /\ blockQ' \subseteq SignedBlock /\ IsFiniteSet(blockQ')
      /\ \A q \in blockQ' : q \in blockQ \/ Own(q.block, released')
  <2>1. CASE blockQ' = blockQ
    BY <2>1 DEF IInv, Typing
  <2>2. CASE blockQ' = Queued(m)
    BY <1>3, <1>4, <2>2, QueuedStep
  <2> QED
    BY <1>3, <2>1, <2>2
<1>7. /\ now' \in Nat /\ machine' \in State /\ nextEvent' \in Nat
      /\ posted' \subseteq Post /\ heard' \subseteq posted' /\ posted' = posted
      /\ pendingPosts' \subseteq pendingPosts /\ wakeup' \in BOOLEAN
      /\ timers' = timers /\ raised' = raised
  BY <1>3, <1>4 DEF IInv, Typing, disputing, callbacks
<1> QED
  BY <1>3, <1>5, <1>6, <1>7, StayStep

-----------------------------------------------------------------------------
(* The theorems.                                                           *)

(* The invariant holds before anything happens.                            *)
LEMMA InitialInvariant == Init => IInv
<1> SUFFICES ASSUME Init PROVE IInv
  OBVIOUS
<1>1. /\ forks = <<>> /\ released = {} /\ blockQ = {} /\ posted = {} /\ heard = {}
      /\ pendingPosts = {} /\ raised = {} /\ timers = {}
      /\ now = 0 /\ machine = NoState /\ nextEvent = FirstFork /\ wakeup = FALSE
      /\ mutex = [isLocked |-> FALSE, queue |-> <<>>]
      /\ tasks = [t \in Tasks |-> Idle]
  BY DEF Init
<1>2. /\ forks \in Seq(ForkRecord) /\ Len(forks) = 0
  BY <1>1
<1>3. machine \in State /\ FirstFork \in Nat
  BY <1>1, ClientBoundsAssumption DEF State, NoState
<1>4. mutex \in [isLocked : BOOLEAN, queue : Seq(Tasks)] /\ DOMAIN mutex.queue = {}
  <2>1. <<>> \in Seq(Tasks) /\ DOMAIN <<>> = {}
    OBVIOUS
  <2> QED
    BY <1>1, <2>1
<1>5. tasks \in [Tasks -> Task] /\ \A t \in Tasks : tasks[t].pc = "idle"
  BY <1>1, IdleIsTask
<1>6. Typing
  BY <1>1, <1>2, <1>3, <1>4, <1>5, FS_EmptySet DEF Typing
<1>7. LockDiscipline
  BY <1>4, <1>5 DEF LockDiscipline, Holding, Waiting
<1>8. Ordered(forks)
  BY <1>2 DEF Ordered
<1>9. Releases /\ NotAccused
  BY <1>1 DEF Releases, NotAccused
<1>10. \A t \in Tasks : TaskInv(tasks[t], forks, released)
  BY <1>1, IdleInv
<1> QED
  BY <1>6, <1>7, <1>8, <1>9, <1>10 DEF IInv

(* Every action keeps the invariant, and forks grow.                       *)
LEMMA NextKeepsInvariant ==
    ASSUME IInv, Next
    PROVE  IInv' /\ Grown(forks, forks')
<1>1. CASE \E t \in Tasks : Validate(t)
  <2> PICK t \in Tasks : Validate(t)
    BY <1>1
  <2> QED
    BY IgnoreBlockStep, IgnoreDuplicateStep, QueueBlockStep, RejectConflictStep,
       RejectBlockStep, RejectExecutedStep, RejectFutureStep, AskChainStep,
       AcceptBlockStep, AcceptUnseenStep DEF Validate
<1>2. CASE \E t \in Tasks : Confirm(t)
  BY <1>2, ConfirmBlockStep, ConfirmThrowsStep DEF Confirm
<1>3. CASE \E t \in Tasks : Author(t)
  BY <1>3, PlayRefusedStep, PlayAppliedStep, PlaySealedStep, PlayThrowsStep DEF Author
<1>4. CASE Callback
  BY <1>4, ProcessQueueStep, CheckTimeoutStep, TimeoutAnsweredStep, DelayedTimeoutStep,
     MaybePostStep DEF Callback
<1>5. CASE Event
  BY <1>5, SetStateStep, DisputeUpdatedStep, CollectBlockStep, CollectThrowsStep DEF Event
<1>6. CASE Environment
  BY <1>6, ReceiveBlockStep, ReceiveConfirmationStep, PlayStep, PeerPostsStep, TickStep
     DEF Environment
<1> QED
  BY <1>1, <1>2, <1>3, <1>4, <1>5, <1>6 DEF Next, Step

(* So does no action at all.                                               *)
LEMMA StutterKeepsInvariant ==
    ASSUME IInv, UNCHANGED vars
    PROVE  IInv' /\ Grown(forks, forks')
<1>1. /\ UNCHANGED <<agreement, disputing, released, running, wakeup, timers>>
      /\ pendingPosts' \subseteq pendingPosts /\ now' = now
      /\ UNCHANGED <<posted, heard, nextEvent>>
  BY DEF vars, callbacks, chain
<1>2. /\ now' \in Nat /\ posted' \subseteq Post /\ heard' \subseteq posted'
      /\ posted' = posted /\ UNCHANGED nextEvent
  BY <1>1 DEF IInv, Typing
<1> QED
  BY <1>1, <1>2, ChainStep

(* The invariant that is inductive holds of every behaviour of the client. *)
THEOREM Invariance == Spec => []IInv
<1>1. Init => IInv
  BY InitialInvariant
<1>2. IInv /\ [Next]_vars => IInv'
  BY NextKeepsInvariant, StutterKeepsInvariant
<1> QED
  BY <1>1, <1>2, PTL DEF Spec

(* Whatever arrives while calls wait for the mutex, the chain or the       *)
(* signer, every fork's chain has the block of height h at place h         *)
(* (ForkService.addBlock indexes the agreements by height).                *)
THEOREM ChainInOrderHolds == Spec => []ChainInOrder
<1>1. ASSUME IInv PROVE ChainInOrder
  <2>1. ASSUME NEW f \in 0..(Len(forks) - 1), NEW h \in 0..(Len(Fork(f).agreements) - 1)
        PROVE  /\ AgreementAt(f, h).block.forkCnt = f
               /\ AgreementAt(f, h).block.transactionCnt = h
    <3>1. PICK i \in 1..Len(forks) : i = f + 1
      BY <1>1, <2>1 DEF IInv, Typing
    <3>2. PICK r \in ForkRecord : r = forks[i]
      BY <1>1, ElementOf DEF IInv, Typing
    <3>3. Len(r.agreements) \in Nat
      BY <3>2 DEF ForkRecord
    <3>4. PICK j \in 1..Len(r.agreements) : j = h + 1
      BY <2>1, <3>1, <3>2, <3>3 DEF Fork
    <3>5. AgreementAt(f, h) = forks[i].agreements[j]
      BY <3>1, <3>4 DEF AgreementAt, Fork
    <3>6. /\ forks[i].agreements[j].block.forkCnt = i - 1
          /\ forks[i].agreements[j].block.transactionCnt = j - 1
      BY <1>1, <3>2 DEF IInv, Ordered
    <3> QED
      BY <2>1, <3>1, <3>4, <3>5, <3>6
  <2> QED
    BY <2>1 DEF ChainInOrder
<1> QED
  BY <1>1, Invariance, PTL

(* Whoever sends a block, and whatever happens between its execution and   *)
(* its signature, a block is only agreed to where it is its author's turn  *)
(* and leads to the state it claims (processStateTransition,               *)
(* playTransaction).                                                       *)
THEOREM AgreedBlocksExecuteHolds == Spec => []AgreedBlocksExecute
<1>1. ASSUME IInv PROVE AgreedBlocksExecute
  <2>1. ASSUME NEW f \in 0..(Len(forks) - 1), NEW h \in 0..(Len(Fork(f).agreements) - 1)
        PROVE  /\ Faithful(AgreementAt(f, h).block)
               /\ AgreementAt(f, h).state = AgreementAt(f, h).block.state
    <3>1. PICK i \in 1..Len(forks) : i = f + 1
      BY <1>1, <2>1 DEF IInv, Typing
    <3>2. PICK r \in ForkRecord : r = forks[i]
      BY <1>1, ElementOf DEF IInv, Typing
    <3>3. Len(r.agreements) \in Nat
      BY <3>2 DEF ForkRecord
    <3>4. PICK j \in 1..Len(r.agreements) : j = h + 1
      BY <2>1, <3>1, <3>2, <3>3 DEF Fork
    <3>5. AgreementAt(f, h) = forks[i].agreements[j]
      BY <3>1, <3>4 DEF AgreementAt, Fork
    <3> QED
      BY <1>1, <3>2, <3>5 DEF IInv, Ordered
  <2> QED
    BY <2>1 DEF AgreedBlocksExecute, Faithful
<1> QED
  BY <1>1, Invariance, PTL

(* However calls interleave, the peer never signs two blocks of one fork   *)
(* and height, neither by confirming after it wrote nor by writing after   *)
(* it confirmed (ConfirmBlock, PlaySealed).                                *)
THEOREM NeverDoubleSignsHolds == Spec => []NeverDoubleSigns
<1>1. IInv => NeverDoubleSigns
  BY DEF IInv, Releases, InChain, NeverDoubleSigns
<1> QED
  BY <1>1, Invariance, PTL

(* What the peer signed stays in its chain, and it never accuses itself,   *)
(* whatever is posted, echoed or timed out (CollectBlock, DisputeConflict, *)
(* DisputeTimeout).                                                        *)
THEOREM StandsByItsBlocksHolds == Spec => []StandsByItsBlocks
<1>1. IInv => StandsByItsBlocks
  BY InChainIsIsBlockInChain DEF IInv, Releases, NotAccused, StandsByItsBlocks
<1> QED
  BY <1>1, Invariance, PTL

(* The mutex excludes, whatever ends a call: one call at most is between   *)
(* lock and unlock, and the calls that wait are the queue, each once       *)
(* (Mutex.lock, Mutex.unlock).                                             *)
THEOREM LockDisciplineHolds == Spec => []LockDiscipline
<1>1. IInv => LockDiscipline
  BY DEF IInv
<1> QED
  BY <1>1, Invariance, PTL

-----------------------------------------------------------------------------
(* The rest of the types.  The application names a writer that is an       *)
(* address, the zero address where it knows none.                          *)

WritersAreAddresses == \A s \in State : NextToWrite(s) \in Addr \cup {Nobody}

Timer == [turn : Turns, due : Nat, stage : {"check", "asked", "delayed"}]

DisputesTyped ==
    disputedForks \subseteq Nat /\ disputes \subseteq Nat /\ raised \subseteq Accusations

(* A timer that has asked the chain is of a fork that is there.            *)
TimersTyped ==
    /\ timers \subseteq Timer
    /\ \A x \in timers : x.stage # "check" => x.turn.forkCnt < Len(forks)

(* A dispute that is created is typed.                                     *)
LEMMA CreateDisputeTyped ==
    ASSUME DisputesTyped, NEW f \in Nat, NEW r \in Accusations, CreateDispute(f, r)
    PROVE  DisputesTyped'
BY DEF DisputesTyped, CreateDispute

(* So is the dispute of a block.                                           *)
LEMMA BlockDisputeTyped ==
    ASSUME DisputesTyped, NEW b \in Block,
           UNCHANGED disputing \/ DisputeConflict(b) \/ DisputeIncorrectData(b)
    PROVE  DisputesTyped'
<1>1. b.forkCnt \in Nat /\ b.transactionCnt \in Nat /\ b.participant \in Addr \cup {Nobody}
  BY DEF Block
<1>2. /\ Accusation("DoubleSign", b.forkCnt, b.transactionCnt, b.participant) \in Accusations
      /\ Accusation("IncorrectData", b.forkCnt, b.transactionCnt, b.participant) \in Accusations
  BY <1>1 DEF Accusation, Accusations
<1>3. CASE UNCHANGED disputing
  BY <1>3 DEF DisputesTyped, disputing
<1>4. CASE ~UNCHANGED disputing
  <2>1. \E r \in Accusations : CreateDispute(b.forkCnt, r)
    BY <1>2, <1>4 DEF DisputeConflict, DisputeDoubleSign, DisputeIncorrectData
  <2> QED
    BY <1>1, <2>1, CreateDisputeTyped
<1> QED
  BY <1>3, <1>4

(* Timers run out, while the forks grow.                                   *)
LEMMA FewerTimersTyped ==
    ASSUME IInv, IInv', Grown(forks, forks'), TimersTyped, timers' \subseteq timers
    PROVE  TimersTyped'
<1>1. Len(forks) <= Len(forks') /\ Len(forks) \in Nat /\ Len(forks') \in Nat
  BY DEF Grown, IInv, Typing
<1>2. \A x \in timers : x.turn.forkCnt \in Nat
  BY DEF TimersTyped, Timer, Turns
<1> QED
  BY <1>1, <1>2 DEF TimersTyped

(* The turn a timer is set for is one.                                     *)
LEMMA NextTurnTyped ==
    ASSUME IInv', WritersAreAddresses
    PROVE  Turn' \in Turns
<1>1. forks' \in Seq(ForkRecord) /\ machine' \in State
  BY DEF IInv, Typing
<1>2. LatestForkCnt' \in Nat /\ NextBlockHeight' \in Nat
  <2>1. CASE forks' = <<>>
    BY <2>1 DEF LatestForkCnt, NextBlockHeight
  <2>2. CASE forks' # <<>>
    <3>1. PICK k \in 1..Len(forks') : k = Len(forks')
      BY <1>1, <2>2
    <3>2. LatestForkCnt' = k - 1 /\ LatestForkCnt' + 1 = k
      BY <1>1, <2>2, <3>1 DEF LatestForkCnt
    <3>3. forks'[k] \in ForkRecord
      BY <1>1, <3>1, ElementOf
    <3>4. Len(forks'[k].agreements) \in Nat
      BY <3>3 DEF ForkRecord
    <3>5. NextBlockHeight' = Len(forks'[k].agreements)
      BY <2>2, <3>2 DEF NextBlockHeight, Fork
    <3> QED
      BY <3>1, <3>2, <3>4, <3>5
  <2> QED
    BY <2>1, <2>2
<1>3. Writer' \in Addr \cup {Nobody}
  BY <1>1 DEF WritersAreAddresses, Writer
<1> QED
  BY <1>2, <1>3 DEF Turn, Turns

(* onSuccessCommon sets a typed timer.                                     *)
LEMMA SuccessTimersTyped ==
    ASSUME IInv, IInv', Grown(forks, forks'), WritersAreAddresses, TimersTyped, OnSuccess
    PROVE  TimersTyped'
<1>1. PICK x : x = [turn |-> Turn', due |-> now + TimeoutWaitTime, stage |-> "check"]
  OBVIOUS
<1>2. now + TimeoutWaitTime \in Nat
  <2>1. now \in Nat
    BY DEF IInv, Typing
  <2>2. TimeoutWaitTime \in Nat
    BY ClientTimesAssumption DEF TimeoutWaitTime
  <2> QED
    BY <2>1, <2>2
<1>3. x \in Timer /\ x.stage = "check"
  BY <1>1, <1>2, NextTurnTyped DEF Timer
<1>4. timers' \subseteq timers \cup {x}
  BY <1>1 DEF OnSuccess, TryTimeoutNext, ScheduleTask
<1>5. Len(forks) <= Len(forks') /\ Len(forks) \in Nat /\ Len(forks') \in Nat
  BY DEF Grown, IInv, Typing
<1>6. \A y \in timers : y.turn.forkCnt \in Nat
  BY DEF TimersTyped, Timer, Turns
<1> QED
  BY <1>3, <1>4, <1>5, <1>6 DEF TimersTyped

(* A timer goes on to its next stage.                                      *)
LEMMA StageTyped ==
    ASSUME TimersTyped, UNCHANGED forks, NEW x \in timers, x.turn.forkCnt < Len(forks),
           NEW y, \/ y = [x EXCEPT !.stage = "asked"]
                  \/ \E due \in Nat : y = [x EXCEPT !.stage = "delayed", !.due = due],
           timers' \subseteq timers \cup {y}
    PROVE  TimersTyped'
<1>1. x \in Timer
  BY DEF TimersTyped
<1>2. y \in Timer /\ y.turn = x.turn
  BY <1>1 DEF Timer
<1> QED
  BY <1>2 DEF TimersTyped

(* The accusation of a timer is typed.                                     *)
LEMMA TimeoutAccusation ==
    ASSUME TimersTyped, DisputesTyped, NEW x \in timers,
           DisputeTimeout(x) \/ UNCHANGED disputing
    PROVE  DisputesTyped'
<1>1. x.turn \in Turns
  BY DEF TimersTyped, Timer
<1>2. /\ x.turn.forkCnt \in Nat /\ x.turn.transactionCnt \in Nat
      /\ x.turn.participant \in Addr \cup {Nobody}
  BY <1>1 DEF Turns
<1>3. Accusation("Timeout", x.turn.forkCnt, x.turn.transactionCnt, x.turn.participant)
         \in Accusations
  BY <1>2 DEF Accusation, Accusations
<1>4. CASE DisputeTimeout(x)
  BY <1>2, <1>3, <1>4, CreateDisputeTyped DEF DisputeTimeout
<1>5. CASE UNCHANGED disputing
  BY <1>5 DEF disputing, DisputesTyped
<1> QED
  BY <1>4, <1>5

(* The disputes of the steps of a call.                                    *)
LEMMA CallDisputesTyped ==
    ASSUME IInv, DisputesTyped, NEW t \in Tasks, Step(t)
    PROVE  DisputesTyped'
<1>1. PICK b : b = tasks[t].msg.block
  OBVIOUS
<1>2. TaskInv(tasks[t], forks, released) /\ forks \in Seq(ForkRecord)
  BY DEF IInv, Typing
<1>3. tasks[t].pc # "idle" => b \in Block
  BY <1>1, <1>2 DEF TaskInv, SignedBlock
<1>4. CASE RejectConflict(t) \/ RejectBlock(t) \/ RejectExecuted(t)
  <2>1. DisputeConflict(b) \/ DisputeIncorrectData(b)
    BY <1>1, <1>4 DEF RejectConflict, RejectBlock, RejectExecuted
  <2>2. tasks[t].pc # "idle"
    BY <1>4 DEF RejectConflict, RejectBlock, RejectExecuted, Outcome, Decides, Answered
  <2> QED
    BY <1>3, <2>1, <2>2, BlockDisputeTyped
<1>5. CASE RejectFuture(t)
  <2>1. b \in Block
    BY <1>3, <1>5 DEF RejectFuture, Outcome, Decides, Answered
  <2>2. b.forkCnt \in Nat /\ b.transactionCnt \in Nat /\ b.participant \in Addr \cup {Nobody}
    BY <2>1 DEF Block
  <2>3. Accusation("BlockTooFarInFuture", b.forkCnt, b.transactionCnt, b.participant)
           \in Accusations
    BY <2>2 DEF Accusation, Accusations
  <2>4. LatestForkCnt \in Nat
    BY <1>2, LatestFork
  <2> QED
    BY <1>1, <1>5, <2>3, <2>4, CreateDisputeTyped DEF RejectFuture
<1>6. CASE UNCHANGED disputing
  BY <1>6 DEF DisputesTyped, disputing
<1>7. UNCHANGED disputing \/ RejectConflict(t) \/ RejectBlock(t) \/ RejectExecuted(t)
        \/ RejectFuture(t)
  BY DEF Step, Validate, Confirm, Author, IgnoreBlock, IgnoreDuplicate, QueueBlock,
         AskChain, AcceptBlock, AcceptUnseen, ConfirmBlock, ConfirmThrows, PlayRefused,
         PlayApplied, PlaySealed, PlayThrows
<1> QED
  BY <1>4, <1>5, <1>6, <1>7

(* Every action keeps the types of the disputes and the timers.            *)
LEMMA TypesKept ==
    ASSUME IInv, IInv', Grown(forks, forks'), WritersAreAddresses,
           DisputesTyped, TimersTyped, [Next]_vars
    PROVE  DisputesTyped' /\ TimersTyped'
<1>1. CASE \E t \in Tasks : Step(t)
  <2>1. PICK t \in Tasks : Step(t)
    BY <1>1
  <2>2. timers' = timers \/ OnSuccess
    BY <2>1 DEF Step, Validate, Confirm, Author, IgnoreBlock, IgnoreDuplicate, QueueBlock,
         RejectConflict, RejectBlock, RejectExecuted, RejectFuture,
         AskChain, AcceptBlock, AcceptUnseen, ConfirmBlock, ConfirmThrows, PlayRefused,
         PlayApplied, PlaySealed, PlayThrows, callbacks
  <2>3. TimersTyped'
    BY <2>2, FewerTimersTyped, SuccessTimersTyped
  <2> QED
    BY <2>1, <2>3, CallDisputesTyped
<1>2. ASSUME NEW x \in timers, CheckTimeout(x)
      PROVE  DisputesTyped' /\ TimersTyped'
  <2>1. UNCHANGED disputing /\ UNCHANGED forks
    BY <1>2 DEF CheckTimeout, agreement
  <2>2. CASE TimeoutDue(x)
    <3>1. PICK y : y = [x EXCEPT !.stage = "asked"]
      OBVIOUS
    <3>2. x.turn.forkCnt < Len(forks)
      BY <2>2 DEF TimeoutDue, IsValidForkCnt
    <3>3. timers' \subseteq timers \cup {y}
      BY <1>2, <3>1 DEF CheckTimeout
    <3> QED
      BY <2>1, <3>1, <3>2, <3>3, StageTyped DEF DisputesTyped, disputing
  <2>3. CASE ~TimeoutDue(x)
    <3>1. timers' \subseteq timers
      BY <1>2, <2>3 DEF CheckTimeout
    <3> QED
      BY <2>1, <3>1, FewerTimersTyped DEF DisputesTyped, disputing
  <2> QED
    BY <2>2, <2>3
<1>3. ASSUME NEW x \in timers, TimeoutAnswered(x)
      PROVE  DisputesTyped' /\ TimersTyped'
  <2>1. UNCHANGED forks /\ x.stage = "asked" /\ (DisputeTimeout(x) \/ UNCHANGED disputing)
    BY <1>3 DEF TimeoutAnswered, agreement
  <2>2. DisputesTyped'
    BY <2>1, TimeoutAccusation
  <2>3. x \in Timer /\ x.turn.forkCnt < Len(forks)
    BY <2>1 DEF TimersTyped
  <2>4. x.turn.forkCnt \in Nat
    BY <2>3 DEF Timer, Turns
  <2>5. PICK ready \in Nat : ready = TimeoutReady(x.turn.forkCnt)
    <3>1. LatestBlockTimestamp(x.turn.forkCnt) \in Nat
      BY <2>3, <2>4, TimestampIsNat DEF IInv, Typing
    <3> QED
      BY <3>1, ClientTimesAssumption DEF TimeoutReady, TimeoutWaitTime
  <2>6. PICK y : y = [x EXCEPT !.stage = "delayed", !.due = ready]
    OBVIOUS
  <2>7. timers' \subseteq timers \cup {y}
    BY <1>3, <2>5, <2>6 DEF TimeoutAnswered
  <2> QED
    BY <2>1, <2>2, <2>3, <2>6, <2>7, StageTyped
<1>4. ASSUME NEW x \in timers, DelayedTimeout(x)
      PROVE  DisputesTyped' /\ TimersTyped'
  <2>1. DisputeTimeout(x) /\ timers' \subseteq timers
    BY <1>4 DEF DelayedTimeout
  <2> QED
    BY <2>1, TimeoutAccusation, FewerTimersTyped
<1>5. CASE \/ \E t \in Tasks : ProcessQueue(t)
           \/ \E x \in pendingPosts : MaybePost(x)
           \/ Environment \/ UNCHANGED vars
  <2>1. UNCHANGED disputing /\ timers' = timers
    BY <1>5 DEF ProcessQueue, MaybePost, Environment, ReceiveBlock, ReceiveConfirmation,
                Play, PeerPosts, Tick, vars, callbacks
  <2> QED
    BY <2>1, FewerTimersTyped DEF DisputesTyped, disputing
<1>6. CASE \E e \in Settlements : SetState(e)
  <2>1. UNCHANGED disputing /\ OnSuccess
    BY <1>6 DEF SetState
  <2> QED
    BY <2>1, SuccessTimersTyped DEF DisputesTyped, disputing
<1>7. CASE \E f \in 0..MaxFork : DisputeUpdated(f)
  <2>1. PICK f \in 0..MaxFork : DisputeUpdated(f)
    BY <1>7
  <2>2. f \in Nat
    BY ClientBoundsAssumption
  <2>3. DisputesTyped'
    BY <2>1, <2>2 DEF DisputeUpdated, DisputesTyped
  <2> QED
    BY <2>1, <2>3, FewerTimersTyped DEF DisputeUpdated, callbacks
<1>8. CASE \E p \in posted : CollectBlock(p) \/ CollectThrows(p)
  <2>1. PICK p \in posted : CollectBlock(p) \/ CollectThrows(p)
    BY <1>8
  <2>2. PICK b \in Block : b = p.block
    BY DEF IInv, Typing, Post
  <2>3. UNCHANGED disputing \/ DisputeConflict(b) \/ DisputeIncorrectData(b)
    BY <2>1, <2>2 DEF CollectBlock, CollectThrows
  <2>4. timers' = timers \/ OnSuccess
    BY <2>1 DEF CollectBlock, CollectThrows, callbacks
  <2> QED
    BY <2>3, <2>4, BlockDisputeTyped, FewerTimersTyped, SuccessTimersTyped
<1> QED
  BY <1>1, <1>2, <1>3, <1>4, <1>5, <1>6, <1>7, <1>8 DEF Next, Callback, Event

(* The variables keep their types: nothing is accused, timed, queued or    *)
(* agreed to that is not a block, a participant or a time.                 *)
THEOREM TypeOKHolds == ASSUME WritersAreAddresses PROVE Spec => []TypeOK
<1> DEFINE TInv == IInv /\ DisputesTyped /\ TimersTyped
<1>1. Init => TInv
  BY InitialInvariant DEF Init, DisputesTyped, TimersTyped
<1>2. TInv /\ [Next]_vars => TInv'
  BY TypesKept, NextKeepsInvariant, StutterKeepsInvariant
<1>3. TInv => TypeOK
  <2>1. IInv => \A t \in Tasks : tasks[t].pc # "idle" => tasks[t].msg \in SignedBlock
    BY DEF IInv, TaskInv
  <2> QED
    BY <2>1 DEF IInv, Typing, DisputesTyped, TimersTyped, Accusations, Timer, TypeOK
<1> QED
  BY <1>1, <1>2, <1>3, PTL DEF Spec

=============================================================================
