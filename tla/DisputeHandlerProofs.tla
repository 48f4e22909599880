------------------------ MODULE DisputeHandlerProofs ------------------------
(***************************************************************************)
(* What holds of DisputeHandler, the clients composed with the contracts,  *)
(* for every value of its constants.                                       *)
(***************************************************************************)
EXTENDS DisputeHandler, WellFoundedInduction, SequenceTheorems, TLAPS

(* AStateMachine.getNextToWrite returns an address.                        *)
WritersAreAddresses == \A s \in State : NextToWrite(s) \in Addr \cup {Nobody}

-----------------------------------------------------------------------------
(* The inductive invariant.                                                *)

(* What a block of a chain starts from.                                    *)
StateBefore(f, chain, h) ==
    IF h = 1 THEN Contract!Genesis(f) ELSE chain[h - 1].block.state

TimeBefore(f, chain, h) ==
    IF h = 1 THEN genesisTimestamps[f] ELSE chain[h - 1].block.timestamp

(* Everybody recorded as a signer of an entry, its author among them, has  *)
(* signed it.                                                              *)
Vouched(entry) ==
    /\ entry.block.participant \in entry.signers
    /\ \A a \in entry.signers : Contract!SignedBy(a, entry.block)

(* A block of a chain extends the one before it as execution says.         *)
Follows(p, f, chain, h) ==
    LET b == chain[h].block IN
    /\ b.forkCnt = f /\ b.transactionCnt + 1 = h
    /\ b.previousState = StateBefore(f, chain, h)
    /\ b.participant = NextToWrite(b.previousState)
    /\ b.state = Executed(b.previousState, b)
    /\ b.timestamp >= TimeBefore(f, chain, h)
    /\ p # b.participant => Contract!IsGoodTimestamp(TimeBefore(f, chain, h), b)

(* Execution only adds, so that a chain that is back in its genesis state  *)
(* never left it.                                                          *)
Grown(f, b) ==
    /\ b.state.participants = Contract!Genesis(f).participants
    /\ b.state.number >= Contract!Genesis(f).number

(* The client confirmed all blocks of a chain but perhaps the last.        *)
ChainOK(p, f, chain) ==
    /\ Len(chain) <= MaxVotes
    /\ \A h \in 1..Len(chain) :
          /\ Vouched(chain[h])
          /\ Follows(p, f, chain, h)
          /\ Grown(f, chain[h].block)
          /\ h < Len(chain) => p \in chain[h].signers

ForksOK(p) ==
    /\ Len(forks[p]) <= latestFork + 1
    /\ forks[p] # <<>> => Contract!IsChannelOpen
    /\ \A f \in 1..Len(forks[p]) : ChainOK(p, f - 1, forks[p][f])

(* A client signs what it has in a chain, and remembers that it did.       *)
SignedOK == \A p \in Honest, b \in Blocks : Contract!SignedBy(p, b) => DidSign(p, b)

(* The votes of a claim are a chain of signed blocks of one fork; the last *)
(* is one the client signed.                                               *)
VotesOK(p, f, votes) ==
    /\ votes \in Contract!Votes
    /\ \A i \in 1..Len(votes) : votes[i].forkCnt = f
    /\ \A i \in 2..Len(votes) : votes[i].previousState = votes[i - 1].state
    /\ votes # <<>> => Contract!SignedBy(p, votes[Len(votes)])

(* The claim says of them what the contract asks.                          *)
ClaimOK(p, f, claim) ==
    /\ VotesOK(p, f, claim.votes)
    /\ claim.votes = <<>> => /\ claim.finalized = Contract!Genesis(f)
                             /\ claim.latest = Contract!Genesis(f)
    /\ claim.votes # <<>> =>
          /\ claim.latest = claim.votes[Len(claim.votes)].state
          /\ IF claim.finalized = Contract!Genesis(f)
             THEN claim.votes[1].previousState = claim.finalized
             ELSE claim.votes[1].state = claim.finalized
    /\ claim.finalized # Contract!Genesis(f) =>
          Contract!Genesis(f).participants \subseteq claim.signers
    /\ \A a \in claim.signers :
          \E i \in 1..Len(claim.votes) : Contract!SignedBy(a, claim.votes[i])

(* The proofs a client makes.                                              *)
ClientKinds == {"FoldRechallenge", "DoubleSign", "IncorrectData", "NewerState",
                "BlockTooFarInFuture"}

ClientProofs == UNION {Contract!ProofsOfKind(kind) : kind \in ClientKinds}

(* What is found against a double signer convicts it.                      *)
Convicts(f, x) ==
    /\ x.kind = "DoubleSign"
    /\ x.block1.forkCnt = f /\ x.block2.forkCnt = f
    /\ x.block1.transactionCnt = x.block2.transactionCnt
    /\ x.block1 # x.block2
    /\ Contract!SignedBy(x.signer, x.block1)
    /\ Contract!SignedBy(x.signer, x.block2)

(* A call whose transaction is under way.                                  *)
CallOK(p, call) ==
    /\ call.proofs \subseteq ClientProofs
    /\ call.pc \in {"create", "challenge"} =>
          /\ HasFork(p, call.forkCnt)
          /\ ClaimOK(p, call.forkCnt, call.claim)
    /\ call.pc = "create" =>
          /\ call.folded \in Contract!Heights
          /\ call.timedout # Nobody /\ call.folded = 0 =>
                call.timedout = NextToWrite(Contract!Genesis(call.forkCnt))
          /\ (\E x \in call.proofs : x.kind = "DoubleSign") =>
                /\ call.timedout = Nobody
                /\ \A x \in call.proofs : Convicts(call.forkCnt, x)

HandlersOK ==
    \A p \in Honest :
        /\ \A y \in localProofs[p] : y[2] \in ClientProofs
        /\ \A k \in Calls : CallOK(p, calls[p][k])

(* The records emitted so far are in the order of their names, the last of *)
(* them is the one that stands.                                            *)
Precedes(d, e) ==
    \/ d.forkCnt < e.forkCnt
    \/ d.forkCnt = e.forkCnt /\ d.challengeCnt < e.challengeCnt

RecordsOK ==
    /\ \A d \in emitted : dispute.exists /\ (d = dispute \/ Precedes(d, dispute))
    /\ RecordsAreNamed

ForkAccounting ==
    dispute.exists => latestFork = dispute.forkCnt + dispute.challengeCnt + 1

(* No post lies in the future.                                             *)
PostsOK == \A k \in postedBlockCalldata : k.timestamp <= now

(* The contract, the events and the signatures.                            *)
World ==
    /\ Contract!TypeOK
    /\ PostsOK
    /\ ForkAccounting
    /\ RecordsOK
    /\ emitted \subseteq Contract!Disputes

Shapes ==
    /\ signed \subseteq Forgeries \cup (Honest \X Blocks)
    /\ forks \in [Honest -> Seq(Seq(EntryRecord))]
    /\ disputedForks \in [Honest -> SUBSET Nat]
    /\ localProofs \in [Honest -> SUBSET (Nat \X Evidence)]
    /\ disputes \in [Honest -> [0..MaxFork -> Nat \cup {-1}]]
    /\ calls \in [Honest -> [Calls -> CallRecord]]

IInv ==
    /\ World
    /\ Shapes
    /\ \A p \in Honest : ForksOK(p)
    /\ SignedOK
    /\ HandlersOK

-----------------------------------------------------------------------------
(* A set of numbers has a least element, one that is bounded a largest.    *)
LEMMA Least ==
    ASSUME NEW T, T \subseteq Nat, T # {}
    PROVE  \E x \in T : \A y \in T : x <= y
<1>1. IsWellFoundedOn(OpToRel(<, Nat), Nat)
  BY NatLessThanWellFounded
<1>2. PICK x \in T : \A y \in T : <<y, x>> \notin OpToRel(<, Nat)
  BY <1>1, WFMin
<1>3. \A y \in T : ~(y < x)
  BY <1>2 DEF OpToRel
<1> QED
  BY <1>3

(* The largest member, which the client takes for the last block signed    *)
(* and for the first vote.                                                 *)
LEMMA LatestLemma ==
    ASSUME NEW n \in Nat, NEW S, S \subseteq 1..n, S # {}
    PROVE  Latest(S) \in S /\ \A i \in S : i <= Latest(S)
<1>1. PICK T : T = {x \in Nat : n - x \in S}
  OBVIOUS
<1>2. T \subseteq Nat /\ T # {}
  <2>1. PICK i \in S : i \in 1..n
    OBVIOUS
  <2>2. n - i \in Nat /\ n - (n - i) = i
    BY <2>1
  <2> QED
    BY <1>1, <2>1, <2>2
<1>3. PICK x \in T : \A y \in T : x <= y
  BY <1>2, Least
<1>4. PICK h \in S : h = n - x /\ x \in Nat /\ h \in 1..n
  BY <1>1, <1>3
<1>5. ASSUME NEW i \in S
      PROVE  i <= h
  <2>1. i \in 1..n /\ n - i \in Nat /\ n - (n - i) = i
    OBVIOUS
  <2>2. n - i \in T
    BY <1>1, <2>1
  <2>3. x <= n - i
    BY <1>3, <2>2
  <2> QED
    BY <1>4, <2>1, <2>3
<1> QED
  BY <1>5 DEF Latest

-----------------------------------------------------------------------------
(* What a step of the chain or of a peer does to what a client relies on.  *)

(* Time passes, forks are appended, posts are overwritten by later ones,   *)
(* signatures are added.                                                   *)
Advances ==
    /\ now <= now'
    /\ latestFork <= latestFork'
    /\ Contract!IsChannelOpen =>
          /\ (Contract!IsChannelOpen)'
          /\ \A f \in 0..latestFork : /\ encodedStates'[f] = encodedStates[f]
                                      /\ genesisTimestamps'[f] = genesisTimestamps[f]
    /\ \A k \in postedBlockCalldata : \E l \in postedBlockCalldata' :
          /\ l.forkCnt = k.forkCnt /\ l.transactionCnt = k.transactionCnt
          /\ k.timestamp <= l.timestamp
    /\ signed \subseteq signed'

(* A timestamp that was in time stays in time.                             *)
LEMMA GoodTimestampKeeps ==
    ASSUME Contract!TypeOK, (Contract!TypeOK)', Advances,
           NEW t \in Nat, NEW b \in Blocks, Contract!IsGoodTimestamp(t, b)
    PROVE  Contract!IsGoodTimestamp(t, b)'
<1>1. b.timestamp \in Nat /\ P2pTime \in Nat
  BY BlocksAssumption, ContractAssumption DEF Block
<1>2. b.timestamp >= t
  BY DEF Contract!IsGoodTimestamp
<1>3. CASE b.timestamp <= t + P2pTime
  BY <1>2, <1>3 DEF Contract!IsGoodTimestamp
<1>4. ASSUME NEW u \in Contract!PostedTimes(b.forkCnt, b.transactionCnt),
             b.timestamp <= u + P2pTime
      PROVE  Contract!IsGoodTimestamp(t, b)'
  <2>1. PICK k \in postedBlockCalldata :
          k.timestamp = u /\ k.forkCnt = b.forkCnt /\ k.transactionCnt <= b.transactionCnt
    BY <1>4 DEF Contract!PostedTimes
  <2>2. PICK l \in postedBlockCalldata' :
          /\ l.forkCnt = k.forkCnt /\ l.transactionCnt = k.transactionCnt
          /\ k.timestamp <= l.timestamp
    BY DEF Advances
  <2>3. k.timestamp \in Nat /\ l.timestamp \in Nat
    BY DEF Contract!TypeOK, Contract!Posts
  <2>4. l.timestamp \in Contract!PostedTimes(b.forkCnt, b.transactionCnt)'
    BY <2>1, <2>2 DEF Contract!PostedTimes
  <2>5. b.timestamp <= l.timestamp + P2pTime
    BY <1>1, <1>4, <2>1, <2>2, <2>3
  <2> QED
    BY <1>2, <2>4, <2>5 DEF Contract!IsGoodTimestamp
<1> QED
  BY <1>3, <1>4 DEF Contract!IsGoodTimestamp

(* The entries of a chain, and what they extend.                           *)
LEMMA ChainType ==
    ASSUME Contract!TypeOK, NEW f \in 0..latestFork,
           NEW chain \in Seq(EntryRecord), NEW h \in 1..Len(chain)
    PROVE  /\ chain[h].block \in Blocks /\ chain[h].block \in Block
           /\ chain[h].signers \subseteq Addr
           /\ StateBefore(f, chain, h) \in State
           /\ TimeBefore(f, chain, h) \in Nat
           /\ Contract!Genesis(f) \in State
<1>1. \A i \in 1..Len(chain) : /\ chain[i].block \in Blocks /\ chain[i].block \in Block
                               /\ chain[i].signers \subseteq Addr
                               /\ chain[i].block.state \in State
                               /\ chain[i].block.timestamp \in Nat
  <2>1. ASSUME NEW i \in 1..Len(chain)
        PROVE  chain[i].block \in Blocks /\ chain[i].signers \subseteq Addr
    <3>1. chain[i] \in EntryRecord
      OBVIOUS
    <3> QED
      BY <3>1 DEF EntryRecord
  <2>2. \A b \in Blocks : b \in Block /\ b.state \in State /\ b.timestamp \in Nat
    BY BlocksAssumption DEF Block
  <2> QED
    BY <2>1, <2>2
<1>2. Contract!Genesis(f) \in State /\ genesisTimestamps[f] \in Nat
  BY DEF Contract!TypeOK, Contract!Genesis, Contract!State, State
<1>3. h # 1 => h - 1 \in 1..Len(chain)
  OBVIOUS
<1> QED
  BY <1>1, <1>2, <1>3 DEF StateBefore, TimeBefore

(* What holds of a chain goes on holding.                                  *)
LEMMA ChainKeeps ==
    ASSUME Contract!TypeOK, (Contract!TypeOK)', Advances, Contract!IsChannelOpen,
           NEW p \in Honest, NEW f \in 0..latestFork, NEW chain \in Seq(EntryRecord),
           ChainOK(p, f, chain)
    PROVE  ChainOK(p, f, chain)'
<1>1. /\ encodedStates'[f] = encodedStates[f]
      /\ genesisTimestamps'[f] = genesisTimestamps[f]
      /\ signed \subseteq signed'
  BY DEF Advances
<1>2. ASSUME NEW h \in 1..Len(chain)
      PROVE  /\ Vouched(chain[h])'
             /\ Follows(p, f, chain, h)'
             /\ Grown(f, chain[h].block)'
  <2>1. /\ Vouched(chain[h])
        /\ Follows(p, f, chain, h)
        /\ Grown(f, chain[h].block)
    BY <1>2 DEF ChainOK
  <2>2. /\ chain[h].block \in Blocks
        /\ TimeBefore(f, chain, h) \in Nat
    BY ChainType
  <2>3. Vouched(chain[h])'
    BY <1>1, <2>1 DEF Vouched, Contract!SignedBy
  <2>4. Grown(f, chain[h].block)'
    BY <1>1, <2>1 DEF Grown, Contract!Genesis
  <2>5. /\ StateBefore(f, chain, h)' = StateBefore(f, chain, h)
        /\ TimeBefore(f, chain, h)' = TimeBefore(f, chain, h)
    BY <1>1 DEF StateBefore, TimeBefore, Contract!Genesis
  <2>6. PICK t \in Nat : t = TimeBefore(f, chain, h)
    BY <2>2
  <2>7. Contract!IsGoodTimestamp(t, chain[h].block)
          => Contract!IsGoodTimestamp(t, chain[h].block)'
    BY <2>2, GoodTimestampKeeps
  <2>8. Follows(p, f, chain, h)'
    BY <2>1, <2>5, <2>6, <2>7 DEF Follows
  <2> QED
    BY <2>3, <2>4, <2>8
<1> QED
  BY <1>2 DEF ChainOK

(* Calldata that could be sent can be sent later.                          *)
LEMMA VotesKeep ==
    ASSUME Advances
    PROVE  /\ Contract!AuthorSigned \subseteq (Contract!AuthorSigned)'
           /\ Contract!Votes \subseteq (Contract!Votes)'
<1>1. Contract!AuthorSigned \subseteq (Contract!AuthorSigned)'
  BY DEF Advances, Contract!AuthorSigned, Contract!SignedBy
<1>2. ASSUME NEW n \in 0..MaxVotes
      PROVE  [1..n -> Contract!AuthorSigned] \subseteq [1..n -> (Contract!AuthorSigned)']
  BY <1>1
<1> QED
  BY <1>1, <1>2 DEF Contract!Votes

(* What a claim says of its fork goes on holding.                          *)
LEMMA ClaimKeeps ==
    ASSUME Advances, Contract!IsChannelOpen, NEW p \in Honest, NEW f \in 0..latestFork,
           NEW claim \in Claims, ClaimOK(p, f, claim)
    PROVE  ClaimOK(p, f, claim)'
<1>1. /\ encodedStates'[f] = encodedStates[f]
      /\ signed \subseteq signed'
  BY DEF Advances
<1>2. VotesOK(p, f, claim.votes)'
  BY <1>1, VotesKeep DEF ClaimOK, VotesOK, Contract!SignedBy
<1>3. Contract!Genesis(f)' = Contract!Genesis(f)
  BY <1>1 DEF Contract!Genesis
<1>4. \A a \in claim.signers :
          \E i \in 1..Len(claim.votes) : Contract!SignedBy(a, claim.votes[i])'
  BY <1>1 DEF ClaimOK, Contract!SignedBy
<1> QED
  BY <1>2, <1>3, <1>4 DEF ClaimOK

(* A proof that could be made can still be made.                           *)
LEMMA ProofsKeep ==
    ASSUME Advances, NEW kind
    PROVE  Contract!ProofsOfKind(kind) \subseteq Contract!ProofsOfKind(kind)'
<1>1. /\ signed \subseteq signed'
      /\ Contract!AuthorSigned \subseteq (Contract!AuthorSigned)'
  BY VotesKeep DEF Advances
<1>2. CASE kind = "DoubleSign"
  BY <1>1, <1>2 DEF Contract!ProofsOfKind
<1>3. CASE kind = "IncorrectData"
  BY <1>1, <1>3 DEF Contract!ProofsOfKind
<1>4. CASE kind = "FoldPriorBlock"
  BY <1>1, <1>4 DEF Contract!ProofsOfKind
<1>5. CASE kind = "JoinChannel"
  BY <1>5 DEF Contract!ProofsOfKind
<1>6. CASE kind = "BlockTooFarInFuture"
  BY <1>1, <1>6 DEF Contract!ProofsOfKind
<1>7. CASE kind \notin {"DoubleSign", "IncorrectData", "FoldPriorBlock", "JoinChannel",
                        "BlockTooFarInFuture"}
  BY <1>7 DEF Contract!ProofsOfKind
<1> QED
  BY <1>2, <1>3, <1>4, <1>5, <1>6, <1>7

(* So the proofs at hand stay at hand.                                     *)
LEMMA EvidenceKeeps ==
    ASSUME Advances
    PROVE  ClientProofs \subseteq ClientProofs' /\ Evidence \subseteq Evidence'
BY ProofsKeep DEF ClientProofs, Evidence, Contract!AllProofKinds

(* A call that was in order stays in order.                                *)
LEMMA CallKeeps ==
    ASSUME Contract!TypeOK, Advances, NEW p \in Honest, NEW call, CallOK(p, call),
           call.claim \in Claims, call.forkCnt \in Nat,
           forks[p] \in Seq(Seq(EntryRecord)), forks'[p] \in Seq(Seq(EntryRecord)),
           ForksOK(p), Len(forks[p]) <= Len(forks'[p])
    PROVE  CallOK(p, call)'
<1>1. call.proofs \subseteq ClientProofs'
  BY EvidenceKeeps DEF CallOK
<1>2. ASSUME call.pc \in {"create", "challenge"}
      PROVE  /\ call.forkCnt \in 0..latestFork
             /\ Contract!IsChannelOpen
             /\ HasFork(p, call.forkCnt)'
  <2>1. call.forkCnt < Len(forks[p]) /\ Len(forks[p]) \in Nat /\ Len(forks'[p]) \in Nat
    BY <1>2 DEF CallOK, HasFork
  <2>2. Len(forks[p]) <= latestFork + 1 /\ latestFork \in Nat
    BY DEF ForksOK, Contract!TypeOK
  <2>3. Contract!IsChannelOpen
    BY <2>1 DEF ForksOK
  <2> QED
    BY <2>1, <2>2, <2>3 DEF HasFork
<1>3. ASSUME call.pc \in {"create", "challenge"}
      PROVE  ClaimOK(p, call.forkCnt, call.claim)'
  BY <1>2, <1>3, ClaimKeeps DEF CallOK
<1>4. ASSUME call.pc = "create"
      PROVE  Contract!Genesis(call.forkCnt)' = Contract!Genesis(call.forkCnt)
  BY <1>2, <1>4 DEF Advances, Contract!Genesis
<1>5. ASSUME NEW x, Convicts(call.forkCnt, x)
      PROVE  Convicts(call.forkCnt, x)'
  BY <1>5 DEF Advances, Convicts, Contract!SignedBy
<1>6. ASSUME call.pc = "create"
      PROVE  /\ (call.folded \in Contract!Heights)'
             /\ (call.timedout # Nobody /\ call.folded = 0 =>
                    call.timedout = NextToWrite(Contract!Genesis(call.forkCnt)))'
             /\ ((\E x \in call.proofs : x.kind = "DoubleSign") =>
                    /\ call.timedout = Nobody
                    /\ \A x \in call.proofs : Convicts(call.forkCnt, x))'
  <2>1. (Contract!Heights)' = Contract!Heights
    BY DEF Contract!Heights
  <2> QED
    BY <1>4, <1>5, <1>6, <2>1 DEF CallOK
<1> QED
  BY <1>1, <1>2, <1>3, <1>6 DEF CallOK

-----------------------------------------------------------------------------
(* What the transactions do to the contract.                               *)

(* What names a record.                                                    *)
SameName(d, e) ==
    /\ e.exists = d.exists
    /\ e.forkCnt = d.forkCnt
    /\ e.challengeCnt = d.challengeCnt

(* The proofs that anybody can make.                                       *)
Proofs == {Contract!NoProof} \cup Evidence

(* What a submitted proof consists of.                                     *)
LEMMA EvidenceType ==
    ASSUME signed \subseteq Addr \X Blocks, NEW p \in Proofs
    PROVE  /\ p.kind \in Contract!AllProofKinds \cup {"None"}
           /\ p.kind = "DoubleSign" =>
                 p.signer \in Addr /\ p.block1 \in Blocks /\ p.block2 \in Blocks
           /\ p.kind = "IncorrectData" => p.block1 \in Blocks /\ p.block2 \in Blocks
           /\ p.kind = "BlockTooFarInFuture" => p.block \in Blocks
           /\ p.kind = "JoinChannel" => p.participant \in Addr
<1>1. CASE p = Contract!NoProof
  BY <1>1 DEF Contract!NoProof
<1>2. ASSUME NEW k \in Contract!AllProofKinds, p \in Contract!ProofsOfKind(k)
      PROVE  /\ p.kind = k
             /\ k = "DoubleSign" =>
                   p.signer \in Addr /\ p.block1 \in Blocks /\ p.block2 \in Blocks
             /\ k = "IncorrectData" => p.block1 \in Blocks /\ p.block2 \in Blocks
             /\ k = "BlockTooFarInFuture" => p.block \in Blocks
             /\ k = "JoinChannel" => p.participant \in Addr
  <2>1. CASE k = "DoubleSign"
    BY <1>2, <2>1 DEF Contract!ProofsOfKind
  <2>2. CASE k = "IncorrectData"
    BY <1>2, <2>2 DEF Contract!ProofsOfKind, Contract!AuthorSigned
  <2>3. CASE k = "FoldPriorBlock"
    BY <1>2, <2>3 DEF Contract!ProofsOfKind
  <2>4. CASE k = "JoinChannel"
    BY <1>2, <2>4 DEF Contract!ProofsOfKind
  <2>5. CASE k = "BlockTooFarInFuture"
    BY <1>2, <2>5 DEF Contract!ProofsOfKind, Contract!AuthorSigned
  <2>6. CASE k \in {"FoldRechallenge", "NewerState"}
    BY <1>2, <2>6 DEF Contract!ProofsOfKind
  <2> QED
    BY <2>1, <2>2, <2>3, <2>4, <2>5, <2>6 DEF Contract!AllProofKinds
<1> QED
  BY <1>1, <1>2 DEF Proofs, Evidence

(* A valid proof turns a record into a record of the same name.            *)
LEMMA ApplyProofLemma ==
    ASSUME signed \subseteq Addr \X Blocks,
           NEW d \in Contract!Disputes, NEW c \in Addr, NEW p \in Proofs,
           Contract!ProofValid(d, c, p)
    PROVE  /\ Contract!ApplyProof(d, c, p) \in Contract!Disputes
           /\ SameName(d, Contract!ApplyProof(d, c, p))
<1> DEFINE e == Contract!ApplyProof(d, c, p)
<1>0. /\ d.timeoutDisputer \in Addr \cup {Contract!Nobody}
      /\ d.postedStateDisputer \in Addr \cup {Contract!Nobody}
      /\ d.virtualVotingBlocks \in Seq(Blocks)
  BY DEF Contract!Disputes
<1>1. /\ p.kind \in Contract!AllProofKinds \cup {"None"}
      /\ p.kind = "DoubleSign" => p.signer \in Addr /\ p.block1 \in Blocks
      /\ p.kind = "IncorrectData" => p.block1 \in Blocks /\ p.block2 \in Blocks
      /\ p.kind = "BlockTooFarInFuture" => p.block \in Blocks
      /\ p.kind = "JoinChannel" => p.participant \in Addr
  BY EvidenceType
<1>2. ASSUME NEW a \in Addr \cup {Contract!Nobody}, NEW g \in Contract!Disputes
      PROVE  /\ Contract!Slash(g, a) \in Contract!Disputes
             /\ SameName(g, Contract!Slash(g, a))
  BY DEF Contract!Slash, Contract!Disputes, SameName
<1>3. ASSUME NEW h \in Nat, NEW g \in Contract!Disputes
      PROVE  /\ Contract!TryCancelFold(g, h) \in Contract!Disputes
             /\ SameName(g, Contract!TryCancelFold(g, h))
  BY DEF Contract!TryCancelFold, Contract!Disputes, SameName
<1>4. ASSUME NEW b \in Blocks
      PROVE  b.transactionCnt \in Nat /\ b.participant \in Addr
  BY BlocksAssumption DEF Block
<1>5. CASE p.kind = "FoldRechallenge"
  <2> DEFINE g == [d EXCEPT !.timedoutParticipant = Contract!Nobody]
  <2>1. g \in Contract!Disputes /\ SameName(d, g)
    BY DEF Contract!Disputes, SameName
  <2>2. e = Contract!Slash(g, d.timeoutDisputer)
    BY <1>5 DEF Contract!ApplyProof, Contract!Accused
  <2> HIDE DEF g
  <2>3. /\ Contract!Slash(g, d.timeoutDisputer) \in Contract!Disputes
        /\ SameName(g, Contract!Slash(g, d.timeoutDisputer))
    BY <1>0, <1>2, <2>1
  <2> QED
    BY <2>1, <2>2, <2>3 DEF SameName
<1>6. CASE p.kind \in {"DoubleSign", "IncorrectData"}
  <2>1. Contract!Accused(d, p) \in Addr /\ p.block1.transactionCnt \in Nat
    <3>1. CASE p.kind = "DoubleSign"
      BY <1>1, <1>4, <3>1 DEF Contract!Accused
    <3>2. CASE p.kind = "IncorrectData"
      BY <1>1, <1>4, <3>2 DEF Contract!Accused
    <3> QED
      BY <1>6, <3>1, <3>2
  <2>2. e = IF Contract!ProofSucceeds(d, p)
            THEN Contract!TryCancelFold(Contract!Slash(d, Contract!Accused(d, p)),
                                        p.block1.transactionCnt)
            ELSE d
    BY <1>6 DEF Contract!ApplyProof
  <2>3. CASE Contract!ProofSucceeds(d, p)
    BY <1>2, <1>3, <2>1, <2>2, <2>3 DEF SameName
  <2>4. CASE ~Contract!ProofSucceeds(d, p)
    BY <2>2, <2>4 DEF SameName
  <2> QED
    BY <2>3, <2>4
<1>7. CASE p.kind \in {"NewerState", "BlockTooFarInFuture"}
  <2>1. Contract!Accused(d, p) \in Addr \cup {Contract!Nobody}
    <3>1. CASE p.kind = "NewerState"
      BY <1>0, <3>1 DEF Contract!Accused
    <3>2. CASE p.kind = "BlockTooFarInFuture"
      BY <1>1, <1>4, <3>2 DEF Contract!Accused
    <3> QED
      BY <1>7, <3>1, <3>2
  <2>2. e = Contract!Slash(d, Contract!Accused(d, p))
    BY <1>7 DEF Contract!ApplyProof
  <2> QED
    BY <1>2, <2>1, <2>2
<1>8. CASE p.kind = "FoldPriorBlock"
  <2>1. d.virtualVotingBlocks # <<>>
    BY <1>0, <1>8 DEF Contract!ProofValid, Contract!FoldPriorBlockValid
  <2>2. Contract!PriorFolded(d) \in Addr
    BY <1>0, <1>4, <2>1 DEF Contract!PriorFolded
  <2>3. e = [d EXCEPT !.timedoutParticipant = Contract!PriorFolded(d), !.timeoutDisputer = c]
    BY <1>8 DEF Contract!ApplyProof
  <2> QED
    BY <2>2, <2>3 DEF Contract!Disputes, SameName
<1>9. CASE p.kind = "JoinChannel"
  <2>1. p.participant \in Addr
    BY <1>1, <1>9
  <2>2. e = [d EXCEPT !.joinChannelParticipants = @ \cup {p.participant}]
    BY <1>9 DEF Contract!ApplyProof
  <2> QED
    BY <2>1, <2>2 DEF Contract!Disputes, SameName
<1>10. CASE p.kind = "None"
  BY <1>10 DEF Contract!ApplyProof, SameName
<1> QED
  BY <1>1, <1>5, <1>6, <1>7, <1>8, <1>9, <1>10 DEF Contract!AllProofKinds

(* Two proofs in a row, as a transaction applies them.                     *)
LEMMA TwoProofs ==
    ASSUME signed \subseteq Addr \X Blocks,
           NEW d \in Contract!Disputes, NEW c \in Addr,
           NEW p \in Proofs, NEW q \in Proofs,
           Contract!ProofValid(d, c, p),
           Contract!ProofValid(Contract!ApplyProof(d, c, p), c, q)
    PROVE  LET e == Contract!ApplyProof(Contract!ApplyProof(d, c, p), c, q) IN
           /\ e \in Contract!Disputes
           /\ SameName(d, e)
<1>1. /\ Contract!ApplyProof(d, c, p) \in Contract!Disputes
      /\ SameName(d, Contract!ApplyProof(d, c, p))
  BY ApplyProofLemma
<1>2. LET e == Contract!ApplyProof(Contract!ApplyProof(d, c, p), c, q) IN
      /\ e \in Contract!Disputes
      /\ SameName(Contract!ApplyProof(d, c, p), e)
  BY <1>1, ApplyProofLemma
<1> QED
  BY <1>1, <1>2 DEF SameName

(* The states the contract computes are states.                            *)
LEMMA SettledType ==
    ASSUME NEW d \in Contract!Disputes
    PROVE  /\ Contract!Settled(d) \in Contract!Disputes
           /\ SameName(d, Contract!Settled(d))
<1> DEFINE joined == Contract!JoinsTo(d.encodedLatestCorrectState, d.joinChannelParticipants)
<1>1. d.encodedLatestCorrectState \in Contract!State /\ d.joinChannelParticipants \subseteq Addr
  BY DEF Contract!Disputes
<1>2. joined \in Contract!State
  BY <1>1 DEF Contract!JoinsTo, Contract!State
<1>3. Contract!Without(joined, Contract!Expelled(d)) \in Contract!State
  BY <1>2 DEF Contract!Without, Contract!State
<1>4. Contract!Expelled(d) \cap joined.participants \in SUBSET Addr
  BY <1>2 DEF Contract!State
<1>5. Contract!Settled(d)
        = [d EXCEPT !.processExits = Contract!Expelled(d) \cap joined.participants,
                    !.encodedLatestCorrectState = Contract!Without(joined, Contract!Expelled(d))]
  BY DEF Contract!Settled
<1> HIDE DEF joined
<1> QED
  BY <1>3, <1>4, <1>5 DEF Contract!Disputes, SameName, Contract!Expelled

(* createDispute commits a record of the latest fork.                      *)
LEMMA CreateWithLemma ==
    ASSUME Contract!TypeOK, NEW c \in Addr, NEW votes \in Seq(Blocks),
           NEW finalized \in State, NEW latest \in State,
           NEW t \in Addr \cup {Nobody}, NEW folded \in Nat, NEW x \in Proofs, NEW y \in Proofs,
           Contract!CreateWith(c, finalized, latest, votes, t, folded, x, y)
    PROVE  \E d \in Contract!Disputes :
              Contract!Settle(d) /\ d.exists /\ d.forkCnt = latestFork /\ d.challengeCnt = 0
<1>1. PICK opened : opened = Contract!OpenedRecord(c, finalized, latest, votes, t, folded)
  OBVIOUS
<1>2. PICK d : d = Contract!ApplyProof(Contract!ApplyProof(opened, c, x), c, y)
  OBVIOUS
<1>3. /\ Contract!ProofValid(opened, c, x)
      /\ Contract!ProofValid(Contract!ApplyProof(opened, c, x), c, y)
      /\ Contract!Settle(d)
  BY <1>1, <1>2 DEF Contract!CreateWith
<1>4. dispute \in Contract!Disputes /\ signed \subseteq Addr \X Blocks
  BY DEF Contract!TypeOK
<1>5. opened \in Contract!Disputes
  <2>1. dispute.virtualVotingBlocks \o votes \in Seq(Blocks)
    BY <1>4 DEF Contract!Disputes
  <2>2. Contract!Genesis(latestFork).participants \in SUBSET Addr
    BY DEF Contract!TypeOK, Contract!Genesis, Contract!State
  <2>3. now \in Nat /\ latestFork \in Nat /\ now + ChallengeTime \in Nat
    <3>1. now \in Nat /\ latestFork \in Nat
      BY DEF Contract!TypeOK
    <3>2. ChallengeTime \in Nat
      BY ContractAssumption
    <3> QED
      BY <3>1, <3>2
  <2>4. /\ (IF t # Contract!Nobody THEN c ELSE dispute.timeoutDisputer)
             \in Addr \cup {Contract!Nobody}
        /\ t \in Addr \cup {Contract!Nobody}
    BY <1>4 DEF Contract!Disputes, Contract!Nobody, Nobody
  <2>5. finalized \in Contract!State /\ latest \in Contract!State
    BY DEF Contract!State, State
  <2> QED
    BY <1>1, <1>4, <2>1, <2>2, <2>3, <2>4, <2>5, ZenonT(30)
       DEF Contract!OpenedRecord, Contract!Disputes
<1>6. opened.exists /\ opened.forkCnt = latestFork /\ opened.challengeCnt = 0
  BY <1>1, <1>4 DEF Contract!OpenedRecord, Contract!Disputes
<1>7. d \in Contract!Disputes /\ SameName(opened, d)
  BY <1>2, <1>3, <1>4, <1>5, TwoProofs
<1> QED
  BY <1>3, <1>6, <1>7 DEF SameName

(* challengeDispute commits the next record of the disputed fork.          *)
LEMMA ChallengeWithLemma ==
    ASSUME Contract!TypeOK, NEW c \in Addr, NEW votes \in Seq(Blocks),
           NEW finalized \in State, NEW latest \in State, NEW x \in Proofs, NEW y \in Proofs,
           Contract!ChallengeWith(c, finalized, latest, votes, x, y)
    PROVE  \E d \in Contract!Disputes :
              /\ Contract!Settle(d)
              /\ d.exists = dispute.exists
              /\ d.forkCnt = dispute.forkCnt
              /\ d.challengeCnt = dispute.challengeCnt + 1
<1>1. PICK g : g = Contract!ApplyProof(Contract!ApplyProof(dispute, c, x), c, y)
  OBVIOUS
<1>2. PICK d : d = Contract!ChallengedRecord(g, c, finalized, latest, votes)
  OBVIOUS
<1>3. /\ Contract!ProofValid(dispute, c, x)
      /\ Contract!ProofValid(Contract!ApplyProof(dispute, c, x), c, y)
      /\ Contract!Settle(d)
  BY <1>1, <1>2 DEF Contract!ChallengeWith
<1>4. dispute \in Contract!Disputes /\ signed \subseteq Addr \X Blocks
  BY DEF Contract!TypeOK
<1>5. g \in Contract!Disputes /\ SameName(dispute, g)
  BY <1>1, <1>3, <1>4, TwoProofs
<1>6. PICK votes2, deadline, cnt :
        /\ votes2 = g.virtualVotingBlocks \o votes
        /\ deadline = now + ChallengeTime
        /\ cnt = g.challengeCnt + 1
  OBVIOUS
<1>7. votes2 \in Seq(Blocks) /\ deadline \in Nat /\ cnt \in Nat
  <2>1. g.virtualVotingBlocks \in Seq(Blocks) /\ g.challengeCnt \in Nat
    BY <1>5 DEF Contract!Disputes
  <2>2. now \in Nat /\ ChallengeTime \in Nat
    BY ContractAssumption DEF Contract!TypeOK
  <2>3. votes2 \in Seq(Blocks)
    BY <1>6, <2>1
  <2> QED
    BY <1>6, <2>1, <2>2, <2>3
<1>8. finalized \in Contract!State /\ latest \in Contract!State
  BY DEF Contract!State, State
<1>9. PICK told : told = [g EXCEPT !.virtualVotingBlocks = votes2,
                                   !.encodedLatestFinalizedState = finalized,
                                   !.encodedLatestCorrectState = latest]
  OBVIOUS
<1>10. told \in Contract!Disputes /\ SameName(g, told)
  BY <1>5, <1>7, <1>8, <1>9 DEF Contract!Disputes, SameName
<1>11. d = [told EXCEPT !.postedStateDisputer = c,
                        !.deadlineTimestamp = deadline,
                        !.challengeCnt = cnt]
  BY <1>2, <1>5, <1>6, <1>9 DEF Contract!ChallengedRecord, Contract!Disputes
<1>12. /\ d \in Contract!Disputes
       /\ d.exists = told.exists /\ d.forkCnt = told.forkCnt /\ d.challengeCnt = cnt
  BY <1>7, <1>10, <1>11 DEF Contract!Disputes
<1> QED
  BY <1>3, <1>5, <1>6, <1>10, <1>12 DEF SameName

(* What a commit leaves behind.                                            *)
LEMMA SettleLemma ==
    ASSUME Contract!TypeOK, PostsOK, NEW d \in Contract!Disputes, Contract!Settle(d)
    PROVE  /\ (Contract!TypeOK)' /\ PostsOK' /\ Advances
           /\ signed' = signed
           /\ latestFork' = latestFork + 1
           /\ SameName(d, dispute')
<1>1. PICK e : e = Contract!Settled(d)
  OBVIOUS
<1>2. /\ dispute' = e
      /\ Contract!SetState(e.encodedLatestCorrectState)
      /\ UNCHANGED <<now, postedBlockCalldata, signed>>
  BY <1>1 DEF Contract!Settle
<1>3. e \in Contract!Disputes /\ SameName(d, e)
  BY <1>1, SettledType
<1>4. PICK s \in Contract!State : s = e.encodedLatestCorrectState
  BY <1>3 DEF Contract!Disputes
<1>5. /\ latestFork' = latestFork + 1
      /\ encodedStates' \in [0..latestFork' -> Contract!State]
      /\ genesisTimestamps' \in [0..latestFork' -> Nat]
      /\ \A f \in 0..latestFork : /\ encodedStates'[f] = encodedStates[f]
                                 /\ genesisTimestamps'[f] = genesisTimestamps[f]
  BY <1>2, <1>4 DEF Contract!SetState, Contract!TypeOK
<1>6. (Contract!TypeOK)'
  BY <1>2, <1>3, <1>5 DEF Contract!TypeOK
<1>7. Advances
  <2>1. 0 \in 0..latestFork /\ now \in Nat /\ latestFork \in Nat
        /\ postedBlockCalldata \subseteq Contract!Posts
    BY DEF Contract!TypeOK
  <2> QED
    BY <1>2, <1>5, <2>1 DEF Advances, Contract!IsChannelOpen, Contract!Posts
<1> QED
  BY <1>2, <1>3, <1>5, <1>6, <1>7 DEF PostsOK

(* A commit is on record under a name of its own.                          *)
LEMMA RecordLemma ==
    ASSUME Contract!TypeOK, (Contract!TypeOK)', ForkAccounting, RecordsOK,
           emitted \subseteq Contract!Disputes,
           NEW d \in Contract!Disputes, d.exists,
           latestFork' = latestFork + 1, SameName(d, dispute'),
           emitted' = emitted \cup {dispute'},
           \/ d.forkCnt = latestFork /\ d.challengeCnt = 0
           \/ /\ dispute.exists /\ d.forkCnt = dispute.forkCnt
              /\ d.challengeCnt = dispute.challengeCnt + 1
    PROVE  ForkAccounting' /\ RecordsOK' /\ emitted' \subseteq Contract!Disputes
<1>1. /\ latestFork \in Nat
      /\ dispute.forkCnt \in Nat /\ dispute.challengeCnt \in Nat
      /\ dispute' \in Contract!Disputes
      /\ dispute'.forkCnt \in Nat /\ dispute'.challengeCnt \in Nat
      /\ dispute'.exists
  BY DEF Contract!TypeOK, Contract!Disputes, SameName
<1>2. ForkAccounting'
  BY <1>1 DEF ForkAccounting, SameName
<1>3. dispute.exists => Precedes(dispute, dispute')
  BY <1>1 DEF ForkAccounting, SameName, Precedes
<1>4. ASSUME NEW e \in emitted
      PROVE  Precedes(e, dispute')
  <2>1. e.forkCnt \in Nat /\ e.challengeCnt \in Nat
    BY DEF Contract!Disputes
  <2>2. dispute.exists /\ (e = dispute \/ Precedes(e, dispute))
    BY <1>4 DEF RecordsOK
  <2> QED
    BY <1>1, <1>3, <2>1, <2>2 DEF Precedes
<1>5. RecordsAreNamed'
  <2>1. ASSUME NEW e \in emitted
        PROVE  /\ e.forkCnt \in Nat /\ e.challengeCnt \in Nat
               /\ ~(e.forkCnt = dispute'.forkCnt /\ e.challengeCnt = dispute'.challengeCnt)
    <3>1. e.forkCnt \in Nat /\ e.challengeCnt \in Nat
      BY DEF Contract!Disputes
    <3>2. Precedes(e, dispute')
      BY <1>4
    <3> QED
      BY <1>1, <3>1, <3>2 DEF Precedes
  <2> QED
    BY <2>1 DEF RecordsOK, RecordsAreNamed
<1>6. RecordsOK'
  BY <1>1, <1>4, <1>5 DEF RecordsOK
<1> QED
  BY <1>1, <1>2, <1>6

(* A transaction of a dispute commits.                                     *)
CommitsRecord ==
    \E d \in Contract!Disputes :
        /\ Contract!Settle(d)
        /\ d.exists
        /\ \/ d.forkCnt = latestFork /\ d.challengeCnt = 0
           \/ /\ dispute.exists /\ d.forkCnt = dispute.forkCnt
              /\ d.challengeCnt = dispute.challengeCnt + 1

(* What a commit does to the world.                                        *)
LEMMA CommitLemma ==
    ASSUME World, CommitsRecord, emitted' = emitted \cup {dispute'}
    PROVE  World' /\ Advances /\ signed' = signed
<1>1. PICK d \in Contract!Disputes :
        /\ Contract!Settle(d)
        /\ d.exists
        /\ \/ d.forkCnt = latestFork /\ d.challengeCnt = 0
           \/ /\ dispute.exists /\ d.forkCnt = dispute.forkCnt
              /\ d.challengeCnt = dispute.challengeCnt + 1
  BY DEF CommitsRecord
<1>2. /\ (Contract!TypeOK)' /\ PostsOK' /\ Advances
      /\ signed' = signed
      /\ latestFork' = latestFork + 1
      /\ SameName(d, dispute')
  BY <1>1, SettleLemma DEF World
<1>3. ForkAccounting' /\ RecordsOK' /\ emitted' \subseteq Contract!Disputes
  BY <1>1, <1>2, RecordLemma DEF World
<1>4. (Contract!Disputes)' = Contract!Disputes
  BY DEF Contract!Disputes
<1> QED
  BY <1>2, <1>3, <1>4 DEF World

(* The transaction of a client.                                            *)
LEMMA ClientCreates ==
    ASSUME World, NEW c \in Addr, NEW votes \in Seq(Blocks),
           NEW finalized \in State, NEW latest \in State,
           NEW t \in Addr \cup {Nobody}, NEW folded \in Nat, NEW x \in Proofs, NEW y \in Proofs,
           Contract!CreateWith(c, finalized, latest, votes, t, folded, x, y)
    PROVE  CommitsRecord
BY CreateWithLemma DEF World, CommitsRecord

(* The same of a challenge.                                                *)
LEMMA ClientChallenges ==
    ASSUME World, NEW c \in Addr, NEW votes \in Seq(Blocks), dispute.exists,
           NEW finalized \in State, NEW latest \in State, NEW x \in Proofs, NEW y \in Proofs,
           Contract!ChallengeWith(c, finalized, latest, votes, x, y)
    PROVE  CommitsRecord
BY ChallengeWithLemma DEF World, CommitsRecord

(* What calldata can carry is well typed.                                  *)
LEMMA CalldataType ==
    ASSUME World, NEW votes \in Contract!Votes
    PROVE  /\ votes \in Seq(Blocks)
           /\ \A f \in 0..latestFork : Contract!Finals(f, votes) \subseteq State
           /\ Contract!Claims(votes) \subseteq State
           /\ Contract!Heights \subseteq Nat
<1>1. votes \in Seq(Blocks)
  BY ContractAssumption DEF Contract!Votes, Contract!AuthorSigned
<1>2. \A f \in 0..latestFork : Contract!Genesis(f) \in State
  BY DEF World, Contract!TypeOK, Contract!Genesis, Contract!State, State
<1>3. votes # <<>> => votes[1].state \in State /\ votes[Len(votes)].state \in State
  <2>1. ASSUME NEW b \in Blocks
        PROVE  b.state \in State
    BY BlocksAssumption DEF Block
  <2> QED
    BY <1>1, <2>1
<1>4. latestFork \in 0..latestFork
  BY DEF World, Contract!TypeOK
<1>5. Contract!Heights \subseteq Nat
  BY BlocksAssumption DEF Contract!Heights, Block
<1> QED
  BY <1>1, <1>2, <1>3, <1>4, <1>5, ContractAssumption DEF Contract!Finals, Contract!Claims

(* The contract is only sent proofs that can be made.                      *)
LEMMA SubmittedAreProofs ==
    Contract!SubmittedProofs \subseteq Proofs /\ Contract!SecondProofs \subseteq Proofs
BY ProofKindsAssumption
   DEF Contract!SubmittedProofs, Contract!SecondProofs, Proofs, Evidence

(* The transactions of the others.                                         *)
LEMMA OtherDisputesCommit ==
    ASSUME World, NEW c \in Addr, OtherDisputes(c)
    PROVE  CommitsRecord /\ emitted' = emitted \cup {dispute'} /\ UNCHANGED clients
<1>1. PICK votes \in Contract!Votes, t \in Addr \cup {Nobody} :
        \E finalized \in Contract!Finals(latestFork, votes), latest \in Contract!Claims(votes),
           folded \in IF t = Nobody THEN {0} ELSE Contract!Heights :
            /\ UNCHANGED clients
            /\ Contract!CreateDispute(c, finalized, latest, votes, t, folded)
            /\ emitted' = emitted \cup {dispute'}
  BY DEF OtherDisputes
<1>2. PICK finalized \in Contract!Finals(latestFork, votes), latest \in Contract!Claims(votes),
           folded \in IF t = Nobody THEN {0} ELSE Contract!Heights :
            /\ UNCHANGED clients
            /\ Contract!CreateDispute(c, finalized, latest, votes, t, folded)
            /\ emitted' = emitted \cup {dispute'}
  BY <1>1
<1>3. PICK x \in Contract!SubmittedProofs, y \in Contract!SecondProofs :
        Contract!CreateWith(c, finalized, latest, votes, t, folded, x, y)
  BY <1>2 DEF Contract!CreateDispute
<1>4. latestFork \in 0..latestFork
  BY DEF World, Contract!TypeOK
<1>5. /\ votes \in Seq(Blocks) /\ finalized \in State /\ latest \in State
      /\ folded \in Nat /\ x \in Proofs /\ y \in Proofs
  BY <1>4, CalldataType, SubmittedAreProofs
<1> QED
  BY <1>2, <1>3, <1>5, ClientCreates

(* A challenge of the others commits.                                      *)
LEMMA OtherChallengesCommit ==
    ASSUME World, NEW c \in Addr, OtherChallenges(c)
    PROVE  CommitsRecord /\ emitted' = emitted \cup {dispute'} /\ UNCHANGED clients
<1>1. PICK votes \in Contract!Votes :
        \E finalized \in Contract!Finals(dispute.forkCnt, votes),
           latest \in Contract!Claims(votes) :
            /\ UNCHANGED clients
            /\ Contract!ChallengeDispute(c, finalized, latest, votes)
            /\ emitted' = emitted \cup {dispute'}
  BY DEF OtherChallenges
<1>2. PICK finalized \in Contract!Finals(dispute.forkCnt, votes),
           latest \in Contract!Claims(votes) :
            /\ UNCHANGED clients
            /\ Contract!ChallengeDispute(c, finalized, latest, votes)
            /\ emitted' = emitted \cup {dispute'}
  BY <1>1
<1>3. PICK x \in Contract!SubmittedProofs, y \in Contract!SecondProofs :
        Contract!ChallengeWith(c, finalized, latest, votes, x, y)
  BY <1>2 DEF Contract!ChallengeDispute
<1>4. dispute.exists
  BY DEF OtherChallenges
<1>5. dispute.forkCnt \in 0..latestFork
  BY <1>4 DEF World, ForkAccounting, Contract!TypeOK, Contract!Disputes
<1>6. /\ votes \in Seq(Blocks) /\ finalized \in State /\ latest \in State
      /\ x \in Proofs /\ y \in Proofs
  BY <1>5, CalldataType, SubmittedAreProofs
<1> QED
  BY <1>2, <1>3, <1>4, <1>6, ClientChallenges

(* Steps that leave the contract alone.                                    *)
LEMMA QuietLemma ==
    ASSUME World, UNCHANGED <<now, storage, emitted>>,
           signed \subseteq signed', signed' \subseteq Addr \X Blocks
    PROVE  World' /\ Advances
<1>1. (Contract!TypeOK)'
  BY DEF World, Contract!TypeOK, storage, Contract!Posts, Contract!Disputes
<1>2. PostsOK' /\ ForkAccounting' /\ RecordsOK'
  BY DEF World, PostsOK, ForkAccounting, RecordsOK, RecordsAreNamed, Precedes, storage
<1>3. emitted' \subseteq (Contract!Disputes)'
  BY DEF World, Contract!Disputes
<1>4. Advances
  <2>1. /\ now \in Nat /\ latestFork \in Nat
        /\ \A k \in postedBlockCalldata : k.timestamp \in Nat
    BY DEF World, Contract!TypeOK, Contract!Posts
  <2> QED
    BY <2>1 DEF Advances, storage, Contract!IsChannelOpen
<1> QED
  BY <1>1, <1>2, <1>3, <1>4 DEF World

(* The channel is opened: there was none whose fork a client could hold.   *)
LEMMA OpenLemma ==
    ASSUME World, NEW members \in Founders, Contract!OpenChannel(members), emitted' = emitted
    PROVE  World' /\ Advances /\ signed' = signed
<1>1. /\ UNCHANGED <<now, latestFork, postedBlockCalldata, dispute, signed>>
      /\ encodedStates' = [encodedStates EXCEPT
                              ![0] = [number |-> 0, participants |-> members]]
      /\ genesisTimestamps' = [genesisTimestamps EXCEPT ![0] = now]
      /\ ~Contract!IsChannelOpen
  BY DEF Contract!OpenChannel
<1>2. [number |-> 0, participants |-> members] \in Contract!State
  BY ContractAssumption DEF Contract!State
<1>3. (Contract!TypeOK)'
  BY <1>1, <1>2 DEF World, Contract!TypeOK, Contract!Posts, Contract!Disputes
<1>4. PostsOK' /\ ForkAccounting' /\ RecordsOK'
  BY <1>1 DEF World, PostsOK, ForkAccounting, RecordsOK, RecordsAreNamed, Precedes
<1>5. emitted' \subseteq (Contract!Disputes)'
  BY DEF World, Contract!Disputes
<1>6. Advances
  <2>1. /\ now \in Nat /\ latestFork \in Nat
        /\ \A k \in postedBlockCalldata : k.timestamp \in Nat
    BY DEF World, Contract!TypeOK, Contract!Posts
  <2> QED
    BY <1>1, <2>1 DEF Advances
<1> QED
  BY <1>1, <1>3, <1>4, <1>5, <1>6 DEF World

(* A block is posted: its own earlier post is overwritten by a later one.  *)
LEMMA PostLemma ==
    ASSUME World, NEW b \in Blocks, Contract!PostBlockCalldata(b), emitted' = emitted
    PROVE  World' /\ Advances /\ signed' = signed
<1>1. PICK key, post :
        /\ key = Contract!PostedBy(b.forkCnt, b.transactionCnt, b.participant)
        /\ post = [forkCnt |-> b.forkCnt, transactionCnt |-> b.transactionCnt,
                   participant |-> b.participant, timestamp |-> now]
  OBVIOUS
<1>2. /\ postedBlockCalldata' = (postedBlockCalldata \ key) \cup {post}
      /\ UNCHANGED <<now, latestFork, encodedStates, genesisTimestamps, dispute, signed>>
  BY <1>1 DEF Contract!PostBlockCalldata
<1>3. now \in Nat /\ latestFork \in Nat /\ postedBlockCalldata \subseteq Contract!Posts
  BY DEF World, Contract!TypeOK
<1>4. post \in Contract!Posts
  BY <1>1, <1>3, BlocksAssumption DEF Contract!Posts, Block
<1>5. (Contract!TypeOK)'
  BY <1>2, <1>3, <1>4 DEF World, Contract!TypeOK, Contract!Posts, Contract!Disputes
<1>6. PostsOK'
  BY <1>1, <1>2, <1>3 DEF World, PostsOK
<1>7. ForkAccounting' /\ RecordsOK' /\ emitted' \subseteq (Contract!Disputes)'
  BY <1>2 DEF World, ForkAccounting, RecordsOK, RecordsAreNamed, Precedes, Contract!Disputes
<1>8. ASSUME NEW k \in postedBlockCalldata
      PROVE  \E l \in postedBlockCalldata' :
                /\ l.forkCnt = k.forkCnt /\ l.transactionCnt = k.transactionCnt
                /\ k.timestamp <= l.timestamp
  <2>1. k.timestamp \in Nat /\ k.timestamp <= now
    BY <1>3 DEF World, PostsOK, Contract!Posts
  <2>2. CASE k \in key
    BY <1>1, <1>2, <2>1, <2>2 DEF Contract!PostedBy
  <2>3. CASE k \notin key
    BY <1>2, <2>1, <2>3
  <2> QED
    BY <2>2, <2>3
<1>9. Advances
  BY <1>2, <1>3, <1>8 DEF Advances, Contract!IsChannelOpen
<1> QED
  BY <1>2, <1>5, <1>6, <1>7, <1>9 DEF World

(* Time passes.                                                            *)
LEMMA TickLemma ==
    ASSUME World, Contract!Tick, emitted' = emitted
    PROVE  World' /\ Advances /\ signed' = signed
<1>1. now' = now + 1 /\ UNCHANGED <<storage, signed>>
  BY DEF Contract!Tick, Contract!storage, storage
<1>2. /\ now \in Nat /\ latestFork \in Nat
      /\ \A k \in postedBlockCalldata : k.timestamp \in Nat
  BY DEF World, Contract!TypeOK, Contract!Posts
<1>3. (Contract!TypeOK)'
  BY <1>1, <1>2 DEF World, Contract!TypeOK, storage, Contract!Posts, Contract!Disputes
<1>4. PostsOK'
  BY <1>1, <1>2 DEF World, PostsOK, storage
<1>5. ForkAccounting' /\ RecordsOK' /\ emitted' \subseteq (Contract!Disputes)'
  BY <1>1 DEF World, ForkAccounting, RecordsOK, RecordsAreNamed, Precedes, Contract!Disputes, storage
<1>6. Advances
  BY <1>1, <1>2 DEF Advances, storage, Contract!IsChannelOpen
<1> QED
  BY <1>1, <1>3, <1>4, <1>5, <1>6 DEF World

-----------------------------------------------------------------------------
(* What the clients keep.                                                  *)

(* The chains of a client that does nothing with them stay in order.       *)
LEMMA ForksKeep ==
    ASSUME World, World', Advances, NEW p \in Honest,
           forks[p] \in Seq(Seq(EntryRecord)), forks'[p] = forks[p], ForksOK(p)
    PROVE  ForksOK(p)'
<1>1. latestFork \in Nat /\ latestFork' \in Nat /\ latestFork <= latestFork'
  BY DEF World, Contract!TypeOK, Advances
<1>2. forks[p] # <<>> => Contract!IsChannelOpen /\ (Contract!IsChannelOpen)'
  BY DEF ForksOK, Advances
<1>3. ASSUME NEW f \in 1..Len(forks[p])
      PROVE  ChainOK(p, f - 1, forks[p][f])'
  <2>1. forks[p] # <<>> /\ f - 1 \in 0..latestFork
    BY <1>1 DEF ForksOK
  <2>2. PICK chain \in Seq(EntryRecord) : chain = forks[p][f]
    OBVIOUS
  <2>3. ChainOK(p, f - 1, chain)
    BY <2>2 DEF ForksOK
  <2>4. PICK g \in 0..latestFork : g = f - 1
    BY <2>1
  <2>5. ChainOK(p, g, chain)'
    BY <1>2, <2>1, <2>3, <2>4, ChainKeeps DEF World
  <2> QED
    BY <2>2, <2>4, <2>5
<1>4. Len(forks[p]) <= latestFork' + 1
  BY <1>1 DEF ForksOK
<1> QED
  BY <1>2, <1>3, <1>4 DEF ForksOK

(* What a client signed it remembers, when no client signs.                *)
LEMMA SignedKeep ==
    ASSUME SignedOK, UNCHANGED forks,
           \A p \in Honest, b \in Blocks : Contract!SignedBy(p, b)' => Contract!SignedBy(p, b)
    PROVE  SignedOK'
BY DEF SignedOK, DidSign, HasEntry, HasBlock, HasFork, Entry, Chain

(* A call that does nothing.                                               *)
LEMMA IdleType ==
    ASSUME NEW p
    PROVE  Idle \in CallRecord /\ Idle.claim \in Claims /\ CallOK(p, Idle)
<1>1. NoState \in State
  BY DEF NoState, State
<1>2. NoClaim \in Claims
  BY <1>1 DEF NoClaim, Claims
<1> QED
  BY <1>2 DEF Idle, CallRecord, CallOK, Nobody

(* One call of one client moves, and all the others stay in order.         *)
LEMMA CallStep ==
    ASSUME World, Shapes, HandlersOK, Advances, \A q \in Honest : ForksOK(q),
           UNCHANGED forks, NEW p \in Honest, NEW k \in Calls, NEW call, NEW new,
           localProofs' = [localProofs EXCEPT ![p] = @ \cup new],
           new \subseteq Nat \X ClientProofs',
           SetCall(p, k, call), call \in CallRecord', CallOK(p, call)'
    PROVE  /\ HandlersOK'
           /\ localProofs' \in [Honest -> SUBSET (Nat \X Evidence')]
           /\ calls' \in [Honest -> [Calls -> CallRecord']]
<1>1. ClientProofs \subseteq ClientProofs' /\ Evidence \subseteq Evidence'
  BY EvidenceKeeps
<1>2. ClientProofs' \subseteq Evidence'
  BY DEF ClientProofs, Evidence, ClientKinds, Contract!AllProofKinds
<1>3. CallRecord \subseteq CallRecord'
  BY <1>1 DEF CallRecord
<1>4. localProofs' \in [Honest -> SUBSET (Nat \X Evidence')]
  BY <1>1, <1>2 DEF Shapes
<1>5. calls' \in [Honest -> [Calls -> CallRecord']]
  BY <1>3 DEF Shapes, SetCall
<1>6. ASSUME NEW q \in Honest, NEW y \in localProofs'[q]
      PROVE  y[2] \in ClientProofs'
  <2>1. localProofs'[q] \subseteq localProofs[q] \cup new
    BY DEF Shapes
  <2> QED
    BY <1>1, <1>6, <2>1 DEF HandlersOK
<1>7. ASSUME NEW q \in Honest, NEW j \in Calls
      PROVE  CallOK(q, calls[q][j])'
  <2>1. CASE q = p /\ j = k
    BY <2>1 DEF SetCall, Shapes
  <2>2. CASE ~(q = p /\ j = k)
    <3>1. PICK old \in CallRecord : old = calls[q][j]
      BY DEF Shapes
    <3>2. calls'[q][j] = old
      BY <2>2, <3>1 DEF SetCall, Shapes
    <3>3. /\ CallOK(q, old)
          /\ old.claim \in Claims /\ old.forkCnt \in Nat
      BY <3>1 DEF HandlersOK, CallRecord
    <3>4. /\ forks[q] \in Seq(Seq(EntryRecord)) /\ forks'[q] = forks[q]
          /\ Len(forks[q]) \in Nat
      BY DEF Shapes
    <3>5. CallOK(q, old)'
      BY <3>3, <3>4, CallKeeps DEF World
    <3> QED
      BY <3>2, <3>5
  <2> QED
    BY <2>1, <2>2
<1> QED
  BY <1>4, <1>5, <1>6, <1>7 DEF HandlersOK

(* Steps that leave the handlers alone.                                    *)
LEMMA HandlersKeep ==
    ASSUME World, Shapes, HandlersOK, Advances, \A q \in Honest : ForksOK(q),
           forks' \in [Honest -> Seq(Seq(EntryRecord))],
           \A q \in Honest : Len(forks[q]) <= Len(forks'[q]),
           UNCHANGED <<localProofs, calls>>
    PROVE  /\ HandlersOK'
           /\ localProofs' \in [Honest -> SUBSET (Nat \X Evidence')]
           /\ calls' \in [Honest -> [Calls -> CallRecord']]
<1>1. ClientProofs \subseteq ClientProofs' /\ Evidence \subseteq Evidence'
  BY EvidenceKeeps
<1>2. CallRecord \subseteq CallRecord'
  BY <1>1 DEF CallRecord
<1>3. ASSUME NEW q \in Honest, NEW j \in Calls
      PROVE  CallOK(q, calls[q][j])'
  <2>1. PICK old \in CallRecord : old = calls[q][j]
    BY DEF Shapes
  <2>2. /\ CallOK(q, old)
        /\ old.claim \in Claims /\ old.forkCnt \in Nat
    BY <2>1 DEF HandlersOK, CallRecord
  <2>3. forks[q] \in Seq(Seq(EntryRecord)) /\ forks'[q] \in Seq(Seq(EntryRecord))
    BY DEF Shapes
  <2>4. CallOK(q, old)'
    BY <2>2, <2>3, CallKeeps DEF World
  <2> QED
    BY <2>1, <2>4
<1>4. /\ localProofs' \in [Honest -> SUBSET (Nat \X Evidence')]
      /\ calls' \in [Honest -> [Calls -> CallRecord']]
  BY <1>1, <1>2 DEF Shapes
<1> QED
  BY <1>1, <1>3, <1>4 DEF HandlersOK

(* A chain that is back in its genesis state never left it.                *)
LEMMA GrownLemma ==
    ASSUME Contract!TypeOK, NEW p, NEW f \in 0..latestFork, NEW chain \in Seq(EntryRecord),
           ChainOK(p, f, chain), NEW h \in 1..Len(chain),
           chain[h].block.state = Contract!Genesis(f)
    PROVE  chain[h].block.previousState = Contract!Genesis(f)
<1>1. PICK b \in Block : b = chain[h].block
  BY ChainType
<1>2. PICK g \in State : g = Contract!Genesis(f)
  BY ChainType
<1>3. b.previousState = StateBefore(f, chain, h) /\ b.state = Executed(b.previousState, b)
  BY <1>1 DEF ChainOK, Follows
<1>4. CASE h = 1
  BY <1>1, <1>3, <1>4 DEF StateBefore
<1>5. CASE h # 1
  <2>1. h - 1 \in 1..Len(chain)
    BY <1>5
  <2>2. PICK s : s = chain[h - 1].block.state
    OBVIOUS
  <2>3. chain[h - 1].block \in Block /\ Grown(f, chain[h - 1].block)
    BY <2>1, ChainType DEF ChainOK
  <2>4. s \in State /\ s.participants = g.participants /\ s.number >= g.number
    BY <1>2, <2>2, <2>3 DEF Block, Grown
  <2>5. b.previousState = s
    BY <1>3, <1>5, <2>2 DEF StateBefore
  <2>6. b.amount \in Nat
    BY DEF Block
  <2>7. g = [s EXCEPT !.number = @ + b.amount]
    BY <1>1, <1>2, <1>3, <2>5 DEF Executed
  <2>8. s.number \in Nat /\ g.number = s.number + b.amount
    BY <2>4, <2>7 DEF State
  <2>9. s.number = g.number
    BY <2>4, <2>6, <2>8, <1>2 DEF State
  <2>10. s = g
    BY <1>2, <2>4, <2>9 DEF State
  <2> QED
    BY <1>1, <1>2, <2>5, <2>10
<1> QED
  BY <1>4, <1>5

(* What a client has of a fork.                                            *)
LEMMA ForkLemma ==
    ASSUME World, Shapes, NEW p \in Honest, ForksOK(p), NEW f \in Nat, HasFork(p, f)
    PROVE  /\ f \in 0..latestFork
           /\ f + 1 \in 1..Len(forks[p])
           /\ Contract!IsChannelOpen
           /\ Chain(p, f) \in Seq(EntryRecord)
           /\ ChainOK(p, f, Chain(p, f))
           /\ Contract!Genesis(f) \in State
<1>1. forks[p] \in Seq(Seq(EntryRecord)) /\ Len(forks[p]) \in Nat
  BY DEF Shapes
<1>2. f + 1 \in 1..Len(forks[p])
  BY <1>1 DEF HasFork
<1>3. latestFork \in Nat /\ Len(forks[p]) <= latestFork + 1
  BY DEF World, Contract!TypeOK, ForksOK
<1>4. f \in 0..latestFork
  BY <1>1, <1>2, <1>3
<1>5. Chain(p, f) \in Seq(EntryRecord)
  BY <1>1, <1>2 DEF Chain
<1>6. ChainOK(p, f, Chain(p, f))
  BY <1>2 DEF ForksOK, Chain
<1>7. Contract!Genesis(f) \in State
  BY <1>4 DEF World, Contract!TypeOK, Contract!Genesis, Contract!State, State
<1>8. Contract!IsChannelOpen
  BY <1>1, <1>2 DEF ForksOK
<1> QED
  BY <1>2, <1>4, <1>5, <1>6, <1>7, <1>8

(* The claim of a client is in order (getFinalizedAndLatestWithVotes).     *)
LEMMA ClaimLemma ==
    ASSUME World, Shapes, NEW p \in Honest, ForksOK(p), NEW f \in Nat, HasFork(p, f)
    PROVE  /\ FinalizedAndLatestWithVotes(p, f) \in Claims
           /\ ClaimOK(p, f, FinalizedAndLatestWithVotes(p, f))
<1>1. PICK chain \in Seq(EntryRecord) : chain = Chain(p, f)
  BY ForkLemma
<1>2. /\ f \in 0..latestFork /\ ChainOK(p, f, chain)
      /\ Contract!Genesis(f) \in State
  BY <1>1, ForkLemma
<1>3. PICK claim : claim = FinalizedAndLatestWithVotes(p, f)
  OBVIOUS
<1>4. \A h \in 1..Len(chain) :
        /\ chain[h].block \in Blocks /\ chain[h].block.state \in State
        /\ chain[h].signers \subseteq Addr
        /\ chain[h].block \in Contract!AuthorSigned
        /\ \A a \in chain[h].signers : Contract!SignedBy(a, chain[h].block)
        /\ Follows(p, f, chain, h)
  BY <1>2, ChainType DEF World, ChainOK, Vouched, Contract!AuthorSigned, Contract!SignedBy, Block
<1>5. CASE SignedHeights(p, f, p) = {}
  <2>1. claim = [finalized |-> Contract!Genesis(f), latest |-> Contract!Genesis(f),
                 votes |-> <<>>, signers |-> {}]
    BY <1>3, <1>5 DEF FinalizedAndLatestWithVotes
  <2>2. claim \in Claims
    BY <1>2, <2>1 DEF Claims
  <2>3. <<>> \in Contract!Votes
    <3>1. 0 \in 0..MaxVotes /\ <<>> \in [1..0 -> Contract!AuthorSigned]
      BY ContractAssumption
    <3> QED
      BY <3>1 DEF Contract!Votes
  <2> QED
    BY <1>3, <2>1, <2>2, <2>3 DEF ClaimOK, VotesOK
<1>6. CASE SignedHeights(p, f, p) # {}
  <2>1. PICK last : last = Latest(SignedHeights(p, f, p))
    OBVIOUS
  <2>2. Len(chain) \in Nat /\ SignedHeights(p, f, p) \subseteq 1..Len(chain)
    BY <1>1 DEF SignedHeights
  <2>3. last \in 1..Len(chain) /\ p \in chain[last].signers
    <3>1. last \in SignedHeights(p, f, p)
      BY <1>6, <2>1, <2>2, LatestLemma
    <3> QED
      BY <1>1, <3>1 DEF SignedHeights
  <2>4. PICK backing :
          backing = {h \in 1..last :
                        Contract!Genesis(f).participants \subseteq Attached(p, f, h, last)}
    OBVIOUS
  <2>5. PICK first : first = IF backing = {} THEN 1 ELSE Latest(backing)
    OBVIOUS
  <2>6. claim = [ finalized |-> IF backing = {} THEN Contract!Genesis(f)
                                ELSE chain[first].block.state,
                  latest    |-> chain[last].block.state,
                  votes     |-> Votes(p, f, first, last),
                  signers   |-> Attached(p, f, first, last) ]
    BY <1>1, <1>3, <1>6, <2>1, <2>4, <2>5 DEF FinalizedAndLatestWithVotes
  <2>7. first \in 1..last /\ (backing # {} => first \in backing)
    <3>1. last \in Nat /\ backing \subseteq 1..last
      BY <2>3, <2>4
    <3>2. CASE backing = {}
      BY <2>3, <2>5, <3>2
    <3>3. CASE backing # {}
      BY <2>5, <3>1, <3>3, LatestLemma
    <3> QED
      BY <3>2, <3>3
  <2>8. PICK n \in 1..MaxVotes : n = last + 1 - first
    BY <1>2, <2>2, <2>3, <2>7, ContractAssumption DEF ChainOK
  <2>9. PICK votes : votes = Votes(p, f, first, last)
    OBVIOUS
  <2>10. \A i \in 1..n : first + i - 1 \in 1..Len(chain)
    BY <2>2, <2>3, <2>7, <2>8
  <2>11. votes = [i \in 1..n |-> chain[first + i - 1].block]
    BY <1>1, <2>8, <2>9 DEF Votes
  <2>12. votes \in [1..n -> Contract!AuthorSigned] /\ votes \in Seq(Blocks) /\ Len(votes) = n
    <3>1. votes \in [1..n -> Contract!AuthorSigned]
      BY <1>4, <2>10, <2>11
    <3>2. votes \in [1..n -> Blocks]
      BY <1>4, <2>10, <2>11
    <3> QED
      BY <2>8, <3>1, <3>2
  <2>13. votes[1] = chain[first].block /\ votes[n] = chain[last].block /\ votes # <<>>
    <3>1. first + 1 - 1 = first /\ first + n - 1 = last /\ 1 \in 1..n /\ n \in 1..n
      BY <2>3, <2>7, <2>8
    <3> QED
      BY <2>8, <2>11, <2>12, <3>1
  <2>14. VotesOK(p, f, votes)
    <3>1. votes \in Contract!Votes
      BY <2>8, <2>12 DEF Contract!Votes
    <3>2. \A i \in 1..n : votes[i].forkCnt = f
      BY <1>4, <2>10, <2>11 DEF Follows
    <3>3. ASSUME NEW i \in 2..n
          PROVE  votes[i].previousState = votes[i - 1].state
      <4>1. PICK h : h = first + i - 1
        OBVIOUS
      <4>2. h \in 1..Len(chain) /\ h # 1 /\ h - 1 = first + (i - 1) - 1 /\ i - 1 \in 1..n
            /\ i \in 1..n
        BY <2>3, <2>7, <2>8, <2>10, <4>1
      <4>3. votes[i] = chain[h].block /\ votes[i - 1] = chain[h - 1].block
        BY <2>11, <4>1, <4>2
      <4> QED
        BY <1>4, <4>2, <4>3 DEF Follows, StateBefore
    <3>4. Contract!SignedBy(p, votes[n])
      BY <1>4, <2>3, <2>13
    <3> QED
      BY <2>12, <3>1, <3>2, <3>3, <3>4 DEF VotesOK
  <2>15. \A a \in Attached(p, f, first, last) :
            a \in Addr /\ \E i \in 1..n : Contract!SignedBy(a, votes[i])
    <3> SUFFICES ASSUME NEW a \in Attached(p, f, first, last)
                 PROVE  a \in Addr /\ \E i \in 1..n : Contract!SignedBy(a, votes[i])
      OBVIOUS
    <3>1. PICK h \in first..last : a \in chain[h].signers
      BY <1>1 DEF Attached
    <3>2. h \in 1..Len(chain) /\ h - first + 1 \in 1..n /\ first + (h - first + 1) - 1 = h
      BY <2>2, <2>3, <2>7, <2>8
    <3>3. votes[h - first + 1] = chain[h].block
      BY <2>11, <3>2
    <3> QED
      BY <1>4, <3>1, <3>2, <3>3
  <2>16. claim \in Claims
    <3>1. chain[first].block.state \in State /\ chain[last].block.state \in State
      BY <1>4, <2>2, <2>3, <2>7
    <3> QED
      BY <1>2, <2>6, <2>9, <2>12, <2>15, <3>1 DEF Claims
  <2>17. /\ claim.latest = votes[Len(votes)].state
         /\ IF claim.finalized = Contract!Genesis(f)
            THEN votes[1].previousState = claim.finalized
            ELSE votes[1].state = claim.finalized
    <3>1. first \in 1..Len(chain)
      BY <2>2, <2>3, <2>7
    <3>2. CASE backing = {}
      <4>1. first = 1 /\ claim.finalized = Contract!Genesis(f)
        BY <2>5, <2>6, <3>2
      <4>2. votes[1].previousState = Contract!Genesis(f)
        BY <1>4, <2>13, <3>1, <4>1 DEF Follows, StateBefore
      <4> QED
        BY <2>6, <2>12, <2>13, <4>1, <4>2
    <3>3. CASE backing # {}
      <4>1. claim.finalized = chain[first].block.state
        BY <2>6, <3>3
      <4>2. claim.finalized = Contract!Genesis(f) => votes[1].previousState = claim.finalized
        BY <1>2, <2>13, <3>1, <4>1, GrownLemma DEF World
      <4> QED
        BY <2>6, <2>12, <2>13, <4>1, <4>2
    <3> QED
      BY <3>2, <3>3
  <2>18. claim.finalized # Contract!Genesis(f) =>
            Contract!Genesis(f).participants \subseteq claim.signers
    BY <2>4, <2>6, <2>7
  <2>19. claim.votes = votes /\ claim.signers = Attached(p, f, first, last)
    BY <2>6, <2>9
  <2> QED
    BY <1>3, <2>12, <2>13, <2>14, <2>15, <2>16, <2>17, <2>18, <2>19 DEF ClaimOK
<1> QED
  BY <1>5, <1>6

-----------------------------------------------------------------------------
(* Every step preserves the invariant.                                     *)

(* A call goes on, whatever the chain did.                                 *)
LEMMA HandlerStep ==
    ASSUME IInv, World', Advances, UNCHANGED <<signed, forks>>,
           NEW p \in Honest, NEW k \in Calls, NEW call \in CallRecord, CallOK(p, call),
           SetCall(p, k, call),
           NEW new, new \subseteq Nat \X ClientProofs,
           localProofs' = [localProofs EXCEPT ![p] = @ \cup new],
           disputedForks' \in [Honest -> SUBSET Nat],
           disputes' \in [Honest -> [0..MaxFork -> Nat \cup {-1}]]
    PROVE  IInv'
<1>1. /\ World /\ Shapes /\ SignedOK /\ HandlersOK
      /\ \A q \in Honest : ForksOK(q)
  BY DEF IInv
<1>2. ClientProofs \subseteq ClientProofs' /\ Evidence \subseteq Evidence'
  BY EvidenceKeeps
<1>3. call \in CallRecord'
  BY <1>2 DEF CallRecord
<1>4. CallOK(p, call)'
  <2>1. call.claim \in Claims /\ call.forkCnt \in Nat
    BY DEF CallRecord
  <2>2. /\ forks[p] \in Seq(Seq(EntryRecord)) /\ forks'[p] = forks[p]
        /\ Len(forks[p]) \in Nat
    BY <1>1 DEF Shapes
  <2> QED
    BY <1>1, <2>1, <2>2, CallKeeps DEF World
<1>5. new \subseteq Nat \X ClientProofs'
  BY <1>2
<1>6. /\ HandlersOK'
      /\ localProofs' \in [Honest -> SUBSET (Nat \X Evidence')]
      /\ calls' \in [Honest -> [Calls -> CallRecord']]
  BY <1>1, <1>3, <1>4, <1>5, CallStep
<1>7. SignedOK'
  BY <1>1, SignedKeep DEF Contract!SignedBy
<1>8. ASSUME NEW q \in Honest
      PROVE  ForksOK(q)'
  <2>1. forks[q] \in Seq(Seq(EntryRecord)) /\ forks'[q] = forks[q]
    BY <1>1 DEF Shapes
  <2> QED
    BY <1>1, <2>1, ForksKeep
<1>9. Shapes'
  BY <1>1, <1>6 DEF Shapes
<1> QED
  BY <1>6, <1>7, <1>8, <1>9 DEF IInv

(* A call goes on, and the chain does not.                                 *)
LEMMA QuietCall ==
    ASSUME IInv, UNCHANGED <<now, storage, emitted, signed, forks>>,
           NEW p \in Honest, NEW k \in Calls, NEW call \in CallRecord, CallOK(p, call),
           SetCall(p, k, call),
           NEW new, new \subseteq Nat \X ClientProofs,
           localProofs' = [localProofs EXCEPT ![p] = @ \cup new],
           disputedForks' \in [Honest -> SUBSET Nat],
           disputes' \in [Honest -> [0..MaxFork -> Nat \cup {-1}]]
    PROVE  IInv'
<1>1. World /\ signed' \subseteq Addr \X Blocks /\ signed \subseteq signed'
  BY DEF IInv, World, Contract!TypeOK
<1>2. World' /\ Advances
  BY <1>1, QuietLemma
<1> QED
  BY <1>2, HandlerStep

(* A transaction commits, or another step leaves the proofs alone.         *)
LEMMA CallGoesOn ==
    ASSUME IInv, World', Advances, UNCHANGED <<signed, forks, disputedForks, localProofs, disputes>>,
           NEW p \in Honest, NEW k \in Calls, NEW call \in CallRecord, CallOK(p, call),
           SetCall(p, k, call)
    PROVE  IInv'
<1>1. PICK new : /\ new \subseteq Nat \X ClientProofs
                 /\ localProofs' = [localProofs EXCEPT ![p] = @ \cup new]
  <2>1. localProofs' = [localProofs EXCEPT ![p] = @ \cup {}]
    BY DEF IInv, Shapes
  <2> QED
    BY <2>1
<1>2. /\ disputedForks' \in [Honest -> SUBSET Nat]
      /\ disputes' \in [Honest -> [0..MaxFork -> Nat \cup {-1}]]
  BY DEF IInv, Shapes
<1> QED
  BY <1>1, <1>2, HandlerStep

(* createDispute of a fork the client has, with proofs it can make.        *)
LEMMA CreateDisputeStep ==
    ASSUME IInv, NEW p \in Honest, NEW k \in Calls, NEW f \in Nat, HasFork(p, f),
           NEW t \in Addr \cup {Nobody}, NEW folded \in Contract!Heights,
           NEW proofs, proofs \subseteq ClientProofs,
           t # Nobody /\ folded = 0 => t = NextToWrite(Contract!Genesis(f)),
           (\E x \in proofs : x.kind = "DoubleSign") =>
              t = Nobody /\ \A x \in proofs : Convicts(f, x),
           CreateDispute(p, k, f, t, folded, proofs)
    PROVE  IInv'
<1>1. World /\ Shapes /\ ForksOK(p)
  BY DEF IInv
<1>2. PICK claim : claim = FinalizedAndLatestWithVotes(p, f)
  OBVIOUS
<1>3. claim \in Claims /\ ClaimOK(p, f, claim)
  BY <1>1, <1>2, ClaimLemma
<1>4. folded \in Nat /\ ClientProofs \subseteq Evidence
  BY BlocksAssumption
     DEF Contract!Heights, Block, ClientProofs, ClientKinds, Evidence, Contract!AllProofKinds
<1>5. PICK reads : reads = [Idle EXCEPT !.pc = "read"]
  OBVIOUS
<1>6. PICK creates :
        creates = [Idle EXCEPT !.pc = "create", !.forkCnt = f, !.timedout = t,
                               !.folded = folded, !.proofs = proofs, !.claim = claim]
  OBVIOUS
<1>7. reads \in CallRecord /\ CallOK(p, reads)
  BY <1>5, IdleType DEF Idle, CallRecord, CallOK
<1>8. creates = [ pc |-> "create", forkCnt |-> f, timedout |-> t, folded |-> folded,
                  proofs |-> proofs, claim |-> claim, attempt |-> 0, challengeCnt |-> 0 ]
  BY <1>6 DEF Idle
<1>9. creates \in CallRecord
  BY <1>3, <1>4, <1>8 DEF CallRecord
<1>10. CallOK(p, creates)
  BY <1>3, <1>8 DEF CallOK
<1>11. PICK call \in CallRecord : CallOK(p, call) /\ SetCall(p, k, call)
  BY <1>2, <1>5, <1>6, <1>7, <1>9, <1>10 DEF CreateDispute
<1>12. PICK new : new = {<<f, x>> : x \in proofs}
  OBVIOUS
<1>13. new \subseteq Nat \X ClientProofs
  BY <1>12
<1>14. /\ localProofs' = [localProofs EXCEPT ![p] = @ \cup new]
       /\ disputedForks' \in [Honest -> SUBSET Nat]
       /\ disputes' \in [Honest -> [0..MaxFork -> Nat \cup {-1}]]
       /\ UNCHANGED <<now, storage, emitted, signed, forks>>
  BY <1>1, <1>12 DEF CreateDispute, Shapes
<1> QED
  BY <1>11, <1>13, <1>14, QuietCall

(* What a client finds in its chains is a proof.                           *)
LEMMA FoundAreProofs ==
    ASSUME World, Shapes, NEW p \in Honest, ForksOK(p), NEW d \in Contract!Disputes
    PROVE  /\ FoldRechallengeProofs(p, d) \subseteq ClientProofs
           /\ NewerStateProofs(p, d) \subseteq ClientProofs
<1>1. PICK f \in Nat : f = d.forkCnt
  BY DEF Contract!Disputes
<1>2. d.foldedTransactionCnt \in Nat
  BY DEF Contract!Disputes
<1>3. ASSUME NEW b \in Blocks, NEW kind \in {"FoldRechallenge", "NewerState"}
      PROVE  [kind |-> kind, block |-> b] \in ClientProofs
  <2>1. [kind |-> kind, block |-> b] \in Contract!ProofsOfKind(kind)
    BY DEF Contract!ProofsOfKind
  <2>2. kind \in ClientKinds
    BY DEF ClientKinds
  <2> QED
    BY <2>1, <2>2 DEF ClientProofs
<1>4. ASSUME NEW h \in Nat, DidEveryoneSignBlock(p, f, h)
      PROVE  Entry(p, f, h).block \in Blocks
  <2>1. HasFork(p, f) /\ h < Len(Chain(p, f))
    BY <1>4 DEF DidEveryoneSignBlock, HasBlock
  <2>2. PICK chain \in Seq(EntryRecord) : chain = Chain(p, f)
    BY <2>1, ForkLemma
  <2>3. h + 1 \in 1..Len(chain)
    BY <2>1, <2>2
  <2>4. chain[h + 1] \in EntryRecord
    BY <2>3
  <2> QED
    BY <2>2, <2>4 DEF Entry, EntryRecord
<1>5. FoldRechallengeProofs(p, d) \subseteq ClientProofs
  BY <1>1, <1>2, <1>3, <1>4 DEF FoldRechallengeProofs
<1>6. ASSUME HasFork(p, f), NEW h \in SignedHeights(p, f, d.postedStateDisputer)
      PROVE  Chain(p, f)[h].block \in Blocks
  <2>1. PICK chain \in Seq(EntryRecord) : chain = Chain(p, f)
    BY <1>6, ForkLemma
  <2>2. h \in 1..Len(chain)
    BY <2>1 DEF SignedHeights
  <2>3. chain[h] \in EntryRecord
    BY <2>2
  <2> QED
    BY <2>1, <2>3 DEF EntryRecord
<1>7. NewerStateProofs(p, d) \subseteq ClientProofs
  BY <1>1, <1>3, <1>6 DEF NewerStateProofs
<1> QED
  BY <1>5, <1>7

(* rechallengeRecursive.                                                   *)
LEMMA RechallengeStep ==
    ASSUME IInv, NEW p \in Honest, NEW k \in Calls, NEW d \in Contract!Disputes,
           RechallengeRecursive(p, k, d), disputedForks' \in [Honest -> SUBSET Nat],
           UNCHANGED <<now, storage, emitted, signed, forks>>
    PROVE  IInv'
<1>1. World /\ Shapes /\ ForksOK(p) /\ HandlersOK
  BY DEF IInv
<1>2. Idle \in CallRecord /\ CallOK(p, Idle)
  BY IdleType
<1>3. PICK f \in Nat : f = d.forkCnt
  BY DEF Contract!Disputes
<1>4. d.challengeCnt \in Nat
  BY DEF Contract!Disputes
<1>5. CASE ~ShouldUpdateDispute(p, d)
  <2>1. /\ SetCall(p, k, Idle)
        /\ disputes' \in [Honest -> [0..MaxFork -> Nat \cup {-1}]]
        /\ UNCHANGED localProofs
    BY <1>1, <1>5 DEF RechallengeRecursive, Shapes
  <2>2. PICK new : /\ new \subseteq Nat \X ClientProofs
                   /\ localProofs' = [localProofs EXCEPT ![p] = @ \cup new]
    <3>1. localProofs' = [localProofs EXCEPT ![p] = @ \cup {}]
      BY <1>1, <2>1 DEF Shapes
    <3> QED
      BY <3>1
  <2> QED
    BY <1>2, <2>1, <2>2, QuietCall
<1>6. CASE ShouldUpdateDispute(p, d)
  <2>1. PICK found : found = FoldRechallengeProofs(p, d) \cup NewerStateProofs(p, d)
    OBVIOUS
  <2>2. PICK valid : valid = FilterValidProofs(d, ProofsOf(p, d.forkCnt) \cup found)
    OBVIOUS
  <2>3. PICK call :
          call = [Idle EXCEPT !.forkCnt = d.forkCnt, !.challengeCnt = d.challengeCnt]
    OBVIOUS
  <2>4. PICK claim : claim = FinalizedAndLatestWithVotes(p, f)
    OBVIOUS
  <2>5. PICK rereads : rereads = [call EXCEPT !.pc = "reread"]
    OBVIOUS
  <2>6. PICK challenges :
          challenges = [call EXCEPT !.pc = "challenge", !.proofs = valid, !.claim = claim]
    OBVIOUS
  <2>7. found \subseteq ClientProofs
    BY <1>1, <2>1, FoundAreProofs
  <2>8. ProofsOf(p, d.forkCnt) \subseteq ClientProofs
    BY <1>1 DEF ProofsOf, HandlersOK
  <2>9. valid \subseteq ClientProofs
    BY <2>2, <2>7, <2>8 DEF FilterValidProofs
  <2>10. ClientProofs \subseteq Evidence
    BY DEF ClientProofs, ClientKinds, Evidence, Contract!AllProofKinds
  <2>11. rereads = [ pc |-> "reread", forkCnt |-> f, timedout |-> Nobody, folded |-> 0,
                     proofs |-> {}, claim |-> NoClaim, attempt |-> 0,
                     challengeCnt |-> d.challengeCnt ]
    BY <1>3, <2>3, <2>5 DEF Idle
  <2>12. challenges = [ pc |-> "challenge", forkCnt |-> f, timedout |-> Nobody, folded |-> 0,
                        proofs |-> valid, claim |-> claim, attempt |-> 0,
                        challengeCnt |-> d.challengeCnt ]
    BY <1>3, <2>3, <2>6 DEF Idle
  <2>13. rereads \in CallRecord /\ CallOK(p, rereads)
    <3>1. NoClaim \in Claims
      BY IdleType DEF Idle
    <3> QED
      BY <1>4, <2>11, <3>1 DEF CallRecord, CallOK
  <2>14. HasFork(p, f) => challenges \in CallRecord /\ CallOK(p, challenges)
    <3> SUFFICES ASSUME HasFork(p, f)
                 PROVE  challenges \in CallRecord /\ CallOK(p, challenges)
      OBVIOUS
    <3>1. claim \in Claims /\ ClaimOK(p, f, claim)
      BY <1>1, <2>4, ClaimLemma
    <3>2. challenges \in CallRecord
      BY <1>4, <2>9, <2>10, <2>12, <3>1 DEF CallRecord
    <3>3. CallOK(p, challenges)
      BY <2>9, <2>12, <3>1 DEF CallOK
    <3> QED
      BY <3>2, <3>3
  <2>15. SetCall(p, k, IF valid = {} THEN Idle
                       ELSE IF ~HasFork(p, f) THEN rereads ELSE challenges)
    BY <1>3, <1>6, <2>1, <2>2, <2>3, <2>4, <2>5, <2>6 DEF RechallengeRecursive
  <2>16. PICK after \in CallRecord : CallOK(p, after) /\ SetCall(p, k, after)
    BY <1>2, <2>13, <2>14, <2>15
  <2>17. PICK new : new = {<<d.forkCnt, x>> : x \in found}
    OBVIOUS
  <2>18. new \subseteq Nat \X ClientProofs
    BY <1>3, <2>7, <2>17
  <2>19. /\ localProofs' = [localProofs EXCEPT ![p] = @ \cup new]
         /\ disputes' = [disputes EXCEPT ![p][d.forkCnt] = d.challengeCnt]
    BY <1>6, <2>1, <2>17 DEF RechallengeRecursive
  <2>20. disputes' \in [Honest -> [0..MaxFork -> Nat \cup {-1}]]
    BY <1>1, <1>4, <2>19 DEF Shapes
  <2> QED
    BY <2>16, <2>18, <2>19, <2>20, QuietCall
<1> QED
  BY <1>5, <1>6

(* A block a client has in a chain.                                        *)
LEMMA EntryLemma ==
    ASSUME World, Shapes, NEW p \in Honest, ForksOK(p), NEW b \in Blocks, HasEntry(p, b)
    PROVE  LET chain == Chain(p, b.forkCnt)
               h     == b.transactionCnt + 1
           IN  /\ HasFork(p, b.forkCnt) /\ b.forkCnt \in 0..latestFork
               /\ chain \in Seq(EntryRecord) /\ ChainOK(p, b.forkCnt, chain)
               /\ h \in 1..Len(chain) /\ chain[h].block = b
               /\ Entry(p, b.forkCnt, b.transactionCnt) = chain[h]
               /\ b.participant \in chain[h].signers
               /\ \A a \in chain[h].signers : Contract!SignedBy(a, b)
<1>1. b \in Block /\ b.forkCnt \in Nat /\ b.transactionCnt \in Nat
  BY BlocksAssumption DEF Block
<1>2. PICK f \in Nat : f = b.forkCnt
  BY <1>1
<1>3. HasFork(p, f) /\ b.transactionCnt < Len(Chain(p, f))
  BY <1>2 DEF HasEntry, HasBlock
<1>4. f \in 0..latestFork /\ Chain(p, f) \in Seq(EntryRecord) /\ ChainOK(p, f, Chain(p, f))
  BY <1>3, ForkLemma
<1>5. PICK chain \in Seq(EntryRecord) : chain = Chain(p, f)
  BY <1>4
<1>6. PICK h \in 1..Len(chain) : h = b.transactionCnt + 1
  BY <1>1, <1>3, <1>5
<1>7. chain[h].block = b /\ Entry(p, f, b.transactionCnt) = chain[h]
  BY <1>2, <1>5, <1>6 DEF HasEntry, Entry
<1>8. Vouched(chain[h])
  BY <1>4, <1>5, <1>6 DEF ChainOK
<1> QED
  BY <1>2, <1>3, <1>4, <1>5, <1>6, <1>7, <1>8 DEF Vouched

(* A double signature is disputed: the block of the chain and the one that *)
(* arrived convict their author.                                           *)
LEMMA DoubleSignStep ==
    ASSUME IInv, NEW p \in Honest, NEW k \in Calls, NEW b \in Blocks, DisputeDoubleSign(p, k, b)
    PROVE  IInv'
<1>1. World /\ Shapes /\ ForksOK(p)
  BY DEF IInv
<1>2. PICK agreed \in DoubleSignedBlocks(p, b) :
        CreateDispute(p, k, b.forkCnt, Nobody, 0,
            {[kind |-> "DoubleSign", signer |-> b.participant, block1 |-> b, block2 |-> agreed]})
  BY DEF DisputeDoubleSign
<1>3. /\ agreed \in Blocks /\ HasEntry(p, agreed) /\ agreed # b
      /\ agreed.forkCnt = b.forkCnt /\ agreed.transactionCnt = b.transactionCnt
      /\ agreed.participant = b.participant
  BY DEF DoubleSignedBlocks
<1>4. HasFork(p, b.forkCnt) /\ Contract!SignedBy(b.participant, b)
  BY DEF DisputeDoubleSign, Arrives
<1>5. Contract!SignedBy(b.participant, agreed)
  BY <1>1, <1>3, EntryLemma
<1>6. PICK x : x = [kind |-> "DoubleSign", signer |-> b.participant,
                    block1 |-> b, block2 |-> agreed]
  OBVIOUS
<1>7. x \in ClientProofs
  <2>1. <<b.participant, b>> \in signed
    BY <1>4 DEF Contract!SignedBy
  <2>2. x \in Contract!ProofsOfKind("DoubleSign")
    BY <1>3, <1>6, <2>1 DEF Contract!ProofsOfKind
  <2> QED
    BY <2>2 DEF ClientProofs, ClientKinds
<1>8. Convicts(b.forkCnt, x)
  BY <1>3, <1>4, <1>5, <1>6 DEF Convicts
<1>9. b.forkCnt \in Nat /\ 0 \in Contract!Heights
  BY BlocksAssumption DEF Block, Contract!Heights
<1>10. PICK proofs : proofs = {x}
  OBVIOUS
<1>11. CreateDispute(p, k, b.forkCnt, Nobody, 0, proofs)
  BY <1>2, <1>6, <1>10
<1> QED
  BY <1>4, <1>7, <1>8, <1>9, <1>10, <1>11, CreateDisputeStep

(* Incorrect data is disputed: the block is of height 0 or the one before  *)
(* it is in the chain.                                                     *)
LEMMA IncorrectDataStep ==
    ASSUME IInv, NEW p \in Honest, NEW k \in Calls, NEW b \in Blocks,
           DisputeIncorrectData(p, k, b)
    PROVE  IInv'
<1>1. World /\ Shapes /\ ForksOK(p)
  BY DEF IInv
<1>2. /\ HasFork(p, b.forkCnt) /\ b \in Contract!AuthorSigned
      /\ CreateDispute(p, k, b.forkCnt, Nobody, 0, {IncorrectDataProof(p, b)})
  BY DEF DisputeIncorrectData, Arrives, Contract!AuthorSigned
<1>3. b.forkCnt \in Nat /\ b.transactionCnt \in Nat /\ 0 \in Contract!Heights
  BY BlocksAssumption DEF Block, Contract!Heights
<1>4. ASSUME b.transactionCnt # 0
      PROVE  Entry(p, b.forkCnt, b.transactionCnt - 1).block \in Contract!AuthorSigned
  <2>1. b.transactionCnt < Len(Chain(p, b.forkCnt))
    BY <1>4 DEF DisputeIncorrectData, Conflicts, HasBlock
  <2>2. PICK f \in Nat : f = b.forkCnt
    BY <1>3
  <2>3. PICK chain \in Seq(EntryRecord) : chain = Chain(p, f)
    BY <1>1, <1>2, <2>2, ForkLemma
  <2>4. ChainOK(p, f, chain)
    BY <1>1, <1>2, <2>2, <2>3, ForkLemma
  <2>5. PICK h \in 1..Len(chain) : h = b.transactionCnt /\ h = b.transactionCnt - 1 + 1
    BY <1>3, <1>4, <2>1, <2>2, <2>3
  <2>6. chain[h] \in EntryRecord /\ Vouched(chain[h])
    BY <2>4, <2>5 DEF ChainOK
  <2>7. chain[h].block \in Contract!AuthorSigned
    BY <2>6 DEF Vouched, Contract!AuthorSigned, EntryRecord
  <2> QED
    BY <2>2, <2>3, <2>5, <2>7 DEF Entry
<1>5. PICK x : x = IncorrectDataProof(p, b)
  OBVIOUS
<1>6. x \in ClientProofs /\ x.kind = "IncorrectData"
  <2>1. PICK c \in Contract!AuthorSigned :
          x = [kind |-> "IncorrectData", block1 |-> b, block2 |-> c]
    BY <1>2, <1>4, <1>5 DEF IncorrectDataProof
  <2>2. x \in Contract!ProofsOfKind("IncorrectData")
    BY <1>2, <2>1 DEF Contract!ProofsOfKind
  <2> QED
    BY <2>1, <2>2 DEF ClientProofs, ClientKinds
<1>7. PICK proofs : proofs = {x}
  OBVIOUS
<1>8. CreateDispute(p, k, b.forkCnt, Nobody, 0, proofs)
  BY <1>2, <1>5, <1>7
<1> QED
  BY <1>2, <1>3, <1>6, <1>7, <1>8, CreateDisputeStep

(* A block stamped too far in the future is disputed.                      *)
LEMMA TooFarStep ==
    ASSUME IInv, NEW p \in Honest, NEW k \in Calls, NEW b \in Blocks,
           DisputeBlockTooFarInFuture(p, k, b)
    PROVE  IInv'
<1>1. /\ HasFork(p, b.forkCnt) /\ b \in Contract!AuthorSigned
      /\ CreateDispute(p, k, b.forkCnt, Nobody, 0, {[kind |-> "BlockTooFarInFuture", block |-> b]})
  BY DEF DisputeBlockTooFarInFuture, Contract!AuthorSigned
<1>2. b.forkCnt \in Nat /\ 0 \in Contract!Heights
  BY BlocksAssumption DEF Block, Contract!Heights
<1>3. PICK x : x = [kind |-> "BlockTooFarInFuture", block |-> b]
  OBVIOUS
<1>4. x \in ClientProofs
  <2>1. x \in Contract!ProofsOfKind("BlockTooFarInFuture")
    BY <1>1, <1>3 DEF Contract!ProofsOfKind
  <2> QED
    BY <2>1 DEF ClientProofs, ClientKinds
<1>5. PICK proofs : proofs = {x}
  OBVIOUS
<1>6. CreateDispute(p, k, b.forkCnt, Nobody, 0, proofs)
  BY <1>1, <1>3, <1>5
<1> QED
  BY <1>1, <1>2, <1>3, <1>4, <1>5, <1>6, CreateDisputeStep

(* The state and the time a block of a chain is executed on.               *)
LEMMA AtLemma ==
    ASSUME World, Shapes, NEW p \in Honest, ForksOK(p), NEW f \in Nat, HasFork(p, f),
           NEW h \in Nat, h <= Len(Chain(p, f))
    PROVE  /\ StateAt(p, f, h) \in State
           /\ StateAt(p, f, h) = StateBefore(f, Chain(p, f), h + 1)
           /\ TimeAt(p, f, h) \in Nat
           /\ TimeAt(p, f, h) = TimeBefore(f, Chain(p, f), h + 1)
<1>1. PICK chain \in Seq(EntryRecord) : chain = Chain(p, f)
  BY ForkLemma
<1>2. f \in 0..latestFork /\ Contract!Genesis(f) \in State
  BY ForkLemma
<1>3. CASE h = 0
  BY <1>2, <1>3 DEF World, Contract!TypeOK, StateAt, TimeAt, StateBefore, TimeBefore
<1>4. CASE h # 0
  <2>1. h \in 1..Len(chain) /\ h - 1 + 1 = h /\ h + 1 - 1 = h /\ h + 1 # 1
    BY <1>1, <1>4
  <2>2. chain[h] \in EntryRecord
    BY <2>1
  <2>3. chain[h].block.state \in State /\ chain[h].block.timestamp \in Nat
    BY <2>2, BlocksAssumption DEF EntryRecord, Block
  <2>4. Entry(p, f, h - 1) = chain[h]
    BY <1>1, <2>1 DEF Entry
  <2> QED
    BY <1>1, <1>4, <2>1, <2>3, <2>4 DEF StateAt, TimeAt, StateBefore, TimeBefore
<1> QED
  BY <1>3, <1>4

(* A participant is timed out: at height 0 it is the first to write.       *)
LEMMA TimeoutStep ==
    ASSUME IInv, WritersAreAddresses, NEW p \in Honest, NEW k \in Calls,
           NEW f \in 0..latestFork, NEW h \in Contract!Heights, TryTimeoutParticipant(p, k, f, h)
    PROVE  IInv'
<1>1. World /\ Shapes /\ ForksOK(p)
  BY DEF IInv
<1>2. h \in Nat /\ f \in Nat
  BY BlocksAssumption DEF Contract!Heights, Block
<1>3. PICK t : t = NextToWrite(StateAt(p, f, h))
  OBVIOUS
<1>4. HasFork(p, f) /\ h <= Len(Chain(p, f)) /\ CreateDispute(p, k, f, t, h, {})
  BY <1>3 DEF TryTimeoutParticipant
<1>5. t \in Addr \cup {Nobody}
  BY <1>1, <1>2, <1>3, <1>4, AtLemma DEF WritersAreAddresses
<1>6. h = 0 => t = NextToWrite(Contract!Genesis(f))
  BY <1>3 DEF StateAt
<1>7. PICK proofs : proofs = {}
  OBVIOUS
<1>8. CreateDispute(p, k, f, t, h, proofs)
  BY <1>4, <1>7
<1> QED
  BY <1>2, <1>4, <1>5, <1>6, <1>7, <1>8, CreateDisputeStep

(* An event arrives, however late.                                         *)
LEMMA OnDisputeStep ==
    ASSUME IInv, NEW p \in Honest, NEW k \in Calls, NEW d \in emitted, OnDispute(p, k, d)
    PROVE  IInv'
<1>1. d \in Contract!Disputes /\ d.forkCnt \in Nat
  BY DEF IInv, World, Contract!Disputes
<1>2. disputedForks' \in [Honest -> SUBSET Nat]
  BY <1>1 DEF OnDispute, IInv, Shapes
<1> QED
  BY <1>1, <1>2, RechallengeStep DEF OnDispute

(* The chain answers.                                                      *)
LEMMA GetDisputeStep ==
    ASSUME IInv, NEW p \in Honest, NEW k \in Calls,
           GetDispute(p, k) \/ GetDisputeAgain(p, k)
    PROVE  IInv'
<1>1. /\ UNCHANGED <<now, storage, emitted, signed, forks, disputedForks>>
      /\ \/ RechallengeRecursive(p, k, dispute)
         \/ SetCall(p, k, Idle) /\ UNCHANGED <<localProofs, disputes>>
  BY DEF GetDispute, GetDisputeAgain
<1>2. dispute \in Contract!Disputes
  BY DEF IInv, World, Contract!TypeOK
<1>3. disputedForks' \in [Honest -> SUBSET Nat]
  BY <1>1 DEF IInv, Shapes
<1>4. CASE RechallengeRecursive(p, k, dispute)
  BY <1>1, <1>2, <1>3, <1>4, RechallengeStep
<1>5. CASE SetCall(p, k, Idle) /\ UNCHANGED <<localProofs, disputes>>
  <2>1. World /\ signed' \subseteq Addr \X Blocks /\ signed \subseteq signed'
    BY <1>1 DEF IInv, World, Contract!TypeOK
  <2>2. World' /\ Advances
    BY <1>1, <2>1, QuietLemma
  <2>3. Idle \in CallRecord /\ CallOK(p, Idle)
    BY IdleType
  <2> QED
    BY <1>1, <1>5, <2>2, <2>3, CallGoesOn
<1> QED
  BY <1>1, <1>4, <1>5

(* The call of a transaction that was sent.                                *)
LEMMA SentLemma ==
    ASSUME IInv, NEW p \in Honest, NEW k \in Calls
    PROVE  /\ calls[p][k] \in CallRecord /\ CallOK(p, calls[p][k])
           /\ calls[p][k].pc = "create" =>
                 /\ CreateRetried(calls[p][k]) \in CallRecord
                 /\ CallOK(p, CreateRetried(calls[p][k]))
           /\ [Idle EXCEPT !.pc = "read"] \in CallRecord
           /\ CallOK(p, [Idle EXCEPT !.pc = "read"])
           /\ [calls[p][k] EXCEPT !.pc = "reread"] \in CallRecord
           /\ CallOK(p, [calls[p][k] EXCEPT !.pc = "reread"])
<1>1. PICK call \in CallRecord : call = calls[p][k] /\ CallOK(p, call)
  BY DEF IInv, Shapes, HandlersOK
<1>2. Idle \in CallRecord /\ CallOK(p, Idle)
  BY IdleType
<1>3. PICK retried : retried = [call EXCEPT !.attempt = 1]
  OBVIOUS
<1>4. /\ retried \in CallRecord
      /\ retried.pc = call.pc /\ retried.proofs = call.proofs /\ retried.claim = call.claim
      /\ retried.forkCnt = call.forkCnt /\ retried.folded = call.folded
      /\ retried.timedout = call.timedout
  BY <1>3 DEF CallRecord
<1>5. CallOK(p, retried)
  BY <1>1, <1>4 DEF CallOK
<1>6. PICK reads : reads = [Idle EXCEPT !.pc = "read"]
  OBVIOUS
<1>7. reads \in CallRecord /\ CallOK(p, reads)
  BY <1>2, <1>6 DEF Idle, CallRecord, CallOK
<1>8. PICK rereads : rereads = [call EXCEPT !.pc = "reread"]
  OBVIOUS
<1>9. rereads \in CallRecord /\ rereads.pc = "reread" /\ rereads.proofs = call.proofs
  BY <1>8 DEF CallRecord
<1>10. CallOK(p, rereads)
  BY <1>1, <1>9 DEF CallOK
<1> QED
  BY <1>1, <1>2, <1>3, <1>4, <1>5, <1>6, <1>7, <1>8, <1>9, <1>10 DEF CreateRetried

(* A transaction fails.                                                    *)
LEMMA FailsStep ==
    ASSUME IInv, NEW p \in Honest, NEW k \in Calls,
           CreateFails(p, k) \/ ChallengeFails(p, k)
    PROVE  IInv'
<1>1. /\ UNCHANGED <<now, storage, emitted, signed, forks, disputedForks, localProofs, disputes>>
      /\ \/ calls[p][k].pc = "create" /\ SetCall(p, k, CreateRetried(calls[p][k]))
         \/ SetCall(p, k, [calls[p][k] EXCEPT !.pc = "reread"])
  BY DEF CreateFails, ChallengeFails
<1>2. PICK after \in CallRecord : CallOK(p, after) /\ SetCall(p, k, after)
  BY <1>1, SentLemma
<1>3. World /\ signed' \subseteq Addr \X Blocks /\ signed \subseteq signed'
  BY <1>1 DEF IInv, World, Contract!TypeOK
<1>4. World' /\ Advances
  BY <1>1, <1>3, QuietLemma
<1> QED
  BY <1>1, <1>2, <1>4, CallGoesOn

(* What a transaction carries.                                             *)
LEMMA SentType ==
    ASSUME IInv, NEW p \in Honest, NEW k \in Calls, Pending(p, k)
    PROVE  /\ p \in Addr
           /\ calls[p][k].claim.votes \in Seq(Blocks)
           /\ calls[p][k].claim.finalized \in State
           /\ calls[p][k].claim.latest \in State
           /\ calls[p][k].timedout \in Addr \cup {Nobody}
           /\ calls[p][k].folded \in Nat
           /\ calls[p][k].proofs \cup {Contract!NoProof} \subseteq Proofs
<1>1. calls[p][k] \in CallRecord
  BY DEF IInv, Shapes
<1>2. calls[p][k].claim \in Claims /\ calls[p][k].proofs \subseteq Evidence
  BY <1>1 DEF CallRecord
<1> QED
  BY <1>1, <1>2, ContractAssumption DEF CallRecord, Claims, Proofs

(* The dispute of a client commits.                                        *)
LEMMA CreateCommitsStep ==
    ASSUME IInv, NEW p \in Honest, NEW k \in Calls, CreateCommits(p, k)
    PROVE  CommitsRecord /\ IInv'
<1>1. World
  BY DEF IInv
<1>2. PICK call : call = calls[p][k]
  OBVIOUS
<1>3. /\ call.pc = "create"
      /\ \E after \in {[Idle EXCEPT !.pc = "read"], CreateRetried(call)} : SetCall(p, k, after)
      /\ UNCHANGED <<signed, forks, disputedForks, localProofs, disputes>>
      /\ emitted' = emitted \cup {dispute'}
  BY <1>2 DEF CreateCommits
<1>4. PICK x \in call.proofs \cup {Contract!NoProof}, y \in call.proofs \cup {Contract!NoProof} :
        Contract!CreateWith(p, call.claim.finalized, call.claim.latest, call.claim.votes,
                            call.timedout, call.folded, x, y)
  BY <1>2 DEF CreateCommits
<1>5. /\ p \in Addr /\ call.claim.votes \in Seq(Blocks)
      /\ call.claim.finalized \in State /\ call.claim.latest \in State
      /\ call.timedout \in Addr \cup {Nobody} /\ call.folded \in Nat
      /\ x \in Proofs /\ y \in Proofs
  BY <1>2, <1>3, SentType DEF Pending
<1>6. CommitsRecord
  BY <1>1, <1>4, <1>5, ClientCreates
<1>7. World' /\ Advances
  BY <1>1, <1>3, <1>6, CommitLemma
<1>8. PICK after \in CallRecord : CallOK(p, after) /\ SetCall(p, k, after)
  BY <1>2, <1>3, SentLemma
<1>9. IInv'
  BY <1>3, <1>7, <1>8, CallGoesOn
<1> QED
  BY <1>6, <1>9

(* The challenge of a client commits.                                      *)
LEMMA ChallengeCommitsStep ==
    ASSUME IInv, NEW p \in Honest, NEW k \in Calls, ChallengeCommits(p, k)
    PROVE  CommitsRecord /\ IInv'
<1>1. World
  BY DEF IInv
<1>2. PICK call : call = calls[p][k]
  OBVIOUS
<1>3. /\ call.pc = "challenge"
      /\ SetCall(p, k, [call EXCEPT !.pc = "reread"])
      /\ UNCHANGED <<signed, forks, disputedForks, localProofs, disputes>>
      /\ emitted' = emitted \cup {dispute'}
      /\ dispute.exists
  BY <1>2 DEF ChallengeCommits, Contract!MayChallenge
<1>4. PICK x \in call.proofs \cup {Contract!NoProof}, y \in call.proofs \cup {Contract!NoProof} :
        Contract!ChallengeWith(p, call.claim.finalized, call.claim.latest, call.claim.votes, x, y)
  BY <1>2 DEF ChallengeCommits
<1>5. /\ p \in Addr /\ call.claim.votes \in Seq(Blocks)
      /\ call.claim.finalized \in State /\ call.claim.latest \in State
      /\ x \in Proofs /\ y \in Proofs
  BY <1>2, <1>3, SentType DEF Pending
<1>6. CommitsRecord
  BY <1>1, <1>3, <1>4, <1>5, ClientChallenges
<1>7. World' /\ Advances
  BY <1>1, <1>3, <1>6, CommitLemma
<1>8. PICK after \in CallRecord : CallOK(p, after) /\ SetCall(p, k, after)
  BY <1>2, <1>3, SentLemma
<1>9. IInv'
  BY <1>3, <1>7, <1>8, CallGoesOn
<1> QED
  BY <1>6, <1>9

(* A client works on one of its chains, and may sign.                      *)
LEMMA ForksStep ==
    ASSUME IInv, UNCHANGED <<now, storage, emitted, handlers>>,
           signed \subseteq signed', signed' \subseteq Forgeries \cup (Honest \X Blocks),
           NEW p \in Honest, NEW mine \in Seq(Seq(EntryRecord)),
           forks' = [forks EXCEPT ![p] = mine], Len(forks[p]) <= Len(mine),
           World' /\ Advances => ForksOK(p)',
           SignedOK'
    PROVE  IInv'
<1>1. /\ World /\ Shapes /\ HandlersOK
      /\ \A q \in Honest : ForksOK(q)
  BY DEF IInv
<1>2. signed' \subseteq Addr \X Blocks
  BY ContractAssumption, ForgeriesAssumption
<1>3. World' /\ Advances
  BY <1>1, <1>2, QuietLemma
<1>4. /\ forks' \in [Honest -> Seq(Seq(EntryRecord))]
      /\ \A q \in Honest : Len(forks[q]) <= Len(forks'[q])
      /\ \A q \in Honest \ {p} : forks'[q] = forks[q]
  <2>1. forks' \in [Honest -> Seq(Seq(EntryRecord))]
    BY <1>1 DEF Shapes
  <2>2. ASSUME NEW q \in Honest
        PROVE  Len(forks[q]) <= Len(forks'[q]) /\ (q # p => forks'[q] = forks[q])
    <3>1. forks[q] \in Seq(Seq(EntryRecord)) /\ Len(forks[q]) \in Nat
      BY <1>1 DEF Shapes
    <3>2. CASE q = p
      BY <1>1, <3>2 DEF Shapes
    <3>3. CASE q # p
      BY <1>1, <3>1, <3>3 DEF Shapes
    <3> QED
      BY <3>2, <3>3
  <2> QED
    BY <2>1, <2>2
<1>5. /\ HandlersOK'
      /\ localProofs' \in [Honest -> SUBSET (Nat \X Evidence')]
      /\ calls' \in [Honest -> [Calls -> CallRecord']]
  BY <1>1, <1>3, <1>4, HandlersKeep DEF handlers
<1>6. ASSUME NEW q \in Honest
      PROVE  ForksOK(q)'
  <2>1. CASE q = p
    BY <1>3, <2>1
  <2>2. CASE q # p
    <3>1. forks[q] \in Seq(Seq(EntryRecord)) /\ forks'[q] = forks[q]
      BY <1>1, <1>4, <2>2 DEF Shapes
    <3> QED
      BY <1>1, <1>3, <3>1, ForksKeep
  <2> QED
    BY <2>1, <2>2
<1>7. Shapes'
  BY <1>1, <1>4, <1>5 DEF Shapes, handlers
<1> QED
  BY <1>3, <1>5, <1>6, <1>7 DEF IInv

(* What a client did sign it did sign, in longer chains and with more      *)
(* signatures too.                                                         *)
LEMMA SignedGrow ==
    ASSUME SignedOK, NEW p \in Honest, NEW b \in Blocks,
           signed' \subseteq signed \cup {<<p, b>>},
           Contract!SignedBy(p, b)' => DidSign(p, b)',
           \A q \in Honest, c \in Blocks : DidSign(q, c) => DidSign(q, c)'
    PROVE  SignedOK'
BY DEF SignedOK, Contract!SignedBy

(* A chain that replaces the one of fork f.                                *)
LEMMA ChainStep ==
    ASSUME World, World', Advances, Shapes, NEW p \in Honest, ForksOK(p),
           NEW f \in Nat, HasFork(p, f), NEW chain \in Seq(EntryRecord),
           forks' = [forks EXCEPT ![p][f + 1] = chain],
           ChainOK(p, f, chain)'
    PROVE  ForksOK(p)'
<1>1. /\ f \in 0..latestFork /\ f + 1 \in 1..Len(forks[p]) /\ Contract!IsChannelOpen
  BY ForkLemma
<1>2. PICK mine \in Seq(Seq(EntryRecord)) : mine = forks[p]
  BY DEF Shapes
<1>3. forks'[p] = [mine EXCEPT ![f + 1] = chain]
  BY <1>2 DEF Shapes
<1>4. Len(forks'[p]) = Len(mine) /\ (Contract!IsChannelOpen)' /\ latestFork <= latestFork'
  BY <1>1, <1>2, <1>3 DEF Advances
<1>5. ASSUME NEW g \in 1..Len(mine)
      PROVE  ChainOK(p, g - 1, forks[p][g])'
  <2>1. CASE g = f + 1
    BY <1>1, <1>2, <1>3, <2>1
  <2>2. CASE g # f + 1
    <3>1. forks'[p][g] = mine[g] /\ mine[g] \in Seq(EntryRecord)
      BY <1>2, <1>3, <2>2
    <3>2. PICK old \in Seq(EntryRecord) : old = mine[g]
      BY <3>1
    <3>3. PICK i \in 0..latestFork : i = g - 1
      <4>1. latestFork \in Nat /\ Len(mine) <= latestFork + 1
        BY <1>2 DEF ForksOK, World, Contract!TypeOK
      <4>2. g - 1 \in 0..latestFork
        BY <4>1
      <4> QED
        BY <4>2
    <3>4. ChainOK(p, i, old)
      BY <1>2, <3>2, <3>3 DEF ForksOK
    <3>5. ChainOK(p, i, old)'
      BY <1>1, <3>4, ChainKeeps DEF World
    <3> QED
      BY <3>1, <3>2, <3>3, <3>5
  <2> QED
    BY <2>1, <2>2
<1>6. Len(mine) <= latestFork' + 1
  BY <1>2, <1>4 DEF ForksOK, World, Contract!TypeOK
<1> QED
  BY <1>4, <1>5, <1>6 DEF ForksOK

(* A chain that grows, or collects signatures, keeps what was signed.      *)
LEMMA DidSignKeeps ==
    ASSUME Shapes, NEW p \in Honest, NEW f \in Nat, HasFork(p, f),
           NEW chain \in Seq(EntryRecord), chain = Chain(p, f),
           NEW longer \in Seq(EntryRecord), Len(chain) <= Len(longer),
           \A h \in 1..Len(chain) : /\ longer[h].block = chain[h].block
                                    /\ chain[h].signers \subseteq longer[h].signers,
           forks' = [forks EXCEPT ![p][f + 1] = longer],
           NEW q \in Honest, NEW c \in Blocks, DidSign(q, c)
    PROVE  DidSign(q, c)'
<1>1. c.forkCnt \in Nat /\ c.transactionCnt \in Nat
  BY BlocksAssumption DEF Block
<1>2. PICK mine \in Seq(Seq(EntryRecord)) : mine = forks[q]
  BY DEF Shapes
<1>3. PICK g, h : g = c.forkCnt + 1 /\ h = c.transactionCnt + 1
  OBVIOUS
<1>4. g \in 1..Len(mine) /\ mine[g] \in Seq(EntryRecord) /\ h \in 1..Len(mine[g])
  <2>1. /\ c.forkCnt < Len(mine) /\ c.transactionCnt < Len(mine[g])
    BY <1>2, <1>3 DEF DidSign, HasEntry, HasBlock, HasFork, Chain
  <2>2. g \in 1..Len(mine)
    BY <1>1, <1>3, <2>1
  <2>3. mine[g] \in Seq(EntryRecord)
    BY <2>2
  <2>4. Len(mine[g]) \in Nat
    BY <2>3
  <2>5. h \in 1..Len(mine[g])
    BY <1>1, <1>3, <2>1, <2>4
  <2> QED
    BY <2>2, <2>3, <2>5
<1>5. mine[g][h].block = c /\ q \in mine[g][h].signers
  BY <1>2, <1>3 DEF DidSign, HasEntry, Entry, Chain
<1>6. CASE q = p /\ g = f + 1
  <2>1. forks'[q] = [mine EXCEPT ![f + 1] = longer]
    BY <1>2, <1>6 DEF Shapes
  <2>2. Len(forks'[q]) = Len(mine) /\ forks'[q][g] = longer
    BY <1>4, <1>6, <2>1
  <2>3. chain = mine[g]
    BY <1>2, <1>6 DEF Chain
  <2>4. h \in 1..Len(longer) /\ longer[h].block = c /\ q \in longer[h].signers
    BY <1>4, <1>5, <2>3
  <2>5. c.forkCnt < Len(forks'[q]) /\ c.transactionCnt < Len(longer)
    <3>1. Len(mine) \in Nat /\ Len(longer) \in Nat
      OBVIOUS
    <3>2. c.forkCnt + 1 <= Len(mine) /\ c.transactionCnt + 1 <= Len(longer)
      BY <1>3, <1>4, <2>4
    <3>3. c.forkCnt < Len(mine)
      BY <1>1, <3>1, <3>2
    <3>4. c.transactionCnt < Len(longer)
      BY <1>1, <3>1, <3>2
    <3> QED
      BY <2>2, <3>3, <3>4
  <2>6. Chain(q, c.forkCnt)' = longer
    BY <1>3, <2>2 DEF Chain
  <2> QED
    BY <1>3, <2>4, <2>5, <2>6 DEF DidSign, HasEntry, HasBlock, HasFork, Entry
<1>7. CASE ~(q = p /\ g = f + 1)
  <2>1. Len(forks'[q]) = Len(mine) /\ forks'[q][g] = mine[g]
    BY <1>2, <1>4, <1>7 DEF Shapes
  <2> QED
    BY <1>1, <1>2, <1>3, <1>4, <1>5, <2>1
       DEF DidSign, HasEntry, HasBlock, HasFork, Entry, Chain
<1> QED
  BY <1>6, <1>7

(* A block that can be executed extends the chain.                         *)
LEMMA ExtendLemma ==
    ASSUME World, World', Advances, Shapes, NEW p \in Honest, ForksOK(p),
           NEW b \in Blocks, Executable(p, b), Contract!SignedBy(b.participant, b)',
           NEW chain \in Seq(EntryRecord), chain = Chain(p, b.forkCnt),
           NEW longer \in Seq(EntryRecord),
           longer = Append(chain, [block |-> b, signers |-> {b.participant}])
    PROVE  ChainOK(p, b.forkCnt, longer)'
<1>1. b \in Block /\ b.forkCnt \in Nat /\ b.transactionCnt \in Nat /\ b.amount \in Nat
  BY BlocksAssumption DEF Block
<1>2. PICK f \in Nat : f = b.forkCnt
  BY <1>1
<1>3. /\ HasFork(p, f)
      /\ b.transactionCnt = Len(chain) /\ Len(chain) < MaxVotes
      /\ \A e \in Entries(p) : p \in e.signers
      /\ b.previousState = StateAt(p, f, b.transactionCnt)
      /\ b.participant = NextToWrite(b.previousState)
      /\ b.state = Executed(b.previousState, b)
      /\ b.timestamp >= TimeAt(p, f, b.transactionCnt)
      /\ p # b.participant => Contract!IsGoodTimestamp(TimeAt(p, f, b.transactionCnt), b)
  BY <1>2 DEF Executable
<1>4. /\ f \in 0..latestFork /\ f + 1 \in 1..Len(forks[p]) /\ Contract!IsChannelOpen
      /\ ChainOK(p, f, chain) /\ Contract!Genesis(f) \in State
  BY <1>2, <1>3, ForkLemma
<1>5. ChainOK(p, f, chain)'
  BY <1>4, ChainKeeps DEF World
<1>6. PICK n \in Nat : n = Len(chain)
  OBVIOUS
<1>7. /\ Len(longer) = n + 1
      /\ \A h \in 1..n : longer[h] = chain[h]
      /\ longer[n + 1] = [block |-> b, signers |-> {b.participant}]
  BY <1>6
<1>27. /\ StateAt(p, f, n) \in State /\ TimeAt(p, f, n) \in Nat
       /\ StateAt(p, f, n) = StateBefore(f, chain, n + 1)
       /\ TimeAt(p, f, n) = TimeBefore(f, chain, n + 1)
  <2>1. HasFork(p, f) /\ chain = Chain(p, f) /\ n <= Len(chain)
    BY <1>2, <1>3, <1>6
  <2> QED
    BY <2>1, AtLemma
<1>8. PICK s \in State : s = StateAt(p, f, n)
  BY <1>27
<1>9. PICK t \in Nat : t = TimeAt(p, f, n)
  BY <1>27
<1>10. s = StateBefore(f, chain, n + 1) /\ t = TimeBefore(f, chain, n + 1)
  BY <1>8, <1>9, <1>27
<1>11. /\ encodedStates'[f] = encodedStates[f]
       /\ genesisTimestamps'[f] = genesisTimestamps[f]
  BY <1>4 DEF Advances
<1>12. n # 0 => n \in 1..n /\ n + 1 - 1 = n /\ n + 1 # 1
  OBVIOUS
<1>13. s = StateBefore(f, longer, n + 1)' /\ t = TimeBefore(f, longer, n + 1)'
  BY <1>7, <1>10, <1>11, <1>12 DEF StateBefore, TimeBefore, Contract!Genesis
<1>14. p # b.participant => Contract!IsGoodTimestamp(t, b)'
  BY <1>3, <1>6, <1>9, GoodTimestampKeeps DEF World
<1>15. Follows(p, f, longer, n + 1)'
  BY <1>2, <1>3, <1>6, <1>7, <1>8, <1>9, <1>13, <1>14, SMTT(30) DEF Follows
<1>16. Vouched(longer[n + 1])'
  BY <1>7 DEF Vouched
<1>17. Grown(f, b)'
  <2>1. PICK g \in State : g = Contract!Genesis(f)
    BY <1>4
  <2>2. s.participants = g.participants /\ s.number >= g.number
    <3>1. CASE n = 0
      BY <1>10, <2>1, <3>1 DEF StateBefore, State
    <3>2. CASE n # 0
      <4>1. s = chain[n].block.state /\ n \in 1..Len(chain)
        BY <1>6, <1>10, <1>12, <3>2 DEF StateBefore
      <4>2. Grown(f, chain[n].block)
        BY <1>4, <4>1 DEF ChainOK
      <4> QED
        BY <2>1, <4>1, <4>2 DEF Grown
    <3> QED
      BY <3>1, <3>2
  <2>3. b.state = [s EXCEPT !.number = @ + b.amount]
    BY <1>3, <1>6, <1>8 DEF Executed
  <2>4. b.state.participants = s.participants /\ b.state.number = s.number + b.amount
    BY <2>3 DEF State
  <2>5. s.number \in Nat /\ g.number \in Nat
    BY DEF State
  <2>6. b.state.participants = g.participants /\ b.state.number >= g.number
    BY <1>1, <2>2, <2>4, <2>5
  <2>7. Contract!Genesis(f)' = g
    BY <1>11, <2>1 DEF Contract!Genesis
  <2> QED
    BY <2>6, <2>7 DEF Grown
<1>18. ASSUME NEW h \in 1..n
       PROVE  /\ Vouched(longer[h])' /\ Follows(p, f, longer, h)' /\ Grown(f, longer[h].block)'
              /\ p \in longer[h].signers
  <2>1. Vouched(chain[h])' /\ Follows(p, f, chain, h)' /\ Grown(f, chain[h].block)'
    BY <1>5, <1>6 DEF ChainOK
  <2>2. h # 1 => h - 1 \in 1..n
    OBVIOUS
  <2>3. /\ StateBefore(f, longer, h)' = StateBefore(f, chain, h)'
        /\ TimeBefore(f, longer, h)' = TimeBefore(f, chain, h)'
    BY <1>7, <2>2 DEF StateBefore, TimeBefore
  <2>4. Follows(p, f, longer, h)'
    BY <1>7, <2>1, <2>3 DEF Follows
  <2>5. chain[h] \in Entries(p)
    <3>1. f + 1 \in DOMAIN forks[p] /\ chain = forks[p][f + 1] /\ h \in DOMAIN chain
      BY <1>2, <1>4, <1>6 DEF Shapes, Chain
    <3> QED
      BY <3>1 DEF Entries
  <2> QED
    BY <1>3, <1>7, <2>1, <2>4, <2>5
<1>19. Len(longer) <= MaxVotes
  BY <1>3, <1>6, <1>7, ContractAssumption
<1>20. \A h \in 1..(n + 1) : h \in 1..n \/ h = n + 1
  OBVIOUS
<1>21. ChainOK(p, f, longer)'
  <2>1. ASSUME NEW h \in 1..Len(longer)
        PROVE  /\ Vouched(longer[h])' /\ Follows(p, f, longer, h)' /\ Grown(f, longer[h].block)'
               /\ h < Len(longer) => p \in longer[h].signers
    <3>1. CASE h \in 1..n
      BY <1>18, <3>1
    <3>2. CASE h = n + 1
      BY <1>7, <1>15, <1>16, <1>17, <3>2
    <3> QED
      BY <1>7, <1>20, <3>1, <3>2
  <2> QED
    BY <1>19, <2>1 DEF ChainOK
<1> QED
  BY <1>2, <1>21

(* The client records a block.                                             *)
LEMMA AddBlockStep ==
    ASSUME IInv, NEW p \in Honest, NEW b \in Blocks, Executable(p, b), AddBlock(p, b),
           \/ UNCHANGED signed /\ Contract!SignedBy(b.participant, b)
           \/ p = b.participant /\ signed' = signed \cup {<<p, b>>}
    PROVE  IInv'
<1>1. World /\ Shapes /\ ForksOK(p) /\ SignedOK
  BY DEF IInv
<1>2. PICK f \in Nat : f = b.forkCnt
  BY BlocksAssumption DEF Block
<1>3. HasFork(p, f)
  BY <1>2 DEF Executable
<1>4. PICK chain \in Seq(EntryRecord) : chain = Chain(p, f)
  BY <1>1, <1>3, ForkLemma
<1>5. PICK e : e = [block |-> b, signers |-> {b.participant}]
  OBVIOUS
<1>6. e \in EntryRecord
  BY <1>5, BlocksAssumption DEF EntryRecord, Block
<1>7. PICK longer \in Seq(EntryRecord) : longer = Append(chain, e)
  <2>1. Append(chain, e) \in Seq(EntryRecord)
    BY <1>6
  <2> QED
    BY <2>1
<1>8. PICK mine \in Seq(Seq(EntryRecord)) : mine = forks[p]
  BY <1>1 DEF Shapes
<1>9. f + 1 \in 1..Len(mine) /\ chain = mine[f + 1]
  BY <1>1, <1>3, <1>4, <1>8, ForkLemma DEF Chain
<1>10. PICK more \in Seq(Seq(EntryRecord)) : more = [mine EXCEPT ![f + 1] = longer]
  <2>1. [mine EXCEPT ![f + 1] = longer] \in Seq(Seq(EntryRecord))
    BY <1>9
  <2> QED
    BY <2>1
<1>11. Len(more) = Len(mine)
  BY <1>10
<1>12. /\ forks' = [forks EXCEPT ![p] = more]
       /\ forks' = [forks EXCEPT ![p][f + 1] = longer]
       /\ UNCHANGED <<now, storage, emitted, handlers>>
  <2>1. forks' = [forks EXCEPT ![p][f + 1] = Append(@, e)]
    BY <1>2, <1>5 DEF AddBlock
  <2>2. forks' = [forks EXCEPT ![p] = [forks[p] EXCEPT ![f + 1] = Append(@, e)]]
    BY <2>1
  <2>3. [forks[p] EXCEPT ![f + 1] = Append(@, e)] = more
    BY <1>7, <1>8, <1>9, <1>10
  <2>4. [forks EXCEPT ![p][f + 1] = longer] = [forks EXCEPT ![p] = more]
    BY <1>8, <1>10
  <2> QED
    BY <2>2, <2>3, <2>4 DEF AddBlock
<1>13. /\ signed \subseteq signed' /\ signed' \subseteq signed \cup {<<p, b>>}
       /\ signed' \subseteq Forgeries \cup (Honest \X Blocks)
       /\ Contract!SignedBy(b.participant, b)'
  BY <1>1 DEF Shapes, Contract!SignedBy
<1>14. \A h \in 1..Len(chain) : longer[h] = chain[h]
  BY <1>7
<1>15. Len(longer) = Len(chain) + 1 /\ longer[Len(chain) + 1] = e
  BY <1>7
<1>16. World' /\ Advances => ForksOK(p)'
  <2> SUFFICES ASSUME World', Advances
               PROVE  ForksOK(p)'
    OBVIOUS
  <2>1. ChainOK(p, b.forkCnt, longer)'
    BY <1>1, <1>2, <1>4, <1>5, <1>7, <1>13, ExtendLemma
  <2> QED
    BY <1>1, <1>2, <1>3, <1>12, <2>1, ChainStep
<1>17. \A q \in Honest, c \in Blocks : DidSign(q, c) => DidSign(q, c)'
  <2>1. Len(chain) <= Len(longer)
    BY <1>15
  <2>2. \A h \in 1..Len(chain) : /\ longer[h].block = chain[h].block
                                 /\ chain[h].signers \subseteq longer[h].signers
    BY <1>14
  <2> QED
    <3>1. TAKE q \in Honest, c \in Blocks
    <3>2. HAVE DidSign(q, c)
    <3>3. /\ Shapes /\ HasFork(p, f) /\ chain = Chain(p, f)
          /\ forks' = [forks EXCEPT ![p][f + 1] = longer]
      BY <1>1, <1>3, <1>4, <1>12
    <3> QED
      BY <2>1, <2>2, <3>2, <3>3, DidSignKeeps
<1>18. Contract!SignedBy(p, b)' => DidSign(p, b)'
  <2>1. CASE UNCHANGED signed
    BY <1>1, <1>17, <2>1 DEF SignedOK, Contract!SignedBy
  <2>2. CASE p = b.participant
    <3>1. b.transactionCnt = Len(chain) /\ Len(chain) \in Nat
      BY <1>2, <1>4 DEF Executable
    <3>2. forks'[p] = more
      BY <1>1, <1>12 DEF Shapes
    <3>3. more[f + 1] = longer /\ f < Len(more)
      BY <1>9, <1>10, <1>11
    <3>4. longer[b.transactionCnt + 1] = e /\ b.transactionCnt < Len(longer)
      BY <1>15, <3>1
    <3> QED
      BY <1>2, <1>5, <2>2, <3>2, <3>3, <3>4
         DEF DidSign, HasEntry, HasBlock, HasFork, Entry, Chain
  <2> QED
    BY <2>1, <2>2
<1>19. SignedOK'
  BY <1>1, <1>13, <1>17, <1>18, SignedGrow
<1>20. Len(forks[p]) <= Len(more)
  BY <1>8, <1>11
<1> QED
  BY <1>12, <1>13, <1>16, <1>19, <1>20, ForksStep

(* The client records a signature, its own when it confirms.               *)
LEMMA AddSignerStep ==
    ASSUME IInv, NEW p \in Honest, NEW b \in Blocks, NEW a \in Addr,
           HasEntry(p, b), AddSigner(p, b, a),
           \/ UNCHANGED signed /\ Contract!SignedBy(a, b)
           \/ p = a /\ signed' = signed \cup {<<p, b>>}
    PROVE  IInv'
<1>1. World /\ Shapes /\ ForksOK(p) /\ SignedOK
  BY DEF IInv
<1>2. PICK f \in Nat, n \in Nat : f = b.forkCnt /\ n = b.transactionCnt + 1
  BY BlocksAssumption DEF Block
<1>3. PICK chain \in Seq(EntryRecord) : chain = Chain(p, f)
  BY <1>1, <1>2, EntryLemma
<1>4. /\ HasFork(p, f) /\ f \in 0..latestFork
      /\ n \in 1..Len(chain) /\ chain[n].block = b /\ ChainOK(p, f, chain)
  BY <1>1, <1>2, <1>3, EntryLemma
<1>5. PICK e : e = [chain[n] EXCEPT !.signers = @ \cup {a}]
  OBVIOUS
<1>6. e \in EntryRecord /\ e.block = b /\ e.signers = chain[n].signers \cup {a}
  <2>1. chain[n] \in EntryRecord
    BY <1>4
  <2> QED
    BY <1>4, <1>5, <2>1 DEF EntryRecord
<1>7. PICK fuller \in Seq(EntryRecord) : fuller = [chain EXCEPT ![n] = e]
  <2>1. [chain EXCEPT ![n] = e] \in Seq(EntryRecord)
    BY <1>4, <1>6
  <2> QED
    BY <2>1
<1>8. /\ Len(fuller) = Len(chain) /\ fuller[n] = e
      /\ \A h \in 1..Len(chain) : h # n => fuller[h] = chain[h]
  BY <1>4, <1>7
<1>9. \A h \in 1..Len(chain) : /\ fuller[h].block = chain[h].block
                               /\ chain[h].signers \subseteq fuller[h].signers
  BY <1>4, <1>6, <1>8
<1>10. PICK mine \in Seq(Seq(EntryRecord)) : mine = forks[p]
  BY <1>1 DEF Shapes
<1>11. f + 1 \in 1..Len(mine) /\ chain = mine[f + 1]
  BY <1>1, <1>3, <1>4, <1>10, ForkLemma DEF Chain
<1>12. PICK more \in Seq(Seq(EntryRecord)) : more = [mine EXCEPT ![f + 1] = fuller]
  <2>1. [mine EXCEPT ![f + 1] = fuller] \in Seq(Seq(EntryRecord))
    BY <1>11
  <2> QED
    BY <2>1
<1>13. Len(more) = Len(mine)
  BY <1>12
<1>14. /\ forks' = [forks EXCEPT ![p] = more]
       /\ forks' = [forks EXCEPT ![p][f + 1] = fuller]
       /\ UNCHANGED <<now, storage, emitted, handlers>>
  <2>1. forks' = [forks EXCEPT ![p][f + 1][n].signers = @ \cup {a}]
    BY <1>2 DEF AddSigner
  <2>2. forks' = [forks EXCEPT ![p] =
                    [forks[p] EXCEPT ![f + 1] =
                        [forks[p][f + 1] EXCEPT ![n] =
                            [forks[p][f + 1][n] EXCEPT !.signers = @ \cup {a}]]]]
    BY <2>1
  <2>3. forks' = [forks EXCEPT ![p] = more]
    BY <1>5, <1>7, <1>10, <1>11, <1>12, <2>2
  <2>4. [forks EXCEPT ![p][f + 1] = fuller] = [forks EXCEPT ![p] = more]
    BY <1>10, <1>12
  <2> QED
    BY <2>3, <2>4 DEF AddSigner
<1>15. /\ signed \subseteq signed' /\ signed' \subseteq signed \cup {<<p, b>>}
       /\ signed' \subseteq Forgeries \cup (Honest \X Blocks)
       /\ Contract!SignedBy(a, b)'
  BY <1>1 DEF Shapes, Contract!SignedBy
<1>16. World' /\ Advances => ForksOK(p)'
  <2> SUFFICES ASSUME World', Advances
               PROVE  ForksOK(p)'
    OBVIOUS
  <2>1. ChainOK(p, f, chain)'
    <3>1. Contract!IsChannelOpen
      BY <1>1, <1>4, ForkLemma
    <3> QED
      BY <1>1, <1>4, <3>1, ChainKeeps DEF World
  <2>2. ASSUME NEW h \in 1..Len(chain)
        PROVE  /\ Vouched(fuller[h])' /\ Follows(p, f, fuller, h)'
               /\ Grown(f, fuller[h].block)'
               /\ h < Len(chain) => p \in fuller[h].signers
    <3>1. /\ Vouched(chain[h])' /\ Follows(p, f, chain, h)' /\ Grown(f, chain[h].block)'
          /\ h < Len(chain) => p \in chain[h].signers
      BY <2>1 DEF ChainOK
    <3>2. h # 1 => h - 1 \in 1..Len(chain)
      OBVIOUS
    <3>3. /\ StateBefore(f, fuller, h)' = StateBefore(f, chain, h)'
          /\ TimeBefore(f, fuller, h)' = TimeBefore(f, chain, h)'
      BY <1>9, <3>2 DEF StateBefore, TimeBefore
    <3>4. Follows(p, f, fuller, h)'
      BY <1>9, <3>1, <3>3 DEF Follows
    <3>5. Vouched(fuller[h])'
      <4>1. CASE h = n
        BY <1>4, <1>6, <1>8, <1>15, <3>1, <4>1 DEF Vouched
      <4>2. CASE h # n
        BY <1>8, <3>1, <4>2 DEF Vouched
      <4> QED
        BY <4>1, <4>2
    <3> QED
      BY <1>9, <3>1, <3>4, <3>5
  <2>3. ChainOK(p, f, fuller)'
    BY <1>8, <2>1, <2>2 DEF ChainOK
  <2> QED
    BY <1>1, <1>4, <1>14, <2>3, ChainStep
<1>17. \A q \in Honest, c \in Blocks : DidSign(q, c) => DidSign(q, c)'
  <2>1. Len(chain) <= Len(fuller)
    BY <1>8
  <2> QED
    <3>1. TAKE q \in Honest, c \in Blocks
    <3>2. HAVE DidSign(q, c)
    <3>3. /\ Shapes /\ HasFork(p, f) /\ chain = Chain(p, f)
          /\ forks' = [forks EXCEPT ![p][f + 1] = fuller]
      BY <1>1, <1>3, <1>4, <1>14
    <3> QED
      BY <1>9, <2>1, <3>2, <3>3, DidSignKeeps
<1>18. Contract!SignedBy(p, b)' => DidSign(p, b)'
  <2>1. CASE UNCHANGED signed
    BY <1>1, <1>17, <2>1 DEF SignedOK, Contract!SignedBy
  <2>2. CASE p = a
    <3>1. forks'[p] = more
      BY <1>1, <1>14 DEF Shapes
    <3>2. more[f + 1] = fuller /\ f < Len(more)
      BY <1>11, <1>12, <1>13
    <3>3. fuller[b.transactionCnt + 1] = e /\ b.transactionCnt < Len(fuller)
      BY <1>2, <1>4, <1>8, BlocksAssumption DEF Block
    <3> QED
      BY <1>2, <1>6, <2>2, <3>1, <3>2, <3>3
         DEF DidSign, HasEntry, HasBlock, HasFork, Entry, Chain
  <2> QED
    BY <2>1, <2>2
<1>19. SignedOK'
  BY <1>1, <1>15, <1>17, <1>18, SignedGrow
<1>20. Len(forks[p]) <= Len(more)
  BY <1>10, <1>13
<1> QED
  BY <1>14, <1>15, <1>16, <1>19, <1>20, ForksStep

(* The client learns of a fork.                                            *)
LEMMA NewForkStep ==
    ASSUME IInv, NEW p \in Honest, NewFork(p)
    PROVE  IInv'
<1>1. World /\ Shapes /\ ForksOK(p) /\ SignedOK
  BY DEF IInv
<1>2. PICK mine \in Seq(Seq(EntryRecord)) : mine = forks[p]
  BY <1>1 DEF Shapes
<1>3. PICK more \in Seq(Seq(EntryRecord)) : more = Append(mine, <<>>)
  <2>1. <<>> \in Seq(EntryRecord)
    OBVIOUS
  <2>2. Append(mine, <<>>) \in Seq(Seq(EntryRecord))
    BY <2>1
  <2> QED
    BY <2>2
<1>4. /\ Contract!IsChannelOpen /\ Len(mine) <= latestFork
      /\ forks' = [forks EXCEPT ![p] = more]
      /\ UNCHANGED <<now, storage, emitted, signed, handlers>>
  BY <1>2, <1>3 DEF NewFork
<1>5. /\ Len(more) = Len(mine) + 1 /\ more[Len(mine) + 1] = <<>>
      /\ \A g \in 1..Len(mine) : more[g] = mine[g]
  BY <1>3
<1>6. forks'[p] = more
  BY <1>1, <1>4 DEF Shapes
<1>7. World' /\ Advances => ForksOK(p)'
  <2> SUFFICES ASSUME World', Advances
               PROVE  ForksOK(p)'
    OBVIOUS
  <2>1. ASSUME NEW g \in 1..Len(more)
        PROVE  ChainOK(p, g - 1, more[g])'
    <3>1. CASE g \in 1..Len(mine)
      <4>1. PICK old \in Seq(EntryRecord) : old = mine[g]
        BY <3>1
      <4>2. PICK i \in 0..latestFork : i = g - 1
        <5>1. latestFork \in Nat /\ Len(mine) <= latestFork + 1
          BY <1>1, <1>2 DEF ForksOK, World, Contract!TypeOK
        <5>2. g - 1 \in 0..latestFork
          BY <3>1, <5>1
        <5> QED
          BY <5>2
      <4>3. ChainOK(p, i, old)
        BY <1>1, <1>2, <3>1, <4>1, <4>2 DEF ForksOK
      <4>4. ChainOK(p, i, old)'
        BY <1>1, <1>4, <4>3, ChainKeeps DEF World
      <4> QED
        BY <1>5, <3>1, <4>1, <4>2, <4>4
    <3>2. CASE g = Len(mine) + 1
      BY <1>5, <3>2, ContractAssumption DEF ChainOK
    <3> QED
      BY <1>5, <3>1, <3>2
  <2>2. Len(more) <= latestFork' + 1 /\ (Contract!IsChannelOpen)'
    <3>1. latestFork \in Nat /\ latestFork' \in Nat /\ latestFork <= latestFork'
      BY <1>1 DEF World, Contract!TypeOK, Advances
    <3> QED
      BY <1>4, <1>5, <3>1 DEF Advances
  <2> QED
    BY <1>6, <2>1, <2>2 DEF ForksOK
<1>8. ASSUME NEW q \in Honest, NEW c \in Blocks, DidSign(q, c)
      PROVE  DidSign(q, c)'
  <2>1. CASE q = p
    <3>1. c.forkCnt \in Nat
      BY BlocksAssumption DEF Block
    <3>2. c.forkCnt < Len(mine)
      BY <1>2, <1>8, <2>1 DEF DidSign, HasEntry, HasBlock, HasFork
    <3>3. c.forkCnt + 1 \in 1..Len(mine) /\ c.forkCnt < Len(more)
      BY <1>5, <3>1, <3>2
    <3>4. Chain(p, c.forkCnt)' = Chain(p, c.forkCnt)
      BY <1>2, <1>5, <1>6, <3>3 DEF Chain
    <3> QED
      BY <1>6, <1>8, <2>1, <3>3, <3>4 DEF DidSign, HasEntry, HasBlock, HasFork, Entry
  <2>2. CASE q # p
    <3>1. forks'[q] = forks[q]
      BY <1>1, <1>4, <2>2 DEF Shapes
    <3> QED
      BY <1>8, <3>1 DEF DidSign, HasEntry, HasBlock, HasFork, Entry, Chain
  <2> QED
    BY <2>1, <2>2
<1>9. SignedOK'
  BY <1>1, <1>4, <1>8 DEF SignedOK, Contract!SignedBy
<1>10. /\ signed \subseteq signed' /\ signed' \subseteq Forgeries \cup (Honest \X Blocks)
       /\ Len(forks[p]) <= Len(more)
  BY <1>1, <1>2, <1>4, <1>5 DEF Shapes
<1> QED
  BY <1>4, <1>7, <1>9, <1>10, ForksStep

(* Everybody else.                                                         *)
LEMMA OthersStep ==
    ASSUME IInv, Others
    PROVE  IInv'
<1>1. /\ World /\ Shapes /\ SignedOK /\ HandlersOK
      /\ \A q \in Honest : ForksOK(q)
  BY DEF IInv
<1>2. /\ World' /\ Advances /\ UNCHANGED clients
      /\ signed' \subseteq Forgeries \cup (Honest \X Blocks)
      /\ \A p \in Honest, b \in Blocks : Contract!SignedBy(p, b)' => Contract!SignedBy(p, b)
  <2>1. ASSUME NEW p \in Addr, NEW b \in Blocks, ForgeSignature(p, b)
        PROVE  /\ World' /\ Advances /\ UNCHANGED clients
               /\ signed' \subseteq Forgeries \cup (Honest \X Blocks)
               /\ \A q \in Honest, c \in Blocks :
                     Contract!SignedBy(q, c)' => Contract!SignedBy(q, c)
    <3>1. /\ signed' = signed \cup {<<p, b>>} /\ <<p, b>> \in Forgeries /\ p \notin Honest
          /\ UNCHANGED <<now, storage, emitted, clients>>
      BY <2>1, ForgeriesAssumption DEF ForgeSignature, Sign
    <3>2. /\ signed \subseteq signed' /\ signed' \subseteq Addr \X Blocks
          /\ signed' \subseteq Forgeries \cup (Honest \X Blocks)
      <4>1. signed \subseteq Addr \X Blocks /\ <<p, b>> \in Addr \X Blocks
        BY <1>1 DEF World, Contract!TypeOK
      <4>2. signed \subseteq Forgeries \cup (Honest \X Blocks)
        BY <1>1 DEF Shapes
      <4> QED
        BY <3>1, <4>1, <4>2
    <3> QED
      BY <1>1, <3>1, <3>2, QuietLemma DEF Contract!SignedBy
  <2>2. ASSUME World' /\ Advances /\ signed' = signed, UNCHANGED clients
        PROVE  /\ World' /\ Advances /\ UNCHANGED clients
               /\ signed' \subseteq Forgeries \cup (Honest \X Blocks)
               /\ \A q \in Honest, c \in Blocks :
                     Contract!SignedBy(q, c)' => Contract!SignedBy(q, c)
    BY <1>1, <2>2 DEF Shapes, Contract!SignedBy
  <2>3. ASSUME NEW c \in Addr, OtherDisputes(c) \/ OtherChallenges(c)
        PROVE  World' /\ Advances /\ signed' = signed /\ UNCHANGED clients
    BY <1>1, <2>3, OtherDisputesCommit, OtherChallengesCommit, CommitLemma
  <2>4. ASSUME NEW members \in Founders, Silent, Contract!OpenChannel(members)
        PROVE  World' /\ Advances /\ signed' = signed /\ UNCHANGED clients
    BY <1>1, <2>4, OpenLemma DEF Silent
  <2>5. ASSUME NEW b \in Postable, Silent, Contract!PostBlockCalldata(b)
        PROVE  World' /\ Advances /\ signed' = signed /\ UNCHANGED clients
    BY <1>1, <2>5, PostLemma, ForgeriesAssumption DEF Silent
  <2>6. ASSUME Silent, Contract!Tick
        PROVE  World' /\ Advances /\ signed' = signed /\ UNCHANGED clients
    BY <1>1, <2>6, TickLemma DEF Silent
  <2> QED
    BY <2>1, <2>2, <2>3, <2>4, <2>5, <2>6 DEF Others
<1>3. /\ forks' = forks /\ disputedForks' = disputedForks /\ disputes' = disputes
      /\ UNCHANGED <<localProofs, calls>>
  BY <1>2 DEF clients, handlers
<1>4. ASSUME NEW q \in Honest
      PROVE  ForksOK(q)'
  <2>1. forks[q] \in Seq(Seq(EntryRecord)) /\ forks'[q] = forks[q]
    BY <1>1, <1>3 DEF Shapes
  <2> QED
    BY <1>1, <1>2, <2>1, ForksKeep
<1>5. SignedOK'
  BY <1>1, <1>2, <1>3, SignedKeep
<1>6. \A q \in Honest : Len(forks[q]) <= Len(forks'[q])
  <2>1. \A q \in Honest : Len(forks[q]) \in Nat
    BY <1>1 DEF Shapes
  <2> QED
    BY <1>3, <2>1
<1>7. forks' \in [Honest -> Seq(Seq(EntryRecord))]
  BY <1>1, <1>3 DEF Shapes
<1>8. /\ HandlersOK'
      /\ localProofs' \in [Honest -> SUBSET (Nat \X Evidence')]
      /\ calls' \in [Honest -> [Calls -> CallRecord']]
  BY <1>1, <1>2, <1>3, <1>6, <1>7, HandlersKeep
<1>9. Shapes'
  BY <1>1, <1>2, <1>3, <1>7, <1>8 DEF Shapes
<1> QED
  BY <1>2, <1>4, <1>5, <1>8, <1>9 DEF IInv

(* The invariant holds at first.                                           *)
LEMMA InitLemma ==
    ASSUME Init
    PROVE  IInv
<1>1. /\ emitted = {} /\ forks = [p \in Honest |-> <<>>]
      /\ disputedForks = [p \in Honest |-> {}] /\ localProofs = [p \in Honest |-> {}]
      /\ disputes = [p \in Honest |-> [f \in 0..MaxFork |-> -1]]
      /\ calls = [p \in Honest |-> [k \in Calls |-> Idle]]
  BY DEF Init
<1>2. /\ now = 0 /\ latestFork = 0 /\ encodedStates = [f \in {0} |-> Contract!NoState]
      /\ genesisTimestamps = [f \in {0} |-> 0] /\ postedBlockCalldata = {}
      /\ dispute = Contract!NoDispute /\ signed = {}
  BY DEF Init, Contract!Init
<1>3. Contract!NoDispute \in Contract!Disputes /\ ~Contract!NoDispute.exists
  BY DEF Contract!NoDispute, Contract!Disputes, Contract!NoState, Contract!State, Contract!Nobody
<1>4. Contract!TypeOK
  BY <1>2, <1>3 DEF Contract!TypeOK, Contract!NoState, Contract!State
<1>5. World
  BY <1>1, <1>2, <1>3, <1>4 DEF World, PostsOK, ForkAccounting, RecordsOK, RecordsAreNamed
<1>6. Idle \in CallRecord /\ \A p \in Honest : CallOK(p, Idle)
  BY IdleType
<1>7. <<>> \in Seq(Seq(EntryRecord)) /\ Len(<<>>) = 0
  OBVIOUS
<1>8. Shapes
  BY <1>1, <1>2, <1>6, <1>7 DEF Shapes
<1>9. SignedOK
  BY <1>2 DEF SignedOK, Contract!SignedBy
<1>10. HandlersOK
  BY <1>1, <1>6 DEF HandlersOK
<1>11. \A p \in Honest : ForksOK(p)
  BY <1>1, <1>2, <1>7 DEF ForksOK
<1> QED
  BY <1>5, <1>8, <1>9, <1>10, <1>11 DEF IInv

(* What a client does of its own accord.                                   *)
LEMMA PlayStep ==
    ASSUME IInv, NEW p \in Honest, Play(p)
    PROVE  IInv'
<1>1. ASSUME NEW b \in Blocks, ExecuteBlock(p, b)
      PROVE  IInv'
  BY <1>1, AddBlockStep DEF ExecuteBlock
<1>2. ASSUME NEW b \in Blocks, PlayTransaction(p, b)
      PROVE  IInv'
  BY <1>2, AddBlockStep DEF PlayTransaction, Sign
<1>3. ASSUME NEW b \in Blocks, ConfirmBlock(p, b)
      PROVE  IInv'
  BY <1>3, AddSignerStep, ContractAssumption DEF ConfirmBlock, Sign
<1>4. ASSUME NEW b \in Blocks, NEW a \in Addr, OnBlockConfirmation(p, b, a)
      PROVE  IInv'
  BY <1>4, AddSignerStep DEF OnBlockConfirmation
<1> QED
  BY <1>1, <1>2, <1>3, <1>4, NewForkStep DEF Play

(* The client notices something.                                           *)
LEMMA NoticeStep ==
    ASSUME IInv, WritersAreAddresses, NEW p \in Honest, NEW k \in Calls, Notice(p, k)
    PROVE  IInv'
BY DoubleSignStep, IncorrectDataStep, TooFarStep, TimeoutStep, OnDisputeStep DEF Notice

(* A call under way takes a step.                                          *)
LEMMA StepStep ==
    ASSUME IInv, NEW p \in Honest, NEW k \in Calls, Step(p, k)
    PROVE  IInv'
BY CreateCommitsStep, ChallengeCommitsStep, FailsStep, GetDisputeStep DEF Step

(* Nothing happens.                                                        *)
LEMMA StutterStep ==
    ASSUME IInv, UNCHANGED vars
    PROVE  IInv'
<1>1. /\ World /\ Shapes /\ SignedOK /\ HandlersOK
      /\ \A q \in Honest : ForksOK(q)
  BY DEF IInv
<1>2. /\ UNCHANGED <<now, storage, emitted>> /\ signed' = signed
      /\ forks' = forks /\ disputedForks' = disputedForks /\ disputes' = disputes
      /\ UNCHANGED <<localProofs, calls>>
  BY DEF vars, handlers
<1>3. signed' \subseteq Addr \X Blocks /\ signed \subseteq signed'
  BY <1>1, <1>2 DEF World, Contract!TypeOK
<1>4. World' /\ Advances
  BY <1>1, <1>2, <1>3, QuietLemma
<1>5. ASSUME NEW q \in Honest
      PROVE  ForksOK(q)' /\ Len(forks[q]) <= Len(forks'[q])
  <2>1. forks[q] \in Seq(Seq(EntryRecord)) /\ forks'[q] = forks[q] /\ Len(forks[q]) \in Nat
    BY <1>1, <1>2 DEF Shapes
  <2> QED
    BY <1>1, <1>4, <2>1, ForksKeep
<1>6. SignedOK'
  BY <1>1, <1>2, SignedKeep DEF Contract!SignedBy
<1>7. forks' \in [Honest -> Seq(Seq(EntryRecord))]
  BY <1>1, <1>2 DEF Shapes
<1>8. /\ HandlersOK'
      /\ localProofs' \in [Honest -> SUBSET (Nat \X Evidence')]
      /\ calls' \in [Honest -> [Calls -> CallRecord']]
  BY <1>1, <1>2, <1>4, <1>5, <1>7, HandlersKeep
<1>9. Shapes'
  BY <1>1, <1>2, <1>7, <1>8 DEF Shapes
<1> QED
  BY <1>4, <1>5, <1>6, <1>8, <1>9 DEF IInv

(* The invariant is inductive, so that it holds in every reachable state.  *)
THEOREM Invariance ==
    ASSUME WritersAreAddresses
    PROVE  Spec => []IInv
<1>1. Init => IInv
  BY InitLemma
<1>2. ASSUME IInv, Next
      PROVE  IInv'
  BY <1>2, PlayStep, NoticeStep, StepStep, OthersStep DEF Next
<1>3. IInv /\ [Next]_vars => IInv'
  BY <1>2, StutterStep
<1> QED
  BY <1>1, <1>3, PTL DEF Spec

-----------------------------------------------------------------------------
(* What follows from it.                                                   *)

(* The contract finds what the claim says (isFinalizedAndLatest).          *)
LEMMA ClaimStands ==
    ASSUME NEW p, NEW f, NEW claim \in Claims, ClaimOK(p, f, claim), claim.signers \subseteq Addr
    PROVE  /\ ClaimBacked(f, claim)
           /\ Contract!IsFinalizedAndLatest(f, claim.finalized, claim.latest, claim.votes,
                                            Contract!Genesis(f).participants)
<1>1. PICK votes \in Seq(Blocks) : votes = claim.votes
  BY DEF Claims
<1>2. VotesOK(p, f, votes)
  BY <1>1 DEF ClaimOK
<1>3. ClaimBacked(f, claim)
  BY DEF ClaimOK, ClaimBacked
<1>4. claim.signers \subseteq UNION {Contract!Signers(votes[i]) : i \in DOMAIN votes}
  <2>1. ASSUME NEW a \in claim.signers
        PROVE  \E i \in DOMAIN votes : a \in Contract!Signers(votes[i])
    BY <1>1, <2>1 DEF ClaimOK, Contract!Signers, Contract!SignedBy
  <2> QED
    BY <2>1
<1>5. \/ claim.finalized = Contract!Genesis(f)
      \/ Contract!Genesis(f).participants
            \subseteq UNION {Contract!Signers(votes[i]) : i \in DOMAIN votes}
  BY <1>4 DEF ClaimOK
<1>6. \A i \in DOMAIN votes : votes[i].forkCnt = f
  BY <1>1, <1>2 DEF VotesOK
<1>7. \A i \in 2..Len(votes) : votes[i].previousState = votes[i - 1].state
  BY <1>2 DEF VotesOK
<1>8. votes # <<>> =>
        /\ IF claim.finalized = Contract!Genesis(f)
           THEN votes[1].previousState = claim.finalized
           ELSE votes[1].state = claim.finalized
        /\ votes[Len(votes)].state = claim.latest
  BY <1>1 DEF ClaimOK
<1> QED
  BY <1>1, <1>3, <1>5, <1>6, <1>7, <1>8 DEF Contract!IsFinalizedAndLatest

(* What the clients keep is well typed.                                    *)
THEOREM TypeOKHolds ==
    ASSUME WritersAreAddresses
    PROVE  Spec => []TypeOK
<1>1. IInv => TypeOK
  BY DEF IInv, World, Shapes, TypeOK
<1> QED
  BY <1>1, Invariance, PTL

(* The fork and the number of challenges name one record, whatever retries *)
(* and races there are (DisputeHandler.shouldUpdateDispute).               *)
THEOREM RecordsAreNamedHolds ==
    ASSUME WritersAreAddresses
    PROVE  Spec => []RecordsAreNamed
<1>1. IInv => RecordsAreNamed
  BY DEF IInv, World, RecordsOK
<1> QED
  BY <1>1, Invariance, PTL

(* The claim of a transaction under way is one the contract agrees with,   *)
(* however late it gets there (getFinalizedAndLatestWithVotes against      *)
(* isFinalizedAndLatest).                                                  *)
THEOREM ClaimsStandHolds ==
    ASSUME WritersAreAddresses
    PROVE  Spec => []ClaimsStand
<1>1. ASSUME IInv
      PROVE  ClaimsStand
  <2> SUFFICES ASSUME NEW p \in Honest, NEW k \in Calls, Pending(p, k)
               PROVE  LET f == calls[p][k].forkCnt
                          claim == calls[p][k].claim
                      IN  /\ ClaimBacked(f, claim)
                          /\ Contract!IsFinalizedAndLatest(
                                f, claim.finalized, claim.latest, claim.votes,
                                Contract!Genesis(f).participants)
    BY DEF ClaimsStand
  <2>1. calls[p][k] \in CallRecord /\ CallOK(p, calls[p][k])
    BY <1>1, SentLemma
  <2>2. /\ calls[p][k].claim \in Claims
        /\ calls[p][k].claim.signers \subseteq Addr
        /\ ClaimOK(p, calls[p][k].forkCnt, calls[p][k].claim)
    BY <2>1 DEF CallRecord, Claims, CallOK, Pending
  <2> QED
    BY <2>2, ClaimStands
<1>2. IInv => ClaimsStand
  BY <1>1
<1> QED
  BY <1>2, Invariance, PTL

(* What a client has against a double signer is enough for the contract,   *)
(* as long as nobody else was first (DisputeHandler.disputeDoubleSign      *)
(* against createDispute).                                                 *)
THEOREM EvidenceSufficesHolds ==
    ASSUME WritersAreAddresses
    PROVE  Spec => []EvidenceSuffices
<1>1. ASSUME IInv
      PROVE  EvidenceSuffices
  <2> SUFFICES ASSUME NEW p \in Honest, NEW k \in Calls, NEW call, call = calls[p][k],
                      call.pc = "create",
                      call.forkCnt = latestFork, ~Contract!IsDisputeInProgress,
                      p \in Contract!Genesis(latestFork).participants,
                      \E x \in call.proofs : x.kind = "DoubleSign",
                      dispute.slashedParticipants = {}
               PROVE  Acceptable(p, call)
    BY DEF EvidenceSuffices
  <2>1. call \in CallRecord /\ CallOK(p, call)
    BY <1>1, SentLemma
  <2>2. PICK claim \in Claims : claim = call.claim
    BY <2>1 DEF CallRecord
  <2>3. claim.signers \subseteq Addr /\ ClaimOK(p, latestFork, claim)
    BY <2>1, <2>2 DEF Claims, CallOK
  <2>4. /\ ClaimBacked(latestFork, claim)
        /\ Contract!IsFinalizedAndLatest(latestFork, claim.finalized, claim.latest, claim.votes,
                                         Contract!Genesis(latestFork).participants)
    BY <2>3, ClaimStands
  <2>5. call.timedout = Nobody /\ \A x \in call.proofs : Convicts(latestFork, x)
    BY <2>1 DEF CallOK
  <2>6. Contract!MayOpen(p, claim.finalized, claim.latest, claim.votes,
                         call.timedout, call.folded)
    BY <2>4, <2>5 DEF Contract!MayOpen, Contract!Nobody, Nobody
  <2>7. PICK opened :
          opened = Contract!OpenedRecord(p, claim.finalized, claim.latest, claim.votes,
                                         call.timedout, call.folded)
    OBVIOUS
  <2>8. dispute \in Contract!Disputes
    BY <1>1 DEF IInv, World, Contract!TypeOK
  <2>9. opened.forkCnt = latestFork /\ opened.slashedParticipants = {}
    BY <2>7, <2>8 DEF Contract!OpenedRecord, Contract!Disputes
  <2>10. ASSUME NEW x \in call.proofs
         PROVE  /\ Decodes(x)
                /\ Contract!ProofValid(opened, p, x)
                /\ Contract!ProofSucceeds(opened, x)
    <3>1. Convicts(latestFork, x) /\ x.kind = "DoubleSign"
      BY <2>5 DEF Convicts
    <3>2. Contract!ProofValid(opened, p, x)
      BY <2>9, <3>1 DEF Convicts, Contract!ProofValid, Contract!DoubleSignValid
    <3>3. Contract!ProofSucceeds(opened, x)
      BY <2>9, <3>1 DEF Contract!ProofSucceeds, Contract!Unslashed
    <3> QED
      BY <3>1, <3>2, <3>3 DEF Decodes, WrittenAsText
  <2>11. Contract!Unslashed(opened, p)
    BY <2>9 DEF Contract!Unslashed
  <2> QED
    BY <2>2, <2>4, <2>6, <2>7, <2>10, <2>11 DEF Acceptable
<1>2. IInv => EvidenceSuffices
  BY <1>1
<1> QED
  BY <1>2, Invariance, PTL

-----------------------------------------------------------------------------
(* The clients implement what the contract takes honest participants to do.*)

(* The bounds and the switches of the contract's model that the client     *)
(* asks for: both of its proofs can be submitted, two at once, and it      *)
(* confirms on a fork where it timed somebody out, as the code does.       *)
ClientsFit ==
    /\ MaxProofs > 1
    /\ {"DoubleSign", "BlockTooFarInFuture"} \subseteq ProofKinds
    /\ StopsSigning = FALSE

(* The contract's module counts as this one does.                          *)
LEMMA SameCardinality ==
    ASSUME NEW S
    PROVE  Contract!Cardinality(S) = Cardinality(S)
BY DEF Contract!Cardinality, Cardinality

(* What the client signs is what HonestSigns allows.                       *)
LEMMA SignsHonestly ==
    ASSUME IInv, ClientsFit, NEW p \in Honest, NEW b \in Blocks,
           NEW chain \in Seq(EntryRecord), chain = Chain(p, b.forkCnt), HasFork(p, b.forkCnt),
           b.transactionCnt <= Len(chain),
           \A h \in 1..b.transactionCnt : p \in chain[h].signers,
           b.transactionCnt < Len(chain) =>
              chain[b.transactionCnt + 1].block = b /\ ~DidSign(p, b),
           b.previousState = StateAt(p, b.forkCnt, b.transactionCnt),
           b.participant = NextToWrite(b.previousState),
           b.state = Executed(b.previousState, b),
           NEW ts, ts = TimeAt(p, b.forkCnt, b.transactionCnt), b.timestamp >= ts,
           p = b.participant => b.timestamp = IF now < ts THEN ts + 1 ELSE now,
           Punctual \/ p # b.participant => Contract!IsGoodTimestamp(ts, b),
           p # b.participant => Contract!SignedBy(b.participant, b),
           Cardinality(signed) < MaxSignatures, signed' = signed \cup {<<p, b>>},
           UNCHANGED <<now, storage>>
    PROVE  Contract!SignBlock(p, b)
<1>1. World /\ Shapes /\ ForksOK(p) /\ SignedOK
  BY DEF IInv
<1>2. PICK f \in Nat, n \in Nat : f = b.forkCnt /\ n = b.transactionCnt
  BY BlocksAssumption DEF Block
<1>3. f \in 0..latestFork /\ ChainOK(p, f, chain)
  BY <1>1, <1>2, ForkLemma
<1>4. ASSUME NEW x \in Blocks, Contract!SignedBy(p, x), x.forkCnt = f, x.transactionCnt = n
      PROVE  FALSE
  <2>1. DidSign(p, x) /\ HasEntry(p, x)
    BY <1>1, <1>4 DEF SignedOK, DidSign
  <2>2. n + 1 \in 1..Len(chain) /\ chain[n + 1].block = x
    BY <1>1, <1>2, <1>4, <2>1, EntryLemma
  <2>3. n < Len(chain)
    BY <2>2
  <2>4. b = x
    BY <1>2, <2>2, <2>3
  <2> QED
    BY <1>2, <2>1, <2>3, <2>4
<1>5. ~Contract!SignedBy(p, b)
  BY <1>2, <1>4
<1>6. ts \in Contract!PreviousTimestamp(p, b)
  <2>1. CASE n = 0
    <3>1. b.previousState = Contract!Genesis(f) /\ ts = genesisTimestamps[f]
      BY <1>2, <2>1 DEF StateAt, TimeAt
    <3> QED
      BY <1>2, <2>1, <3>1 DEF Contract!PreviousTimestamp
  <2>2. CASE n # 0
    <3>1. n \in 1..Len(chain) /\ n - 1 + 1 = n
      BY <1>2, <2>2
    <3>2. PICK y : y = chain[n].block
      OBVIOUS
    <3>3. chain[n] \in EntryRecord /\ Vouched(chain[n]) /\ Follows(p, f, chain, n)
      BY <1>3, <3>1 DEF ChainOK
    <3>4. /\ y \in Blocks /\ y.forkCnt = f /\ y.transactionCnt + 1 = n
          /\ Contract!SignedBy(p, y)
      BY <1>2, <3>1, <3>2, <3>3 DEF EntryRecord, Vouched, Follows
    <3>5. Entry(p, f, n - 1).block = y
      BY <1>2, <3>1, <3>2 DEF Entry
    <3>6. y.state = b.previousState /\ y.timestamp = ts
      BY <1>2, <2>2, <3>5 DEF StateAt, TimeAt
    <3> QED
      BY <1>2, <2>2, <3>4, <3>6 DEF Contract!PreviousTimestamp
  <2> QED
    BY <2>1, <2>2
<1>7. Contract!HonestSigns(p, b)
  <2>1. ~\E x \in Blocks : /\ Contract!SignedBy(p, x)
                           /\ x.forkCnt = b.forkCnt
                           /\ x.transactionCnt = b.transactionCnt
    BY <1>2, <1>4
  <2> QED
    BY <1>6, <2>1 DEF Contract!HonestSigns, ClientsFit, Contract!Executed, Executed
<1>8. b.forkCnt <= latestFork
  BY <1>1, <1>2, <1>3 DEF World, Contract!TypeOK
<1> QED
  BY <1>5, <1>7, <1>8, SameCardinality DEF Contract!SignBlock, storage, Contract!storage

(* Playing a turn signs a block at a height the client has not signed at.  *)
LEMMA PlaySigns ==
    ASSUME IInv, ClientsFit, NEW p \in Honest, NEW b \in Blocks, PlayTransaction(p, b)
    PROVE  Contract!SignBlock(p, b)
<1>1. World /\ Shapes /\ ForksOK(p)
  BY DEF IInv
<1>2. PICK f \in Nat, n \in Nat : f = b.forkCnt /\ n = b.transactionCnt
  BY BlocksAssumption DEF Block
<1>3. /\ HasFork(p, f) /\ n = Len(Chain(p, f))
      /\ \A e \in Entries(p) : p \in e.signers
      /\ b.previousState = StateAt(p, f, n)
      /\ b.participant = NextToWrite(b.previousState)
      /\ b.state = Executed(b.previousState, b)
      /\ b.timestamp >= TimeAt(p, f, n)
  BY <1>2 DEF PlayTransaction, Executable
<1>4. PICK chain \in Seq(EntryRecord) : chain = Chain(p, f)
  BY <1>1, <1>3, ForkLemma
<1>5. ASSUME NEW h \in 1..n
      PROVE  p \in chain[h].signers
  <2>1. f + 1 \in DOMAIN forks[p] /\ chain = forks[p][f + 1]
    BY <1>1, <1>3, <1>4, ForkLemma DEF Shapes, Chain
  <2>2. h \in DOMAIN chain
    BY <1>3, <1>4
  <2>3. chain[h] \in Entries(p)
    BY <2>1, <2>2 DEF Entries
  <2> QED
    BY <1>3, <2>3
<1>6. PICK ts : ts = TimeAt(p, f, n)
  OBVIOUS
<1>7. /\ p = b.participant
      /\ b.timestamp = IF now < ts THEN ts + 1 ELSE now
      /\ Punctual => Contract!IsGoodTimestamp(ts, b)
      /\ UNCHANGED <<now, storage>>
      /\ Cardinality(signed) < MaxSignatures /\ signed' = signed \cup {<<p, b>>}
  BY <1>2, <1>6 DEF PlayTransaction, AddBlock, Sign
<1>8. n <= Len(chain) /\ ~(n < Len(chain))
  BY <1>3, <1>4
<1> QED
  BY <1>2, <1>3, <1>4, <1>5, <1>6, <1>7, <1>8, SignsHonestly

(* So does confirming, and the stamp that was good when the block was      *)
(* executed is good still.                                                 *)
LEMMA ConfirmSigns ==
    ASSUME IInv, ClientsFit, NEW p \in Honest, NEW b \in Blocks, ConfirmBlock(p, b)
    PROVE  Contract!SignBlock(p, b)
<1>1. World /\ Shapes /\ ForksOK(p)
  BY DEF IInv
<1>2. PICK f \in Nat, n \in Nat : f = b.forkCnt /\ n = b.transactionCnt
  BY BlocksAssumption DEF Block
<1>3. /\ HasEntry(p, b) /\ ~DidSign(p, b)
      /\ Cardinality(signed) < MaxSignatures /\ signed' = signed \cup {<<p, b>>}
      /\ UNCHANGED <<now, storage>>
  BY DEF ConfirmBlock, AddSigner, Sign
<1>4. PICK chain \in Seq(EntryRecord) : chain = Chain(p, f)
  BY <1>1, <1>2, <1>3, EntryLemma
<1>5. /\ HasFork(p, f) /\ ChainOK(p, f, chain)
      /\ n + 1 \in 1..Len(chain) /\ chain[n + 1].block = b
      /\ Entry(p, f, n) = chain[n + 1]
      /\ b.participant \in chain[n + 1].signers
      /\ Contract!SignedBy(b.participant, b)
  BY <1>1, <1>2, <1>3, <1>4, EntryLemma
<1>6. p # b.participant
  BY <1>2, <1>3, <1>5 DEF DidSign
<1>7. Follows(p, f, chain, n + 1)
  BY <1>5 DEF ChainOK
<1>8. n < Len(chain) /\ n <= Len(chain)
  BY <1>5
<1>9. /\ StateAt(p, f, n) = StateBefore(f, chain, n + 1)
      /\ TimeAt(p, f, n) = TimeBefore(f, chain, n + 1)
  BY <1>1, <1>4, <1>5, <1>8, AtLemma
<1>10. PICK ts : ts = TimeAt(p, f, n)
  OBVIOUS
<1>11. /\ b.previousState = StateAt(p, f, n)
       /\ b.participant = NextToWrite(b.previousState)
       /\ b.state = Executed(b.previousState, b)
       /\ b.timestamp >= ts
       /\ Contract!IsGoodTimestamp(ts, b)
  BY <1>5, <1>6, <1>7, <1>9, <1>10 DEF Follows
<1>12. ASSUME NEW h \in 1..n
       PROVE  p \in chain[h].signers
  <2>1. h \in 1..Len(chain) /\ h < Len(chain)
    BY <1>8
  <2> QED
    BY <1>5, <2>1 DEF ChainOK
<1> QED
  BY <1>2, <1>3, <1>4, <1>5, <1>6, <1>8, <1>10, <1>11, <1>12, SignsHonestly

(* What the client submits the contract can be sent.                       *)
LEMMA SubmitsProofs ==
    ASSUME ClientsFit, NEW x \in ClientProofs, Decodes(x)
    PROVE  x \in Contract!SubmittedProofs
<1>1. PICK kind \in ClientKinds : x \in Contract!ProofsOfKind(kind)
  BY DEF ClientProofs
<1>2. x.kind = kind
  <2>1. CASE kind = "DoubleSign"
    BY <1>1, <2>1 DEF Contract!ProofsOfKind
  <2>2. CASE kind = "IncorrectData"
    BY <1>1, <2>2 DEF Contract!ProofsOfKind
  <2>3. CASE kind = "BlockTooFarInFuture"
    BY <1>1, <2>3 DEF Contract!ProofsOfKind
  <2>4. CASE kind \in {"FoldRechallenge", "NewerState"}
    BY <1>1, <2>4 DEF Contract!ProofsOfKind
  <2> QED
    BY <2>1, <2>2, <2>3, <2>4 DEF ClientKinds
<1>3. kind \in ProofKinds
  BY <1>2 DEF Decodes, WrittenAsText, ClientKinds, ClientsFit
<1> QED
  BY <1>1, <1>3 DEF Contract!SubmittedProofs

(* The transactions of the clients.                                        *)
LEMMA CreateCommitsDisputes ==
    ASSUME IInv, ClientsFit, NEW p \in Honest, NEW k \in Calls, CreateCommits(p, k)
    PROVE  Contract!Dispute
<1>1. PICK call : call = calls[p][k]
  OBVIOUS
<1>2. PICK claim : claim = call.claim
  OBVIOUS
<1>3. PICK f : f = latestFork
  OBVIOUS
<1>4. /\ call.pc = "create" /\ call.forkCnt = f
      /\ \A x \in call.proofs : Decodes(x)
      /\ Contract!MayOpen(p, claim.finalized, claim.latest, claim.votes,
                          call.timedout, call.folded)
  BY <1>1, <1>2, <1>3 DEF CreateCommits
<1>5. PICK x \in call.proofs \cup {Contract!NoProof}, y \in call.proofs \cup {Contract!NoProof} :
        Contract!CreateWith(p, claim.finalized, claim.latest, claim.votes,
                            call.timedout, call.folded, x, y)
  BY <1>1, <1>2 DEF CreateCommits
<1>6. call \in CallRecord /\ CallOK(p, call) /\ p \in Addr
  BY <1>1, SentLemma, ContractAssumption
<1>7. ClaimOK(p, f, claim)
  BY <1>2, <1>4, <1>6 DEF CallOK
<1>8. /\ claim.votes \in Contract!Votes
      /\ claim.finalized \in Contract!Finals(latestFork, claim.votes)
      /\ claim.latest \in Contract!Claims(claim.votes)
  BY <1>3, <1>7 DEF ClaimOK, VotesOK, Contract!Finals, Contract!Claims
<1>9. Contract!HonestClaim(p, claim.latest, claim.votes)
  BY <1>3, <1>7 DEF ClaimOK, VotesOK, Contract!HonestClaim
<1>10. /\ call.timedout \in Addr \cup {Contract!Nobody}
       /\ call.folded \in Contract!Heights
       /\ Contract!HonestTimeout(p, latestFork, call.timedout, call.folded)
  BY <1>3, <1>4, <1>6
     DEF CallRecord, CallOK, Contract!HonestTimeout, ClientsFit, Contract!Nobody, Nobody
<1>11. x \in Contract!SubmittedProofs /\ y \in Contract!SecondProofs
  <2>1. \A z \in call.proofs : z \in Contract!SubmittedProofs
    BY <1>4, <1>6, SubmitsProofs DEF CallOK
  <2>2. Contract!NoProof \in Contract!SubmittedProofs
    BY DEF Contract!SubmittedProofs
  <2> QED
    BY <2>1, <2>2 DEF Contract!SecondProofs, ClientsFit
<1>12. Contract!CreateDispute(p, claim.finalized, claim.latest, claim.votes,
                              call.timedout, call.folded)
  BY <1>4, <1>5, <1>9, <1>10, <1>11 DEF Contract!CreateDispute
<1>13. ~Contract!IsDisputeInProgress
  BY <1>4 DEF Contract!MayOpen
<1> QED
  BY <1>6, <1>8, <1>10, <1>12, <1>13 DEF Contract!Dispute

(* A challenge of a client is one of the contract's.                       *)
LEMMA ChallengeCommitsChallenges ==
    ASSUME IInv, ClientsFit, NEW p \in Honest, NEW k \in Calls, ChallengeCommits(p, k)
    PROVE  Contract!Challenge
<1>1. PICK call : call = calls[p][k]
  OBVIOUS
<1>2. PICK claim : claim = call.claim
  OBVIOUS
<1>3. PICK f : f = dispute.forkCnt
  OBVIOUS
<1>4. /\ call.pc = "challenge" /\ call.forkCnt = f
      /\ \A x \in call.proofs : Decodes(x)
      /\ Contract!MayChallenge(p, claim.finalized, claim.latest, claim.votes)
  BY <1>1, <1>2, <1>3 DEF ChallengeCommits
<1>5. PICK x \in call.proofs \cup {Contract!NoProof}, y \in call.proofs \cup {Contract!NoProof} :
        Contract!ChallengeWith(p, claim.finalized, claim.latest, claim.votes, x, y)
  BY <1>1, <1>2 DEF ChallengeCommits
<1>6. call \in CallRecord /\ CallOK(p, call) /\ p \in Addr
  BY <1>1, SentLemma, ContractAssumption
<1>7. ClaimOK(p, f, claim)
  BY <1>2, <1>4, <1>6 DEF CallOK
<1>8. dispute.exists /\ claim.votes # <<>>
  BY <1>4 DEF Contract!MayChallenge
<1>9. /\ claim.votes \in Contract!Votes
      /\ claim.finalized \in Contract!Finals(dispute.forkCnt, claim.votes)
      /\ claim.latest \in Contract!Claims(claim.votes)
  BY <1>3, <1>7, <1>8 DEF ClaimOK, VotesOK, Contract!Finals, Contract!Claims
<1>10. Contract!HonestClaim(p, claim.latest, claim.votes)
  BY <1>7, <1>8 DEF ClaimOK, VotesOK, Contract!HonestClaim
<1>11. x \in Contract!SubmittedProofs /\ y \in Contract!SecondProofs
  <2>1. \A z \in call.proofs : z \in Contract!SubmittedProofs
    BY <1>4, <1>6, SubmitsProofs DEF CallOK
  <2>2. Contract!NoProof \in Contract!SubmittedProofs
    BY DEF Contract!SubmittedProofs
  <2> QED
    BY <2>1, <2>2 DEF Contract!SecondProofs, ClientsFit
<1>12. Contract!ChallengeDispute(p, claim.finalized, claim.latest, claim.votes)
  BY <1>4, <1>5, <1>10, <1>11 DEF Contract!ChallengeDispute
<1> QED
  BY <1>6, <1>8, <1>9, <1>12 DEF Contract!Challenge

(* The others do what anybody may.                                         *)
LEMMA OthersAct ==
    ASSUME IInv, Others
    PROVE  Contract!Next
<1>1. ASSUME NEW p \in Addr, NEW b \in Blocks, ForgeSignature(p, b)
      PROVE  Contract!SignBlock(p, b)
  <2>1. /\ <<p, b>> \in Forgeries /\ <<p, b>> \notin signed /\ b.forkCnt <= latestFork
        /\ Cardinality(signed) < MaxSignatures /\ signed' = signed \cup {<<p, b>>}
        /\ UNCHANGED <<now, storage>>
    BY <1>1 DEF ForgeSignature, Sign
  <2>2. p \notin Honest
    BY <2>1, ForgeriesAssumption
  <2> QED
    BY <2>1, <2>2, SameCardinality
       DEF Contract!SignBlock, Contract!SignedBy, storage, Contract!storage
<1>2. ASSUME NEW c \in Addr, OtherDisputes(c)
      PROVE  Contract!Dispute
  <2>1. 0 \in Contract!Heights /\ ~Contract!IsDisputeInProgress
    BY <1>2 DEF Contract!Heights, OtherDisputes
  <2>2. PICK votes \in Contract!Votes, t \in Addr \cup {Nobody} :
          \E finalized \in Contract!Finals(latestFork, votes), latest \in Contract!Claims(votes),
             folded \in IF t = Nobody THEN {0} ELSE Contract!Heights :
              Contract!CreateDispute(c, finalized, latest, votes, t, folded)
    BY <1>2 DEF OtherDisputes
  <2>3. PICK finalized \in Contract!Finals(latestFork, votes), latest \in Contract!Claims(votes),
             folded \in Contract!Heights :
              Contract!CreateDispute(c, finalized, latest, votes, t, folded)
    BY <2>1, <2>2
  <2>4. t \in Addr \cup {Contract!Nobody}
    BY DEF Contract!Nobody, Nobody
  <2> QED
    BY <2>1, <2>3, <2>4 DEF Contract!Dispute
<1>3. ASSUME NEW c \in Addr, OtherChallenges(c)
      PROVE  Contract!Challenge
  BY <1>3 DEF OtherChallenges, Contract!Challenge
<1> QED
  BY <1>1, <1>2, <1>3, ForgeriesAssumption DEF Others, Contract!Next

(* A step of a client is a step of the contract or leaves it alone.        *)
LEMMA ClientsAct ==
    ASSUME IInv, ClientsFit, NEW p \in Honest,
           Play(p) \/ \E k \in Calls : Notice(p, k) \/ Step(p, k)
    PROVE  UNCHANGED Contract!vars \/ Contract!Next
<1>0. p \in Addr
  BY ContractAssumption
<1>1. ASSUME UNCHANGED <<now, storage, signed>>
      PROVE  UNCHANGED Contract!vars
  BY <1>1 DEF Contract!vars, Contract!storage, storage
<1>2. ASSUME Play(p)
      PROVE  UNCHANGED Contract!vars \/ Contract!Next
  <2>1. ASSUME NEW b \in Blocks, ExecuteBlock(p, b)
        PROVE  UNCHANGED Contract!vars
    BY <1>1, <2>1 DEF ExecuteBlock, AddBlock
  <2>2. ASSUME NEW b \in Blocks, PlayTransaction(p, b)
        PROVE  Contract!Next
    BY <1>0, <2>2, PlaySigns DEF Contract!Next
  <2>3. ASSUME NEW b \in Blocks, ConfirmBlock(p, b)
        PROVE  Contract!Next
    BY <1>0, <2>3, ConfirmSigns DEF Contract!Next
  <2>4. ASSUME NEW b \in Blocks, NEW a \in Addr, OnBlockConfirmation(p, b, a)
        PROVE  UNCHANGED Contract!vars
    BY <1>1, <2>4 DEF OnBlockConfirmation, AddSigner
  <2>5. ASSUME NewFork(p)
        PROVE  UNCHANGED Contract!vars
    BY <1>1, <2>5 DEF NewFork
  <2> QED
    BY <1>2, <2>1, <2>2, <2>3, <2>4, <2>5 DEF Play
<1>3. ASSUME NEW k \in Calls, Notice(p, k)
      PROVE  UNCHANGED Contract!vars
  <2>1. ASSUME NEW f, NEW t, NEW folded, NEW proofs, CreateDispute(p, k, f, t, folded, proofs)
        PROVE  UNCHANGED <<now, storage, signed>>
    BY <2>1 DEF CreateDispute
  <2>2. ASSUME NEW d, OnDispute(p, k, d)
        PROVE  UNCHANGED <<now, storage, signed>>
    BY <2>2 DEF OnDispute
  <2>3. ASSUME NEW b \in Blocks,
               \/ DisputeDoubleSign(p, k, b) \/ DisputeIncorrectData(p, k, b)
               \/ DisputeBlockTooFarInFuture(p, k, b)
        PROVE  UNCHANGED <<now, storage, signed>>
    BY <2>1, <2>3 DEF DisputeDoubleSign, DisputeIncorrectData, DisputeBlockTooFarInFuture
  <2>4. ASSUME NEW f, NEW h, TryTimeoutParticipant(p, k, f, h)
        PROVE  UNCHANGED <<now, storage, signed>>
    BY <2>1, <2>4 DEF TryTimeoutParticipant
  <2> QED
    BY <1>1, <1>3, <2>2, <2>3, <2>4 DEF Notice
<1>4. ASSUME NEW k \in Calls, Step(p, k)
      PROVE  UNCHANGED Contract!vars \/ Contract!Next
  <2>1. ASSUME CreateFails(p, k) \/ ChallengeFails(p, k) \/ GetDispute(p, k) \/ GetDisputeAgain(p, k)
        PROVE  UNCHANGED Contract!vars
    BY <1>1, <2>1 DEF CreateFails, ChallengeFails, GetDispute, GetDisputeAgain
  <2> QED
    BY <1>4, <2>1, CreateCommitsDisputes, ChallengeCommitsChallenges DEF Step, Contract!Next
<1> QED
  BY <1>2, <1>3, <1>4

(* The clients, composed with the contracts, do to the contracts only what *)
(* StateChannelManager says, and nothing that it takes honest participants *)
(* not to do (DisputeHandler, AgreementManager against DisputeManagerFacet)*)
THEOREM ImplementsContractHolds ==
    ASSUME WritersAreAddresses, ClientsFit
    PROVE  Spec => ImplementsContract
<1>1. Init => Contract!Init
  BY DEF Init
<1>2. ASSUME IInv, [Next]_vars
      PROVE  UNCHANGED Contract!vars \/ Contract!Next
  <2>1. CASE Next
    BY <1>2, <2>1, OthersAct, ClientsAct DEF Next
  <2>2. CASE UNCHANGED vars
    BY <2>2 DEF vars, storage, Contract!vars, Contract!storage
  <2> QED
    BY <1>2, <2>1, <2>2
<1>3. IInv /\ [Next]_vars => [UNCHANGED Contract!vars \/ Contract!Next]_(Contract!vars)
  BY <1>2
<1> QED
  BY <1>1, <1>3, Invariance, PTL DEF Spec, ImplementsContract

=============================================================================
