--------------------------- MODULE DisputeHandler ---------------------------
(***************************************************************************)
(* The clients' side of disputes, composed with the contracts: the         *)
(* DisputeHandler with its ProofManager, what they read of the             *)
(* AgreementManager, the transactions they send and the events and         *)
(* answers of the chain they act on.                                       *)
(*                                                                         *)
(* A call of createDispute or onDispute runs until it awaits a transaction *)
(* or an answer; several calls of one client may be under way.  A          *)
(* transaction may revert, get lost, or commit without its receipt         *)
(* arriving.  Events may be late, repeated or out of order.                *)
(*                                                                         *)
(* What a client executes is given by StateManager: a block enters its     *)
(* chain and is confirmed in two steps, nothing else in between.           *)
(***************************************************************************)
EXTENDS ChannelTypes, Integers

CONSTANTS
    Founders, Honest, Punctual, StopsSigning, ProofKinds, ClaimedStates,
    P2pTime, AgreementTime, ChainFallbackTime, ChallengeTime, ThisAddress,
    MaxFork, MaxTime, MaxVotes, MaxProofs, MaxSignatures, MaxPosted,
    ToleranceFuture,  \* of subjectiveTimingFlag
    Calls,            \* the calls of one client that may be under way at once
    Forgeries,        \* the signatures the participants outside Honest may make
    Postable          \* the blocks that may be posted to the chain

VARIABLES
    now, latestFork, encodedStates, genesisTimestamps, postedBlockCalldata,
    dispute,                \* the contract's, see StateChannelManager
    emitted,          \* the records of the DisputeUpdated events so far
    signed,           \* the signatures in existence
    forks,            \* AgreementManager's forks, of each client
    disputedForks,    \* DisputeHandler.disputedForks
    localProofs,      \* DisputeHandler.localProofs
    disputes,         \* DisputeHandler.disputes: the challengeCnt it knows
    calls             \* the calls under way

storage == <<latestFork, encodedStates, genesisTimestamps, postedBlockCalldata, dispute>>
handlers == <<disputedForks, localProofs, disputes, calls>>
vars == <<now, storage, emitted, signed, forks, handlers>>

ASSUME ContractAssumption ==
    /\ Founders \subseteq (SUBSET Addr) \ {{}} /\ Honest \subseteq Addr
    /\ {Punctual, StopsSigning} \subseteq BOOLEAN
    /\ ClaimedStates \subseteq State
    /\ {P2pTime, AgreementTime, ChainFallbackTime, ChallengeTime} \subseteq Nat
    /\ {MaxFork, MaxTime, MaxVotes, MaxProofs, MaxSignatures, MaxPosted} \subseteq Nat
ASSUME CallsAssumption == IsFiniteSet(Calls) /\ ToleranceFuture \in Nat
ASSUME ForgeriesAssumption ==
    Forgeries \subseteq (Addr \ Honest) \X Blocks /\ Postable \subseteq Blocks

-----------------------------------------------------------------------------
(* AgreementManager.  forks[p][f + 1][h + 1] is the block of fork f and    *)
(* height h with the signatures the client has of it.                      *)

Entries(p) == UNION {{forks[p][f][h] : h \in DOMAIN forks[p][f]} : f \in DOMAIN forks[p]}

LatestForkCnt(p) == Len(forks[p]) - 1

HasFork(p, f) == f < Len(forks[p])

Chain(p, f) == forks[p][f + 1]

HasBlock(p, f, h) == HasFork(p, f) /\ h < Len(Chain(p, f))

Entry(p, f, h) == Chain(p, f)[h + 1]

HasEntry(p, b) ==
    HasBlock(p, b.forkCnt, b.transactionCnt) /\ Entry(p, b.forkCnt, b.transactionCnt).block = b

DidSign(p, b) == HasEntry(p, b) /\ p \in Entry(p, b.forkCnt, b.transactionCnt).signers

(* The contract sees of the clients the signatures they have broadcast.    *)
Contract == INSTANCE StateChannelManager WITH agreement <- "none"

ASSUME ProofKindsAssumption == ProofKinds \subseteq Contract!AllProofKinds

DidEveryoneSignBlock(p, f, h) ==
    HasBlock(p, f, h) /\ Contract!Genesis(f).participants \subseteq Entry(p, f, h).signers

(* The state that the block of height h of fork f starts from, and when    *)
(* the block before it was stamped.                                        *)
StateAt(p, f, h) ==
    IF h = 0 THEN Contract!Genesis(f) ELSE Entry(p, f, h - 1).block.state

TimeAt(p, f, h) ==
    IF h = 0 THEN genesisTimestamps[f] ELSE Entry(p, f, h - 1).block.timestamp

SignedHeights(p, f, a) == {h \in 1..Len(Chain(p, f)) : a \in Chain(p, f)[h].signers}

Latest(S) == CHOOSE h \in S : \A i \in S : i <= h

(* getFinalizedAndLatestWithVotes: from the last block the client signed   *)
(* back to the first from which on everybody signed some block.            *)
(* Faulty variant: the loop stops before the last block.                   *)
VotesShort(p, f, first, last) == [i \in 1..(last - first) |-> Chain(p, f)[first + i - 1].block]

Votes(p, f, first, last) == [i \in 1..(last + 1 - first) |-> Chain(p, f)[first + i - 1].block]

Attached(p, f, first, last) == UNION {Chain(p, f)[h].signers : h \in first..last}

FinalizedAndLatestWithVotes(p, f) ==
    IF SignedHeights(p, f, p) = {}
    THEN [finalized |-> Contract!Genesis(f), latest |-> Contract!Genesis(f),
          votes |-> <<>>, signers |-> {}]
    ELSE LET last    == Latest(SignedHeights(p, f, p))
             backing == {h \in 1..last :
                            Contract!Genesis(f).participants \subseteq Attached(p, f, h, last)}
             first   == IF backing = {} THEN 1 ELSE Latest(backing)
         IN  [ finalized |-> IF backing = {} THEN Contract!Genesis(f)
                             ELSE Chain(p, f)[first].block.state,
               latest    |-> Chain(p, f)[last].block.state,
               votes     |-> Votes(p, f, first, last),
               signers   |-> Attached(p, f, first, last) ]

-----------------------------------------------------------------------------
(* ProofManager: the proofs a client makes, which of them it finds worth   *)
(* submitting against a record, and which the contract can decode.         *)

FoldRechallengeProofs(p, d) ==
    {[kind |-> "FoldRechallenge", block |-> Entry(p, d.forkCnt, h).block] :
        h \in {i \in {d.foldedTransactionCnt} : /\ d.timedoutParticipant # Nobody
                                                /\ DidEveryoneSignBlock(p, d.forkCnt, i)}}

LastVote(d) == d.virtualVotingBlocks[Len(d.virtualVotingBlocks)]

LastVoteCnt(d) == IF d.virtualVotingBlocks = <<>> THEN 0 ELSE LastVote(d).transactionCnt

(* Of the last block the disputer signed, if it is past the last vote.     *)
NewerStateProofs(p, d) ==
    IF ~HasFork(p, d.forkCnt) THEN {}
    ELSE LET heights == SignedHeights(p, d.forkCnt, d.postedStateDisputer)
         IN  {[kind |-> "NewerState", block |-> Chain(p, d.forkCnt)[h].block] :
                h \in {i \in heights : i = Latest(heights) /\ i - 1 > LastVoteCnt(d)}}

(* isFoldRechallengeValid compares a number to a bigint with ===.          *)
IsProofValid(d, proof) ==
    CASE proof.kind = "FoldRechallenge" -> FALSE
      [] proof.kind = "DoubleSign" -> Contract!Unslashed(d, proof.block1.participant)
      [] proof.kind = "IncorrectData" -> Contract!Unslashed(d, proof.block2.participant)
      [] proof.kind = "NewerState" ->
            /\ d.virtualVotingBlocks # <<>>
            /\ Contract!Unslashed(d, proof.block.participant)
            /\ proof.block.participant = d.postedStateDisputer
            /\ proof.block.transactionCnt > LastVoteCnt(d)
      [] proof.kind = "BlockTooFarInFuture" ->
            proof.block.timestamp > now /\ Contract!Unslashed(d, proof.block.participant)

FilterValidProofs(d, proofs) == {x \in proofs : IsProofValid(d, x)}

(* The types of these write the block, the signature or the state as the   *)
(* text of its hexadecimal form, where the contract decodes bytes.         *)
WrittenAsText == {"FoldRechallenge", "IncorrectData", "NewerState"}

(* encodeProof, as the contract reads it: the block of such a proof does   *)
(* not decode, or its state has another hash, and the transaction reverts. *)
Decodes(proof) == proof.kind \notin WrittenAsText

ProofsOf(p, f) == {x[2] : x \in {y \in localProofs[p] : y[1] = f}}

-----------------------------------------------------------------------------
(* The calls.                                                              *)

NoClaim == [finalized |-> NoState, latest |-> NoState, votes |-> <<>>, signers |-> {}]

Idle == [ pc |-> "idle", forkCnt |-> 0, timedout |-> Nobody, folded |-> 0, proofs |-> {},
          claim |-> NoClaim, attempt |-> 0, challengeCnt |-> 0 ]

SetCall(p, k, call) == calls' = [calls EXCEPT ![p][k] = call]

(* createDispute, up to its first await.  A client that knows a dispute of *)
(* the fork goes on to ask the chain for it.                               *)
CreateDispute(p, k, f, t, folded, proofs) ==
    /\ calls[p][k] = Idle
    /\ disputedForks' = [disputedForks EXCEPT ![p] = @ \cup {f}]
    /\ localProofs' = [localProofs EXCEPT ![p] = @ \cup {<<f, x>> : x \in proofs}]
    /\ SetCall(p, k,
           IF disputes[p][f] >= 0 THEN [Idle EXCEPT !.pc = "read"]
           ELSE [Idle EXCEPT !.pc = "create", !.forkCnt = f, !.timedout = t,
                             !.folded = folded, !.proofs = proofs,
                             !.claim = FinalizedAndLatestWithVotes(p, f)])
    /\ UNCHANGED <<now, storage, emitted, signed, forks, disputes>>

(* The count is stored only if it is greater than the one known.           *)
ShouldUpdateDispute(p, d) == d.challengeCnt > disputes[p][d.forkCnt]

(* rechallengeRecursive of the record d, up to its first await.  Of a fork *)
(* the client has not heard of it throws, into the empty catch.            *)
RechallengeRecursive(p, k, d) ==
    LET found == FoldRechallengeProofs(p, d) \cup NewerStateProofs(p, d)
        valid == FilterValidProofs(d, ProofsOf(p, d.forkCnt) \cup found)
        call  == [Idle EXCEPT !.forkCnt = d.forkCnt, !.challengeCnt = d.challengeCnt]
    IN  IF ~ShouldUpdateDispute(p, d)
        THEN SetCall(p, k, Idle) /\ UNCHANGED <<localProofs, disputes>>
        ELSE /\ disputes' = [disputes EXCEPT ![p][d.forkCnt] = d.challengeCnt]
             /\ localProofs' =
                   [localProofs EXCEPT ![p] = @ \cup {<<d.forkCnt, x>> : x \in found}]
             /\ SetCall(p, k,
                   IF valid = {} THEN Idle
                   ELSE IF ~HasFork(p, d.forkCnt) THEN [call EXCEPT !.pc = "reread"]
                   ELSE [call EXCEPT !.pc = "challenge", !.proofs = valid,
                                     !.claim = FinalizedAndLatestWithVotes(p, d.forkCnt)])

(* DisputeUpdated -> onDispute.                                            *)
OnDispute(p, k, d) ==
    /\ calls[p][k] = Idle
    /\ disputedForks' = [disputedForks EXCEPT ![p] = @ \cup {d.forkCnt}]
    /\ RechallengeRecursive(p, k, d)
    /\ UNCHANGED <<now, storage, emitted, signed, forks>>

(* What the signatures attached to a claim finalize.                       *)
ClaimBacked(f, claim) ==
    claim.finalized = Contract!Genesis(f) \/ Contract!Genesis(f).participants \subseteq claim.signers

(* The transaction of createNewDispute commits; with the receipt the call  *)
(* goes on, without it it is tried again, or given up.                     *)
(* Faulty variant: the attempts are not counted.                           *)
CreateRetriedForever(call) == [call EXCEPT !.attempt = 1]

CreateRetried(call) == IF call.attempt = 0 THEN [call EXCEPT !.attempt = 1] ELSE Idle

CreateCommits(p, k) ==
    LET call == calls[p][k] IN
    /\ call.pc = "create"
    /\ call.forkCnt = latestFork
    /\ \A x \in call.proofs : Decodes(x)
    /\ ClaimBacked(call.forkCnt, call.claim)
    /\ \E after \in {[Idle EXCEPT !.pc = "read"], CreateRetried(call)} : SetCall(p, k, after)
    /\ UNCHANGED <<signed, forks, disputedForks, localProofs, disputes>>
    /\ Contract!MayOpen(p, call.claim.finalized, call.claim.latest, call.claim.votes,
                        call.timedout, call.folded)
    /\ \E x, y \in call.proofs \cup {Contract!NoProof} :
          /\ call.proofs \subseteq {x, y}
          /\ Contract!CreateWith(p, call.claim.finalized, call.claim.latest, call.claim.votes,
                                 call.timedout, call.folded, x, y)
    /\ emitted' = emitted \cup {dispute'}

CreateFails(p, k) ==
    /\ calls[p][k].pc = "create"
    /\ SetCall(p, k, CreateRetried(calls[p][k]))
    /\ UNCHANGED <<now, storage, emitted, signed, forks, disputedForks, localProofs, disputes>>

(* getDispute, at the end of createDispute; "no dispute created" is thrown *)
(* where the channel never had one.                                        *)
GetDispute(p, k) ==
    /\ calls[p][k].pc = "read"
    /\ IF dispute.exists THEN RechallengeRecursive(p, k, dispute)
       ELSE SetCall(p, k, Idle) /\ UNCHANGED <<localProofs, disputes>>
    /\ UNCHANGED <<now, storage, emitted, signed, forks, disputedForks>>

(* One more than the count of the record the client has.                   *)
SentChallengeCnt(call) == call.challengeCnt + 1

(* challengeDispute commits; a lost receipt makes no difference.           *)
ChallengeCommits(p, k) ==
    LET call == calls[p][k] IN
    /\ call.pc = "challenge"
    /\ call.forkCnt = dispute.forkCnt
    /\ SentChallengeCnt(call) = dispute.challengeCnt
    /\ \A x \in call.proofs : Decodes(x)
    /\ ClaimBacked(call.forkCnt, call.claim)
    /\ SetCall(p, k, [call EXCEPT !.pc = "reread"])
    /\ UNCHANGED <<signed, forks, disputedForks, localProofs, disputes>>
    /\ Contract!MayChallenge(p, call.claim.finalized, call.claim.latest, call.claim.votes)
    /\ \E x, y \in call.proofs \cup {Contract!NoProof} :
          /\ call.proofs \subseteq {x, y}
          /\ Contract!ChallengeWith(p, call.claim.finalized, call.claim.latest,
                                    call.claim.votes, x, y)
    /\ emitted' = emitted \cup {dispute'}

ChallengeFails(p, k) ==
    /\ calls[p][k].pc = "challenge"
    /\ SetCall(p, k, [calls[p][k] EXCEPT !.pc = "reread"])
    /\ UNCHANGED <<now, storage, emitted, signed, forks, disputedForks, localProofs, disputes>>

(* getDispute after the challenge: "challenge failed" is thrown if the     *)
(* count is the one it had.                                                *)
GetDisputeAgain(p, k) ==
    /\ calls[p][k].pc = "reread"
    /\ IF dispute.challengeCnt = calls[p][k].challengeCnt
       THEN SetCall(p, k, Idle) /\ UNCHANGED <<localProofs, disputes>>
       ELSE RechallengeRecursive(p, k, dispute)
    /\ UNCHANGED <<now, storage, emitted, signed, forks, disputedForks>>

-----------------------------------------------------------------------------
(* The StateManager notices something.                                     *)

(* Faulty variant: the author's signature is not checked.                  *)
ArrivesUnsigned(p, b) ==
    /\ HasFork(p, b.forkCnt)
    /\ \/ b.forkCnt = LatestForkCnt(p) /\ b.forkCnt \notin disputedForks[p]
       \/ Contract!PostedBy(b.forkCnt, b.transactionCnt, b.participant) # {}

(* A conflicting block arrives from a peer, or from the chain.             *)
Arrives(p, b) ==
    /\ HasFork(p, b.forkCnt)
    /\ Contract!SignedBy(b.participant, b)
    /\ \/ b.forkCnt = LatestForkCnt(p) /\ b.forkCnt \notin disputedForks[p]
       \/ Contract!PostedBy(b.forkCnt, b.transactionCnt, b.participant) # {}

Conflicts(p, b) ==
    HasBlock(p, b.forkCnt, b.transactionCnt) /\ Entry(p, b.forkCnt, b.transactionCnt).block # b

(* The block of the chain that the author of b signed in the place of b.   *)
DoubleSignedBlocks(p, b) ==
    {c \in Blocks : /\ HasEntry(p, c) /\ c # b
                    /\ c.forkCnt = b.forkCnt /\ c.transactionCnt = b.transactionCnt
                    /\ c.participant = b.participant}

(* Faulty variant: the block that arrived is paired with itself.           *)
DisputeDoubleSignSelf(p, k, b) ==
    /\ Arrives(p, b)
    /\ \E agreed \in DoubleSignedBlocks(p, b) :
          CreateDispute(p, k, b.forkCnt, Nobody, 0,
              {[kind |-> "DoubleSign", signer |-> b.participant, block1 |-> b, block2 |-> b]})

DisputeDoubleSign(p, k, b) ==
    /\ Arrives(p, b)
    /\ \E agreed \in DoubleSignedBlocks(p, b) :
          CreateDispute(p, k, b.forkCnt, Nobody, 0,
              {[kind |-> "DoubleSign", signer |-> b.participant, block1 |-> b, block2 |-> agreed]})

(* The blocks in the order the client sends them: a first block is sent    *)
(* twice, another with the one before it.                                  *)
IncorrectDataProof(p, b) ==
    [kind |-> "IncorrectData", block1 |-> b,
     block2 |-> IF b.transactionCnt = 0 THEN b
                ELSE Entry(p, b.forkCnt, b.transactionCnt - 1).block]

(* Of the first block of a fork, or of one whose height is taken; of       *)
(* another the proof cannot be made and nothing is left behind.            *)
DisputeIncorrectData(p, k, b) ==
    /\ Arrives(p, b)
    /\ \/ Conflicts(p, b) /\ Entry(p, b.forkCnt, b.transactionCnt).block.participant # b.participant
       \/ /\ b.transactionCnt = 0 /\ Chain(p, b.forkCnt) = <<>>
          /\ ~(Executes(StateAt(p, b.forkCnt, 0), b)
               /\ b.previousState = StateAt(p, b.forkCnt, 0)
               /\ b.state = Executed(b.previousState, b))
    /\ CreateDispute(p, k, b.forkCnt, Nobody, 0, {IncorrectDataProof(p, b)})

(* isEnoughTimeSubjective, in the client's own turn.                       *)
DisputeBlockTooFarInFuture(p, k, b) ==
    LET f == b.forkCnt IN
    /\ HasFork(p, f) /\ f = LatestForkCnt(p) /\ f \notin disputedForks[p]
    /\ Contract!SignedBy(b.participant, b)
    /\ b.participant \in Contract!Genesis(f).participants
    /\ b.transactionCnt = Len(Chain(p, f))
    /\ NextToWrite(StateAt(p, f, b.transactionCnt)) = p
    /\ b.timestamp > now + ToleranceFuture
    /\ Contract!IsGoodTimestamp(TimeAt(p, f, b.transactionCnt), b)
    /\ CreateDispute(p, k, f, Nobody, 0, {[kind |-> "BlockTooFarInFuture", block |-> b]})

(* tryTimeoutParticipant, when its timer is due and the chain has answered *)
(* that the participant did not post.                                      *)
TryTimeoutParticipant(p, k, f, h) ==
    /\ HasFork(p, f) /\ h <= Len(Chain(p, f))
    /\ LET t == NextToWrite(StateAt(p, f, h))
       IN  /\ t \notin {p, Nobody}
           /\ ~DidEveryoneSignBlock(p, f, h)
           /\ Contract!PostedBy(f, h, t) = {}
           /\ now >= TimeAt(p, f, h) + Contract!TimeoutWindow
           /\ CreateDispute(p, k, f, t, h, {})

-----------------------------------------------------------------------------
(* What the StateManager does with blocks.                                 *)

(* Faulty variant: the state after the block is not compared.              *)
ExecutableAnyState(p, b) ==
    LET f == b.forkCnt IN
    /\ HasFork(p, f) /\ f = LatestForkCnt(p)
    /\ b.transactionCnt = Len(Chain(p, f))
    /\ Len(Chain(p, f)) < MaxVotes
    /\ \A e \in Entries(p) : p \in e.signers
    /\ b.previousState = StateAt(p, f, b.transactionCnt)
    /\ b.participant = NextToWrite(b.previousState)
    /\ b.timestamp >= TimeAt(p, f, b.transactionCnt)
    /\ p # b.participant => Contract!IsGoodTimestamp(TimeAt(p, f, b.transactionCnt), b)

(* A block is executed when all before it are confirmed; a peer's only as  *)
(* long as the fork is not disputed.                                       *)
Executable(p, b) ==
    LET f == b.forkCnt IN
    /\ HasFork(p, f) /\ f = LatestForkCnt(p)
    /\ b.transactionCnt = Len(Chain(p, f))
    /\ Len(Chain(p, f)) < MaxVotes
    /\ \A e \in Entries(p) : p \in e.signers
    /\ b.previousState = StateAt(p, f, b.transactionCnt)
    /\ b.participant = NextToWrite(b.previousState)
    /\ b.state = Executed(b.previousState, b)
    /\ b.timestamp >= TimeAt(p, f, b.transactionCnt)
    /\ p # b.participant => Contract!IsGoodTimestamp(TimeAt(p, f, b.transactionCnt), b)

AddBlock(p, b) ==
    /\ forks' = [forks EXCEPT ![p][b.forkCnt + 1] =
                    Append(@, [block |-> b, signers |-> {b.participant}])]
    /\ UNCHANGED <<now, storage, emitted, handlers>>

(* A client broadcasts its signature when it records it.                   *)
Sign(p, b) ==
    /\ Cardinality(signed) < MaxSignatures
    /\ signed' = signed \cup {<<p, b>>}

ExecuteBlock(p, b) ==
    /\ p # b.participant
    /\ b.forkCnt \notin disputedForks[p]
    /\ Executable(p, b)
    /\ Contract!SignedBy(b.participant, b)
    /\ AddBlock(p, b)
    /\ UNCHANGED signed

(* It plays its own turn whether or not it disputed the fork.              *)
PlayTransaction(p, b) ==
    LET previous == TimeAt(p, b.forkCnt, b.transactionCnt) IN
    /\ p = b.participant
    /\ Executable(p, b)
    /\ b.timestamp = IF now < previous THEN previous + 1 ELSE now
    /\ Punctual => Contract!IsGoodTimestamp(previous, b)
    /\ AddBlock(p, b)
    /\ Sign(p, b)

AddSigner(p, b, a) ==
    /\ forks' = [forks EXCEPT ![p][b.forkCnt + 1][b.transactionCnt + 1].signers = @ \cup {a}]
    /\ UNCHANGED <<now, storage, emitted, handlers>>

(* The confirmation of the block just executed, which the client signs     *)
(* even if it disputed the fork meanwhile.                                 *)
ConfirmBlock(p, b) ==
    /\ HasEntry(p, b)
    /\ ~DidSign(p, b)
    /\ AddSigner(p, b, p)
    /\ Sign(p, b)

OnBlockConfirmation(p, b, a) ==
    /\ a # p
    /\ HasEntry(p, b) /\ b.forkCnt = LatestForkCnt(p)
    /\ a \in Contract!Genesis(b.forkCnt).participants
    /\ a \notin Entry(p, b.forkCnt, b.transactionCnt).signers
    /\ Contract!SignedBy(a, b)
    /\ AddSigner(p, b, a)
    /\ UNCHANGED signed

(* SetState -> newFork.                                                    *)
NewFork(p) ==
    /\ Contract!IsChannelOpen
    /\ Len(forks[p]) <= latestFork
    /\ forks' = [forks EXCEPT ![p] = Append(@, <<>>)]
    /\ UNCHANGED <<now, storage, emitted, signed, handlers>>

-----------------------------------------------------------------------------
(* The environment: the other participants, the chain and its clock.       *)

clients == <<forks, handlers>>

Silent == UNCHANGED <<emitted, clients>>

ForgeSignature(p, b) ==
    /\ <<p, b>> \in Forgeries \ signed
    /\ b.forkCnt <= latestFork
    /\ Sign(p, b)
    /\ UNCHANGED <<now, storage, emitted, clients>>

(* Without a participant timed out they leave the folded height at 0.      *)
OtherDisputes(c) ==
    /\ ~Contract!IsDisputeInProgress
    /\ \E votes \in Contract!Votes, t \in Addr \cup {Nobody} :
        \E finalized \in Contract!Finals(latestFork, votes), latest \in Contract!Claims(votes),
           folded \in IF t = Nobody THEN {0} ELSE Contract!Heights :
            /\ UNCHANGED clients
            /\ Contract!CreateDispute(c, finalized, latest, votes, t, folded)
            /\ emitted' = emitted \cup {dispute'}

OtherChallenges(c) ==
    /\ dispute.exists
    /\ \E votes \in Contract!Votes :
        \E finalized \in Contract!Finals(dispute.forkCnt, votes),
           latest \in Contract!Claims(votes) :
            /\ UNCHANGED clients
            /\ Contract!ChallengeDispute(c, finalized, latest, votes)
            /\ emitted' = emitted \cup {dispute'}

Others ==
    \/ \E p \in Addr, b \in Blocks : ForgeSignature(p, b)
    \/ \E c \in Addr \ Honest : OtherDisputes(c) \/ OtherChallenges(c)
    \/ Silent /\ \E members \in Founders : Contract!OpenChannel(members)
    \/ Silent /\ \E b \in Postable : Contract!PostBlockCalldata(b)
    \/ Silent /\ Contract!Tick

-----------------------------------------------------------------------------
Init ==
    /\ emitted = {}
    /\ forks = [p \in Honest |-> <<>>]
    /\ disputedForks = [p \in Honest |-> {}]
    /\ localProofs = [p \in Honest |-> {}]
    /\ disputes = [p \in Honest |-> [f \in 0..MaxFork |-> -1]]
    /\ calls = [p \in Honest |-> [k \in Calls |-> Idle]]
    /\ Contract!Init

Notice(p, k) ==
    \/ \E b \in Blocks : \/ DisputeDoubleSign(p, k, b)
                         \/ DisputeIncorrectData(p, k, b)
                         \/ DisputeBlockTooFarInFuture(p, k, b)
    \/ \E f \in 0..latestFork, h \in Contract!Heights : TryTimeoutParticipant(p, k, f, h)
    \/ \E d \in emitted : OnDispute(p, k, d)

(* A call that is under way takes a step. *)
Step(p, k) ==
    \/ CreateCommits(p, k) \/ CreateFails(p, k) \/ GetDispute(p, k)
    \/ ChallengeCommits(p, k) \/ ChallengeFails(p, k) \/ GetDisputeAgain(p, k)

Play(p) ==
    \/ \E b \in Blocks : \/ ExecuteBlock(p, b) \/ PlayTransaction(p, b) \/ ConfirmBlock(p, b)
                         \/ \E a \in Addr : OnBlockConfirmation(p, b, a)
    \/ NewFork(p)

Next ==
    \/ \E p \in Honest : Play(p) \/ \E k \in Calls : Notice(p, k) \/ Step(p, k)
    \/ Others

Spec == Init /\ [][Next]_vars

(* Every transaction and question is answered, be it by an error, and the  *)
(* event loop resumes the call.                                            *)
FairSpec == Spec /\ \A p \in Honest, k \in Calls : WF_vars(Step(p, k))

-----------------------------------------------------------------------------
(* Properties.                                                             *)

Evidence == UNION {Contract!ProofsOfKind(kind) : kind \in Contract!AllProofKinds}

EntryRecord == [block : Blocks, signers : SUBSET Addr]

Claims ==
    [finalized : State, latest : State, votes : Seq(Blocks), signers : SUBSET Addr]

CallRecord ==
    [ pc : {"idle", "create", "read", "challenge", "reread"}, forkCnt : Nat,
      timedout : Addr \cup {Nobody}, folded : Nat, proofs : SUBSET Evidence,
      claim : Claims, attempt : {0, 1}, challengeCnt : Nat ]

(* The clients' state is well typed, and the proofs they keep are made of  *)
(* signatures that exist (AgreementManager, DisputeHandler).               *)
TypeOK ==
    /\ Contract!TypeOK
    /\ emitted \subseteq Contract!Disputes
    /\ signed \subseteq Forgeries \cup (Honest \X Blocks)
    /\ forks \in [Honest -> Seq(Seq(EntryRecord))]
    /\ disputedForks \in [Honest -> SUBSET Nat]
    /\ localProofs \in [Honest -> SUBSET (Nat \X Evidence)]
    /\ disputes \in [Honest -> [0..MaxFork -> Nat \cup {-1}]]
    /\ calls \in [Honest -> [Calls -> CallRecord]]

Pending(p, k) == calls[p][k].pc \in {"create", "challenge"}

(* The claim of a transaction a client has sent holds on the chain however *)
(* late it gets there: the votes are a chain from the finalized state to   *)
(* the latest one, and the signatures attached finalize it                 *)
(* (getFinalizedAndLatestWithVotes against isFinalizedAndLatest).          *)
ClaimsStand ==
    \A p \in Honest, k \in Calls : Pending(p, k) =>
        LET f == calls[p][k].forkCnt
            claim == calls[p][k].claim
        IN  /\ ClaimBacked(f, claim)
            /\ Contract!IsFinalizedAndLatest(f, claim.finalized, claim.latest, claim.votes,
                                             Contract!Genesis(f).participants)

(* Would the contract accept the dispute of the call if it got there now?  *)
Acceptable(p, call) ==
    LET claim  == call.claim
        opened == Contract!OpenedRecord(p, claim.finalized, claim.latest, claim.votes,
                                        call.timedout, call.folded)
    IN  /\ Contract!MayOpen(p, claim.finalized, claim.latest, claim.votes,
                            call.timedout, call.folded)
        /\ ClaimBacked(call.forkCnt, claim)
        /\ \A x \in call.proofs :
              Decodes(x) /\ Contract!ProofValid(opened, p, x) /\ Contract!ProofSucceeds(opened, x)
        /\ Contract!Unslashed(opened, p)

(* What a client has against a double signer is enough: as long as nobody  *)
(* else disputes the fork first and the record holds nobody slashed in an  *)
(* earlier dispute, the dispute it sends is one the contract accepts       *)
(* (disputeDoubleSign against createDispute).  A dispute over a timeout is *)
(* not promised as much.                                                   *)
EvidenceSuffices ==
    \A p \in Honest, k \in Calls :
        LET call == calls[p][k] IN
        (/\ call.pc = "create"
         /\ call.forkCnt = latestFork /\ ~Contract!IsDisputeInProgress
         /\ p \in Contract!Genesis(latestFork).participants
         /\ \E x \in call.proofs : x.kind = "DoubleSign"
         /\ dispute.slashedParticipants = {})
        => Acceptable(p, call)

(* The fork and the number of challenges name one record, whatever retries *)
(* and races there are: that is what lets a client keep one record of a    *)
(* fork and drop an event whose count is not greater (shouldUpdateDispute).*)
RecordsAreNamed ==
    \A d, e \in emitted :
        d.forkCnt = e.forkCnt /\ d.challengeCnt = e.challengeCnt => d = e

(* The clients and the other participants do to the contract what          *)
(* StateChannelManager says, and the clients nothing that it takes honest  *)
(* participants not to do: what they sign, claim and time out is what      *)
(* HonestSigns, HonestClaim and HonestTimeout allow.  (Contract!Spec, with *)
(* the stuttering steps first.)                                            *)
ImplementsContract ==
    Contract!Init /\ [][UNCHANGED Contract!vars \/ Contract!Next]_(Contract!vars)

(* Every call of createDispute and of onDispute ends, with an error if not *)
(* with success, whatever the others do meanwhile (retry,                  *)
(* rechallengeRecursive).                                                  *)
CallsEnd ==
    \A p \in Honest, k \in Calls : (calls[p][k].pc # "idle") ~> (calls[p][k].pc = "idle")

(* "challenges target a specific state of dispute (race condition)"        *)
(* (DisputeTypes.sol): a challenge that commits was made against the       *)
(* record the chain had then.                                              *)
ChallengesHitTheirTarget ==
    [][\A p \in Honest, k \in Calls :
          calls[p][k].pc = "challenge" /\ dispute' # dispute /\ calls'[p][k] # calls[p][k]
              => calls[p][k].challengeCnt = dispute.challengeCnt]_vars

=============================================================================
