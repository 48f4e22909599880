------------------------- MODULE StateChannelManager -------------------------
(***************************************************************************)
(* The on-chain half of a state channel: the storage of the diamond proxy  *)
(* (AStateChannelManagerProxy with its DisputeManagerFacet) for one        *)
(* channel, and every transaction that changes it.  A transaction either   *)
(* commits as one atomic step or reverts and leaves the storage alone, so  *)
(* each `require' of a handler is a guard of its action.                   *)
(*                                                                         *)
(* The environment is the chain's clock and the participants, who sign     *)
(* blocks off-chain: calldata can carry a signature only if it exists.     *)
(* Participants outside Honest sign anything; those in Honest sign only    *)
(* what the TypeScript client signs.                                       *)
(***************************************************************************)
EXTENDS ChannelTypes

CONSTANTS
    Founders,         \* the sets of participants that may open the channel
    Honest,           \* the participants that run the client
    Punctual,         \* do honest authors always write within p2pTime
    StopsSigning,     \* does a client stop confirming a fork once it timed
                      \* out a participant there
    ProofKinds,       \* the fraud proofs that are submitted
    ClaimedStates,    \* the states a dispute may claim without any vote
    P2pTime, AgreementTime, ChainFallbackTime, ChallengeTime,
    ThisAddress,      \* the address of the contract
    MaxFork, MaxTime, MaxVotes, MaxProofs, MaxSignatures, MaxPosted   \* bounds

VARIABLES
    now,                    \* block.timestamp
    latestFork,             \* latestFork[channelId]
    encodedStates,          \* encodedStates[channelId]
    genesisTimestamps,      \* genesisTimestamps[channelId]
    postedBlockCalldata,    \* postedBlockCalldata[channelId]
    dispute,                \* disputes[channelId]
    agreement,              \* what became of a change everybody agreed on
    signed                  \* the signatures on blocks that exist off-chain

storage == <<latestFork, encodedStates, genesisTimestamps,
             postedBlockCalldata, dispute>>
vars == <<now, storage, agreement, signed>>

AllProofKinds == {"FoldRechallenge", "DoubleSign", "IncorrectData",
                  "NewerState", "FoldPriorBlock", "BlockTooFarInFuture",
                  "JoinChannel"}

ASSUME FoundersAssumption == Founders \subseteq (SUBSET Addr) \ {{}}
ASSUME HonestAssumption ==
    Honest \subseteq Addr /\ {Punctual, StopsSigning} \subseteq BOOLEAN
ASSUME ProofKindsAssumption == ProofKinds \subseteq AllProofKinds
ASSUME ClaimedStatesAssumption == ClaimedStates \subseteq State
ASSUME TimesAssumption ==
    {P2pTime, AgreementTime, ChainFallbackTime, ChallengeTime} \subseteq Nat
ASSUME ThisAddressAssumption == ThisAddress \notin Addr \cup {Nobody}
ASSUME BoundsAssumption ==
    {MaxFork, MaxTime, MaxVotes, MaxProofs, MaxSignatures, MaxPosted} \subseteq Nat

TimeoutWindow == P2pTime + AgreementTime + ChainFallbackTime

-----------------------------------------------------------------------------
(* Views of the storage (StateChannelCommon).                              *)

IsChannelOpen == encodedStates[0] # NoState

Genesis(f) == encodedStates[f]

(* Faulty variant: off by one at the deadline.                             *)
IsDisputeInProgressStrict == dispute.exists /\ now < dispute.deadlineTimestamp

(* A dispute is in progress up to and including its deadline.              *)
IsDisputeInProgress == dispute.exists /\ ~(dispute.deadlineTimestamp < now)

(* The times at which blocks of fork f up to height h were posted;         *)
(* getChainLatestBlockTimestamp is the largest of them, or 0.              *)
PostedTimes(f, h) ==
    {k.timestamp : k \in {p \in postedBlockCalldata :
                             p.forkCnt = f /\ p.transactionCnt <= h}}

PostedBy(f, h, a) ==
    {k \in postedBlockCalldata :
        k.forkCnt = f /\ k.transactionCnt = h /\ k.participant = a}

-----------------------------------------------------------------------------
(* Signatures (StateChannelUtilLibrary).  A submitter attaches every       *)
(* signature it can find: more of them never make a check fail.            *)

Signers(b) == {a \in Addr : <<a, b>> \in signed}

SignedBy(a, b) == <<a, b>> \in signed

AuthorSigned == {b \in Blocks : SignedBy(b.participant, b)}

VerifyThresholdSigned(threshold, b) == threshold \subseteq Signers(b)

(* The sequences of author-signed blocks that calldata can carry.          *)
Votes == UNION {[1..n -> AuthorSigned] : n \in 0..MaxVotes}

-----------------------------------------------------------------------------
(* isFinalizedAndLatest: the finalized state is the genesis of the fork or *)
(* every participant signed some block of the chain that starts at it; the *)
(* blocks are linked and the last one commits to the latest state.         *)
IsFinalizedAndLatest(f, finalized, latest, votes, threshold) ==
    /\ \A i \in DOMAIN votes : votes[i].forkCnt = f
    /\ votes # <<>> =>
        /\ IF finalized = Genesis(f)
           THEN votes[1].previousState = finalized
           ELSE votes[1].state = finalized
        /\ votes[Len(votes)].state = latest
    /\ \A i \in 2..Len(votes) : votes[i].previousState = votes[i-1].state
    /\ \/ finalized = Genesis(f)
       \/ threshold \subseteq UNION {Signers(votes[i]) : i \in DOMAIN votes}

(* isGoodTimestampNonDeterministic                                         *)
IsGoodTimestamp(previous, b) ==
    /\ b.timestamp >= previous
    /\ \E t \in {previous} \cup PostedTimes(b.forkCnt, b.transactionCnt) :
            b.timestamp <= t + P2pTime

-----------------------------------------------------------------------------
(* Fraud proofs.  A proof is assembled from signatures that exist.  For    *)
(* each kind: what the contract requires of it, what it does to the        *)
(* dispute, and whether it counts as a success.                            *)

NoProof == [kind |-> "None"]

ProofsOfKind(kind) ==
    CASE kind = "DoubleSign" ->
            {[kind |-> kind, signer |-> s[1], block1 |-> s[2], block2 |-> b] :
                s \in signed, b \in Blocks}
      [] kind = "IncorrectData" ->
            {[kind |-> kind, block1 |-> b, block2 |-> c] : b, c \in AuthorSigned}
      [] kind = "FoldPriorBlock" ->
            {[kind |-> kind, transactionCnt |-> b.transactionCnt] : b \in AuthorSigned}
      [] kind = "JoinChannel" ->
            {[kind |-> kind, participant |-> a, deadline |-> t] :
                a \in Addr, t \in {0, MaxTime}}
      [] kind = "BlockTooFarInFuture" ->
            {[kind |-> kind, block |-> b] : b \in AuthorSigned}
      [] OTHER ->
            {[kind |-> kind, block |-> b] : b \in Blocks}

SubmittedProofs == {NoProof} \cup UNION {ProofsOfKind(k) : k \in ProofKinds}

Slash(d, a) == [d EXCEPT !.slashedParticipants = @ \cup {a}]

(* Faulty variant: insertIfNotExist that always inserts.                   *)
UnslashedAlways(d, a) == TRUE

Unslashed(d, a) == a \notin d.slashedParticipants

(* A successful proof about a block below the folded height undoes the fold. *)
TryCancelFold(d, h) ==
    IF h < d.foldedTransactionCnt
    THEN [d EXCEPT !.timedoutParticipant = Nobody, !.timeoutDisputer = Nobody]
    ELSE d

FoldRechallengeValid(d, p) ==
    /\ p.block.forkCnt = d.forkCnt
    /\ p.block.transactionCnt = d.foldedTransactionCnt
    /\ VerifyThresholdSigned(d.participants, p.block)

(* The code's proof is an array of pairs, here a proof of one pair each.   *)
(* Once one pair has slashed somebody the code undoes the fold for every   *)
(* later pair too, even one whose signer was slashed before.               *)
(*                                                                         *)
(* Faulty variant: the two blocks are not compared.                        *)
DoubleSignValidSameBlock(d, p) ==
    /\ p.block1.forkCnt = d.forkCnt
    /\ p.block2.forkCnt = d.forkCnt
    /\ p.block1.transactionCnt = p.block2.transactionCnt
    /\ SignedBy(p.signer, p.block1)
    /\ SignedBy(p.signer, p.block2)

DoubleSignValid(d, p) ==
    /\ p.block1.forkCnt = d.forkCnt
    /\ p.block2.forkCnt = d.forkCnt
    /\ p.block1.transactionCnt = p.block2.transactionCnt
    /\ p.block1 # p.block2
    /\ SignedBy(p.signer, p.block1)
    /\ SignedBy(p.signer, p.block2)

(* The disputed block extends the genesis state, or else block1.           *)
IncorrectDataValid(d, p) ==
    /\ p.block1.forkCnt = d.forkCnt
    /\ p.block2.forkCnt = d.forkCnt
    /\ \/ p.block2.previousState = Genesis(d.forkCnt)
       \/ p.block2.previousState = p.block1.state

IncorrectDataShown(d, p) ==
    LET state == p.block2.previousState
        previous == IF state = Genesis(d.forkCnt)
                    THEN genesisTimestamps[d.forkCnt]
                    ELSE p.block1.timestamp
    IN  \/ ~IsGoodTimestamp(previous, p.block2)
        \/ ~Executes(state, p.block2)
        \/ p.block2.state # Executed(state, p.block2)

NewerStateValid(d, p) ==
    /\ p.block.forkCnt = d.forkCnt
    /\ SignedBy(d.postedStateDisputer, p.block)
    /\ d.virtualVotingBlocks # <<>>
    /\ p.block.transactionCnt
         >= d.virtualVotingBlocks[Len(d.virtualVotingBlocks)].transactionCnt

(* The participant folded is the author of the last vote, whichever height *)
(* the proof names.                                                        *)
PriorFolded(d) ==
    d.virtualVotingBlocks[Len(d.virtualVotingBlocks)].participant

FoldPriorBlockValid(d, p) ==
    /\ \E i \in DOMAIN d.virtualVotingBlocks :
            d.virtualVotingBlocks[i].transactionCnt = p.transactionCnt
    /\ p.transactionCnt < d.foldedTransactionCnt
    /\ \A k \in PostedBy(d.forkCnt, p.transactionCnt, PriorFolded(d)) :
            k.timestamp > d.creationTimestamp

BlockTooFarInFutureValid(d, p) ==
    /\ p.block.forkCnt = d.forkCnt
    /\ p.block.participant \in d.participants
    /\ p.block.timestamp > now

(* The joiner and every participant have signed the agreement; the check   *)
(* on its deadline is the code's.                                          *)
JoinChannelValid(d, c, p) ==
    /\ c = NextToWrite(d.encodedLatestCorrectState)
    /\ p.participant \notin d.participants
    /\ now > p.deadline
    /\ p.participant \notin d.joinChannelParticipants
    /\ JoinAccepted

ProofValid(d, c, p) ==
    \/ p.kind = "None"
    \/ p.kind = "FoldRechallenge" /\ FoldRechallengeValid(d, p)
    \/ p.kind = "DoubleSign" /\ DoubleSignValid(d, p)
    \/ p.kind = "IncorrectData" /\ IncorrectDataValid(d, p)
    \/ p.kind = "NewerState" /\ NewerStateValid(d, p)
    \/ p.kind = "FoldPriorBlock" /\ FoldPriorBlockValid(d, p)
    \/ p.kind = "BlockTooFarInFuture" /\ BlockTooFarInFutureValid(d, p)
    \/ p.kind = "JoinChannel" /\ JoinChannelValid(d, c, p)

(* The participant a valid proof slashes; it succeeds if that is news.     *)
Accused(d, p) ==
    CASE p.kind = "FoldRechallenge"     -> d.timeoutDisputer
      [] p.kind = "DoubleSign"          -> p.signer
      [] p.kind = "IncorrectData"       -> p.block2.participant
      [] p.kind = "NewerState"          -> d.postedStateDisputer
      [] p.kind = "BlockTooFarInFuture" -> p.block.participant

(* Faulty variant: a proof against somebody slashed already succeeds too.  *)
ProofSucceedsAgain(d, p) ==
    /\ p.kind # "None"
    /\ p.kind = "IncorrectData" => IncorrectDataShown(d, p)

ProofSucceeds(d, p) ==
    CASE p.kind = "None"                               -> FALSE
      [] p.kind \in {"FoldPriorBlock", "JoinChannel"}  -> TRUE
      [] p.kind = "IncorrectData" -> IncorrectDataShown(d, p) /\ Unslashed(d, Accused(d, p))
      [] OTHER                                         -> Unslashed(d, Accused(d, p))

ApplyProof(d, c, p) ==
    CASE p.kind = "FoldRechallenge" ->
            Slash([d EXCEPT !.timedoutParticipant = Nobody], Accused(d, p))
      [] p.kind \in {"DoubleSign", "IncorrectData"} ->
            IF ProofSucceeds(d, p)
            THEN TryCancelFold(Slash(d, Accused(d, p)), p.block1.transactionCnt)
            ELSE d
      [] p.kind \in {"NewerState", "BlockTooFarInFuture"} ->
            Slash(d, Accused(d, p))
      [] p.kind = "FoldPriorBlock" ->
            [d EXCEPT !.timedoutParticipant = PriorFolded(d), !.timeoutDisputer = c]
      [] p.kind = "JoinChannel" ->
            [d EXCEPT !.joinChannelParticipants = @ \cup {p.participant}]
      [] OTHER -> d

-----------------------------------------------------------------------------
(* Faulty variants: the latest fork is overwritten; the new fork inherits  *)
(* its predecessor's timestamp.                                            *)
SetStateInPlace(s) ==
    /\ latestFork < MaxFork
    /\ latestFork' = latestFork
    /\ encodedStates' = [encodedStates EXCEPT ![latestFork] = s]
    /\ genesisTimestamps' = [genesisTimestamps EXCEPT ![latestFork] = now]

SetStateStale(s) ==
    /\ latestFork < MaxFork
    /\ latestFork' = latestFork + 1
    /\ encodedStates' = [f \in 0..latestFork+1 |->
            IF f = latestFork + 1 THEN s ELSE encodedStates[f]]
    /\ genesisTimestamps' = [f \in 0..latestFork+1 |->
            IF f = latestFork + 1 THEN genesisTimestamps[latestFork] ELSE genesisTimestamps[f]]

(* setState: the only place where a fork is made.                          *)
SetState(s) ==
    /\ latestFork < MaxFork
    /\ latestFork' = latestFork + 1
    /\ encodedStates' = [f \in 0..latestFork+1 |->
            IF f = latestFork + 1 THEN s ELSE encodedStates[f]]
    /\ genesisTimestamps' = [f \in 0..latestFork+1 |->
            IF f = latestFork + 1 THEN now ELSE genesisTimestamps[f]]

(* applyDisputeToLatestState: joins, then slashes, then the timeout.       *)
Expelled(d) == d.slashedParticipants \cup {d.timedoutParticipant}

(* Faulty variants: exits that failed are recorded; slashes are forgotten; *)
(* exits are collected after the removal; joins are applied only once.     *)
SettledFailedExits(d) ==
    LET joined == JoinsTo(d.encodedLatestCorrectState, d.joinChannelParticipants)
    IN [d EXCEPT !.processExits = Expelled(d),
                 !.encodedLatestCorrectState = Without(joined, Expelled(d))]

SettledTimeoutOnly(d) ==
    LET joined == JoinsTo(d.encodedLatestCorrectState, d.joinChannelParticipants)
    IN [d EXCEPT !.processExits = {d.timedoutParticipant} \cap joined.participants,
                 !.encodedLatestCorrectState = Without(joined, {d.timedoutParticipant})]

SettledLateExits(d) ==
    LET joined == JoinsTo(d.encodedLatestCorrectState, d.joinChannelParticipants)
        left == Without(joined, Expelled(d))
    IN [d EXCEPT !.processExits = Expelled(d) \cap left.participants,
                 !.encodedLatestCorrectState = left]

SettledJoinsOnce(d) ==
    LET joined == IF d.challengeCnt > 0 THEN d.encodedLatestCorrectState
                  ELSE JoinsTo(d.encodedLatestCorrectState, d.joinChannelParticipants)
    IN [d EXCEPT !.processExits = Expelled(d) \cap joined.participants,
                 !.encodedLatestCorrectState = Without(joined, Expelled(d))]

Settled(d) ==
    LET joined == JoinsTo(d.encodedLatestCorrectState, d.joinChannelParticipants)
    IN [d EXCEPT !.processExits = Expelled(d) \cap joined.participants,
                 !.encodedLatestCorrectState = Without(joined, Expelled(d))]

(* What every committing dispute transaction ends with.                    *)
Settle(d) ==
    /\ JoinsAll(d.encodedLatestCorrectState, d.joinChannelParticipants)
    /\ dispute' = Settled(d)
    /\ SetState(Settled(d).encodedLatestCorrectState)
    /\ UNCHANGED <<now, postedBlockCalldata, agreement, signed>>

(* The participant to write next has let the window pass since the last    *)
(* block it answers to and since every block posted at or below its turn.  *)
TimeoutDue(f, t, folded, votes, latest) ==
    LET last == IF folded = 0 THEN genesisTimestamps[f]
                              ELSE votes[Len(votes)].timestamp
    IN  /\ folded # 0 => votes # <<>> /\ votes[Len(votes)].transactionCnt + 1 = folded
        /\ t = NextToWrite(latest)
        /\ PostedBy(f, folded, t) = {}
        /\ \A ts \in {last} \cup PostedTimes(f, folded) : now >= ts + TimeoutWindow

(* The client's votes end with the last block it had signed on the fork    *)
(* when it assembled them, and without one it claims the genesis           *)
(* (getFinalizedAndLatestWithVotes); until the transaction is mined it may *)
(* sign another block.                                                     *)
HonestClaim(c, latest, votes) ==
    c \in Honest =>
        IF votes = <<>> THEN latest = Genesis(latestFork)
                        ELSE SignedBy(c, votes[Len(votes)])

(* tryTimeoutParticipant: it times out the participant whose turn came at  *)
(* the folded height, unless it has a block there that everybody signed;   *)
(* the signatures it is sure to have are its own and the author's.         *)
HonestTimeout(c, f, t, folded) ==
    c \in Honest /\ t # Nobody =>
        /\ folded = 0 => t = NextToWrite(Genesis(f))
        /\ StopsSigning => \A b \in Blocks :
             SignedBy(c, b) /\ b.forkCnt = f /\ b.transactionCnt = folded =>
                 ~(Genesis(f).participants \subseteq {c, b.participant})

(* What createDispute requires before it looks at the proofs, and the      *)
(* record they are applied to.                                             *)
MayOpen(c, finalized, latest, votes, t, folded) ==
    LET f == latestFork IN
    /\ ~IsDisputeInProgress
    /\ c \in Genesis(f).participants
    /\ IsFinalizedAndLatest(f, finalized, latest, votes, Genesis(f).participants)
    /\ t # Nobody => t # c /\ TimeoutDue(f, t, folded, votes, latest)

OpenedRecord(c, finalized, latest, votes, t, folded) ==
    [dispute EXCEPT
        !.exists = TRUE,
        !.forkCnt = latestFork,
        !.challengeCnt = 0,
        !.foldedTransactionCnt = folded,
        !.virtualVotingBlocks = @ \o votes,
        !.encodedLatestFinalizedState = finalized,
        !.encodedLatestCorrectState = latest,
        !.timedoutParticipant = t,
        !.timeoutDisputer = IF t # Nobody THEN c ELSE @,
        !.postedStateDisputer = c,
        !.participants = Genesis(latestFork).participants,
        !.creationTimestamp = now,
        !.deadlineTimestamp = now + ChallengeTime]

(* Up to two proofs are applied one after the other.                       *)
CreateWith(c, finalized, latest, votes, t, folded, p, q) ==
    LET opened == OpenedRecord(c, finalized, latest, votes, t, folded)
        once   == ApplyProof(opened, c, p)
        twice  == ApplyProof(once, c, q)
    IN  /\ ProofValid(opened, c, p)
        /\ ProofValid(once, c, q)
        /\ Unslashed(twice, c)
        /\ \/ ProofSucceeds(opened, p)
           \/ ProofSucceeds(once, q)
           \/ twice.timedoutParticipant # Nobody
        /\ Settle(twice)

SecondProofs == IF MaxProofs > 1 THEN SubmittedProofs ELSE {NoProof}

CreateDispute(c, finalized, latest, votes, t, folded) ==
    /\ MayOpen(c, finalized, latest, votes, t, folded)
    /\ HonestClaim(c, latest, votes)
    /\ HonestTimeout(c, latestFork, t, folded)
    /\ \E p \in SubmittedProofs, q \in SecondProofs :
            CreateWith(c, finalized, latest, votes, t, folded, p, q)

(* What challengeDispute requires besides the proofs, and the record that  *)
(* results from the one they were applied to.                              *)
MayChallenge(c, finalized, latest, votes) ==
    /\ dispute.exists
    /\ dispute.deadlineTimestamp > now
    /\ c \in dispute.participants
    /\ Unslashed(dispute, c)
    /\ IsFinalizedAndLatest(dispute.forkCnt, finalized, latest, votes, dispute.participants)
    /\ dispute.virtualVotingBlocks # <<>> /\ votes # <<>>
    /\ votes[1].transactionCnt >= dispute.virtualVotingBlocks[1].transactionCnt

(* Faulty variant: the challenge is not counted.                           *)
ChallengedRecordUncounted(d, c, finalized, latest, votes) ==
    [d EXCEPT
        !.virtualVotingBlocks = @ \o votes,
        !.encodedLatestFinalizedState = finalized,
        !.encodedLatestCorrectState = latest,
        !.postedStateDisputer = c,
        !.deadlineTimestamp = now + ChallengeTime]

ChallengedRecord(d, c, finalized, latest, votes) ==
    [d EXCEPT
        !.virtualVotingBlocks = @ \o votes,
        !.encodedLatestFinalizedState = finalized,
        !.encodedLatestCorrectState = latest,
        !.postedStateDisputer = c,
        !.deadlineTimestamp = now + ChallengeTime,
        !.challengeCnt = @ + 1]

ChallengeWith(c, finalized, latest, votes, p, q) ==
    LET once  == ApplyProof(dispute, c, p)
        twice == ApplyProof(once, c, q)
    IN  /\ ProofValid(dispute, c, p)
        /\ ProofValid(once, c, q)
        /\ Unslashed(twice, c)
        /\ ProofSucceeds(dispute, p) \/ ProofSucceeds(once, q)
        /\ Settle(ChallengedRecord(twice, c, finalized, latest, votes))

ChallengeDispute(c, finalized, latest, votes) ==
    /\ MayChallenge(c, finalized, latest, votes)
    /\ HonestClaim(c, latest, votes)
    /\ \E p \in SubmittedProofs, q \in SecondProofs :
            ChallengeWith(c, finalized, latest, votes, p, q)

-----------------------------------------------------------------------------
(* AStateChannelManagerProxy.                                              *)

(* Faulty variant: a channel can be opened twice.                          *)
OpenChannelAgain(members) ==
    /\ encodedStates' = [encodedStates EXCEPT
                            ![0] = [number |-> 0, participants |-> members]]
    /\ genesisTimestamps' = [genesisTimestamps EXCEPT ![0] = now]
    /\ UNCHANGED <<now, latestFork, postedBlockCalldata, dispute, agreement, signed>>

(* MathStateChannelManagerProxy.openChannel; everybody signed its part.    *)
OpenChannel(members) ==
    /\ ~IsChannelOpen
    /\ encodedStates' = [encodedStates EXCEPT
                            ![0] = [number |-> 0, participants |-> members]]
    /\ genesisTimestamps' = [genesisTimestamps EXCEPT ![0] = now]
    /\ UNCHANGED <<now, latestFork, postedBlockCalldata, dispute, agreement, signed>>

(* A second post for the same key overwrites the first.                    *)
PostBlockCalldata(b) ==
    /\ SignedBy(b.participant, b)
    /\ b.timestamp + TimeoutWindow >= now
    /\ b.timestamp <= now
    /\ LET key == PostedBy(b.forkCnt, b.transactionCnt, b.participant) IN
        /\ Cardinality(postedBlockCalldata \ key) < MaxPosted
        /\ postedBlockCalldata' = (postedBlockCalldata \ key) \cup
              {[forkCnt |-> b.forkCnt, transactionCnt |-> b.transactionCnt,
                participant |-> b.participant, timestamp |-> now]}
    /\ UNCHANGED <<now, latestFork, encodedStates, genesisTimestamps, dispute, agreement, signed>>

(* The modifier onlySelf: the caller of a transaction is a participant,    *)
(* the contract itself is nobody's address.                                *)
OnlySelf(c) == c = ThisAddress

(* Shared by joinChannelWithAgreement and leaveChannelWithAgreement: all   *)
(* participants signed, and the state machine is changed through a wrapper *)
(* that is onlySelf; when it refuses, the whole transaction is undone, old *)
(* exits that were being processed included.                               *)
ChangeByAgreement(c, s) ==
    /\ agreement = "none"
    /\ ~IsDisputeInProgress
    /\ IF OnlySelf(c)
       THEN /\ dispute' = IF dispute.deadlineTimestamp < now
                          THEN [dispute EXCEPT !.processExits = {}] ELSE dispute
            /\ SetState(s)
       ELSE UNCHANGED <<latestFork, encodedStates, genesisTimestamps, dispute>>
    /\ agreement' = IF OnlySelf(c) THEN "committed" ELSE "reverted"
    /\ UNCHANGED <<now, postedBlockCalldata, signed>>

JoinChannelWithAgreement(c, a) ==
    /\ c \in Genesis(latestFork).participants
    /\ a \notin Genesis(latestFork).participants
    /\ ChangeByAgreement(c, JoinsTo(Genesis(latestFork), {a}))

LeaveChannelWithAgreement(c, a) ==
    /\ a \in Genesis(latestFork).participants
    /\ ChangeByAgreement(c, Without(Genesis(latestFork), {a}))

-----------------------------------------------------------------------------
(* The environment.                                                        *)

Tick ==
    /\ now < MaxTime
    /\ now' = now + 1
    /\ UNCHANGED <<storage, agreement, signed>>

(* When the block before b, as p knows it, was stamped.                    *)
PreviousTimestamp(p, b) ==
    IF b.transactionCnt = 0
    THEN IF b.previousState = Genesis(b.forkCnt) THEN {genesisTimestamps[b.forkCnt]} ELSE {}
    ELSE {x.timestamp : x \in {y \in Blocks : /\ SignedBy(p, y)
                                              /\ y.forkCnt = b.forkCnt
                                              /\ y.transactionCnt + 1 = b.transactionCnt
                                              /\ y.state = b.previousState}}

(* The client signs one block per height, on top of the last one it        *)
(* signed, after executing it.  An author stamps its block with its clock, *)
(* or one past the previous block if that is later; a confirmer checks the *)
(* stamp against p2pTime.  A block it is executing when it disputes the    *)
(* fork it still confirms, unless StopsSigning; it plays on when it is its *)
(* turn.                                                                   *)
HonestSigns(p, b) ==
    /\ ~\E x \in Blocks : /\ SignedBy(p, x)
                          /\ x.forkCnt = b.forkCnt
                          /\ x.transactionCnt = b.transactionCnt
    /\ b.participant = NextToWrite(b.previousState)
    /\ b.state = Executed(b.previousState, b)
    /\ \E ts \in PreviousTimestamp(p, b) :
        /\ b.timestamp >= ts
        /\ p = b.participant => b.timestamp = IF now < ts THEN ts + 1 ELSE now
        /\ Punctual \/ p # b.participant => IsGoodTimestamp(ts, b)
    /\ p # b.participant => SignedBy(b.participant, b)
    /\ StopsSigning /\ p # b.participant =>
           ~(dispute.timeoutDisputer = p /\ dispute.forkCnt = b.forkCnt)

SignBlock(p, b) ==
    /\ Cardinality(signed) < MaxSignatures
    /\ ~SignedBy(p, b)
    /\ b.forkCnt <= latestFork
    /\ p \in Honest => HonestSigns(p, b)
    /\ signed' = signed \cup {<<p, b>>}
    /\ UNCHANGED <<now, storage, agreement>>

-----------------------------------------------------------------------------
NoDispute ==
    [ exists                      |-> FALSE,
      forkCnt                     |-> 0,
      challengeCnt                |-> 0,
      encodedLatestFinalizedState |-> NoState,
      encodedLatestCorrectState   |-> NoState,
      virtualVotingBlocks         |-> <<>>,
      timedoutParticipant         |-> Nobody,
      foldedTransactionCnt        |-> 0,
      timeoutDisputer             |-> Nobody,
      postedStateDisputer         |-> Nobody,
      joinChannelParticipants     |-> {},
      slashedParticipants         |-> {},
      participants                |-> {},
      processExits                |-> {},
      creationTimestamp           |-> 0,
      deadlineTimestamp           |-> 0 ]

Init ==
    /\ now = 0
    /\ latestFork = 0
    /\ encodedStates = [f \in {0} |-> NoState]
    /\ genesisTimestamps = [f \in {0} |-> 0]
    /\ postedBlockCalldata = {}
    /\ dispute = NoDispute
    /\ agreement = "none"
    /\ signed = {}

(* The states a transaction may claim as finalized or latest.              *)
Claims(votes) ==
    IF votes = <<>> THEN ClaimedStates \cup {Genesis(latestFork)}
                    ELSE {votes[Len(votes)].state}

Finals(f, votes) ==
    {Genesis(f)} \cup IF votes = <<>> THEN {} ELSE {votes[1].state}

Heights == {0} \cup {b.transactionCnt + 1 : b \in Blocks}

Dispute ==
    /\ ~IsDisputeInProgress
    /\ \E c \in Addr, votes \in Votes :
        \E finalized \in Finals(latestFork, votes), latest \in Claims(votes),
           t \in Addr \cup {Nobody}, folded \in Heights :
            CreateDispute(c, finalized, latest, votes, t, folded)

Challenge ==
    /\ dispute.exists
    /\ \E c \in Addr, votes \in Votes :
        \E finalized \in Finals(dispute.forkCnt, votes), latest \in Claims(votes) :
            ChallengeDispute(c, finalized, latest, votes)

Next ==
    \/ \E members \in Founders : OpenChannel(members)
    \/ \E b \in Blocks : PostBlockCalldata(b)
    \/ \E c, a \in Addr : JoinChannelWithAgreement(c, a)
    \/ \E c, a \in Addr : LeaveChannelWithAgreement(c, a)
    \/ Tick
    \/ \E p \in Addr, b \in Blocks : SignBlock(p, b)
    \/ Dispute
    \/ Challenge

Spec == Init /\ [][Next]_vars

-----------------------------------------------------------------------------
(* Properties.                                                             *)

Posts == [ forkCnt : Nat, transactionCnt : Nat, participant : Addr, timestamp : Nat ]

Disputes ==
    [ exists                      : BOOLEAN,
      forkCnt                     : Nat,
      challengeCnt                : Nat,
      encodedLatestFinalizedState : State,
      encodedLatestCorrectState   : State,
      virtualVotingBlocks         : Seq(Blocks),
      timedoutParticipant         : Addr \cup {Nobody},
      foldedTransactionCnt        : Nat,
      timeoutDisputer             : Addr \cup {Nobody},
      postedStateDisputer         : Addr \cup {Nobody},
      joinChannelParticipants     : SUBSET Addr,
      slashedParticipants         : SUBSET (Addr \cup {Nobody}),
      participants                : SUBSET Addr,
      processExits                : SUBSET Addr,
      creationTimestamp           : Nat,
      deadlineTimestamp           : Nat ]

(* The storage is well typed: every fork up to the latest has a genesis    *)
(* state and a timestamp (StateChannelManagerStorage).                     *)
TypeOK ==
    /\ now \in Nat
    /\ latestFork \in Nat
    /\ encodedStates \in [0..latestFork -> State]
    /\ genesisTimestamps \in [0..latestFork -> Nat]
    /\ postedBlockCalldata \subseteq Posts
    /\ dispute \in Disputes
    /\ agreement \in {"none", "committed", "reverted"}
    /\ signed \subseteq Addr \X Blocks

(* One dispute per fork (the comment on disputes in                        *)
(* StateChannelManagerStorage): the forks above a disputed one are its     *)
(* settlement and one more for each challenge, and nothing else.           *)
ForkAccounting ==
    dispute.exists => latestFork = dispute.forkCnt + dispute.challengeCnt + 1

(* While a channel has a dispute record, the fork everybody plays on is    *)
(* that dispute's settlement: its state is the corrected state on record   *)
(* and its timestamp starts the challenge period on record.                *)
LatestForkIsSettlement ==
    dispute.exists =>
        /\ Genesis(latestFork) = dispute.encodedLatestCorrectState
        /\ genesisTimestamps[latestFork] + ChallengeTime = dispute.deadlineTimestamp

(* Nobody whom any round of the dispute slashed, and not the participant   *)
(* timed out, takes part in the latest fork, whatever state the last       *)
(* challenger claimed (applyDisputeToLatestState).                         *)
ExpelledStayOut ==
    dispute.exists => Genesis(latestFork).participants \cap Expelled(dispute) = {}

(* The participants of the state that the votes on the disputed fork lead  *)
(* to; a claim without votes names a state that no vote backs.             *)
Voted ==
    LET votes == dispute.virtualVotingBlocks
    IN  IF votes # <<>> /\ votes[Len(votes)].forkCnt = dispute.forkCnt
        THEN votes[Len(votes)].state.participants ELSE {}

(* The settlement loses nobody: whoever is in the state that the last of   *)
(* the votes on record leads to, or was let in by a join proof in any      *)
(* round, is in the latest fork or owed an exit: exits are recorded before *)
(* the seat is gone, and again in every round, since they are deleted      *)
(* first (applyDisputeToLatestState).                                      *)
SettlementLosesNobody ==
    dispute.exists =>
        Voted \cup dispute.joinChannelParticipants \subseteq
            Genesis(latestFork).participants \cup dispute.processExits

(* The standing claim is never that of a slashed participant: a dispute or *)
(* challenge whose own proofs slash its sender does not commit.            *)
ClaimantNotSlashed ==
    dispute.exists => dispute.postedStateDisputer \notin dispute.slashedParticipants

(* Forks start in the order of their numbers, none in the future.          *)
ForksInOrder ==
    /\ \A f, g \in 0..latestFork : f <= g => genesisTimestamps[f] <= genesisTimestamps[g]
    /\ genesisTimestamps[latestFork] <= now

(* A fork once started is never rewritten (setState).                      *)
ForksAreImmutable ==
    [][\A f \in 0..latestFork : Genesis(f) # NoState =>
            /\ encodedStates'[f] = encodedStates[f]
            /\ genesisTimestamps'[f] = genesisTimestamps[f]]_vars

(* A dispute in progress is not replaced: it can only be challenged, one   *)
(* round at a time, and never once its deadline is reached.                *)
DisputeRunsItsCourse ==
    [][dispute.exists /\ now <= dispute.deadlineTimestamp =>
        \/ dispute' = dispute
        \/ /\ dispute'.forkCnt = dispute.forkCnt
           /\ dispute'.creationTimestamp = dispute.creationTimestamp
           /\ dispute'.challengeCnt = dispute.challengeCnt + 1
           /\ now < dispute.deadlineTimestamp]_vars

(* Every round of challenges costs somebody its seat: a challenge commits  *)
(* only if one of its proofs slashes someone anew (insertIfNotExist), so   *)
(* that a dispute cannot be prolonged for ever.  Folding a prior block and *)
(* joining always succeed, and are exempt.                                 *)
ChallengesArePaidFor ==
    ProofKinds \cap {"FoldPriorBlock", "JoinChannel"} = {} =>
        dispute.challengeCnt <= Cardinality(dispute.slashedParticipants)

(* Whoever was let in by a join proof plays in the latest fork, unless it  *)
(* was expelled since: a later round that replaces the latest state, or a  *)
(* later dispute, applies the join again (applyDisputeToLatestState).      *)
JoinersTakePart ==
    dispute.exists =>
        dispute.joinChannelParticipants \subseteq
            Genesis(latestFork).participants \cup Expelled(dispute)

(* A participant that runs the client and stamps its blocks in time is     *)
(* never slashed, whatever the others sign and submit.                     *)
HonestNotSlashed ==
    dispute.slashedParticipants \cap Honest = {}

(* The stamps of what block b says it extends: the genesis of its fork, or *)
(* any block of the fork that leads to the same state.                     *)
StampsBefore(b) ==
    IF b.previousState = Genesis(b.forkCnt)
    THEN {genesisTimestamps[b.forkCnt]}
    ELSE {x.timestamp : x \in {y \in AuthorSigned : /\ y.forkCnt = b.forkCnt
                                                   /\ y.state = b.previousState}}

(* Block b, written on the fork of dispute d, is stamped too early, too    *)
(* late or ahead of the clock.                                             *)
BadlyStamped(d, b) ==
    /\ b.forkCnt = d.forkCnt
    /\ b.timestamp > now \/ \E ts \in StampsBefore(b) : ~IsGoodTimestamp(ts, b)

(* Everybody in the fork of dispute d signed a block of the folded height. *)
FoldRefuted(d) ==
    \E b \in Blocks : /\ b.forkCnt = d.forkCnt
                      /\ b.transactionCnt = d.foldedTransactionCnt
                      /\ VerifyThresholdSigned(d.participants, b)

(* Participant h signed a block as high as the last of the votes of d.     *)
ClaimOutrun(d, h) ==
    /\ d.virtualVotingBlocks # <<>>
    /\ \E b \in Blocks :
        /\ SignedBy(h, b) /\ b.forkCnt = d.forkCnt
        /\ b.transactionCnt >=
             d.virtualVotingBlocks[Len(d.virtualVotingBlocks)].transactionCnt

(* Whatever the others sign, post and submit, in any round and with any of *)
(* the seven proofs, a participant that runs the client is slashed only    *)
(* for the stamp of a block it wrote; as the last to have timed somebody   *)
(* out, in this dispute or before it, when a finished block of the folded  *)
(* height exists; or by a challenge of its claim, when it signed a block   *)
(* as high as its last vote, be it that vote.  It is never caught in a     *)
(* double signature or with data that does not execute                     *)
(* (DisputeManagerFacet against what the client signs).                    *)
SlashedForCause ==
    [][\A h \in Honest \cap (dispute'.slashedParticipants \ dispute.slashedParticipants) :
          \/ \E b \in Blocks : /\ SignedBy(h, b) /\ h = b.participant
                               /\ BadlyStamped(dispute', b)
          \/ h = dispute.timeoutDisputer /\ FoldRefuted(dispute')
          \/ /\ h = dispute.postedStateDisputer /\ dispute'.challengeCnt > 0
             /\ ClaimOutrun(dispute, h)]_vars

=============================================================================
