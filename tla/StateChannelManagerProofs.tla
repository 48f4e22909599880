---------------------- MODULE StateChannelManagerProofs ----------------------
(***************************************************************************)
(* What holds of StateChannelManager for every value of its constants:     *)
(* any participants, blocks, application order, proof kinds and bounds.    *)
(***************************************************************************)
EXTENDS StateChannelManager, FiniteSetTheorems, TLAPS

(* The channel was opened before any fork was made. *)
Opened == latestFork > 0 => IsChannelOpen

(* Votes about the forks up to n, about forks below it, about fork f.      *)
UpTo(votes, n)  == \A i \in DOMAIN votes : votes[i].forkCnt <= n
Below(votes, n) == \A i \in DOMAIN votes : votes[i].forkCnt < n
About(votes, f) == \A i \in DOMAIN votes : votes[i].forkCnt = f

(* The last of the votes, if it is about fork f, leads to state s.         *)
LeadTo(votes, f, s) ==
    votes # <<>> /\ votes[Len(votes)].forkCnt = f => votes[Len(votes)].state = s

(* The invariant that is inductive.                                        *)
IInv ==
    /\ TypeOK
    /\ ForkAccounting
    /\ Opened
    /\ LatestForkIsSettlement
    /\ ExpelledStayOut
    /\ ClaimantNotSlashed
    /\ ForksInOrder
    /\ JoinersTakePart
    /\ Below(dispute.virtualVotingBlocks, latestFork)
    /\ SettlementLosesNobody

(* What a proof never touches.                                             *)
SameClaim(d, e) ==
    /\ e.exists = d.exists
    /\ e.forkCnt = d.forkCnt
    /\ e.challengeCnt = d.challengeCnt
    /\ e.participants = d.participants
    /\ e.postedStateDisputer = d.postedStateDisputer
    /\ e.creationTimestamp = d.creationTimestamp
    /\ e.deadlineTimestamp = d.deadlineTimestamp
    /\ e.foldedTransactionCnt = d.foldedTransactionCnt
    /\ e.virtualVotingBlocks = d.virtualVotingBlocks

(* A client signs one block for each height of a fork, and only what       *)
(* executes.                                                               *)
HonestSignsOnce ==
    \A p \in Honest, b, c \in Blocks :
        /\ SignedBy(p, b) /\ SignedBy(p, c)
        /\ b.forkCnt = c.forkCnt /\ b.transactionCnt = c.transactionCnt
        => b = c

HonestExecutes ==
    \A p \in Honest, b \in Blocks :
        SignedBy(p, b) => /\ Executes(b.previousState, b)
                          /\ b.state = Executed(b.previousState, b)

HonestPlay == HonestSignsOnce /\ HonestExecutes

(* What SlashedForCause allows to slash a client for, in a transaction     *)
(* that applies its proofs to record d.                                    *)
Caused(d, h) ==
    \/ \E b \in Blocks : SignedBy(h, b) /\ h = b.participant /\ BadlyStamped(d, b)
    \/ h = d.timeoutDisputer /\ FoldRefuted(d)
    \/ h = d.postedStateDisputer /\ ClaimOutrun(d, h)

-----------------------------------------------------------------------------
(* Lemmas on the operators.                                                *)

(* What a submitted proof consists of.                                     *)
LEMMA SubmittedType ==
    ASSUME signed \subseteq Addr \X Blocks, NEW p \in SubmittedProofs
    PROVE  /\ p.kind \in ProofKinds \cup {"None"}
           /\ p.kind = "DoubleSign" =>
                 p.signer \in Addr /\ p.block1 \in Blocks /\ p.block2 \in Blocks
           /\ p.kind = "IncorrectData" => p.block1 \in AuthorSigned /\ p.block2 \in AuthorSigned
           /\ p.kind = "BlockTooFarInFuture" => p.block \in AuthorSigned
           /\ p.kind \in {"FoldRechallenge", "NewerState"} => p.block \in Blocks
           /\ p.kind = "JoinChannel" => p.participant \in Addr
<1>1. CASE p = NoProof
  BY <1>1 DEF NoProof
<1>2. ASSUME NEW k \in ProofKinds, p \in ProofsOfKind(k)
      PROVE  /\ p.kind = k
             /\ k = "DoubleSign" =>
                   p.signer \in Addr /\ p.block1 \in Blocks /\ p.block2 \in Blocks
             /\ k = "IncorrectData" => p.block1 \in AuthorSigned /\ p.block2 \in AuthorSigned
             /\ k = "BlockTooFarInFuture" => p.block \in AuthorSigned
             /\ k \in {"FoldRechallenge", "NewerState"} => p.block \in Blocks
             /\ k = "JoinChannel" => p.participant \in Addr
  <2>1. CASE k = "DoubleSign"
    BY <1>2, <2>1 DEF ProofsOfKind
  <2>2. CASE k = "IncorrectData"
    BY <1>2, <2>2 DEF ProofsOfKind
  <2>3. CASE k = "FoldPriorBlock"
    BY <1>2, <2>3 DEF ProofsOfKind
  <2>4. CASE k = "JoinChannel"
    BY <1>2, <2>4 DEF ProofsOfKind
  <2>5. CASE k = "BlockTooFarInFuture"
    BY <1>2, <2>5 DEF ProofsOfKind
  <2>6. CASE k \in {"FoldRechallenge", "NewerState"}
    BY <1>2, <2>6 DEF ProofsOfKind
  <2> QED
    BY <2>1, <2>2, <2>3, <2>4, <2>5, <2>6, ProofKindsAssumption DEF AllProofKinds
<1> QED
  BY <1>1, <1>2 DEF SubmittedProofs

(* A valid proof turns a dispute into a dispute, never takes a slashed     *)
(* participant off the list, and leaves the claim alone.                   *)
LEMMA ApplyProofLemma ==
    ASSUME signed \subseteq Addr \X Blocks,
           NEW d \in Disputes, NEW c \in Addr, NEW p \in SubmittedProofs,
           ProofValid(d, c, p)
    PROVE  /\ ApplyProof(d, c, p) \in Disputes
           /\ SameClaim(d, ApplyProof(d, c, p))
           /\ d.slashedParticipants \subseteq ApplyProof(d, c, p).slashedParticipants
<1> DEFINE e == ApplyProof(d, c, p)
<1>0. /\ d.timeoutDisputer \in Addr \cup {Nobody}
      /\ d.postedStateDisputer \in Addr \cup {Nobody}
      /\ d.virtualVotingBlocks \in Seq(Blocks)
  BY DEF Disputes
<1>1. /\ p.kind \in AllProofKinds \cup {"None"}
      /\ p.kind = "DoubleSign" => p.signer \in Addr /\ p.block1 \in Blocks
      /\ p.kind = "IncorrectData" => p.block1 \in Blocks /\ p.block2 \in Blocks
      /\ p.kind = "BlockTooFarInFuture" => p.block \in Blocks
      /\ p.kind = "JoinChannel" => p.participant \in Addr
  BY SubmittedType, ProofKindsAssumption DEF AuthorSigned
<1>2. ASSUME NEW a \in Addr \cup {Nobody}, NEW g \in Disputes
      PROVE  /\ Slash(g, a) \in Disputes
             /\ SameClaim(g, Slash(g, a))
             /\ g.slashedParticipants \subseteq Slash(g, a).slashedParticipants
  BY DEF Slash, Disputes, SameClaim
<1>3. ASSUME NEW h \in Nat, NEW g \in Disputes
      PROVE  /\ TryCancelFold(g, h) \in Disputes
             /\ SameClaim(g, TryCancelFold(g, h))
             /\ g.slashedParticipants = TryCancelFold(g, h).slashedParticipants
  BY DEF TryCancelFold, Disputes, SameClaim
<1>4. ASSUME NEW b \in Blocks
      PROVE  b.transactionCnt \in Nat /\ b.participant \in Addr
  BY BlocksAssumption DEF Block
<1>5. CASE p.kind = "FoldRechallenge"
  <2> DEFINE g == [d EXCEPT !.timedoutParticipant = Nobody]
  <2>1. g \in Disputes /\ SameClaim(d, g) /\ g.slashedParticipants = d.slashedParticipants
    BY DEF Disputes, SameClaim
  <2>2. e = Slash(g, d.timeoutDisputer)
    BY <1>5 DEF ApplyProof, Accused
  <2> HIDE DEF g
  <2>3. /\ Slash(g, d.timeoutDisputer) \in Disputes
        /\ SameClaim(g, Slash(g, d.timeoutDisputer))
        /\ g.slashedParticipants \subseteq Slash(g, d.timeoutDisputer).slashedParticipants
    BY <1>0, <1>2, <2>1
  <2> QED
    BY <2>1, <2>2, <2>3 DEF SameClaim
<1>6. CASE p.kind \in {"DoubleSign", "IncorrectData"}
  <2>1. Accused(d, p) \in Addr /\ p.block1.transactionCnt \in Nat
    <3>1. CASE p.kind = "DoubleSign"
      BY <1>1, <1>4, <3>1 DEF Accused
    <3>2. CASE p.kind = "IncorrectData"
      BY <1>1, <1>4, <3>2 DEF Accused
    <3> QED
      BY <1>6, <3>1, <3>2
  <2>2. e = IF ProofSucceeds(d, p)
            THEN TryCancelFold(Slash(d, Accused(d, p)), p.block1.transactionCnt)
            ELSE d
    BY <1>6 DEF ApplyProof
  <2>3. CASE ProofSucceeds(d, p)
    BY <1>2, <1>3, <2>1, <2>2, <2>3 DEF SameClaim
  <2>4. CASE ~ProofSucceeds(d, p)
    BY <2>2, <2>4 DEF SameClaim
  <2> QED
    BY <2>3, <2>4
<1>7. CASE p.kind \in {"NewerState", "BlockTooFarInFuture"}
  <2>1. Accused(d, p) \in Addr \cup {Nobody}
    <3>1. CASE p.kind = "NewerState"
      BY <1>0, <3>1 DEF Accused
    <3>2. CASE p.kind = "BlockTooFarInFuture"
      BY <1>1, <1>4, <3>2 DEF Accused
    <3> QED
      BY <1>7, <3>1, <3>2
  <2>2. e = Slash(d, Accused(d, p))
    BY <1>7 DEF ApplyProof
  <2> QED
    BY <1>2, <2>1, <2>2
<1>8. CASE p.kind = "FoldPriorBlock"
  <2>1. d.virtualVotingBlocks # <<>>
    BY <1>0, <1>8 DEF ProofValid, FoldPriorBlockValid
  <2>2. PriorFolded(d) \in Addr
    BY <1>0, <1>4, <2>1 DEF PriorFolded
  <2>3. e = [d EXCEPT !.timedoutParticipant = PriorFolded(d), !.timeoutDisputer = c]
    BY <1>8 DEF ApplyProof
  <2> QED
    BY <2>2, <2>3, ZenonT(30) DEF Disputes, SameClaim
<1>9. CASE p.kind = "JoinChannel"
  <2>1. p.participant \in Addr
    BY <1>1, <1>9
  <2>2. e = [d EXCEPT !.joinChannelParticipants = @ \cup {p.participant}]
    BY <1>9 DEF ApplyProof
  <2> QED
    BY <2>1, <2>2 DEF Disputes, SameClaim
<1>10. CASE p.kind = "None"
  BY <1>10 DEF ApplyProof, SameClaim
<1> QED
  BY <1>1, <1>5, <1>6, <1>7, <1>8, <1>9, <1>10 DEF AllProofKinds

(* Two proofs in a row, as a transaction applies them.                     *)
LEMMA TwoProofs ==
    ASSUME signed \subseteq Addr \X Blocks,
           NEW d \in Disputes, NEW c \in Addr,
           NEW p \in SubmittedProofs, NEW q \in SubmittedProofs,
           ProofValid(d, c, p), ProofValid(ApplyProof(d, c, p), c, q)
    PROVE  LET e == ApplyProof(ApplyProof(d, c, p), c, q) IN
           /\ e \in Disputes
           /\ SameClaim(d, e)
           /\ d.slashedParticipants \subseteq e.slashedParticipants
<1>1. /\ ApplyProof(d, c, p) \in Disputes
      /\ SameClaim(d, ApplyProof(d, c, p))
      /\ d.slashedParticipants \subseteq ApplyProof(d, c, p).slashedParticipants
  BY ApplyProofLemma
<1>2. LET e == ApplyProof(ApplyProof(d, c, p), c, q) IN
      /\ e \in Disputes
      /\ SameClaim(ApplyProof(d, c, p), e)
      /\ ApplyProof(d, c, p).slashedParticipants \subseteq e.slashedParticipants
  BY <1>1, ApplyProofLemma
<1> QED
  BY <1>1, <1>2 DEF SameClaim

(* The states the contract computes are states.                            *)
LEMMA SettledType ==
    ASSUME NEW d \in Disputes
    PROVE  /\ Settled(d) \in Disputes
           /\ SameClaim(d, Settled(d))
           /\ Settled(d).slashedParticipants = d.slashedParticipants
           /\ Settled(d).joinChannelParticipants = d.joinChannelParticipants
           /\ Expelled(Settled(d)) = Expelled(d)
<1> DEFINE joined == JoinsTo(d.encodedLatestCorrectState, d.joinChannelParticipants)
<1>1. d.encodedLatestCorrectState \in State /\ d.joinChannelParticipants \subseteq Addr
  BY DEF Disputes
<1>2. joined \in State
  BY <1>1 DEF JoinsTo, State
<1>3. Without(joined, Expelled(d)) \in State
  BY <1>2 DEF Without, State
<1>4. Expelled(d) \cap joined.participants \in SUBSET Addr
  BY <1>2 DEF State
<1>5. Settled(d) = [d EXCEPT !.processExits = Expelled(d) \cap joined.participants,
                     !.encodedLatestCorrectState = Without(joined, Expelled(d))]
  BY DEF Settled
<1> HIDE DEF joined
<1> QED
  BY <1>3, <1>4, <1>5 DEF Disputes, SameClaim, Expelled

(* The settlement: nobody expelled is in it, every joiner that was not     *)
(* expelled is.                                                            *)
LEMMA SettledState ==
    ASSUME NEW d \in Disputes,
           JoinsAll(d.encodedLatestCorrectState, d.joinChannelParticipants)
    PROVE  LET s == Settled(d).encodedLatestCorrectState IN
           /\ s.participants \cap Expelled(d) = {}
           /\ d.joinChannelParticipants \subseteq s.participants \cup Expelled(d)
<1> DEFINE joined == JoinsTo(d.encodedLatestCorrectState, d.joinChannelParticipants)
<1>1. d.encodedLatestCorrectState \in State
  BY DEF Disputes
<1>2. joined \in State /\ d.joinChannelParticipants \subseteq joined.participants
  BY <1>1, JoinAssumption DEF JoinsTo, JoinsAll, State, Disputes
<1>3. Settled(d).encodedLatestCorrectState = Without(joined, Expelled(d))
  BY DEF Settled, Disputes
<1>4. Without(joined, Expelled(d)).participants = joined.participants \ Expelled(d)
  BY <1>2 DEF Without, State
<1> QED
  BY <1>2, <1>3, <1>4

(* A proof that succeeds slashes someone anew, unless it is of the two     *)
(* kinds that always succeed.                                              *)
LEMMA SuccessSlashes ==
    ASSUME signed \subseteq Addr \X Blocks,
           NEW d \in Disputes, NEW c \in Addr, NEW p \in SubmittedProofs,
           ProofValid(d, c, p), ProofSucceeds(d, p),
           ProofKinds \cap {"FoldPriorBlock", "JoinChannel"} = {}
    PROVE  d.slashedParticipants # ApplyProof(d, c, p).slashedParticipants
<1>1. p.kind \in AllProofKinds \ {"FoldPriorBlock", "JoinChannel", "None"}
  BY SubmittedType, ProofKindsAssumption DEF ProofSucceeds
<1>2. Unslashed(d, Accused(d, p))
  <2>1. CASE p.kind = "IncorrectData"
    BY <2>1 DEF ProofSucceeds
  <2>2. CASE p.kind # "IncorrectData"
    BY <1>1, <2>2 DEF ProofSucceeds
  <2> QED
    BY <2>1, <2>2
<1>3. ASSUME NEW g \in Disputes, NEW a
      PROVE  a \in Slash(g, a).slashedParticipants
  BY DEF Slash, Disputes
<1>4. Accused(d, p) \in ApplyProof(d, c, p).slashedParticipants
  <2>1. CASE p.kind = "FoldRechallenge"
    <3> DEFINE g == [d EXCEPT !.timedoutParticipant = Nobody]
    <3>1. g \in Disputes
      BY DEF Disputes
    <3>2. ApplyProof(d, c, p) = Slash(g, Accused(d, p))
      BY <2>1 DEF ApplyProof
    <3> HIDE DEF g
    <3> QED
      BY <1>3, <3>1, <3>2
  <2>2. CASE p.kind \in {"DoubleSign", "IncorrectData"}
    <3>1. ApplyProof(d, c, p)
            = TryCancelFold(Slash(d, Accused(d, p)), p.block1.transactionCnt)
      BY <2>2 DEF ApplyProof
    <3>2. ASSUME NEW g, NEW h, g = Slash(d, Accused(d, p))
          PROVE  TryCancelFold(g, h).slashedParticipants = g.slashedParticipants
      BY <3>2 DEF TryCancelFold, Slash, Disputes
    <3> QED
      BY <1>3, <3>1, <3>2
  <2>3. CASE p.kind \in {"NewerState", "BlockTooFarInFuture"}
    BY <1>3, <2>3 DEF ApplyProof
  <2> QED
    BY <1>1, <2>1, <2>2, <2>3 DEF AllProofKinds
<1> QED
  BY <1>2, <1>4 DEF Unslashed

(* No proof touches the state that is claimed.                             *)
LEMMA ProofsLeaveLatest ==
    ASSUME NEW d \in Disputes, NEW c, NEW p
    PROVE  ApplyProof(d, c, p).encodedLatestCorrectState = d.encodedLatestCorrectState
<1>1. ASSUME NEW g, NEW a
      PROVE  Slash(g, a).encodedLatestCorrectState = g.encodedLatestCorrectState
  BY DEF Slash
<1>2. ASSUME NEW g, NEW h
      PROVE  TryCancelFold(g, h).encodedLatestCorrectState = g.encodedLatestCorrectState
  BY DEF TryCancelFold
<1>3. CASE p.kind = "FoldRechallenge"
  <2>1. ApplyProof(d, c, p) = Slash([d EXCEPT !.timedoutParticipant = Nobody], Accused(d, p))
    BY <1>3 DEF ApplyProof
  <2>2. [d EXCEPT !.timedoutParticipant = Nobody].encodedLatestCorrectState
          = d.encodedLatestCorrectState
    BY DEF Disputes
  <2> QED
    BY <1>1, <2>1, <2>2
<1>4. CASE p.kind \in {"DoubleSign", "IncorrectData"}
  <2>1. ApplyProof(d, c, p) = IF ProofSucceeds(d, p)
            THEN TryCancelFold(Slash(d, Accused(d, p)), p.block1.transactionCnt)
            ELSE d
    BY <1>4 DEF ApplyProof
  <2> QED
    BY <1>1, <1>2, <2>1
<1>5. CASE p.kind \in {"NewerState", "BlockTooFarInFuture"}
  <2>1. ApplyProof(d, c, p) = Slash(d, Accused(d, p))
    BY <1>5 DEF ApplyProof
  <2> QED
    BY <1>1, <2>1
<1>6. CASE p.kind = "FoldPriorBlock"
  BY <1>6 DEF ApplyProof, Disputes
<1>7. CASE p.kind = "JoinChannel"
  BY <1>7 DEF ApplyProof, Disputes
<1>8. CASE p.kind \notin AllProofKinds
  BY <1>8 DEF ApplyProof, AllProofKinds
<1> QED
  BY <1>3, <1>4, <1>5, <1>6, <1>7, <1>8 DEF AllProofKinds

(* The settlement keeps everybody: who leaves the claimed state, joiners   *)
(* included, is owed an exit.                                              *)
LEMMA SettledKeeps ==
    ASSUME NEW d \in Disputes,
           JoinsAll(d.encodedLatestCorrectState, d.joinChannelParticipants)
    PROVE  d.encodedLatestCorrectState.participants \cup d.joinChannelParticipants
             \subseteq Settled(d).encodedLatestCorrectState.participants
                         \cup Settled(d).processExits
<1>1. PICK joined : joined = JoinsTo(d.encodedLatestCorrectState, d.joinChannelParticipants)
  OBVIOUS
<1>2. d.encodedLatestCorrectState \in State /\ d.joinChannelParticipants \subseteq Addr
  BY DEF Disputes
<1>3. /\ joined \in State
      /\ d.encodedLatestCorrectState.participants \subseteq joined.participants
      /\ d.joinChannelParticipants \subseteq joined.participants
  BY <1>1, <1>2, JoinAssumption DEF JoinsTo, JoinsAll, State
<1>4. /\ Settled(d).encodedLatestCorrectState = Without(joined, Expelled(d))
      /\ Settled(d).processExits = Expelled(d) \cap joined.participants
  BY <1>1 DEF Settled, Disputes
<1>5. Without(joined, Expelled(d)).participants = joined.participants \ Expelled(d)
  BY <1>3 DEF Without, State
<1> QED
  BY <1>3, <1>4, <1>5

(* Whom a proof slashes anew.                                              *)
LEMMA ProofSlashes ==
    ASSUME NEW d \in Disputes, NEW c \in Addr, NEW p \in SubmittedProofs,
           NEW h \in ApplyProof(d, c, p).slashedParticipants \ d.slashedParticipants,
           signed \subseteq Addr \X Blocks
    PROVE  /\ p.kind \notin {"None", "FoldPriorBlock", "JoinChannel"}
           /\ h = Accused(d, p)
           /\ p.kind = "IncorrectData" => IncorrectDataShown(d, p)
<1>1. p.kind \in AllProofKinds \cup {"None"}
  BY SubmittedType, ProofKindsAssumption
<1>2. ASSUME NEW a
      PROVE  Slash(d, a).slashedParticipants = d.slashedParticipants \cup {a}
  BY DEF Slash, Disputes
<1>3. CASE p.kind \in {"None", "FoldPriorBlock", "JoinChannel"}
  BY <1>3 DEF ApplyProof, Disputes
<1>4. CASE p.kind = "FoldRechallenge"
  <2>1. ApplyProof(d, c, p) = Slash([d EXCEPT !.timedoutParticipant = Nobody], Accused(d, p))
    BY <1>4 DEF ApplyProof
  <2>2. PICK g : g = [d EXCEPT !.timedoutParticipant = Nobody]
    OBVIOUS
  <2>3. g \in Disputes /\ g.slashedParticipants = d.slashedParticipants
    BY <2>2 DEF Disputes
  <2>4. Slash(g, Accused(d, p)).slashedParticipants = d.slashedParticipants \cup {Accused(d, p)}
    BY <2>3 DEF Slash, Disputes
  <2> QED
    BY <1>4, <2>1, <2>2, <2>4
<1>5. CASE p.kind \in {"DoubleSign", "IncorrectData"}
  <2>1. ApplyProof(d, c, p) = IF ProofSucceeds(d, p)
            THEN TryCancelFold(Slash(d, Accused(d, p)), p.block1.transactionCnt)
            ELSE d
    BY <1>5 DEF ApplyProof
  <2>2. ProofSucceeds(d, p)
    BY <2>1
  <2>3. ASSUME NEW g, NEW n, g = Slash(d, Accused(d, p))
        PROVE  TryCancelFold(g, n).slashedParticipants = g.slashedParticipants
    BY <2>3 DEF TryCancelFold, Slash, Disputes
  <2>4. h = Accused(d, p)
    BY <1>2, <2>1, <2>2, <2>3
  <2>5. p.kind = "IncorrectData" => IncorrectDataShown(d, p)
    BY <2>2 DEF ProofSucceeds
  <2> QED
    BY <1>5, <2>4, <2>5
<1>6. CASE p.kind \in {"NewerState", "BlockTooFarInFuture"}
  BY <1>2, <1>6 DEF ApplyProof
<1> QED
  BY <1>1, <1>3, <1>4, <1>5, <1>6 DEF AllProofKinds

(* A valid proof slashes a client only for a cause; that it signed twice   *)
(* or what does not execute cannot be proved.                              *)
LEMMA ProofHasCause ==
    ASSUME HonestPlay, signed \subseteq Addr \X Blocks,
           NEW d \in Disputes, NEW c \in Addr, NEW p \in SubmittedProofs,
           ProofValid(d, c, p),
           NEW h \in Honest, h \in ApplyProof(d, c, p).slashedParticipants \ d.slashedParticipants
    PROVE  Caused(d, h)
<1>1. /\ p.kind \notin {"None", "FoldPriorBlock", "JoinChannel"}
      /\ h = Accused(d, p)
      /\ p.kind = "IncorrectData" => IncorrectDataShown(d, p)
  BY ProofSlashes
<1>2. /\ p.kind \in AllProofKinds \cup {"None"}
      /\ p.kind = "DoubleSign" =>
            p.signer \in Addr /\ p.block1 \in Blocks /\ p.block2 \in Blocks
      /\ p.kind = "IncorrectData" => p.block1 \in AuthorSigned /\ p.block2 \in AuthorSigned
      /\ p.kind = "BlockTooFarInFuture" => p.block \in AuthorSigned
      /\ p.kind \in {"FoldRechallenge", "NewerState"} => p.block \in Blocks
  BY SubmittedType, ProofKindsAssumption
<1>3. CASE p.kind = "FoldRechallenge"
  BY <1>1, <1>2, <1>3 DEF ProofValid, FoldRechallengeValid, Accused, Caused, FoldRefuted
<1>4. CASE p.kind = "DoubleSign"
  BY <1>1, <1>2, <1>4 DEF ProofValid, DoubleSignValid, Accused, HonestPlay, HonestSignsOnce
<1>5. CASE p.kind = "IncorrectData"
  <2>1. /\ h = p.block2.participant /\ SignedBy(h, p.block2)
        /\ p.block1 \in Blocks /\ p.block2 \in Blocks
    BY <1>1, <1>2, <1>5 DEF Accused, AuthorSigned
  <2>2. /\ p.block1.forkCnt = d.forkCnt
        /\ p.block2.forkCnt = d.forkCnt
        /\ \/ p.block2.previousState = Genesis(d.forkCnt)
           \/ p.block2.previousState = p.block1.state
    BY <1>5 DEF ProofValid, IncorrectDataValid
  <2>3. /\ Executes(p.block2.previousState, p.block2)
        /\ p.block2.state = Executed(p.block2.previousState, p.block2)
    BY <2>1 DEF HonestPlay, HonestExecutes
  <2>4. PICK ts : /\ ts = IF p.block2.previousState = Genesis(d.forkCnt)
                          THEN genesisTimestamps[d.forkCnt] ELSE p.block1.timestamp
                  /\ ~IsGoodTimestamp(ts, p.block2)
    BY <1>1, <1>5, <2>3 DEF IncorrectDataShown
  <2>5. ts \in StampsBefore(p.block2)
    BY <1>2, <1>5, <2>1, <2>2, <2>4 DEF StampsBefore
  <2>6. BadlyStamped(d, p.block2)
    BY <2>2, <2>4, <2>5 DEF BadlyStamped
  <2> QED
    BY <2>1, <2>6 DEF Caused
<1>6. CASE p.kind = "NewerState"
  BY <1>1, <1>2, <1>6 DEF ProofValid, NewerStateValid, Accused, Caused, ClaimOutrun
<1>7. CASE p.kind = "BlockTooFarInFuture"
  BY <1>1, <1>2, <1>7
     DEF ProofValid, BlockTooFarInFutureValid, Accused, Caused, BadlyStamped, AuthorSigned
<1> QED
  BY <1>1, <1>2, <1>3, <1>4, <1>5, <1>6, <1>7 DEF AllProofKinds

(* A valid proof changes the disputer of the timeout to its sender or to   *)
(* nobody.                                                                 *)
LEMMA ProofsLeaveDisputer ==
    ASSUME signed \subseteq Addr \X Blocks,
           NEW d \in Disputes, NEW c \in Addr, NEW p \in SubmittedProofs
    PROVE  ApplyProof(d, c, p).timeoutDisputer \in {d.timeoutDisputer, c, Nobody}
<1>1. p.kind \in AllProofKinds \cup {"None"}
  BY SubmittedType, ProofKindsAssumption
<1>2. ASSUME NEW a, NEW g \in Disputes
      PROVE  Slash(g, a).timeoutDisputer = g.timeoutDisputer
  BY DEF Slash, Disputes
<1>3. CASE p.kind = "FoldRechallenge"
  <2>1. PICK g : g = [d EXCEPT !.timedoutParticipant = Nobody]
    OBVIOUS
  <2>2. g \in Disputes /\ g.timeoutDisputer = d.timeoutDisputer
    BY <2>1 DEF Disputes
  <2> QED
    BY <1>2, <1>3, <2>1, <2>2 DEF ApplyProof
<1>4. CASE p.kind \in {"DoubleSign", "IncorrectData"}
  <2>1. ApplyProof(d, c, p) = IF ProofSucceeds(d, p)
            THEN TryCancelFold(Slash(d, Accused(d, p)), p.block1.transactionCnt)
            ELSE d
    BY <1>4 DEF ApplyProof
  <2>2. ASSUME NEW g, NEW n, g = Slash(d, Accused(d, p))
        PROVE  TryCancelFold(g, n).timeoutDisputer \in {d.timeoutDisputer, Nobody}
    BY <2>2 DEF TryCancelFold, Slash, Disputes
  <2> QED
    BY <2>1, <2>2
<1>5. CASE p.kind \in {"NewerState", "BlockTooFarInFuture"}
  BY <1>2, <1>5 DEF ApplyProof
<1>6. CASE p.kind \in {"FoldPriorBlock", "JoinChannel", "None"}
  BY <1>6 DEF ApplyProof, Disputes
<1> QED
  BY <1>1, <1>3, <1>4, <1>5, <1>6 DEF AllProofKinds

(* Nor do two proofs in a row slash a client without a cause, unless it is *)
(* their sender.                                                           *)
LEMMA ProofsHaveCauses ==
    ASSUME HonestPlay, signed \subseteq Addr \X Blocks,
           NEW d \in Disputes, NEW c \in Addr,
           NEW p \in SubmittedProofs, NEW q \in SubmittedProofs,
           ProofValid(d, c, p), ProofValid(ApplyProof(d, c, p), c, q),
           NEW h \in Honest, h # c,
           h \in ApplyProof(ApplyProof(d, c, p), c, q).slashedParticipants
                  \ d.slashedParticipants
    PROVE  Caused(d, h)
<1>1. PICK once : once = ApplyProof(d, c, p)
  OBVIOUS
<1>2. /\ once \in Disputes
      /\ SameClaim(d, once)
      /\ once.timeoutDisputer \in {d.timeoutDisputer, c, Nobody}
  BY <1>1, ApplyProofLemma, ProofsLeaveDisputer
<1>3. CASE h \in once.slashedParticipants
  BY <1>1, <1>3, ProofHasCause
<1>4. CASE h \notin once.slashedParticipants
  <2>1. Caused(once, h)
    BY <1>1, <1>2, <1>4, ProofHasCause
  <2>2. h # Nobody
    BY HonestAssumption, AddrAssumption
  <2> QED
    BY <1>2, <2>1, <2>2 DEF Caused, SameClaim, BadlyStamped, FoldRefuted, ClaimOutrun
<1> QED
  BY <1>3, <1>4

-----------------------------------------------------------------------------
(* What a committing dispute transaction amounts to.                       *)

(* What SlashedForCause says of a transaction that leaves record d.        *)
ForCause(d, h) ==
    \/ \E b \in Blocks : /\ SignedBy(h, b) /\ h = b.participant
                         /\ BadlyStamped(d, b)
    \/ h = dispute.timeoutDisputer /\ FoldRefuted(d)
    \/ /\ h = dispute.postedStateDisputer /\ d.challengeCnt > 0
       /\ ClaimOutrun(dispute, h)

(* d is the record just before applyDisputeToLatestState.                  *)
Commits(d) ==
    /\ Settle(d)
    /\ d.exists
    /\ d.deadlineTimestamp = now + ChallengeTime
    /\ d.postedStateDisputer \notin d.slashedParticipants
    /\ LeadTo(d.virtualVotingBlocks, d.forkCnt, d.encodedLatestCorrectState)
    /\ UpTo(d.virtualVotingBlocks, latestFork)
    /\ HonestPlay =>
          \A h \in Honest \cap (d.slashedParticipants \ dispute.slashedParticipants) :
              ForCause(d, h)

Creates(d) ==
    /\ Commits(d)
    /\ d.participants = Genesis(latestFork).participants
    /\ ~IsDisputeInProgress
    /\ Genesis(latestFork).participants # {}
    /\ d.forkCnt = latestFork
    /\ d.challengeCnt = 0

Challenges(d) ==
    /\ Commits(d)
    /\ dispute.exists
    /\ now < dispute.deadlineTimestamp
    /\ d.participants = dispute.participants
    /\ d.forkCnt = dispute.forkCnt
    /\ d.creationTimestamp = dispute.creationTimestamp
    /\ d.challengeCnt = dispute.challengeCnt + 1
    /\ dispute.slashedParticipants \subseteq d.slashedParticipants
    /\ ProofKinds \cap {"FoldPriorBlock", "JoinChannel"} = {} =>
            dispute.slashedParticipants # d.slashedParticipants

(* Calldata carries sequences of blocks.                                   *)
LEMMA VotesType ==
    ASSUME NEW votes \in Votes
    PROVE  votes \in Seq(Blocks)
BY BoundsAssumption DEF Votes, AuthorSigned

(* Votes added to the record: all are about forks that exist, and the last *)
(* one backs the claim, unless there is none about the disputed fork.      *)
LEMMA VotesOnRecord ==
    ASSUME NEW old \in Seq(Blocks), NEW votes \in Seq(Blocks),
           NEW n \in Nat, NEW f \in 0..n, NEW latest,
           Below(old, n), About(votes, f), LeadTo(votes, f, latest),
           votes = <<>> => f = n
    PROVE  UpTo(old \o votes, n) /\ LeadTo(old \o votes, f, latest)
<1>1. PICK all : all = old \o votes
  OBVIOUS
<1>2. /\ all \in Seq(Blocks)
      /\ Len(all) = Len(old) + Len(votes)
      /\ \A i \in 1..Len(all) :
            all[i] = IF i <= Len(old) THEN old[i] ELSE votes[i - Len(old)]
  BY <1>1
<1>3. \A b \in Blocks : b.forkCnt \in Nat
  BY BlocksAssumption DEF Block
<1>4. ASSUME NEW i \in 1..Len(all)
      PROVE  all[i].forkCnt <= n
  <2>1. CASE i <= Len(old)
    <3>1. i \in DOMAIN old /\ all[i] = old[i] /\ old[i] \in Blocks
      BY <1>2, <2>1
    <3> QED
      BY <1>3, <3>1 DEF Below
  <2>2. CASE ~(i <= Len(old))
    <3>1. i - Len(old) \in DOMAIN votes /\ all[i] = votes[i - Len(old)]
      BY <1>2, <2>2
    <3> QED
      BY <1>3, <3>1 DEF About
  <2> QED
    BY <2>1, <2>2
<1>5. ASSUME all # <<>>, all[Len(all)].forkCnt = f
      PROVE  all[Len(all)].state = latest
  <2>1. CASE votes = <<>>
    <3>1. Len(all) \in DOMAIN old /\ all[Len(all)] = old[Len(all)] /\ old[Len(all)] \in Blocks
      BY <1>2, <1>5, <2>1
    <3> QED
      BY <1>3, <1>5, <2>1, <3>1 DEF Below
  <2>2. CASE votes # <<>>
    <3>1. Len(votes) \in Nat \ {0} /\ Len(old) \in Nat
      BY <2>2
    <3>2. Len(all) \in 1..Len(all) /\ ~(Len(all) <= Len(old)) /\ Len(all) - Len(old) = Len(votes)
      BY <1>2, <3>1
    <3> QED
      BY <1>2, <2>2, <3>2 DEF LeadTo, About
  <2> QED
    BY <2>1, <2>2
<1> QED
  BY <1>1, <1>4, <1>5 DEF UpTo, LeadTo

(* The empty proof is neither of the two kinds that always succeed.        *)
LEMMA NoProofType ==
    NoProof \in SubmittedProofs
BY DEF SubmittedProofs

(* createDispute                                                           *)
LEMMA CreateLemma ==
    ASSUME TypeOK, Below(dispute.virtualVotingBlocks, latestFork), NEW c \in Addr, NEW votes \in Votes,
           NEW finalized \in State, NEW latest \in State,
           NEW t \in Addr \cup {Nobody}, NEW folded \in Nat,
           CreateDispute(c, finalized, latest, votes, t, folded)
    PROVE  \E d \in Disputes : Creates(d)
<1> DEFINE opened == OpenedRecord(c, finalized, latest, votes, t, folded)
<1>1. PICK p \in SubmittedProofs, q \in SubmittedProofs :
        LET twice == ApplyProof(ApplyProof(opened, c, p), c, q) IN
        /\ ProofValid(opened, c, p)
        /\ ProofValid(ApplyProof(opened, c, p), c, q)
        /\ Unslashed(twice, c)
        /\ Settle(twice)
  BY NoProofType DEF CreateDispute, CreateWith, SecondProofs
<1>2. opened \in Disputes
  <2>1. dispute.virtualVotingBlocks \o votes \in Seq(Blocks)
    BY VotesType DEF TypeOK, Disputes
  <2>2. Genesis(latestFork).participants \in SUBSET Addr
    BY DEF TypeOK, Genesis, State
  <2>3. now \in Nat /\ latestFork \in Nat /\ now + ChallengeTime \in Nat
    BY TimesAssumption DEF TypeOK
  <2>4. (IF t # Nobody THEN c ELSE dispute.timeoutDisputer) \in Addr \cup {Nobody}
    BY DEF TypeOK, Disputes
  <2> QED
    BY <2>1, <2>2, <2>3, <2>4, ZenonT(30) DEF OpenedRecord, TypeOK, Disputes
<1>3. /\ opened.exists = TRUE
      /\ opened.forkCnt = latestFork
      /\ opened.challengeCnt = 0
      /\ opened.postedStateDisputer = c
      /\ opened.deadlineTimestamp = now + ChallengeTime
      /\ opened.participants = Genesis(latestFork).participants
      /\ opened.encodedLatestCorrectState = latest
      /\ opened.slashedParticipants = dispute.slashedParticipants
      /\ opened.timeoutDisputer \in {c, dispute.timeoutDisputer}
      /\ opened.virtualVotingBlocks = dispute.virtualVotingBlocks \o votes
  BY DEF OpenedRecord, TypeOK, Disputes
<1>4. ~IsDisputeInProgress /\ Genesis(latestFork).participants # {}
  BY DEF CreateDispute, MayOpen
<1>5. signed \subseteq Addr \X Blocks
  BY DEF TypeOK
<1> HIDE DEF opened
<1> DEFINE d == ApplyProof(ApplyProof(opened, c, p), c, q)
<1>6. d \in Disputes /\ SameClaim(opened, d)
  BY <1>1, <1>2, <1>5, TwoProofs
<1>7. Settle(d) /\ c \notin d.slashedParticipants
  BY <1>1 DEF Unslashed
<1>8. d.encodedLatestCorrectState = latest
  <2>1. ApplyProof(opened, c, p) \in Disputes
    BY <1>1, <1>2, <1>5, ApplyProofLemma
  <2> QED
    BY <1>2, <1>3, <2>1, ProofsLeaveLatest
<1>9. /\ UpTo(opened.virtualVotingBlocks, latestFork)
      /\ LeadTo(opened.virtualVotingBlocks, opened.forkCnt, latest)
  <2>1. IsFinalizedAndLatest(latestFork, finalized, latest, votes,
                             Genesis(latestFork).participants)
    BY DEF CreateDispute, MayOpen
  <2>2. latestFork \in Nat /\ latestFork \in 0..latestFork
    BY DEF TypeOK
  <2>3. votes \in Seq(Blocks) /\ dispute.virtualVotingBlocks \in Seq(Blocks)
    BY VotesType DEF TypeOK, Disputes
  <2>4. About(votes, latestFork) /\ LeadTo(votes, latestFork, latest)
    BY <2>1 DEF IsFinalizedAndLatest, About, LeadTo
  <2> QED
    BY <1>3, <2>2, <2>3, <2>4, VotesOnRecord
<1>10. HonestPlay =>
          \A h \in Honest \cap (d.slashedParticipants \ dispute.slashedParticipants) :
              ForCause(d, h)
  <2> SUFFICES ASSUME HonestPlay,
                      NEW h \in Honest \cap (d.slashedParticipants \ dispute.slashedParticipants)
               PROVE  ForCause(d, h)
    OBVIOUS
  <2>1. h # c
    BY <1>7
  <2>2. Caused(opened, h)
    BY <1>1, <1>2, <1>3, <1>5, <2>1, ProofsHaveCauses
  <2> QED
    BY <1>3, <1>6, <2>1, <2>2 DEF Caused, ForCause, SameClaim, BadlyStamped, FoldRefuted
<1> HIDE DEF d
<1>11. d.participants = Genesis(latestFork).participants
  BY <1>3, <1>6 DEF SameClaim
<1>12. /\ LeadTo(d.virtualVotingBlocks, d.forkCnt, d.encodedLatestCorrectState)
       /\ UpTo(d.virtualVotingBlocks, latestFork)
  BY <1>3, <1>6, <1>8, <1>9 DEF SameClaim
<1>13. Commits(d)
  BY <1>3, <1>6, <1>7, <1>10, <1>12 DEF Commits, SameClaim
<1>14. Creates(d)
  BY <1>3, <1>4, <1>6, <1>11, <1>13 DEF Creates, SameClaim
<1> QED
  BY <1>6, <1>14

(* challengeDispute                                                        *)
LEMMA ChallengeLemma ==
    ASSUME TypeOK, ForkAccounting, Below(dispute.virtualVotingBlocks, latestFork),
           NEW c \in Addr, NEW votes \in Votes,
           NEW finalized \in State, NEW latest \in State,
           ChallengeDispute(c, finalized, latest, votes)
    PROVE  \E d \in Disputes : Challenges(d)
<1> DEFINE Twice(p, q) == ApplyProof(ApplyProof(dispute, c, p), c, q)
           Challenged(x) == ChallengedRecord(x, c, finalized, latest, votes)
<1>1. PICK p \in SubmittedProofs, q \in SubmittedProofs :
        /\ ProofValid(dispute, c, p)
        /\ ProofValid(ApplyProof(dispute, c, p), c, q)
        /\ Unslashed(Twice(p, q), c)
        /\ ProofSucceeds(dispute, p) \/ ProofSucceeds(ApplyProof(dispute, c, p), q)
        /\ Settle(Challenged(Twice(p, q)))
  BY NoProofType DEF ChallengeDispute, ChallengeWith, SecondProofs
<1>2. /\ dispute.exists
      /\ now < dispute.deadlineTimestamp
  BY DEF ChallengeDispute, MayChallenge, TypeOK, Disputes
<1>3. signed \subseteq Addr \X Blocks /\ dispute \in Disputes
  BY DEF TypeOK
<1> DEFINE once == ApplyProof(dispute, c, p)
           g == Twice(p, q)
<1>4. g \in Disputes /\ SameClaim(dispute, g)
  BY <1>1, <1>3, TwoProofs
<1>5. /\ once \in Disputes
      /\ dispute.slashedParticipants \subseteq once.slashedParticipants
  BY <1>1, <1>3, ApplyProofLemma
<1>6. once.slashedParticipants \subseteq g.slashedParticipants
  BY <1>1, <1>3, <1>5, ApplyProofLemma
<1>7. ASSUME ProofKinds \cap {"FoldPriorBlock", "JoinChannel"} = {}
      PROVE  dispute.slashedParticipants # g.slashedParticipants
  <2>1. CASE ProofSucceeds(dispute, p)
    <3>1. dispute.slashedParticipants # once.slashedParticipants
      BY <1>1, <1>3, <1>7, <2>1, SuccessSlashes
    <3> QED
      BY <1>5, <1>6, <3>1
  <2>2. CASE ProofSucceeds(once, q)
    <3>1. once.slashedParticipants # g.slashedParticipants
      BY <1>1, <1>3, <1>5, <1>7, <2>2, SuccessSlashes
    <3> QED
      BY <1>5, <1>6, <3>1
  <2> QED
    BY <1>1, <2>1, <2>2
<1>8. Unslashed(g, c) /\ Settle(Challenged(g))
  BY <1>1
<1>9. HonestPlay =>
          \A h \in Honest \cap (g.slashedParticipants \ dispute.slashedParticipants) :
              Caused(dispute, h)
  <2> SUFFICES ASSUME HonestPlay,
                      NEW h \in Honest \cap (g.slashedParticipants \ dispute.slashedParticipants)
               PROVE  Caused(dispute, h)
    OBVIOUS
  <2>1. h # c
    BY <1>8 DEF Unslashed
  <2> QED
    BY <1>1, <1>3, <2>1, ProofsHaveCauses
<1>10. /\ UpTo(dispute.virtualVotingBlocks \o votes, latestFork)
       /\ LeadTo(dispute.virtualVotingBlocks \o votes, dispute.forkCnt, latest)
  <2>1. dispute.forkCnt \in 0..latestFork /\ latestFork \in Nat
    BY <1>2 DEF ForkAccounting, TypeOK, Disputes
  <2>2. /\ IsFinalizedAndLatest(dispute.forkCnt, finalized, latest, votes, dispute.participants)
        /\ votes # <<>>
    BY DEF ChallengeDispute, MayChallenge
  <2>3. votes \in Seq(Blocks) /\ dispute.virtualVotingBlocks \in Seq(Blocks)
    BY VotesType DEF TypeOK, Disputes
  <2>4. About(votes, dispute.forkCnt) /\ LeadTo(votes, dispute.forkCnt, latest)
    BY <2>2 DEF IsFinalizedAndLatest, About, LeadTo
  <2> QED
    BY <2>1, <2>2, <2>3, <2>4, VotesOnRecord
<1> HIDE DEF g, once, Twice
<1> DEFINE d == Challenged(g)
<1>11. ASSUME NEW x \in Disputes
      PROVE  /\ Challenged(x) \in Disputes
             /\ Challenged(x).exists = x.exists
             /\ Challenged(x).forkCnt = x.forkCnt
             /\ Challenged(x).creationTimestamp = x.creationTimestamp
             /\ Challenged(x).challengeCnt = x.challengeCnt + 1
             /\ Challenged(x).postedStateDisputer = c
             /\ Challenged(x).deadlineTimestamp = now + ChallengeTime
             /\ Challenged(x).slashedParticipants = x.slashedParticipants
             /\ Challenged(x).participants = x.participants
             /\ Challenged(x).encodedLatestCorrectState = latest
             /\ Challenged(x).foldedTransactionCnt = x.foldedTransactionCnt
             /\ Challenged(x).virtualVotingBlocks = x.virtualVotingBlocks \o votes
  <2>1. x.virtualVotingBlocks \o votes \in Seq(Blocks)
    BY VotesType DEF Disputes
  <2>2. now + ChallengeTime \in Nat
    BY TimesAssumption DEF TypeOK
  <2>3. x.challengeCnt + 1 \in Nat
    BY DEF Disputes
  <2> DEFINE votes2 == x.virtualVotingBlocks \o votes
             deadline == now + ChallengeTime
             cnt == x.challengeCnt + 1
  <2>4. Challenged(x) = [x EXCEPT
                    !.virtualVotingBlocks = votes2,
                    !.encodedLatestFinalizedState = finalized,
                    !.encodedLatestCorrectState = latest,
                    !.postedStateDisputer = c,
                    !.deadlineTimestamp = deadline,
                    !.challengeCnt = cnt]
    BY DEF ChallengedRecord
  <2>5. votes2 \in Seq(Blocks) /\ deadline \in Nat /\ cnt \in Nat
    BY <2>1, <2>2, <2>3
  <2> HIDE DEF Challenged, votes2, deadline, cnt
  <2> DEFINE told == [x EXCEPT
                    !.virtualVotingBlocks = votes2,
                    !.encodedLatestFinalizedState = finalized,
                    !.encodedLatestCorrectState = latest]
  <2>6. Challenged(x) \in Disputes
    <3>1. told \in Disputes
      BY <2>5 DEF Disputes
    <3>2. Challenged(x) = [told EXCEPT
                    !.postedStateDisputer = c,
                    !.deadlineTimestamp = deadline,
                    !.challengeCnt = cnt]
      BY <2>4
    <3> HIDE DEF told
    <3> QED
      BY <2>5, <3>1, <3>2, ZenonT(30) DEF Disputes
  <2>7. /\ Challenged(x).exists = x.exists
        /\ Challenged(x).forkCnt = x.forkCnt
        /\ Challenged(x).creationTimestamp = x.creationTimestamp
        /\ Challenged(x).challengeCnt = cnt
        /\ Challenged(x).postedStateDisputer = c
        /\ Challenged(x).deadlineTimestamp = deadline
        /\ Challenged(x).slashedParticipants = x.slashedParticipants
        /\ Challenged(x).participants = x.participants
        /\ Challenged(x).encodedLatestCorrectState = latest
        /\ Challenged(x).foldedTransactionCnt = x.foldedTransactionCnt
        /\ Challenged(x).virtualVotingBlocks = votes2
    BY <2>4 DEF Disputes
  <2> QED
    BY <2>6, <2>7 DEF cnt, deadline, votes2
<1> HIDE DEF Challenged
<1>12. d \in Disputes
  BY <1>4, <1>11
<1>13. Settle(d)
  BY <1>8
<1>14. /\ d.participants = dispute.participants
       /\ d.forkCnt = dispute.forkCnt
       /\ d.foldedTransactionCnt = dispute.foldedTransactionCnt
       /\ d.virtualVotingBlocks = dispute.virtualVotingBlocks \o votes
       /\ d.challengeCnt > 0
  <2>1. /\ d.participants = g.participants
        /\ d.forkCnt = g.forkCnt
        /\ d.foldedTransactionCnt = g.foldedTransactionCnt
        /\ d.virtualVotingBlocks = g.virtualVotingBlocks \o votes
        /\ d.challengeCnt = g.challengeCnt + 1
    BY <1>4, <1>11
  <2>2. g.challengeCnt \in Nat
    BY <1>4 DEF Disputes
  <2> HIDE DEF d
  <2> QED
    BY <1>4, <2>1, <2>2 DEF SameClaim
<1>17. HonestPlay =>
          \A h \in Honest \cap (d.slashedParticipants \ dispute.slashedParticipants) :
              ForCause(d, h)
  <2>1. d.slashedParticipants = g.slashedParticipants
    BY <1>4, <1>11
  <2>2. ASSUME NEW h, Caused(dispute, h)
        PROVE  ForCause(d, h)
    BY <1>14, <2>2 DEF Caused, ForCause, BadlyStamped, FoldRefuted
  <2> QED
    BY <1>9, <2>1, <2>2
<1>18. /\ LeadTo(d.virtualVotingBlocks, d.forkCnt, d.encodedLatestCorrectState)
       /\ UpTo(d.virtualVotingBlocks, latestFork)
  <2>1. d.encodedLatestCorrectState = latest
    BY <1>4, <1>11
  <2> HIDE DEF d
  <2> QED
    BY <1>10, <1>14, <2>1
<1>15. Commits(d)
  BY <1>2, <1>4, <1>8, <1>11, <1>13, <1>17, <1>18 DEF Commits, SameClaim, Unslashed
<1>16. Challenges(d)
  BY <1>2, <1>4, <1>5, <1>6, <1>7, <1>11, <1>14, <1>15 DEF Challenges, SameClaim
<1> QED
  BY <1>12, <1>16

(* Every transaction about agreement is undone: its caller is an address   *)
(* of the channel, never the contract (onlySelf).                          *)
LEMMA NeverOnlySelf ==
    ASSUME NEW c \in Addr
    PROVE  ~OnlySelf(c)
BY ThisAddressAssumption DEF OnlySelf

-----------------------------------------------------------------------------
(* The steps, as the invariants see them.                                  *)

(* Nothing but the calldata, the signatures or the clock moves.            *)
Idle ==
    /\ UNCHANGED <<latestFork, encodedStates, genesisTimestamps, dispute>>
    /\ now' \in Nat
    /\ now <= now'
    /\ postedBlockCalldata' \subseteq Posts
    /\ agreement' \in {"none", "committed", "reverted"}
    /\ signed' \subseteq Addr \X Blocks
    /\ signed' = signed \/ \E p \in Addr, b \in Blocks : SignBlock(p, b)

LEMMA StepLemma ==
    ASSUME IInv, [Next]_vars
    PROVE  \/ \E members \in SUBSET Addr : OpenChannel(members)
           \/ \E d \in Disputes : Creates(d) \/ Challenges(d)
           \/ Idle
<1> USE DEF IInv
<1>1. CASE \E members \in Founders : OpenChannel(members)
  BY <1>1, FoundersAssumption
<1>2. ASSUME NEW votes \in Votes, votes # <<>>
      PROVE  votes[1].state \in State /\ votes[Len(votes)].state \in State
  <2>1. votes \in Seq(Blocks)
    BY VotesType
  <2>2. votes[1] \in Blocks /\ votes[Len(votes)] \in Blocks
    BY <1>2, <2>1
  <2> QED
    BY <2>2, BlocksAssumption DEF Block
<1>3. ASSUME NEW f \in 0..latestFork
      PROVE  Genesis(f) \in State
  BY DEF TypeOK, Genesis
<1>4. ASSUME NEW votes \in Votes, NEW latest \in Claims(votes)
      PROVE  latest \in State
  BY <1>2, <1>3, ClaimedStatesAssumption DEF Claims, TypeOK
<1>5. ASSUME NEW votes \in Votes, NEW f \in 0..latestFork, NEW finalized \in Finals(f, votes)
      PROVE  finalized \in State
  BY <1>2, <1>3 DEF Finals
<1>6. Heights \subseteq Nat
  BY BlocksAssumption DEF Heights, Block
<1>7. CASE Dispute
  <2>1. latestFork \in 0..latestFork
    BY DEF TypeOK
  <2>2. PICK c \in Addr, votes \in Votes :
          \E finalized \in Finals(latestFork, votes), latest \in Claims(votes),
             t \in Addr \cup {Nobody}, folded \in Heights :
              CreateDispute(c, finalized, latest, votes, t, folded)
    BY <1>7 DEF Dispute
  <2>3. PICK finalized \in Finals(latestFork, votes), latest \in Claims(votes),
             t \in Addr \cup {Nobody}, folded \in Heights :
              CreateDispute(c, finalized, latest, votes, t, folded)
    BY <2>2
  <2>4. finalized \in State /\ latest \in State /\ folded \in Nat
    BY <1>4, <1>5, <1>6, <2>1
  <2>5. \E d \in Disputes : Creates(d)
    BY <2>3, <2>4, CreateLemma
  <2> QED
    BY <2>5
<1>8. CASE Challenge
  <2>1. PICK c \in Addr, votes \in Votes :
          \E finalized \in Finals(dispute.forkCnt, votes), latest \in Claims(votes) :
              ChallengeDispute(c, finalized, latest, votes)
    BY <1>8 DEF Challenge
  <2>2. PICK finalized \in Finals(dispute.forkCnt, votes), latest \in Claims(votes) :
              ChallengeDispute(c, finalized, latest, votes)
    BY <2>1
  <2>3. dispute.forkCnt \in 0..latestFork
    BY <2>2 DEF ChallengeDispute, MayChallenge, ForkAccounting, TypeOK, Disputes
  <2>4. finalized \in State /\ latest \in State
    BY <1>4, <1>5, <2>3
  <2>5. \E d \in Disputes : Challenges(d)
    BY <2>2, <2>4, ChallengeLemma
  <2> QED
    BY <2>5
<1>9. ASSUME NEW b \in Blocks, PostBlockCalldata(b)
      PROVE  Idle
  <2>1. [forkCnt |-> b.forkCnt, transactionCnt |-> b.transactionCnt,
         participant |-> b.participant, timestamp |-> now] \in Posts
    BY BlocksAssumption DEF Block, Posts, TypeOK
  <2> QED
    BY <1>9, <2>1 DEF PostBlockCalldata, Idle, TypeOK
<1>10. ASSUME NEW c \in Addr, NEW s, ChangeByAgreement(c, s)
       PROVE  Idle
  BY <1>10, NeverOnlySelf DEF ChangeByAgreement, Idle, TypeOK
<1>11. CASE Tick
  BY <1>11 DEF Tick, Idle, TypeOK, storage
<1>12. ASSUME NEW p \in Addr, NEW b \in Blocks, SignBlock(p, b)
       PROVE  Idle
  BY <1>12 DEF SignBlock, Idle, TypeOK, storage
<1>13. CASE UNCHANGED vars
  BY <1>13 DEF Idle, vars, storage, TypeOK
<1>14. CASE \E c, a \in Addr : JoinChannelWithAgreement(c, a) \/ LeaveChannelWithAgreement(c, a)
  BY <1>10, <1>14 DEF JoinChannelWithAgreement, LeaveChannelWithAgreement
<1> QED
  BY <1>1, <1>7, <1>8, <1>9, <1>11, <1>12, <1>13, <1>14 DEF Next

(* What setState leaves behind.                                            *)
LEMMA SetStateLemma ==
    ASSUME TypeOK, NEW s \in State, SetState(s)
    PROVE  /\ latestFork' = latestFork + 1
           /\ encodedStates' \in [0..latestFork' -> State]
           /\ genesisTimestamps' \in [0..latestFork' -> Nat]
           /\ encodedStates'[latestFork'] = s
           /\ genesisTimestamps'[latestFork'] = now
           /\ \A f \in 0..latestFork : /\ encodedStates'[f] = encodedStates[f]
                                      /\ genesisTimestamps'[f] = genesisTimestamps[f]
BY DEF SetState, TypeOK

-----------------------------------------------------------------------------
(* The empty storage satisfies the invariant.                              *)
LEMMA InitLemma ==
    Init => IInv
<1> SUFFICES ASSUME Init PROVE IInv
  OBVIOUS
<1>1. NoState \in State
  BY DEF NoState, State
<1>2. dispute \in Disputes /\ ~dispute.exists /\ dispute.postedStateDisputer = Nobody
  BY <1>1 DEF Init, NoDispute, Disputes
<1>3. TypeOK
  BY <1>1, <1>2 DEF Init, TypeOK
<1> QED
  BY <1>2, <1>3 DEF Init, IInv, ForkAccounting, Opened, LatestForkIsSettlement, ExpelledStayOut,
     ClaimantNotSlashed, ForksInOrder, JoinersTakePart, Below, NoDispute,
     SettlementLosesNobody

(* openChannel preserves it.                                               *)
LEMMA OpenLemma ==
    ASSUME IInv, NEW members \in SUBSET Addr, OpenChannel(members)
    PROVE  IInv'
<1>1. latestFork = 0 /\ latestFork' = 0 /\ dispute' = dispute
  BY DEF OpenChannel, IInv, Opened, TypeOK
<1>2. ~dispute.exists
  BY <1>1 DEF IInv, ForkAccounting, TypeOK, Disputes
<1>3. TypeOK'
  <2>1. [number |-> 0, participants |-> members] \in State
    BY DEF State
  <2> QED
    BY <1>1, <2>1 DEF OpenChannel, IInv, TypeOK
<1>4. ForksInOrder'
  BY <1>1, <1>3 DEF OpenChannel, IInv, TypeOK, ForksInOrder
<1> QED
  BY <1>1, <1>2, <1>3, <1>4 DEF IInv, ForkAccounting, Opened, LatestForkIsSettlement,
     ExpelledStayOut, ClaimantNotSlashed, JoinersTakePart, Below, SettlementLosesNobody

(* createDispute and challengeDispute preserve it: what a round commits is *)
(* its settlement.                                                         *)
LEMMA CommitLemma ==
    ASSUME IInv, NEW d \in Disputes, Creates(d) \/ Challenges(d)
    PROVE  IInv'
<1> DEFINE e == Settled(d)
           s == e.encodedLatestCorrectState
<1>1. /\ e \in Disputes
      /\ SameClaim(d, e)
      /\ e.slashedParticipants = d.slashedParticipants
      /\ e.joinChannelParticipants = d.joinChannelParticipants
      /\ Expelled(e) = Expelled(d)
  BY SettledType
<1>2. /\ Commits(d)
      /\ JoinsAll(d.encodedLatestCorrectState, d.joinChannelParticipants)
      /\ dispute' = e
      /\ SetState(s)
      /\ UNCHANGED <<now, postedBlockCalldata, agreement, signed>>
  BY DEF Creates, Challenges, Commits, Settle
<1>3. s \in State
  BY <1>1 DEF Disputes
<1>4. /\ s.participants \cap Expelled(e) = {}
      /\ e.joinChannelParticipants \subseteq s.participants \cup Expelled(e)
      /\ d.encodedLatestCorrectState.participants \cup d.joinChannelParticipants
            \subseteq s.participants \cup e.processExits
  BY <1>1, <1>2, SettledState, SettledKeeps
<1> HIDE DEF e, s
<1>5. TypeOK
  BY DEF IInv
<1>6. /\ latestFork' = latestFork + 1
      /\ encodedStates' \in [0..latestFork' -> State]
      /\ genesisTimestamps' \in [0..latestFork' -> Nat]
      /\ encodedStates'[latestFork'] = s
      /\ genesisTimestamps'[latestFork'] = now
      /\ \A f \in 0..latestFork : /\ encodedStates'[f] = encodedStates[f]
                                 /\ genesisTimestamps'[f] = genesisTimestamps[f]
  BY <1>2, <1>3, <1>5, SetStateLemma
<1>7. TypeOK'
  BY <1>1, <1>2, <1>5, <1>6 DEF TypeOK
<1>8. ForkAccounting'
  <2>1. latestFork = d.forkCnt + d.challengeCnt
    <3>1. CASE Creates(d)
      BY <1>5, <3>1 DEF Creates, TypeOK
    <3>2. CASE Challenges(d)
      BY <1>5, <3>2 DEF Challenges, IInv, ForkAccounting, TypeOK, Disputes
    <3> QED
      BY <3>1, <3>2
  <2> QED
    BY <1>1, <1>2, <1>5, <1>6, <2>1 DEF ForkAccounting, SameClaim, TypeOK
<1>9. Opened'
  <2>1. IsChannelOpen
    <3>1. CASE latestFork > 0
      BY <3>1 DEF IInv, Opened
    <3>2. CASE latestFork = 0 /\ Creates(d)
      BY <3>2 DEF Creates, IsChannelOpen, NoState, Genesis
    <3>3. CASE latestFork = 0 /\ Challenges(d)
      BY <1>5, <3>3 DEF Challenges, IInv, ForkAccounting, TypeOK, Disputes
    <3> QED
      BY <1>5, <3>1, <3>2, <3>3 DEF TypeOK
  <2> QED
    BY <1>5, <1>6, <2>1 DEF Opened, IsChannelOpen, TypeOK
<1>10. LatestForkIsSettlement'
  BY <1>1, <1>2, <1>6 DEF LatestForkIsSettlement, Genesis, SameClaim, Commits, s
<1>11. ExpelledStayOut' /\ JoinersTakePart'
  <2>1. Genesis(latestFork)' = s /\ Expelled(dispute)' = Expelled(e)
    BY <1>2, <1>6 DEF Genesis, Expelled
  <2> QED
    BY <1>2, <1>4, <2>1 DEF ExpelledStayOut, JoinersTakePart
<1>12. ClaimantNotSlashed'
  BY <1>1, <1>2 DEF ClaimantNotSlashed, Commits, SameClaim
<1>13. ForksInOrder'
  <2>1. \A f \in 0..latestFork : genesisTimestamps[f] <= now
    BY <1>5 DEF IInv, ForksInOrder, TypeOK
  <2> QED
    BY <1>2, <1>5, <1>6, <2>1 DEF IInv, ForksInOrder, TypeOK
<1>14. Below(dispute.virtualVotingBlocks, latestFork)'
  <2>1. PICK votes \in Seq(Blocks), n \in Nat :
          votes = d.virtualVotingBlocks /\ n = latestFork
    BY <1>5 DEF Disputes, TypeOK
  <2>2. UpTo(votes, n)
    BY <1>2, <2>1 DEF Commits
  <2>3. \A i \in DOMAIN votes : votes[i].forkCnt \in Nat
    BY <2>1, BlocksAssumption DEF Block
  <2>4. Below(votes, n + 1)
    BY <2>2, <2>3 DEF UpTo, Below
  <2>5. dispute'.virtualVotingBlocks = votes /\ latestFork' = n + 1
    BY <1>1, <1>2, <1>6, <2>1 DEF SameClaim
  <2> QED
    BY <2>4, <2>5 DEF Below
<1>15. SettlementLosesNobody'
  <2>1. Genesis(latestFork)' = s
    BY <1>6 DEF Genesis
  <2>2. Voted' \subseteq d.encodedLatestCorrectState.participants
    <3>1. LeadTo(d.virtualVotingBlocks, d.forkCnt, d.encodedLatestCorrectState)
      BY <1>2 DEF Commits
    <3>2. /\ dispute'.virtualVotingBlocks = d.virtualVotingBlocks
          /\ dispute'.forkCnt = d.forkCnt
      BY <1>1, <1>2 DEF SameClaim
    <3> QED
      BY <3>1, <3>2 DEF Voted, LeadTo
  <2> QED
    BY <1>1, <1>2, <1>4, <2>1, <2>2 DEF SettlementLosesNobody
<1> QED
  BY <1>7, <1>8, <1>9, <1>10, <1>11, <1>12, <1>13, <1>14, <1>15 DEF IInv

(* Steps that leave forks and disputes alone preserve it.                  *)
LEMMA IdleLemma ==
    ASSUME IInv, Idle
    PROVE  IInv'
<1>1. TypeOK'
  BY DEF IInv, Idle, TypeOK
<1>2. ForksInOrder'
  BY DEF IInv, Idle, ForksInOrder, TypeOK
<1> QED
  BY <1>1, <1>2 DEF IInv, Idle, ForkAccounting, Opened, IsChannelOpen, Genesis, Expelled,
     LatestForkIsSettlement, ExpelledStayOut, ClaimantNotSlashed, JoinersTakePart, Below,
     Voted, SettlementLosesNobody

(* The invariant is inductive.                                             *)
THEOREM Invariance ==
    Spec => []IInv
<1>1. IInv /\ [Next]_vars => IInv'
  BY StepLemma, OpenLemma, CommitLemma, IdleLemma
<1> QED
  BY <1>1, InitLemma, PTL DEF Spec

-----------------------------------------------------------------------------
(* The storage of the proxy is well typed in every reachable state.        *)
THEOREM TypeCorrectness ==
    Spec => []TypeOK
<1>1. IInv => TypeOK
  BY DEF IInv
<1> QED
  BY <1>1, Invariance, PTL

(* The forks above a disputed one are its settlement and one more for each *)
(* of its challenges (createDispute, challengeDispute, setState).          *)
THEOREM ForksAreAccountedFor ==
    Spec => []ForkAccounting
<1>1. IInv => ForkAccounting
  BY DEF IInv
<1> QED
  BY <1>1, Invariance, PTL

(* The latest fork is always what the dispute on record settled on.        *)
THEOREM SettlementIsPlayed ==
    Spec => []LatestForkIsSettlement
<1>1. IInv => LatestForkIsSettlement
  BY DEF IInv
<1> QED
  BY <1>1, Invariance, PTL

(* Nobody slashed or timed out takes part in the latest fork               *)
(* (applyDisputeToLatestState), over any number of rounds and disputes.    *)
THEOREM ExpulsionIsFinal ==
    Spec => []ExpelledStayOut
<1>1. IInv => ExpelledStayOut
  BY DEF IInv
<1> QED
  BY <1>1, Invariance, PTL

(* The standing claim is never a slashed participant's.                    *)
THEOREM ClaimantIsClean ==
    Spec => []ClaimantNotSlashed
<1>1. IInv => ClaimantNotSlashed
  BY DEF IInv
<1> QED
  BY <1>1, Invariance, PTL

(* A later fork never starts before an earlier one.                        *)
THEOREM ForkOrder ==
    Spec => []ForksInOrder
<1>1. IInv => ForksInOrder
  BY DEF IInv
<1> QED
  BY <1>1, Invariance, PTL

(* Whoever joined through a dispute plays, unless it was expelled.         *)
THEOREM JoinersPlay ==
    Spec => []JoinersTakePart
<1>1. IInv => JoinersTakePart
  BY DEF IInv
<1> QED
  BY <1>1, Invariance, PTL

(* setState only ever appends: no fork that was started is rewritten.      *)
THEOREM Immutability ==
    Spec => ForksAreImmutable
<1> DEFINE A == \A f \in 0..latestFork : Genesis(f) # NoState =>
                    /\ encodedStates'[f] = encodedStates[f]
                    /\ genesisTimestamps'[f] = genesisTimestamps[f]
<1>1. ASSUME IInv, [Next]_vars
      PROVE  A
  <2>1. CASE \E members \in SUBSET Addr : OpenChannel(members)
    BY <1>1, <2>1 DEF OpenChannel, IsChannelOpen, Genesis, IInv, TypeOK
  <2>2. ASSUME NEW d \in Disputes, Creates(d) \/ Challenges(d)
        PROVE  A
    <3>1. Settled(d).encodedLatestCorrectState \in State
      BY SettledType DEF Disputes
    <3> QED
      BY <1>1, <2>2, <3>1, SetStateLemma DEF Creates, Challenges, Commits, Settle, IInv
  <2>3. CASE Idle
    BY <2>3 DEF Idle
  <2> QED
    BY <1>1, <2>1, <2>2, <2>3, StepLemma
<1>2. IInv /\ [Next]_vars => [A]_vars
  BY <1>1
<1> QED
  BY <1>2, Invariance, PTL DEF Spec, ForksAreImmutable

(* Until its deadline has passed a dispute is never replaced, only         *)
(* challenged, one round at a time (createDispute, challengeDispute).      *)
THEOREM DisputesRunTheirCourse ==
    Spec => DisputeRunsItsCourse
<1> DEFINE A == dispute.exists /\ now <= dispute.deadlineTimestamp =>
        \/ dispute' = dispute
        \/ /\ dispute'.forkCnt = dispute.forkCnt
           /\ dispute'.creationTimestamp = dispute.creationTimestamp
           /\ dispute'.challengeCnt = dispute.challengeCnt + 1
           /\ now < dispute.deadlineTimestamp
<1>1. ASSUME IInv, [Next]_vars
      PROVE  A
  <2>1. CASE \E members \in SUBSET Addr : OpenChannel(members)
    BY <2>1 DEF OpenChannel
  <2>2. ASSUME NEW d \in Disputes, Creates(d)
        PROVE  A
    BY <1>1, <2>2 DEF Creates, IsDisputeInProgress, IInv, TypeOK, Disputes
  <2>3. ASSUME NEW d \in Disputes, Challenges(d)
        PROVE  A
    BY <2>3, SettledType DEF Challenges, Commits, Settle, SameClaim
  <2>4. CASE Idle
    BY <2>4 DEF Idle
  <2> QED
    BY <1>1, <2>1, <2>2, <2>3, <2>4, StepLemma
<1>2. IInv /\ [Next]_vars => [A]_vars
  BY <1>1
<1> QED
  BY <1>2, Invariance, PTL DEF Spec, DisputeRunsItsCourse

(* As long as folding a prior block and joining are not used, a dispute    *)
(* has at most as many rounds as participants were slashed (applyProofs).  *)
THEOREM RoundsArePaidFor ==
    Spec => []ChallengesArePaidFor
<1> DEFINE S == dispute.slashedParticipants
<1>1. ASSUME IInv
      PROVE  IsFiniteSet(S)
  <2>1. S \subseteq Addr \cup {Nobody}
    BY <1>1 DEF IInv, TypeOK, Disputes
  <2> QED
    BY <2>1, AddrAssumption, FS_AddElement, FS_Subset
<1>2. Init => ChallengesArePaidFor
  BY FS_EmptySet DEF Init, NoDispute, ChallengesArePaidFor
<1>3. ASSUME IInv, IInv', ChallengesArePaidFor, [Next]_vars
      PROVE  ChallengesArePaidFor'
  <2>1. CASE \E members \in SUBSET Addr : OpenChannel(members)
    BY <1>3, <2>1 DEF OpenChannel, ChallengesArePaidFor
  <2>2. ASSUME NEW d \in Disputes, Creates(d)
        PROVE  ChallengesArePaidFor'
    <3>1. dispute'.challengeCnt = 0
      BY <2>2, SettledType DEF Creates, Commits, Settle, SameClaim
    <3>2. Cardinality(S') \in Nat
      <4>1. S' \subseteq Addr \cup {Nobody}
        BY <1>3 DEF IInv, TypeOK, Disputes
      <4> QED
        BY <4>1, AddrAssumption, FS_AddElement, FS_Subset, FS_CardinalityType
    <3> QED
      BY <3>1, <3>2 DEF ChallengesArePaidFor
  <2>3. ASSUME NEW d \in Disputes, Challenges(d),
               ProofKinds \cap {"FoldPriorBlock", "JoinChannel"} = {}
        PROVE  dispute'.challengeCnt <= Cardinality(S')
    <3>1. /\ dispute'.challengeCnt = dispute.challengeCnt + 1
          /\ S \subseteq S' /\ S # S'
      BY <2>3, SettledType DEF Challenges, Commits, Settle, SameClaim
    <3>2. S' \subseteq Addr \cup {Nobody}
      BY <1>3 DEF IInv, TypeOK, Disputes
    <3>3. IsFiniteSet(S')
      BY <3>2, AddrAssumption, FS_AddElement, FS_Subset
    <3>4. Cardinality(S) \in Nat /\ Cardinality(S') \in Nat /\ dispute.challengeCnt \in Nat
      BY <1>1, <1>3, <3>3, FS_CardinalityType DEF IInv, TypeOK, Disputes
    <3>5. Cardinality(S) <= Cardinality(S') /\ Cardinality(S') # Cardinality(S)
      BY <3>1, <3>3, FS_Subset
    <3>6. dispute.challengeCnt <= Cardinality(S)
      BY <1>3, <2>3 DEF ChallengesArePaidFor
    <3> QED
      BY <3>1, <3>4, <3>5, <3>6
  <2>4. CASE Idle
    BY <1>3, <2>4 DEF Idle, ChallengesArePaidFor
  <2> QED
    BY <1>3, <2>1, <2>2, <2>3, <2>4, StepLemma DEF ChallengesArePaidFor
<1>4. ChallengesArePaidFor /\ UNCHANGED vars => ChallengesArePaidFor'
  BY DEF ChallengesArePaidFor, vars, storage
<1> QED
  BY <1>2, <1>3, <1>4, Invariance, PTL DEF Spec

(* Nobody whom the votes on record or a join proof seat is lost in the     *)
(* settlement, over any number of rounds and disputes: it plays on or is   *)
(* owed an exit (applyDisputeToLatestState).  Whom a claim without votes   *)
(* leaves out is another matter: the contract does not look.               *)
THEOREM ExitsAreOwed ==
    Spec => []SettlementLosesNobody
<1>1. IInv => SettlementLosesNobody
  BY DEF IInv
<1> QED
  BY <1>1, Invariance, PTL

(* Where a client acts, it signs each height of a fork once, and only what *)
(* executes (ValidationService, StateManager).                             *)
LEMMA HonestPlayStep ==
    ASSUME IInv, HonestPlay, [Next]_vars
    PROVE  HonestPlay'
<1>1. CASE UNCHANGED signed
  BY <1>1 DEF HonestPlay, HonestSignsOnce, HonestExecutes, SignedBy
<1>2. ASSUME NEW p \in Addr, NEW b \in Blocks, SignBlock(p, b)
      PROVE  HonestPlay'
  <2>1. signed' = signed \cup {<<p, b>>}
    BY <1>2 DEF SignBlock
  <2>2. p \in Honest => /\ ~\E x \in Blocks : /\ <<p, x>> \in signed
                                              /\ x.forkCnt = b.forkCnt
                                              /\ x.transactionCnt = b.transactionCnt
                        /\ b.participant = NextToWrite(b.previousState)
                        /\ b.state = Executed(b.previousState, b)
    BY <1>2 DEF SignBlock, HonestSigns, SignedBy
  <2>3. HonestSignsOnce'
    BY <2>1, <2>2 DEF HonestPlay, HonestSignsOnce, SignedBy
  <2>4. HonestExecutes'
    BY <2>1, <2>2 DEF HonestPlay, HonestExecutes, SignedBy, Executes
  <2> QED
    BY <2>3, <2>4 DEF HonestPlay
<1>3. CASE \E members \in SUBSET Addr : OpenChannel(members)
  BY <1>1, <1>3 DEF OpenChannel
<1>4. CASE \E d \in Disputes : Creates(d) \/ Challenges(d)
  BY <1>1, <1>4 DEF Creates, Challenges, Commits, Settle
<1>5. CASE Idle
  BY <1>1, <1>2, <1>5 DEF Idle
<1> QED
  BY <1>3, <1>4, <1>5, StepLemma

(* A participant that runs the client is slashed only for a stamp, a       *)
(* refuted timeout or an outrun claim of its own, whatever the others      *)
(* sign, post and submit, in any round of any dispute and with any kinds   *)
(* of proofs: never for a double signature or data that does not execute   *)
(* (DisputeManagerFacet.applyProofs against what the client signs).        *)
THEOREM HonestSlashedForCause ==
    Spec => SlashedForCause
<1> DEFINE A == \A h \in Honest \cap (dispute'.slashedParticipants \ dispute.slashedParticipants) :
                    ForCause(dispute', h)
<1>1. Init => HonestPlay
  BY DEF Init, HonestPlay, HonestSignsOnce, HonestExecutes, SignedBy
<1>2. ASSUME IInv, HonestPlay, [Next]_vars
      PROVE  A
  <2>1. CASE \E members \in SUBSET Addr : OpenChannel(members)
    BY <2>1 DEF OpenChannel
  <2>2. ASSUME NEW d \in Disputes, Creates(d) \/ Challenges(d)
        PROVE  A
    <3>1. /\ dispute' = Settled(d)
          /\ \A h \in Honest \cap (d.slashedParticipants \ dispute.slashedParticipants) :
                ForCause(d, h)
      BY <1>2, <2>2 DEF Creates, Challenges, Commits, Settle
    <3>2. SameClaim(d, dispute') /\ dispute'.slashedParticipants = d.slashedParticipants
      BY <3>1, SettledType
    <3> QED
      BY <3>1, <3>2 DEF ForCause, SameClaim, BadlyStamped, FoldRefuted
  <2>3. CASE Idle
    BY <2>3 DEF Idle
  <2> QED
    BY <1>2, <2>1, <2>2, <2>3, StepLemma
<1>3. IInv /\ HonestPlay /\ [Next]_vars => HonestPlay' /\ [A]_vars
  BY <1>2, HonestPlayStep
<1>4. [A]_vars <=> [\A h \in Honest \cap (dispute'.slashedParticipants \ dispute.slashedParticipants) :
          \/ \E b \in Blocks : /\ SignedBy(h, b) /\ h = b.participant
                               /\ BadlyStamped(dispute', b)
          \/ h = dispute.timeoutDisputer /\ FoldRefuted(dispute')
          \/ /\ h = dispute.postedStateDisputer /\ dispute'.challengeCnt > 0
             /\ ClaimOutrun(dispute, h)]_vars
  BY DEF ForCause
<1> HIDE DEF A
<1> QED
  BY <1>1, <1>3, <1>4, Invariance, PTL DEF Spec, SlashedForCause

=============================================================================
