------------------------- MODULE ChannelLedgerProofs -------------------------
(***************************************************************************)
(* The client implements its ledger: every step of StateManager is a step  *)
(* of ChannelLedger, or one that ChannelLedger does not see.               *)
(***************************************************************************)
EXTENDS StateManagerProofs

LedgerStutters == UNCHANGED <<LedgerOf(forks), released>>

Promised == Ledger!Next \/ LedgerStutters

-----------------------------------------------------------------------------
(* The ledger of some forks.                                               *)

(* It has their starts and their agreements.                               *)
LEMMA LedgerParts ==
    ASSUME NEW F \in Seq(ForkRecord)
    PROVE  /\ Len(LedgerOf(F)) = Len(F) /\ DOMAIN LedgerOf(F) = 1..Len(F)
           /\ LedgerOf(F) \in Seq([ genesis : State, genesisTimestamp : Nat,
                                    agreements : Seq(Agreements) ])
           /\ \A i \in 1..Len(F) :
                 LedgerOf(F)[i] = [ genesis          |-> F[i].genesis,
                                    genesisTimestamp |-> F[i].genesisTimestamp,
                                    agreements       |-> F[i].agreements ]
<1>1. DOMAIN F = 1..Len(F) /\ Len(F) \in Nat
  OBVIOUS
<1>2. ASSUME NEW i \in 1..Len(F)
      PROVE  /\ F[i].genesis \in State /\ F[i].genesisTimestamp \in Nat
             /\ F[i].agreements \in Seq(Agreements)
  <2>1. F[i] \in ForkRecord
    BY <1>2
  <2> QED
    BY <2>1 DEF ForkRecord
<1>3. LedgerOf(F) \in [1..Len(F) -> [ genesis : State, genesisTimestamp : Nat,
                                      agreements : Seq(Agreements) ]]
  BY <1>1, <1>2 DEF LedgerOf
<1>4. \A i \in 1..Len(F) :
          LedgerOf(F)[i] = [ genesis          |-> F[i].genesis,
                             genesisTimestamp |-> F[i].genesisTimestamp,
                             agreements       |-> F[i].agreements ]
  BY <1>1 DEF LedgerOf
<1>5. DOMAIN LedgerOf(F) = 1..Len(F)
  BY <1>1 DEF LedgerOf
<1>6. PICK n \in Nat : n = Len(F)
  BY <1>1
<1>7. PICK S : S = [ genesis : State, genesisTimestamp : Nat, agreements : Seq(Agreements) ]
  OBVIOUS
<1>8. PICK L : L = LedgerOf(F)
  OBVIOUS
<1>9. L \in [1..n -> S]
  BY <1>3, <1>6, <1>7, <1>8
<1>10. L \in Seq(S) /\ Len(L) = n
  BY <1>6, <1>9
<1>11. LedgerOf(F) \in Seq([ genesis : State, genesisTimestamp : Nat,
                             agreements : Seq(Agreements) ])
       /\ Len(LedgerOf(F)) = Len(F)
  BY <1>6, <1>7, <1>8, <1>10
<1> QED
  BY <1>4, <1>5, <1>11

(* Forks of the same starts and agreements have the same ledger.           *)
LEMMA SameLedger ==
    ASSUME NEW F \in Seq(ForkRecord), NEW G \in Seq(ForkRecord), Len(G) = Len(F),
           \A i \in 1..Len(F) : /\ G[i].genesis = F[i].genesis
                                /\ G[i].genesisTimestamp = F[i].genesisTimestamp
                                /\ G[i].agreements = F[i].agreements
    PROVE  LedgerOf(G) = LedgerOf(F)
<1>1. DOMAIN F = 1..Len(F) /\ DOMAIN G = 1..Len(F)
  OBVIOUS
<1> QED
  BY <1>1 DEF LedgerOf

(* Where the agreements of one fork change, so does one entry of the       *)
(* ledger.                                                                 *)
LEMMA LedgerReplaced ==
    ASSUME NEW F \in Seq(ForkRecord), NEW k \in 1..Len(F), NEW r \in ForkRecord,
           r.genesis = F[k].genesis, r.genesisTimestamp = F[k].genesisTimestamp
    PROVE  LedgerOf(Replaced(F, k, r)) = [LedgerOf(F) EXCEPT ![k].agreements = r.agreements]
<1> DEFINE L == LedgerOf(F)
           G == Replaced(F, k, r)
           M == [L EXCEPT ![k].agreements = r.agreements]
<1>1. DOMAIN G = 1..Len(F) /\ G[k] = r /\ \A i \in 1..Len(F) : i # k => G[i] = F[i]
  BY DEF Replaced
<1>2. /\ DOMAIN L = 1..Len(F) /\ L[k] = [ genesis          |-> F[k].genesis,
                                          genesisTimestamp |-> F[k].genesisTimestamp,
                                          agreements       |-> F[k].agreements ]
      /\ \A i \in 1..Len(F) : L[i] = [ genesis          |-> F[i].genesis,
                                       genesisTimestamp |-> F[i].genesisTimestamp,
                                       agreements       |-> F[i].agreements ]
  BY LedgerParts
<1> HIDE DEF G, L
<1>3. /\ DOMAIN M = 1..Len(F)
      /\ M[k] = [ genesis          |-> F[k].genesis,
                  genesisTimestamp |-> F[k].genesisTimestamp,
                  agreements       |-> r.agreements ]
      /\ \A i \in 1..Len(F) : i # k => M[i] = L[i]
  BY <1>2
<1>4. /\ \A i \in 1..Len(F) : LedgerOf(G)[i] = [ genesis          |-> G[i].genesis,
                                                 genesisTimestamp |-> G[i].genesisTimestamp,
                                                 agreements       |-> G[i].agreements ]
      /\ LedgerOf(G) = [i \in 1..Len(F) |-> LedgerOf(G)[i]]
  BY <1>1 DEF LedgerOf
<1>5. M = [i \in 1..Len(F) |-> M[i]]
  BY <1>3
<1> HIDE DEF M
<1>6. \A i \in 1..Len(F) : LedgerOf(G)[i] = M[i]
  BY <1>1, <1>2, <1>3, <1>4
<1> QED
  BY <1>4, <1>5, <1>6 DEF G, L, M

-----------------------------------------------------------------------------
(* The actions of the ledger.                                              *)

(* A block is added.                                                       *)
LEMMA BlockIsAgreed ==
    ASSUME IInv, IInv', NEW b \in Block, Placed(b, forks), Faithful(b),
           forks' = WithBlock(b),
           released' = IF b.participant = Me THEN released \cup {b} ELSE released
    PROVE  Ledger!Next
<1> DEFINE k == b.forkCnt + 1
           A == forks[k].agreements
           a == [block |-> b, signers |-> {b.participant}, state |-> b.state]
<1>1. /\ forks \in Seq(ForkRecord) /\ forks' \in Seq(ForkRecord)
      /\ b.forkCnt \in Nat /\ b.participant \in Addr /\ b.state \in State
      /\ k \in 1..Len(forks) /\ b.forkCnt \in 0..(Len(forks) - 1)
  BY DEF IInv, Typing, Placed, Block
<1>2. forks[k] \in ForkRecord /\ A \in Seq(Agreements) /\ Len(A) \in Nat
  <2>1. forks[k] \in ForkRecord
    BY <1>1
  <2> QED
    BY <2>1 DEF ForkRecord
<1>3. a \in Agreements /\ Append(A, a) \in Seq(Agreements)
  BY <1>1, <1>2 DEF Agreements
<1>4. Len(A) = b.transactionCnt /\ ~Agreed(b.forkCnt, b.transactionCnt)
  BY <1>1, <1>2 DEF Placed, Agreed, IsValidForkCnt, Fork
<1>5. PICK r : r = [forks[k] EXCEPT !.agreements = Append(A, a)]
  OBVIOUS
<1>6. LedgerOf(forks') = [LedgerOf(forks) EXCEPT ![k].agreements = Append(A, a)]
  <2>1. forks' = Replaced(forks, k, r)
    BY <1>4, <1>5 DEF WithBlock, AgreementOn, Replaced
  <2> HIDE DEF a, A
  <2>2. /\ r \in ForkRecord /\ r.agreements = Append(A, a)
        /\ r.genesis = forks[k].genesis /\ r.genesisTimestamp = forks[k].genesisTimestamp
    BY <1>2, <1>3, <1>5 DEF ForkRecord
  <2> HIDE DEF k
  <2> QED
    BY <1>1, <2>1, <2>2, LedgerReplaced
<1> HIDE DEF a
<1>7. /\ Len(LedgerOf(forks)) = Len(forks) /\ LedgerOf(forks)[k].agreements = A
  <2> HIDE DEF k
  <2>1. LedgerOf(forks)[k] = [ genesis          |-> forks[k].genesis,
                               genesisTimestamp |-> forks[k].genesisTimestamp,
                               agreements       |-> forks[k].agreements ]
    BY <1>1, LedgerParts
  <2> QED
    BY <1>1, <2>1, LedgerParts
<1>8. Ledger!Agree(b)
  <2>1. Ledger!Entries(b.forkCnt) = A
    BY <1>7 DEF Ledger!Entries
  <2>2. LedgerOf(forks') = [LedgerOf(forks) EXCEPT ![k].agreements = Append(@, a)]
    BY <1>6, <1>7
  <2>3. b.forkCnt < Len(LedgerOf(forks))
    BY <1>1, <1>7
  <2>4. b \in Ledger!Block
    BY DEF Ledger!Block, Block, Ledger!State, State
  <2>5. /\ b.participant = NextToWrite(b.previousState)
        /\ b.state = Ledger!Executed(b.previousState, b)
    BY DEF Faithful, Executed, Ledger!Executed
  <2> HIDE DEF A
  <2> QED
    BY <1>4, <2>1, <2>2, <2>3, <2>4, <2>5 DEF Ledger!Agree, a
<1>9. LedgerOf(forks')[k].agreements = Append(A, a)
  <2>1. k \in DOMAIN LedgerOf(forks)
    BY <1>1, LedgerParts
  <2>2. PICK e : e = LedgerOf(forks)[k] /\ e = [ genesis          |-> forks[k].genesis,
                                                genesisTimestamp |-> forks[k].genesisTimestamp,
                                                agreements       |-> A ]
    BY <1>1, LedgerParts
  <2> QED
    BY <1>6, <2>1, <2>2
<1>10. PICK i \in DOMAIN Append(A, a) : Append(A, a)[i].block = b
  <2>1. /\ Len(A) + 1 \in DOMAIN Append(A, a)
        /\ Append(A, a)[Len(A) + 1] = a
    BY <1>2, <1>3
  <2>2. a.block = b
    BY DEF a
  <2> HIDE DEF A
  <2> QED
    BY <2>1, <2>2
<1> QED
  BY <1>1, <1>7, <1>8, <1>9, <1>10 DEF Ledger!Next

(* Signatures are added, the peer's own at most once.                      *)
LEMMA SignersVouch ==
    ASSUME IInv, IInv', NEW b \in Block, IsBlockInChain(b), NEW S \in SUBSET Addr,
           forks' = WithSigners(b, S),
           \/ released' = released
           \/ Me \in S /\ CanConfirm(b) /\ released' = released \cup {b}
    PROVE  Ledger!Next
<1> DEFINE k == b.forkCnt + 1
           h == b.transactionCnt + 1
           A == forks[k].agreements
           B == [A EXCEPT ![h].signers = @ \cup S]
<1>1. /\ forks \in Seq(ForkRecord)
      /\ b.forkCnt \in Nat /\ b.transactionCnt \in Nat
      /\ k \in 1..Len(forks) /\ b.forkCnt \in 0..(Len(forks) - 1)
      /\ b.transactionCnt < Len(A) /\ A[h].block = b
  <2>1. /\ b.forkCnt < Len(forks) /\ b.transactionCnt < Len(A) /\ A[h].block = b
    BY DEF IsBlockInChain, Agreed, AgreementAt, IsValidForkCnt, Fork
  <2>2. forks \in Seq(ForkRecord) /\ b.forkCnt \in Nat /\ b.transactionCnt \in Nat
    BY DEF IInv, Typing, Block
  <2>3. k \in 1..Len(forks) /\ b.forkCnt \in 0..(Len(forks) - 1)
    BY <2>1, <2>2
  <2> QED
    BY <2>1, <2>2, <2>3
<1>2. forks[k] \in ForkRecord /\ A \in Seq(Agreements) /\ Len(A) \in Nat
  <2>1. forks[k] \in ForkRecord
    BY <1>1
  <2> QED
    BY <2>1 DEF ForkRecord
<1>3. h \in 1..Len(A) /\ b.transactionCnt \in 0..(Len(A) - 1)
  BY <1>1, <1>2
<1>4. B \in Seq(Agreements)
  <2>1. A[h] \in Agreements
    BY <1>2, <1>3
  <2>2. PICK c \in Agreements : c = [A[h] EXCEPT !.signers = @ \cup S]
    BY <2>1 DEF Agreements
  <2>3. B = [A EXCEPT ![h] = c]
    BY <2>2
  <2> HIDE DEF A, B, h
  <2> QED
    BY <1>2, <1>3, <2>2, <2>3
<1>5. PICK r : r = [forks[k] EXCEPT !.agreements = B]
  OBVIOUS
<1>6. LedgerOf(forks') = [LedgerOf(forks) EXCEPT ![k].agreements = B]
  <2>1. forks' = Replaced(forks, k, r)
    BY <1>5 DEF WithSigners, Replaced
  <2> HIDE DEF B
  <2>2. /\ r \in ForkRecord /\ r.agreements = B
        /\ r.genesis = forks[k].genesis /\ r.genesisTimestamp = forks[k].genesisTimestamp
    BY <1>2, <1>4, <1>5 DEF ForkRecord
  <2> HIDE DEF k
  <2> QED
    BY <1>1, <2>1, <2>2, LedgerReplaced
<1> HIDE DEF B
<1>7. /\ Len(LedgerOf(forks)) = Len(forks) /\ k \in DOMAIN LedgerOf(forks)
      /\ LedgerOf(forks)[k].agreements = A
  <2> HIDE DEF k
  <2>1. LedgerOf(forks)[k] = [ genesis          |-> forks[k].genesis,
                               genesisTimestamp |-> forks[k].genesisTimestamp,
                               agreements       |-> forks[k].agreements ]
    BY <1>1, LedgerParts
  <2> QED
    BY <1>1, <2>1, LedgerParts
<1>8. LedgerOf(forks') = [LedgerOf(forks) EXCEPT ![k].agreements[h].signers = @ \cup S]
  BY <1>6, <1>7 DEF B
<1>9. \/ released' = released
      \/ Me \in S \ A[h].signers /\ released' = released \cup {A[h].block}
  BY <1>1 DEF CanConfirm, AgreementAt, Fork
<1>10. Ledger!Vouch(b.forkCnt, b.transactionCnt, S)
  BY <1>7, <1>8, <1>9 DEF Ledger!Vouch, Ledger!Entries
<1> QED
  BY <1>1, <1>3, <1>7, <1>10 DEF Ledger!Next, Ledger!Entries

(* A fork is set, or dropped.                                              *)
LEMMA ForkIsStarted ==
    ASSUME IInv, IInv', NEW f \in Nat, NEW s \in State, NEW time \in Nat,
           forks' = WithFork(f, s, time), released' = released
    PROVE  Promised
<1> DEFINE r == [ genesis |-> s, genesisTimestamp |-> time,
                  chainBlocks |-> {}, agreements |-> <<>> ]
           e == [ genesis |-> s, genesisTimestamp |-> time, agreements |-> <<>> ]
           n == Len(forks) + 1
<1>1. forks \in Seq(ForkRecord) /\ forks' \in Seq(ForkRecord)
  BY DEF IInv, Typing
<1>2. CASE Len(forks) # f
  BY <1>2 DEF WithFork, Promised, LedgerStutters
<1>3. CASE Len(forks) = f
  <2>1. forks' = Append(forks, r) /\ r.genesis = s /\ r.genesisTimestamp = time
        /\ r.agreements = <<>> /\ r \in ForkRecord
    BY <1>3 DEF WithFork, ForkRecord
  <2> HIDE DEF r
  <2>2. /\ Len(forks') = n /\ n \in 1..n /\ Len(forks) \in Nat /\ forks'[n] = r
        /\ \A i \in 1..Len(forks) : forks'[i] = forks[i] /\ i \in 1..n
    BY <1>1, <2>1
  <2>3. PICK L : L = LedgerOf(forks)
    OBVIOUS
  <2>4. /\ L \in Seq([ genesis : State, genesisTimestamp : Nat, agreements : Seq(Agreements) ])
        /\ Len(L) = Len(forks)
        /\ \A i \in 1..Len(forks) : L[i] = [ genesis          |-> forks[i].genesis,
                                             genesisTimestamp |-> forks[i].genesisTimestamp,
                                             agreements       |-> forks[i].agreements ]
    BY <1>1, <2>3, LedgerParts
  <2>5. PICK M : M = LedgerOf(forks')
    OBVIOUS
  <2>6. /\ M \in Seq([ genesis : State, genesisTimestamp : Nat, agreements : Seq(Agreements) ])
        /\ Len(M) = n
        /\ \A i \in 1..n : M[i] = [ genesis          |-> forks'[i].genesis,
                                    genesisTimestamp |-> forks'[i].genesisTimestamp,
                                    agreements       |-> forks'[i].agreements ]
    BY <1>1, <2>2, <2>5, LedgerParts
  <2>7. M[n] = e
    <3>1. M[n] = [ genesis          |-> forks'[n].genesis,
                   genesisTimestamp |-> forks'[n].genesisTimestamp,
                   agreements       |-> forks'[n].agreements ]
      BY <2>2, <2>6
    <3>2. /\ forks'[n].genesis = s /\ forks'[n].genesisTimestamp = time
          /\ forks'[n].agreements = <<>>
      BY <2>1, <2>2
    <3> HIDE DEF n
    <3> QED
      BY <3>1, <3>2
  <2>8. e \in Ledger!NewForks
    BY DEF Ledger!NewForks, Ledger!State, State
  <2>9. \A i \in 1..Len(L) : M[i] = L[i]
    BY <2>2, <2>4, <2>6
  <2>10. M = Append(L, M[n])
    <3>1. PICK l \in Nat : l = Len(forks)
      BY <2>2
    <3>2. PICK S : /\ L \in Seq(S) /\ M \in Seq(S)
                   /\ Len(L) = l /\ Len(M) = l + 1
      BY <2>4, <2>6, <3>1
    <3>3. /\ Append(L, M[l + 1]) \in Seq(S) /\ Len(Append(L, M[l + 1])) = l + 1
          /\ \A i \in 1..l : Append(L, M[l + 1])[i] = L[i]
          /\ Append(L, M[l + 1])[l + 1] = M[l + 1]
      BY <3>1, <3>2
    <3>4. \A i \in 1..(l + 1) : Append(L, M[l + 1])[i] = M[i]
      BY <2>9, <3>1, <3>2, <3>3
    <3>5. M = Append(L, M[l + 1])
      BY <3>1, <3>2, <3>3, <3>4
    <3> QED
      BY <3>1, <3>5
  <2>11. Ledger!StartFork
    BY <2>3, <2>4, <2>5, <2>6, <2>7, <2>8, <2>10 DEF Ledger!StartFork
  <2> QED
    BY <2>11 DEF Promised, Ledger!Next
<1> QED
  BY <1>2, <1>3

(* A post is recorded.                                                     *)
LEMMA PostIsUnseen ==
    ASSUME IInv, IInv', NEW p \in posted, IsValidForkCnt(p.block.forkCnt),
           forks' = WithChainBlock(p), released' = released
    PROVE  LedgerStutters
<1> DEFINE k == p.block.forkCnt + 1
           c == [ transactionCnt |-> p.block.transactionCnt,
                  participant    |-> p.block.participant,
                  timestamp      |-> p.timestamp ]
           r == [forks[k] EXCEPT !.chainBlocks = @ \cup {c}]
<1>1. forks \in Seq(ForkRecord) /\ forks' \in Seq(ForkRecord) /\ p \in Post
  BY DEF IInv, Typing
<1>2. CASE forks' = forks
  BY <1>2 DEF LedgerStutters
<1>3. CASE forks' # forks
  <2>1. k \in 1..Len(forks)
    BY <1>1 DEF IsValidForkCnt, Post, Block
  <2>2. forks[k] \in ForkRecord
    BY <1>1, <2>1
  <2>3. /\ r.genesis = forks[k].genesis /\ r.genesisTimestamp = forks[k].genesisTimestamp
        /\ r.agreements = forks[k].agreements
    BY <2>2 DEF ForkRecord
  <2>4. forks' = [forks EXCEPT ![k] = r]
    BY <1>3 DEF WithChainBlock
  <2> HIDE DEF r, k
  <2>5. /\ Len(forks') = Len(forks) /\ forks'[k] = r
        /\ \A i \in 1..Len(forks) : i # k => forks'[i] = forks[i]
    BY <1>1, <2>1, <2>4
  <2>6. \A i \in 1..Len(forks) : /\ forks'[i].genesis = forks[i].genesis
                                 /\ forks'[i].genesisTimestamp = forks[i].genesisTimestamp
                                 /\ forks'[i].agreements = forks[i].agreements
    BY <2>3, <2>5
  <2> QED
    BY <1>1, <2>5, <2>6, SameLedger DEF LedgerStutters
<1> QED
  BY <1>2, <1>3

-----------------------------------------------------------------------------
(* The steps of the client.                                                *)

(* A duplicate may bring a confirmation.                                   *)
LEMMA IgnoreDuplicatePromised ==
    ASSUME IInv, IInv', NEW t \in Tasks, IgnoreDuplicate(t)
    PROVE  Promised
<1>1. PICK b : b = tasks[t].msg.block
  OBVIOUS
<1>2. /\ tasks[t].pc = "validate" /\ released' = released
      /\ forks' = IF IsBlockInChain(b) THEN WithSigners(b, ConfirmerOf(t)) ELSE forks
  BY <1>1 DEF IgnoreDuplicate, Decides
<1>3. TaskInv(tasks[t], forks, released)
  BY DEF IInv
<1>4. b \in Block
  BY <1>1, <1>2, <1>3 DEF TaskInv, SignedBlock
<1>5. CASE IsBlockInChain(b)
  <2>1. forks' = WithSigners(b, ConfirmerOf(t))
    BY <1>2, <1>5
  <2> QED
    BY <1>2, <1>4, <1>5, <2>1, ConfirmerIsAddr, SignersVouch DEF Promised
<1>6. CASE ~IsBlockInChain(b)
  BY <1>2, <1>6 DEF Promised, LedgerStutters
<1> QED
  BY <1>5, <1>6

(* A block is executed and added: it is not the peer's own.                *)
LEMMA AcceptBlockPromised ==
    ASSUME IInv, IInv', NEW t \in Tasks, AcceptBlock(t)
    PROVE  Promised
<1>1. PICK b : b = tasks[t].msg.block
  OBVIOUS
<1>2. forks' = WithBlock(b) /\ released' = released
  BY <1>1 DEF AcceptBlock
<1>3. b \in Block /\ Placed(b, forks) /\ Faithful(b) /\ b.participant # Me
  BY <1>1, AcceptedBlock
<1> QED
  BY <1>2, <1>3, BlockIsAgreed DEF Promised

(* The peer signs a block of another.                                      *)
LEMMA ConfirmBlockPromised ==
    ASSUME IInv, IInv', NEW t \in Tasks, ConfirmBlock(t)
    PROVE  Promised
<1>1. PICK b : b = tasks[t].msg.block
  OBVIOUS
<1>2. PICK S : S = {Me} \cup ConfirmerOf(t)
  OBVIOUS
<1>3. /\ tasks[t].pc = "sign" /\ CanConfirm(b) /\ forks' = WithSigners(b, S)
      /\ released' = released \cup {b}
  BY <1>1, <1>2 DEF ConfirmBlock
<1>4. TaskInv(tasks[t], forks, released)
  BY DEF IInv
<1>5. b \in Block
  BY <1>1, <1>3, <1>4 DEF TaskInv, SignedBlock
<1>6. S \in SUBSET Addr /\ Me \in S
  BY <1>2, ConfirmerIsAddr, MeAssumption
<1>7. IsBlockInChain(b)
  BY <1>3 DEF CanConfirm
<1> QED
  BY <1>3, <1>5, <1>6, <1>7, SignersVouch DEF Promised

(* The peer's own block is added, and signed.                              *)
LEMMA PlaySealedPromised ==
    ASSUME IInv, IInv', NEW t \in Tasks, PlaySealed(t)
    PROVE  Promised
<1>1. PICK b : b = tasks[t].msg.block
  OBVIOUS
<1>2. tasks[t].pc = "seal" /\ forks' = WithBlock(b) /\ released' = released \cup {b}
  BY <1>1 DEF PlaySealed
<1>3. b \in Block /\ Placed(b, forks) /\ Faithful(b)
  BY <1>1, SealedBlock
<1>4. TaskInv(tasks[t], forks, released)
  BY DEF IInv
<1>5. b.participant = Me
  BY <1>1, <1>2, <1>4 DEF TaskInv
<1>6. released' = IF b.participant = Me THEN released \cup {b} ELSE released
  BY <1>2, <1>5
<1> QED
  BY <1>2, <1>3, <1>6, BlockIsAgreed DEF Promised

(* A confirmation of a block that is in the chain counts at once.          *)
LEMMA ReceiveConfirmationPromised ==
    ASSUME IInv, IInv', NEW t \in Tasks, NEW c \in Confirmations, ReceiveConfirmation(t, c)
    PROVE  Promised
<1>1. c.block \in Block /\ c.confirmer \in Addr
  BY InputsAssumption DEF Confirmation
<1>2. /\ IF IsBlockInChain(c.block) THEN forks' = WithSigners(c.block, {c.confirmer})
         ELSE UNCHANGED forks
      /\ released' = released
  BY DEF ReceiveConfirmation
<1>3. CASE IsBlockInChain(c.block)
  <2>1. forks' = WithSigners(c.block, {c.confirmer}) /\ {c.confirmer} \in SUBSET Addr
    BY <1>1, <1>2, <1>3
  <2> QED
    BY <1>1, <1>2, <1>3, <2>1, SignersVouch DEF Promised
<1>4. CASE ~IsBlockInChain(c.block)
  BY <1>2, <1>4 DEF Promised, LedgerStutters
<1> QED
  BY <1>3, <1>4

(* The steps of a call.                                                    *)
LEMMA StepPromised ==
    ASSUME IInv, IInv', NEW t \in Tasks, Step(t)
    PROVE  Promised
<1>1. \/ IgnoreDuplicate(t) \/ AcceptBlock(t) \/ ConfirmBlock(t) \/ PlaySealed(t)
      \/ UNCHANGED <<forks, released>>
  BY DEF Step, Validate, Confirm, Author, IgnoreBlock, QueueBlock, RejectConflict, RejectBlock,
         RejectExecuted, RejectFuture, AskChain, AcceptUnseen, ConfirmThrows, PlayRefused,
         PlayApplied, PlayThrows, agreement
<1>2. CASE UNCHANGED <<forks, released>>
  BY <1>2 DEF Promised, LedgerStutters
<1> QED
  BY <1>1, <1>2, IgnoreDuplicatePromised, AcceptBlockPromised, ConfirmBlockPromised,
     PlaySealedPromised

(* What the chain reports.                                                 *)
LEMMA EventPromised ==
    ASSUME IInv, IInv', Event
    PROVE  Promised
<1>1. CASE \E e \in Settlements : SetState(e)
  <2>1. PICK e \in Settlements : SetState(e)
    BY <1>1
  <2>2. /\ forks' = WithFork(nextEvent, e.state, e.timestamp) /\ released' = released
        /\ nextEvent \in Nat /\ e.state \in State /\ e.timestamp \in Nat
    BY <2>1, InputsAssumption DEF SetState, Settlement, IInv, Typing
  <2> QED
    BY <2>2, ForkIsStarted
<1>2. CASE \E f \in 0..MaxFork : DisputeUpdated(f)
  BY <1>2 DEF DisputeUpdated, agreement, Promised, LedgerStutters
<1>3. CASE \E p \in posted : CollectBlock(p)
  <2>1. PICK p \in posted : CollectBlock(p)
    BY <1>3
  <2>2. /\ IsValidForkCnt(p.block.forkCnt) /\ released' = released
        /\ forks' = WithChainBlock(p) \/ forks' = forks
    BY <2>1 DEF CollectBlock
  <2>3. CASE forks' = WithChainBlock(p)
    BY <2>2, <2>3, PostIsUnseen DEF Promised
  <2>4. CASE forks' = forks
    BY <2>2, <2>4 DEF Promised, LedgerStutters
  <2> QED
    BY <2>2, <2>3, <2>4
<1>4. CASE \E p \in posted : CollectThrows(p)
  BY <1>4 DEF CollectThrows, Promised, LedgerStutters
<1> QED
  BY <1>1, <1>2, <1>3, <1>4 DEF Event

(* Every step.                                                             *)
LEMMA NextPromised ==
    ASSUME IInv, IInv', [Next]_vars
    PROVE  Promised
<1>1. CASE \/ \E t \in Tasks : ProcessQueue(t)
           \/ \E x \in timers : CheckTimeout(x) \/ TimeoutAnswered(x) \/ DelayedTimeout(x)
           \/ \E x \in pendingPosts : MaybePost(x)
           \/ \E m \in Messages : PeerPosts(m)
           \/ \E t \in Tasks : \/ \E m \in Messages : ReceiveBlock(t, m)
                               \/ \E a \in Amounts : Play(t, a)
           \/ Tick
           \/ UNCHANGED vars
  <2>1. UNCHANGED <<forks, released>>
    BY <1>1 DEF ProcessQueue, CheckTimeout, TimeoutAnswered, DelayedTimeout, MaybePost,
                PeerPosts, ReceiveBlock, Play, Tick, vars, agreement
  <2> QED
    BY <2>1 DEF Promised, LedgerStutters
<1> QED
  BY <1>1, StepPromised, EventPromised, ReceiveConfirmationPromised
     DEF Next, Callback, Environment

(* The client implements its ledger, for any application, number of calls, *)
(* messages, settlements and times: of everything it does the ledger only  *)
(* sees forks, blocks and signatures being added, and the peer's own       *)
(* signature once under a block that is in the chain (ForkService,         *)
(* confirmBlock, playTransaction).                                         *)
THEOREM ImplementsLedgerHolds == Spec => ImplementsLedger
<1>1. Init => Ledger!Init
  BY DEF Init, Ledger!Init, LedgerOf
<1>2. IInv /\ IInv' /\ [Next]_vars
        => [UNCHANGED Ledger!vars \/ Ledger!Next]_(Ledger!vars)
  BY NextPromised DEF Promised, LedgerStutters, Ledger!vars
<1> QED
  BY <1>1, <1>2, Invariance, PTL DEF Spec, ImplementsLedger, Ledger!Spec

=============================================================================
