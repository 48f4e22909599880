---------------------------- MODULE ChannelLedger ----------------------------
(***************************************************************************)
(* What a client promises about what it has agreed to: a ledger of forks   *)
(* that is only ever added to, by one block or the signatures under one    *)
(* block at a time, and its own signature under one block of every place.  *)
(* Messages, calls, locks, timers and disputes do not occur in it.         *)
(***************************************************************************)
EXTENDS ChannelTypes

CONSTANT Me       \* the client's address

VARIABLES
    ledger,       \* ledger[f + 1] is fork f: its start, and its blocks
    signed        \* the blocks that bear the client's signature

NewForks == [genesis : State, genesisTimestamp : Nat, agreements : {<<>>}]

Entries(f) == ledger[f + 1].agreements

-----------------------------------------------------------------------------
Init == ledger = <<>> /\ signed = {}

(* The chain settles a state.                                              *)
StartFork ==
    LET n == Len(ledger) + 1
    IN  /\ Len(ledger') = n
        /\ ledger'[n] \in NewForks
        /\ ledger' = Append(ledger, ledger'[n])
        /\ UNCHANGED signed

(* A block of the author whose turn it is, that leads to the state it      *)
(* claims, takes the next place of its fork.  A block of the client's own  *)
(* it signs in the same step.                                              *)
Agree(b) ==
    LET f == b.forkCnt
    IN  /\ b \in Block /\ f < Len(ledger)
        /\ b.transactionCnt = Len(Entries(f))
        /\ b.participant = NextToWrite(b.previousState)
        /\ b.state = Executed(b.previousState, b)
        /\ ledger' = [ledger EXCEPT ![f + 1].agreements =
                         Append(@, [block |-> b, signers |-> {b.participant}, state |-> b.state])]
        /\ signed' = IF b.participant = Me THEN signed \cup {b} ELSE signed

(* Signatures are added under a block.  The client adds its own only if it *)
(* is not there yet.                                                       *)
Vouch(f, h, signers) ==
    LET entry == Entries(f)[h + 1]
    IN  /\ ledger' = [ledger EXCEPT ![f + 1].agreements[h + 1].signers = @ \cup signers]
        /\ \/ UNCHANGED signed
           \/ /\ Me \in signers \ entry.signers
              /\ signed' = signed \cup {entry.block}

(* The block that is added is the last one of its fork afterwards.         *)
Next ==
    \/ StartFork
    \/ \E f \in 0..(Len(ledger) - 1) :
          \/ \E i \in DOMAIN ledger'[f + 1].agreements :
                Agree(ledger'[f + 1].agreements[i].block)
          \/ \E h \in 0..(Len(Entries(f)) - 1), signers \in SUBSET Addr : Vouch(f, h, signers)

vars == <<ledger, signed>>

Spec == Init /\ [][UNCHANGED vars \/ Next]_vars

=============================================================================
