--------------------------- MODULE MCStateManager ---------------------------
(***************************************************************************)
(* Instances of StateManager for TLC.  The peer is the last of two or      *)
(* three participants with seats in the order of their addresses;          *)
(* participant 1 writes first.                                             *)
(***************************************************************************)
EXTENDS StateManager, TLC

(* MathStateMachine.getNextToWrite: participants[number % length].         *)
MCNextToWrite(s) ==
    IF s.participants = {} THEN Nobody
    ELSE CHOOSE a \in s.participants :
            Cardinality({b \in s.participants : b < a})
                = s.number % Cardinality(s.participants)

MCState(n, members) == [number |-> n, participants |-> members]

MCBlock(a, f, h, ts, n, m, members) ==
    [participant |-> a, forkCnt |-> f, transactionCnt |-> h, timestamp |-> ts,
     amount |-> 1, previousState |-> MCState(n, members), state |-> MCState(m, members)]

Sent(b) == [signer |-> b.participant, block |-> b]

Pair == {1, 2}
Trio == {1, 2, 3}

First == MCBlock(1, 0, 0, 0, 0, 1, Pair)     \* the first block of fork 0
Third == MCBlock(1, 0, 2, 1, 2, 3, Pair)     \* the third, after the peer's own

(* What a participant without scruples may send: the first block, one that *)
(* is ahead of its time and claims a wrong state, one that builds on a     *)
(* wrong state, one out of turn, and the third block.                      *)
HostileMessages ==
    {Sent(First), Sent([First EXCEPT !.timestamp = 2, !.state = MCState(5, Pair)]),
     Sent([First EXCEPT !.previousState = MCState(3, Pair)]),
     Sent(MCBlock(1, 0, 1, 1, 4, 5, Pair)), Sent(Third)}

(* Confirmations of what the peer wrote, if it did so at time 0 or 1.      *)
OwnConfirmed ==
    {[signer |-> 2, block |-> MCBlock(2, 0, 1, t, 1, 2, Pair), confirmer |-> 1] : t \in 0..1}

(* Of three honest participants the peer is the last to write; the others  *)
(* send their blocks and confirm each other's.                             *)
TrioFirst  == MCBlock(1, 0, 0, 0, 0, 1, Trio)
TrioSecond == MCBlock(2, 0, 1, 1, 1, 2, Trio)

HonestMessages == {Sent(TrioFirst), Sent(TrioSecond)}

HonestConfirmations ==
    {[signer |-> 1, block |-> TrioFirst, confirmer |-> 2],
     [signer |-> 2, block |-> TrioSecond, confirmer |-> 1]}

(* Blocks of two forks that start from the same settled state, the first   *)
(* stamped as late as its window allows.                                   *)
ForkMessages ==
    {Sent([First EXCEPT !.timestamp = 1]), Sent([First EXCEPT !.forkCnt = 1])}

PairSettled == {[state |-> MCState(0, Pair), timestamp |-> t] : t \in {0}}
TrioSettled == {[state |-> MCState(0, Trio), timestamp |-> t] : t \in {0}}

TaskSymmetry == Permutations(Tasks)

=============================================================================
