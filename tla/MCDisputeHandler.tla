-------------------------- MODULE MCDisputeHandler --------------------------
(***************************************************************************)
(* Instances of DisputeHandler for TLC: three participants with seats in   *)
(* the order of their addresses, of whom 2 runs the client.                *)
(***************************************************************************)
EXTENDS DisputeHandler

MCNextToWrite(s) ==
    IF s.participants = {} THEN Nobody
    ELSE CHOOSE a \in s.participants :
            Cardinality({b \in s.participants : b < a})
                = s.number % Cardinality(s.participants)

Trio == {1, 2, 3}

MCState(n) == [number |-> n, participants |-> Trio]

MCBlock(a, h, ts, add, s) ==
    [participant |-> a, forkCnt |-> 0, transactionCnt |-> h, timestamp |-> ts,
     amount |-> add, previousState |-> MCState(s), state |-> MCState(s + add)]

(* A first block by 1 and another one that does not execute to the state   *)
(* it names, a second one by 2, and one by 3 out of its turn, stamped      *)
(* ahead.                                                                  *)
First == MCBlock(1, 0, 1, 1, 0)
Other == [First EXCEPT !.state = MCState(2)]
Second == MCBlock(2, 1, 1, 1, 1)
Ahead == MCBlock(3, 1, 2, 1, 1)

FourBlocks == {First, Other, Second, Ahead}

(* 1 signs both first blocks; 3 confirms one and writes a block ahead.     *)
MCForgeries == {<<1, First>>, <<1, Other>>, <<3, First>>, <<3, Ahead>>}
MCPostable == {First}

=============================================================================
