----------------------- MODULE MCStateChannelManager -----------------------
(***************************************************************************)
(* Instances of StateChannelManager for TLC: two or three participants     *)
(* with seats in the order of their addresses, and the blocks worth        *)
(* signing on the first forks.                                             *)
(***************************************************************************)
EXTENDS StateChannelManager

(* MathStateMachine.getNextToWrite: participants[number % length].         *)
MCNextToWrite(s) ==
    IF s.participants = {} THEN Nobody
    ELSE CHOOSE a \in s.participants :
            Cardinality({b \in s.participants : b < a})
                = s.number % Cardinality(s.participants)

MCState(n, members) == [number |-> n, participants |-> members]

MCBlock(a, f, h, ts, add, s, t) ==
    [participant |-> a, forkCnt |-> f, transactionCnt |-> h, timestamp |-> ts,
     amount |-> add, previousState |-> s, state |-> t]

Pair == {1, 2}

(* Two blocks of an honest chain, the second stamped ahead of the first.   *)
ChainBlocks ==
    { MCBlock(1, 0, 0, 0, 1, MCState(0, Pair), MCState(1, Pair)),
      MCBlock(2, 0, 1, 1, 1, MCState(1, Pair), MCState(2, Pair)) }

(* Three start: a first block that executes or does not, and its           *)
(* successor; and the first block of the fork without 1, in time and late. *)
Trio == {1, 2, 3}

TrioBlocks ==
    { MCBlock(1, 0, 0, 0, 1, MCState(0, Trio), MCState(1, Trio)),
      MCBlock(1, 0, 0, 0, 1, MCState(0, Trio), MCState(2, Trio)),
      MCBlock(2, 0, 1, 1, 1, MCState(1, Trio), MCState(2, Trio)),
      MCBlock(2, 1, 0, 1, 1, MCState(0, {2, 3}), MCState(1, {2, 3})),
      MCBlock(2, 1, 0, 3, 1, MCState(0, {2, 3}), MCState(1, {2, 3})) }

(* Two first blocks of a genesis that 3 may join, of which one executes.   *)
PairBlocks ==
    { MCBlock(1, 0, 0, 0, 1, MCState(0, Pair), MCState(1, Pair)),
      MCBlock(1, 0, 0, 0, 1, MCState(0, Pair), MCState(2, Pair)) }

(* A state of three in which 1 has no seat and 3 is to write.              *)
WithoutOne == {MCState(1, {2, 3})}

(* A state of three that leaves 2 out, who may have played.                *)
WithoutTwo == {MCState(1, {1, 3})}

=============================================================================
