---------------------------- MODULE ChannelTypes ----------------------------
(***************************************************************************)
(* The data of one state channel, as the Solidity contracts and the        *)
(* TypeScript client both see it: states of the application, signed        *)
(* blocks, and the interface AStateMachine through which the channel       *)
(* executes the application.                                               *)
(*                                                                         *)
(* Addresses are positive integers; 0 is Solidity's address(0).  A hash is *)
(* modelled by the value hashed.  The application is the repository's      *)
(* MathStateMachine, except that its participants are a set and the order  *)
(* of their turns is the parameter NextToWrite, as it is for AStateMachine.*)
(***************************************************************************)
EXTENDS Naturals, Sequences, FiniteSets

CONSTANTS
    Addr,             \* the addresses that take part in the channel
    NextToWrite(_),   \* AStateMachine.getNextToWrite of a state
    JoinAccepted,     \* does the application implement _joinChannel
    Blocks            \* the blocks that may be signed

Nobody == 0

NoState == [number |-> 0, participants |-> {}]

State == [number : Nat, participants : SUBSET Addr]

Block == [ participant    : Addr,
           forkCnt        : Nat,
           transactionCnt : Nat,
           timestamp      : Nat,
           amount         : Nat,
           previousState  : State,
           state          : State ]

ASSUME AddrAssumption == Addr \subseteq Nat \ {Nobody} /\ IsFiniteSet(Addr)
ASSUME JoinAssumption == JoinAccepted \in BOOLEAN
ASSUME BlocksAssumption == Blocks \subseteq Block

-----------------------------------------------------------------------------
(* AStateMachine, as MathStateMachine implements it.                       *)

(* MathStateMachine.add reverts when the author of the transaction is not  *)
(* the next to write.                                                      *)
Executes(s, b) == s.participants # {} => b.participant = NextToWrite(s)

Executed(s, b) == [s EXCEPT !.number = @ + b.amount]

(* _slashParticipant and _removeParticipant both take the participant out. *)
Without(s, removed) == [s EXCEPT !.participants = @ \ removed]

JoinsTo(s, joiners) ==
    IF JoinAccepted THEN [s EXCEPT !.participants = @ \cup joiners] ELSE s

(* joinChannel succeeds for every one of the joiners.                      *)
JoinsAll(s, joiners) ==
    JoinAccepted \/ joiners = {}

=============================================================================
