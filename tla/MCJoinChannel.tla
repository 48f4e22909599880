---------------------------- MODULE MCJoinChannel ----------------------------
(* Two participants, and a client that wants to join them.                 *)
EXTENDS JoinChannel

MCJoinChannels == {[participant |-> 3, deadlineTimestamp |-> 1]}

=============================================================================
