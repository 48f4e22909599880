------------------------------- MODULE MCPeer -------------------------------
(* Two clients, one of which wants WebRTC, and the connection they dial.   *)
EXTENDS Peer

MCClients == {1, 2}

MCDials == {[type |-> "HOLEPUNCH", ends |-> MCClients, no |-> 1, by |-> 0, nth |-> 0]}

(* The first initiates an upgrade, and another when an answer of the       *)
(* second goes over the wrong transport.                                   *)
TwoByFirst == [c \in MCClients |-> IF c = 1 THEN 2 ELSE 0]

=============================================================================
