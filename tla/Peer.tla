-------------------------------- MODULE Peer --------------------------------
(***************************************************************************)
(* The connections of the clients: transports, the handshake that tells a  *)
(* client whose address is at the other end, the profiles it keeps of      *)
(* them, and the upgrade of a Holepunch connection to WebRTC.  Every       *)
(* client runs this code; messages of one transport arrive in order, those *)
(* of different transports in any, and a handler that awaits lets others   *)
(* in before it goes on.                                                   *)
(***************************************************************************)
EXTENDS Naturals, FiniteSets, Sequences, Functions

CONSTANTS
    Clients,       \* by their addresses
    Dials,         \* the connections Hyperswarm makes
    Preferred,     \* the clients with preferredTransport WEBRTC
    Trickling,     \* the clients whose connections find ICE candidates
    Late,          \* may a message of a handshake come too late?
    MaxUpgrades,   \* bound: the upgrades each client initiates
    MaxBreaks,     \* bound: connections that break by themselves
    Leavers        \* the clients that may leave (disconnectFromPeers)

ASSUME ClientsAssumption == Clients \subseteq Nat
ASSUME DialsAssumption ==
    \A d \in Dials : /\ d = [type |-> "HOLEPUNCH", ends |-> d.ends, no |-> d.no,
                            by |-> 0, nth |-> 0]
                     /\ d.ends \subseteq Clients /\ Cardinality(d.ends) = 2
ASSUME SubsetsAssumption == {Preferred, Trickling, Leavers} \subseteq SUBSET Clients
ASSUME BoundsAssumption ==
    Late \in BOOLEAN /\ MaxUpgrades \in [Clients -> Nat] /\ MaxBreaks \in Nat

VARIABLES
    peers,         \* the state of every client
    wires,         \* wires[l][c]: what is under way to c over l
    ended,         \* the connections closed at an end, or broken
    negotiated     \* the WebRTC connections both ends have descriptions of

vars == <<peers, wires, ended, negotiated>>

-----------------------------------------------------------------------------
(* Connections: those dialled, and the RTCPeerConnections made to replace  *)
(* them.  Every initiateWebRTC makes another: this is the i-th of client c.*)

Upgrade(d, c, i) ==
    [type |-> "WEBRTC", ends |-> d.ends, no |-> d.no, by |-> c, nth |-> i]

UpgradesOf(d) == UNION {{Upgrade(d, c, i) : i \in 1..MaxUpgrades[c]} : c \in d.ends}

Upgrades == UNION {UpgradesOf(d) : d \in Dials}

Links == Dials \cup Upgrades

NoLink == [type |-> "none", ends |-> {}, no |-> 0, by |-> 0, nth |-> 0]

Peer(c, l) == CHOOSE a \in l.ends : a # c

(* Whom verifyMessage recovers: the signer, if it signed the challenge it  *)
(* is checked against, and an address that is nobody's otherwise, another  *)
(* for each signature and each challenge.                                  *)
Address(a) == [signer |-> a, garbled |-> <<>>]

(* Faulty variant: whatever the peer signed will do.                       *)
RecoveredAnyhow(a, signed, challenge) == Address(a)

Recovered(a, signed, challenge) ==
    [signer |-> a, garbled |-> IF signed = challenge THEN <<>> ELSE <<signed, challenge>>]

NoAddress == [signer |-> 0, garbled |-> <<NoLink>>]

(* A challenge is random: it is named by who made it, for which transport. *)
Challenge(c, l) == <<c, l>>

(* A message sent over l; over a connection that has ended it is lost, and *)
(* over one that is closed here it throws, out of the handler.             *)
Send(l, c, message) ==
    IF l \in ended THEN wires
    ELSE [wires EXCEPT ![l][Peer(c, l)] = Append(@, message)]

-----------------------------------------------------------------------------
(* P2PManager and ProfileManager, on the state s of one client.            *)

(* Map.set                                                                 *)
Put(map, key, value) == [k \in {key} \cup DOMAIN map |-> IF k = key THEN value ELSE map[k]]

(* Faulty variant: the connection is not removed.                          *)
CloseKeeping(s, l) == [s EXCEPT !.closed = @ \cup {l}]

(* A Holepunch transport removes its connection at once, a WebRTC one when *)
(* the channel has closed.                                                 *)
Close(s, l) ==
    IF l \in s.closed THEN s
    ELSE IF l.type = "WEBRTC" THEN [s EXCEPT !.closed = @ \cup {l}]
    ELSE [s EXCEPT !.closed = @ \cup {l},
                   !.openConnections = @ \ {l},
                   !.profileOf[l] = NoAddress]

RemoveTransport(s, l) ==
    IF s.profileOf[l] = NoAddress THEN s
    ELSE Close([s EXCEPT !.profileOf[l] = NoAddress], l)

RemoveConnection(s, l) ==
    RemoveTransport([s EXCEPT !.openConnections = @ \ {l}], l)

RegisterProfile(s, a, l) ==
    [s EXCEPT !.profiles = Put(@, a, l), !.profileOf[l] = a]

(* Faulty variant: the old transport is kept.                              *)
UpdateTransportKeeping(s, a, l) == [s EXCEPT !.profiles[a] = l, !.profileOf[l] = a]

UpdateTransport(s, a, l) ==
    [RemoveTransport(s, s.profiles[a]) EXCEPT !.profiles[a] = l, !.profileOf[l] = a]

(* Faulty variant: the handshake is not started.                           *)
AddConnectionSilently(s, l) == [s EXCEPT !.openConnections = @ \cup {l}]

AddConnection(s, l) ==
    [s EXCEPT !.openConnections = @ \cup {l}, !.challenges = @ \cup {l}]

(* removeConnection of each; what has no profile is not closed.            *)
DisconnectAll(s) ==
    LET known == {l \in s.openConnections : s.profileOf[l] # NoAddress}
    IN  [s EXCEPT !.openConnections = {},
                  !.closed = @ \cup known,
                  !.profileOf = [l \in Links |-> IF l \in known THEN NoAddress ELSE @[l]]]

(* Client c goes on as s.                                                  *)
Become(c, s) ==
    /\ peers' = [peers EXCEPT ![c] = s]
    /\ ended' = ended \cup s.closed

-----------------------------------------------------------------------------
(* Connections open and close.                                             *)

(* addConnection: the handshake starts at once.                            *)
Connect(c, l) ==
    /\ l \notin peers[c].challenges
    /\ l \notin ended
    /\ Become(c, AddConnection(peers[c], l))
    /\ wires' = Send(l, c, [kind |-> "request", challenge |-> Challenge(c, l)])
    /\ UNCHANGED negotiated

OnConnection(c, d) == c \in d.ends /\ Connect(c, d)

(* webRTCChannel.onopen                                                    *)
OnOpen(c, w) == w \in negotiated /\ c \in w.ends /\ Connect(c, w)

(* The close event of the socket or the channel.                           *)
OnClose(c, l) ==
    /\ l \in ended /\ l \in peers[c].challenges
    /\ l \notin peers[c].gone
    /\ LET s == [peers[c] EXCEPT !.gone = @ \cup {l}]
       IN  Become(c, IF l.type = "WEBRTC" THEN RemoveConnection(s, l) ELSE Close(s, l))
    /\ wires' = [wires EXCEPT ![l][c] = <<>>]
    /\ UNCHANGED negotiated

(* A connection breaks.                                                    *)
Break(l) ==
    /\ l \notin ended
    /\ \E c \in l.ends : l \in peers[c].challenges
    /\ Cardinality({k \in ended : \A c \in k.ends : k \notin peers[c].closed}) < MaxBreaks
    /\ ended' = ended \cup {l}
    /\ UNCHANGED <<peers, wires, negotiated>>

(* disconnectFromPeers                                                     *)
Leave(c) ==
    /\ c \in Leavers /\ peers[c].openConnections # {}
    /\ Become(c, DisconnectAll(peers[c]))
    /\ UNCHANGED <<wires, negotiated>>

-----------------------------------------------------------------------------
(* Messages: onMessage notes the transport, onRpc calls the handler.       *)

Deliverable(c, l, kind) ==
    /\ l \in peers[c].challenges
    /\ l \notin peers[c].gone
    /\ l.type = "WEBRTC" => l \notin peers[c].closed
    /\ wires[l][c] # <<>>
    /\ Head(wires[l][c]).kind = kind

Received(c, l) == [peers[c] EXCEPT !.senderTransport = l]

Consumed(c, l) == [wires EXCEPT ![l][c] = Tail(@)]

(* A challenge with too different a time is not answered; the other is     *)
(* signed, which takes a while.                                            *)
OnInitHandshakeRequest(c, l) ==
    /\ Deliverable(c, l, "request")
    /\ \E late \in {FALSE, Late} :
          Become(c, IF late THEN Received(c, l)
                    ELSE [Received(c, l) EXCEPT !.signing = @ \cup {Head(wires[l][c]).challenge}])
    /\ wires' = Consumed(c, l)
    /\ UNCHANGED negotiated

(* The answer goes to whoever sent the last message.                       *)
AnswerHandshake(c, challenge) ==
    /\ challenge \in peers[c].signing
    /\ Become(c, [peers[c] EXCEPT !.signing = @ \ {challenge}])
    /\ wires' = Send(peers[c].senderTransport, c,
                     [kind |-> "response", signed |-> challenge, preferred |-> c \in Preferred])
    /\ UNCHANGED negotiated

(* The peer of the lower address initiates an upgrade, at every response;  *)
(* an address that is nobody's may be higher or lower.                     *)
Initiates(c, l, preferred, a) ==
    /\ preferred \/ c \in Preferred
    /\ l.type # "WEBRTC"
    /\ a.garbled # <<>> \/ c < a.signer

Introduce(s, a, l) ==
    IF a \in DOMAIN s.profiles THEN UpdateTransport(s, a, l) ELSE RegisterProfile(s, a, l)

(* The answer came too late, or shows too different a time.                *)
Refuse(s, l) == RemoveConnection(s, l)

OnInitHandshakeResponse(c, l) ==
    /\ Deliverable(c, l, "response")
    /\ LET m == Head(wires[l][c])
           a == Recovered(Peer(c, l), m.signed, Challenge(c, l))
           s == Received(c, l)
           known == Introduce(s, a, l)
           i == s.initiated + 1
       IN  \/ Late /\ Become(c, Refuse(s, l))
           \/ /\ Initiates(c, l, m.preferred, a)
              /\ i <= MaxUpgrades[c]
              /\ Become(c, [known EXCEPT !.initiated = i,
                                         !.offering = @ \cup {<<l, Upgrade(l, c, i)>>}])
           \/ /\ a.garbled # <<>> \/ ~Initiates(c, l, m.preferred, a)
              /\ Become(c, known)
    /\ wires' = Consumed(c, l)
    /\ UNCHANGED negotiated

-----------------------------------------------------------------------------
(* WebRTCSetupService.                                                     *)

(* The offer is made: it is sent over the transport the handshake was on,  *)
(* if that still has a profile.                                            *)
SendOffer(c, l, w) ==
    /\ <<l, w>> \in peers[c].offering
    /\ LET s == [peers[c] EXCEPT !.offering = @ \ {<<l, w>>}, !.candidates = @ \cup {w}]
           a == s.profileOf[l]
       IN  IF a = NoAddress THEN Become(c, s) /\ UNCHANGED wires
           ELSE /\ Become(c, [s EXCEPT !.connectionMap = Put(@, a, w),
                                       !.unanswered = @ \cup {w}])
                /\ wires' = Send(l, c, [kind |-> "offer", connection |-> w])
    /\ UNCHANGED negotiated

OnOfferWebRTC(c, l) ==
    /\ Deliverable(c, l, "offer")
    /\ LET s == Received(c, l)
           a == s.profileOf[l]
           w == Head(wires[l][c]).connection
       IN  Become(c, IF a = NoAddress THEN s
                     ELSE [s EXCEPT !.connectionMap = Put(@, a, w),
                                    !.answering = @ \cup {<<l, w>>}])
    /\ wires' = Consumed(c, l)
    /\ UNCHANGED negotiated

SendAnswer(c, l, w) ==
    /\ <<l, w>> \in peers[c].answering
    /\ Become(c, [peers[c] EXCEPT !.answering = @ \ {<<l, w>>}, !.candidates = @ \cup {w}])
    /\ wires' = Send(l, c, [kind |-> "answer", connection |-> w])
    /\ UNCHANGED negotiated

(* The answer is taken for the connection last negotiated with its sender: *)
(* setRemoteDescription throws unless an offer was made on that one, which *)
(* another connection's answer spends.                                     *)
OnAnswerWebRTC(c, l) ==
    /\ Deliverable(c, l, "answer")
    /\ LET s == Received(c, l)
           a == s.profileOf[l]
           offered == {w \in s.unanswered : a \in DOMAIN s.connectionMap /\ s.connectionMap[a] = w}
       IN  /\ Become(c, [s EXCEPT !.unanswered = @ \ offered])
           /\ negotiated' = negotiated \cup (offered \cap {Head(wires[l][c]).connection})
    /\ wires' = Consumed(c, l)

(* A candidate goes to whoever sent the last message, too.                 *)
SendIceCandidate(c, w) ==
    /\ c \in Trickling /\ w \in peers[c].candidates
    /\ Become(c, [peers[c] EXCEPT !.candidates = @ \ {w}])
    /\ wires' = Send(peers[c].senderTransport, c, [kind |-> "candidate", connection |-> w])
    /\ UNCHANGED negotiated

OnIceCandidate(c, l) ==
    /\ Deliverable(c, l, "candidate")
    /\ Become(c, Received(c, l))
    /\ wires' = Consumed(c, l)
    /\ UNCHANGED negotiated

-----------------------------------------------------------------------------
Init ==
    /\ peers = [c \in Clients |->
          [ openConnections |-> {}, senderTransport |-> NoLink, closed |-> {}, gone |-> {},
            challenges |-> {}, profileOf |-> [l \in Links |-> NoAddress], profiles |-> <<>>,
            signing |-> {}, initiated |-> 0, offering |-> {}, unanswered |-> {},
            answering |-> {}, candidates |-> {}, connectionMap |-> <<>> ]]
    /\ wires = [l \in Links |-> [c \in l.ends |-> <<>>]]
    /\ ended = {}
    /\ negotiated = {}

Receive(c, l) ==
    \/ OnInitHandshakeRequest(c, l) \/ OnInitHandshakeResponse(c, l)
    \/ OnOfferWebRTC(c, l) \/ OnAnswerWebRTC(c, l) \/ OnIceCandidate(c, l)

Resume(c) ==
    \/ \E challenge \in peers[c].signing : AnswerHandshake(c, challenge)
    \/ \E p \in peers[c].offering : SendOffer(c, p[1], p[2])
    \/ \E p \in peers[c].answering : SendAnswer(c, p[1], p[2])
    \/ \E w \in peers[c].candidates : SendIceCandidate(c, w)

Next ==
    \/ \E c \in Clients : \/ \E d \in Dials : OnConnection(c, d)
                          \/ \E w \in Upgrades : OnOpen(c, w)
                          \/ \E l \in Links : OnClose(c, l) \/ Receive(c, l)
                          \/ Resume(c)
                          \/ Leave(c)
    \/ \E l \in Links : Break(l)

Spec == Init /\ [][Next]_vars

(* A connection that has ended is reported to both ends, once at each.     *)
FairSpec == Spec /\ WF_vars(\E c \in Clients, l \in Links : OnClose(c, l))

-----------------------------------------------------------------------------
(* Properties.                                                             *)

Challenges == Clients \X Links

Addresses == [signer : Clients, garbled : {<<>>} \cup (Challenges \X Challenges)]

Messages ==
    [kind : {"request"}, challenge : Challenges]
    \cup [kind : {"response"}, signed : Challenges, preferred : BOOLEAN]
    \cup [kind : {"offer", "answer", "candidate"}, connection : Upgrades]

(* What a client keeps are its own connections and what it was sent, and a *)
(* connection it closed has ended.                                         *)
TypeOK ==
    /\ DOMAIN peers = Clients
    /\ \A c \in Clients :
          LET s == peers[c]
          IN  /\ s.openConnections \cup s.closed \cup s.gone \subseteq s.challenges
              /\ s.challenges \subseteq {l \in Links : c \in l.ends}
              /\ s.closed \subseteq ended /\ s.gone \subseteq ended
              /\ s.senderTransport \in s.challenges \cup {NoLink}
              /\ \A l \in Links : s.profileOf[l] \in Addresses \cup {NoAddress}
              /\ DOMAIN s.profiles \cup DOMAIN s.connectionMap \subseteq Addresses
              /\ Range(s.profiles) \subseteq s.challenges
              /\ Range(s.connectionMap) \cup s.unanswered \cup s.candidates \subseteq Upgrades
              /\ s.offering \cup s.answering \subseteq s.challenges \X Upgrades
              /\ s.initiated \in Nat
              /\ s.signing \subseteq Challenges
    /\ \A l \in Links : \A c \in l.ends : Range(wires[l][c]) \subseteq Messages
    /\ ended \subseteq Links /\ negotiated \subseteq Upgrades

(* The profile a connection leads to leads back to that connection: a      *)
(* message received over a connection is that peer's, and what is sent to  *)
(* the peer's profile goes over it.                                        *)
OneTransportPerPeer ==
    \A c \in Clients, l \in Links :
        peers[c].profileOf[l] # NoAddress
        => /\ peers[c].profileOf[l] \in DOMAIN peers[c].profiles
           /\ peers[c].profiles[peers[c].profileOf[l]] = l

(* updateTransport closes the transport it replaces, so it must never be   *)
(* given the one the profile has: a connection that a step closes leads to *)
(* no profile after it, however responses are repeated, overtaken or sent  *)
(* over another transport.                                                 *)
NeverReplacesItself ==
    [][\A c \in Clients : \A l \in peers'[c].closed \ peers[c].closed :
          peers'[c].profileOf[l] = NoAddress]_vars

(* What has ended at one end leaves openConnections at both, however often *)
(* connections end, so that broadcastRpc does not go on to send over it.   *)
EndedGoes ==
    []<>(\A l \in ended : \A c \in l.ends : l \notin peers[c].openConnections)

=============================================================================
