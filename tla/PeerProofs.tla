----------------------------- MODULE PeerProofs -----------------------------
(***************************************************************************)
(* Proofs about Peer: the shape of what a client keeps of its connections, *)
(* and that nobody is known by two transports.                             *)
(***************************************************************************)
EXTENDS Peer, FiniteSetTheorems, SequenceTheorems, TLAPS

-----------------------------------------------------------------------------
(* Connections and their ends.                                             *)

(* A dial is a Holepunch connection.                                       *)
LEMMA DialIsLink ==
    ASSUME NEW d \in Dials
    PROVE  d \in Links /\ d.type = "HOLEPUNCH"
BY DialsAssumption DEF Links

(* An upgrade of a dial is a WebRTC connection of the same two clients.    *)
LEMMA UpgradeIsLink ==
    ASSUME NEW d \in Dials, NEW c, NEW i
    PROVE  /\ Upgrade(d, c, i).type = "WEBRTC" /\ Upgrade(d, c, i).ends = d.ends
           /\ c \in d.ends /\ i \in 1..MaxUpgrades[c] => Upgrade(d, c, i) \in Upgrades
<1>1. /\ Upgrade(d, c, i).type = "WEBRTC"
      /\ Upgrade(d, c, i).ends = d.ends
  BY DEF Upgrade
<1>2. ASSUME c \in d.ends, i \in 1..MaxUpgrades[c]
      PROVE  Upgrade(d, c, i) \in Upgrades
  <2>1. Upgrade(d, c, i) \in {Upgrade(d, c, n) : n \in 1..MaxUpgrades[c]}
    BY <1>2
  <2>2. Upgrade(d, c, i) \in UpgradesOf(d)
    BY <1>2, <2>1 DEF UpgradesOf
  <2> QED BY <2>2 DEF Upgrades
<1> QED BY <1>1, <1>2

(* So is every upgrade, of some dial.                                      *)
LEMMA UpgradeOfDial ==
    ASSUME NEW w \in Upgrades
    PROVE  w \in Links /\ w.type = "WEBRTC" /\ \E d \in Dials : w.ends = d.ends
<1>1. PICK d \in Dials : w \in UpgradesOf(d)
  BY DEF Upgrades
<1>2. PICK c, i : w = Upgrade(d, c, i)
  BY <1>1 DEF UpgradesOf
<1> QED BY <1>2, UpgradeIsLink DEF Links

(* Every connection has two ends, both of them clients.                    *)
LEMMA LinkEnds ==
    ASSUME NEW l \in Links
    PROVE  l.ends \subseteq Clients /\ Cardinality(l.ends) = 2
<1>1. \A d \in Dials : d.ends \subseteq Clients /\ Cardinality(d.ends) = 2
  BY DialsAssumption
<1> QED BY <1>1, UpgradeOfDial DEF Links

(* The other end of a connection is one.                                   *)
LEMMA PeerIsEnd ==
    ASSUME NEW l \in Links, NEW c \in l.ends
    PROVE  Peer(c, l) \in l.ends /\ Peer(c, l) \in Clients
<1>1. \E a \in l.ends : a # c
  <2>1. SUFFICES ASSUME l.ends = {c} PROVE FALSE
    OBVIOUS
  <2>2. Cardinality({c}) = 1
    BY FS_Singleton
  <2> QED BY <2>1, <2>2, LinkEnds
<1> QED BY <1>1, LinkEnds DEF Peer

(* What is not a WebRTC connection was dialled, and can be upgraded.       *)
LEMMA DialledUpgrades ==
    ASSUME NEW l \in Links, l.type # "WEBRTC", NEW c \in l.ends, NEW i \in 1..MaxUpgrades[c]
    PROVE  Upgrade(l, c, i) \in Upgrades
BY UpgradeIsLink, UpgradeOfDial DEF Links

(* No connection is none.                                                  *)
LEMMA NoLinkIsNone == NoLink \notin Links
<1>1. \A l \in Links : l.type \in {"HOLEPUNCH", "WEBRTC"}
  BY DialIsLink, UpgradeOfDial DEF Links
<1>2. NoLink.type = "none"
  BY DEF NoLink
<1> QED BY <1>1, <1>2

(* What a dial is upgraded to is a connection.                             *)
LEMMA UpgradesAreLinks == Upgrades \subseteq Links
BY DEF Links

-----------------------------------------------------------------------------
(* What a client knows by an address.                                      *)

(* Maps from addresses.                                                    *)
Known(V) == UNION {[A -> V] : A \in SUBSET Addresses}

(* What is known of an address is of the right kind.                       *)
LEMMA KnownDef ==
    ASSUME NEW V, NEW f \in Known(V)
    PROVE  /\ DOMAIN f \subseteq Addresses
           /\ f = [a \in DOMAIN f |-> f[a]]
           /\ \A a \in DOMAIN f : f[a] \in V
<1>1. PICK A \in SUBSET Addresses : f \in [A -> V]
  BY DEF Known
<1> QED BY <1>1

(* A map from some addresses is one.                                       *)
LEMMA KnownIntro ==
    ASSUME NEW V, NEW A \in SUBSET Addresses, NEW f \in [A -> V]
    PROVE  f \in Known(V)
BY DEF Known

(* Another address is put to what is known.                                *)
LEMMA KnownPut ==
    ASSUME NEW V, NEW f \in Known(V), NEW a \in Addresses, NEW v \in V
    PROVE  Put(f, a, v) \in Known(V) /\ [f EXCEPT ![a] = v] \in Known(V)
<1>1. /\ DOMAIN f \subseteq Addresses
      /\ f = [b \in DOMAIN f |-> f[b]]
      /\ \A b \in DOMAIN f : f[b] \in V
  BY KnownDef
<1>2. {a} \cup DOMAIN f \in SUBSET Addresses /\ DOMAIN f \in SUBSET Addresses
  BY <1>1
<1>3. Put(f, a, v) \in [{a} \cup DOMAIN f -> V]
  BY <1>1 DEF Put
<1>4. [f EXCEPT ![a] = v] \in [DOMAIN f -> V]
  BY <1>1
<1> QED BY <1>2, <1>3, <1>4, KnownIntro

-----------------------------------------------------------------------------
(* The state of one client.                                                *)

PeerRecord ==
    [ openConnections : SUBSET Links, senderTransport : Links \cup {NoLink},
      closed : SUBSET Links, gone : SUBSET Links, challenges : SUBSET Links,
      profileOf : [Links -> Addresses \cup {NoAddress}], profiles : Known(Links),
      signing : SUBSET Challenges, initiated : Nat, unanswered : SUBSET Upgrades,
      offering : SUBSET (Links \X Upgrades), answering : SUBSET (Links \X Upgrades),
      candidates : SUBSET Upgrades, connectionMap : Known(Upgrades) ]

(* What it keeps are its own connections, and it negotiates over these.    *)
Own(c, s) ==
    /\ s.openConnections \cup s.closed \cup s.gone \subseteq s.challenges
    /\ s.challenges \subseteq {l \in Links : c \in l.ends}
    /\ s.senderTransport \in s.challenges \cup {NoLink}
    /\ \A a \in DOMAIN s.profiles : s.profiles[a] \in s.challenges
    /\ \A p \in s.offering : p[1] \in s.challenges
    /\ \A p \in s.answering : p[1] \in s.challenges

(* The profile a connection leads to leads back to it.                     *)
LeadsBack(s) ==
    \A l \in Links :
        s.profileOf[l] # NoAddress
        => /\ s.profileOf[l] \in DOMAIN s.profiles
           /\ s.profiles[s.profileOf[l]] = l

PeerInv(c, s) == s \in PeerRecord /\ Own(c, s) /\ LeadsBack(s)

(* What operations on the state of a client leave alone.                   *)
Same(s, t) ==
    /\ t.challenges = s.challenges /\ t.gone = s.gone /\ t.profiles = s.profiles
    /\ \A k \in Links : t.profileOf[k] = s.profileOf[k] \/ t.profileOf[k] = NoAddress

Cleared(s, l) == [s EXCEPT !.profileOf[l] = NoAddress]

Named(s, m, l, a) == [s EXCEPT !.profiles = m, !.profileOf[l] = a]

(* A connection loses its profile.                                         *)
LEMMA ClearedInv ==
    ASSUME NEW c \in Clients, NEW s, PeerInv(c, s), NEW l \in s.challenges,
           NEW t, t = Cleared(s, l)
    PROVE  PeerInv(c, t) /\ Same(s, t) /\ t.profileOf[l] = NoAddress
<1>1. s \in PeerRecord /\ Own(c, s) /\ LeadsBack(s) /\ l \in Links
  BY DEF PeerInv, PeerRecord
<1>2. t \in PeerRecord
  BY <1>1 DEF PeerRecord, Cleared
<1>3. \A k \in Links : t.profileOf[k] = IF k = l THEN NoAddress ELSE s.profileOf[k]
  BY <1>1 DEF PeerRecord, Cleared
<1>4. Own(c, t)
  BY <1>1 DEF PeerRecord, Own, Cleared
<1>5. t.profiles = s.profiles /\ t.challenges = s.challenges /\ t.gone = s.gone
  BY <1>1 DEF PeerRecord, Cleared
<1>6. LeadsBack(t)
  BY <1>1, <1>3, <1>5 DEF LeadsBack
<1> QED BY <1>1, <1>2, <1>3, <1>4, <1>5, <1>6 DEF PeerInv, Same

(* It is taken out of openConnections.                                     *)
LEMMA TakenOutInv ==
    ASSUME NEW c \in Clients, NEW s, PeerInv(c, s), NEW l \in s.challenges,
           NEW t, t = [s EXCEPT !.openConnections = @ \ {l}]
    PROVE  PeerInv(c, t) /\ Same(s, t)
<1>1. s \in PeerRecord /\ Own(c, s) /\ LeadsBack(s)
  BY DEF PeerInv
<1>2. t \in PeerRecord
  BY <1>1 DEF PeerRecord
<1>3. Own(c, t)
  BY <1>1 DEF PeerRecord, Own
<1>4. t.profiles = s.profiles /\ t.challenges = s.challenges /\ t.gone = s.gone /\ t.profileOf = s.profileOf
  BY <1>1 DEF PeerRecord
<1> QED BY <1>1, <1>2, <1>3, <1>4 DEF PeerInv, Same, LeadsBack

(* It joins those that were closed.                                        *)
LEMMA MarkedInv ==
    ASSUME NEW c \in Clients, NEW s, PeerInv(c, s), NEW l \in s.challenges,
           NEW t, t = [s EXCEPT !.closed = @ \cup {l}]
    PROVE  PeerInv(c, t) /\ Same(s, t)
<1>1. s \in PeerRecord /\ Own(c, s) /\ LeadsBack(s) /\ l \in Links
  BY DEF PeerInv, PeerRecord
<1>2. t \in PeerRecord
  BY <1>1 DEF PeerRecord
<1>3. Own(c, t)
  BY <1>1 DEF PeerRecord, Own
<1>4. t.profiles = s.profiles /\ t.challenges = s.challenges /\ t.gone = s.gone /\ t.profileOf = s.profileOf
  BY <1>1 DEF PeerRecord
<1> QED BY <1>1, <1>2, <1>3, <1>4 DEF PeerInv, Same, LeadsBack

(* Several operations leave alone what each of them does.                  *)
LEMMA SameTransitive ==
    ASSUME NEW s, NEW t, NEW u, Same(s, t), Same(t, u)
    PROVE  Same(s, u)
BY DEF Same

(* Closing takes the profile away, or has it taken away later              *)
(* (ATransport.close).                                                     *)
LEMMA CloseInv ==
    ASSUME NEW c \in Clients, NEW s, PeerInv(c, s), NEW l \in s.challenges
    PROVE  /\ PeerInv(c, Close(s, l)) /\ Same(s, Close(s, l))
           /\ s.profileOf[l] = NoAddress => Close(s, l).profileOf[l] = NoAddress
<1>1. CASE l \in s.closed
  BY <1>1 DEF Close, Same
<1>2. CASE l \notin s.closed /\ l.type = "WEBRTC"
  <2>1. Close(s, l) = [s EXCEPT !.closed = @ \cup {l}]
    BY <1>2 DEF Close
  <2>2. Close(s, l).profileOf = s.profileOf
    BY <2>1 DEF PeerInv, PeerRecord
  <2> QED BY <2>1, <2>2, MarkedInv
<1>3. CASE l \notin s.closed /\ l.type # "WEBRTC"
  <2>1. PICK t : t = [s EXCEPT !.closed = @ \cup {l}]
    OBVIOUS
  <2>2. PeerInv(c, t) /\ Same(s, t) /\ l \in t.challenges
    BY <2>1, MarkedInv DEF Same
  <2>3. PICK u : u = [t EXCEPT !.openConnections = @ \ {l}]
    OBVIOUS
  <2>4. PeerInv(c, u) /\ Same(t, u) /\ l \in u.challenges
    BY <2>2, <2>3, TakenOutInv DEF Same
  <2>5. PICK v : v = Cleared(u, l)
    OBVIOUS
  <2>6. PeerInv(c, v) /\ Same(u, v) /\ v.profileOf[l] = NoAddress
    BY <2>4, <2>5, ClearedInv
  <2>7. Close(s, l) = v
    BY <1>3, <2>1, <2>3, <2>5 DEF Close, PeerInv, PeerRecord, Cleared
  <2> QED BY <2>2, <2>4, <2>6, <2>7, SameTransitive
<1> QED BY <1>1, <1>2, <1>3

(* A transport that is removed has no profile afterwards.                  *)
LEMMA RemoveTransportInv ==
    ASSUME NEW c \in Clients, NEW s, PeerInv(c, s), NEW l \in s.challenges
    PROVE  /\ PeerInv(c, RemoveTransport(s, l)) /\ Same(s, RemoveTransport(s, l))
           /\ RemoveTransport(s, l).profileOf[l] = NoAddress
<1>1. CASE s.profileOf[l] = NoAddress
  BY <1>1 DEF RemoveTransport, Same
<1>2. CASE s.profileOf[l] # NoAddress
  <2>1. PICK t : t = Cleared(s, l)
    OBVIOUS
  <2>2. PeerInv(c, t) /\ Same(s, t) /\ t.profileOf[l] = NoAddress /\ l \in t.challenges
    BY <2>1, ClearedInv DEF Same
  <2>3. RemoveTransport(s, l) = Close(t, l)
    BY <1>2, <2>1 DEF RemoveTransport, Cleared
  <2> QED BY <2>2, <2>3, CloseInv, SameTransitive
<1> QED BY <1>1, <1>2

(* So has a connection that is removed.                                    *)
LEMMA RemoveConnectionInv ==
    ASSUME NEW c \in Clients, NEW s, PeerInv(c, s), NEW l \in s.challenges
    PROVE  PeerInv(c, RemoveConnection(s, l)) /\ Same(s, RemoveConnection(s, l))
<1>1. PICK t : t = [s EXCEPT !.openConnections = @ \ {l}]
  OBVIOUS
<1>2. PeerInv(c, t) /\ Same(s, t) /\ l \in t.challenges
  BY <1>1, TakenOutInv DEF Same
<1>3. RemoveConnection(s, l) = RemoveTransport(t, l)
  BY <1>1 DEF RemoveConnection
<1> QED BY <1>2, <1>3, RemoveTransportInv, SameTransitive

(* A connection is given to an address nobody else leads to.               *)
LEMMA NamedInv ==
    ASSUME NEW c \in Clients, NEW s, PeerInv(c, s), NEW l \in s.challenges, NEW a \in Addresses,
           \A k \in Links : s.profileOf[k] # NoAddress => s.profileOf[k] # a,
           NEW m, m \in Known(Links), m[a] = l, DOMAIN m = {a} \cup DOMAIN s.profiles,
           \A b \in DOMAIN s.profiles : b # a => m[b] = s.profiles[b],
           NEW t, t = Named(s, m, l, a)
    PROVE  PeerInv(c, t) /\ t.challenges = s.challenges /\ t.gone = s.gone
<1>1. s \in PeerRecord /\ Own(c, s) /\ LeadsBack(s) /\ l \in Links
  BY DEF PeerInv, PeerRecord
<1>2. t \in PeerRecord
  BY <1>1 DEF PeerRecord, Named
<1>3. \A k \in Links : t.profileOf[k] = IF k = l THEN a ELSE s.profileOf[k]
  BY <1>1 DEF PeerRecord, Named
<1>4. t.profiles = m /\ t.challenges = s.challenges /\ t.gone = s.gone
  BY <1>1 DEF PeerRecord, Named
<1>5. \A b \in DOMAIN m : m[b] \in s.challenges
  BY <1>1 DEF Own
<1>6. /\ t.openConnections = s.openConnections /\ t.closed = s.closed
      /\ t.senderTransport = s.senderTransport
      /\ t.offering = s.offering /\ t.answering = s.answering
  BY <1>1 DEF PeerRecord, Named
<1>7. Own(c, t)
  BY <1>1, <1>4, <1>5, <1>6 DEF Own
<1>8. LeadsBack(t)
  BY <1>1, <1>3, <1>4 DEF LeadsBack
<1> QED BY <1>2, <1>4, <1>7, <1>8 DEF PeerInv

(* A peer that introduced itself is known by the new transport only:       *)
(* updateTransport removes the old one before it registers the new one.    *)
LEMMA IntroduceInv ==
    ASSUME NEW c \in Clients, NEW s, PeerInv(c, s), NEW l \in s.challenges, NEW a \in Addresses
    PROVE  /\ PeerInv(c, Introduce(s, a, l))
           /\ Introduce(s, a, l).challenges = s.challenges /\ Introduce(s, a, l).gone = s.gone
<1>1. s \in PeerRecord /\ Own(c, s) /\ LeadsBack(s) /\ l \in Links /\ s.profiles \in Known(Links)
  BY DEF PeerInv, PeerRecord
<1>2. CASE a \notin DOMAIN s.profiles
  <2>1. PICK m : m = Put(s.profiles, a, l)
    OBVIOUS
  <2>2. m \in Known(Links)
    BY <1>1, <2>1, KnownPut
  <2>3. /\ m[a] = l /\ DOMAIN m = {a} \cup DOMAIN s.profiles
        /\ \A b \in DOMAIN s.profiles : b # a => m[b] = s.profiles[b]
    BY <2>1 DEF Put
  <2>4. \A k \in Links : s.profileOf[k] # NoAddress => s.profileOf[k] # a
    BY <1>1, <1>2 DEF LeadsBack
  <2>5. PICK t : t = Named(s, m, l, a)
    OBVIOUS
  <2>6. PeerInv(c, t) /\ t.challenges = s.challenges /\ t.gone = s.gone
    BY <2>2, <2>3, <2>4, <2>5, NamedInv
  <2>7. Introduce(s, a, l) = t
    BY <1>1, <1>2, <2>1, <2>5 DEF Introduce, RegisterProfile, PeerRecord, Named
  <2> QED BY <2>6, <2>7
<1>3. CASE a \in DOMAIN s.profiles
  <2>1. PICK o : o = s.profiles[a]
    OBVIOUS
  <2>2. o \in s.challenges /\ o \in Links
    BY <1>1, <1>3, <2>1 DEF Own, PeerRecord
  <2>3. PICK u : u = RemoveTransport(s, o)
    OBVIOUS
  <2>4. PeerInv(c, u) /\ Same(s, u) /\ u.profileOf[o] = NoAddress
    BY <2>2, <2>3, RemoveTransportInv
  <2>5. /\ u \in PeerRecord /\ LeadsBack(u) /\ l \in u.challenges
        /\ u.profiles = s.profiles /\ u.profiles \in Known(Links)
    BY <1>1, <2>4 DEF PeerInv, Same
  <2>6. PICK m : m = [u.profiles EXCEPT ![a] = l]
    OBVIOUS
  <2>7. m \in Known(Links)
    BY <1>1, <2>5, <2>6, KnownPut
  <2>8. /\ m[a] = l /\ DOMAIN m = {a} \cup DOMAIN u.profiles
        /\ \A b \in DOMAIN u.profiles : b # a => m[b] = u.profiles[b]
    BY <1>3, <2>5, <2>6
  <2>9. \A k \in Links : u.profileOf[k] # NoAddress => u.profileOf[k] # a
    BY <2>1, <2>4, <2>5 DEF LeadsBack
  <2>10. PICK t : t = Named(u, m, l, a)
    OBVIOUS
  <2>11. PeerInv(c, t) /\ t.challenges = u.challenges /\ t.gone = u.gone
    BY <2>4, <2>5, <2>7, <2>8, <2>9, <2>10, NamedInv
  <2>12. UpdateTransport(s, a, l) = [u EXCEPT !.profiles[a] = l, !.profileOf[l] = a]
    BY <2>1, <2>3 DEF UpdateTransport
  <2>13. UpdateTransport(s, a, l) = t
    BY <2>5, <2>6, <2>10, <2>12 DEF PeerRecord, Named
  <2> QED BY <1>3, <2>4, <2>11, <2>13 DEF Introduce, Same
<1> QED BY <1>2, <1>3

(* Leaving closes what has a profile.                                      *)
LEMMA DisconnectAllInv ==
    ASSUME NEW c \in Clients, NEW s, PeerInv(c, s)
    PROVE  PeerInv(c, DisconnectAll(s)) /\ DisconnectAll(s).gone = s.gone
<1>1. s \in PeerRecord /\ Own(c, s) /\ LeadsBack(s)
  BY DEF PeerInv
<1>2. PICK known : known = {l \in s.openConnections : s.profileOf[l] # NoAddress}
  OBVIOUS
<1>3. PICK p : p = [l \in Links |-> IF l \in known THEN NoAddress ELSE s.profileOf[l]]
  OBVIOUS
<1>4. p \in [Links -> Addresses \cup {NoAddress}]
  BY <1>1, <1>3 DEF PeerRecord
<1>5. known \subseteq s.challenges /\ known \in SUBSET Links
  BY <1>1, <1>2 DEF Own, PeerRecord
<1>6. PICK t : t = [s EXCEPT !.openConnections = {}, !.closed = @ \cup known, !.profileOf = p]
  OBVIOUS
<1>7. DisconnectAll(s) = t
  BY <1>1, <1>2, <1>3, <1>6 DEF DisconnectAll, PeerRecord
<1>8. t \in PeerRecord
  BY <1>1, <1>4, <1>5, <1>6 DEF PeerRecord
<1>9. /\ t.openConnections = {} /\ t.closed = s.closed \cup known /\ t.gone = s.gone
      /\ t.challenges = s.challenges /\ t.profiles = s.profiles /\ t.profileOf = p
      /\ t.senderTransport = s.senderTransport
      /\ t.offering = s.offering /\ t.answering = s.answering
  BY <1>1, <1>6 DEF PeerRecord
<1>10. Own(c, t)
  BY <1>1, <1>5, <1>9 DEF Own
<1>11. LeadsBack(t)
  BY <1>1, <1>3, <1>9 DEF LeadsBack
<1> QED BY <1>7, <1>8, <1>9, <1>10, <1>11 DEF PeerInv

(* A state that differs only in what is under way.                         *)
SameLinks(s, t) ==
    /\ t.openConnections = s.openConnections /\ t.closed = s.closed /\ t.gone = s.gone
    /\ t.challenges = s.challenges /\ t.profileOf = s.profileOf /\ t.profiles = s.profiles

(* What is under way does not matter to what is known.                     *)
LEMMA SameLinksInv ==
    ASSUME NEW c \in Clients, NEW s, PeerInv(c, s), NEW t \in PeerRecord, SameLinks(s, t),
           t.senderTransport \in s.challenges \cup {NoLink},
           \A p \in t.offering : p[1] \in s.challenges,
           \A p \in t.answering : p[1] \in s.challenges
    PROVE  PeerInv(c, t)
<1>1. Own(c, s) /\ LeadsBack(s)
  BY DEF PeerInv
<1>2. Own(c, t)
  BY <1>1 DEF Own, SameLinks
<1>3. LeadsBack(t)
  BY <1>1 DEF LeadsBack, SameLinks
<1> QED BY <1>2, <1>3 DEF PeerInv

-----------------------------------------------------------------------------
(* The inductive invariant.                                                *)

WiresInv(w) ==
    /\ w = [l \in Links |-> w[l]]
    /\ \A l \in Links : w[l] \in [l.ends -> Seq(Messages)]

PeersInv ==
    /\ DOMAIN peers = Clients
    /\ \A c \in Clients : /\ PeerInv(c, peers[c])
                          /\ peers[c].closed \subseteq ended
                          /\ peers[c].gone \subseteq ended

IInv == PeersInv /\ WiresInv(wires) /\ ended \subseteq Links /\ negotiated \subseteq Upgrades

(* A client goes on in a state that is right.                              *)
LEMMA BecomeInv ==
    ASSUME PeersInv, ended \subseteq Links, NEW c \in Clients, NEW s, PeerInv(c, s),
           s.gone \subseteq ended, Become(c, s)
    PROVE  PeersInv' /\ ended' \subseteq Links
<1>1. s.closed \subseteq Links
  BY DEF PeerInv, PeerRecord
<1>2. ended' = ended \cup s.closed /\ peers' = [peers EXCEPT ![c] = s]
  BY DEF Become
<1>3. DOMAIN peers' = Clients
  BY <1>2 DEF PeersInv
<1>4. ASSUME NEW d \in Clients
      PROVE  /\ PeerInv(d, peers'[d]) /\ peers'[d].closed \subseteq ended'
             /\ peers'[d].gone \subseteq ended'
  <2>1. CASE d = c
    <3>1. peers'[d] = s
      BY <1>2, <2>1 DEF PeersInv
    <3> QED BY <1>2, <2>1, <3>1
  <2>2. CASE d # c
    <3>1. peers'[d] = peers[d]
      BY <1>2, <2>2 DEF PeersInv
    <3> QED BY <1>2, <3>1 DEF PeersInv
  <2> QED BY <2>1, <2>2
<1> QED BY <1>1, <1>2, <1>3, <1>4 DEF PeersInv

(* What is sent is appended to what is under way.                          *)
LEMMA SendInv ==
    ASSUME WiresInv(wires), NEW l \in Links \cup {NoLink}, NEW c, l \in Links => c \in l.ends,
           NEW m \in Messages
    PROVE  WiresInv(Send(l, c, m))
<1>1. CASE l \in ended
  BY <1>1 DEF Send
<1>2. CASE l \notin ended /\ l \in Links
  <2>1. PICK p \in l.ends : p = Peer(c, l)
    BY <1>2, PeerIsEnd
  <2>2. PICK q \in Seq(Messages) : q = wires[l][p]
    BY <1>2, <2>1 DEF WiresInv
  <2>3. Append(q, m) \in Seq(Messages)
    BY <2>2
  <2>4. PICK f : f = [wires[l] EXCEPT ![p] = Append(q, m)]
    OBVIOUS
  <2>5. f \in [l.ends -> Seq(Messages)]
    BY <1>2, <2>1, <2>3, <2>4 DEF WiresInv
  <2>6. Send(l, c, m) = [wires EXCEPT ![l] = f]
    BY <1>2, <2>1, <2>2, <2>4 DEF Send, WiresInv
  <2> QED BY <1>2, <2>5, <2>6 DEF WiresInv
<1>3. CASE l \notin ended /\ l \notin Links
  <2>1. Send(l, c, m) = [wires EXCEPT ![l][Peer(c, l)] = Append(@, m)]
    BY <1>3 DEF Send
  <2>2. \A k \in Links : k # l
    BY <1>3
  <2>3. Send(l, c, m) = wires
    BY <2>1, <2>2 DEF WiresInv
  <2> QED BY <2>3
<1> QED BY <1>1, <1>2, <1>3

(* What is handled is taken off.                                           *)
LEMMA ConsumedInv ==
    ASSUME WiresInv(wires), PeersInv, NEW c \in Clients, NEW l \in Links, NEW kind,
           Deliverable(c, l, kind)
    PROVE  /\ WiresInv(Consumed(c, l))
           /\ Head(wires[l][c]) \in Messages /\ Head(wires[l][c]).kind = kind
           /\ l \in peers[c].challenges /\ c \in l.ends
<1>1. l \in peers[c].challenges /\ c \in l.ends
  BY DEF Deliverable, PeersInv, PeerInv, Own
<1>2. PICK q \in Seq(Messages) : q = wires[l][c]
  BY <1>1 DEF WiresInv
<1>3. q # <<>> /\ Head(wires[l][c]).kind = kind
  BY <1>2 DEF Deliverable
<1>4. Head(q) \in Messages /\ Tail(q) \in Seq(Messages)
  BY <1>2, <1>3
<1>5. PICK f : f = [wires[l] EXCEPT ![c] = Tail(q)]
  OBVIOUS
<1>6. f \in [l.ends -> Seq(Messages)]
  BY <1>1, <1>4, <1>5 DEF WiresInv
<1>7. Consumed(c, l) = [wires EXCEPT ![l] = f]
  BY <1>1, <1>2, <1>5 DEF Consumed, WiresInv
<1>8. WiresInv(Consumed(c, l))
  BY <1>6, <1>7 DEF WiresInv
<1> QED BY <1>1, <1>2, <1>3, <1>4, <1>8

(* By its kind one knows what a message has.                               *)
LEMMA SentKinds ==
    ASSUME NEW m \in Messages
    PROVE  /\ m.kind = "request" => m.challenge \in Challenges
           /\ m.kind = "response" => m.signed \in Challenges /\ m.preferred \in BOOLEAN
           /\ m.kind \in {"offer", "answer", "candidate"} => m.connection \in Upgrades
BY DEF Messages

(* Three steps to the invariant: the client goes on, the wires change,     *)
(* what was negotiated stays.                                              *)
LEMMA StepInv ==
    ASSUME IInv, NEW c \in Clients, NEW s, PeerInv(c, s), s.gone \subseteq ended, Become(c, s),
           WiresInv(wires'), negotiated' \subseteq Upgrades
    PROVE  IInv'
BY BecomeInv DEF IInv, WiresInv

-----------------------------------------------------------------------------
(* Connections open and close.                                             *)

(* A new connection sends its challenge (addConnection).                   *)
LEMMA ConnectIInv ==
    ASSUME IInv, NEW c \in Clients, NEW l \in Links, c \in l.ends, Connect(c, l)
    PROVE  IInv'
<1>1. PICK s : s = peers[c]
  OBVIOUS
<1>2. s \in PeerRecord /\ Own(c, s) /\ LeadsBack(s) /\ s.gone \subseteq ended
  BY <1>1 DEF IInv, PeersInv, PeerInv
<1>3. PICK t : t = AddConnection(s, l)
  OBVIOUS
<1>4. t \in PeerRecord
  BY <1>2, <1>3 DEF AddConnection, PeerRecord
<1>5. /\ t.openConnections = s.openConnections \cup {l} /\ t.challenges = s.challenges \cup {l}
      /\ t.closed = s.closed /\ t.gone = s.gone
      /\ t.profiles = s.profiles /\ t.profileOf = s.profileOf
      /\ t.senderTransport = s.senderTransport
      /\ t.offering = s.offering /\ t.answering = s.answering
  BY <1>2, <1>3 DEF AddConnection, PeerRecord
<1>6. Own(c, t)
  BY <1>2, <1>5 DEF Own
<1>7. LeadsBack(t)
  BY <1>2, <1>5 DEF LeadsBack
<1>8. PeerInv(c, t) /\ t.gone \subseteq ended /\ Become(c, t)
  BY <1>1, <1>2, <1>3, <1>4, <1>5, <1>6, <1>7 DEF PeerInv, Connect
<1>9. WiresInv(wires') /\ UNCHANGED negotiated
  <2>1. PICK m : m = [kind |-> "request", challenge |-> Challenge(c, l)]
    OBVIOUS
  <2>2. m \in Messages
    BY <2>1 DEF Messages, Challenge, Challenges
  <2>3. wires' = Send(l, c, m)
    BY <2>1 DEF Connect
  <2> QED BY <2>2, <2>3, SendInv DEF IInv, Connect
<1> QED BY <1>8, <1>9, StepInv DEF IInv

(* A connection is dialled, or a channel opens.                            *)
LEMMA OnConnectionIInv ==
    ASSUME IInv, NEW c \in Clients,
           \/ \E d \in Dials : OnConnection(c, d)
           \/ \E w \in Upgrades : OnOpen(c, w)
    PROVE  IInv'
BY DialIsLink, UpgradesAreLinks, ConnectIInv DEF OnConnection, OnOpen

(* A connection that has ended is removed (onClose).                       *)
LEMMA OnCloseIInv ==
    ASSUME IInv, NEW c \in Clients, NEW l \in Links, OnClose(c, l)
    PROVE  IInv'
<1>1. PICK s : s = peers[c]
  OBVIOUS
<1>2. s \in PeerRecord /\ Own(c, s) /\ LeadsBack(s) /\ s.gone \subseteq ended /\ l \in s.challenges /\ l \in ended
  BY <1>1 DEF IInv, PeersInv, PeerInv, OnClose
<1>3. PICK t : t = [s EXCEPT !.gone = @ \cup {l}]
  OBVIOUS
<1>4. t \in PeerRecord
  BY <1>2, <1>3 DEF PeerRecord
<1>5. /\ t.openConnections = s.openConnections /\ t.challenges = s.challenges
      /\ t.closed = s.closed /\ t.gone = s.gone \cup {l}
      /\ t.profiles = s.profiles /\ t.profileOf = s.profileOf
      /\ t.senderTransport = s.senderTransport
      /\ t.offering = s.offering /\ t.answering = s.answering
  BY <1>2, <1>3 DEF PeerRecord
<1>6. PeerInv(c, t)
  BY <1>2, <1>4, <1>5 DEF PeerInv, Own, LeadsBack
<1>7. PICK u : u = IF l.type = "WEBRTC" THEN RemoveConnection(t, l) ELSE Close(t, l)
  OBVIOUS
<1>8. PeerInv(c, u) /\ Same(t, u)
  BY <1>2, <1>5, <1>6, <1>7, RemoveConnectionInv, CloseInv
<1>9. u.gone \subseteq ended
  BY <1>2, <1>5, <1>8 DEF Same
<1>10. Become(c, u)
  BY <1>1, <1>3, <1>7 DEF OnClose
<1>11. WiresInv(wires') /\ UNCHANGED negotiated
  <2>1. c \in l.ends
    BY <1>2 DEF Own
  <2>2. PICK f : f = [wires[l] EXCEPT ![c] = <<>>]
    OBVIOUS
  <2>3. f \in [l.ends -> Seq(Messages)]
    BY <2>1, <2>2 DEF IInv, WiresInv
  <2>4. wires' = [wires EXCEPT ![l] = f]
    BY <2>2 DEF OnClose, IInv, WiresInv
  <2> QED BY <2>3, <2>4 DEF IInv, WiresInv, OnClose
<1> QED BY <1>8, <1>9, <1>10, <1>11, StepInv DEF IInv

(* A client leaves (disconnectFromPeers).                                  *)
LEMMA LeaveIInv ==
    ASSUME IInv, NEW c \in Clients, Leave(c)
    PROVE  IInv'
<1>1. PeerInv(c, peers[c]) /\ peers[c].gone \subseteq ended
  BY DEF IInv, PeersInv
<1>2. PICK s : s = DisconnectAll(peers[c])
  OBVIOUS
<1>3. PeerInv(c, s) /\ s.gone \subseteq ended
  BY <1>1, <1>2, DisconnectAllInv
<1>4. Become(c, s) /\ WiresInv(wires') /\ UNCHANGED negotiated
  BY <1>2 DEF Leave, IInv
<1> QED BY <1>3, <1>4, StepInv DEF IInv

(* A connection breaks.                                                    *)
LEMMA BreakIInv ==
    ASSUME IInv, NEW l \in Links, Break(l)
    PROVE  IInv'
<1>1. ended' = ended \cup {l} /\ UNCHANGED <<peers, wires, negotiated>>
  BY DEF Break
<1>2. PeersInv'
  BY <1>1 DEF IInv, PeersInv
<1> QED BY <1>1, <1>2 DEF IInv

-----------------------------------------------------------------------------
(* Messages.                                                               *)

(* A message that arrives is noted, with the transport it came over.       *)
LEMMA ReceivedInv ==
    ASSUME IInv, NEW c \in Clients, NEW l \in peers[c].challenges
    PROVE  /\ PeerInv(c, Received(c, l)) /\ SameLinks(peers[c], Received(c, l))
           /\ Received(c, l).gone \subseteq ended
           /\ Received(c, l).signing = peers[c].signing
           /\ Received(c, l).answering = peers[c].answering
           /\ Received(c, l).senderTransport = l
<1>1. PICK s : s = peers[c]
  OBVIOUS
<1>2. s \in PeerRecord /\ Own(c, s) /\ PeerInv(c, s) /\ s.gone \subseteq ended /\ l \in Links
  BY <1>1 DEF IInv, PeersInv, PeerInv, Own
<1>3. PICK t : t = [s EXCEPT !.senderTransport = l]
  OBVIOUS
<1>4. t \in PeerRecord /\ SameLinks(s, t)
  BY <1>2, <1>3 DEF PeerRecord, SameLinks
<1>5. t.senderTransport = l /\ t.offering = s.offering /\ t.answering = s.answering /\ t.signing = s.signing
  BY <1>2, <1>3 DEF PeerRecord
<1>6. PeerInv(c, t)
  BY <1>1, <1>2, <1>4, <1>5, SameLinksInv DEF Own
<1>7. Received(c, l) = t
  BY <1>1, <1>3 DEF Received
<1> QED BY <1>1, <1>2, <1>4, <1>5, <1>6, <1>7 DEF SameLinks

(* A challenge arrives, to be signed.                                      *)
LEMMA OnRequestIInv ==
    ASSUME IInv, NEW c \in Clients, NEW l \in Links, OnInitHandshakeRequest(c, l)
    PROVE  IInv'
<1>1. Deliverable(c, l, "request") /\ wires' = Consumed(c, l) /\ UNCHANGED negotiated
  BY DEF OnInitHandshakeRequest
<1>2. PICK m \in Messages : m = Head(wires[l][c]) /\ m.kind = "request"
  BY <1>1, ConsumedInv DEF IInv
<1>3. m.challenge \in Challenges
  BY <1>2, SentKinds
<1>4. l \in peers[c].challenges /\ WiresInv(wires')
  BY <1>1, ConsumedInv DEF IInv
<1>5. PICK s : s = Received(c, l)
  OBVIOUS
<1>6. PeerInv(c, s) /\ s.gone \subseteq ended /\ s \in PeerRecord /\ Own(c, s)
  BY <1>4, <1>5, ReceivedInv DEF PeerInv
<1>7. PICK t : t = [s EXCEPT !.signing = @ \cup {m.challenge}]
  OBVIOUS
<1>8. t \in PeerRecord /\ SameLinks(s, t)
  BY <1>3, <1>6, <1>7 DEF PeerRecord, SameLinks
<1>9. t.senderTransport = s.senderTransport /\ t.offering = s.offering /\ t.answering = s.answering
  BY <1>6, <1>7 DEF PeerRecord
<1>10. PeerInv(c, t)
  BY <1>6, <1>8, <1>9, SameLinksInv DEF Own
<1>11. Become(c, s) \/ Become(c, t)
  BY <1>2, <1>5, <1>7 DEF OnInitHandshakeRequest
<1> QED BY <1>1, <1>4, <1>6, <1>8, <1>10, <1>11, StepInv DEF IInv, SameLinks

(* The signature goes to whoever sent the last message.                    *)
LEMMA AnswerHandshakeIInv ==
    ASSUME IInv, NEW c \in Clients, NEW challenge, AnswerHandshake(c, challenge)
    PROVE  IInv'
<1>1. PICK s : s = peers[c]
  OBVIOUS
<1>2. s \in PeerRecord /\ Own(c, s) /\ PeerInv(c, s) /\ s.gone \subseteq ended
  BY <1>1 DEF IInv, PeersInv, PeerInv
<1>3. challenge \in Challenges
  BY <1>1, <1>2 DEF AnswerHandshake, PeerRecord
<1>4. PICK t : t = [s EXCEPT !.signing = @ \ {challenge}]
  OBVIOUS
<1>5. t \in PeerRecord /\ SameLinks(s, t)
  BY <1>2, <1>4 DEF PeerRecord, SameLinks
<1>6. t.senderTransport = s.senderTransport /\ t.offering = s.offering /\ t.answering = s.answering
  BY <1>2, <1>4 DEF PeerRecord
<1>7. PeerInv(c, t)
  BY <1>2, <1>5, <1>6, SameLinksInv DEF Own
<1>8. PICK m : m = [kind |-> "response", signed |-> challenge, preferred |-> c \in Preferred]
  OBVIOUS
<1>9. m \in Messages
  BY <1>3, <1>8 DEF Messages
<1>10. PICK l \in Links \cup {NoLink} : l = s.senderTransport
  BY <1>2 DEF PeerRecord
<1>11. l \in Links => c \in l.ends
  BY <1>2, <1>10, NoLinkIsNone DEF Own
<1>12. wires' = Send(l, c, m)
  BY <1>1, <1>8, <1>10 DEF AnswerHandshake
<1>13. Become(c, t) /\ UNCHANGED negotiated
  BY <1>1, <1>4 DEF AnswerHandshake
<1>14. WiresInv(wires')
  BY <1>9, <1>11, <1>12, SendInv DEF IInv
<1> QED BY <1>2, <1>5, <1>7, <1>13, <1>14, StepInv DEF IInv, SameLinks

(* An answer is refused, or introduces the peer, or also starts an         *)
(* upgrade.                                                                *)
LEMMA OnResponseIInv ==
    ASSUME IInv, NEW c \in Clients, NEW l \in Links, OnInitHandshakeResponse(c, l)
    PROVE  IInv'
<1>1. Deliverable(c, l, "response") /\ wires' = Consumed(c, l) /\ UNCHANGED negotiated
  BY DEF OnInitHandshakeResponse
<1>2. PICK m \in Messages : m = Head(wires[l][c]) /\ m.kind = "response"
  BY <1>1, ConsumedInv DEF IInv
<1>3. l \in peers[c].challenges /\ c \in l.ends /\ WiresInv(wires')
  BY <1>1, ConsumedInv DEF IInv
<1>4. PICK a : a = Recovered(Peer(c, l), m.signed, Challenge(c, l))
  OBVIOUS
<1>5. a \in Addresses
  <2>1. Peer(c, l) \in Clients /\ m.signed \in Challenges /\ Challenge(c, l) \in Challenges
    BY <1>2, <1>3, SentKinds, PeerIsEnd DEF Challenge, Challenges
  <2> QED BY <1>4, <2>1 DEF Recovered, Addresses
<1>6. PICK s : s = Received(c, l)
  OBVIOUS
<1>7. PeerInv(c, s) /\ s.gone \subseteq ended /\ l \in s.challenges
  BY <1>3, <1>6, ReceivedInv DEF SameLinks
<1>8. PICK r : r = Refuse(s, l)
  OBVIOUS
<1>9. PeerInv(c, r) /\ r.gone \subseteq ended
  BY <1>7, <1>8, RemoveConnectionInv DEF Refuse, Same
<1>10. PICK known : known = Introduce(s, a, l)
  OBVIOUS
<1>11. PeerInv(c, known) /\ known.gone \subseteq ended /\ l \in known.challenges
  BY <1>5, <1>7, <1>10, IntroduceInv
<1>12. PICK i : i = s.initiated + 1
  OBVIOUS
<1>13. PICK o : o = <<l, Upgrade(l, c, i)>>
  OBVIOUS
<1>14. PICK upgrading : upgrading = [known EXCEPT !.initiated = i, !.offering = @ \cup {o}]
  OBVIOUS
<1>15. ASSUME l.type # "WEBRTC", i <= MaxUpgrades[c]
       PROVE  PeerInv(c, upgrading) /\ upgrading.gone \subseteq ended
  <2>1. known \in PeerRecord /\ Own(c, known) /\ i \in Nat /\ i >= 1
    BY <1>7, <1>11, <1>12 DEF PeerInv, PeerRecord
  <2>2. i \in 1..MaxUpgrades[c]
    BY <1>15, <2>1, <1>3, LinkEnds, BoundsAssumption
  <2>3. Upgrade(l, c, i) \in Upgrades
    BY <1>3, <1>15, <2>2, DialledUpgrades
  <2>4. o \in Links \X Upgrades /\ o[1] = l
    BY <1>13, <2>3
  <2>5. upgrading \in PeerRecord /\ SameLinks(known, upgrading)
    BY <1>14, <2>1, <2>4 DEF PeerRecord, SameLinks
  <2>6. /\ upgrading.senderTransport = known.senderTransport
        /\ upgrading.offering = known.offering \cup {o}
        /\ upgrading.answering = known.answering
    BY <1>14, <2>1 DEF PeerRecord
  <2>7. PeerInv(c, upgrading)
    BY <1>11, <2>1, <2>4, <2>5, <2>6, SameLinksInv DEF Own
  <2> QED BY <1>11, <2>5, <2>7 DEF SameLinks
<1>16. \/ Become(c, r) \/ Become(c, known)
       \/ l.type # "WEBRTC" /\ i <= MaxUpgrades[c] /\ Become(c, upgrading)
  BY <1>2, <1>4, <1>6, <1>8, <1>10, <1>12, <1>13, <1>14 DEF OnInitHandshakeResponse, Initiates
<1> QED BY <1>1, <1>3, <1>9, <1>11, <1>15, <1>16, StepInv DEF IInv

(* An offer is sent, and its connection is remembered for the peer.        *)
LEMMA SendOfferIInv ==
    ASSUME IInv, NEW c \in Clients, NEW l \in Links, NEW w \in Upgrades, SendOffer(c, l, w)
    PROVE  IInv'
<1>1. PICK o : o = peers[c]
  OBVIOUS
<1>2. o \in PeerRecord /\ Own(c, o) /\ PeerInv(c, o) /\ o.gone \subseteq ended
  BY <1>1 DEF IInv, PeersInv, PeerInv
<1>3. <<l, w>> \in o.offering
  BY <1>1 DEF SendOffer
<1>4. l \in o.challenges /\ c \in l.ends
  BY <1>2, <1>3 DEF Own
<1>5. PICK s : s = [o EXCEPT !.offering = @ \ {<<l, w>>}, !.candidates = @ \cup {w}]
  OBVIOUS
<1>6. s \in PeerRecord /\ SameLinks(o, s)
  BY <1>2, <1>5 DEF PeerRecord, SameLinks
<1>7. s.senderTransport = o.senderTransport /\ s.offering = o.offering \ {<<l, w>>} /\ s.answering = o.answering
  BY <1>2, <1>5 DEF PeerRecord
<1>8. PeerInv(c, s) /\ s.gone \subseteq ended /\ Own(c, s)
  <2>1. PeerInv(c, s)
    BY <1>2, <1>6, <1>7, SameLinksInv DEF Own
  <2> QED BY <1>2, <1>6, <2>1 DEF SameLinks, PeerInv
<1>9. PICK a : a = s.profileOf[l]
  OBVIOUS
<1>10. a \in Addresses \cup {NoAddress}
  BY <1>6, <1>9 DEF PeerRecord
<1>11. UNCHANGED negotiated
  BY DEF SendOffer
<1>12. CASE a = NoAddress
  <2>1. Become(c, s) /\ UNCHANGED wires
    BY <1>1, <1>5, <1>9, <1>12 DEF SendOffer
  <2> QED BY <1>8, <1>11, <2>1, StepInv DEF IInv
<1>13. CASE a # NoAddress
  <2>1. PICK m : m = Put(s.connectionMap, a, w)
    OBVIOUS
  <2>2. m \in Known(Upgrades)
    BY <1>6, <1>10, <1>13, <2>1, KnownPut DEF PeerRecord
  <2>3. PICK t : t = [s EXCEPT !.connectionMap = m, !.unanswered = @ \cup {w}]
    OBVIOUS
  <2>4. t \in PeerRecord /\ SameLinks(s, t)
    BY <1>6, <2>2, <2>3 DEF PeerRecord, SameLinks
  <2>5. t.senderTransport = s.senderTransport /\ t.offering = s.offering /\ t.answering = s.answering
    BY <1>6, <2>3 DEF PeerRecord
  <2>6. PeerInv(c, t)
    BY <1>8, <2>4, <2>5, SameLinksInv DEF Own
  <2>7. PICK message : message = [kind |-> "offer", connection |-> w]
    OBVIOUS
  <2>8. message \in Messages
    BY <2>7 DEF Messages
  <2>9. wires' = Send(l, c, message)
    BY <1>1, <1>5, <1>9, <1>13, <2>7 DEF SendOffer
  <2>10. Become(c, t)
    BY <1>1, <1>5, <1>9, <1>13, <2>1, <2>3 DEF SendOffer
  <2>11. WiresInv(wires')
    BY <1>4, <2>8, <2>9, SendInv DEF IInv
  <2> QED BY <1>8, <1>11, <2>4, <2>6, <2>10, <2>11, StepInv DEF IInv, SameLinks
<1> QED BY <1>12, <1>13

(* An offer arrives, to be answered.                                       *)
LEMMA OnOfferIInv ==
    ASSUME IInv, NEW c \in Clients, NEW l \in Links, OnOfferWebRTC(c, l)
    PROVE  IInv'
<1>1. Deliverable(c, l, "offer") /\ wires' = Consumed(c, l) /\ UNCHANGED negotiated
  BY DEF OnOfferWebRTC
<1>2. PICK m \in Messages : m = Head(wires[l][c]) /\ m.kind = "offer"
  BY <1>1, ConsumedInv DEF IInv
<1>3. PICK w \in Upgrades : w = m.connection
  BY <1>2, SentKinds
<1>4. l \in peers[c].challenges /\ WiresInv(wires')
  BY <1>1, ConsumedInv DEF IInv
<1>5. PICK s : s = Received(c, l)
  OBVIOUS
<1>6. PeerInv(c, s) /\ s.gone \subseteq ended /\ s \in PeerRecord /\ Own(c, s) /\ l \in s.challenges
  BY <1>4, <1>5, ReceivedInv DEF PeerInv, SameLinks
<1>7. PICK a : a = s.profileOf[l]
  OBVIOUS
<1>8. a \in Addresses \cup {NoAddress}
  BY <1>6, <1>7 DEF PeerRecord
<1>9. CASE a = NoAddress
  <2>1. Become(c, s)
    BY <1>5, <1>7, <1>9 DEF OnOfferWebRTC
  <2> QED BY <1>1, <1>4, <1>6, <2>1, StepInv DEF IInv
<1>10. CASE a # NoAddress
  <2>1. PICK n : n = Put(s.connectionMap, a, w)
    OBVIOUS
  <2>2. n \in Known(Upgrades)
    BY <1>6, <1>8, <1>10, <2>1, KnownPut DEF PeerRecord
  <2>3. PICK answering : answering = s.answering \cup {<<l, w>>}
    OBVIOUS
  <2>4. answering \in SUBSET (Links \X Upgrades)
    BY <1>6, <2>3 DEF PeerRecord
  <2>5. PICK t : t = [s EXCEPT !.connectionMap = n, !.answering = answering]
    OBVIOUS
  <2>6. t \in PeerRecord /\ SameLinks(s, t)
    BY <1>6, <2>2, <2>4, <2>5 DEF PeerRecord, SameLinks
  <2>7. /\ t.senderTransport = s.senderTransport /\ t.offering = s.offering
        /\ t.answering = s.answering \cup {<<l, w>>}
    BY <1>6, <2>3, <2>5 DEF PeerRecord
  <2>8. PeerInv(c, t)
    BY <1>6, <2>6, <2>7, SameLinksInv DEF Own
  <2>9. t = [s EXCEPT !.connectionMap = Put(@, a, w), !.answering = @ \cup {<<l, w>>}]
    BY <1>6, <2>1, <2>3, <2>5 DEF PeerRecord
  <2>10. Become(c, t)
    BY <1>2, <1>3, <1>5, <1>7, <1>10, <2>1, <2>3, <2>5, <2>9 DEF OnOfferWebRTC
  <2> QED BY <1>1, <1>4, <1>6, <2>6, <2>8, <2>10, StepInv DEF IInv, SameLinks
<1> QED BY <1>9, <1>10

(* The answer is sent.                                                     *)
LEMMA SendAnswerIInv ==
    ASSUME IInv, NEW c \in Clients, NEW l \in Links, NEW w \in Upgrades, SendAnswer(c, l, w)
    PROVE  IInv'
<1>1. PICK s : s = peers[c]
  OBVIOUS
<1>2. s \in PeerRecord /\ Own(c, s) /\ PeerInv(c, s) /\ s.gone \subseteq ended
  BY <1>1 DEF IInv, PeersInv, PeerInv
<1>3. <<l, w>> \in s.answering
  BY <1>1 DEF SendAnswer
<1>4. w \in Upgrades /\ l \in s.challenges /\ c \in l.ends
  BY <1>2, <1>3 DEF PeerRecord, Own
<1>5. PICK t : t = [s EXCEPT !.answering = @ \ {<<l, w>>}, !.candidates = @ \cup {w}]
  OBVIOUS
<1>6. t \in PeerRecord /\ SameLinks(s, t)
  BY <1>2, <1>4, <1>5 DEF PeerRecord, SameLinks
<1>7. /\ t.senderTransport = s.senderTransport /\ t.offering = s.offering
      /\ t.answering \subseteq s.answering
  BY <1>2, <1>5 DEF PeerRecord
<1>8. PeerInv(c, t)
  BY <1>2, <1>6, <1>7, SameLinksInv DEF Own
<1>9. PICK m : m = [kind |-> "answer", connection |-> w]
  OBVIOUS
<1>10. m \in Messages
  BY <1>4, <1>9 DEF Messages
<1>11. Become(c, t) /\ wires' = Send(l, c, m) /\ UNCHANGED negotiated
  BY <1>1, <1>5, <1>9 DEF SendAnswer
<1>12. WiresInv(wires')
  BY <1>4, <1>10, <1>11, SendInv DEF IInv
<1> QED BY <1>2, <1>6, <1>8, <1>11, <1>12, StepInv DEF IInv, SameLinks

(* An answer completes the negotiation of its connection.                  *)
LEMMA OnAnswerIInv ==
    ASSUME IInv, NEW c \in Clients, NEW l \in Links, OnAnswerWebRTC(c, l)
    PROVE  IInv'
<1>1. Deliverable(c, l, "answer") /\ wires' = Consumed(c, l)
  BY DEF OnAnswerWebRTC
<1>2. l \in peers[c].challenges /\ WiresInv(wires')
  BY <1>1, ConsumedInv DEF IInv
<1>3. PICK s : s = Received(c, l)
  OBVIOUS
<1>4. PeerInv(c, s) /\ s.gone \subseteq ended /\ s \in PeerRecord /\ Own(c, s)
  BY <1>2, <1>3, ReceivedInv DEF PeerInv
<1>5. PICK offered : offered = {w \in s.unanswered : /\ s.profileOf[l] \in DOMAIN s.connectionMap
                                                     /\ s.connectionMap[s.profileOf[l]] = w}
  OBVIOUS
<1>6. PICK t : t = [s EXCEPT !.unanswered = @ \ offered]
  OBVIOUS
<1>7. t \in PeerRecord /\ SameLinks(s, t)
  BY <1>4, <1>6 DEF PeerRecord, SameLinks
<1>8. t.senderTransport = s.senderTransport /\ t.offering = s.offering /\ t.answering = s.answering
  BY <1>4, <1>6 DEF PeerRecord
<1>9. PeerInv(c, t)
  BY <1>4, <1>7, <1>8, SameLinksInv DEF Own
<1>10. Become(c, t)
  BY <1>3, <1>5, <1>6 DEF OnAnswerWebRTC
<1>11. negotiated' \subseteq negotiated \cup s.unanswered
  BY <1>3 DEF OnAnswerWebRTC
<1>12. negotiated' \subseteq Upgrades
  BY <1>4, <1>11 DEF IInv, PeerRecord
<1> QED BY <1>2, <1>4, <1>7, <1>9, <1>10, <1>12, StepInv DEF SameLinks

(* A candidate goes to whoever sent the last message.                      *)
LEMMA SendIceCandidateIInv ==
    ASSUME IInv, NEW c \in Clients, NEW w \in Upgrades, SendIceCandidate(c, w)
    PROVE  IInv'
<1>1. PICK s : s = peers[c]
  OBVIOUS
<1>2. s \in PeerRecord /\ Own(c, s) /\ PeerInv(c, s) /\ s.gone \subseteq ended
  BY <1>1 DEF IInv, PeersInv, PeerInv
<1>3. w \in Upgrades
  BY <1>1, <1>2 DEF SendIceCandidate, PeerRecord
<1>4. PICK t : t = [s EXCEPT !.candidates = @ \ {w}]
  OBVIOUS
<1>5. t \in PeerRecord /\ SameLinks(s, t)
  BY <1>2, <1>4 DEF PeerRecord, SameLinks
<1>6. t.senderTransport = s.senderTransport /\ t.offering = s.offering /\ t.answering = s.answering
  BY <1>2, <1>4 DEF PeerRecord
<1>7. PeerInv(c, t)
  BY <1>2, <1>5, <1>6, SameLinksInv DEF Own
<1>8. PICK m : m = [kind |-> "candidate", connection |-> w]
  OBVIOUS
<1>9. m \in Messages
  BY <1>3, <1>8 DEF Messages
<1>10. PICK l \in Links \cup {NoLink} : l = s.senderTransport
  BY <1>2 DEF PeerRecord
<1>11. l \in Links => c \in l.ends
  BY <1>2, <1>10, NoLinkIsNone DEF Own
<1>12. wires' = Send(l, c, m) /\ Become(c, t) /\ UNCHANGED negotiated
  BY <1>1, <1>4, <1>8, <1>10 DEF SendIceCandidate
<1>13. WiresInv(wires')
  BY <1>9, <1>11, <1>12, SendInv DEF IInv
<1> QED BY <1>2, <1>5, <1>7, <1>12, <1>13, StepInv DEF IInv, SameLinks

(* A candidate arrives.                                                    *)
LEMMA OnIceCandidateIInv ==
    ASSUME IInv, NEW c \in Clients, NEW l \in Links, OnIceCandidate(c, l)
    PROVE  IInv'
<1>1. /\ Deliverable(c, l, "candidate") /\ wires' = Consumed(c, l)
      /\ Become(c, Received(c, l)) /\ UNCHANGED negotiated
  BY DEF OnIceCandidate
<1>2. l \in peers[c].challenges /\ WiresInv(wires')
  BY <1>1, ConsumedInv DEF IInv
<1>3. PeerInv(c, Received(c, l)) /\ Received(c, l).gone \subseteq ended
  BY <1>2, ReceivedInv
<1> QED BY <1>1, <1>2, <1>3, StepInv DEF IInv

-----------------------------------------------------------------------------
(* All together.                                                           *)

(* The invariant holds at first.                                           *)
LEMMA InitIInv == Init => IInv
<1> SUFFICES ASSUME Init PROVE IInv
  OBVIOUS
<1>1. ASSUME NEW c \in Clients, NEW V
      PROVE  <<>> \in Known(V)
  <2>1. {} \in SUBSET Addresses /\ <<>> \in [{} -> V]
    OBVIOUS
  <2> QED BY <2>1, KnownIntro
<1>2. ASSUME NEW c \in Clients
      PROVE  PeerInv(c, peers[c]) /\ peers[c].closed = {} /\ peers[c].gone = {}
  <2>1. PICK p : p = [l \in Links |-> NoAddress]
    OBVIOUS
  <2>2. PICK s : s =
          [ openConnections |-> {}, senderTransport |-> NoLink, closed |-> {}, gone |-> {},
            challenges |-> {}, profileOf |-> p, profiles |-> <<>>,
            signing |-> {}, initiated |-> 0, offering |-> {}, unanswered |-> {},
            answering |-> {}, candidates |-> {}, connectionMap |-> <<>> ]
    OBVIOUS
  <2>3. peers[c] = s
    BY <2>1, <2>2 DEF Init
  <2>4. s \in PeerRecord
    BY <1>1, <2>1, <2>2 DEF PeerRecord
  <2>5. Own(c, s)
    BY <2>2 DEF Own
  <2>6. LeadsBack(s)
    BY <2>1, <2>2 DEF LeadsBack
  <2> QED BY <2>2, <2>3, <2>4, <2>5, <2>6 DEF PeerInv
<1>3. PeersInv
  BY <1>2 DEF Init, PeersInv
<1>4. WiresInv(wires)
  BY DEF Init, WiresInv
<1> QED BY <1>3, <1>4 DEF Init, IInv

(* No step of the system breaks the invariant.                             *)
LEMMA NextIInv == IInv /\ [Next]_vars => IInv'
<1> SUFFICES ASSUME IInv, [Next]_vars PROVE IInv'
  OBVIOUS
<1>1. CASE UNCHANGED vars
  BY <1>1 DEF vars, IInv, PeersInv
<1>2. ASSUME NEW c \in Clients,
             \/ \E d \in Dials : OnConnection(c, d)
             \/ \E w \in Upgrades : OnOpen(c, w)
      PROVE  IInv'
  BY <1>2, OnConnectionIInv
<1>3. ASSUME NEW c \in Clients, NEW l \in Links, OnClose(c, l) \/ Receive(c, l)
      PROVE  IInv'
  BY <1>3, OnCloseIInv, OnRequestIInv, OnResponseIInv, OnOfferIInv, OnAnswerIInv,
     OnIceCandidateIInv DEF Receive
<1>4. ASSUME NEW c \in Clients, Resume(c)
      PROVE  IInv'
  <2>1. peers[c] \in PeerRecord
    BY DEF IInv, PeersInv, PeerInv
  <2>2. CASE \E challenge \in peers[c].signing : AnswerHandshake(c, challenge)
    BY <2>2, AnswerHandshakeIInv
  <2>3. CASE \E p \in peers[c].offering : SendOffer(c, p[1], p[2])
    BY <2>1, <2>3, SendOfferIInv DEF PeerRecord
  <2>4. CASE \E p \in peers[c].answering : SendAnswer(c, p[1], p[2])
    BY <2>1, <2>4, SendAnswerIInv DEF PeerRecord
  <2>5. CASE \E w \in peers[c].candidates : SendIceCandidate(c, w)
    BY <2>1, <2>5, SendIceCandidateIInv DEF PeerRecord
  <2> QED BY <1>4, <2>2, <2>3, <2>4, <2>5 DEF Resume
<1>5. ASSUME NEW c \in Clients, Leave(c)
      PROVE  IInv'
  BY <1>5, LeaveIInv
<1>6. ASSUME NEW l \in Links, Break(l)
      PROVE  IInv'
  BY <1>6, BreakIInv
<1> QED BY <1>1, <1>2, <1>3, <1>4, <1>5, <1>6 DEF Next

(* The invariant holds in every state.                                     *)
THEOREM Invariance == Spec => []IInv
BY InitIInv, NextIInv, PTL DEF Spec

(* The state has the shape TypeOK describes.                               *)
THEOREM TypeOKHolds == Spec => []TypeOK
<1>1. ASSUME IInv PROVE TypeOK
  <2>1. ASSUME NEW c \in Clients
        PROVE  LET s == peers[c]
               IN  /\ s.openConnections \cup s.closed \cup s.gone \subseteq s.challenges
                   /\ s.challenges \subseteq {l \in Links : c \in l.ends}
                   /\ s.closed \subseteq ended /\ s.gone \subseteq ended
                   /\ s.senderTransport \in s.challenges \cup {NoLink}
                   /\ \A l \in Links : s.profileOf[l] \in Addresses \cup {NoAddress}
                   /\ DOMAIN s.profiles \cup DOMAIN s.connectionMap \subseteq Addresses
                   /\ Range(s.profiles) \subseteq s.challenges
                   /\ Range(s.connectionMap) \cup s.unanswered \cup s.candidates \subseteq Upgrades
                   /\ s.offering \cup s.answering \subseteq s.challenges \X Upgrades
                   /\ s.initiated \in Nat
                   /\ s.signing \subseteq Challenges
    <3>1. PICK s : s = peers[c]
      OBVIOUS
    <3>2. s \in PeerRecord /\ Own(c, s) /\ s.closed \subseteq ended /\ s.gone \subseteq ended
      BY <1>1, <3>1 DEF IInv, PeersInv, PeerInv
    <3>3. s.profiles \in Known(Links) /\ s.connectionMap \in Known(Upgrades)
      BY <3>2 DEF PeerRecord
    <3>4. DOMAIN s.profiles \cup DOMAIN s.connectionMap \subseteq Addresses
      BY <3>3, KnownDef
    <3>5. Range(s.connectionMap) \subseteq Upgrades
      BY <3>3, KnownDef DEF Range
    <3>6. Range(s.profiles) \subseteq s.challenges
      BY <3>2 DEF Range, Own
    <3>7. /\ s.unanswered \cup s.candidates \subseteq Upgrades
          /\ s.initiated \in Nat /\ s.signing \subseteq Challenges
      BY <3>2 DEF PeerRecord
    <3>9. s.offering \cup s.answering \subseteq s.challenges \X Upgrades
      BY <3>2 DEF PeerRecord, Own
    <3>8. \A l \in Links : s.profileOf[l] \in Addresses \cup {NoAddress}
      BY <3>2 DEF PeerRecord
    <3> QED BY <3>1, <3>2, <3>4, <3>5, <3>6, <3>7, <3>8, <3>9 DEF Own
  <2>2. ASSUME NEW l \in Links, NEW c \in l.ends
        PROVE  Range(wires[l][c]) \subseteq Messages
    <3>1. PICK q \in Seq(Messages) : q = wires[l][c]
      BY <1>1 DEF IInv, WiresInv
    <3>2. Range(q) \subseteq Messages
      BY <3>1 DEF Range
    <3> QED BY <3>1, <3>2
  <2> QED BY <1>1, <2>1, <2>2 DEF TypeOK, IInv, PeersInv
<1> QED BY <1>1, Invariance, PTL

(* A message received over a connection is taken for the right peer's, and *)
(* what is sent to that peer goes over this connection, whatever was       *)
(* introduced, upgraded, refused or closed in which order                  *)
(* (ProfileManager).                                                       *)
THEOREM OneTransportPerPeerHolds == Spec => []OneTransportPerPeer
<1>1. IInv => OneTransportPerPeer
  BY DEF IInv, PeersInv, PeerInv, LeadsBack, OneTransportPerPeer
<1> QED BY <1>1, Invariance, PTL

=============================================================================
