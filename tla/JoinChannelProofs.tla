-------------------------- MODULE JoinChannelProofs --------------------------
(***************************************************************************)
(* Proofs about JoinChannel: the shape of its state, and that it keeps its *)
(* promises for every number of clients, requests and participants.        *)
(***************************************************************************)
EXTENDS JoinChannel, TLAPS

-----------------------------------------------------------------------------
(* What the operators on bags and maps do.                                 *)

(* What is in a bag that one element was put into.                         *)
LEMMA PutDomain ==
    ASSUME NEW B, NEW x
    PROVE  BagToSet(B (+) SetToBag({x})) = BagToSet(B) \cup {x}
BY DEF BagToSet, (+), SetToBag

(* What is in a bag that something was taken out of was there before.      *)
LEMMA TakenDomain ==
    ASSUME NEW B, NEW C
    PROVE  BagToSet(B (-) C) \subseteq BagToSet(B)
BY DEF BagToSet, (-)

(* Nothing is in the empty bag.                                            *)
LEMMA EmptyDomain == BagToSet(EmptyBag) = {}
BY DEF BagToSet, EmptyBag, SetToBag

(* TryInsert adds at most the key and the entry.                           *)
LEMMA InsertKeys ==
    ASSUME NEW map, NEW key, NEW entry
    PROVE  DOMAIN TryInsert(map, key, entry) = DOMAIN map \cup {key}
BY DEF TryInsert, Has

(* What is under a key afterwards was there before, or is the entry.       *)
LEMMA InsertEntries ==
    ASSUME NEW map, NEW key, NEW entry, NEW k \in DOMAIN map \cup {key},
           NEW e \in TryInsert(map, key, entry)[k]
    PROVE  (k \in DOMAIN map /\ e \in map[k]) \/ (k = key /\ e = entry)
<1>1. CASE ~Has(map, key)
  BY <1>1 DEF TryInsert, Has
<1>2. CASE Has(map, key) /\ entry.signerAddress \in SignersOf(map[key])
  BY <1>2 DEF TryInsert, Has
<1>3. CASE Has(map, key) /\ entry.signerAddress \notin SignersOf(map[key])
  <2>1. TryInsert(map, key, entry) = [map EXCEPT ![key] = @ \cup {entry}]
    BY <1>3 DEF TryInsert
  <2>2. CASE k = key
    BY <1>3, <2>1, <2>2 DEF Has
  <2>3. CASE k # key
    BY <2>1, <2>3
  <2> QED BY <2>2, <2>3
<1> QED BY <1>1, <1>2, <1>3

(* Delete takes out the key and leaves the others.                         *)
LEMMA DeleteKeys ==
    ASSUME NEW map, NEW key
    PROVE  DOMAIN Delete(map, key) = DOMAIN map \ {key}
BY DEF Delete, Restrict

(* What is under another key stays.                                        *)
LEMMA DeleteKeeps ==
    ASSUME NEW map, NEW key, NEW k \in DOMAIN map, k # key
    PROVE  Delete(map, key)[k] = map[k]
BY DEF Delete, Restrict

-----------------------------------------------------------------------------
(* The inductive invariant.                                                *)

Call == [kind : {"sign", "confirm"}, message : Message]

(* Nobody is handed its own confirmation, and a call that confirms has a   *)
(* confirmation.                                                           *)
CallInv(c, call) ==
    /\ call \in Call
    /\ call.message.confirmation.signer # c
    /\ call.kind = "confirm" => call.message.confirmation # NoSignature

MessageInv(c, message) == message \in Message /\ message.confirmation.signer # c

(* A signature is filed under the address of its signer, or of who wants   *)
(* to join.                                                                *)
EntryInv(c, jc, e) ==
    /\ e \in Entry
    /\ \/ e.signerAddress = jc.participant
       \/ e.signerAddress = RetrieveSignerAddress(jc, e.signature)
    /\ e.signature.signer = c => timers[c][jc] > 0

MapInv(c) ==
    /\ DOMAIN joinChannelMap[c] \subseteq JoinChannels
    /\ \A jc \in DOMAIN joinChannelMap[c] : \A e \in joinChannelMap[c][jc] : EntryInv(c, jc, e)

Shapes ==
    /\ DOMAIN joinChannelMap = Clients
    /\ joinChannelQueue = [c \in Clients |-> joinChannelQueue[c]]
    /\ DOMAIN calls = Clients /\ DOMAIN wires = Clients
    /\ timers \in [Clients -> [JoinChannels -> Nat]]
    /\ participants \subseteq Participants
    /\ now \in 0..MaxTime /\ requests \in 0..MaxRequests

Carried ==
    \A c \in Clients : /\ \A m \in BagToSet(wires[c]) : MessageInv(c, m)
                       /\ \A call \in BagToSet(calls[c]) : CallInv(c, call)

Queues == \A c \in Clients : \E S : joinChannelQueue[c] \in Seq(S)

Filed == \A c \in Clients : MapInv(c)

IInv == Shapes /\ Carried /\ Filed /\ Queues

(* The invariant holds at first.                                           *)
LEMMA InitIInv == Init => IInv
<1> SUFFICES ASSUME Init PROVE IInv
  OBVIOUS
<1>1. Shapes
  BY BoundsAssumption DEF Init, Shapes
<1>2. Carried
  BY EmptyDomain DEF Init, Carried
<1>3. Filed
  BY DEF Init, Filed, MapInv
<1>4. Queues
  BY DEF Init, Queues
<1> QED BY <1>1, <1>2, <1>3, <1>4 DEF IInv

(* Queues that nobody touches are still sequences, and so is one that grew *)
(* by one.                                                                 *)
LEMMA SameQueues == Queues /\ UNCHANGED joinChannelQueue => Queues'
BY DEF Queues

(* A queue that grew ends in what was put to it.                           *)
LEMMA AppendIsSeq ==
    ASSUME NEW S, NEW q \in Seq(S), NEW x
    PROVE  /\ \E T : Append(q, x) \in Seq(T)
           /\ Last(Append(q, x)) = x
           /\ Append(q, x) # q
<1>1. q \in Seq(S \cup {x}) /\ x \in S \cup {x}
  OBVIOUS
<1>2. Append(q, x) \in Seq(S \cup {x})
  BY <1>1
<1>3. Len(Append(q, x)) = Len(q) + 1 /\ Append(q, x)[Len(q) + 1] = x
  BY <1>1
<1> QED BY <1>2, <1>3 DEF Last

(* A broadcast puts the message to everybody else.                         *)
LEMMA BroadcastCarried ==
    ASSUME NEW c \in Clients, NEW message, Broadcast(c, message),
           \A d \in Clients : \A m \in BagToSet(wires[d]) : MessageInv(d, m),
           \A d \in Clients \ {c} : MessageInv(d, message)
    PROVE  /\ DOMAIN wires' = Clients
           /\ \A d \in Clients : \A m \in BagToSet(wires'[d]) : MessageInv(d, m)
<1>1. DOMAIN wires' = Clients
  BY DEF Broadcast
<1>2. ASSUME NEW d \in Clients, NEW m \in BagToSet(wires'[d])
      PROVE  MessageInv(d, m)
  <2>1. CASE d = c
    BY <1>2, <2>1 DEF Broadcast
  <2>2. CASE d # c
    <3>1. wires'[d] = wires[d] (+) SetToBag({message})
      BY <2>2 DEF Broadcast
    <3>2. BagToSet(wires'[d]) = BagToSet(wires[d]) \cup {message}
      BY <3>1, PutDomain
    <3> QED BY <1>2, <2>2, <3>2
  <2> QED BY <2>1, <2>2
<1> QED BY <1>1, <1>2

(* A call that ends leaves the others.                                     *)
LEMMA EndsCarried ==
    ASSUME NEW c \in Clients, NEW call, Ends(c, call), DOMAIN calls = Clients,
           \A d \in Clients : \A k \in BagToSet(calls[d]) : CallInv(d, k)
    PROVE  /\ DOMAIN calls' = Clients
           /\ \A d \in Clients : \A k \in BagToSet(calls'[d]) : CallInv(d, k)
<1>1. ASSUME NEW d \in Clients
      PROVE  BagToSet(calls'[d]) \subseteq BagToSet(calls[d])
  <2>1. CASE d = c
    <3>1. calls'[d] = calls[d] (-) SetToBag({call})
      BY <2>1 DEF Ends
    <3> QED BY <3>1, TakenDomain
  <2>2. CASE d # c
    BY <2>2 DEF Ends
  <2> QED BY <2>1, <2>2
<1> QED BY <1>1 DEF Ends

(* A call that starts joins the others.                                    *)
LEMMA StartsCarried ==
    ASSUME NEW c \in Clients, NEW kind, NEW message, Starts(c, kind, message),
           DOMAIN calls = Clients, CallInv(c, [kind |-> kind, message |-> message]),
           \A d \in Clients : \A k \in BagToSet(calls[d]) : CallInv(d, k)
    PROVE  /\ DOMAIN calls' = Clients
           /\ \A d \in Clients : \A k \in BagToSet(calls'[d]) : CallInv(d, k)
<1>1. ASSUME NEW d \in Clients, NEW k \in BagToSet(calls'[d])
      PROVE  CallInv(d, k)
  <2>1. CASE d = c
    <3>1. calls'[d] = calls[d] (+) SetToBag({[kind |-> kind, message |-> message]})
      BY <2>1 DEF Starts
    <3>2. BagToSet(calls'[d]) = BagToSet(calls[d]) \cup {[kind |-> kind, message |-> message]}
      BY <3>1, PutDomain
    <3> QED BY <1>1, <2>1, <3>2
  <2>2. CASE d # c
    BY <1>1, <2>2 DEF Starts
  <2> QED BY <2>1, <2>2
<1> QED BY <1>1 DEF Starts

(* What is filed stays right as long as no timer runs out.                 *)
LEMMA SameFiles ==
    ASSUME Filed, UNCHANGED <<joinChannelMap, timers>>
    PROVE  Filed'
BY DEF Filed, MapInv, EntryInv

(* A message that arrives becomes a call (Receive): the call has what the  *)
(* message had.                                                            *)
LEMMA ReceiveIInv ==
    ASSUME IInv, NEW c \in Clients, Receive(c)
    PROVE  IInv'
<1> USE DEF IInv
<1>1. PICK message \in BagToSet(wires[c]) :
          /\ wires' = [wires EXCEPT ![c] = @ (-) SetToBag({message})]
          /\ \/ MaySign(c, message) /\ Starts(c, "sign", message)
             \/ MayConfirm(c, message) /\ Starts(c, "confirm", message)
             \/ ~MaySign(c, message) /\ ~MayConfirm(c, message) /\ UNCHANGED calls
          /\ UNCHANGED <<joinChannelMap, joinChannelQueue, participants, timers, now, requests>>
  BY DEF Receive
<1>2. MessageInv(c, message)
  BY <1>1 DEF Carried
<1>3. /\ DOMAIN calls' = Clients
      /\ \A d \in Clients : \A k \in BagToSet(calls'[d]) : CallInv(d, k)
  <2>1. CASE MaySign(c, message) /\ Starts(c, "sign", message)
    <3>1. CallInv(c, [kind |-> "sign", message |-> message])
      BY <1>2 DEF CallInv, MessageInv, Call
    <3> QED BY <2>1, <3>1, StartsCarried DEF Carried, Shapes
  <2>2. CASE MayConfirm(c, message) /\ Starts(c, "confirm", message)
    <3>1. CallInv(c, [kind |-> "confirm", message |-> message])
      BY <1>2, <2>2 DEF CallInv, MessageInv, Call, MayConfirm
    <3> QED BY <2>2, <3>1, StartsCarried DEF Carried, Shapes
  <2>3. CASE UNCHANGED calls
    BY <2>3 DEF Carried, Shapes
  <2> QED BY <1>1, <2>1, <2>2, <2>3
<1>4. ASSUME NEW d \in Clients, NEW m \in BagToSet(wires'[d])
      PROVE  MessageInv(d, m)
  <2>1. CASE d = c
    <3>1. wires'[d] = wires[d] (-) SetToBag({message})
      BY <1>1, <2>1 DEF Shapes
    <3> QED BY <1>4, <3>1, TakenDomain DEF Carried
  <2>2. CASE d # c
    BY <1>1, <1>4, <2>2 DEF Shapes, Carried
  <2> QED BY <2>1, <2>2
<1>5. DOMAIN wires' = Clients
  BY <1>1 DEF Shapes
<1>6. Shapes'
  BY <1>1, <1>3, <1>5 DEF Shapes
<1>7. Carried'
  BY <1>3, <1>4 DEF Carried, CallInv, MessageInv
<1>8. Filed' /\ Queues'
  BY <1>1, SameFiles, SameQueues
<1> QED BY <1>6, <1>7, <1>8

(* A client that signs files its signature and sets a timer at once        *)
(* (Signed), and what it passes on carries its confirmation to others      *)
(* only.                                                                   *)
LEMMA SignedIInv ==
    ASSUME IInv, NEW c \in Clients, Signed(c)
    PROVE  IInv'
<1> USE DEF IInv
<1>1. PICK call \in BagToSet(calls[c]) :
          LET jc == call.message.jc
              signature == SignJoinChannel(jc, c)
          IN
          /\ call.kind = "sign"
          /\ Ends(c, call)
          /\ joinChannelMap' = [joinChannelMap EXCEPT ![c] =
                 TryInsert(@, jc, [signerAddress |-> jc.participant, signature |-> signature])]
          /\ Broadcast(c, [call.message EXCEPT !.confirmation = signature])
          /\ PrunesLater(c, jc)
          /\ UNCHANGED <<joinChannelQueue, participants, now, requests>>
  BY DEF Signed
<1>2. PICK jc : jc = call.message.jc
  OBVIOUS
<1>3. PICK signature : signature = SignJoinChannel(jc, c)
  OBVIOUS
<1>4. PICK entry : entry = [signerAddress |-> jc.participant, signature |-> signature]
  OBVIOUS
<1>5. CallInv(c, call)
  BY DEF Carried
<1>6. jc \in JoinChannels /\ jc.participant \in Clients
  BY <1>2, <1>5, JoinChannelsAssumption DEF CallInv, Call, Message, JoinChannel
<1>7. signature \in Signature /\ signature.signer = c
  BY <1>3, <1>6, JoinChannelsAssumption DEF SignJoinChannel, Signature
<1>8. entry \in Entry /\ entry.signerAddress = jc.participant
  BY <1>4, <1>6, <1>7 DEF Entry
<1>9. joinChannelMap' = [joinChannelMap EXCEPT ![c] = TryInsert(@, jc, entry)]
  BY <1>1, <1>2, <1>3, <1>4
<1>10. timers' = [timers EXCEPT ![c][jc] = @ + 1]
  BY <1>1, <1>2 DEF PrunesLater
<1>11. /\ timers' \in [Clients -> [JoinChannels -> Nat]]
       /\ timers'[c][jc] > 0
       /\ \A d \in Clients, k \in JoinChannels : timers'[d][k] >= timers[d][k]
  BY <1>6, <1>10 DEF Shapes
<1>12. /\ DOMAIN calls' = Clients
       /\ \A d \in Clients : \A k \in BagToSet(calls'[d]) : CallInv(d, k)
  BY <1>1, EndsCarried DEF Carried, Shapes
<1>13. /\ DOMAIN wires' = Clients
       /\ \A d \in Clients : \A m \in BagToSet(wires'[d]) : MessageInv(d, m)
  <2>1. PICK message : message = [call.message EXCEPT !.confirmation = signature]
    OBVIOUS
  <2>2. Broadcast(c, message)
    BY <1>1, <1>2, <1>3, <2>1
  <2>3. message \in Message /\ message.confirmation.signer = c
    BY <1>5, <1>7, <2>1 DEF CallInv, Call, Message
  <2>4. \A d \in Clients \ {c} : MessageInv(d, message)
    BY <2>3 DEF MessageInv
  <2> QED BY <2>2, <2>4, BroadcastCarried DEF Carried
<1>14. Shapes'
  BY <1>1, <1>9, <1>11, <1>12, <1>13 DEF Shapes
<1>15. Carried'
  BY <1>12, <1>13 DEF Carried, CallInv, MessageInv
<1>16. ASSUME NEW d \in Clients
       PROVE  MapInv(d)'
  <2>1. CASE d = c
    <3>1. joinChannelMap'[c] = TryInsert(joinChannelMap[c], jc, entry)
      BY <1>9 DEF Shapes
    <3>2. DOMAIN joinChannelMap'[c] = DOMAIN joinChannelMap[c] \cup {jc}
      BY <3>1, InsertKeys
    <3>3. ASSUME NEW k \in DOMAIN joinChannelMap'[c], NEW e \in joinChannelMap'[c][k]
          PROVE  EntryInv(c, k, e)'
      <4>1. (k \in DOMAIN joinChannelMap[c] /\ e \in joinChannelMap[c][k]) \/ (k = jc /\ e = entry)
        BY <3>1, <3>2, <3>3, InsertEntries
      <4>2. CASE k \in DOMAIN joinChannelMap[c] /\ e \in joinChannelMap[c][k]
        <5>1. EntryInv(c, k, e) /\ k \in JoinChannels
          BY <4>2 DEF Filed, MapInv
        <5>2. timers'[c][k] >= timers[c][k] /\ timers[c][k] \in Nat /\ timers'[c][k] \in Nat
          BY <1>11, <5>1 DEF Shapes
        <5> QED BY <5>1, <5>2 DEF EntryInv
      <4>3. CASE k = jc /\ e = entry
        BY <1>8, <1>11, <4>3 DEF EntryInv
      <4> QED BY <4>1, <4>2, <4>3
    <3> QED BY <1>6, <2>1, <3>2, <3>3 DEF MapInv, Filed
  <2>2. CASE d # c
    <3>1. joinChannelMap'[d] = joinChannelMap[d] /\ timers'[d] = timers[d]
      BY <1>9, <1>10, <2>2 DEF Shapes
    <3> QED BY <3>1 DEF Filed, MapInv, EntryInv
  <2> QED BY <2>1, <2>2
<1>17. Filed' /\ Queues'
  BY <1>1, <1>16, SameQueues DEF Filed
<1> QED BY <1>14, <1>15, <1>17

(* The signatures that were collected of jc, as they are queued.           *)
Collected(jc, signature, map) ==
    [ signedJoinChannel |-> [jc |-> jc, signature |-> signature],
      confirmationSignatures |-> {e.signature : e \in map[jc]} ]

(* What Confirmed does to the call, where confirmed is the map with the    *)
(* confirmation in it.                                                     *)
Confirms(c, call, jc, confirmed) ==
    LET signature == call.message.confirmation
        signer == RetrieveSignerAddress(jc, signature)
        entry == [signerAddress |-> signer, signature |-> signature]
    IN  /\ Ends(c, call)
        /\ confirmed = TryInsert(joinChannelMap[c], jc, entry)
        /\ signature \in Signature /\ signature.signer # c
        /\ UNCHANGED <<participants, timers, now, wires, requests>>
        /\ \/ UNCHANGED <<joinChannelMap, joinChannelQueue>>
           \/ /\ signer \in participants
              /\ joinChannelMap' = [joinChannelMap EXCEPT ![c] = confirmed]
              /\ \/ UNCHANGED joinChannelQueue
                 \/ /\ DidEveryoneSign(confirmed, jc, participants)
                    /\ joinChannelQueue' = [joinChannelQueue EXCEPT ![c] = Append(@,
                           Collected(jc, call.message.signature, confirmed))]

(* What Confirmed does, by its cases.                                      *)
LEMMA ConfirmedCases ==
    ASSUME IInv, NEW c \in Clients, Confirmed(c)
    PROVE  \E call \in BagToSet(calls[c]), jc \in JoinChannels :
              \E confirmed : Confirms(c, call, jc, confirmed)
<1> USE DEF IInv
<1>1. PICK call \in BagToSet(calls[c]) :
        LET jc == call.message.jc
            signature == call.message.confirmation
            signer == RetrieveSignerAddress(jc, signature)
            confirmed == TryInsert(joinChannelMap[c], jc,
                                   [signerAddress |-> signer, signature |-> signature])
        IN
        /\ call.kind = "confirm"
        /\ Ends(c, call)
        /\ IF signer \in participants THEN
              /\ joinChannelMap' = [joinChannelMap EXCEPT ![c] = confirmed]
              /\ joinChannelQueue' = [joinChannelQueue EXCEPT ![c] =
                     IF DidEveryoneSign(confirmed, jc, participants)
                     THEN Append(@, Collected(jc, call.message.signature, confirmed)) ELSE @]
           ELSE UNCHANGED <<joinChannelMap, joinChannelQueue>>
        /\ UNCHANGED <<participants, timers, now, wires, requests>>
  BY DEF Confirmed, Collected
<1>2. PICK jc : jc = call.message.jc
  OBVIOUS
<1>3. PICK signature : signature = call.message.confirmation
  OBVIOUS
<1>4. CallInv(c, call)
  BY DEF Carried
<1>5. jc \in JoinChannels /\ signature \in Signature /\ signature.signer # c
  BY <1>1, <1>2, <1>3, <1>4 DEF CallInv, Call, Message
<1>6. PICK signer : signer = RetrieveSignerAddress(jc, signature)
  OBVIOUS
<1>7. PICK confirmed : confirmed = TryInsert(joinChannelMap[c], jc,
                                   [signerAddress |-> signer, signature |-> signature])
  OBVIOUS
<1>8. PICK collected : collected = Collected(jc, call.message.signature, confirmed)
  OBVIOUS
<1>9. /\ Ends(c, call)
      /\ UNCHANGED <<participants, timers, now, wires, requests>>
      /\ IF signer \in participants THEN
              /\ joinChannelMap' = [joinChannelMap EXCEPT ![c] = confirmed]
              /\ joinChannelQueue' = [joinChannelQueue EXCEPT ![c] =
                     IF DidEveryoneSign(confirmed, jc, participants)
                     THEN Append(@, collected) ELSE @]
           ELSE UNCHANGED <<joinChannelMap, joinChannelQueue>>
  BY <1>1, <1>2, <1>3, <1>6, <1>7, <1>8
<1>10. \/ UNCHANGED <<joinChannelMap, joinChannelQueue>>
       \/ /\ signer \in participants
          /\ joinChannelMap' = [joinChannelMap EXCEPT ![c] = confirmed]
          /\ \/ UNCHANGED joinChannelQueue
             \/ /\ DidEveryoneSign(confirmed, jc, participants)
                /\ joinChannelQueue' = [joinChannelQueue EXCEPT ![c] = Append(@, collected)]
  <2>1. CASE signer \notin participants
    BY <1>9, <2>1
  <2>2. CASE signer \in participants /\ DidEveryoneSign(confirmed, jc, participants)
    BY <1>9, <2>2
  <2>3. CASE signer \in participants /\ ~DidEveryoneSign(confirmed, jc, participants)
    <3>1. joinChannelQueue' = [joinChannelQueue EXCEPT ![c] = @]
      BY <1>9, <2>3
    <3>2. UNCHANGED joinChannelQueue
      BY <3>1 DEF Shapes
    <3> QED BY <1>9, <2>3, <3>2
  <2> QED BY <2>1, <2>2, <2>3
<1> QED BY <1>3, <1>5, <1>6, <1>7, <1>8, <1>9, <1>10 DEF Confirms

(* A confirmation is filed under the address of its signer, a participant  *)
(* (Confirmed).                                                            *)
LEMMA ConfirmedIInv ==
    ASSUME IInv, NEW c \in Clients, Confirmed(c)
    PROVE  IInv'
<1> USE DEF IInv
<1>0. PICK call \in BagToSet(calls[c]), jc \in JoinChannels :
          \E confirmed : Confirms(c, call, jc, confirmed)
  BY ConfirmedCases
<1>1. PICK confirmed : Confirms(c, call, jc, confirmed)
  BY <1>0
<1>2. PICK signature : signature = call.message.confirmation
  OBVIOUS
<1>3. PICK entry : entry = [signerAddress |-> RetrieveSignerAddress(jc, signature),
                            signature |-> signature]
  OBVIOUS
<1>4. PICK collected : collected = Collected(jc, call.message.signature, confirmed)
  OBVIOUS
<1>5. /\ Ends(c, call)
      /\ confirmed = TryInsert(joinChannelMap[c], jc, entry)
      /\ signature \in Signature /\ signature.signer # c
      /\ UNCHANGED <<participants, timers, now, wires, requests>>
      /\ \/ UNCHANGED <<joinChannelMap, joinChannelQueue>>
         \/ /\ RetrieveSignerAddress(jc, signature) \in participants
            /\ joinChannelMap' = [joinChannelMap EXCEPT ![c] = confirmed]
            /\ \/ UNCHANGED joinChannelQueue
               \/ joinChannelQueue' = [joinChannelQueue EXCEPT ![c] = Append(@, collected)]
  BY <1>1, <1>2, <1>3, <1>4 DEF Confirms
<1>6. /\ DOMAIN calls' = Clients
      /\ \A d \in Clients : \A k \in BagToSet(calls'[d]) : CallInv(d, k)
  BY <1>5, EndsCarried DEF Carried, Shapes
<1>7. Shapes'
  <2>1. joinChannelQueue' = [d \in Clients |-> joinChannelQueue'[d]] /\ DOMAIN joinChannelMap' = Clients
    BY <1>5 DEF Shapes
  <2> QED BY <1>5, <1>6, <2>1 DEF Shapes
<1>8. Carried'
  BY <1>5, <1>6 DEF Carried, CallInv, MessageInv
<1>9. Filed'
  <2>1. CASE UNCHANGED joinChannelMap
    BY <1>5, <2>1, SameFiles
  <2>2. CASE /\ RetrieveSignerAddress(jc, signature) \in participants
             /\ joinChannelMap' = [joinChannelMap EXCEPT ![c] = confirmed]
    <3>1. entry \in Entry
      BY <1>3, <1>5, <2>2, ParticipantsAssumption DEF Entry, Shapes
    <3>2. ASSUME NEW d \in Clients
          PROVE  MapInv(d)'
      <4>1. CASE d = c
        <5>1. joinChannelMap'[c] = TryInsert(joinChannelMap[c], jc, entry)
          BY <1>5, <2>2 DEF Shapes
        <5>2. DOMAIN joinChannelMap'[c] = DOMAIN joinChannelMap[c] \cup {jc}
          BY <5>1, InsertKeys
        <5>3. ASSUME NEW k \in DOMAIN joinChannelMap'[c], NEW e \in joinChannelMap'[c][k]
              PROVE  EntryInv(c, k, e)'
          <6>1. (k \in DOMAIN joinChannelMap[c] /\ e \in joinChannelMap[c][k]) \/ (k = jc /\ e = entry)
            BY <5>1, <5>2, <5>3, InsertEntries
          <6>2. CASE k \in DOMAIN joinChannelMap[c] /\ e \in joinChannelMap[c][k]
            BY <1>5, <6>2 DEF Filed, MapInv, EntryInv
          <6>3. CASE k = jc /\ e = entry
            BY <1>3, <1>5, <3>1, <6>3 DEF EntryInv
          <6> QED BY <6>1, <6>2, <6>3
        <5> QED BY <4>1, <5>2, <5>3 DEF MapInv, Filed
      <4>2. CASE d # c
        <5>1. joinChannelMap'[d] = joinChannelMap[d] /\ timers' = timers
          BY <1>5, <2>2, <4>2 DEF Shapes
        <5> QED BY <5>1 DEF Filed, MapInv, EntryInv
      <4> QED BY <4>1, <4>2
    <3> QED BY <3>2 DEF Filed
  <2> QED BY <1>5, <2>1, <2>2
<1>10. Queues'
  <2>1. CASE UNCHANGED joinChannelQueue
    BY <2>1, SameQueues
  <2>2. CASE joinChannelQueue' = [joinChannelQueue EXCEPT ![c] = Append(@, collected)]
    <3>1. ASSUME NEW d \in Clients
          PROVE  \E S : joinChannelQueue'[d] \in Seq(S)
      <4>1. PICK S : joinChannelQueue[d] \in Seq(S)
        BY DEF Queues
      <4>2. CASE d = c
        <5>1. joinChannelQueue'[d] = Append(joinChannelQueue[d], collected)
          BY <2>2, <4>2 DEF Shapes
        <5> QED BY <4>1, <5>1, AppendIsSeq, ZenonT(30)
      <4>3. CASE d # c
        BY <2>2, <4>1, <4>3 DEF Shapes
      <4> QED BY <4>2, <4>3
    <3> QED BY <3>1 DEF Queues
  <2> QED BY <1>5, <2>1, <2>2
<1> QED BY <1>7, <1>8, <1>9, <1>10

(* A timer that runs out takes all signatures with it (Prune), so that     *)
(* other timers are not needed.                                            *)
LEMMA PruneIInv ==
    ASSUME IInv, NEW c \in Clients, Prune(c)
    PROVE  IInv'
<1> USE DEF IInv
<1>1. PICK jc \in JoinChannels :
        /\ timers[c][jc] > 0
        /\ timers' = [timers EXCEPT ![c][jc] = @ - 1]
        /\ joinChannelMap' = [joinChannelMap EXCEPT ![c] = Delete(@, jc)]
        /\ UNCHANGED <<joinChannelQueue, participants, now, calls, wires, requests>>
  BY DEF Prune
<1>2. timers' \in [Clients -> [JoinChannels -> Nat]]
  BY <1>1 DEF Shapes
<1>3. Shapes'
  BY <1>1, <1>2 DEF Shapes
<1>4. Carried' /\ Queues'
  BY <1>1, SameQueues DEF Carried, CallInv, MessageInv
<1>5. ASSUME NEW d \in Clients
      PROVE  MapInv(d)'
  <2>1. CASE d = c
    <3>1. joinChannelMap'[c] = Delete(joinChannelMap[c], jc)
      BY <1>1 DEF Shapes
    <3>2. DOMAIN joinChannelMap'[c] = DOMAIN joinChannelMap[c] \ {jc}
      BY <3>1, DeleteKeys
    <3>3. ASSUME NEW k \in DOMAIN joinChannelMap'[c], NEW e \in joinChannelMap'[c][k]
          PROVE  EntryInv(c, k, e)'
      <4>0. k \in DOMAIN joinChannelMap[c] /\ k # jc
        BY <3>2, <3>3
      <4>1. joinChannelMap'[c][k] = joinChannelMap[c][k] /\ e \in joinChannelMap[c][k]
        BY <3>1, <3>3, <4>0, DeleteKeeps
      <4>2. EntryInv(c, k, e) /\ k \in JoinChannels
        BY <4>0, <4>1 DEF Filed, MapInv
      <4>3. timers'[c][k] = timers[c][k]
        BY <1>1, <4>0, <4>2 DEF Shapes
      <4> QED BY <4>2, <4>3 DEF EntryInv
    <3>4. DOMAIN joinChannelMap'[c] \subseteq JoinChannels
      BY <3>2 DEF Filed, MapInv
    <3> QED BY <2>1, <3>3, <3>4 DEF MapInv
  <2>2. CASE d # c
    <3>1. joinChannelMap'[d] = joinChannelMap[d] /\ timers'[d] = timers[d]
      BY <1>1, <2>2 DEF Shapes
    <3> QED BY <3>1 DEF Filed, MapInv, EntryInv
  <2> QED BY <2>1, <2>2
<1> QED BY <1>3, <1>4, <1>5 DEF Filed

(* A request carries no confirmation (Request).                            *)
LEMMA RequestIInv ==
    ASSUME IInv, NEW c \in Clients, Request(c)
    PROVE  IInv'
<1> USE DEF IInv
<1>1. PICK jc \in JoinChannels :
        /\ requests < MaxRequests
        /\ requests' = requests + 1
        /\ Broadcast(c, [jc |-> jc, signature |-> SignJoinChannel(jc, c),
                         confirmation |-> NoSignature])
        /\ UNCHANGED <<joinChannelMap, joinChannelQueue, participants, timers, now, calls>>
  BY DEF Request
<1>2. PICK message : message = [jc |-> jc, signature |-> SignJoinChannel(jc, c),
                                confirmation |-> NoSignature]
  OBVIOUS
<1>3. \A d \in Clients : MessageInv(d, message)
  <2>1. SignJoinChannel(jc, c) \in Signature
    BY JoinChannelsAssumption DEF SignJoinChannel, Signature
  <2> QED BY <1>2, <2>1, ClientsAssumption DEF MessageInv, Message, NoSignature
<1>4. /\ DOMAIN wires' = Clients
      /\ \A d \in Clients : \A m \in BagToSet(wires'[d]) : MessageInv(d, m)
  BY <1>1, <1>2, <1>3, BroadcastCarried DEF Carried
<1>5. requests' \in 0..MaxRequests
  BY <1>1, BoundsAssumption DEF Shapes
<1>6. Shapes'
  BY <1>1, <1>4, <1>5 DEF Shapes
<1>7. Carried' /\ Queues'
  BY <1>1, <1>4, SameQueues DEF Carried, CallInv, MessageInv
<1>8. Filed'
  BY <1>1, SameFiles
<1> QED BY <1>6, <1>7, <1>8

(* No step of the system breaks the invariant.                             *)
LEMMA NextIInv == IInv /\ [Next]_vars => IInv'
<1> SUFFICES ASSUME IInv, [Next]_vars PROVE IInv'
  OBVIOUS
<1> USE DEF IInv
<1>1. CASE \E c \in Clients : Receive(c) \/ Signed(c) \/ Confirmed(c) \/ Prune(c) \/ Request(c)
  BY <1>1, ReceiveIInv, SignedIInv, ConfirmedIInv, PruneIInv, RequestIInv
<1>2. CASE ParticipantRemoved
  <2>1. Shapes'
    BY <1>2 DEF ParticipantRemoved, Shapes
  <2>2. Carried' /\ Queues' /\ Filed'
    BY <1>2, SameFiles, SameQueues DEF ParticipantRemoved, Carried, CallInv, MessageInv
  <2> QED BY <2>1, <2>2
<1>3. CASE Tick
  <2>1. Shapes'
    BY <1>3, BoundsAssumption DEF Tick, Shapes
  <2>2. Carried' /\ Queues' /\ Filed'
    BY <1>3, SameFiles, SameQueues DEF Tick, Carried, CallInv, MessageInv
  <2> QED BY <2>1, <2>2
<1>4. CASE UNCHANGED vars
  <2>1. Shapes'
    BY <1>4 DEF vars, Shapes
  <2>2. Carried' /\ Queues' /\ Filed'
    BY <1>4, SameFiles, SameQueues DEF vars, Carried, CallInv, MessageInv
  <2> QED BY <2>1, <2>2
<1> QED BY <1>1, <1>2, <1>3, <1>4 DEF Next

(* The invariant holds in every state.                                     *)
THEOREM Invariance == Spec => []IInv
BY InitIInv, NextIInv, PTL DEF Spec

-----------------------------------------------------------------------------
(* The properties.                                                         *)

(* The state has the shape TypeOK describes, whatever arrives in which     *)
(* order at how many clients.                                              *)
THEOREM TypeOKHolds == Spec => []TypeOK
<1>1. IInv => TypeOK
  BY DEF IInv, Shapes, Carried, Filed, MapInv, EntryInv, MessageInv, CallInv, Call, TypeOK
<1> QED BY <1>1, Invariance, PTL

(* A request that a client signed is pruned: while its own signature is in *)
(* the map a timer runs for it (onJoinChannelRequest, setTimeout), however *)
(* many requests are handled at once and whatever was pruned meanwhile.    *)
THEOREM SignedIsPrunedHolds == Spec => []SignedIsPruned
<1>1. IInv => SignedIsPruned
  BY DEF IInv, Filed, MapInv, EntryInv, SignedIsPruned
<1> QED BY <1>1, Invariance, PTL

(* What one call queues was signed by everybody it has to be signed by.    *)
LEMMA CollectedByAll ==
    ASSUME IInv, NEW c \in Clients, Confirmed(c), joinChannelQueue'[c] # joinChannelQueue[c]
    PROVE  LET queued == Last(joinChannelQueue'[c])
               jc == queued.signedJoinChannel.jc
           IN  participants \ {jc.participant} \subseteq
                   {RetrieveSignerAddress(jc, s) : s \in queued.confirmationSignatures}
<1>0. PICK call \in BagToSet(calls[c]), jc \in JoinChannels :
          \E confirmed : Confirms(c, call, jc, confirmed)
  BY ConfirmedCases
<1>1. PICK confirmed : Confirms(c, call, jc, confirmed)
  BY <1>0
<1>2. PICK collected : collected = Collected(jc, call.message.signature, confirmed)
  OBVIOUS
<1>3. /\ DidEveryoneSign(confirmed, jc, participants)
      /\ joinChannelQueue' = [joinChannelQueue EXCEPT ![c] = Append(@, collected)]
  BY <1>1, <1>2 DEF Confirms
<1>4. Last(joinChannelQueue'[c]) = collected
  <2>1. PICK S : joinChannelQueue[c] \in Seq(S)
    BY DEF IInv, Queues
  <2>2. joinChannelQueue'[c] = Append(joinChannelQueue[c], collected)
    BY <1>3 DEF IInv, Shapes
  <2> QED BY <2>1, <2>2, AppendIsSeq
<1>5. /\ collected.signedJoinChannel.jc = jc
      /\ collected.confirmationSignatures = {e.signature : e \in confirmed[jc]}
  BY <1>2 DEF Collected
<1>6. ASSUME NEW e \in confirmed[jc]
      PROVE  \/ e.signerAddress = jc.participant
             \/ e.signerAddress = RetrieveSignerAddress(jc, e.signature)
  <2>1. PICK entry : /\ confirmed = TryInsert(joinChannelMap[c], jc, entry)
                     /\ entry.signerAddress = RetrieveSignerAddress(jc, entry.signature)
    BY <1>1 DEF Confirms
  <2>2. (jc \in DOMAIN joinChannelMap[c] /\ e \in joinChannelMap[c][jc]) \/ e = entry
    BY <1>6, <2>1, InsertEntries
  <2> QED BY <2>1, <2>2 DEF IInv, Filed, MapInv, EntryInv
<1>7. ASSUME NEW a \in participants \ {jc.participant}
      PROVE  \E s \in collected.confirmationSignatures : a = RetrieveSignerAddress(jc, s)
  <2>1. PICK e \in confirmed[jc] : e.signerAddress = a
    BY <1>3, <1>7 DEF DidEveryoneSign, SignersOf
  <2>2. a = RetrieveSignerAddress(jc, e.signature)
    BY <1>6, <1>7, <2>1
  <2> QED BY <1>5, <2>2
<1> QED BY <1>4, <1>5, <1>7

(* Whatever a client queues was signed, over the request itself, by every  *)
(* participant of that moment but the one who asks, although the map was   *)
(* read, pruned and written while the call waited (didEveryoneSign).       *)
THEOREM QueuedByAllHolds == Spec => QueuedByAll
<1> DEFINE ByAll ==
      \A c \in Clients :
          joinChannelQueue'[c] # joinChannelQueue[c] =>
              LET queued == Last(joinChannelQueue'[c])
                  jc == queued.signedJoinChannel.jc
              IN  participants \ {jc.participant} \subseteq
                      {RetrieveSignerAddress(jc, s) : s \in queued.confirmationSignatures}
<1>1. ASSUME IInv, Next PROVE ByAll
  <2>1. SUFFICES ASSUME NEW c \in Clients, joinChannelQueue'[c] # joinChannelQueue[c]
                 PROVE  Confirmed(c)
    BY <1>1, CollectedByAll
  <2>2. UNCHANGED joinChannelQueue \/ \E d \in Clients : Confirmed(d)
    BY <1>1 DEF Next, Receive, Signed, Prune, Request, ParticipantRemoved, Tick
  <2>3. PICK d \in Clients : Confirmed(d)
    BY <2>1, <2>2
  <2>4. \A e \in Clients \ {d} : joinChannelQueue'[e] = joinChannelQueue[e]
    BY <1>1, <2>3 DEF Confirmed, IInv, Shapes
  <2> QED BY <2>1, <2>3, <2>4
<1>2. IInv /\ [Next]_vars => [ByAll]_vars
  BY <1>1
<1> QED BY <1>2, Invariance, PTL DEF Spec, QueuedByAll

=============================================================================
