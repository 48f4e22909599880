------------------------------ MODULE JoinChannel ------------------------------
(***************************************************************************)
(* JoinChannelService: how the clients gather signatures for somebody who  *)
(* wants to join the channel.  A client that hears of a request it does    *)
(* not know signs it, remembers that, and passes request and signature on  *)
(* to everybody it is connected to; a client that knows the request takes  *)
(* what it hears for a confirmation.  Every client runs this code, and a   *)
(* call that awaits a signature, or the participants, lets others in.      *)
(***************************************************************************)
EXTENDS Naturals, Bags, SequencesExt

CONSTANTS
    Clients,       \* by their addresses
    JoinChannels,  \* the requests: who wants to join, and until when
    Participants,  \* the participants of the channel at first
    Applicants,    \* the clients whose application asks to join
    Leavers,       \* the participants that may be taken out
    MaxRequests,   \* bound: how often requests are broadcast by applications
    MaxTime        \* bound on the clocks

Nobody == 0

JoinChannel == [participant : Clients, deadlineTimestamp : Nat]

ASSUME ClientsAssumption == Clients \subseteq Nat \ {Nobody}
ASSUME JoinChannelsAssumption == JoinChannels \subseteq JoinChannel
ASSUME ParticipantsAssumption == Participants \cup Applicants \cup Leavers \subseteq Clients
ASSUME BoundsAssumption == MaxRequests \in Nat /\ MaxTime \in Nat

VARIABLES
    joinChannelMap,    \* of each client: signatures by request
    joinChannelQueue,  \* of each client: the requests everyone confirmed
    participants,      \* the participants, as the state machines list them
    timers,            \* of each client: the timers that prune a request
    now,               \* the time, which the clients agree on
    calls,             \* the calls that wait, at each client
    wires,             \* the messages under way to each client
    requests           \* how many requests were broadcast

vars == <<joinChannelMap, joinChannelQueue, participants, timers, now, calls,
          wires, requests>>

-----------------------------------------------------------------------------
(* Signatures, and what is recovered from one: nobody the client knows,    *)
(* unless the very request was signed.                                     *)

Signature == [signer : Clients, of : JoinChannels]

(* Faulty variant: what is signed is another request.                      *)
SignJoinChannelLonger(jc, a) ==
    [signer |-> a, of |-> [jc EXCEPT !.deadlineTimestamp = @ + 1]]

SignJoinChannel(jc, a) == [signer |-> a, of |-> jc]

RetrieveSignerAddress(jc, signature) ==
    IF signature.of = jc THEN signature.signer ELSE Nobody

NoSignature == [signer |-> Nobody]

Message == [jc : JoinChannels, signature : Signature,
            confirmation : Signature \cup {NoSignature}]

(* SignatureCollectionMap: signatures under every key it has, at most one  *)
(* of a signer.                                                            *)
Entry == [signerAddress : Clients, signature : Signature]

Has(map, key) == key \in DOMAIN map

SignersOf(entries) == {e.signerAddress : e \in entries}

(* Faulty variant: a key that is new is not set.                           *)
TryInsertKnown(map, key, entry) ==
    IF Has(map, key) /\ entry.signerAddress \notin SignersOf(map[key])
    THEN [map EXCEPT ![key] = @ \cup {entry}]
    ELSE map

TryInsert(map, key, entry) ==
    IF ~Has(map, key) THEN [k \in {key} \cup DOMAIN map |-> IF k = key THEN {entry} ELSE map[k]]
    ELSE IF entry.signerAddress \in SignersOf(map[key]) THEN map
    ELSE [map EXCEPT ![key] = @ \cup {entry}]

(* Faulty variant: one signature short.                                    *)
DidMostSign(map, key, addresses) ==
    Cardinality(addresses \ SignersOf(map[key])) <= 1

DidEveryoneSign(map, key, addresses) == addresses \subseteq SignersOf(map[key])

Delete(map, key) == Restrict(map, DOMAIN map \ {key})

-----------------------------------------------------------------------------
(* onJoinChannelRequest, up to where it awaits.                            *)

Expired(jc) == jc.deadlineTimestamp <= now

MaySign(c, message) ==
    /\ ~Has(joinChannelMap[c], message.jc)
    /\ ~Expired(message.jc)
    /\ message.jc.participant = RetrieveSignerAddress(message.jc, message.signature)

MayConfirm(c, message) ==
    Has(joinChannelMap[c], message.jc) /\ message.confirmation # NoSignature

Starts(c, kind, message) ==
    calls' = [calls EXCEPT ![c] = @ (+) SetToBag({[kind |-> kind, message |-> message]})]

Ends(c, call) == calls' = [calls EXCEPT ![c] = @ (-) SetToBag({call})]

(* A message is handled once it has arrived; those that neither ask for a  *)
(* signature nor confirm are dropped.                                      *)
Receive(c) ==
    \E message \in BagToSet(wires[c]) :
        /\ wires' = [wires EXCEPT ![c] = @ (-) SetToBag({message})]
        /\ \/ MaySign(c, message) /\ Starts(c, "sign", message)
           \/ MayConfirm(c, message) /\ Starts(c, "confirm", message)
           \/ ~MaySign(c, message) /\ ~MayConfirm(c, message) /\ UNCHANGED calls
        /\ UNCHANGED <<joinChannelMap, joinChannelQueue, participants, timers, now, requests>>

(* What c broadcasts goes to everybody; what a missing connection loses is *)
(* a message that never arrives.                                           *)
Broadcast(c, message) ==
    wires' = [d \in Clients |-> IF d = c THEN wires[d] ELSE wires[d] (+) SetToBag({message})]

(* Faulty variant: nothing is set to prune the request.                    *)
PrunesNever(c, jc) == UNCHANGED timers

(* setTimeout, for the time that remained when the request was handled.    *)
PrunesLater(c, jc) == timers' = [timers EXCEPT ![c][jc] = @ + 1]

(* The client's own signature is there: it is put under the address of who *)
(* wants to join.                                                          *)
Signed(c) ==
    \E call \in BagToSet(calls[c]) :
        LET jc == call.message.jc
            signature == SignJoinChannel(jc, c)
        IN
        /\ call.kind = "sign"
        /\ Ends(c, call)
        /\ joinChannelMap' = [joinChannelMap EXCEPT ![c] =
               TryInsert(@, jc, [signerAddress |-> jc.participant, signature |-> signature])]
        /\ Broadcast(c, [call.message EXCEPT !.confirmation = signature])
        /\ PrunesLater(c, jc)
        /\ UNCHANGED <<joinChannelQueue, participants, now, requests>>

(* getParticipantsCurrent has answered.  The request may have been pruned  *)
(* meanwhile, and is then put back.                                        *)
Confirmed(c) ==
    \E call \in BagToSet(calls[c]) :
        LET jc == call.message.jc
            signature == call.message.confirmation
            signer == RetrieveSignerAddress(jc, signature)
            confirmed == TryInsert(joinChannelMap[c], jc,
                                   [signerAddress |-> signer, signature |-> signature])
            collected == [ signedJoinChannel |-> [jc |-> jc, signature |-> call.message.signature],
                           confirmationSignatures |-> {e.signature : e \in confirmed[jc]} ]
        IN
        /\ call.kind = "confirm"
        /\ Ends(c, call)
        /\ IF signer \in participants THEN
              /\ joinChannelMap' = [joinChannelMap EXCEPT ![c] = confirmed]
              /\ joinChannelQueue' = [joinChannelQueue EXCEPT ![c] =
                     IF DidEveryoneSign(confirmed, jc, participants)
                     THEN Append(@, collected) ELSE @]
           ELSE UNCHANGED <<joinChannelMap, joinChannelQueue>>
        /\ UNCHANGED <<participants, timers, now, wires, requests>>

(* prune expired: the timer of jc has run out.                             *)
Prune(c) ==
    \E jc \in JoinChannels :
        /\ timers[c][jc] > 0 /\ Expired(jc)
        /\ timers' = [timers EXCEPT ![c][jc] = @ - 1]
        /\ joinChannelMap' = [joinChannelMap EXCEPT ![c] = Delete(@, jc)]
        /\ UNCHANGED <<joinChannelQueue, participants, now, calls, wires, requests>>

-----------------------------------------------------------------------------
(* Around it.                                                              *)

(* The application of c broadcasts a request, signed by c.                 *)
Request(c) ==
    \E jc \in JoinChannels :
        /\ c \in Applicants /\ requests < MaxRequests
        /\ requests' = requests + 1
        /\ Broadcast(c, [jc |-> jc, signature |-> SignJoinChannel(jc, c),
                         confirmation |-> NoSignature])
        /\ UNCHANGED <<joinChannelMap, joinChannelQueue, participants, timers, now, calls>>

(* A participant is taken out of the state.                                *)
ParticipantRemoved ==
    \E a \in Leavers :
        /\ participants' = participants \ {a}
        /\ UNCHANGED <<joinChannelMap, joinChannelQueue, timers, now, calls, wires, requests>>

Tick ==
    /\ now < MaxTime
    /\ now' = now + 1
    /\ UNCHANGED <<joinChannelMap, joinChannelQueue, participants, timers, calls, wires, requests>>

Init ==
    /\ joinChannelMap = [c \in Clients |-> [k \in {} |-> {}]]
    /\ joinChannelQueue = [c \in Clients |-> <<>>]
    /\ participants = Participants
    /\ timers = [c \in Clients |-> [jc \in JoinChannels |-> 0]]
    /\ now = 0
    /\ calls = [c \in Clients |-> EmptyBag]
    /\ wires = [c \in Clients |-> EmptyBag]
    /\ requests = 0

Next ==
    \/ \E c \in Clients : \/ Receive(c) \/ Signed(c) \/ Confirmed(c) \/ Prune(c)
                          \/ Request(c)
    \/ ParticipantRemoved \/ Tick

Spec == Init /\ [][Next]_vars

-----------------------------------------------------------------------------
(* Properties.                                                             *)

(* The shape of the state.                                                 *)
TypeOK ==
    /\ \A c \in Clients :
           /\ DOMAIN joinChannelMap[c] \subseteq JoinChannels
           /\ \A jc \in DOMAIN joinChannelMap[c] : joinChannelMap[c][jc] \subseteq Entry
           /\ BagToSet(wires[c]) \subseteq Message
           /\ BagToSet(calls[c]) \subseteq [kind : {"sign", "confirm"}, message : Message]
    /\ timers \in [Clients -> [JoinChannels -> Nat]]
    /\ participants \subseteq Participants
    /\ now \in 0..MaxTime /\ requests \in 0..MaxRequests

(* What a client queues carries a signature, over the request itself, of   *)
(* everybody who is a participant then; a participant taken out while the  *)
(* call waited is not waited for (didEveryoneSign).  Nothing is promised   *)
(* of a participant who asks to join: under its address the client filed   *)
(* its own signature.                                                      *)
QueuedByAll ==
    [][\A c \in Clients :
          joinChannelQueue'[c] # joinChannelQueue[c] =>
              LET queued == Last(joinChannelQueue'[c])
                  jc == queued.signedJoinChannel.jc
              IN  participants \ {jc.participant} \subseteq
                      {RetrieveSignerAddress(jc, s) : s \in queued.confirmationSignatures}]_vars

(* A request the client signed is pruned: as long as its own signature is  *)
(* in the map a timer will take the request out.                           *)
SignedIsPruned ==
    \A c \in Clients : \A jc \in DOMAIN joinChannelMap[c] :
        (\E e \in joinChannelMap[c][jc] : e.signature.signer = c) => timers[c][jc] > 0

(* Clients that hear of a request again while they sign it pass it on      *)
(* again, once for every time; the map stops that, so that a request comes *)
(* to at most so many signatures of one client.                            *)
EchoesBounded ==
    \A c \in Clients, jc \in JoinChannels :
        timers[c][jc] <= MaxRequests * (2 ^ (Cardinality(Clients) - 1) - 1)

=============================================================================
