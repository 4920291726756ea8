------------------------------- MODULE App004 -------------------------------
(***************************************************************************)
(* A pair of ETSI 004 applications (model/qkd-app-004.cc) and the stream   *)
(* of encryption keys each holds (model/app-key-stream.cc).  The primary   *)
(* (Alice) opens the association and sends its KSID to the replica (Bob);  *)
(* both fill their streams with get_key, one request at a time; then Alice *)
(* sends packets that name the index of the key they are protected with,   *)
(* and each end asks for a new key when it has used one up.  Bob moves his *)
(* stream to the index a packet names.                                     *)
(*                                                                         *)
(* Authentication is left to SHA, which needs no key.  The KMSs are        *)
(* external: chunk i of the session is the same at both (what Etsi004Link  *)
(* shows of them), each hands out its chunks in order, and refuses get_key *)
(* while it has none.  The KMS of Bob does not answer an open_connect for  *)
(* a session that NEW_APP has not told it of yet.                          *)
(***************************************************************************)
EXTENDS Naturals, Sequences, FiniteSets, SequencesExt, FiniteSetsExt

CONSTANTS
  Size,       \* LengthOfKeyBufferForEncryption
  Lives,      \* key lifetimes that are looked at: AESLifetime / packet size, up
  Chunks,     \* bound on the chunks of the session
  MaxAsked,   \* bound on Bob's unanswered requests
  MaxAir      \* bound on the packets on the way

Node == {"A", "B"}
Peer(n) == IF n = "A" THEN "B" ELSE "A"

ASSUME App004Assumption ==
  /\ Size \in Nat \ {0} /\ Chunks \in Nat
  /\ Lives \subseteq Nat \ {0}
  /\ MaxAsked \in Nat /\ MaxAir \in Nat

VARIABLES
  set,      \* life: packets a key is good for; udp: the type of the data socket
  app,      \* the applications
  sig,      \* signalling on the way to each of them
  data,     \* key indices of the packets on the way to Bob
  kms,      \* the session at the KMSs
  seen      \* history: what has gone wrong so far

vars == <<set, app, sig, data, kms, seen>>

Index == 0 .. Chunks - 1
NoKeys == [i \in {} |-> 0]

(* After StartApplication: Alice has asked for an association.             *)
Init ==
  /\ set \in [life : Lives, udp : BOOLEAN]
  /\ app = [n \in Node |->
       [state |-> IF n = "A" THEN "ESTABLISHING_ASSOCIATIONS" ELSE "READY",
        verified |-> FALSE,
        keys |-> NoKeys,            \* m_stream: index to lifetime left
        asked |-> IF n = "A" THEN <<"open_connect">> ELSE <<>>,
        retries |-> 0,              \* scheduled get_key requests
        own |-> FALSE, peer |-> FALSE,   \* m_primaryQueueEstablished, m_replica...
        timer |-> FALSE]]           \* m_sendEvent is pending
  /\ sig = [n \in Node |-> <<>>]
  /\ data = <<>>
  /\ kms = [known |-> FALSE, filled |-> [n \in Node |-> 0], next |-> [n \in Node |-> 0]]
  /\ seen = {}

-----------------------------------------------------------------------------
(* The key stream.                                                         *)
First(keys) == Min(DOMAIN keys)

From(keys, i) == [j \in {j \in DOMAIN keys : j >= i} |-> keys[j]]

With(keys, i) == [j \in DOMAIN keys \cup {i} |-> IF j \in DOMAIN keys THEN keys[j] ELSE set.life]

Without(keys, i) == [j \in DOMAIN keys \ {i} |-> keys[j]]

UseLifetime(left) == IF left > 0 THEN left - 1 ELSE 0

(* GetKey: the first key; it leaves the stream with its last use.          *)
(* Mutant: a key leaves the stream one use too late.                       *)
GetKeyLate(keys) ==
  LET k == First(keys)
  IN IF keys[k] = 0 THEN Without(keys, k) ELSE [keys EXCEPT ![k] = UseLifetime(@)]

GetKey(keys) ==
  LET k == First(keys)
  IN IF UseLifetime(keys[k]) = 0 THEN Without(keys, k) ELSE [keys EXCEPT ![k] = UseLifetime(@)]

(* SyncStream: keys in front of the one named are dropped, if it is there. *)
SyncStream(keys, i) == IF i \in DOMAIN keys THEN From(keys, i) ELSE keys

InSync(keys, i) == IF DOMAIN keys = {} THEN TRUE ELSE First(keys) = i

-----------------------------------------------------------------------------
(* Operations of an application.  A handler ends in a new state, the packet*)
(* it sends and what it tells the peer.                                    *)
Quiet(a) == [app |-> a, sent |-> <<>>, says |-> <<>>]

GetKeyFromKMS(a, times) ==
  [a EXCEPT !.asked = @ \o [i \in 1 .. times |-> "get_key"]]

(* SetState(READY) after a packet is sent.                                 *)
Rested(a) == [a EXCEPT !.state = IF DOMAIN a.keys = {} THEN "WAIT" ELSE "READY"]

(* SendPacket in SEND_DATA: GetKey takes one use of the key, and the       *)
(* application a second one.  Without a key nothing is scheduled any more. *)
SendPacket(a) ==
  IF DOMAIN a.keys = {} THEN Quiet(Rested(a))
  ELSE LET k    == First(a.keys)
           left == UseLifetime(UseLifetime(a.keys[k]))
           rest == GetKey(a.keys)
           keys == IF k \in DOMAIN rest THEN [rest EXCEPT ![k] = left] ELSE rest
           b    == [a EXCEPT !.keys = keys, !.timer = TRUE]
       IN [Quiet(Rested(IF left = 0 THEN GetKeyFromKMS(b, 1) ELSE b)) EXCEPT !.sent = <<k>>]

(* AppTransitionTree in KEY_QUEUES_ESTABLISHED, at Alice.                  *)
StartsSending(a) == SendPacket([a EXCEPT !.state = "READY"])

(* CheckQueues.  Bob says when his queue is established; Alice begins when *)
(* both are.                                                               *)
CheckQueues(n, a) ==
  IF a.verified /\ Cardinality(DOMAIN a.keys) < Size THEN Quiet(GetKeyFromKMS(a, 1))
  ELSE IF n = "B" THEN [Quiet([a EXCEPT !.state = "READY"]) EXCEPT !.says = <<"queues_ok">>]
  ELSE IF a.peer THEN StartsSending(a)
  ELSE Quiet([a EXCEPT !.own = TRUE])

(* A handler of n ends: its new state, a packet, and a message to the peer.*)
Ends(n, o, signals) ==
  /\ app' = [app EXCEPT ![n] = o.app]
  /\ data' = data \o o.sent
  /\ sig' = [signals EXCEPT ![Peer(n)] = @ \o o.says]

-----------------------------------------------------------------------------
(* Answers of the KMSs.                                                    *)
HeadAsked(n, what) == app[n].asked # <<>> /\ Head(app[n].asked) = what

Answered(n) == [app[n] EXCEPT !.asked = Tail(@)]

(* open_connect of Alice: the KSID goes to Bob.                            *)
AssociationOpened ==
  /\ HeadAsked("A", "open_connect")
  /\ Ends("A", [Quiet(Answered("A")) EXCEPT !.says = <<"ksid">>], sig)
  /\ UNCHANGED <<set, kms, seen>>

(* open_connect of Bob: his KMS answers if it knows the KSID.              *)
AssociationJoined ==
  /\ HeadAsked("B", "open_connect")
  /\ Ends("B", IF kms.known
                 THEN [Quiet([Answered("B") EXCEPT !.verified = TRUE]) EXCEPT !.says = <<"ksid_ok">>]
                 ELSE Quiet(Answered("B")), sig)
  /\ seen' = IF kms.known THEN seen ELSE seen \cup {"ignored"}
  /\ UNCHANGED <<set, kms>>

(* get_key: the next chunk.  AddKey, and what waits for it goes on.        *)
AddKey(a, i) == [a EXCEPT !.keys = With(@, i)]

(* Mutant: only the queues go on, not an application that waits.           *)
GoesOnEstablishing(n, a) ==
  IF a.state = "ESTABLISHING_KEY_QUEUES" THEN CheckQueues(n, a) ELSE Quiet(a)

GoesOn(n, a) ==
  IF a.state = "ESTABLISHING_KEY_QUEUES" THEN CheckQueues(n, a)
  ELSE Quiet(IF a.state = "WAIT" THEN [a EXCEPT !.state = "READY"] ELSE a)

HasChunk(n) == kms.next[n] < kms.filled[n]

KeyAnswered(n) ==
  /\ HeadAsked(n, "get_key") /\ HasChunk(n)
  /\ Ends(n, GoesOn(n, AddKey(Answered(n), kms.next[n])), sig)
  /\ kms' = [kms EXCEPT !.next[n] = @ + 1]
  /\ UNCHANGED <<set, seen>>

(* A refused get_key is asked again after 300 or 500 ms, except by Bob once*)
(* his queue is established.                                               *)
AsksAgain(n) == app[n].state = "ESTABLISHING_KEY_QUEUES" \/ n = "A"

KeyRefused(n) ==
  /\ HeadAsked(n, "get_key") /\ ~HasChunk(n)
  /\ app' = [app EXCEPT ![n] = IF AsksAgain(n) THEN [Answered(n) EXCEPT !.retries = @ + 1]
                               ELSE Answered(n)]
  /\ seen' = IF AsksAgain(n) THEN seen ELSE seen \cup {"refused"}
  /\ UNCHANGED <<set, sig, data, kms>>

ScheduledRetry(n) ==
  /\ app[n].retries > 0
  /\ app' = [app EXCEPT ![n] = GetKeyFromKMS([app[n] EXCEPT !.retries = @ - 1], 1)]
  /\ UNCHANGED <<set, sig, data, kms, seen>>

(* The KMSs: NEW_APP reaches Bob's, and each gets chunks.                  *)
NewApp ==
  /\ ~kms.known /\ ~HeadAsked("A", "open_connect")
  /\ kms' = [kms EXCEPT !.known = TRUE]
  /\ UNCHANGED <<set, app, sig, data, seen>>

Filled(n) ==
  /\ app["B"].verified /\ kms.filled[n] < Chunks
  /\ kms' = [kms EXCEPT !.filled[n] = @ + 1]
  /\ UNCHANGED <<set, app, sig, data, seen>>

-----------------------------------------------------------------------------
(* Signalling between the applications.                                    *)
Told(n, what) == sig[n] # <<>> /\ Head(sig[n]) = what

Heard(n) == [sig EXCEPT ![n] = Tail(@)]

(* send_ksid arrives at Bob, who joins the association.                    *)
KsidArrives ==
  /\ Told("B", "ksid")
  /\ Ends("B", Quiet([app["B"] EXCEPT !.state = "ESTABLISHING_ASSOCIATIONS",
                                      !.asked = Append(@, "open_connect")]), Heard("B"))
  /\ UNCHANGED <<set, kms, seen>>

(* Its answer: both ends fill their queues.                                *)
KsidAnswered ==
  /\ Told("A", "ksid_ok")
  /\ LET a == [app["A"] EXCEPT !.verified = TRUE, !.state = "ESTABLISHING_KEY_QUEUES"]
         o == CheckQueues("A", a)
     IN Ends("A", [o EXCEPT !.says = <<"queues">>], Heard("A"))
  /\ UNCHANGED <<set, kms, seen>>

EstablishQueues ==
  /\ Told("B", "queues")
  /\ Ends("B", CheckQueues("B", [app["B"] EXCEPT !.state = "ESTABLISHING_KEY_QUEUES"]), Heard("B"))
  /\ UNCHANGED <<set, kms, seen>>

QueuesAnswered ==
  /\ Told("A", "queues_ok")
  /\ LET a == [app["A"] EXCEPT !.peer = TRUE]
     IN Ends("A", IF a.own THEN StartsSending(a) ELSE Quiet(a), Heard("A"))
  /\ UNCHANGED <<set, kms, seen>>

-----------------------------------------------------------------------------
(* Packets.                                                                *)

(* The timer of ScheduleTx.  In WAIT it is only started again.             *)
(* Mutant: it is not.                                                      *)
MissedAndStops(a) == [a EXCEPT !.timer = FALSE]

Missed(a) == a

ScheduledSend ==
  /\ app["A"].timer /\ Len(data) < MaxAir
  /\ LET a == app["A"]
     IN Ends("A", IF a.state = "READY" THEN SendPacket([a EXCEPT !.timer = FALSE])
                  ELSE Quiet(Missed(a)), sig)
  /\ UNCHANGED <<set, kms, seen>>

(* ProcessDataPacket.  A stream that is empty passes for one in sync, and  *)
(* the packet is dropped; otherwise the first key is used, whether it is   *)
(* the one the packet names or not.                                        *)
DataArrives ==
  /\ data # <<>> /\ Len(app["B"].asked) + 2 <= MaxAsked
  /\ LET b    == app["B"]
         i    == Head(data)
         keys == SyncStream(b.keys, i)
         late == IF InSync(b.keys, i) THEN 0 ELSE 1
         gone == DOMAIN keys = {}
         rest == IF gone THEN keys ELSE GetKey(keys)
         used == IF gone \/ Cardinality(DOMAIN rest) < Cardinality(DOMAIN keys) THEN 1 ELSE 0
     IN /\ app' = [app EXCEPT !["B"] =
                     GetKeyFromKMS([b EXCEPT !.keys = rest, !.state = "READY"], late + used)]
        /\ seen' = seen \cup (IF i \in DOMAIN keys THEN {} ELSE {"late"})
                        \cup (IF gone \/ First(keys) = i THEN {} ELSE {"another"})
  /\ data' = Tail(data)
  /\ UNCHANGED <<set, sig, kms>>

DataLost ==
  /\ set.udp /\ data # <<>>
  /\ data' = Tail(data)
  /\ seen' = seen \cup {"lost"}
  /\ UNCHANGED <<set, app, sig, kms>>

Next ==
  \/ AssociationOpened \/ AssociationJoined
  \/ \E n \in Node : KeyAnswered(n) \/ KeyRefused(n) \/ ScheduledRetry(n) \/ Filled(n)
  \/ NewApp \/ KsidArrives \/ KsidAnswered \/ EstablishQueues \/ QueuesAnswered
  \/ ScheduledSend \/ DataArrives \/ DataLost

Spec == Init /\ [][Next]_vars

(* TCP delivers, KMSs answer and fill the session, and timers fire.        *)
Fairness ==
  /\ WF_vars(AssociationOpened) /\ WF_vars(AssociationJoined) /\ WF_vars(NewApp)
  /\ \A n \in Node : /\ WF_vars(KeyAnswered(n) \/ KeyRefused(n))
                     /\ WF_vars(ScheduledRetry(n)) /\ WF_vars(Filled(n))
  /\ WF_vars(KsidArrives) /\ WF_vars(KsidAnswered)
  /\ WF_vars(EstablishQueues) /\ WF_vars(QueuesAnswered)

FairSpec == Spec /\ Fairness

-----------------------------------------------------------------------------
(* Properties                                                              *)

State == {"ESTABLISHING_ASSOCIATIONS", "ESTABLISHING_KEY_QUEUES", "READY", "WAIT"}

TypeOK ==
  /\ set \in [life : Lives, udp : BOOLEAN]
  /\ \A n \in Node : /\ app[n].state \in State /\ app[n].verified \in BOOLEAN
                     /\ DOMAIN app[n].keys \subseteq Index
                     /\ \A i \in DOMAIN app[n].keys : app[n].keys[i] \in 0 .. set.life
                     /\ app[n].retries \in Nat
                     /\ kms.next[n] \in 0 .. kms.filled[n] /\ kms.filled[n] \in 0 .. Chunks
  /\ \A i \in DOMAIN data : data[i] \in Index

(* Alice has begun to send.                                                *)
Sending == app["A"].state \in {"READY", "WAIT"}

(* An application that has begun to send keeps sending: its timer is always*)
(* pending, and it is READY only with a key (SendPacket without a key      *)
(* returns without a timer).                                               *)
SendsOn ==
  /\ TypeOK
  /\ Sending => app["A"].timer
  /\ app["A"].state = "READY" => DOMAIN app["A"].keys # {}

(* The window of an application: the keys it has, and those it has asked   *)
(* for.                                                                    *)
Window(n) ==
  Cardinality(DOMAIN app[n].keys) + app[n].retries
    + Cardinality({i \in DOMAIN app[n].asked : app[n].asked[i] = "get_key"})

(* Every key an end has used up is replaced by one request, at each end on *)
(* its own: the windows keep the size of the queue, at Bob as long as his  *)
(* get_key is not refused and no packet is lost or arrives before the key  *)
(* it names.  Alice's grows where the lifetime is even, for she asks twice *)
(* for each key, although LengthOfKeyBufferForEncryption says "How many    *)
(* keys to store in local buffer" (qkd-app-004.cc:68).                     *)
(* And whatever happens, Bob never gives up a key while a packet on the way*)
(* is protected with it: he counts its uses himself, and drops keys when   *)
(* packets with later ones arrive.                                         *)
Even == set.life % 2 = 0

Regular == seen \cap {"lost", "late", "refused"} = {}

InStep ==
  /\ Sending => IF Even THEN Window("A") >= Size ELSE Window("A") = Size
  /\ Sending /\ Regular => Window("B") = Size
  /\ \A j \in DOMAIN data : data[j] \in DOMAIN app["B"].keys \/ data[j] >= kms.next["B"]

(* ProcessDataPacket: "Out of sync(delayed packet)! Packet is dropped!"    *)
(* (qkd-app-004.cc:1233).  It fails for a packet that arrives before the   *)
(* key it names: an older key that is left is used in its place.           *)
NamedKeyUsed == "another" \notin seen

(* Alice begins to send, and does not wait for ever, unless the chunks end *)
(* or Bob's KMS has ignored his open_connect, which nobody repeats.        *)
BecomesReady ==
  ~(app["A"].state = "READY") ~> \/ app["A"].state = "READY"
                                 \/ "ignored" \in seen
                                 \/ kms.next["A"] = Chunks
=============================================================================
