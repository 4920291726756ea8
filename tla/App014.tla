------------------------------- MODULE App014 -------------------------------
(***************************************************************************)
(* A pair of ETSI 014 applications (model/qkd-app-014.cc).  The primary    *)
(* (Alice) fetches keys with enc_keys, proposes their identifiers to the   *)
(* replica (Bob), and moves them to her stores when Bob has answered that  *)
(* he fetched them with dec_keys; then she sends packets that name the keys*)
(* they are protected with.                                                *)
(*                                                                         *)
(* An answer of the KMS to enc_keys does not say what kind of key was      *)
(* asked for, an answer of Bob not which proposal it is about: both are    *)
(* mapped by a queue of requests (queue, proposed).  The KMSs are external:*)
(* enc_keys returns identifiers no one has got before, whose keys the KMS  *)
(* of Bob can hand out once (what KmsLink shows of them).                  *)
(*                                                                         *)
(* A connection to a KMS may fall silent (`up'): nothing on it is answered *)
(* any more until the watchdog of three seconds replaces it.               *)
(***************************************************************************)
EXTENDS Naturals, Sequences, FiniteSets

CONSTANTS
  KeyIds,     \* key identifiers, in the order of std::map
  Batch,      \* NumberOfKeyToFetchFromKMS
  Life,       \* packets an AES key is good for: AESLifetime / packet size
  Settings,   \* the settings of the pair that are looked at
  Faulty,     \* those in which a KMS may refuse, or a connection fall silent
  Overlap,    \* Bob's connection may fall silent with several proposals open
  MaxAsked,   \* bound on the unanswered requests on a connection
  MaxAir,     \* bound on the packets on the way
  MaxFaults   \* bound on the faults

Kinds == {"encryption", "authentication"}

(* cipher and auth are EncryptionType and AuthenticationType (VMAC), udp is*)
(* the type of the data socket, slow says that packets are so rare that    *)
(* three seconds may pass between two looks at the stores.                 *)
Setting == [cipher : {"OTP", "AES"}, auth : BOOLEAN, udp : BOOLEAN, slow : BOOLEAN]

ASSUME App014Assumption ==
  /\ KeyIds \subseteq Nat /\ IsFiniteSet(KeyIds)
  /\ Batch \in Nat \ {0} /\ Life \in Nat \ {0}
  /\ Settings \subseteq Setting /\ Faulty \subseteq Settings
  /\ Overlap \in BOOLEAN
  /\ MaxAsked \in Nat /\ MaxAir \in Nat /\ MaxFaults \in Nat

VARIABLES
  set,      \* the settings of the pair
  alice,    \* the primary application
  bob,      \* the replica
  sig,      \* signalling on the way to each of them
  data,     \* packets on the way to Bob
  kms,      \* the kind every key was made for, and the keys kept for Bob
  faults,   \* faults so far
  failed    \* a key that is not there has been used

vars == <<set, alice, bob, sig, data, kms, faults, failed>>

(* After StartApplication: Alice has asked for the status, and as she has  *)
(* no key to send the first packet with, a look at the stores is scheduled.*)
Init ==
  /\ set \in Settings
  /\ alice = [state |-> "WAIT",
              enc |-> [k \in KeyIds |-> 0],     \* packets left, 0: not in m_encStore
              auth |-> {},                      \* m_authStore
              common |-> [k \in KeyIds |-> "none"],
              queue |-> <<>>,                   \* m_kmsHttpReqQueue
              proposed |-> <<>>,                \* m_appHttpReqQueue
              asked |-> <<"status">>,           \* requests on the connection
              up |-> TRUE, watch |-> FALSE, look |-> TRUE]
  /\ bob = [store |-> [k \in KeyIds |-> 0], asked |-> <<>>, up |-> TRUE, watch |-> FALSE]
  /\ sig = [alice |-> <<>>, bob |-> <<>>]
  /\ data = <<>>
  /\ kms = [made |-> [k \in KeyIds |-> "none"], kept |-> {}]
  /\ faults = 0
  /\ failed = FALSE

Fault == set \in Faulty /\ faults < MaxFaults /\ faults' = faults + 1

EncKeys(a) == {k \in KeyIds : a.enc[k] > 0}

Lacks(a, kind) ==
  IF kind = "encryption" THEN EncKeys(a) = {} ELSE set.auth /\ a.auth = {}

-----------------------------------------------------------------------------
(* The stores of Alice.                                                    *)

(* Mutant: a store that has become empty does not end READY.               *)
CheckAppStateUp(a) ==
  IF \E kind \in Kinds : Lacks(a, kind) THEN a ELSE [a EXCEPT !.state = "READY"]

CheckAppState(a) ==
  [a EXCEPT !.state = IF \E kind \in Kinds : Lacks(a, kind) THEN "WAIT" ELSE "READY"]

(* Requests beyond MaxAsked on a silent connection are not counted: none is*)
(* ever answered, they only restart the watchdog.                          *)
GetKeysFromKMS(a, kind) ==
  IF ~a.up /\ Len(a.asked) >= MaxAsked THEN [a EXCEPT !.watch = TRUE]
  ELSE [a EXCEPT !.queue = Append(@, kind), !.asked = Append(@, kind), !.watch = TRUE]

ManageStores(a) ==
  LET b == IF Lacks(a, "encryption") THEN GetKeysFromKMS(a, "encryption") ELSE a
      c == IF Lacks(b, "authentication") THEN GetKeysFromKMS(b, "authentication") ELSE b
  IN CheckAppState(c)

(* The scheduled look at the stores.                                       *)
ScheduledLook ==
  /\ alice.look /\ (Len(alice.asked) < MaxAsked \/ ~alice.up)
  /\ alice' = ManageStores([alice EXCEPT !.look = FALSE])
  /\ UNCHANGED <<set, bob, sig, data, kms, faults, failed>>

(* What one packet takes from an encryption key: of AES its lifetime, of a *)
(* one-time pad nothing (GetLocalKey removes keys of AES only).            *)
Used(left) == IF set.cipher = "AES" THEN left - 1 ELSE left

First(keys) == CHOOSE k \in keys : \A j \in keys : k <= j

(* SendDataPacket in READY: the keys are taken, and the stores are looked  *)
(* at again.  No key is a null pointer.                                    *)
Send ==
  /\ alice.state = "READY" /\ Len(data) < MaxAir
  /\ IF \E kind \in Kinds : Lacks(alice, kind)
       THEN failed' = TRUE /\ UNCHANGED <<alice, data>>
       ELSE LET k == First(EncKeys(alice))
                t == IF set.auth THEN {First(alice.auth)} ELSE {}
            IN /\ data' = Append(data, [enc |-> k, auth |-> t])
               /\ alice' = ManageStores([alice EXCEPT !.enc[k] = Used(@), !.auth = @ \ t])
               /\ UNCHANGED failed
  /\ UNCHANGED <<set, bob, sig, kms, faults>>

(* SendDataPacket in WAIT: a look is scheduled.                            *)
Miss ==
  /\ alice.state = "WAIT" /\ ~alice.look
  /\ alice' = [alice EXCEPT !.look = TRUE]
  /\ UNCHANGED <<set, bob, sig, data, kms, faults, failed>>

-----------------------------------------------------------------------------
(* Answers of the KMS to Alice.  Each stops the watchdog.                  *)
Answered(a, i) ==
  [a EXCEPT !.asked = SubSeq(@, 1, i - 1) \o SubSeq(@, i + 1, Len(@)), !.watch = FALSE]

HeadAsked(a, kinds) == a.up /\ a.asked # <<>> /\ Head(a.asked) \in kinds

StatusAnswered ==
  /\ HeadAsked(alice, {"status"})
  /\ alice' = ManageStores(Answered(alice, 1))
  /\ UNCHANGED <<set, bob, sig, data, kms, faults, failed>>

(* enc_keys: keys of the kind the request was for; Alice takes them to be  *)
(* of the kind at the head of her queue, and proposes them to Bob.         *)
(* Mutant: the latest request is taken from the queue.                     *)
PopHttpKmsRequestLast(a) == [kind |-> a.queue[Len(a.queue)],
                             rest |-> SubSeq(a.queue, 1, Len(a.queue) - 1)]

PopHttpKmsRequest(a) == [kind |-> Head(a.queue), rest |-> Tail(a.queue)]

Fresh == {k \in KeyIds : kms.made[k] = "none"}

EncKeysAnswered ==
  /\ HeadAsked(alice, Kinds)
  /\ Overlap \/ bob.up \/ alice.proposed = <<>>
  /\ \E ids \in SUBSET Fresh :
       /\ Cardinality(ids) = Batch
       /\ kms' = [made |-> [k \in KeyIds |->
                              IF k \in ids THEN Head(alice.asked) ELSE kms.made[k]],
                  kept |-> kms.kept \cup ids]
       /\ LET pop == PopHttpKmsRequest(alice)
          IN alice' = [Answered(alice, 1) EXCEPT
                         !.queue = pop.rest,
                         !.common = [k \in KeyIds |-> IF k \in ids THEN pop.kind ELSE @[k]],
                         !.proposed = Append(@, ids)]
       /\ sig' = [sig EXCEPT !.bob = Append(@, ids)]
  /\ UNCHANGED <<set, bob, data, faults, failed>>

(* "insufficient amount of key material": the KMS answers at once, in front*)
(* of the requests it still works on.  The queue keeps its entry.          *)
EncKeysRefused ==
  /\ alice.up /\ Fault
  /\ \E i \in DOMAIN alice.asked :
       /\ alice.asked[i] \in Kinds
       /\ alice' = [Answered(alice, i) EXCEPT !.look = TRUE]
  /\ UNCHANGED <<set, bob, sig, data, kms, failed>>

(* KmsRequestTimeout.  Every request starts the watchdog afresh, so that   *)
(* frequent looks at an empty store keep it from firing.                   *)
Silent(who) == who.watch /\ ~who.up

(* Mutant: the connection that fell silent is used again.                  *)
ReconnectedToSame(who) == [who EXCEPT !.watch = FALSE]

Reconnected(who) == [who EXCEPT !.asked = <<>>, !.up = TRUE, !.watch = FALSE]

KmsRequestTimeoutAlice ==
  /\ Silent(alice)
  /\ set.slow \/ \A kind \in Kinds : ~Lacks(alice, kind)
  /\ alice' = ManageStores(Reconnected(alice))
  /\ UNCHANGED <<set, bob, sig, data, kms, faults, failed>>

ConnectionSilentAlice ==
  /\ alice.up /\ Fault
  /\ alice' = [alice EXCEPT !.up = FALSE]
  /\ UNCHANGED <<set, bob, sig, data, kms, failed>>

-----------------------------------------------------------------------------
(* Bob: the identifiers arrive, and he asks his KMS for the keys.          *)
ProposalArrives ==
  /\ sig.bob # <<>> /\ Len(bob.asked) < MaxAsked
  /\ bob' = [bob EXCEPT !.asked = Append(@, Head(sig.bob)), !.watch = TRUE]
  /\ sig' = [sig EXCEPT !.bob = Tail(@)]
  /\ UNCHANGED <<set, alice, data, kms, faults, failed>>

(* dec_keys: all of the keys, or an error; those found are gone in any case*)
DecKeys(ids) == ids \subseteq kms.kept

DecKeysAnswered ==
  /\ bob.up /\ bob.asked # <<>>
  /\ LET ids == Head(bob.asked)
         ok  == DecKeys(ids)
     IN /\ bob' = [bob EXCEPT !.asked = Tail(@), !.watch = FALSE,
                     !.store = [k \in KeyIds |-> IF ok /\ k \in ids THEN Life ELSE @[k]]]
        /\ sig' = [sig EXCEPT !.alice = Append(@, IF ok THEN "Ok" ELSE "BadRequest")]
        /\ kms' = [kms EXCEPT !.kept = @ \ ids]
  /\ UNCHANGED <<set, alice, data, faults, failed>>

(* Bob's watchdog tells Alice of one error, whatever was outstanding.      *)
KmsRequestTimeoutBob ==
  /\ Silent(bob)
  /\ bob' = Reconnected(bob)
  /\ sig' = [sig EXCEPT !.alice = Append(@, "BadRequest")]
  /\ UNCHANGED <<set, alice, data, kms, faults, failed>>

ConnectionSilentBob ==
  /\ bob.up /\ Fault
  /\ Overlap \/ Len(alice.proposed) <= 1
  /\ Overlap \/ bob.watch \/ bob.asked = <<>>
  /\ bob' = [bob EXCEPT !.up = FALSE]
  /\ UNCHANGED <<set, alice, sig, data, kms, failed>>

(* Alice moves the keys of her first proposal to their stores.             *)
LifeOf(kind) == IF kind = "encryption" /\ set.cipher = "AES" THEN Life ELSE 1

(* Mutant: the keys are in use as soon as any answer arrives.              *)
AcceptedAny(status) == TRUE

Accepted(status) == status = "Ok"

Moved(a, ids) ==
  LET of(kind) == {k \in ids : a.common[k] = kind}
  IN [a EXCEPT
        !.enc = [k \in KeyIds |-> IF k \in of("encryption") THEN LifeOf("encryption") ELSE @[k]],
        !.auth = @ \cup of("authentication"),
        !.common = [k \in KeyIds |-> IF k \in ids THEN "none" ELSE @[k]]]

(* After an error the keys are forgotten, and asked for again, as the kind *)
(* of the last one found; AppKey::Type is ENCRYPTION by default.           *)
KindAgain(a, ids) ==
  IF \E k \in ids : a.common[k] = "authentication" THEN "authentication" ELSE "encryption"

Forgotten(a, ids) == [a EXCEPT !.common = [k \in KeyIds |-> IF k \in ids THEN "none" ELSE @[k]]]

ProposalAnswered ==
  /\ sig.alice # <<>>
  /\ sig' = [sig EXCEPT !.alice = Tail(@)]
  /\ IF alice.proposed = <<>> THEN failed' = TRUE /\ UNCHANGED alice
     ELSE LET ids == Head(alice.proposed)
              a == [alice EXCEPT !.proposed = Tail(@)]
          IN /\ alice' = IF Accepted(Head(sig.alice)) THEN CheckAppState(Moved(a, ids))
                         ELSE GetKeysFromKMS(Forgotten(a, ids), KindAgain(a, ids))
             /\ UNCHANGED failed
  /\ UNCHANGED <<set, bob, data, kms, faults>>

(* ProcessDataPacket: the keys the packet names.  Bob holds every key as an*)
(* encryption key.                                                         *)
DataArrives ==
  /\ data # <<>>
  /\ data' = Tail(data)
  /\ LET used == {Head(data).enc} \cup Head(data).auth
     IN /\ failed' = (failed \/ \E k \in used : bob.store[k] = 0)
        /\ bob' = [bob EXCEPT !.store =
                     [k \in KeyIds |-> IF k \in used /\ @[k] > 0 THEN Used(@[k]) ELSE @[k]]]
  /\ UNCHANGED <<set, alice, sig, kms, faults>>

DataLost ==
  /\ set.udp /\ data # <<>>
  /\ data' = Tail(data)
  /\ UNCHANGED <<set, alice, bob, sig, kms, faults, failed>>

Next ==
  \/ ScheduledLook \/ Send \/ Miss
  \/ StatusAnswered \/ EncKeysAnswered \/ EncKeysRefused
  \/ KmsRequestTimeoutAlice \/ ConnectionSilentAlice
  \/ ProposalArrives \/ DecKeysAnswered \/ KmsRequestTimeoutBob \/ ConnectionSilentBob
  \/ ProposalAnswered \/ DataArrives \/ DataLost

Spec == Init /\ [][Next]_vars

(* Timers fire, TCP delivers, and a KMS answers on a connection that is up.*)
Fairness ==
  /\ WF_vars(ScheduledLook) /\ WF_vars(Miss)
  /\ WF_vars(StatusAnswered \/ EncKeysAnswered)
  /\ WF_vars(KmsRequestTimeoutAlice) /\ WF_vars(KmsRequestTimeoutBob)
  /\ WF_vars(ProposalArrives) /\ WF_vars(DecKeysAnswered) /\ WF_vars(ProposalAnswered)

FairSpec == Spec /\ Fairness

-----------------------------------------------------------------------------
(* Properties                                                              *)

(* The state of the pair is well formed, and a key is in one store of Alice*)
(* at most.                                                                *)
TypeOK ==
  /\ set \in Settings /\ alice.state \in {"WAIT", "READY"}
  /\ alice.enc \in [KeyIds -> 0 .. Life] /\ bob.store \in [KeyIds -> 0 .. Life]
  /\ alice.common \in [KeyIds -> Kinds \cup {"none"}]
  /\ \A k \in EncKeys(alice) : alice.common[k] = "none" /\ k \notin alice.auth
  /\ \A k \in alice.auth : alice.common[k] = "none"
  /\ kms.kept \subseteq KeyIds \ Fresh

(* Bob finds the keys of every packet.  He counts the uses of a key on his *)
(* own: in front of each packet he has at least as many left as the packets*)
(* on the way and Alice's store will still ask of him.                     *)
InAir(k) == Cardinality({i \in DOMAIN data : data[i].enc = k})

PacketFindsKeys ==
  /\ TypeOK /\ ~failed
  /\ \A i \in DOMAIN data : \A k \in {data[i].enc} \cup data[i].auth : bob.store[k] > 0
  /\ \A k \in EncKeys(alice) :
       bob.store[k] >= IF set.cipher = "AES" THEN alice.enc[k] + InAir(k) ELSE 1
  /\ \A i \in DOMAIN data : set.cipher = "AES" => bob.store[data[i].enc] >= InAir(data[i].enc)

(* "Adds HTTP request to kms queue to properly map response later"         *)
(* (qkd-app-014.h:483): a key is used for what it was made for, with the   *)
(* size that goes with it.                                                 *)
KindsAgree ==
  /\ \A k \in EncKeys(alice) : kms.made[k] = "encryption"
  /\ \A k \in alice.auth : kms.made[k] = "authentication"

(* An application that waits for keys gets them, whatever was refused and  *)
(* whichever connection fell silent, unless the keys end.  Where packets   *)
(* are frequent nothing is claimed once Alice's connection is silent.      *)
WaitEnds ==
  alice.state = "WAIT" ~> \/ alice.state = "READY" \/ Cardinality(Fresh) < Batch
                          \/ ~set.slow /\ ~alice.up
=============================================================================
