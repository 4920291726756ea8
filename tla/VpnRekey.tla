------------------------------ MODULE VpnRekey ------------------------------
(***************************************************************************)
(* The transactional rekeying of the two VPN endpoints                     *)
(* (docker/vpn/qkd-vpn.py).  Alice drives each generation: she takes a key *)
(* from her KMS, has Bob take the same key (/prepare), lets him drop the   *)
(* old connection (/activate), starts the IKE_SA, checks it at both ends   *)
(* (/status) and commits (/commit); any failure after the keys matched is  *)
(* rolled back.  Every request is retried; a request or its answer may be  *)
(* lost, and a request Alice has given up may still reach Bob's server, a  *)
(* thread per request behind STATE.lock.                                   *)
(*                                                                         *)
(* External, modelled from its use: the two KMSs (what get_key, enc_keys   *)
(* and dec_keys consume) and strongSwan (what up, down and statusall do).  *)
(***************************************************************************)
EXTENDS Naturals, FiniteSets

CONSTANTS
  Interface,     \* QKD_INTERFACE: "004" or "014"
  RetryLimit,    \* RETRY_LIMIT; also the attempts of initiate (5 in the code)
  MaxGen,        \* bound: generations explored
  MaxKeys,       \* bound: keys the KMSs deliver
  MaxFaults,     \* bound: messages lost and calls failed by the environment
  LateRequests   \* may a request Alice gave up still be executed?

ASSUME InterfaceAssumption == Interface \in {"004", "014"}
ASSUME BoundsAssumption    == /\ RetryLimit \in Nat \ {0}
                              /\ MaxGen \in Nat /\ MaxKeys \in Nat /\ MaxFaults \in Nat
ASSUME LateAssumption      == LateRequests \in BOOLEAN

VARIABLES
  alice,    \* phase and retry of rotate_alice, STATE.current, the key in hand
  call,     \* the request Alice waits on: sent, or its answer
  bob,      \* STATE at Bob
  late,     \* requests Alice gave up that Bob's server may still execute
  kms,      \* keys the two KMSs have handed out
  ipsec,    \* connection files and secret at each endpoint
  sa,       \* the IKE_SA each endpoint reports ESTABLISHED
  faults    \* faults so far

vars == <<alice, call, bob, late, kms, ipsec, sa, faults>>

Gen == 0 .. MaxGen
Key == 0 .. MaxKeys                 \* a stream index or a key_ID; 0 is none
Version == [gen : Gen, key : Key]   \* KeyVersion; its digest is its key
None == [gen |-> 0, key |-> 0]
End == {"A", "B"}

(* The phases in which Alice waits on Bob, and what she asks there.        *)
RequestOf == [ session  |-> "session",  prepare |-> "prepare", mismatch |-> "rollback",
               activate |-> "activate", status  |-> "status",  commit   |-> "commit",
               rollback |-> "rollback", restored |-> "restored" ]

Calling == DOMAIN RequestOf
Phase == Calling \cup {"idle", "up", "restore", "stopped"}
Request == [type : {RequestOf[p] : p \in Calling}, gen : Gen, key : Key]

(* peer_request: the answer carries the key a /prepare reports.            *)
Sent == [at |-> "sent", ok |-> FALSE, key |-> 0]
Answer(ok, key) == [at |-> "answered", ok |-> ok, key |-> key]

Up(e, g) == g # 0 /\ sa[e].gen = g           \* tunnel_is_up

Init ==
  /\ alice = [phase |-> "session", tries |-> 0, cur |-> None, key |-> None]
  /\ call = Sent
  /\ bob = [ready |-> FALSE, cur |-> None, pend |-> None]
  /\ late = {}
  /\ kms = [a |-> 1, b |-> 1, supply |-> {}]
  /\ ipsec = [e \in End |-> [conn |-> {}, secret |-> 0]]
  /\ sa = [e \in End |-> None]
  /\ faults = 0

Fault(n) == faults + n <= MaxFaults /\ faults' = faults + n

-----------------------------------------------------------------------------
(* The KMSs.  A get_key answer that is lost has moved the stream on, and   *)
(* the retry returns the next chunk; a lost dec_keys answer took the key   *)
(* from the store.  `lost' counts lost answers.                            *)

(* Alice's KMS hands out the keys up to `next'; with ETSI 014 it has their *)
(* duplicates stored for Bob.                                              *)
HandOut(next) ==
  kms' = [a |-> next, b |-> kms.b,
          supply |-> IF Interface = "014" THEN kms.supply \cup kms.a .. next - 1
                                          ELSE kms.supply]

TakeAtAlice(lost) ==
  /\ kms.a + lost <= MaxKeys
  /\ HandOut(kms.a + lost + 1)

WasteAtAlice(lost) ==
  /\ kms.a + lost <= MaxKeys + 1
  /\ HandOut(kms.a + lost)

(* Bob obtains key k: the next chunk of the stream, or the key of that id. *)
TakeAtBob(k, lost) ==
  \/ /\ Interface = "004" /\ k = kms.b + lost /\ k <= MaxKeys
     /\ kms' = [kms EXCEPT !.b = k + 1]
  \/ /\ Interface = "014" /\ k \in kms.supply /\ lost = 0
     /\ kms' = [kms EXCEPT !.supply = @ \ {k}]

WasteAtBob(k, lost) ==
  \/ /\ Interface = "004" /\ kms.b + lost <= MaxKeys + 1
     /\ kms' = [kms EXCEPT !.b = @ + lost]
  \/ /\ Interface = "014" /\ lost <= 1
     /\ kms' = [kms EXCEPT !.supply = IF lost = 1 THEN @ \ {k} ELSE @]

-----------------------------------------------------------------------------
(* Bob's control API.  Each handler holds STATE.lock from start to end.    *)
(* `ok' is a 200 answer.                                                   *)

SetBob(conn, secret) ==
  ipsec' = [ipsec EXCEPT !["B"] = [conn |-> conn, secret |-> secret]]

Known(g) == bob.pend.gen = g \/ bob.cur.gen = g

(* do_POST /session: with ETSI 004 the registration of the KSID at Bob's   *)
(* KMS may fail.                                                           *)
HandleSession(ok) ==
  /\ \/ ok /\ bob' = [bob EXCEPT !.ready = TRUE] /\ UNCHANGED faults
     \/ /\ ~ok /\ Interface = "004" /\ ~bob.ready
        /\ Fault(1) /\ UNCHANGED bob
  /\ UNCHANGED <<kms, ipsec, sa>>

(* prepare_bob, a generation it has already.                               *)
HandlePreparedAgain(g, ok) ==
  /\ Known(g) /\ ok
  /\ UNCHANGED <<bob, kms, ipsec, sa, faults>>

HandlePrepareInvalid(g, ok) ==
  /\ ~Known(g) /\ ~ok
  /\ g # bob.cur.gen + 1 \/ ~bob.ready
  /\ UNCHANGED <<bob, kms, ipsec, sa, faults>>

(* prepare_bob, a new generation: take the key, install it beside the old  *)
(* connection.                                                             *)
HandlePrepare(g, k, ok) ==
  /\ ~Known(g) /\ g = bob.cur.gen + 1 /\ bob.ready /\ ok
  /\ \E got \in Key \ {0}, lost \in 0 .. RetryLimit - 1 :
       /\ Interface = "014" => got = k
       /\ TakeAtBob(got, lost) /\ Fault(lost)
       /\ bob' = [bob EXCEPT !.pend = [gen |-> g, key |-> got]]
       /\ SetBob(ipsec["B"].conn \cup {g}, got)
  /\ UNCHANGED sa

(* prepare_bob gives up: every fetch of its retry failed.  A dec_keys for a*)
(* key the KMS does not hold fails without any fault.                      *)
HandlePrepareFails(g, k, ok) ==
  /\ ~Known(g) /\ g = bob.cur.gen + 1 /\ bob.ready /\ ~ok
  /\ \/ \E lost \in 0 .. RetryLimit : WasteAtBob(k, lost) /\ Fault(lost + 1)
     \/ /\ Interface = "014" /\ k \notin kms.supply
        /\ UNCHANGED <<kms, faults>>
  /\ UNCHANGED <<bob, ipsec, sa>>

(* Mutant: the pending generation is not checked.                          *)
HandleActivateUnchecked(g, ok) ==
  /\ ok
  /\ SetBob(ipsec["B"].conn \ {bob.cur.gen}, ipsec["B"].secret)
  /\ UNCHANGED <<bob, kms, sa, faults>>

HandleActivate(g, ok) ==
  /\ ok <=> bob.pend.gen = g
  /\ IF ok THEN SetBob(ipsec["B"].conn \ {bob.cur.gen}, ipsec["B"].secret)
           ELSE UNCHANGED ipsec
  /\ UNCHANGED <<bob, kms, sa, faults>>

(* Mutant: a generation committed already is not recognised.               *)
HandleCommitOnce(g, ok) ==
  \/ /\ ~ok /\ (bob.pend.gen # g \/ ~Up("B", g))
     /\ UNCHANGED <<bob, kms, ipsec, sa, faults>>
  \/ /\ ok /\ bob.pend.gen = g /\ Up("B", g)
     /\ bob' = [ready |-> bob.ready, cur |-> bob.pend, pend |-> None]
     /\ SetBob(ipsec["B"].conn \ {bob.cur.gen}, ipsec["B"].secret)
     /\ UNCHANGED <<kms, sa, faults>>

HandleCommit(g, ok) ==
  \/ /\ ok <=> bob.cur.gen = g
     /\ bob.cur.gen = g \/ bob.pend.gen # g \/ ~Up("B", g)
     /\ UNCHANGED <<bob, kms, ipsec, sa, faults>>
  \/ /\ ok /\ bob.cur.gen # g /\ bob.pend.gen = g /\ Up("B", g)
     /\ bob' = [ready |-> bob.ready, cur |-> bob.pend, pend |-> None]
     /\ SetBob(ipsec["B"].conn \ {bob.cur.gen}, ipsec["B"].secret)
     /\ UNCHANGED <<kms, sa, faults>>

(* Mutant: the connection is restored, the secret is not.                  *)
HandleRollbackKeepsSecret(g, ok) ==
  LET pending == bob.pend.gen = g
      dropped == IF pending THEN {g} ELSE {}
  IN /\ ok
     /\ bob' = IF pending THEN [bob EXCEPT !.pend = None] ELSE bob
     /\ SetBob((ipsec["B"].conn \ dropped) \cup ({bob.cur.gen} \ {0}), ipsec["B"].secret)
     /\ UNCHANGED <<kms, sa, faults>>

HandleRollback(g, ok) ==
  LET dropped == IF bob.pend.gen = g THEN {g} ELSE {}
      restored == {bob.cur.gen} \ {0}
  IN /\ ok
     /\ bob' = IF bob.pend.gen = g THEN [bob EXCEPT !.pend = None] ELSE bob
     /\ SetBob((ipsec["B"].conn \ dropped) \cup restored, bob.cur.key)
     /\ UNCHANGED <<kms, sa, faults>>

(* GET /status, read without the lock; require_peer_tunnel rejects "no".   *)
HandleStatus(g, ok) ==
  /\ ok <=> Up("B", g)
  /\ UNCHANGED <<bob, kms, ipsec, sa, faults>>

HandleRestored(ok) == ok /\ UNCHANGED <<bob, kms, ipsec, sa, faults>>

Handle(r, ok) ==
  \/ r.type = "session"  /\ HandleSession(ok)
  \/ r.type = "prepare"  /\ \/ HandlePreparedAgain(r.gen, ok)
                            \/ HandlePrepareInvalid(r.gen, ok)
                            \/ HandlePrepare(r.gen, r.key, ok)
                            \/ HandlePrepareFails(r.gen, r.key, ok)
  \/ r.type = "activate" /\ HandleActivate(r.gen, ok)
  \/ r.type = "status"   /\ HandleStatus(r.gen, ok)
  \/ r.type = "commit"   /\ HandleCommit(r.gen, ok)
  \/ r.type = "rollback" /\ HandleRollback(r.gen, ok)
  \/ r.type = "restored" /\ HandleRestored(ok)

(* The version an answered /prepare reports.                               *)
Reported(b, g) == IF b.pend.gen = g THEN b.pend ELSE b.cur

-----------------------------------------------------------------------------
(* The network between the endpoints.                                      *)

Waiting == alice.phase \in Calling

Asked == [type |-> RequestOf[alice.phase], gen |-> alice.key.gen, key |-> alice.key.key]

(* Bob's server executes the request Alice waits on.                       *)
Answered ==
  /\ Waiting /\ call.at = "sent"
  /\ \E ok \in BOOLEAN :
       /\ Handle(Asked, ok)
       /\ call' = Answer(ok, Reported(bob', alice.key.gen).key)
  /\ UNCHANGED <<alice, late>>

(* A thread of a request Alice no longer waits on gets its turn.           *)
LateRequest ==
  \E r \in late :
    /\ late' = late \ {r}
    /\ \E ok \in BOOLEAN : Handle(r, ok)
    /\ UNCHANGED <<alice, call>>

-----------------------------------------------------------------------------
(* Alice.                                                                  *)

Enter(phase) ==
  /\ alice' = [phase |-> phase, tries |-> 0, cur |-> alice.cur,
               key |-> IF phase = "idle" THEN None ELSE alice.key]
  /\ call' = Sent

SetAlice(conn, secret) ==
  ipsec' = [ipsec EXCEPT !["A"] = [conn |-> conn, secret |-> secret]]

(* rotate_alice takes the key of the next generation from her KMS.         *)
Rotate ==
  /\ alice.phase = "idle" /\ alice.cur.gen < MaxGen
  /\ \E lost \in 0 .. RetryLimit - 1 :
       /\ TakeAtAlice(lost) /\ Fault(lost)
       /\ alice' = [phase |-> "prepare", tries |-> 0, cur |-> alice.cur,
                    key |-> [gen |-> alice.cur.gen + 1, key |-> kms.a + lost]]
  /\ call' = Sent
  /\ UNCHANGED <<bob, late, ipsec, sa>>

(* Every fetch of the retry failed: the rotation ends where it began.      *)
FetchFails ==
  /\ alice.phase = "idle" /\ alice.cur.gen < MaxGen
  /\ \E lost \in 0 .. RetryLimit : WasteAtAlice(lost) /\ Fault(lost + 1)
  /\ UNCHANGED <<alice, call, bob, late, ipsec, sa>>

(* Mutant: the status of the answer is not looked at.                      *)
AnyAnswer(phase) == alice.phase = phase /\ call.at = "answered"

OkAnswer(phase) == alice.phase = phase /\ call.at = "answered" /\ call.ok

SessionReady ==
  /\ OkAnswer("session") /\ Enter("idle")
  /\ UNCHANGED <<bob, late, kms, ipsec, sa, faults>>

(* The digests agree: install the new connection beside the old one.       *)
Matched ==
  /\ OkAnswer("prepare") /\ call.key = alice.key.key
  /\ SetAlice(ipsec["A"].conn \cup {alice.key.gen}, alice.key.key)
  /\ Enter(IF alice.cur.gen = 0 THEN "up" ELSE "activate")
  /\ UNCHANGED <<bob, late, kms, sa, faults>>

Mismatched ==
  /\ OkAnswer("prepare") /\ call.key # alice.key.key
  /\ Enter("mismatch")
  /\ UNCHANGED <<bob, late, kms, ipsec, sa, faults>>

(* Then the rotation fails: nothing was installed at Alice.                *)
MismatchTold ==
  /\ OkAnswer("mismatch") /\ Enter("idle")
  /\ UNCHANGED <<bob, late, kms, ipsec, sa, faults>>

(* `ipsec down' of the old IKE_SA: Alice drops her end, the notice may be  *)
(* lost.  Then the old connection is removed.                              *)
Cutover ==
  /\ OkAnswer("activate")
  /\ SetAlice(ipsec["A"].conn \ {alice.cur.gen}, ipsec["A"].secret)
  /\ \/ /\ Up("A", alice.cur.gen)
        /\ sa' = [e \in End |-> None] /\ UNCHANGED faults
     \/ /\ Up("A", alice.cur.gen)
        /\ sa' = [sa EXCEPT !["A"] = None] /\ Fault(1)
     \/ ~Up("A", alice.cur.gen) /\ UNCHANGED <<sa, faults>>
  /\ Enter("up")
  /\ UNCHANGED <<bob, late, kms>>

(* initiate: `ipsec up', for the new generation or to restore the old one. *)
Target == IF alice.phase = "up" THEN alice.key.gen ELSE alice.cur.gen

Initiating == alice.phase \in {"up", "restore"}

(* With an IKE_SA to the peer, up adds a CHILD_SA to it.  Otherwise it     *)
(* needs the connection and one secret at both ends; Bob names the IKE_SA  *)
(* after a connection he has, and is established before Alice is.  One     *)
(* fault may outlast several attempts.                                     *)
Establish ==
  /\ Initiating /\ sa["A"] = None /\ alice.tries < RetryLimit
  /\ Target \in ipsec["A"].conn /\ ipsec["A"].secret = ipsec["B"].secret
  /\ \E h \in ipsec["B"].conn :
       LET at(g) == [gen |-> g, key |-> ipsec["A"].secret]
       IN \/ sa' = [e \in End |-> IF e = "A" THEN at(Target) ELSE at(h)] /\ UNCHANGED faults
          \/ sa' = [sa EXCEPT !["B"] = at(h)] /\ Fault(1)
          \/ UNCHANGED sa /\ Fault(1)
  /\ \E n \in alice.tries + 1 .. RetryLimit : alice' = [alice EXCEPT !.tries = n]
  /\ UNCHANGED <<call, bob, late, kms, ipsec>>

Initiated ==
  /\ Initiating /\ Up("A", Target)
  /\ Enter(IF alice.phase = "up" THEN "status" ELSE "restored")
  /\ UNCHANGED <<bob, late, kms, ipsec, sa, faults>>

CanEstablish ==
  /\ sa["A"] = None /\ Target \in ipsec["A"].conn
  /\ ipsec["A"].secret = ipsec["B"].secret /\ ipsec["B"].conn # {}

InitiateFails ==
  /\ Initiating /\ ~Up("A", Target)
  /\ alice.tries = RetryLimit \/ ~CanEstablish
  /\ Enter(IF alice.phase = "up" THEN "rollback" ELSE "idle")
  /\ UNCHANGED <<bob, late, kms, ipsec, sa, faults>>

(* Mutant: Alice records the generation before Bob commits it.             *)
StatusSeenRecords ==
  /\ OkAnswer("status")
  /\ alice' = [phase |-> "commit", tries |-> 0, cur |-> alice.key, key |-> alice.key]
  /\ call' = Sent
  /\ UNCHANGED <<bob, late, kms, ipsec, sa, faults>>

StatusSeen ==
  /\ OkAnswer("status") /\ Enter("commit")
  /\ UNCHANGED <<bob, late, kms, ipsec, sa, faults>>

Commit ==
  /\ OkAnswer("commit")
  /\ alice' = [phase |-> "idle", tries |-> 0, cur |-> alice.key, key |-> None]
  /\ call' = Sent
  /\ SetAlice(ipsec["A"].conn \ {alice.cur.gen}, ipsec["A"].secret)
  /\ UNCHANGED <<bob, late, kms, sa, faults>>

(* Mutant: the previous connection is not installed again.                 *)
RestoreSecretOnly ==
  SetAlice(ipsec["A"].conn \ {alice.key.gen}, alice.cur.key)

(* The `finally' of rollback_alice.                                        *)
RestoreLocally ==
  SetAlice((ipsec["A"].conn \ {alice.key.gen}) \cup ({alice.cur.gen} \ {0}), alice.cur.key)

RolledBack ==
  /\ OkAnswer("rollback") /\ RestoreLocally
  /\ Enter(IF alice.cur.gen = 0 THEN "idle" ELSE "restore")
  /\ UNCHANGED <<bob, late, kms, sa, faults>>

Restored ==
  /\ OkAnswer("restored") /\ Enter("idle")
  /\ UNCHANGED <<bob, late, kms, ipsec, sa, faults>>

(* One attempt of a retry failed: Bob's answer was an error, ...           *)
Refused == call.at = "answered" /\ ~call.ok /\ UNCHANGED <<faults, late>>

(* ... or the request or its answer was lost, or took too long.            *)
Lost ==
  /\ Fault(1)
  /\ \/ UNCHANGED late
     \/ LateRequests /\ call.at = "sent" /\ late' = late \cup {Asked}

(* Mutants: the attempts are not bounded, or not counted.                  *)
RetryUnbounded ==
  /\ Waiting
  /\ Refused \/ Lost
  /\ alice' = [alice EXCEPT !.tries = @ + 1]
  /\ call' = Sent
  /\ UNCHANGED <<bob, kms, ipsec, sa>>

RetryUncounted ==
  /\ Waiting /\ alice.tries + 1 < RetryLimit
  /\ Refused \/ Lost
  /\ call' = Sent
  /\ UNCHANGED <<alice, bob, kms, ipsec, sa>>

Retry ==
  /\ Waiting /\ alice.tries + 1 < RetryLimit
  /\ Refused \/ Lost
  /\ alice' = [alice EXCEPT !.tries = @ + 1]
  /\ call' = Sent
  /\ UNCHANGED <<bob, kms, ipsec, sa>>

(* What each phase does when its retry raises.                             *)
GiveUp ==
  /\ Waiting /\ alice.tries + 1 = RetryLimit
  /\ Refused \/ Lost
  /\ IF alice.phase = "rollback" THEN RestoreLocally ELSE UNCHANGED ipsec
  /\ Enter(CASE alice.phase = "session" -> "stopped"
             [] alice.phase \in {"activate", "status", "commit"} -> "rollback"
             [] OTHER -> "idle")
  /\ UNCHANGED <<bob, kms, sa>>

AliceSteps ==
  \/ Rotate \/ SessionReady \/ Matched \/ Mismatched \/ MismatchTold
  \/ Cutover \/ Establish \/ Initiated \/ InitiateFails
  \/ StatusSeen \/ Commit \/ RolledBack \/ Restored \/ Retry \/ GiveUp

Next == AliceSteps \/ FetchFails \/ Answered \/ LateRequest

Spec == Init /\ [][Next]_vars

(* The rekey loop runs, and Bob's server executes what it was sent.  The   *)
(* environment is never obliged to fail.                                   *)
Fairness == WF_vars(AliceSteps) /\ WF_vars(Answered) /\ WF_vars(LateRequest)

FairSpec == Spec /\ Fairness

-----------------------------------------------------------------------------
(* Properties                                                              *)

(* The bookkeeping of both endpoints is well formed.                       *)
TypeOK ==
  /\ alice \in [phase : Phase, tries : 0 .. RetryLimit, cur : Version, key : Version]
  /\ call \in [at : {"sent", "answered"}, ok : BOOLEAN, key : Key]
  /\ bob \in [ready : BOOLEAN, cur : Version, pend : Version]
  /\ late \subseteq Request
  /\ kms \in [a : 1 .. MaxKeys + 1, b : 1 .. MaxKeys + 1, supply : SUBSET Key]
  /\ ipsec \in [End -> [conn : SUBSET Gen, secret : Key]]
  /\ sa \in [End -> Version]
  /\ faults \in 0 .. MaxFaults

(* The committed generations differ by one at most and Alice never leads:  *)
(* she records a generation only after Bob has, and Bob takes generation   *)
(* n + 1 only from an Alice that is at n, whatever is lost or late.        *)
GenerationsInStep ==
  alice.cur.gen <= bob.cur.gen /\ bob.cur.gen <= alice.cur.gen + 1

(* Alice and Bob keep the contract of an ordered commit as long as requests*)
(* are executed in time or not at all.                                     *)
Contract == INSTANCE OrderedCommit
              WITH Key <- Key, NoKey <- 0, driver <- alice.cur, follower <- bob.cur

KeepsContract == Contract!Spec

(* What is installed in strongSwan follows STATE at Bob after every        *)
(* handler: the secret is the pending key, else the current one, and no    *)
(* connection of another generation is left.  A late rollback breaks it.   *)
BobInstalled ==
  LET conn == ipsec["B"].conn  secret == ipsec["B"].secret IN
  IF bob.pend = None
    THEN conn = {bob.cur.gen} \ {0} /\ secret = bob.cur.key
    ELSE /\ bob.pend.gen \in conn /\ secret = bob.pend.key
         /\ conn \subseteq {bob.cur.gen, bob.pend.gen}

(* In any order of requests, late ones included, Bob without a pending key *)
(* is left with the connection of his current generation alone, and a third*)
(* generation is never offered to Alice's IKE_SA.                          *)
BobConnections ==
  LET conn == ipsec["B"].conn IN
  IF bob.pend = None THEN conn = {bob.cur.gen} \ {0}
  ELSE bob.pend.gen \in conn /\ conn \subseteq {bob.cur.gen, bob.pend.gen} \ {0}

(* Between rotations Alice runs on her committed generation alone, however *)
(* the last rotation ended.                                                *)
AliceInstalled ==
  alice.phase = "idle" =>
    ipsec["A"].conn = {alice.cur.gen} \ {0} /\ ipsec["A"].secret = alice.cur.key

(* Fewer faults than RETRY_LIMIT cannot stop the rekeying: every generation*)
(* is committed in the end.                                                *)
RekeyProgress == [](faults < RetryLimit) => <>(alice.cur.gen = MaxGen)

(* Every rotation ends, however many messages are lost.                    *)
RotationEnds == (alice.phase # "idle") ~> (alice.phase \in {"idle", "stopped"})

(* README: if the cutover fails, both endpoints restore the previous PSK   *)
(* and connection.  Bob has acknowledged the rollback when Alice restores. *)
(* It fails where he had committed and the answers were lost.              *)
BothRestore ==
  alice.phase = "restore" =>
    bob.cur = alice.cur /\ ipsec["B"].secret = ipsec["A"].secret

(* What qkd-vpn.py logs when it commits: the new IKE_SA is authenticated   *)
(* with the QKD PSK of this generation.  It fails after a rollback that    *)
(* left the IKE_SA of the same generation up.                              *)
CommitsNewSa == OkAnswer("commit") => sa["A"] = alice.key
=============================================================================
