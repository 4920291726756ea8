--------------------------- MODULE VpnRekeyProofs ---------------------------
(***************************************************************************)
(* What holds of the rekeying of the two VPN endpoints for every number of *)
(* generations, keys, retries and faults, with late requests or without.   *)
(***************************************************************************)
EXTENDS VpnRekey, TLAPS

AliceType == [phase : Phase, tries : 0 .. RetryLimit, cur : Version, key : Version]
CallType  == [at : {"sent", "answered"}, ok : BOOLEAN, key : Key]
BobType   == [ready : BOOLEAN, cur : Version, pend : Version]
KmsType   == [a : 1 .. MaxKeys + 1, b : 1 .. MaxKeys + 1, supply : SUBSET Key]
IpsecType == [End -> [conn : SUBSET Gen, secret : Key]]

(* None is a version and 0 a generation and a key.                         *)
LEMMA NoneType == None \in Version /\ 0 \in Gen /\ 0 \in Key /\ Sent \in CallType
  BY BoundsAssumption DEF None, Version, Gen, Key, Sent, CallType

(* The parts of TypeOK, for the proofs that need one of them.              *)
LEMMA Types ==
  ASSUME TypeOK
  PROVE  /\ alice \in AliceType /\ call \in CallType /\ bob \in BobType
         /\ late \subseteq Request /\ kms \in KmsType /\ ipsec \in IpsecType
         /\ sa \in [End -> Version] /\ faults \in 0 .. MaxFaults
         /\ alice.cur \in Version /\ alice.key \in Version
         /\ bob.cur \in Version /\ bob.pend \in Version
  BY DEF TypeOK, AliceType, CallType, BobType, KmsType, IpsecType

-----------------------------------------------------------------------------
(* Type correctness                                                        *)

(* What every handler leaves behind, whichever request it executes.        *)
HandledType ==
  /\ bob' \in BobType /\ kms' \in KmsType /\ ipsec' \in IpsecType
  /\ sa' = sa /\ faults' \in 0 .. MaxFaults

(* Installing connections and a secret at Bob keeps ipsec well formed.     *)
LEMMA SetBobType ==
  ASSUME ipsec \in IpsecType, NEW conn \in SUBSET Gen, NEW secret \in Key, SetBob(conn, secret)
  PROVE  ipsec' \in IpsecType
  BY DEF IpsecType, SetBob, End

(* Installing connections and a secret at Alice keeps ipsec well formed.   *)
LEMMA SetAliceType ==
  ASSUME ipsec \in IpsecType, NEW conn \in SUBSET Gen, NEW secret \in Key, SetAlice(conn, secret)
  PROVE  ipsec' \in IpsecType
  BY DEF IpsecType, SetAlice, End

(* A fault is counted up to its bound.                                     *)
LEMMA FaultType ==
  ASSUME faults \in 0 .. MaxFaults, NEW n \in Nat, Fault(n)
  PROVE  faults' \in 0 .. MaxFaults
  BY BoundsAssumption DEF Fault

(* Taking a key at Bob keeps the account of the KMSs well formed.          *)
LEMMA TakeAtBobType ==
  ASSUME kms \in KmsType, NEW k \in Key \ {0}, NEW lost \in Nat, TakeAtBob(k, lost)
  PROVE  kms' \in KmsType
  BY BoundsAssumption DEF KmsType, TakeAtBob, Key

(* So do answers that are lost on their way to Bob,                        *)
LEMMA WasteAtBobType ==
  ASSUME kms \in KmsType, NEW k \in Key, NEW lost \in Nat, WasteAtBob(k, lost)
  PROVE  kms' \in KmsType
  BY BoundsAssumption DEF KmsType, WasteAtBob, Key

(* and what Alice's KMS hands out.                                         *)
LEMMA HandOutType ==
  ASSUME kms \in KmsType, NEW n \in Nat, n <= MaxKeys + 1, kms.a <= n, HandOut(n)
  PROVE  kms' \in KmsType
<1>1. kms.a .. n - 1 \subseteq Key
  BY BoundsAssumption DEF KmsType, Key
<1> QED BY <1>1, BoundsAssumption DEF KmsType, HandOut

(* prepare_bob keeps the state well formed.                                *)
LEMMA HandlePrepareType ==
  ASSUME TypeOK, NEW g \in Gen, NEW k \in Key, NEW ok \in BOOLEAN, HandlePrepare(g, k, ok)
  PROVE  HandledType
<1>1. PICK got \in Key \ {0}, lost \in 0 .. RetryLimit - 1 :
        /\ TakeAtBob(got, lost) /\ Fault(lost)
        /\ bob' = [bob EXCEPT !.pend = [gen |-> g, key |-> got]]
        /\ SetBob(ipsec["B"].conn \cup {g}, got)
  BY DEF HandlePrepare
<1>2. kms' \in KmsType /\ faults' \in 0 .. MaxFaults
  BY <1>1, Types, TakeAtBobType, FaultType, BoundsAssumption
<1>3. bob' \in BobType
  BY <1>1, Types DEF BobType, Version
<1>4. ipsec["B"].conn \cup {g} \in SUBSET Gen
  BY Types DEF IpsecType, End
<1>5. ipsec' \in IpsecType
  BY <1>1, <1>4, Types, SetBobType
<1> QED BY <1>2, <1>3, <1>5 DEF HandledType, HandlePrepare

(* Every handler of Bob keeps the state well formed.                       *)
LEMMA HandleType ==
  ASSUME TypeOK, NEW r \in Request, NEW ok \in BOOLEAN, Handle(r, ok)
  PROVE  HandledType
<1> USE Types
<1>1. r.gen \in Gen /\ r.key \in Key
  BY DEF Request
<1>2. ipsec["B"].conn \subseteq Gen /\ ipsec["B"].secret \in Key
  BY DEF IpsecType, End
<1>3. bob.cur.gen \in Gen /\ bob.cur.key \in Key /\ bob.pend.gen \in Gen
  BY DEF Version
<1>4. CASE HandleSession(ok)
  <2>1. ASSUME bob' = [bob EXCEPT !.ready = TRUE]
        PROVE  bob' \in BobType
    <3> DEFINE yes == TRUE
    <3>1. yes \in BOOLEAN /\ bob' = [bob EXCEPT !.ready = yes]
      BY <2>1
    <3> HIDE DEF yes
    <3> QED BY <3>1 DEF BobType
  <2>2. faults' \in 0 .. MaxFaults
    BY <1>4, FaultType DEF HandleSession
  <2> QED BY <1>4, <2>1, <2>2 DEF HandleSession, HandledType
<1>5. CASE HandlePreparedAgain(r.gen, ok) \/ HandlePrepareInvalid(r.gen, ok)
  BY <1>5 DEF HandlePreparedAgain, HandlePrepareInvalid, HandledType
<1>6. CASE HandlePrepare(r.gen, r.key, ok)
  BY <1>1, <1>6, HandlePrepareType
<1>7. CASE HandlePrepareFails(r.gen, r.key, ok)
  <2>1. CASE \E lost \in 0 .. RetryLimit : WasteAtBob(r.key, lost) /\ Fault(lost + 1)
    <3>1. PICK lost \in 0 .. RetryLimit : WasteAtBob(r.key, lost) /\ Fault(lost + 1)
      BY <2>1
    <3>2. lost \in Nat /\ lost + 1 \in Nat
      BY BoundsAssumption
    <3> QED BY <1>1, <1>7, <3>1, <3>2, WasteAtBobType, FaultType
            DEF HandlePrepareFails, HandledType
  <2>2. CASE UNCHANGED <<kms, faults>>
    BY <1>7, <2>2 DEF HandlePrepareFails, HandledType
  <2> QED BY <1>7, <2>1, <2>2 DEF HandlePrepareFails
<1>8. CASE HandleActivate(r.gen, ok)
  <2>1. ipsec' \in IpsecType
    BY <1>2, <1>8, SetBobType DEF HandleActivate
  <2> QED BY <1>8, <2>1 DEF HandleActivate, HandledType
<1>9. CASE HandleCommit(r.gen, ok)
  <2>1. ipsec' \in IpsecType
    BY <1>2, <1>9, SetBobType DEF HandleCommit
  <2>2. bob' \in BobType
    BY <1>9, NoneType DEF HandleCommit, BobType
  <2> QED BY <1>9, <2>1, <2>2 DEF HandleCommit, HandledType
<1>10. CASE HandleStatus(r.gen, ok) \/ HandleRestored(ok)
  BY <1>10 DEF HandleStatus, HandleRestored, HandledType
<1>11. CASE HandleRollback(r.gen, ok)
  <2>1. ipsec' \in IpsecType
    BY <1>2, <1>3, <1>11, SetBobType DEF HandleRollback
  <2>2. bob' \in BobType
    BY <1>11, NoneType DEF HandleRollback, BobType
  <2> QED BY <1>11, <2>1, <2>2 DEF HandleRollback, HandledType
<1> QED
  BY <1>4, <1>5, <1>6, <1>7, <1>8, <1>9, <1>10, <1>11 DEF Handle

(* The request Alice waits on is a request, and Bob's word a version.      *)
LEMMA AskedType ==
  ASSUME TypeOK, Waiting
  PROVE  Asked \in Request
<1>1. alice.phase \in Calling /\ alice.key.gen \in Gen /\ alice.key.key \in Key
  BY Types DEF Waiting, Version
<1> QED BY <1>1 DEF Asked, Request

(* The request Alice waits on keeps the state well formed.                 *)
LEMMA AnsweredType ==
  ASSUME TypeOK, Answered
  PROVE  TypeOK'
<1>1. PICK ok \in BOOLEAN :
        Handle(Asked, ok) /\ call' = Answer(ok, Reported(bob', alice.key.gen).key)
  BY DEF Answered
<1>2. HandledType
  BY <1>1, AskedType, HandleType DEF Answered
<1>3. Reported(bob', alice.key.gen).key \in Key
  BY <1>2 DEF HandledType, BobType, Reported, Version
<1>4. call' \in CallType
  BY <1>1, <1>3 DEF Answer, CallType
<1> QED
  BY <1>2, <1>4, Types
  DEF Answered, TypeOK, HandledType, AliceType, CallType, BobType, KmsType, IpsecType

(* A late request keeps the state well formed.                             *)
LEMMA LateType ==
  ASSUME TypeOK, LateRequest
  PROVE  TypeOK'
<1>1. PICK r \in late : late' = late \ {r} /\ \E ok \in BOOLEAN : Handle(r, ok)
  BY DEF LateRequest
<1>2. PICK ok \in BOOLEAN : Handle(r, ok)
  BY <1>1
<1>3. HandledType
  BY <1>2, Types, HandleType
<1> QED
  BY <1>1, <1>3, Types
  DEF LateRequest, TypeOK, HandledType, AliceType, CallType, BobType, KmsType, IpsecType

(* What Enter leaves behind.                                               *)
LEMMA EnterType ==
  ASSUME TypeOK, NEW ph \in Phase, Enter(ph)
  PROVE  alice' \in AliceType /\ call' \in CallType
  BY BoundsAssumption, Types, NoneType DEF AliceType, Enter

(* A step that leaves Bob, the KMSs and the queue of late requests alone.  *)
LEMMA AliceOnly ==
  ASSUME TypeOK, alice' \in AliceType, call' \in CallType, ipsec' \in IpsecType,
         sa' \in [End -> Version], faults' \in 0 .. MaxFaults, UNCHANGED <<bob, late, kms>>
  PROVE  TypeOK'
  BY DEF TypeOK, AliceType, CallType, BobType, KmsType, IpsecType

(* The phases of rotate_alice by name.                                     *)
LEMMA PhaseNames ==
  {"session", "prepare", "mismatch", "activate", "status", "commit", "rollback",
   "restored", "idle", "up", "restore", "stopped"} \subseteq Phase
  BY DEF Phase, Calling, RequestOf

(* The start of a rotation keeps the state well formed.                    *)
LEMMA RotateType ==
  ASSUME TypeOK, Rotate
  PROVE  TypeOK'
<1>1. PICK lost \in 0 .. RetryLimit - 1 :
        /\ TakeAtAlice(lost) /\ Fault(lost)
        /\ alice' = [phase |-> "prepare", tries |-> 0, cur |-> alice.cur,
                     key |-> [gen |-> alice.cur.gen + 1, key |-> kms.a + lost]]
  BY DEF Rotate
<1>2. kms.a \in 1 .. MaxKeys + 1 /\ alice.cur.gen \in Gen /\ lost \in Nat
  BY Types, BoundsAssumption DEF KmsType, Version
<1>3. /\ kms.a + lost + 1 \in Nat /\ kms.a + lost + 1 <= MaxKeys + 1
      /\ kms.a <= kms.a + lost + 1 /\ kms.a + lost \in Key
      /\ alice.cur.gen + 1 \in Gen
  BY <1>1, <1>2, BoundsAssumption DEF TakeAtAlice, Rotate, Gen, Key
<1>4. kms' \in KmsType
  BY <1>1, <1>3, Types, HandOutType DEF TakeAtAlice
<1>5. faults' \in 0 .. MaxFaults
  BY <1>1, <1>2, Types, FaultType
<1>6. alice' \in AliceType
  <2>1. [gen |-> alice.cur.gen + 1, key |-> kms.a + lost] \in Version
    BY <1>3 DEF Version
  <2> QED BY <1>1, <2>1, Types, PhaseNames, BoundsAssumption DEF AliceType
<1>7. call' \in CallType
  BY NoneType DEF Rotate
<1> QED
  BY <1>4, <1>5, <1>6, <1>7
  DEF Rotate, TypeOK, AliceType, CallType, BobType, KmsType, IpsecType

(* A rotation without a key keeps the state well formed.                   *)
LEMMA FetchFailsType ==
  ASSUME TypeOK, FetchFails
  PROVE  TypeOK'
<1>1. PICK lost \in 0 .. RetryLimit : WasteAtAlice(lost) /\ Fault(lost + 1)
  BY DEF FetchFails
<1>2. kms.a \in 1 .. MaxKeys + 1 /\ lost \in Nat /\ lost + 1 \in Nat
  BY Types, BoundsAssumption DEF KmsType
<1>3. kms.a + lost \in Nat /\ kms.a + lost <= MaxKeys + 1 /\ kms.a <= kms.a + lost
  BY <1>1, <1>2, BoundsAssumption DEF WasteAtAlice
<1>4. kms' \in KmsType
  BY <1>1, <1>3, Types, HandOutType DEF WasteAtAlice
<1>5. faults' \in 0 .. MaxFaults
  BY <1>1, <1>2, Types, FaultType
<1> QED
  BY <1>4, <1>5
  DEF FetchFails, TypeOK, AliceType, CallType, BobType, KmsType, IpsecType

(* An attempt to establish the IKE_SA keeps the state well formed.         *)
LEMMA EstablishType ==
  ASSUME TypeOK, Establish
  PROVE  TypeOK'
<1>1. alice' \in AliceType
  BY Types, BoundsAssumption DEF Establish, AliceType
<1>2. ipsec["A"].conn \subseteq Gen /\ ipsec["B"].conn \subseteq Gen /\ ipsec["A"].secret \in Key
  BY Types DEF IpsecType, End
<1>3. \A g \in Gen : [gen |-> g, key |-> ipsec["A"].secret] \in Version
  BY <1>2 DEF Version
<1>4. Target \in Gen
  BY <1>2 DEF Establish
<1>5. sa' \in [End -> Version] /\ faults' \in 0 .. MaxFaults
  BY <1>2, <1>3, <1>4, Types, FaultType DEF Establish
<1> QED
  BY <1>1, <1>5, Types, AliceOnly DEF Establish

(* A retry and its end keep the state well formed.                         *)
LEMMA RetryType ==
  ASSUME TypeOK, Retry \/ GiveUp
  PROVE  TypeOK'
<1>1. late' \subseteq Request /\ faults' \in 0 .. MaxFaults
  BY Types, AskedType, FaultType DEF Retry, GiveUp, Refused, Lost
<1>2. CASE Retry
  <2>1. alice' \in AliceType
    BY <1>2, Types, BoundsAssumption DEF Retry, AliceType
  <2> QED
    BY <1>1, <1>2, <2>1, NoneType
    DEF Retry, TypeOK, AliceType, CallType, BobType, KmsType, IpsecType
<1>3. CASE GiveUp
  <2>1. PICK ph \in Phase : Enter(ph)
    BY <1>3, PhaseNames DEF GiveUp
  <2>2. alice' \in AliceType /\ call' \in CallType
    BY <2>1, EnterType
  <2>3. ipsec' \in IpsecType
    <3>1. (ipsec["A"].conn \ {alice.key.gen}) \cup ({alice.cur.gen} \ {0}) \in SUBSET Gen
      BY Types DEF IpsecType, End, Version
    <3>2. alice.cur.key \in Key
      BY Types DEF Version
    <3> QED BY <1>3, <3>1, <3>2, Types, SetAliceType DEF GiveUp, RestoreLocally
  <2> QED
    BY <1>1, <1>3, <2>2, <2>3
    DEF GiveUp, TypeOK, AliceType, CallType, BobType, KmsType, IpsecType
<1> QED BY <1>2, <1>3

(* Every step of Alice keeps the state well formed.                        *)
LEMMA AliceStepsType ==
  ASSUME TypeOK, AliceSteps
  PROVE  TypeOK'
<1> USE Types, PhaseNames
<1>1. ipsec["A"].conn \subseteq Gen /\ ipsec["A"].secret \in Key
  BY DEF IpsecType, End
<1>2. alice.cur.gen \in Gen /\ alice.cur.key \in Key /\ alice.key.gen \in Gen /\ alice.key.key \in Key
  BY DEF Version
<1>3. CASE SessionReady \/ Mismatched \/ MismatchTold \/ StatusSeen \/ Restored
  <2>1. PICK ph \in Phase : Enter(ph)
    BY <1>3 DEF SessionReady, Mismatched, MismatchTold, StatusSeen, Restored
  <2> QED
    BY <1>3, <2>1, EnterType, AliceOnly
    DEF SessionReady, Mismatched, MismatchTold, StatusSeen, Restored
<1>4. CASE Matched
  <2>1. PICK ph \in Phase : Enter(ph)
    BY <1>4 DEF Matched
  <2>2. ipsec' \in IpsecType
    BY <1>1, <1>2, <1>4, SetAliceType DEF Matched
  <2> QED BY <1>4, <2>1, <2>2, EnterType, AliceOnly DEF Matched
<1>5. CASE Cutover
  <2>1. ipsec' \in IpsecType
    BY <1>1, <1>2, <1>5, SetAliceType DEF Cutover
  <2>2. sa' \in [End -> Version] /\ faults' \in 0 .. MaxFaults
    BY <1>5, FaultType, NoneType DEF Cutover
  <2> QED BY <1>5, <2>1, <2>2, EnterType, AliceOnly DEF Cutover
<1>6. CASE Initiated \/ InitiateFails
  <2>1. PICK ph \in Phase : Enter(ph)
    BY <1>6 DEF Initiated, InitiateFails
  <2> QED BY <1>6, <2>1, EnterType, AliceOnly DEF Initiated, InitiateFails
<1>7. CASE Commit
  <2>1. ipsec' \in IpsecType
    BY <1>1, <1>2, <1>7, SetAliceType DEF Commit
  <2>2. alice' \in AliceType /\ call' \in CallType
    BY <1>7, NoneType, BoundsAssumption DEF Commit, AliceType
  <2> QED BY <1>7, <2>1, <2>2, AliceOnly DEF Commit
<1>8. CASE RolledBack
  <2>1. PICK ph \in Phase : Enter(ph)
    BY <1>8 DEF RolledBack
  <2>2. (ipsec["A"].conn \ {alice.key.gen}) \cup ({alice.cur.gen} \ {0}) \in SUBSET Gen
    BY <1>1, <1>2
  <2>3. ipsec' \in IpsecType
    BY <1>2, <1>8, <2>2, SetAliceType DEF RolledBack, RestoreLocally
  <2> QED BY <1>8, <2>1, <2>3, EnterType, AliceOnly DEF RolledBack
<1> QED
  BY <1>3, <1>4, <1>5, <1>6, <1>7, <1>8, RotateType, EstablishType, RetryType DEF AliceSteps

(* The initial state is well formed.                                       *)
LEMMA InitType == Init => TypeOK
  BY NoneType, BoundsAssumption, PhaseNames
  DEF Init, TypeOK, CallType, Version, None, End

(* The type invariant: in particular retries stay within RETRY_LIMIT and   *)
(* no request names a generation beyond those Alice reached.               *)
THEOREM TypeCorrect == Spec => []TypeOK
<1>1. TypeOK /\ [Next]_vars => TypeOK'
  <2> SUFFICES ASSUME TypeOK, [Next]_vars PROVE TypeOK'
    OBVIOUS
  <2>1. CASE UNCHANGED vars
    BY <2>1 DEF vars, TypeOK
  <2>2. CASE Next
    BY <2>2, AliceStepsType, FetchFailsType, AnsweredType, LateType DEF Next
  <2> QED BY <2>1, <2>2
<1> QED BY <1>1, InitType, PTL DEF Spec

-----------------------------------------------------------------------------
(* The inductive invariant                                                 *)

(* Between rotations no key is in hand; during one it is the key of the    *)
(* generation after Alice's.                                               *)
Resting == {"idle", "session", "stopped"}

InHand ==
  /\ alice.phase \in Resting => alice.key = None
  /\ alice.phase \notin Resting => alice.key.gen = alice.cur.gen + 1

(* A request given up earlier never names a generation beyond the next, so *)
(* it cannot make Bob run ahead.                                           *)
LateBehind ==
  \A r \in late : r.gen <= alice.cur.gen + 1 /\ (r.type # "session" => r.gen # 0)

(* What Bob has pending is his next generation, and Alice asked for it.    *)
PendingNext ==
  /\ bob.pend = None \/ bob.pend.gen = bob.cur.gen + 1
  /\ bob.pend.gen <= alice.cur.gen + 1

(* A commit that was answered 200 has taken place.                         *)
CommitTold ==
  OkAnswer("commit") => bob.cur.gen = alice.key.gen

(* What Alice has installed in each phase.                                 *)
Cutting == {"activate", "up", "status", "commit", "rollback"}

AliceHolds ==
  LET conn == ipsec["A"].conn  secret == ipsec["A"].secret IN
  /\ alice.phase \notin Cutting => conn = {alice.cur.gen} \ {0} /\ secret = alice.cur.key
  /\ alice.phase \in Cutting =>
       /\ conn \subseteq {alice.cur.gen, alice.key.gen} \ {0}
       /\ alice.key.gen \in conn /\ secret = alice.key.key

IInv ==
  /\ TypeOK /\ GenerationsInStep /\ InHand /\ LateBehind
  /\ PendingNext /\ CommitTold /\ AliceHolds /\ BobConnections

-----------------------------------------------------------------------------
(* Bob's handlers keep the invariant, in whatever order they are executed. *)

HandledSafely ==
  /\ GenerationsInStep' /\ PendingNext' /\ BobConnections'
  /\ ipsec'["A"] = ipsec["A"] /\ bob.cur.gen <= bob'.cur.gen

(* A handler that leaves Bob and strongSwan alone.                         *)
LEMMA QuietSafe ==
  ASSUME IInv, UNCHANGED <<alice, ipsec>>, bob'.cur = bob.cur, bob'.pend = bob.pend
  PROVE  HandledSafely
<1>1. bob.cur.gen \in Nat
  BY Types, BoundsAssumption DEF IInv, Version, Gen
<1> QED
  BY <1>1 DEF IInv, HandledSafely, GenerationsInStep, PendingNext, BobConnections

(* What SetBob leaves.                                                     *)
LEMMA SetBobEffect ==
  ASSUME ipsec \in IpsecType, NEW conn, NEW secret, SetBob(conn, secret)
  PROVE  ipsec'["A"] = ipsec["A"] /\ ipsec'["B"].conn = conn
  BY DEF IpsecType, SetBob, End

(* prepare_bob installs the generation after his current one only.         *)
LEMMA HandlePrepareSafe ==
  ASSUME IInv, UNCHANGED alice, NEW g \in Gen, g <= alice.cur.gen + 1, NEW k, NEW ok,
         HandlePrepare(g, k, ok)
  PROVE  HandledSafely
<1>1. PICK got \in Key \ {0} :
        /\ bob' = [bob EXCEPT !.pend = [gen |-> g, key |-> got]]
        /\ SetBob(ipsec["B"].conn \cup {g}, got)
  BY DEF HandlePrepare
<1>2. bob.cur.gen \in Nat /\ g \in Nat /\ bob \in BobType /\ ipsec \in IpsecType
  BY Types, BoundsAssumption DEF IInv, Version, Gen
<1>3. bob'.cur = bob.cur /\ bob'.pend.gen = g /\ g = bob.cur.gen + 1
  BY <1>1, <1>2 DEF HandlePrepare, BobType
<1>4. bob.pend = None
  BY <1>3 DEF HandlePrepare, Known, IInv, PendingNext
<1>5. ipsec'["A"] = ipsec["A"] /\ ipsec'["B"].conn = ipsec["B"].conn \cup {g}
  BY <1>1, <1>2, SetBobEffect
<1>6. bob'.pend # None
  BY <1>2, <1>3 DEF None
<1>7. BobConnections'
  BY <1>2, <1>3, <1>4, <1>5, <1>6 DEF IInv, BobConnections
<1> QED
  BY <1>2, <1>3, <1>5, <1>7 DEF IInv, HandledSafely, GenerationsInStep, PendingNext

(* /activate drops the current connection only beside a pending one.       *)
LEMMA HandleActivateSafe ==
  ASSUME IInv, UNCHANGED alice, NEW g \in Gen, g # 0, NEW ok \in BOOLEAN, HandleActivate(g, ok)
  PROVE  HandledSafely
<1>1. bob.cur.gen \in Nat /\ ipsec \in IpsecType
  BY Types, BoundsAssumption DEF IInv, Version, Gen
<1>2. CASE ~ok
  BY <1>2, QuietSafe DEF HandleActivate
<1>3. CASE ok
  <2>1. bob.pend.gen = g /\ bob' = bob /\ SetBob(ipsec["B"].conn \ {bob.cur.gen}, ipsec["B"].secret)
    BY <1>3 DEF HandleActivate
  <2>2. ipsec'["A"] = ipsec["A"] /\ ipsec'["B"].conn = ipsec["B"].conn \ {bob.cur.gen}
    BY <1>1, <2>1, SetBobEffect
  <2>3. bob.pend # None /\ bob.pend.gen = bob.cur.gen + 1
    BY <2>1 DEF None, IInv, PendingNext
  <2>4. BobConnections'
    BY <1>1, <2>1, <2>2, <2>3 DEF IInv, BobConnections
  <2> QED
    BY <1>1, <2>1, <2>2, <2>4 DEF IInv, HandledSafely, GenerationsInStep, PendingNext
<1> QED BY <1>2, <1>3

(* /commit moves Bob to the pending generation, and a 200 means he is      *)
(* there.                                                                  *)
LEMMA HandleCommitSafe ==
  ASSUME IInv, UNCHANGED alice, NEW g \in Gen, g # 0, NEW ok \in BOOLEAN, HandleCommit(g, ok)
  PROVE  HandledSafely /\ (ok => bob'.cur.gen = g)
<1>1. bob.cur.gen \in Nat /\ ipsec \in IpsecType /\ alice.cur.gen \in Nat
  BY Types, BoundsAssumption DEF IInv, Version, Gen
<1>2. CASE UNCHANGED <<bob, ipsec>> /\ (ok <=> bob.cur.gen = g)
  BY <1>2, QuietSafe
<1>3. CASE /\ ok /\ bob.pend.gen = g
           /\ bob' = [ready |-> bob.ready, cur |-> bob.pend, pend |-> None]
           /\ SetBob(ipsec["B"].conn \ {bob.cur.gen}, ipsec["B"].secret)
  <2>1. ipsec'["A"] = ipsec["A"] /\ ipsec'["B"].conn = ipsec["B"].conn \ {bob.cur.gen}
    BY <1>1, <1>3, SetBobEffect
  <2>2. bob.pend # None /\ bob.pend.gen = bob.cur.gen + 1 /\ g <= alice.cur.gen + 1
    BY <1>3 DEF None, IInv, PendingNext
  <2>3. bob'.cur = bob.pend /\ bob'.pend = None /\ bob'.cur.gen = g
    BY <1>3
  <2>4. BobConnections'
    BY <1>1, <1>3, <2>1, <2>2, <2>3 DEF IInv, BobConnections
  <2>5. GenerationsInStep'
    BY <1>1, <1>3, <2>2, <2>3 DEF IInv, GenerationsInStep
  <2>6. PendingNext'
    BY <1>1, <2>3 DEF PendingNext, None
  <2> QED
    BY <1>1, <1>3, <2>1, <2>2, <2>3, <2>4, <2>5, <2>6 DEF HandledSafely
<1> QED BY <1>2, <1>3 DEF HandleCommit

(* /rollback, late or not, restores the connection of the current          *)
(* generation.                                                             *)
LEMMA HandleRollbackSafe ==
  ASSUME IInv, UNCHANGED alice, NEW g \in Gen, g # 0, NEW ok \in BOOLEAN, HandleRollback(g, ok)
  PROVE  HandledSafely
<1>1. bob.cur.gen \in Nat /\ ipsec \in IpsecType /\ bob \in BobType /\ alice.cur.gen \in Nat
  BY Types, BoundsAssumption DEF IInv, Version, Gen
<1>2. CASE bob.pend.gen = g
  <2>1. /\ bob' = [bob EXCEPT !.pend = None]
        /\ SetBob((ipsec["B"].conn \ {g}) \cup ({bob.cur.gen} \ {0}), bob.cur.key)
    BY <1>2 DEF HandleRollback
  <2>2. ipsec'["A"] = ipsec["A"] /\ ipsec'["B"].conn = (ipsec["B"].conn \ {g}) \cup ({bob.cur.gen} \ {0})
    BY <1>1, <2>1, SetBobEffect
  <2>3. bob'.cur = bob.cur /\ bob'.pend = None
    BY <1>1, <2>1 DEF BobType
  <2>4. bob.pend # None /\ bob.pend.gen = bob.cur.gen + 1
    BY <1>2 DEF None, IInv, PendingNext
  <2>5. 0 \notin ipsec["B"].conn
    BY <1>1, <2>4 DEF IInv, BobConnections
  <2>6. BobConnections'
    BY <1>1, <1>2, <2>2, <2>3, <2>4, <2>5 DEF IInv, BobConnections
  <2>7. PendingNext'
    BY <1>1, <2>3 DEF PendingNext, None
  <2> QED
    BY <1>1, <2>2, <2>3, <2>6, <2>7 DEF IInv, HandledSafely, GenerationsInStep
<1>3. CASE bob.pend.gen # g
  <2>1. /\ bob' = bob
        /\ SetBob((ipsec["B"].conn \ {}) \cup ({bob.cur.gen} \ {0}), bob.cur.key)
    BY <1>3 DEF HandleRollback
  <2>2. ipsec'["A"] = ipsec["A"] /\ ipsec'["B"].conn = ipsec["B"].conn \cup ({bob.cur.gen} \ {0})
    BY <1>1, <2>1, SetBobEffect
  <2>3. BobConnections'
    BY <2>1, <2>2 DEF IInv, BobConnections
  <2> QED
    BY <1>1, <2>1, <2>2, <2>3 DEF IInv, HandledSafely, GenerationsInStep, PendingNext
<1> QED BY <1>2, <1>3

(* Every handler keeps what the invariant says of Bob.                     *)
LEMMA HandleSafe ==
  ASSUME IInv, UNCHANGED alice, NEW r \in Request, NEW ok \in BOOLEAN, Handle(r, ok),
         r.gen <= alice.cur.gen + 1, r.type # "session" => r.gen # 0
  PROVE  HandledSafely /\ (ok /\ r.type = "commit" => bob'.cur.gen = r.gen)
<1>1. r.gen \in Gen /\ bob \in BobType
  BY Types DEF Request, IInv
<1>2. CASE r.type = "session" /\ HandleSession(ok)
  <2>1. bob'.cur = bob.cur /\ bob'.pend = bob.pend /\ UNCHANGED <<alice, ipsec>>
    BY <1>1, <1>2 DEF HandleSession, BobType
  <2>2. HandledSafely
    BY <2>1, QuietSafe
  <2> QED BY <1>2, <2>2
<1>3. CASE r.type = "prepare" /\ HandlePrepare(r.gen, r.key, ok)
  BY <1>1, <1>3, HandlePrepareSafe
<1>4. CASE /\ r.type = "prepare"
           /\ \/ HandlePreparedAgain(r.gen, ok) \/ HandlePrepareInvalid(r.gen, ok)
              \/ HandlePrepareFails(r.gen, r.key, ok)
  <2>1. UNCHANGED <<alice, bob, ipsec>>
    BY <1>4 DEF HandlePreparedAgain, HandlePrepareInvalid, HandlePrepareFails
  <2> QED BY <1>4, <2>1, QuietSafe
<1>5. CASE r.type = "activate" /\ HandleActivate(r.gen, ok)
  BY <1>1, <1>5, HandleActivateSafe
<1>6. CASE r.type = "commit" /\ HandleCommit(r.gen, ok)
  BY <1>1, <1>6, HandleCommitSafe
<1>7. CASE r.type = "rollback" /\ HandleRollback(r.gen, ok)
  BY <1>1, <1>7, HandleRollbackSafe
<1>8. CASE \/ r.type = "status" /\ HandleStatus(r.gen, ok)
           \/ r.type = "restored" /\ HandleRestored(ok)
  <2>1. UNCHANGED <<alice, bob, ipsec>>
    BY <1>8 DEF HandleStatus, HandleRestored
  <2> QED BY <1>8, <2>1, QuietSafe
<1> QED
  BY <1>2, <1>3, <1>4, <1>5, <1>6, <1>7, <1>8 DEF Handle

-----------------------------------------------------------------------------
(* The steps keep the invariant.                                           *)

(* Bob's answer to the request Alice waits on keeps the invariant.         *)
LEMMA AnsweredInv ==
  ASSUME IInv, Answered
  PROVE  IInv'
<1>1. PICK ok \in BOOLEAN :
        Handle(Asked, ok) /\ call' = Answer(ok, Reported(bob', alice.key.gen).key)
  BY DEF Answered
<1>2. Asked \in Request /\ UNCHANGED <<alice, late>> /\ alice.phase \in Calling
  BY AskedType DEF Answered, IInv, Waiting
<1>3. alice.cur.gen \in Nat
  BY Types, BoundsAssumption DEF IInv, Version, Gen
<1>4. Asked.gen = alice.key.gen /\ Asked.type = RequestOf[alice.phase]
  BY DEF Asked
<1>5. alice.key.gen <= alice.cur.gen + 1 /\ (Asked.type # "session" => alice.key.gen # 0)
  BY <1>2, <1>3, <1>4 DEF IInv, InHand, Resting, RequestOf, Calling, None
<1>6. HandledSafely /\ (ok /\ Asked.type = "commit" => bob'.cur.gen = alice.key.gen)
  BY <1>1, <1>2, <1>4, <1>5, HandleSafe
<1>7. CommitTold'
  <2> SUFFICES ASSUME OkAnswer("commit")'
               PROVE  bob'.cur.gen = alice'.key.gen
    BY DEF CommitTold
  <2>1. ok /\ alice.phase = "commit"
    BY <1>1, <1>2 DEF OkAnswer, Answer
  <2>2. Asked.type = "commit"
    BY <1>4, <2>1 DEF RequestOf
  <2> QED BY <1>2, <1>6, <2>1, <2>2
<1>8. AliceHolds'
  BY <1>2, <1>6 DEF IInv, AliceHolds, HandledSafely
<1>9. InHand' /\ LateBehind'
  BY <1>2 DEF IInv, InHand, LateBehind
<1> QED
  BY <1>6, <1>7, <1>8, <1>9, AnsweredType DEF IInv, HandledSafely

(* A late request keeps the invariant.                                     *)
LEMMA LateInv ==
  ASSUME IInv, LateRequest
  PROVE  IInv'
<1>1. PICK r \in late : late' = late \ {r} /\ \E ok \in BOOLEAN : Handle(r, ok)
  BY DEF LateRequest
<1>2. PICK ok \in BOOLEAN : Handle(r, ok)
  BY <1>1
<1>3. r \in Request /\ UNCHANGED <<alice, call>>
  BY Types DEF LateRequest, IInv
<1>4. r.gen <= alice.cur.gen + 1 /\ (r.type # "session" => r.gen # 0)
  BY DEF IInv, LateBehind
<1>5. HandledSafely
  BY <1>2, <1>3, <1>4, HandleSafe
<1>6. CommitTold'
  <2> SUFFICES ASSUME OkAnswer("commit")'
               PROVE  bob'.cur.gen = alice'.key.gen
    BY DEF CommitTold
  <2>1. bob.cur.gen = alice.key.gen /\ alice.key.gen = alice.cur.gen + 1
    BY <1>3 DEF OkAnswer, IInv, CommitTold, InHand, Resting
  <2>2. bob.cur.gen \in Nat /\ bob'.cur.gen \in Nat
    BY LateType, Types, BoundsAssumption DEF IInv, TypeOK, BobType, Version, Gen
  <2>3. bob.cur.gen <= bob'.cur.gen /\ bob'.cur.gen <= alice.cur.gen + 1
    BY <1>3, <1>5 DEF HandledSafely, GenerationsInStep
  <2> QED BY <1>3, <2>1, <2>2, <2>3
<1>7. AliceHolds' /\ InHand' /\ LateBehind'
  BY <1>1, <1>3, <1>5 DEF IInv, AliceHolds, InHand, LateBehind, HandledSafely
<1> QED
  BY <1>5, <1>6, <1>7, LateType DEF IInv, HandledSafely

(* What Enter does to Alice.                                               *)
LEMMA EnterEffect ==
  ASSUME NEW ph, Enter(ph)
  PROVE  /\ alice'.phase = ph /\ alice'.cur = alice.cur /\ CommitTold'
         /\ alice'.key = IF ph = "idle" THEN None ELSE alice.key
  BY DEF Enter, CommitTold, OkAnswer, Sent

(* The parts of the invariant about Bob need nothing of Alice but her      *)
(* committed generation.                                                   *)
LEMMA BobUntouched ==
  ASSUME IInv, alice'.cur = alice.cur, UNCHANGED bob, ipsec'["B"] = ipsec["B"]
  PROVE  GenerationsInStep' /\ PendingNext' /\ BobConnections'
  BY DEF IInv, GenerationsInStep, PendingNext, BobConnections

(* A phase that begins with nothing installed or removed.                  *)
LEMMA MoveInv ==
  ASSUME IInv, TypeOK', LateBehind', NEW ph \in Phase, Enter(ph), UNCHANGED <<bob, ipsec>>,
         alice.phase \notin Resting \/ ph = "idle" \/ ph = "stopped",
         ph # "session", ph = "stopped" => alice.phase \in Resting,
         ph \in Cutting <=> alice.phase \in Cutting
  PROVE  IInv'
<1>1. /\ alice'.phase = ph /\ alice'.cur = alice.cur /\ CommitTold'
      /\ alice'.key = IF ph = "idle" THEN None ELSE alice.key
  BY EnterEffect
<1>2. InHand'
  <2>1. CASE ph \in Resting
    <3>1. alice'.key = None
      BY <1>1, <2>1 DEF IInv, InHand, Resting
    <3> QED BY <1>1, <2>1, <3>1 DEF InHand
  <2>2. CASE ph \notin Resting
    <3>1. alice'.key = alice.key /\ alice.key.gen = alice.cur.gen + 1
      BY <1>1, <2>2 DEF IInv, InHand, Resting
    <3> QED BY <1>1, <2>2, <3>1 DEF InHand
  <2> QED BY <2>1, <2>2
<1>3. AliceHolds'
  BY <1>1 DEF IInv, AliceHolds, Cutting
<1> QED
  BY <1>1, <1>2, <1>3, BobUntouched DEF IInv

(* The steps of Alice that only move to another phase keep the invariant.  *)
LEMMA MovesInv ==
  ASSUME IInv, TypeOK',
         \/ SessionReady \/ Mismatched \/ MismatchTold \/ StatusSeen \/ Restored
         \/ Initiated \/ InitiateFails
  PROVE  IInv'
<1> USE PhaseNames DEF Resting, Cutting, OkAnswer
<1>1. LateBehind' /\ UNCHANGED <<bob, ipsec>> /\ alice'.cur = alice.cur
  BY DEF IInv, LateBehind, SessionReady, Mismatched, MismatchTold, StatusSeen, Restored,
         Initiated, InitiateFails, Enter
<1>2. CASE SessionReady
  BY <1>1, <1>2, MoveInv DEF SessionReady
<1>3. CASE Mismatched
  BY <1>1, <1>3, MoveInv DEF Mismatched
<1>4. CASE MismatchTold
  BY <1>1, <1>4, MoveInv DEF MismatchTold
<1>5. CASE StatusSeen
  BY <1>1, <1>5, MoveInv DEF StatusSeen
<1>6. CASE Restored
  BY <1>1, <1>6, MoveInv DEF Restored
<1>7. CASE Initiated
  <2>1. CASE alice.phase = "up"
    BY <1>1, <1>7, <2>1, MoveInv DEF Initiated
  <2>2. CASE alice.phase = "restore"
    BY <1>1, <1>7, <2>2, MoveInv DEF Initiated
  <2> QED BY <1>7, <2>1, <2>2 DEF Initiated, Initiating
<1>8. CASE InitiateFails
  <2>1. CASE alice.phase = "up"
    BY <1>1, <1>8, <2>1, MoveInv DEF InitiateFails
  <2>2. CASE alice.phase = "restore"
    BY <1>1, <1>8, <2>2, MoveInv DEF InitiateFails
  <2> QED BY <1>8, <2>1, <2>2 DEF InitiateFails, Initiating
<1> QED BY <1>2, <1>3, <1>4, <1>5, <1>6, <1>7, <1>8

(* What SetAlice leaves.                                                   *)
LEMMA SetAliceEffect ==
  ASSUME ipsec \in IpsecType, NEW conn, NEW secret, SetAlice(conn, secret)
  PROVE  /\ ipsec'["B"] = ipsec["B"]
         /\ ipsec'["A"].conn = conn /\ ipsec'["A"].secret = secret
  BY DEF IpsecType, SetAlice, End

(* The generations that appear below are numbers, None has generation 0.   *)
LEMMA Gens ==
  ASSUME IInv
  PROVE  /\ alice.cur.gen \in Nat /\ alice.key.gen \in Nat /\ None.gen = 0
         /\ bob.cur.gen \in Nat /\ bob.pend.gen \in Nat /\ ipsec \in IpsecType
  BY Types, BoundsAssumption DEF IInv, Version, Gen, None

(* The start of a rotation keeps the invariant.                            *)
LEMMA RotateInv ==
  ASSUME IInv, TypeOK', Rotate
  PROVE  IInv'
<1>1. /\ alice'.phase = "prepare" /\ alice'.cur = alice.cur
      /\ alice'.key.gen = alice.cur.gen + 1 /\ call' = Sent
      /\ alice.phase = "idle" /\ UNCHANGED <<bob, late, ipsec>>
  BY DEF Rotate
<1>2. InHand' /\ AliceHolds' /\ CommitTold' /\ LateBehind'
  BY <1>1 DEF IInv, InHand, Resting, AliceHolds, Cutting, CommitTold, OkAnswer, LateBehind
<1> QED
  BY <1>1, <1>2, BobUntouched DEF IInv

(* Installing the agreed key keeps the invariant.                          *)
LEMMA MatchedInv ==
  ASSUME IInv, TypeOK', Matched
  PROVE  IInv'
<1>1. PICK ph \in {"up", "activate"} : Enter(ph)
  BY DEF Matched
<1>2. /\ alice'.phase = ph /\ alice'.cur = alice.cur /\ CommitTold'
      /\ alice'.key = alice.key
  BY <1>1, EnterEffect
<1>3. /\ ipsec'["B"] = ipsec["B"] /\ ipsec'["A"].secret = alice.key.key
      /\ ipsec'["A"].conn = ipsec["A"].conn \cup {alice.key.gen}
  BY Gens, SetAliceEffect DEF Matched
<1>4. alice.phase = "prepare" /\ alice.key.gen = alice.cur.gen + 1
  BY DEF Matched, OkAnswer, IInv, InHand, Resting
<1>5. ipsec["A"].conn = {alice.cur.gen} \ {0}
  BY <1>4 DEF IInv, AliceHolds, Cutting
<1>6. AliceHolds'
  BY <1>2, <1>3, <1>4, <1>5, Gens DEF AliceHolds, Cutting
<1>7. InHand' /\ LateBehind'
  BY <1>2, <1>4 DEF Matched, IInv, InHand, Resting, LateBehind
<1> QED
  BY <1>2, <1>3, <1>6, <1>7, BobUntouched DEF Matched, IInv

(* Dropping the old connection keeps the invariant.                        *)
LEMMA CutoverInv ==
  ASSUME IInv, TypeOK', Cutover
  PROVE  IInv'
<1>1. /\ alice'.phase = "up" /\ alice'.cur = alice.cur /\ CommitTold'
      /\ alice'.key = alice.key
  BY EnterEffect DEF Cutover
<1>2. /\ ipsec'["B"] = ipsec["B"] /\ ipsec'["A"].secret = ipsec["A"].secret
      /\ ipsec'["A"].conn = ipsec["A"].conn \ {alice.cur.gen}
  BY Gens, SetAliceEffect DEF Cutover
<1>3. alice.phase = "activate" /\ alice.key.gen = alice.cur.gen + 1
  BY DEF Cutover, OkAnswer, IInv, InHand, Resting
<1>4. AliceHolds'
  BY <1>1, <1>2, <1>3, Gens DEF IInv, AliceHolds, Cutting
<1>5. InHand' /\ LateBehind'
  BY <1>1, <1>3 DEF Cutover, IInv, InHand, Resting, LateBehind
<1> QED
  BY <1>1, <1>2, <1>4, <1>5, BobUntouched DEF Cutover, IInv

(* An attempt to establish the IKE_SA keeps the invariant.                 *)
LEMMA EstablishInv ==
  ASSUME IInv, TypeOK', Establish
  PROVE  IInv'
<1>1. /\ alice'.phase = alice.phase /\ alice'.cur = alice.cur /\ alice'.key = alice.key
      /\ UNCHANGED <<call, bob, late, ipsec>>
  BY Types DEF Establish, IInv, AliceType
<1>2. InHand' /\ LateBehind' /\ CommitTold' /\ AliceHolds'
  BY <1>1 DEF IInv, InHand, LateBehind, CommitTold, OkAnswer, AliceHolds
<1> QED
  BY <1>1, <1>2, BobUntouched DEF IInv

(* Bob committed first: Alice's generation catches up with his.            *)
LEMMA CommitInv ==
  ASSUME IInv, TypeOK', Commit
  PROVE  IInv'
<1>1. /\ alice'.phase = "idle" /\ alice'.cur = alice.key /\ alice'.key = None
      /\ call' = Sent /\ UNCHANGED <<bob, late>>
  BY DEF Commit
<1>2. /\ ipsec'["B"] = ipsec["B"] /\ ipsec'["A"].secret = ipsec["A"].secret
      /\ ipsec'["A"].conn = ipsec["A"].conn \ {alice.cur.gen}
  BY Gens, SetAliceEffect DEF Commit
<1>3. /\ alice.phase = "commit" /\ alice.key.gen = alice.cur.gen + 1
      /\ bob.cur.gen = alice.key.gen
  BY DEF Commit, OkAnswer, IInv, InHand, Resting, CommitTold
<1>4. AliceHolds'
  BY <1>1, <1>2, <1>3, Gens DEF IInv, AliceHolds, Cutting
<1>5. LateBehind'
  <2>1. \A r \in late : r.gen \in Nat
    BY Types, BoundsAssumption DEF IInv, Request, Gen
  <2> QED BY <1>1, <1>3, <2>1, Gens DEF IInv, LateBehind
<1>6. GenerationsInStep' /\ PendingNext' /\ BobConnections'
  BY <1>1, <1>2, <1>3, Gens DEF IInv, GenerationsInStep, PendingNext, BobConnections
<1>7. InHand' /\ CommitTold'
  BY <1>1 DEF InHand, Resting, CommitTold, OkAnswer
<1> QED
  BY <1>4, <1>5, <1>6, <1>7 DEF IInv

(* The local half of a rollback brings the committed generation back.      *)
LEMMA RestoreInv ==
  ASSUME IInv, TypeOK', LateBehind', alice.phase = "rollback", RestoreLocally, UNCHANGED bob,
         NEW ph \in {"idle", "restore"}, Enter(ph)
  PROVE  IInv'
<1>1. /\ alice'.phase = ph /\ alice'.cur = alice.cur /\ CommitTold'
      /\ alice'.key = IF ph = "idle" THEN None ELSE alice.key
  BY EnterEffect
<1>2. /\ ipsec'["B"] = ipsec["B"] /\ ipsec'["A"].secret = alice.cur.key
      /\ ipsec'["A"].conn = (ipsec["A"].conn \ {alice.key.gen}) \cup ({alice.cur.gen} \ {0})
  BY Gens, SetAliceEffect DEF RestoreLocally
<1>3. alice.key.gen = alice.cur.gen + 1
  BY DEF IInv, InHand, Resting
<1>4. AliceHolds'
  BY <1>1, <1>2, <1>3, Gens DEF IInv, AliceHolds, Cutting
<1>5. InHand'
  BY <1>1, <1>3 DEF InHand, Resting
<1> QED
  BY <1>1, <1>2, <1>4, <1>5, BobUntouched DEF IInv

(* A request that is given up joins the late ones, with Alice's generation.*)
LEMMA GivenUpLate ==
  ASSUME IInv, Retry \/ GiveUp
  PROVE  LateBehind'
<1>1. alice'.cur = alice.cur /\ alice.phase \in Calling
  BY Types DEF IInv, Retry, GiveUp, AliceType, Enter, Waiting
<1>2. Asked.gen <= alice.cur.gen + 1 /\ (Asked.type # "session" => Asked.gen # 0)
  BY <1>1, Gens DEF Asked, IInv, InHand, Resting, RequestOf, Calling
<1>3. late' = late \/ late' = late \cup {Asked}
  BY DEF Retry, GiveUp, Refused, Lost
<1> QED
  BY <1>1, <1>2, <1>3 DEF IInv, LateBehind

(* A retry keeps the invariant.                                            *)
LEMMA RetryInv ==
  ASSUME IInv, TypeOK', Retry
  PROVE  IInv'
<1>1. /\ alice'.phase = alice.phase /\ alice'.cur = alice.cur /\ alice'.key = alice.key
      /\ call' = Sent /\ UNCHANGED <<bob, ipsec>>
  BY Types DEF Retry, IInv, AliceType
<1>2. InHand' /\ CommitTold' /\ AliceHolds'
  BY <1>1 DEF IInv, InHand, CommitTold, OkAnswer, Sent, AliceHolds
<1> QED
  BY <1>1, <1>2, GivenUpLate, BobUntouched DEF IInv

(* The end of a retry keeps the invariant.                                 *)
LEMMA GiveUpInv ==
  ASSUME IInv, TypeOK', GiveUp
  PROVE  IInv'
<1> USE PhaseNames DEF Resting, Cutting
<1>1. alice.phase \in Calling /\ UNCHANGED bob
  BY DEF GiveUp, Waiting
<1>2. CASE alice.phase = "rollback"
  BY <1>1, <1>2, GivenUpLate, RestoreInv DEF GiveUp
<1>3. CASE alice.phase = "session"
  BY <1>1, <1>3, GivenUpLate, MoveInv DEF GiveUp
<1>4. CASE alice.phase \in {"activate", "status", "commit"}
  BY <1>1, <1>4, GivenUpLate, MoveInv DEF GiveUp
<1>5. CASE alice.phase \in {"prepare", "mismatch", "restored"}
  BY <1>1, <1>5, GivenUpLate, MoveInv DEF GiveUp
<1> QED
  BY <1>1, <1>2, <1>3, <1>4, <1>5 DEF Calling, RequestOf

(* The initial state satisfies the invariant.                              *)
LEMMA InitInv == Init => IInv
  BY InitType
  DEF Init, IInv, GenerationsInStep, InHand, Resting, LateBehind, PendingNext, CommitTold,
      OkAnswer, Sent, AliceHolds, Cutting, BobConnections, None, End

(* Every step keeps the invariant.                                         *)
LEMMA NextInv == IInv /\ [Next]_vars => IInv'
<1> SUFFICES ASSUME IInv, [Next]_vars PROVE IInv'
  OBVIOUS
<1>1. CASE UNCHANGED vars
  BY <1>1
  DEF vars, IInv, TypeOK, GenerationsInStep, InHand, LateBehind, PendingNext, CommitTold,
      OkAnswer, AliceHolds, BobConnections
<1>2. CASE AliceSteps
  <2>1. TypeOK'
    BY <1>2, AliceStepsType DEF IInv
  <2>2. CASE RolledBack
    <3>1. LateBehind' /\ alice.phase = "rollback" /\ UNCHANGED bob
      BY <2>2 DEF RolledBack, OkAnswer, IInv, LateBehind, Enter
    <3> QED BY <2>1, <2>2, <3>1, RestoreInv DEF RolledBack
  <2> QED
    BY <1>2, <2>1, <2>2, MovesInv, RotateInv, MatchedInv, CutoverInv, EstablishInv,
       CommitInv, RetryInv, GiveUpInv
    DEF AliceSteps
<1>3. CASE FetchFails
  <2>1. TypeOK' /\ UNCHANGED <<alice, call, bob, late, ipsec>>
    BY <1>3, FetchFailsType DEF FetchFails, IInv
  <2> QED
    BY <2>1
    DEF IInv, GenerationsInStep, InHand, LateBehind, PendingNext, CommitTold,
        OkAnswer, AliceHolds, BobConnections
<1>4. CASE Answered
  BY <1>4, AnsweredInv
<1>5. CASE LateRequest
  BY <1>5, LateInv
<1> QED BY <1>1, <1>2, <1>3, <1>4, <1>5 DEF Next

(* The invariant holds in every reachable state.                           *)
LEMMA Invariant == Spec => []IInv
  BY InitInv, NextInv, PTL DEF Spec

(* The committed generations of the two endpoints differ by one at most and*)
(* Alice never leads, whatever is lost, repeated or late.                  *)
THEOREM GenerationsHold == Spec => []GenerationsInStep
<1>1. IInv => GenerationsInStep
  BY DEF IInv
<1> QED BY <1>1, Invariant, PTL

(* Bob's connections follow his generations in every order of requests.    *)
THEOREM BobConnectionsHold == Spec => []BobConnections
<1>1. IInv => BobConnections
  BY DEF IInv
<1> QED BY <1>1, Invariant, PTL

(* Between rotations Alice runs on her committed generation alone.         *)
THEOREM AliceInstalledHolds == Spec => []AliceInstalled
<1>1. IInv => AliceInstalled
  BY DEF IInv, AliceHolds, AliceInstalled, Cutting
<1> QED BY <1>1, Invariant, PTL

-----------------------------------------------------------------------------
(* Requests executed in time or not at all                                 *)

(* A 200 answer to /prepare reports the version Bob has for the generation.*)
PrepareTold ==
  OkAnswer("prepare") =>
    Reported(bob, alice.key.gen) = [gen |-> alice.key.gen, key |-> call.key]

(* At the same committed generation both committed the same key.           *)
SameCommitted == bob.cur.gen = alice.cur.gen => bob.cur = alice.cur

(* Once the digests have matched, what Bob has of the generation in hand   *)
(* has Alice's key.                                                        *)
SameInHand ==
  alice.phase \in Cutting =>
    /\ bob.pend.gen = alice.key.gen => bob.pend = alice.key
    /\ bob.cur.gen = alice.key.gen => bob.cur = alice.key

InTime == late = {} /\ SameCommitted /\ PrepareTold /\ SameInHand /\ BobInstalled

(* What a handler leaves when it executes the request Alice waits on: Bob  *)
(* commits what the contract lets the follower commit, or nothing.         *)
HandledInTime ==
  /\ SameCommitted' /\ SameInHand' /\ BobInstalled'
  /\ bob'.cur = bob.cur \/ Contract!FollowerCommits

(* The types the steps below need.                                         *)
LEMMA InTimeTypes ==
  ASSUME IInv
  PROVE  /\ bob \in BobType /\ bob.cur \in Version /\ bob.pend \in Version
         /\ alice.cur \in Version /\ alice.key \in Version
         /\ None = [gen |-> 0, key |-> 0] /\ None \in Version
         /\ alice.phase \in Calling => alice.key.gen = alice.cur.gen + 1 \/ alice.phase = "session"
<1>1. TypeOK /\ InHand
  BY DEF IInv
<1>2. "idle" \notin Calling /\ "stopped" \notin Calling
  BY DEF Calling, RequestOf
<1>3. alice.phase \in Calling => alice.key.gen = alice.cur.gen + 1 \/ alice.phase = "session"
  BY <1>1, <1>2 DEF InHand, Resting
<1> QED BY <1>1, <1>3, Types, NoneType DEF None

(* A handler that leaves Bob's versions and strongSwan alone.              *)
LEMMA QuietInTime ==
  ASSUME InTime, UNCHANGED <<alice, ipsec>>, bob'.cur = bob.cur, bob'.pend = bob.pend
  PROVE  HandledInTime
  BY DEF InTime, HandledInTime, SameCommitted, SameInHand, BobInstalled

(* What SetBob leaves of the secret.                                       *)
LEMMA SetBobSecret ==
  ASSUME ipsec \in IpsecType, NEW conn, NEW secret, SetBob(conn, secret)
  PROVE  ipsec'["B"] = [conn |-> conn, secret |-> secret]
  BY DEF IpsecType, SetBob, End

(* prepare_bob installs the key it fetched; Alice has installed none yet.  *)
LEMMA HandlePrepareInTime ==
  ASSUME IInv, InTime, UNCHANGED alice, alice.phase = "prepare", NEW k, NEW ok,
         HandlePrepare(alice.key.gen, k, ok)
  PROVE  HandledInTime
<1> DEFINE g == alice.key.gen
<1>1. PICK got \in Key \ {0} :
        /\ bob' = [bob EXCEPT !.pend = [gen |-> g, key |-> got]]
        /\ SetBob(ipsec["B"].conn \cup {g}, got)
  BY DEF HandlePrepare
<1>2. bob'.cur = bob.cur /\ bob'.pend = [gen |-> g, key |-> got] /\ g = bob.cur.gen + 1
  BY <1>1, InTimeTypes DEF HandlePrepare, BobType
<1>3. ipsec'["B"] = [conn |-> ipsec["B"].conn \cup {g}, secret |-> got]
  BY <1>1, Gens, SetBobSecret
<1>4. bob.pend = None
  BY <1>2, Gens DEF HandlePrepare, Known, IInv, PendingNext
<1>5. bob'.pend # None
  BY <1>2, Gens DEF None
<1>6. BobInstalled'
  BY <1>2, <1>3, <1>4, <1>5 DEF InTime, BobInstalled
<1> QED
  BY <1>2, <1>6 DEF InTime, HandledInTime, SameCommitted, SameInHand, Cutting

(* /activate drops the connection of the current generation.               *)
LEMMA HandleActivateInTime ==
  ASSUME IInv, InTime, UNCHANGED alice, alice.key.gen # 0, NEW ok \in BOOLEAN,
         HandleActivate(alice.key.gen, ok)
  PROVE  HandledInTime
<1>1. CASE ~ok
  BY <1>1, QuietInTime DEF HandleActivate
<1>2. CASE ok
  <2>1. /\ bob.pend.gen = alice.key.gen /\ bob' = bob
        /\ SetBob(ipsec["B"].conn \ {bob.cur.gen}, ipsec["B"].secret)
    BY <1>2 DEF HandleActivate
  <2>2. ipsec'["B"] = [conn |-> ipsec["B"].conn \ {bob.cur.gen}, secret |-> ipsec["B"].secret]
    BY <2>1, Gens, SetBobSecret
  <2>3. bob.pend # None /\ bob.pend.gen = bob.cur.gen + 1
    BY <2>1 DEF None, IInv, PendingNext
  <2>4. BobInstalled'
    BY <2>1, <2>2, <2>3, Gens DEF InTime, BobInstalled
  <2> QED
    BY <2>1, <2>4 DEF InTime, HandledInTime, SameCommitted, SameInHand
<1> QED BY <1>1, <1>2

(* /commit: Bob goes from Alice's version to the one she has in hand.      *)
LEMMA HandleCommitInTime ==
  ASSUME IInv, InTime, UNCHANGED alice, alice.phase = "commit", NEW ok \in BOOLEAN,
         HandleCommit(alice.key.gen, ok)
  PROVE  HandledInTime
<1> DEFINE g == alice.key.gen
<1>1. CASE UNCHANGED <<bob, ipsec>>
  BY <1>1, QuietInTime
<1>2. CASE /\ bob.pend.gen = g
           /\ bob' = [ready |-> bob.ready, cur |-> bob.pend, pend |-> None]
           /\ SetBob(ipsec["B"].conn \ {bob.cur.gen}, ipsec["B"].secret)
  <2>1. ipsec'["B"] = [conn |-> ipsec["B"].conn \ {bob.cur.gen}, secret |-> ipsec["B"].secret]
    BY <1>2, Gens, SetBobSecret
  <2>2. g = alice.cur.gen + 1 /\ g # 0
    BY Gens DEF IInv, InHand, Resting
  <2>3. bob.pend # None /\ bob.pend.gen = bob.cur.gen + 1
    BY <1>2, <2>2 DEF None, IInv, PendingNext
  <2>4. bob.pend = alice.key /\ bob.cur = alice.cur
    BY <1>2, <2>2, <2>3, Gens DEF InTime, SameInHand, SameCommitted, Cutting
  <2>5. bob'.cur = alice.key /\ bob'.pend = None
    BY <1>2, <2>4
  <2>6. BobInstalled'
    BY <1>2, <2>1, <2>2, <2>3, <2>5, <2>4, Gens DEF InTime, BobInstalled
  <2>7. SameCommitted' /\ SameInHand'
    BY <2>2, <2>5, Gens DEF SameCommitted, SameInHand, Cutting
  <2>8. bob'.cur = [gen |-> alice.cur.gen + 1, key |-> alice.key.key] /\ alice.key.key \in Key
    BY <2>2, <2>5, InTimeTypes DEF Version
  <2>9. Contract!FollowerCommits
    BY <2>4, <2>8 DEF Contract!FollowerCommits
  <2> QED BY <2>6, <2>7, <2>9 DEF HandledInTime
<1> QED BY <1>1, <1>2 DEF HandleCommit

(* /rollback removes the pending generation, if there is one: then it is   *)
(* the one Alice has in hand.                                              *)
LEMMA HandleRollbackInTime ==
  ASSUME IInv, InTime, UNCHANGED alice, alice.phase \in {"mismatch", "rollback"},
         NEW ok \in BOOLEAN, HandleRollback(alice.key.gen, ok)
  PROVE  HandledInTime
<1> DEFINE g == alice.key.gen
<1>1. g = alice.cur.gen + 1 /\ g # 0
  BY Gens DEF IInv, InHand, Resting
<1>2. CASE bob.pend.gen = g
  <2>1. /\ bob' = [bob EXCEPT !.pend = None]
        /\ SetBob((ipsec["B"].conn \ {g}) \cup ({bob.cur.gen} \ {0}), bob.cur.key)
    BY <1>2 DEF HandleRollback
  <2>2. ipsec'["B"] = [conn |-> (ipsec["B"].conn \ {g}) \cup ({bob.cur.gen} \ {0}),
                       secret |-> bob.cur.key]
    BY <2>1, Gens, SetBobSecret
  <2>3. bob'.cur = bob.cur /\ bob'.pend = None
    BY <2>1, InTimeTypes DEF BobType
  <2>4. bob.pend # None /\ bob.pend.gen = bob.cur.gen + 1
    BY <1>1, <1>2 DEF None, IInv, PendingNext
  <2>5. 0 \notin ipsec["B"].conn
    BY <2>4 DEF IInv, BobConnections
  <2>6. BobInstalled'
    BY <1>2, <2>2, <2>3, <2>4, <2>5, Gens DEF InTime, BobInstalled
  <2>7. SameCommitted' /\ SameInHand'
    BY <1>1, <2>3, Gens DEF InTime, SameCommitted, SameInHand, None
  <2> QED BY <2>3, <2>6, <2>7 DEF HandledInTime
<1>3. CASE bob.pend.gen # g
  <2>1. bob.pend = None
    BY <1>1, <1>3, Gens DEF IInv, PendingNext, GenerationsInStep
  <2>2. /\ bob' = bob
        /\ SetBob((ipsec["B"].conn \ {}) \cup ({bob.cur.gen} \ {0}), bob.cur.key)
    BY <1>3 DEF HandleRollback
  <2>3. ipsec'["B"] = [conn |-> (ipsec["B"].conn \ {}) \cup ({bob.cur.gen} \ {0}),
                       secret |-> bob.cur.key]
    BY <2>2, Gens, SetBobSecret
  <2>4. BobInstalled'
    BY <2>1, <2>2, <2>3 DEF InTime, BobInstalled
  <2> QED BY <2>2, <2>4 DEF InTime, HandledInTime, SameCommitted, SameInHand
<1> QED BY <1>2, <1>3

(* Every handler, executing the request Alice waits on.                    *)
LEMMA HandleInTime ==
  ASSUME IInv, InTime, UNCHANGED alice, alice.phase \in Calling, NEW ok \in BOOLEAN,
         Handle(Asked, ok)
  PROVE  /\ HandledInTime
         /\ ok /\ alice.phase = "prepare" =>
              Reported(bob', alice.key.gen).gen = alice.key.gen
<1> DEFINE g == alice.key.gen
<1>1. Asked.type = RequestOf[alice.phase] /\ Asked.gen = g
  BY DEF Asked
<1>2. alice.phase # "session" => g = alice.cur.gen + 1 /\ g # 0
  BY InTimeTypes, Gens
<1>3. CASE alice.phase = "session"
  <2>1. HandleSession(ok)
    BY <1>1, <1>3 DEF Handle, RequestOf
  <2> QED BY <1>3, <2>1, QuietInTime, InTimeTypes DEF HandleSession, BobType
<1>4. CASE alice.phase = "prepare"
  <2>1. \/ HandlePreparedAgain(g, ok) \/ HandlePrepareInvalid(g, ok)
        \/ HandlePrepare(g, Asked.key, ok) \/ HandlePrepareFails(g, Asked.key, ok)
    BY <1>1, <1>4 DEF Handle, RequestOf
  <2>2. CASE HandlePreparedAgain(g, ok)
    BY <2>2, QuietInTime DEF HandlePreparedAgain, Known, Reported
  <2>3. CASE HandlePrepareInvalid(g, ok) \/ HandlePrepareFails(g, Asked.key, ok)
    BY <2>3, QuietInTime DEF HandlePrepareInvalid, HandlePrepareFails
  <2>4. CASE HandlePrepare(g, Asked.key, ok)
    <3>1. bob'.pend.gen = g
      BY <2>4, InTimeTypes DEF HandlePrepare, BobType
    <3> QED BY <1>4, <2>4, <3>1, HandlePrepareInTime DEF Reported
  <2> QED BY <2>1, <2>2, <2>3, <2>4
<1>5. CASE alice.phase = "activate"
  BY <1>1, <1>2, <1>5, HandleActivateInTime DEF Handle, RequestOf
<1>6. CASE alice.phase = "commit"
  BY <1>1, <1>6, HandleCommitInTime DEF Handle, RequestOf
<1>7. CASE alice.phase \in {"mismatch", "rollback"}
  BY <1>1, <1>7, HandleRollbackInTime DEF Handle, RequestOf
<1>8. CASE alice.phase \in {"status", "restored"}
  <2>1. HandleStatus(g, ok) \/ HandleRestored(ok)
    BY <1>1, <1>8 DEF Handle, RequestOf
  <2> QED BY <1>8, <2>1, QuietInTime DEF HandleStatus, HandleRestored
<1> QED BY <1>3, <1>4, <1>5, <1>6, <1>7, <1>8 DEF Calling, RequestOf

(* Bob's answer to the request Alice waits on.                             *)
LEMMA AnsweredInTime ==
  ASSUME IInv, InTime, Answered
  PROVE  InTime' /\ (bob'.cur = bob.cur \/ Contract!FollowerCommits) /\ alice'.cur = alice.cur
<1>1. PICK ok \in BOOLEAN :
        Handle(Asked, ok) /\ call' = Answer(ok, Reported(bob', alice.key.gen).key)
  BY DEF Answered
<1>2. UNCHANGED <<alice, late>> /\ alice.phase \in Calling
  BY DEF Answered, Waiting
<1>3. /\ HandledInTime
      /\ ok /\ alice.phase = "prepare" => Reported(bob', alice.key.gen).gen = alice.key.gen
  BY <1>1, <1>2, HandleInTime
<1>4. bob'.cur \in Version /\ bob'.pend \in Version
  BY AnsweredInv, InTimeTypes, AnsweredType, Types DEF IInv, TypeOK, BobType
<1>5. PrepareTold'
  <2> SUFFICES ASSUME OkAnswer("prepare")'
               PROVE  Reported(bob', alice.key.gen) = [gen |-> alice.key.gen, key |-> call'.key]
    BY <1>2 DEF PrepareTold
  <2>1. ok /\ alice.phase = "prepare" /\ call'.key = Reported(bob', alice.key.gen).key
    BY <1>1, <1>2 DEF OkAnswer, Answer
  <2>2. Reported(bob', alice.key.gen) \in Version
    BY <1>4 DEF Reported
  <2> QED BY <1>3, <2>1, <2>2 DEF Version
<1> QED BY <1>2, <1>3, <1>5 DEF InTime, HandledInTime

(* A step that leaves Bob alone, enters no phase of Cutting and commits    *)
(* nothing.                                                                *)
LEMMA AliceAloneInTime ==
  ASSUME InTime, UNCHANGED <<bob, late>>, ipsec'["B"] = ipsec["B"], alice'.cur = alice.cur,
         alice'.phase \in Cutting => alice.phase \in Cutting /\ alice'.key = alice.key,
         PrepareTold'
  PROVE  InTime'
  BY DEF InTime, SameCommitted, SameInHand, BobInstalled

(* After a new request there is no answer yet.                             *)
LEMMA NoAnswer ==
  ASSUME call' = Sent
  PROVE  PrepareTold'
  BY DEF PrepareTold, OkAnswer, Sent

(* The digests agreed: what Bob has of the generation is Alice's version.  *)
LEMMA MatchedInTime ==
  ASSUME IInv, InTime, Matched
  PROVE  InTime'
<1>1. /\ alice'.cur = alice.cur /\ alice'.key = alice.key /\ call' = Sent
      /\ UNCHANGED <<bob, late>> /\ ipsec'["B"] = ipsec["B"]
  BY Gens, SetAliceEffect DEF Matched, Enter
<1>2. Reported(bob, alice.key.gen) = alice.key
  <2>1. Reported(bob, alice.key.gen) = [gen |-> alice.key.gen, key |-> alice.key.key]
    BY DEF InTime, PrepareTold, Matched
  <2> QED BY <2>1, InTimeTypes DEF Version
<1>3. bob.pend.gen = alice.key.gen => bob.pend = alice.key
  BY <1>2 DEF Reported
<1>4. bob.cur.gen = alice.key.gen => bob.cur = alice.key
  <2>1. ASSUME bob.cur.gen = alice.key.gen PROVE bob.pend.gen # alice.key.gen
    <3>1. alice.key.gen = alice.cur.gen + 1
      BY DEF Matched, OkAnswer, IInv, InHand, Resting
    <3> QED BY <2>1, <3>1, Gens DEF IInv, PendingNext
  <2> QED BY <1>2, <2>1 DEF Reported
<1> QED
  BY <1>1, <1>3, <1>4, NoAnswer DEF InTime, SameCommitted, SameInHand, BobInstalled

(* Alice records the version Bob has committed.                            *)
LEMMA CommitInTime ==
  ASSUME IInv, InTime, Commit
  PROVE  InTime' /\ Contract!DriverCommits
<1>1. /\ alice'.phase = "idle" /\ alice'.cur = alice.key /\ call' = Sent
      /\ UNCHANGED <<bob, late>> /\ ipsec'["B"] = ipsec["B"]
  BY Gens, SetAliceEffect DEF Commit
<1>2. /\ alice.phase = "commit" /\ alice.key.gen = alice.cur.gen + 1
      /\ bob.cur.gen = alice.key.gen
  BY DEF Commit, OkAnswer, IInv, InHand, Resting, CommitTold
<1>3. bob.cur = alice.key
  BY <1>2 DEF InTime, SameInHand, Cutting
<1>4. Contract!DriverCommits
  BY <1>1, <1>2, <1>3 DEF Contract!DriverCommits
<1> QED
  BY <1>1, <1>3, <1>4, NoAnswer DEF InTime, SameCommitted, SameInHand, BobInstalled, Cutting

(* The other steps of Alice commit nothing.                                *)
LEMMA AliceStepsInTime ==
  ASSUME IInv, InTime, LateRequests = FALSE, AliceSteps, ~Matched, ~Commit
  PROVE  InTime' /\ UNCHANGED bob /\ alice'.cur = alice.cur
<1> USE PhaseNames DEF Cutting
<1>1. UNCHANGED <<bob, late>>
  BY DEF AliceSteps, Rotate, SessionReady, Mismatched, MismatchTold, Cutover, Establish,
         Initiated, InitiateFails, StatusSeen, RolledBack, Restored, Retry, GiveUp,
         Refused, Lost
<1>2. ipsec'["B"] = ipsec["B"]
  <2>1. CASE Cutover \/ RolledBack \/ (GiveUp /\ alice.phase = "rollback")
    BY <2>1, Gens, SetAliceEffect DEF Cutover, RolledBack, GiveUp, RestoreLocally
  <2> QED
    BY <2>1 DEF AliceSteps, Rotate, SessionReady, Mismatched, MismatchTold, Establish,
           Initiated, InitiateFails, StatusSeen, Restored, Retry, GiveUp
<1>3. CASE Establish
  <2>1. UNCHANGED call /\ alice'.cur = alice.cur /\ alice'.key = alice.key /\ alice'.phase = alice.phase
    BY <1>3, Types DEF Establish, IInv, AliceType
  <2>2. PrepareTold'
    BY <1>1, <2>1 DEF InTime, PrepareTold, OkAnswer
  <2> QED BY <1>1, <1>2, <2>1, <2>2, AliceAloneInTime
<1>4. CASE Rotate \/ Retry
  <2>1. /\ call' = Sent /\ alice'.cur = alice.cur
        /\ alice'.phase = "prepare" \/ (alice'.phase = alice.phase /\ alice'.key = alice.key)
    BY <1>4, Types DEF Rotate, Retry, IInv, AliceType
  <2> QED BY <1>1, <1>2, <2>1, NoAnswer, AliceAloneInTime
<1>5. CASE ~Establish /\ ~Rotate /\ ~Retry
  <2>1. PICK ph \in Phase : Enter(ph) /\ (ph \in Cutting => alice.phase \in Cutting)
    BY <1>5 DEF AliceSteps, SessionReady, Mismatched, MismatchTold, Cutover, Initiated,
                InitiateFails, StatusSeen, RolledBack, Restored, GiveUp, OkAnswer, Initiating
  <2>2. /\ call' = Sent /\ alice'.cur = alice.cur /\ alice'.phase = ph
        /\ ph # "idle" => alice'.key = alice.key
    BY <2>1 DEF Enter
  <2> QED BY <1>1, <1>2, <2>1, <2>2, NoAnswer, AliceAloneInTime
<1> QED BY <1>3, <1>4, <1>5

(* Every step keeps the invariant and is a step of the contract, or leaves *)
(* what is committed alone.                                                *)
LEMMA NextInTime ==
  ASSUME IInv, InTime, LateRequests = FALSE, [Next]_vars
  PROVE  InTime' /\ [Contract!Next]_<<alice.cur, bob.cur>>
<1>1. CASE Answered
  BY <1>1, AnsweredInTime DEF Contract!Next
<1>2. CASE Matched
  <2>1. alice'.cur = alice.cur /\ UNCHANGED bob
    BY <1>2 DEF Matched, Enter
  <2> QED BY <1>2, <2>1, MatchedInTime
<1>3. CASE Commit
  BY <1>3, CommitInTime DEF Contract!Next
<1>4. CASE AliceSteps /\ ~Matched /\ ~Commit
  BY <1>4, AliceStepsInTime
<1>5. CASE FetchFails \/ UNCHANGED vars
  <2>1. UNCHANGED <<alice, call, bob, late, ipsec>>
    BY <1>5 DEF FetchFails, vars
  <2> QED
    BY <2>1 DEF InTime, SameCommitted, PrepareTold, OkAnswer, SameInHand, BobInstalled
<1>6. ~LateRequest
  BY DEF InTime, LateRequest
<1> QED BY <1>1, <1>2, <1>3, <1>4, <1>5, <1>6 DEF Next, AliceSteps

(* It holds at the start.                                                  *)
LEMMA InitInTime == Init => InTime /\ Contract!Init
  BY DEF Init, InTime, SameCommitted, PrepareTold, OkAnswer, Sent, SameInHand, BobInstalled,
         Cutting, None, End, Contract!Init, Contract!First

(* Where no request is executed late, what strongSwan holds at Bob follows *)
(* his state after every handler: the pending key, else the current one.   *)
THEOREM BobInstalledHolds ==
  ASSUME LateRequests = FALSE
  PROVE  Spec => []BobInstalled
<1>1. InTime => BobInstalled
  BY DEF InTime
<1>2. IInv /\ InTime /\ [Next]_vars => InTime'
  BY NextInTime
<1> QED BY <1>1, <1>2, InitInTime, Invariant, PTL DEF Spec

(* Where no request is executed late, the protocol implements an ordered   *)
(* commit: Bob commits the next generation with the key Alice holds for it,*)
(* and Alice then commits the very version Bob has.                        *)
THEOREM ContractKept ==
  ASSUME LateRequests = FALSE
  PROVE  Spec => KeepsContract
<1>1. IInv /\ InTime /\ [Next]_vars => InTime' /\ [Contract!Next]_<<alice.cur, bob.cur>>
  BY NextInTime
<1> QED BY <1>1, InitInTime, Invariant, PTL DEF Spec, KeepsContract, Contract!Spec
=============================================================================
