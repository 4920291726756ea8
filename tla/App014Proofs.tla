---------------------------- MODULE App014Proofs ----------------------------
(***************************************************************************)
(* Proofs about App014 for any keys, lifetimes, settings and bounds, where *)
(* Bob's connection falls silent with one proposal open at most: every     *)
(* packet finds its keys, and keys are used as what they were made for.    *)
(* The invariant relates the three places an answer to a proposal may be   *)
(* in to the proposals Alice remembers, and the uses Bob has left of a key *)
(* to the packets on the way and those Alice will still send.              *)
(***************************************************************************)
EXTENDS App014, Integers, FiniteSetTheorems, SequenceTheorems, TLAPS

-----------------------------------------------------------------------------
(* The invariant.                                                          *)

Status == {"Ok", "BadRequest"}

Primary ==
  [state : {"WAIT", "READY"}, enc : [KeyIds -> 0 .. Life], auth : SUBSET KeyIds,
   common : [KeyIds -> Kinds \cup {"none"}], queue : Seq(Kinds), proposed : Seq(SUBSET KeyIds),
   asked : Seq(Kinds \cup {"status"}), up : BOOLEAN, watch : BOOLEAN, look : BOOLEAN]

Replica ==
  [store : [KeyIds -> 0 .. Life], asked : Seq(SUBSET KeyIds), up : BOOLEAN, watch : BOOLEAN]

Packet == [enc : KeyIds, auth : SUBSET KeyIds]

Types ==
  /\ set \in Settings /\ alice \in Primary /\ bob \in Replica
  /\ sig \in [alice : Seq(Status), bob : Seq(SUBSET KeyIds)]
  /\ data \in Seq(Packet)
  /\ kms \in [made : [KeyIds -> Kinds \cup {"none"}], kept : SUBSET KeyIds]
  /\ \A k \in kms.kept : kms.made[k] # "none"

(* The status is asked for once, in front; every other request has its kind*)
(* in the queue.                                                           *)
Asking(a) ==
  /\ \A i \in DOMAIN a.asked : a.asked[i] = "status" => i = 1
  /\ Len(a.asked) <= Len(a.queue) + IF a.asked # <<>> /\ a.asked[1] = "status" THEN 1 ELSE 0

(* Alice's proposals are those that have been answered, those Bob asks for *)
(* and those on the way to him, in this order.  Where the answer is Ok Bob *)
(* has the keys.                                                           *)
Answering(a, b, toA, toB) ==
  /\ Len(a.proposed) = Len(toA) + Len(b.asked) + Len(toB)
  /\ \A i \in 1 .. Len(toA) : toA[i] = "Ok" => \A k \in a.proposed[i] : b.store[k] = Life
  /\ \A i \in 1 .. Len(b.asked) : a.proposed[Len(toA) + i] = b.asked[i]
  /\ \A i \in 1 .. Len(toB) : a.proposed[Len(toA) + Len(b.asked) + i] = toB[i]

(* A connection that is silent has one proposal at most to answer for.     *)
Single(a, b) ==
  /\ b.watch => b.asked # <<>>
  /\ ~b.up => Len(a.proposed) <= 1 /\ (b.asked # <<>> => b.watch)

(* The uses of a key that Bob has to expect.                               *)
Air(d, k) == Cardinality({i \in DOMAIN d : k = d[i].enc \/ k \in d[i].auth})

Uses(a, d, k) == a.enc[k] + (IF k \in a.auth THEN 1 ELSE 0) + Air(d, k)

Enough(cipher, left, uses) == IF cipher = "AES" THEN left >= uses ELSE uses > 0 => left > 0

(* A key that is proposed is in one proposal, and in no store of Alice or  *)
(* packet.                                                                 *)
Apart(a) == \A i, j \in DOMAIN a.proposed : i # j => a.proposed[i] \cap a.proposed[j] = {}

Waiting(a, d, made) ==
  \A i \in DOMAIN a.proposed : \A k \in a.proposed[i] : Uses(a, d, k) = 0 /\ made[k] # "none"

Holding(cipher, a, store, d, made) ==
  \A k \in KeyIds :
    /\ made[k] = "none" => Uses(a, d, k) = 0
    /\ Uses(a, d, k) > 0 => a.common[k] = "none"
    /\ a.enc[k] > 0 => k \notin a.auth
    /\ Enough(cipher, store[k], Uses(a, d, k))

(* READY with a key of each kind that is needed.                           *)
LacksOf(auth, a, kind) ==
  IF kind = "encryption" THEN EncKeys(a) = {} ELSE auth /\ a.auth = {}

Settled(auth, a) == a.state = "READY" => \A kind \in Kinds : ~LacksOf(auth, a, kind)

IInv ==
  /\ Types /\ Asking(alice) /\ ~failed
  /\ Answering(alice, bob, sig.alice, sig.bob) /\ Single(alice, bob)
  /\ Apart(alice) /\ Waiting(alice, data, kms.made)
  /\ Holding(set.cipher, alice, bob.store, data, kms.made)
  /\ Settled(set.auth, alice)

-----------------------------------------------------------------------------
(* Queues.                                                                 *)

LEMMA TailOf ==
  ASSUME NEW S, NEW s \in Seq(S), s # <<>>, NEW n, n = Len(s)
  PROVE  /\ Tail(s) \in Seq(S) /\ Head(s) \in S /\ Head(s) = s[1]
         /\ n \in Nat \ {0} /\ Len(Tail(s)) = n - 1
         /\ \A i \in 1 .. n - 1 : Tail(s)[i] = s[i + 1]
<1>1. n \in Nat \ {0} /\ Head(s) = s[1]
  BY EmptySeq
<1>2. /\ Tail(s) \in Seq(S) /\ Head(s) \in S /\ Len(Tail(s)) = n - 1
      /\ \A i \in 1 .. Len(Tail(s)) : Tail(s)[i] = s[i + 1]
  BY HeadTailProperties
<1> QED BY <1>1, <1>2

LEMMA AppendOf ==
  ASSUME NEW S, NEW s \in Seq(S), NEW e \in S, NEW n, n = Len(s)
  PROVE  /\ Append(s, e) \in Seq(S) /\ Append(s, e) # <<>> /\ n \in Nat
         /\ Len(Append(s, e)) = n + 1 /\ Append(s, e)[n + 1] = e
         /\ \A i \in 1 .. n : Append(s, e)[i] = s[i]
<1>1. n \in Nat /\ Append(s, e)[n + 1] = e /\ \A i \in 1 .. n : Append(s, e)[i] = s[i]
  OBVIOUS
<1>2. Append(s, e) \in Seq(S) /\ Append(s, e) # <<>> /\ Len(Append(s, e)) = n + 1
  BY AppendProperties
<1> QED BY <1>1, <1>2

-----------------------------------------------------------------------------
(* Counting packets.                                                       *)

LEMMA AirCount ==
  ASSUME NEW d \in Seq(Packet), NEW k
  PROVE  /\ IsFiniteSet({i \in DOMAIN d : k = d[i].enc \/ k \in d[i].auth})
         /\ Air(d, k) \in Nat
<1> DEFINE S == {i \in DOMAIN d : k = d[i].enc \/ k \in d[i].auth}
<1>1. 1 \in Int /\ Len(d) \in Int /\ DOMAIN d = 1 .. Len(d)
  OBVIOUS
<1>2. IsFiniteSet(1 .. Len(d))
  BY <1>1, FS_Interval
<1>3. S \subseteq 1 .. Len(d)
  BY <1>1
<1> HIDE DEF S
<1>4. IsFiniteSet(S)
  BY <1>2, <1>3, FS_Subset
<1>5. Cardinality(S) \in Nat
  BY <1>4, FS_CardinalityType
<1> QED BY <1>4, <1>5 DEF S, Air

LEMMA AirNone ==
  ASSUME NEW k
  PROVE  Air(<<>>, k) = 0
<1>1. {i \in DOMAIN <<>> : k = <<>>[i].enc \/ k \in <<>>[i].auth} = {}
  OBVIOUS
<1> QED BY <1>1, FS_EmptySet DEF Air

(* A key is in the air as long as a packet names it.                       *)
LEMMA AirSome ==
  ASSUME NEW d \in Seq(Packet), NEW i \in DOMAIN d, NEW k, k = d[i].enc \/ k \in d[i].auth
  PROVE  Air(d, k) > 0
<1> DEFINE S == {j \in DOMAIN d : k = d[j].enc \/ k \in d[j].auth}
<1>1. IsFiniteSet(S) /\ Air(d, k) \in Nat
  BY AirCount
<1>2. S # {}
  OBVIOUS
<1>3. Air(d, k) = Cardinality(S)
  BY DEF Air
<1> HIDE DEF S
<1>4. Cardinality(S) # 0
  BY <1>1, <1>2, FS_EmptySet
<1> QED BY <1>1, <1>3, <1>4

LEMMA AirAppend ==
  ASSUME NEW d \in Seq(Packet), NEW p \in Packet, NEW k
  PROVE  Air(Append(d, p), k) = Air(d, k) + IF k = p.enc \/ k \in p.auth THEN 1 ELSE 0
<1> DEFINE J == {i \in DOMAIN d : k = d[i].enc \/ k \in d[i].auth}
           e == Append(d, p)
           n == Len(d) + 1
           K == {i \in DOMAIN e : k = e[i].enc \/ k \in e[i].auth}
           named == k = p.enc \/ k \in p.auth
<1>1. /\ DOMAIN e = DOMAIN d \cup {n} /\ e[n] = p /\ n \notin DOMAIN d
      /\ \A i \in DOMAIN d : e[i] = d[i]
  OBVIOUS
<1>2. K = IF named THEN J \cup {n} ELSE J
  BY <1>1
<1>3. n \notin J
  BY <1>1
<1>4. IsFiniteSet(J) /\ Cardinality(J) \in Nat
  BY AirCount DEF Air
<1>5. Air(d, k) = Cardinality(J) /\ Air(e, k) = Cardinality(K)
  BY DEF Air
<1> HIDE DEF J, K, n, e
<1>6. Cardinality(J \cup {n}) = Cardinality(J) + 1
  BY <1>3, <1>4, FS_AddElement
<1> QED BY <1>2, <1>4, <1>5, <1>6 DEF e

LEMMA AirTail ==
  ASSUME NEW d \in Seq(Packet), d # <<>>, NEW k
  PROVE  /\ Tail(d) \in Seq(Packet) /\ Head(d) \in Packet
         /\ Air(d, k) = Air(Tail(d), k) + IF k = Head(d).enc \/ k \in Head(d).auth THEN 1 ELSE 0
<1> DEFINE T == {i \in DOMAIN Tail(d) : k = Tail(d)[i].enc \/ k \in Tail(d)[i].auth}
           J == {i \in DOMAIN d : k = d[i].enc \/ k \in d[i].auth}
           S == {i \in J : i # 1}
           f == [i \in T |-> i + 1]
           named == k = d[1].enc \/ k \in d[1].auth
<1>0. /\ Tail(d) \in Seq(Packet) /\ Head(d) \in Packet /\ Head(d) = d[1]
      /\ Len(d) \in Nat \ {0} /\ DOMAIN Tail(d) = 1 .. Len(d) - 1 /\ DOMAIN d = 1 .. Len(d)
      /\ \A i \in 1 .. Len(d) - 1 : Tail(d)[i] = d[i + 1]
  OBVIOUS
<1>1. IsFiniteSet(T) /\ IsFiniteSet(J) /\ Cardinality(T) \in Nat /\ Cardinality(J) \in Nat
  BY <1>0, AirCount DEF Air
<1>2. IsFiniteSet(S)
  BY <1>1, FS_Subset
<1>3. f \in Bijection(T, S)
  <2>1. f \in [T -> S]
    BY <1>0
  <2>2. \A i, j \in T : i # j => f[i] # f[j]
    BY <1>0
  <2>3. \A i \in S : i - 1 \in T /\ f[i - 1] = i
    BY <1>0
  <2> QED BY <2>1, <2>2, <2>3 DEF Bijection, Injection, Surjection, IsInjective
<1>4. Cardinality(S) = Cardinality(T)
  <2>1. ExistsBijection(T, S)
    BY <1>3 DEF ExistsBijection
  <2> HIDE DEF T, S, f
  <2> QED BY <1>1, <1>2, <2>1, FS_Bijection
<1>5. Air(d, k) = Cardinality(J) /\ Air(Tail(d), k) = Cardinality(T)
  BY DEF Air
<1>6. CASE named
  <2>1. 1 \in J /\ S = J \ {1}
    BY <1>0, <1>6
  <2>2. Cardinality(S) = Cardinality(J) - 1
    BY <1>1, <2>1, FS_RemoveElement
  <2> HIDE DEF J, T, S, f
  <2> QED BY <1>0, <1>1, <1>4, <1>5, <1>6, <2>2
<1>7. CASE ~named
  <2>1. S = J
    BY <1>7
  <2> HIDE DEF J, T, S, f
  <2> QED BY <1>0, <1>1, <1>4, <1>5, <1>7, <2>1
<1> QED BY <1>6, <1>7

-----------------------------------------------------------------------------
(* Requests of Alice.                                                      *)

(* A handler that only asks for keys leaves all else alone.                *)
Alike(a, c) ==
  /\ c.enc = a.enc /\ c.auth = a.auth /\ c.common = a.common
  /\ c.proposed = a.proposed

LEMMA AlikeKept ==
  ASSUME NEW a, NEW c, Alike(a, c)
  PROVE  /\ \A d, k : Uses(c, d, k) = Uses(a, d, k)
         /\ \A cipher, store, d, made :
              Holding(cipher, a, store, d, made) => Holding(cipher, c, store, d, made)
         /\ \A d, made : Waiting(a, d, made) => Waiting(c, d, made)
         /\ Apart(a) => Apart(c)
         /\ \A b, toA, toB : Answering(a, b, toA, toB) => Answering(c, b, toA, toB)
         /\ \A b : Single(a, b) => Single(c, b)
<1>1. \A d, k : Uses(c, d, k) = Uses(a, d, k)
  BY DEF Alike, Uses
<1>2. \A cipher, store, d, made :
        Holding(cipher, a, store, d, made) => Holding(cipher, c, store, d, made)
  BY <1>1 DEF Holding, Alike
<1>3. \A d, made : Waiting(a, d, made) => Waiting(c, d, made)
  BY <1>1 DEF Waiting, Alike
<1>4. Apart(a) => Apart(c)
  BY DEF Apart, Alike
<1>5. \A b, toA, toB : Answering(a, b, toA, toB) => Answering(c, b, toA, toB)
  BY DEF Answering, Alike
<1>6. \A b : Single(a, b) => Single(c, b)
  BY DEF Single, Alike
<1> QED BY <1>1, <1>2, <1>3, <1>4, <1>5, <1>6

LEMMA KeysAsked ==
  ASSUME NEW a \in Primary, Asking(a), NEW kind \in Kinds, NEW c, c = GetKeysFromKMS(a, kind)
  PROVE  c \in Primary /\ Asking(c) /\ Alike(a, c) /\ c.state = a.state
<1>1. CASE ~a.up /\ Len(a.asked) >= MaxAsked
  <2>1. c = [a EXCEPT !.watch = TRUE]
    BY <1>1 DEF GetKeysFromKMS
  <2> QED BY <2>1 DEF Primary, Asking, Alike
<1>2. CASE ~(~a.up /\ Len(a.asked) >= MaxAsked)
  <2>1. PICK q, s : q = Append(a.queue, kind) /\ s = Append(a.asked, kind)
    OBVIOUS
  <2>2. c = [a EXCEPT !.queue = q, !.asked = s, !.watch = TRUE]
    BY <1>2, <2>1 DEF GetKeysFromKMS
  <2>3. a.queue \in Seq(Kinds) /\ a.asked \in Seq(Kinds \cup {"status"})
    BY DEF Primary
  <2>4. q \in Seq(Kinds) /\ s \in Seq(Kinds \cup {"status"}) /\ Len(q) = Len(a.queue) + 1
        /\ Len(s) = Len(a.asked) + 1 /\ s[Len(s)] = kind /\ s # <<>>
        /\ \A i \in 1 .. Len(a.asked) : s[i] = a.asked[i]
    BY <2>1, <2>3, SMTT(30)
  <2>5. c \in Primary /\ c.queue = q /\ c.asked = s /\ Alike(a, c) /\ c.state = a.state
    BY <2>2, <2>4 DEF Primary, Alike
  <2>6. kind # "status"
    BY DEF Kinds
  <2>7. \A i \in 1 .. Len(s) : s[i] = "status" => i = 1
    <3>1. \A i \in 1 .. Len(a.asked) : a.asked[i] = "status" => i = 1
      BY <2>3 DEF Asking
    <3>2. PICK l \in Nat : l = Len(a.asked)
      BY <2>3
    <3>3. Len(s) = l + 1 /\ s[l + 1] = kind
      BY <2>4, <3>2
    <3> SUFFICES ASSUME NEW i \in 1 .. Len(s), s[i] = "status" PROVE i = 1
      OBVIOUS
    <3>4. i \in 1 .. l \/ i = l + 1
      BY <3>3
    <3>5. i # l + 1
      BY <2>6, <3>3
    <3>6. s[i] = a.asked[i] /\ i \in 1 .. Len(a.asked)
      BY <2>4, <3>2, <3>4, <3>5
    <3> QED BY <3>1, <3>6
  <2>8. Len(s) <= Len(q) + IF s[1] = "status" THEN 1 ELSE 0
    <3>1. PICK l \in Nat, m \in Nat : l = Len(a.asked) /\ m = Len(a.queue)
      BY <2>3
    <3>2. CASE a.asked = <<>>
      <4>1. Len(s) = 1 /\ Len(q) = m + 1
        BY <2>3, <2>4, <3>1, <3>2
      <4> QED BY <4>1
    <3>3. CASE a.asked # <<>>
      <4>0. 1 \in 1 .. Len(a.asked)
        BY <2>3, <3>3
      <4>a. s[1] = a.asked[1]
        BY <4>0, <2>4
      <4>b. l <= m + IF a.asked[1] = "status" THEN 1 ELSE 0
        BY <3>1, <3>3 DEF Asking
      <4>1. s[1] = a.asked[1] /\ l <= m + IF a.asked[1] = "status" THEN 1 ELSE 0
        BY <4>a, <4>b
      <4>2. Len(s) = l + 1 /\ Len(q) = m + 1
        BY <2>4, <3>1
      <4>3. CASE a.asked[1] = "status"
        BY <4>1, <4>2, <4>3
      <4>4. CASE a.asked[1] # "status"
        BY <4>1, <4>2, <4>4
      <4> QED BY <4>3, <4>4
    <3> QED BY <3>2, <3>3
  <2>9. DOMAIN s = 1 .. Len(s)
    BY <2>4
  <2>10. Asking(c)
    BY <2>4, <2>5, <2>7, <2>8, <2>9 DEF Asking
  <2> QED BY <2>5, <2>10
<1> QED BY <1>1, <1>2

LEMMA StateChecked ==
  ASSUME NEW a \in Primary, NEW c, c = CheckAppState(a)
  PROVE  /\ c \in Primary /\ Alike(a, c) /\ Settled(set.auth, c)
         /\ c.queue = a.queue /\ c.asked = a.asked /\ (Asking(a) => Asking(c))
<1>1. PICK st \in {"WAIT", "READY"} :
        /\ st = IF \E kind \in Kinds : Lacks(a, kind) THEN "WAIT" ELSE "READY"
  OBVIOUS
<1>2. c = [a EXCEPT !.state = st]
  BY <1>1 DEF CheckAppState
<1>3. c \in Primary /\ Alike(a, c) /\ c.state = st /\ c.queue = a.queue /\ c.asked = a.asked
  BY <1>2 DEF Primary, Alike
<1>4. Asking(a) => Asking(c)
  BY <1>3 DEF Asking
<1>5. \A kind \in Kinds : LacksOf(set.auth, c, kind) => Lacks(a, kind)
  BY <1>3 DEF LacksOf, Lacks, Alike, EncKeys
<1>6. Settled(set.auth, c)
  BY <1>1, <1>3, <1>5 DEF Settled
<1> QED BY <1>3, <1>4, <1>6

LEMMA StoresManaged ==
  ASSUME NEW a \in Primary, Asking(a), NEW c, c = ManageStores(a)
  PROVE  c \in Primary /\ Asking(c) /\ Alike(a, c) /\ Settled(set.auth, c)
<1>1. PICK b : b = IF Lacks(a, "encryption") THEN GetKeysFromKMS(a, "encryption") ELSE a
  OBVIOUS
<1>2. PICK e : e = IF Lacks(b, "authentication") THEN GetKeysFromKMS(b, "authentication") ELSE b
  OBVIOUS
<1>3. c = CheckAppState(e)
  BY <1>1, <1>2 DEF ManageStores
<1>4. b \in Primary /\ Asking(b) /\ Alike(a, b)
  <2>1. CASE Lacks(a, "encryption")
    <3>1. b = GetKeysFromKMS(a, "encryption") /\ "encryption" \in Kinds
      BY <1>1, <2>1 DEF Kinds
    <3> QED BY <3>1, KeysAsked
  <2>2. CASE ~Lacks(a, "encryption")
    BY <1>1, <2>2 DEF Alike
  <2> QED BY <2>1, <2>2
<1>5. e \in Primary /\ Asking(e) /\ Alike(b, e)
  <2>1. CASE Lacks(b, "authentication")
    <3>1. e = GetKeysFromKMS(b, "authentication") /\ "authentication" \in Kinds
      BY <1>2, <2>1 DEF Kinds
    <3> QED BY <1>4, <3>1, KeysAsked
  <2>2. CASE ~Lacks(b, "authentication")
    BY <1>2, <1>4, <2>2 DEF Alike
  <2> QED BY <2>1, <2>2
<1>6. c \in Primary /\ Alike(e, c) /\ Settled(set.auth, c) /\ Asking(c)
  BY <1>3, <1>5, StateChecked
<1> QED BY <1>4, <1>5, <1>6 DEF Alike

(* The answer to one request, wherever the KMS puts it.                    *)
LEMMA RequestAnswered ==
  ASSUME NEW a \in Primary, NEW i \in DOMAIN a.asked, NEW c, c = Answered(a, i)
  PROVE  /\ c \in Primary /\ Alike(a, c) /\ c.state = a.state /\ c.queue = a.queue
         /\ c.up = a.up /\ Len(c.asked) = Len(a.asked) - 1 /\ DOMAIN c.asked = 1 .. Len(a.asked) - 1
         /\ \A j \in 1 .. Len(a.asked) - 1 :
              c.asked[j] = IF j < i THEN a.asked[j] ELSE a.asked[j + 1]
<1>1. a.asked \in Seq(Kinds \cup {"status"}) /\ i \in 1 .. Len(a.asked)
  BY DEF Primary
<1>2. PICK n \in Nat : n = Len(a.asked)
  BY <1>1
<1> DEFINE T == Kinds \cup {"status"}
           p == SubSeq(a.asked, 1, i - 1)
           q == SubSeq(a.asked, i + 1, n)
<1>3. p \in Seq(T) /\ Len(p) = i - 1 /\ \A j \in 1 .. i - 1 : p[j] = a.asked[j]
  <2>1. 1 \in Int /\ i - 1 \in Int /\ \A j \in 1 .. i - 1 : a.asked[j] \in T
    BY <1>1, <1>2
  <2>2. /\ p \in Seq(T) /\ Len(p) = IF 1 <= i - 1 THEN (i - 1) - 1 + 1 ELSE 0
        /\ \A j \in 1 .. (i - 1) - 1 + 1 : p[j] = a.asked[1 + j - 1]
    BY <2>1, SubSeqProperties
  <2> QED BY <1>1, <1>2, <2>2
<1>4. q \in Seq(T) /\ Len(q) = n - i /\ \A j \in 1 .. n - i : q[j] = a.asked[j + i]
  <2>1. n \in Int /\ i + 1 \in Int /\ \A j \in i + 1 .. n : a.asked[j] \in T
    BY <1>1, <1>2
  <2>2. /\ q \in Seq(T) /\ Len(q) = IF i + 1 <= n THEN n - (i + 1) + 1 ELSE 0
        /\ \A j \in 1 .. n - (i + 1) + 1 : q[j] = a.asked[(i + 1) + j - 1]
    BY <2>1, SubSeqProperties
  <2> QED BY <1>1, <1>2, <2>2
<1>b. Answered(a, i) = [a EXCEPT !.asked = p \o q, !.watch = FALSE]
  BY <1>2 DEF Answered
<1> HIDE DEF p, q, T
<1>c. /\ p \o q \in Seq(T) /\ Len(p \o q) = Len(p) + Len(q)
      /\ \A j \in 1 .. Len(p) + Len(q) : (p \o q)[j] = IF j <= Len(p) THEN p[j] ELSE q[j - Len(p)]
  BY <1>3, <1>4, ConcatProperties
<1>5. PICK s \in Seq(T) : s = p \o q
  BY <1>c
<1>6. Len(s) = n - 1 /\ DOMAIN s = 1 .. n - 1
  <2>1. Len(s) = n - 1
    BY <1>1, <1>2, <1>3, <1>4, <1>5, <1>c
  <2> QED BY <2>1
<1>d. i \in 1 .. n /\ Len(p) = i - 1 /\ Len(q) = n - i
  BY <1>1, <1>2, <1>3, <1>4
<1>e. Len(p) + Len(q) = n - 1
  BY <1>d
<1>7. \A j \in 1 .. n - 1 : s[j] = IF j < i THEN a.asked[j] ELSE a.asked[j + 1]
  <2> SUFFICES ASSUME NEW j \in 1 .. n - 1
               PROVE  s[j] = IF j < i THEN a.asked[j] ELSE a.asked[j + 1]
    OBVIOUS
  <2>1. CASE j < i
    <3>1. j \in 1 .. Len(p) + Len(q) /\ j <= Len(p) /\ j \in 1 .. i - 1
      BY <1>d, <1>e, <2>1
    <3>2. s[j] = p[j]
      BY <1>c, <1>5, <3>1
    <3> QED BY <1>3, <2>1, <3>1, <3>2
  <2>2. CASE ~(j < i)
    <3>a. j \in 1 .. Len(p) + Len(q) /\ ~(j <= Len(p))
      BY <1>d, <1>e, <2>2
    <3>b. s[j] = q[j - Len(p)]
      BY <1>c, <1>5, <3>a
    <3>1. s[j] = q[j - (i - 1)]
      BY <1>d, <3>b
    <3>2. j - (i - 1) \in 1 .. n - i /\ (j - (i - 1)) + i = j + 1
      BY <1>1, <1>2, <2>2
    <3> QED BY <1>4, <2>2, <3>1, <3>2
  <2> QED BY <2>1, <2>2
<1>8. c = [a EXCEPT !.asked = s, !.watch = FALSE]
  BY <1>b, <1>5
<1> USE DEF T
<1>9. /\ c \in Primary /\ Alike(a, c) /\ c.state = a.state /\ c.queue = a.queue
      /\ c.up = a.up /\ c.asked = s
  BY <1>8 DEF Primary, Alike
<1> QED BY <1>2, <1>6, <1>7, <1>9

-----------------------------------------------------------------------------
(* The steps of Alice that only change her requests.                       *)

LEMMA AlikeStep ==
  ASSUME IInv, Alike(alice, alice'), alice' \in Primary, Asking(alice'),
         Settled(set.auth, alice'), UNCHANGED <<set, bob, sig, data, kms, failed>>
  PROVE  IInv'
<1>1. /\ set' = set /\ bob' = bob /\ sig' = sig /\ data' = data /\ kms' = kms
      /\ failed' = failed
  OBVIOUS
<1>2. Types'
  BY <1>1 DEF IInv, Types
<1>3. Answering(alice', bob', sig'.alice, sig'.bob)
  BY <1>1, AlikeKept DEF IInv
<1>4. Single(alice', bob')
  BY <1>1, AlikeKept DEF IInv
<1>5. Apart(alice')
  BY AlikeKept DEF IInv
<1>6. Waiting(alice', data', kms'.made)
  BY <1>1, AlikeKept DEF IInv
<1>7. Holding(set'.cipher, alice', bob'.store, data', kms'.made)
  BY <1>1, AlikeKept DEF IInv
<1>8. ~failed'
  BY <1>1 DEF IInv
<1> QED BY <1>1, <1>2, <1>3, <1>4, <1>5, <1>6, <1>7, <1>8 DEF IInv

LEMMA ScheduledLookStep ==
  ASSUME IInv, ScheduledLook
  PROVE  IInv'
<1>1. alice \in Primary /\ Asking(alice)
  BY DEF IInv, Types
<1>2. PICK a : a = [alice EXCEPT !.look = FALSE]
  OBVIOUS
<1>3. a \in Primary /\ Alike(alice, a) /\ a.asked = alice.asked /\ a.queue = alice.queue
  BY <1>1, <1>2 DEF Primary, Alike
<1>4. Asking(a)
  BY <1>1, <1>3 DEF Asking
<1>5. alice' = ManageStores(a) /\ UNCHANGED <<set, bob, sig, data, kms, failed>>
  BY <1>2 DEF ScheduledLook
<1>6. alice' \in Primary /\ Asking(alice') /\ Alike(a, alice') /\ Settled(set.auth, alice')
  BY <1>3, <1>4, <1>5, StoresManaged
<1>7. Alike(alice, alice')
  BY <1>3, <1>6 DEF Alike
<1> QED BY <1>5, <1>6, <1>7, AlikeStep

LEMMA MissStep ==
  ASSUME IInv, Miss
  PROVE  IInv'
<1>1. alice \in Primary /\ Asking(alice) /\ Settled(set.auth, alice)
  BY DEF IInv, Types
<1>2. alice' = [alice EXCEPT !.look = TRUE] /\ UNCHANGED <<set, bob, sig, data, kms, failed>>
  BY DEF Miss
<1>3. alice' \in Primary /\ Alike(alice, alice') /\ alice'.asked = alice.asked
      /\ alice'.queue = alice.queue /\ alice'.state = alice.state
  BY <1>1, <1>2 DEF Primary, Alike
<1>4. Asking(alice')
  BY <1>1, <1>3 DEF Asking
<1>5. Settled(set.auth, alice')
  BY <1>1, <1>3 DEF Settled, LacksOf, Alike, EncKeys
<1> QED BY <1>2, <1>3, <1>4, <1>5, AlikeStep

(* Whichever request is answered, the others keep their kinds.             *)
LEMMA AskingKept ==
  ASSUME NEW a \in Primary, Asking(a), NEW i \in DOMAIN a.asked, NEW c, c = Answered(a, i)
  PROVE  Asking(c)
<1>1. PICK l \in Nat, m \in Nat : l = Len(a.asked) /\ m = Len(a.queue)
  BY DEF Primary
<1>2. i \in 1 .. l /\ DOMAIN a.asked = 1 .. l
  BY <1>1 DEF Primary
<1>3. Len(c.asked) = l - 1 /\ Len(c.queue) = m /\ DOMAIN c.asked = 1 .. l - 1
  BY <1>1, RequestAnswered
<1>4. \A j \in 1 .. l - 1 : c.asked[j] = IF j < i THEN a.asked[j] ELSE a.asked[j + 1]
  BY <1>1, RequestAnswered
<1>5. \A j \in 1 .. l : a.asked[j] = "status" => j = 1
  BY <1>2 DEF Asking
<1>6. \A j \in 1 .. l - 1 : c.asked[j] = "status" => j = 1
  <2> SUFFICES ASSUME NEW j \in 1 .. l - 1, c.asked[j] = "status" PROVE j = 1
    OBVIOUS
  <2>1. CASE j < i
    BY <1>4, <1>5, <2>1
  <2>2. CASE ~(j < i)
    <3>1. a.asked[j + 1] = "status" /\ j + 1 \in 1 .. l
      BY <1>4, <2>2
    <3>2. j + 1 = 1
      BY <1>5, <3>1
    <3> QED BY <3>2
  <2> QED BY <2>1, <2>2
<1>7. l <= m + IF a.asked # <<>> /\ a.asked[1] = "status" THEN 1 ELSE 0
  BY <1>1 DEF Asking
<1>8. l - 1 <= m + IF c.asked # <<>> /\ c.asked[1] = "status" THEN 1 ELSE 0
  <2>1. CASE a.asked # <<>> /\ a.asked[1] = "status" /\ i # 1
    <3>1. 1 \in 1 .. l - 1 /\ 1 < i
      BY <1>2, <2>1
    <3>2. c.asked[1] = "status" /\ 1 \in DOMAIN c.asked
      BY <1>3, <1>4, <2>1, <3>1
    <3>3. c.asked # <<>>
      BY <3>2
    <3>4. l <= m + 1
      BY <1>7, <2>1
    <3> QED BY <3>2, <3>3, <3>4
  <2>2. CASE ~(a.asked # <<>> /\ a.asked[1] = "status")
    <3>1. l <= m
      BY <1>7, <2>2
    <3> QED BY <3>1
  <2>3. CASE i = 1
    <3>1. l - 1 <= m
      BY <1>7
    <3> QED BY <3>1
  <2> QED BY <2>1, <2>2, <2>3
<1> QED BY <1>3, <1>6, <1>8 DEF Asking

LEMMA StatusAnsweredStep ==
  ASSUME IInv, StatusAnswered
  PROVE  IInv'
<1>1. alice \in Primary /\ Asking(alice)
  BY DEF IInv, Types
<1>2. 1 \in DOMAIN alice.asked
  BY <1>1 DEF StatusAnswered, HeadAsked, Primary
<1>3. PICK a : a = Answered(alice, 1)
  OBVIOUS
<1>4. a \in Primary /\ Alike(alice, a)
  BY <1>1, <1>2, <1>3, RequestAnswered
<1>5. Asking(a)
  BY <1>1, <1>2, <1>3, AskingKept
<1>6. alice' = ManageStores(a) /\ UNCHANGED <<set, bob, sig, data, kms, failed>>
  BY <1>3 DEF StatusAnswered
<1>7. alice' \in Primary /\ Asking(alice') /\ Alike(a, alice') /\ Settled(set.auth, alice')
  BY <1>4, <1>5, <1>6, StoresManaged
<1>8. Alike(alice, alice')
  BY <1>4, <1>7 DEF Alike
<1> QED BY <1>6, <1>7, <1>8, AlikeStep

LEMMA EncKeysRefusedStep ==
  ASSUME IInv, EncKeysRefused
  PROVE  IInv'
<1>1. alice \in Primary /\ Asking(alice) /\ Settled(set.auth, alice)
  BY DEF IInv, Types
<1>2. PICK i \in DOMAIN alice.asked :
        /\ alice' = [Answered(alice, i) EXCEPT !.look = TRUE]
        /\ UNCHANGED <<set, bob, sig, data, kms, failed>>
  BY DEF EncKeysRefused
<1>3. PICK a : a = Answered(alice, i)
  OBVIOUS
<1>4. a \in Primary /\ Alike(alice, a) /\ a.state = alice.state
  BY <1>1, <1>3, RequestAnswered
<1>5. Asking(a)
  BY <1>1, <1>3, AskingKept
<1>6. alice' = [a EXCEPT !.look = TRUE]
  BY <1>2, <1>3
<1>7. /\ alice' \in Primary /\ Alike(a, alice') /\ alice'.state = alice.state
      /\ alice'.asked = a.asked /\ alice'.queue = a.queue
  BY <1>4, <1>6 DEF Primary, Alike
<1>8. Asking(alice')
  BY <1>5, <1>7 DEF Asking
<1>9. Alike(alice, alice')
  BY <1>4, <1>7 DEF Alike
<1>10. Settled(set.auth, alice')
  BY <1>1, <1>7, <1>9 DEF Settled, LacksOf, Alike, EncKeys
<1> QED BY <1>2, <1>7, <1>8, <1>9, <1>10, AlikeStep

LEMMA KmsRequestTimeoutAliceStep ==
  ASSUME IInv, KmsRequestTimeoutAlice
  PROVE  IInv'
<1>1. alice \in Primary
  BY DEF IInv, Types
<1>2. PICK a : a = Reconnected(alice)
  OBVIOUS
<1>3. a = [alice EXCEPT !.asked = <<>>, !.up = TRUE, !.watch = FALSE]
  BY <1>2 DEF Reconnected
<1>4. a \in Primary /\ Alike(alice, a) /\ a.asked = <<>>
  <2>1. PICK e \in Seq(Kinds \cup {"status"}) : e = <<>>
    BY EmptySeq
  <2>2. a = [alice EXCEPT !.asked = e, !.up = TRUE, !.watch = FALSE]
    BY <1>3, <2>1
  <2> QED BY <1>1, <2>1, <2>2 DEF Primary, Alike
<1>5. Asking(a)
  <2>1. a.queue \in Seq(Kinds)
    BY <1>4 DEF Primary
  <2>2. Len(a.queue) \in Nat
    BY <2>1
  <2> QED BY <1>4, <2>2 DEF Asking
<1>6. alice' = ManageStores(a) /\ UNCHANGED <<set, bob, sig, data, kms, failed>>
  BY <1>2 DEF KmsRequestTimeoutAlice
<1>7. alice' \in Primary /\ Asking(alice') /\ Alike(a, alice') /\ Settled(set.auth, alice')
  BY <1>4, <1>5, <1>6, StoresManaged
<1>8. Alike(alice, alice')
  BY <1>4, <1>7 DEF Alike
<1> QED BY <1>6, <1>7, <1>8, AlikeStep

LEMMA ConnectionSilentAliceStep ==
  ASSUME IInv, ConnectionSilentAlice
  PROVE  IInv'
<1>1. alice \in Primary /\ Asking(alice) /\ Settled(set.auth, alice)
  BY DEF IInv, Types
<1>2. alice' = [alice EXCEPT !.up = FALSE] /\ UNCHANGED <<set, bob, sig, data, kms, failed>>
  BY DEF ConnectionSilentAlice
<1>3. alice' \in Primary /\ Alike(alice, alice') /\ alice'.asked = alice.asked
      /\ alice'.queue = alice.queue /\ alice'.state = alice.state
  BY <1>1, <1>2 DEF Primary, Alike
<1>4. Asking(alice')
  BY <1>1, <1>3 DEF Asking
<1>5. Settled(set.auth, alice')
  BY <1>1, <1>3 DEF Settled, LacksOf, Alike, EncKeys
<1> QED BY <1>2, <1>3, <1>4, <1>5, AlikeStep

-----------------------------------------------------------------------------
(* The steps of proposals.                                                 *)

(* Keys that are made are no longer fresh, and none that is proposed or in *)
(* use is made again.                                                      *)
LEMMA EncKeysAnsweredStep ==
  ASSUME IInv, EncKeysAnswered, Overlap = FALSE
  PROVE  IInv'
<1>1. /\ alice \in Primary /\ Asking(alice) /\ Settled(set.auth, alice) /\ Apart(alice)
      /\ Waiting(alice, data, kms.made) /\ Single(alice, bob)
      /\ Holding(set.cipher, alice, bob.store, data, kms.made)
      /\ Answering(alice, bob, sig.alice, sig.bob)
  BY DEF IInv, Types
<1>2. /\ set \in Settings /\ bob \in Replica /\ sig \in [alice : Seq(Status), bob : Seq(SUBSET KeyIds)]
      /\ data \in Seq(Packet) /\ kms \in [made : [KeyIds -> Kinds \cup {"none"}], kept : SUBSET KeyIds]
      /\ (\A k \in kms.kept : kms.made[k] # "none") /\ ~failed
  BY DEF IInv, Types
<1>3. PICK ids \in SUBSET Fresh :
        /\ kms' = [made |-> [k \in KeyIds |->
                               IF k \in ids THEN Head(alice.asked) ELSE kms.made[k]],
                   kept |-> kms.kept \cup ids]
        /\ LET pop == PopHttpKmsRequest(alice)
           IN alice' = [Answered(alice, 1) EXCEPT
                          !.queue = pop.rest,
                          !.common = [k \in KeyIds |-> IF k \in ids THEN pop.kind ELSE @[k]],
                          !.proposed = Append(@, ids)]
        /\ sig' = [sig EXCEPT !.bob = Append(@, ids)]
  BY DEF EncKeysAnswered
<1>4. /\ UNCHANGED <<set, bob, data, faults, failed>>
      /\ alice.asked # <<>> /\ Head(alice.asked) \in Kinds
      /\ bob.up \/ alice.proposed = <<>>
  BY DEF EncKeysAnswered, HeadAsked
<1>5. /\ 1 \in DOMAIN alice.asked /\ Head(alice.asked) = alice.asked[1]
  BY <1>1, <1>4 DEF Primary
<1>6. PICK a : a = Answered(alice, 1)
  OBVIOUS
<1>7. /\ a \in Primary /\ Alike(alice, a) /\ a.state = alice.state /\ a.queue = alice.queue
      /\ Len(a.asked) = Len(alice.asked) - 1
      /\ \A j \in 1 .. Len(alice.asked) - 1 : a.asked[j] = alice.asked[j + 1]
  <2>1. /\ a \in Primary /\ Alike(alice, a) /\ a.state = alice.state /\ a.queue = alice.queue
        /\ Len(a.asked) = Len(alice.asked) - 1
    BY <1>1, <1>5, <1>6, RequestAnswered
  <2>2. \A j \in 1 .. Len(alice.asked) - 1 :
          a.asked[j] = IF j < 1 THEN alice.asked[j] ELSE alice.asked[j + 1]
    BY <1>1, <1>5, <1>6, RequestAnswered
  <2> QED BY <2>1, <2>2
<1>8. Len(alice.asked) <= Len(alice.queue)
  <2>1. alice.asked[1] # "status"
    BY <1>4, <1>5 DEF Kinds
  <2>2. Len(alice.asked) <= Len(alice.queue) + 0
    BY <1>1, <2>1 DEF Asking
  <2> QED BY <1>1, <2>2 DEF Primary
<1>9. PICK q \in Seq(Kinds), kind \in Kinds, n \in Nat, l \in Nat :
        /\ q = Tail(alice.queue) /\ kind = Head(alice.queue) /\ Len(q) = n
        /\ Len(alice.queue) = n + 1 /\ Len(alice.asked) = l + 1 /\ l <= n
  <2>1. alice.queue \in Seq(Kinds) /\ alice.asked \in Seq(Kinds \cup {"status"})
    BY <1>1 DEF Primary
  <2>2. Len(alice.asked) \in Nat /\ Len(alice.queue) \in Nat /\ Len(alice.asked) # 0
    BY <1>4, <2>1
  <2>3. alice.queue # <<>> /\ Len(alice.queue) # 0
    BY <1>8, <2>1, <2>2
  <2>4. /\ Tail(alice.queue) \in Seq(Kinds) /\ Head(alice.queue) \in Kinds
        /\ Len(Tail(alice.queue)) = Len(alice.queue) - 1
    BY <2>1, <2>3
  <2>a. PICK n \in Nat : n = Len(alice.queue) - 1
    BY <2>2, <2>3
  <2>b. PICK l \in Nat : l = Len(alice.asked) - 1
    BY <2>2, SMTT(30)
  <2>5. Len(alice.queue) = n + 1 /\ Len(alice.asked) = l + 1
    BY <2>2, <2>a, <2>b
  <2>6. l <= n /\ Len(Tail(alice.queue)) = n
    BY <1>8, <2>4, <2>5
  <2> QED BY <2>4, <2>5, <2>6
<1>10. PICK cm \in [KeyIds -> Kinds \cup {"none"}] :
         cm = [k \in KeyIds |-> IF k \in ids THEN kind ELSE alice.common[k]]
  BY <1>1 DEF Primary
<1>11. PICK pr \in Seq(SUBSET KeyIds) : pr = Append(alice.proposed, ids)
  <2>1. alice.proposed \in Seq(SUBSET KeyIds) /\ ids \in SUBSET KeyIds
    BY <1>1 DEF Primary, Fresh
  <2> QED BY <2>1, AppendProperties
<1>12. alice' = [a EXCEPT !.queue = q, !.common = cm, !.proposed = pr]
  BY <1>3, <1>6, <1>7, <1>9, <1>10, <1>11 DEF PopHttpKmsRequest, Alike
<1>13. /\ alice' \in Primary /\ alice'.enc = alice.enc /\ alice'.auth = alice.auth
       /\ alice'.queue = q /\ alice'.asked = a.asked /\ alice'.common = cm
       /\ alice'.proposed = pr /\ alice'.state = alice.state
  BY <1>7, <1>12 DEF Primary, Alike
<1>14. /\ set' = set /\ bob' = bob /\ data' = data /\ failed' = failed
       /\ sig'.alice = sig.alice /\ sig'.bob = Append(sig.bob, ids)
       /\ sig' \in [alice : Seq(Status), bob : Seq(SUBSET KeyIds)]
  <2>1. PICK t \in Seq(SUBSET KeyIds) : t = Append(sig.bob, ids)
    <3>1. sig.bob \in Seq(SUBSET KeyIds) /\ ids \in SUBSET KeyIds
      BY <1>2 DEF Fresh
    <3> QED BY <3>1, AppendProperties
  <2>2. sig' = [sig EXCEPT !.bob = t]
    BY <1>3, <2>1
  <2> QED BY <1>2, <1>4, <2>1, <2>2
<1>15. /\ kms'.kept = kms.kept \cup ids
       /\ \A k \in KeyIds : kms'.made[k] = IF k \in ids THEN Head(alice.asked) ELSE kms.made[k]
  BY <1>3
<1>16. \A k \in ids : k \in KeyIds /\ kms.made[k] = "none" /\ kms'.made[k] # "none"
  BY <1>4, <1>15 DEF Fresh, Kinds
<1>17. Types'
  <2>1. kms' \in [made : [KeyIds -> Kinds \cup {"none"}], kept : SUBSET KeyIds]
    BY <1>2, <1>3, <1>4 DEF Fresh
  <2>2. \A k \in kms'.kept : kms'.made[k] # "none"
    BY <1>2, <1>15, <1>16
  <2> QED BY <1>2, <1>13, <1>14, <2>1, <2>2 DEF Types
<1>18. Asking(alice')
  <2>1. a.asked \in Seq(Kinds \cup {"status"}) /\ Len(a.asked) = l /\ DOMAIN a.asked = 1 .. l
    BY <1>7, <1>9 DEF Primary
  <2>2. \A j \in 1 .. l : a.asked[j] # "status"
    <3> SUFFICES ASSUME NEW j \in 1 .. l, a.asked[j] = "status" PROVE FALSE
      OBVIOUS
    <3>1. alice.asked[j + 1] = "status" /\ j + 1 \in DOMAIN alice.asked
      BY <1>1, <1>7, <1>9 DEF Primary
    <3>2. j + 1 = 1
      BY <1>1, <3>1 DEF Asking
    <3> QED BY <3>2
  <2>3. \A j \in DOMAIN alice'.asked : alice'.asked[j] = "status" => j = 1
    BY <1>13, <2>1, <2>2
  <2>4. Len(alice'.asked) = l /\ Len(alice'.queue) = n
    BY <1>9, <1>13, <2>1
  <2>5. l <= n + IF alice'.asked # <<>> /\ alice'.asked[1] = "status" THEN 1 ELSE 0
    BY <1>9
  <2> QED BY <2>3, <2>4, <2>5 DEF Asking
<1>19. Settled(set'.auth, alice')
  BY <1>1, <1>13, <1>14 DEF Settled, LacksOf, EncKeys
<1>20. \A k : Uses(alice', data', k) = Uses(alice, data, k)
  BY <1>13, <1>14 DEF Uses
<1>21. PICK p \in Nat : p = Len(alice.proposed)
  BY <1>1 DEF Primary
<1>22. /\ Len(pr) = p + 1 /\ DOMAIN pr = 1 .. p + 1 /\ DOMAIN alice.proposed = 1 .. p
       /\ pr[p + 1] = ids /\ \A i \in 1 .. p : pr[i] = alice.proposed[i]
  BY <1>1, <1>11, <1>21 DEF Primary
<1>23. \A i \in 1 .. p : \A k \in alice.proposed[i] :
         k \in KeyIds /\ kms.made[k] # "none" /\ Uses(alice, data, k) = 0
  <2>1. \A i \in 1 .. p : alice.proposed[i] \in SUBSET KeyIds
    <3>1. alice.proposed \in Seq(SUBSET KeyIds)
      BY <1>1 DEF Primary
    <3> QED BY <1>22, <3>1
  <2> QED BY <1>1, <1>22, <2>1 DEF Waiting
<1>24. Answering(alice', bob', sig'.alice, sig'.bob)
  <2>1. PICK x \in Nat, y \in Nat, z \in Nat :
          /\ x = Len(sig.alice) /\ y = Len(bob.asked) /\ z = Len(sig.bob)
    BY <1>2 DEF Replica
  <2>2. p = x + y + z
    BY <1>1, <1>21, <2>1 DEF Answering
  <2>3. /\ Len(sig'.bob) = z + 1 /\ sig'.bob[z + 1] = ids
        /\ \A i \in 1 .. z : sig'.bob[i] = sig.bob[i]
    BY <1>2, <1>14, <2>1
  <2>4. Len(pr) = x + y + (z + 1)
    BY <1>22, <2>2
  <2>5. \A i \in 1 .. x : sig.alice[i] = "Ok" => \A k \in pr[i] : bob.store[k] = Life
    <3>1. \A i \in 1 .. x : i \in 1 .. p
      BY <2>2
    <3>2. \A i \in 1 .. x : sig.alice[i] = "Ok" => \A k \in alice.proposed[i] : bob.store[k] = Life
      BY <1>1, <2>1 DEF Answering
    <3> QED BY <1>22, <3>1, <3>2
  <2>6. \A i \in 1 .. y : pr[x + i] = bob.asked[i]
    <3>1. \A i \in 1 .. y : x + i \in 1 .. p
      BY <2>2
    <3>2. \A i \in 1 .. y : alice.proposed[x + i] = bob.asked[i]
      BY <1>1, <2>1 DEF Answering
    <3> QED BY <1>22, <3>1, <3>2
  <2>7. \A i \in 1 .. z + 1 : pr[x + y + i] = sig'.bob[i]
    <3> SUFFICES ASSUME NEW i \in 1 .. z + 1 PROVE pr[x + y + i] = sig'.bob[i]
      OBVIOUS
    <3>1. CASE i = z + 1
      <4>1. x + y + i = p + 1
        BY <2>2, <3>1
      <4> QED BY <1>22, <2>3, <3>1, <4>1
    <3>2. CASE i # z + 1
      <4>1. i \in 1 .. z /\ x + y + i \in 1 .. p
        BY <2>2, <3>2
      <4>2. \A j \in 1 .. z : alice.proposed[x + y + j] = sig.bob[j]
        BY <1>1, <2>1 DEF Answering
      <4> QED BY <1>22, <2>3, <4>1, <4>2
    <3> QED BY <3>1, <3>2
  <2> QED BY <1>13, <1>14, <2>1, <2>3, <2>4, <2>5, <2>6, <2>7, ZenonT(60) DEF Answering
<1>25. Single(alice', bob')
  <2>1. ~bob.up => p = 0
    BY <1>4, <1>21
  <2>2. ~bob.up => Len(pr) <= 1
    BY <1>22, <2>1
  <2> QED BY <1>1, <1>13, <1>14, <2>2 DEF Single
<1>26. Apart(alice')
  <2>1. \A i \in 1 .. p : pr[i] \cap ids = {}
    BY <1>16, <1>22, <1>23
  <2>2. \A i, j \in 1 .. p : i # j => pr[i] \cap pr[j] = {}
    BY <1>1, <1>22 DEF Apart
  <2>3. \A i \in 1 .. p + 1 : i = p + 1 \/ i \in 1 .. p
    OBVIOUS
  <2> QED BY <1>13, <1>22, <2>1, <2>2, <2>3 DEF Apart
<1>27. Waiting(alice', data', kms'.made)
  <2>1. \A i \in 1 .. p + 1 : i = p + 1 \/ i \in 1 .. p
    OBVIOUS
  <2>2. \A k \in ids : Uses(alice, data, k) = 0
    BY <1>1, <1>16 DEF Holding
  <2>3. \A i \in 1 .. p : \A k \in alice.proposed[i] : kms'.made[k] # "none"
    BY <1>15, <1>16, <1>23
  <2> QED BY <1>13, <1>16, <1>20, <1>22, <1>23, <2>1, <2>2, <2>3 DEF Waiting
<1>28. Holding(set'.cipher, alice', bob'.store, data', kms'.made)
  <2> SUFFICES ASSUME NEW k \in KeyIds
               PROVE  /\ kms'.made[k] = "none" => Uses(alice, data, k) = 0
                      /\ Uses(alice, data, k) > 0 => cm[k] = "none"
                      /\ alice.enc[k] > 0 => k \notin alice.auth
                      /\ Enough(set.cipher, bob.store[k], Uses(alice, data, k))
    BY <1>13, <1>14, <1>20 DEF Holding
  <2>1. /\ kms.made[k] = "none" => Uses(alice, data, k) = 0
        /\ Uses(alice, data, k) > 0 => alice.common[k] = "none"
        /\ alice.enc[k] > 0 => k \notin alice.auth
        /\ Enough(set.cipher, bob.store[k], Uses(alice, data, k))
    BY <1>1 DEF Holding
  <2>2. kms'.made[k] = "none" => Uses(alice, data, k) = 0
    BY <1>15, <1>16, <2>1
  <2>3. Uses(alice, data, k) > 0 => cm[k] = "none"
    BY <1>10, <1>16, <2>1
  <2> QED BY <2>1, <2>2, <2>3
<1> QED BY <1>2, <1>14, <1>17, <1>18, <1>19, <1>24, <1>25, <1>26, <1>27, <1>28 DEF IInv

-----------------------------------------------------------------------------
(* The steps of Bob.                                                       *)

(* Bob's steps are about the order of the answers: where he finds keys he  *)
(* finds those of a proposal, which have no use yet.                       *)
LEMMA ReplicaStep ==
  ASSUME IInv, UNCHANGED <<set, alice, data, failed>>, bob' \in Replica,
         sig' \in [alice : Seq(Status), bob : Seq(SUBSET KeyIds)],
         kms' \in [made : [KeyIds -> Kinds \cup {"none"}], kept : SUBSET KeyIds],
         kms'.made = kms.made, kms'.kept \subseteq kms.kept,
         Answering(alice, bob', sig'.alice, sig'.bob), Single(alice, bob'),
         \A k \in KeyIds : \/ bob'.store[k] = bob.store[k]
                           \/ bob'.store[k] = Life /\ Uses(alice, data, k) = 0
  PROVE  IInv'
<1>1. set' = set /\ alice' = alice /\ data' = data /\ failed' = failed
  OBVIOUS
<1>2. Types'
  BY <1>1 DEF IInv, Types
<1>3. Asking(alice') /\ ~failed' /\ Apart(alice') /\ Settled(set'.auth, alice')
  BY <1>1 DEF IInv
<1>4. Waiting(alice', data', kms'.made)
  BY <1>1 DEF IInv
<1>5. Holding(set.cipher, alice, bob'.store, data, kms.made)
  <2> SUFFICES ASSUME NEW k \in KeyIds
               PROVE  /\ kms.made[k] = "none" => Uses(alice, data, k) = 0
                      /\ Uses(alice, data, k) > 0 => alice.common[k] = "none"
                      /\ alice.enc[k] > 0 => k \notin alice.auth
                      /\ Enough(set.cipher, bob'.store[k], Uses(alice, data, k))
    BY DEF Holding
  <2>1. Holding(set.cipher, alice, bob.store, data, kms.made)
    BY DEF IInv
  <2>2. /\ kms.made[k] = "none" => Uses(alice, data, k) = 0
        /\ Uses(alice, data, k) > 0 => alice.common[k] = "none"
        /\ alice.enc[k] > 0 => k \notin alice.auth
    BY <2>1 DEF Holding
  <2>3. Enough(set.cipher, bob'.store[k], Uses(alice, data, k))
    <3>1. CASE bob'.store[k] = bob.store[k]
      BY <2>1, <3>1 DEF Holding
    <3>2. CASE bob'.store[k] = Life /\ Uses(alice, data, k) = 0
      BY <3>2, App014Assumption DEF Enough
    <3> QED BY <3>1, <3>2
  <2> QED BY <2>2, <2>3
<1>6. Holding(set'.cipher, alice', bob'.store, data', kms'.made)
  BY <1>1, <1>5
<1>7. Answering(alice', bob', sig'.alice, sig'.bob)
  BY <1>1
<1>8. Single(alice', bob')
  BY <1>1
<1> QED BY <1>2, <1>3, <1>4, <1>6, <1>7, <1>8 DEF IInv

(* The lengths of the places an answer may be in.                          *)
LEMMA Places ==
  ASSUME IInv
  PROVE  \E x, y, z \in Nat :
           /\ x = Len(sig.alice) /\ y = Len(bob.asked) /\ z = Len(sig.bob)
           /\ Len(alice.proposed) = x + y + z
           /\ \A i \in 1 .. x : sig.alice[i] = "Ok" =>
                \A k \in alice.proposed[i] : bob.store[k] = Life
           /\ \A i \in 1 .. y : alice.proposed[x + i] = bob.asked[i]
           /\ \A i \in 1 .. z : alice.proposed[x + y + i] = sig.bob[i]
<1>1. /\ sig.alice \in Seq(Status) /\ bob.asked \in Seq(SUBSET KeyIds)
      /\ sig.bob \in Seq(SUBSET KeyIds)
  BY DEF IInv, Types, Replica
<1>2. PICK x, y, z \in Nat : x = Len(sig.alice) /\ y = Len(bob.asked) /\ z = Len(sig.bob)
  BY <1>1
<1>3. Answering(alice, bob, sig.alice, sig.bob)
  BY DEF IInv
<1> QED BY <1>2, <1>3 DEF Answering

LEMMA ProposalArrivesStep ==
  ASSUME IInv, ProposalArrives
  PROVE  IInv'
<1>1. /\ bob \in Replica /\ sig \in [alice : Seq(Status), bob : Seq(SUBSET KeyIds)]
      /\ bob.asked \in Seq(SUBSET KeyIds) /\ sig.bob \in Seq(SUBSET KeyIds)
      /\ kms \in [made : [KeyIds -> Kinds \cup {"none"}], kept : SUBSET KeyIds]
  BY DEF IInv, Types, Replica
<1>2. /\ sig.bob # <<>> /\ UNCHANGED <<set, alice, data, kms, faults, failed>>
      /\ bob' = [bob EXCEPT !.asked = Append(@, Head(sig.bob)), !.watch = TRUE]
      /\ sig' = [sig EXCEPT !.bob = Tail(@)]
  BY DEF ProposalArrives
<1>3. PICK x, y, z \in Nat :
        /\ x = Len(sig.alice) /\ y = Len(bob.asked) /\ z = Len(sig.bob)
        /\ Len(alice.proposed) = x + y + z
        /\ \A i \in 1 .. x : sig.alice[i] = "Ok" =>
             \A k \in alice.proposed[i] : bob.store[k] = Life
        /\ \A i \in 1 .. y : alice.proposed[x + i] = bob.asked[i]
        /\ \A i \in 1 .. z : alice.proposed[x + y + i] = sig.bob[i]
  BY Places
<1>4. PICK t \in Seq(SUBSET KeyIds) :
        t = Tail(sig.bob) /\ Len(t) = z - 1 /\ \A i \in 1 .. z - 1 : t[i] = sig.bob[i + 1]
  <2>1. /\ Tail(sig.bob) \in Seq(SUBSET KeyIds) /\ Len(Tail(sig.bob)) = z - 1
        /\ \A i \in 1 .. z - 1 : Tail(sig.bob)[i] = sig.bob[i + 1]
    BY <1>1, <1>2, <1>3, TailOf
  <2> QED BY <2>1
<1>5. z \in Nat \ {0} /\ Head(sig.bob) = sig.bob[1] /\ Head(sig.bob) \in SUBSET KeyIds
  BY <1>1, <1>2, <1>3, EmptySeq
<1>6. PICK s \in Seq(SUBSET KeyIds) :
        /\ s = Append(bob.asked, Head(sig.bob)) /\ Len(s) = y + 1
        /\ s[y + 1] = sig.bob[1] /\ \A i \in 1 .. y : s[i] = bob.asked[i]
  <2>1. PICK h \in SUBSET KeyIds : h = Head(sig.bob) /\ h = sig.bob[1]
    BY <1>5
  <2>2. /\ Append(bob.asked, h) \in Seq(SUBSET KeyIds) /\ Len(Append(bob.asked, h)) = y + 1
        /\ Append(bob.asked, h)[y + 1] = h
        /\ \A i \in 1 .. y : Append(bob.asked, h)[i] = bob.asked[i]
    BY <1>1, <1>3, AppendOf
  <2> QED BY <2>1, <2>2
<1>7. bob' = [bob EXCEPT !.asked = s, !.watch = TRUE] /\ sig' = [sig EXCEPT !.bob = t]
  BY <1>2, <1>4, <1>6
<1>8. /\ bob' \in Replica /\ bob'.store = bob.store /\ bob'.asked = s /\ bob'.up = bob.up
      /\ bob'.watch = TRUE
  BY <1>1, <1>7 DEF Replica
<1>9. /\ sig' \in [alice : Seq(Status), bob : Seq(SUBSET KeyIds)]
      /\ sig'.alice = sig.alice /\ sig'.bob = t
  BY <1>1, <1>7
<1>10. Answering(alice, bob', sig'.alice, sig'.bob)
  <2>1. Len(alice.proposed) = x + (y + 1) + (z - 1)
    <3>1. x + y + z = x + (y + 1) + (z - 1)
      OBVIOUS
    <3> QED BY <1>3, <3>1
  <2>2. \A i \in 1 .. y + 1 : alice.proposed[x + i] = s[i]
    <3> SUFFICES ASSUME NEW i \in 1 .. y + 1 PROVE alice.proposed[x + i] = s[i]
      OBVIOUS
    <3>1. CASE i = y + 1
      <4>1. 1 \in 1 .. z /\ x + i = x + y + 1
        BY <1>5, <3>1
      <4>2. alice.proposed[x + y + 1] = sig.bob[1]
        BY <1>3, <4>1
      <4> QED BY <1>6, <3>1, <4>1, <4>2
    <3>2. CASE i # y + 1
      <4>1. i \in 1 .. y
        BY <3>2
      <4> QED BY <1>3, <1>6, <4>1
    <3> QED BY <3>1, <3>2
  <2>3. \A i \in 1 .. z - 1 : alice.proposed[x + (y + 1) + i] = t[i]
    <3> SUFFICES ASSUME NEW i \in 1 .. z - 1 PROVE alice.proposed[x + (y + 1) + i] = t[i]
      OBVIOUS
    <3>1. i + 1 \in 1 .. z /\ x + (y + 1) + i = x + y + (i + 1)
      OBVIOUS
    <3>2. alice.proposed[x + y + (i + 1)] = sig.bob[i + 1]
      BY <1>3, <3>1
    <3> QED BY <1>4, <3>1, <3>2
  <2>4. Len(sig'.alice) = x /\ Len(bob'.asked) = y + 1 /\ Len(sig'.bob) = z - 1
    BY <1>3, <1>4, <1>6, <1>8, <1>9
  <2>5. \A i \in 1 .. x : sig'.alice[i] = "Ok" =>
          \A k \in alice.proposed[i] : bob'.store[k] = Life
    BY <1>3, <1>8, <1>9
  <2> QED BY <1>8, <1>9, <2>1, <2>2, <2>3, <2>4, <2>5 DEF Answering
<1>11. Single(alice, bob')
  <2>1. Single(alice, bob) /\ s # <<>>
    BY <1>1, <1>6, AppendProperties DEF IInv
  <2> QED BY <1>8, <2>1 DEF Single
<1> QED BY <1>1, <1>2, <1>8, <1>9, <1>10, <1>11, ReplicaStep

LEMMA ConnectionSilentBobStep ==
  ASSUME IInv, ConnectionSilentBob, Overlap = FALSE
  PROVE  IInv'
<1>1. /\ bob \in Replica /\ sig \in [alice : Seq(Status), bob : Seq(SUBSET KeyIds)]
      /\ kms \in [made : [KeyIds -> Kinds \cup {"none"}], kept : SUBSET KeyIds]
      /\ Answering(alice, bob, sig.alice, sig.bob) /\ Single(alice, bob)
  BY DEF IInv, Types
<1>2. /\ UNCHANGED <<set, alice, sig, data, kms, failed>>
      /\ bob' = [bob EXCEPT !.up = FALSE]
      /\ Len(alice.proposed) <= 1 /\ (bob.watch \/ bob.asked = <<>>)
  BY DEF ConnectionSilentBob
<1>3. /\ bob' \in Replica /\ bob'.store = bob.store /\ bob'.asked = bob.asked
      /\ bob'.watch = bob.watch
  BY <1>1, <1>2 DEF Replica
<1>4. Answering(alice, bob', sig'.alice, sig'.bob)
  BY <1>1, <1>2, <1>3 DEF Answering
<1>5. Single(alice, bob')
  BY <1>1, <1>2, <1>3 DEF Single
<1> QED BY <1>1, <1>2, <1>3, <1>4, <1>5, ReplicaStep

(* The connection that is silent has one proposal to answer for, and the   *)
(* watchdog tells of one error.                                            *)
LEMMA KmsRequestTimeoutBobStep ==
  ASSUME IInv, KmsRequestTimeoutBob
  PROVE  IInv'
<1>1. /\ bob \in Replica /\ sig \in [alice : Seq(Status), bob : Seq(SUBSET KeyIds)]
      /\ bob.asked \in Seq(SUBSET KeyIds) /\ sig.alice \in Seq(Status)
      /\ kms \in [made : [KeyIds -> Kinds \cup {"none"}], kept : SUBSET KeyIds]
      /\ Single(alice, bob)
  BY DEF IInv, Types, Replica
<1>2. /\ bob.watch /\ ~bob.up /\ UNCHANGED <<set, alice, data, kms, faults, failed>>
      /\ bob' = [bob EXCEPT !.asked = <<>>, !.up = TRUE, !.watch = FALSE]
      /\ sig' = [sig EXCEPT !.alice = Append(@, "BadRequest")]
  BY DEF KmsRequestTimeoutBob, Silent, Reconnected
<1>3. PICK x, y, z \in Nat :
        /\ x = Len(sig.alice) /\ y = Len(bob.asked) /\ z = Len(sig.bob)
        /\ Len(alice.proposed) = x + y + z
  BY Places
<1>4. Len(alice.proposed) <= 1 /\ bob.asked # <<>>
  BY <1>1, <1>2 DEF Single
<1>5. x = 0 /\ y = 1 /\ z = 0
  <2>1. y # 0
    BY <1>1, <1>3, <1>4, EmptySeq
  <2>2. x + y + z <= 1
    BY <1>3, <1>4
  <2> QED BY <2>1, <2>2
<1>6. PICK s \in Seq(SUBSET KeyIds) : s = <<>> /\ Len(s) = 0
  BY EmptySeq
<1>7. PICK t \in Seq(Status) :
        t = Append(sig.alice, "BadRequest") /\ Len(t) = 1 /\ t[1] = "BadRequest"
  <2>1. "BadRequest" \in Status
    BY DEF Status
  <2>2. PICK w \in Status : w = "BadRequest"
    BY <2>1
  <2>3. /\ Append(sig.alice, w) \in Seq(Status) /\ Len(Append(sig.alice, w)) = x + 1
        /\ Append(sig.alice, w)[x + 1] = w
    BY <1>1, <1>3, AppendOf
  <2>4. x + 1 = 1
    BY <1>5
  <2> QED BY <2>2, <2>3, <2>4
<1>8. bob' = [bob EXCEPT !.asked = s, !.up = TRUE, !.watch = FALSE]
      /\ sig' = [sig EXCEPT !.alice = t]
  BY <1>2, <1>6, <1>7
<1>9. /\ bob' \in Replica /\ bob'.store = bob.store /\ bob'.asked = s
      /\ bob'.up = TRUE /\ bob'.watch = FALSE
  BY <1>1, <1>8 DEF Replica
<1>10. /\ sig' \in [alice : Seq(Status), bob : Seq(SUBSET KeyIds)]
       /\ sig'.alice = t /\ sig'.bob = sig.bob
  BY <1>1, <1>8
<1>11. Answering(alice, bob', sig'.alice, sig'.bob)
  <2>1. Len(sig'.alice) = 1 /\ Len(bob'.asked) = 0 /\ Len(sig'.bob) = 0
    BY <1>3, <1>5, <1>6, <1>7, <1>9, <1>10
  <2>2. Len(alice.proposed) = 1 + 0 + 0
    BY <1>3, <1>5
  <2>3. \A i \in 1 .. 1 : sig'.alice[i] # "Ok"
    BY <1>7, <1>10
  <2>4. 1 .. 0 = {}
    OBVIOUS
  <2> QED BY <2>1, <2>2, <2>3, <2>4 DEF Answering
<1>12. Single(alice, bob')
  BY <1>9 DEF Single
<1> QED BY <1>1, <1>2, <1>9, <1>10, <1>11, <1>12, ReplicaStep

LEMMA DecKeysAnsweredStep ==
  ASSUME IInv, DecKeysAnswered
  PROVE  IInv'
<1>1. /\ bob \in Replica /\ sig \in [alice : Seq(Status), bob : Seq(SUBSET KeyIds)]
      /\ bob.asked \in Seq(SUBSET KeyIds) /\ sig.alice \in Seq(Status)
      /\ kms \in [made : [KeyIds -> Kinds \cup {"none"}], kept : SUBSET KeyIds]
      /\ Waiting(alice, data, kms.made) /\ alice.proposed \in Seq(SUBSET KeyIds)
  BY DEF IInv, Types, Replica, Primary
<1>a. PICK ids : ids = Head(bob.asked)
  OBVIOUS
<1>b. PICK ok \in BOOLEAN : ok <=> ids \subseteq kms.kept
  OBVIOUS
<1>2. /\ ids = Head(bob.asked)
      /\ bob' = [bob EXCEPT !.asked = Tail(@), !.watch = FALSE,
                   !.store = [k \in KeyIds |-> IF ok /\ k \in ids THEN Life ELSE @[k]]]
      /\ sig' = [sig EXCEPT !.alice = Append(@, IF ok THEN "Ok" ELSE "BadRequest")]
      /\ kms' = [kms EXCEPT !.kept = @ \ ids]
  BY <1>a, <1>b DEF DecKeysAnswered, DecKeys
<1>3. bob.up /\ bob.asked # <<>> /\ UNCHANGED <<set, alice, data, faults, failed>>
  BY DEF DecKeysAnswered
<1>4. PICK x, y, z \in Nat :
        /\ x = Len(sig.alice) /\ y = Len(bob.asked) /\ z = Len(sig.bob)
        /\ Len(alice.proposed) = x + y + z
        /\ \A i \in 1 .. x : sig.alice[i] = "Ok" =>
             \A k \in alice.proposed[i] : bob.store[k] = Life
        /\ \A i \in 1 .. y : alice.proposed[x + i] = bob.asked[i]
        /\ \A i \in 1 .. z : alice.proposed[x + y + i] = sig.bob[i]
  BY Places
<1>5. /\ y \in Nat \ {0} /\ ids = bob.asked[1] /\ ids \in SUBSET KeyIds
      /\ 1 \in 1 .. y /\ x + 1 \in DOMAIN alice.proposed
  <2>1. y \in Nat \ {0} /\ Head(bob.asked) = bob.asked[1] /\ Head(bob.asked) \in SUBSET KeyIds
    BY <1>1, <1>3, <1>4, EmptySeq
  <2>2. 1 \in 1 .. y /\ x + 1 \in 1 .. x + y + z
    BY <2>1
  <2> QED BY <1>1, <1>2, <1>4, <2>1, <2>2
<1>6. alice.proposed[x + 1] = ids
  BY <1>4, <1>5
<1>7. \A k \in ids : Uses(alice, data, k) = 0
  BY <1>1, <1>5, <1>6 DEF Waiting
<1>8. PICK t \in Seq(SUBSET KeyIds) :
        t = Tail(bob.asked) /\ Len(t) = y - 1 /\ \A i \in 1 .. y - 1 : t[i] = bob.asked[i + 1]
  <2>1. /\ Tail(bob.asked) \in Seq(SUBSET KeyIds) /\ Len(Tail(bob.asked)) = y - 1
        /\ \A i \in 1 .. y - 1 : Tail(bob.asked)[i] = bob.asked[i + 1]
    BY <1>1, <1>3, <1>4, TailOf
  <2> QED BY <2>1
<1>9. PICK w \in Status : w = IF ok THEN "Ok" ELSE "BadRequest"
  BY DEF Status
<1>10. PICK s \in Seq(Status) :
         /\ s = Append(sig.alice, w) /\ Len(s) = x + 1 /\ s[x + 1] = w
         /\ \A i \in 1 .. x : s[i] = sig.alice[i]
  <2>1. /\ Append(sig.alice, w) \in Seq(Status) /\ Len(Append(sig.alice, w)) = x + 1
        /\ Append(sig.alice, w)[x + 1] = w
        /\ \A i \in 1 .. x : Append(sig.alice, w)[i] = sig.alice[i]
    BY <1>1, <1>4, AppendOf
  <2> QED BY <2>1
<1>11. PICK st \in [KeyIds -> 0 .. Life] :
         st = [k \in KeyIds |-> IF ok /\ k \in ids THEN Life ELSE bob.store[k]]
  <2>1. bob.store \in [KeyIds -> 0 .. Life] /\ Life \in 0 .. Life
    BY <1>1, App014Assumption DEF Replica
  <2> QED BY <2>1
<1>12. /\ bob' = [bob EXCEPT !.asked = t, !.watch = FALSE, !.store = st]
       /\ sig' = [sig EXCEPT !.alice = s]
  BY <1>2, <1>8, <1>9, <1>10, <1>11
<1>13. /\ bob' \in Replica /\ bob'.store = st /\ bob'.asked = t
       /\ bob'.up = bob.up /\ bob'.watch = FALSE
  BY <1>1, <1>12 DEF Replica
<1>14. /\ sig' \in [alice : Seq(Status), bob : Seq(SUBSET KeyIds)]
       /\ sig'.alice = s /\ sig'.bob = sig.bob
  BY <1>1, <1>12
<1>15. /\ kms' \in [made : [KeyIds -> Kinds \cup {"none"}], kept : SUBSET KeyIds]
       /\ kms'.made = kms.made /\ kms'.kept \subseteq kms.kept
  BY <1>1, <1>2
<1>16. \A k \in KeyIds : \/ st[k] = bob.store[k]
                         \/ st[k] = Life /\ Uses(alice, data, k) = 0
  BY <1>7, <1>11
<1>17. Answering(alice, bob', sig'.alice, sig'.bob)
  <2>1. Len(alice.proposed) = (x + 1) + (y - 1) + z
    <3>1. x + y + z = (x + 1) + (y - 1) + z
      OBVIOUS
    <3> QED BY <1>4, <3>1
  <2>2. ASSUME NEW i \in 1 .. x + 1, s[i] = "Ok", NEW k \in alice.proposed[i]
        PROVE  st[k] = Life
    <3>1. i \in DOMAIN alice.proposed
      <4>1. i \in 1 .. x + y + z
        BY <1>5
      <4> QED BY <1>1, <1>4, <4>1
    <3>2. k \in KeyIds
      BY <1>1, <3>1
    <3>3. CASE i = x + 1
      <4>1. ok
        BY <1>9, <1>10, <2>2, <3>3
      <4> QED BY <1>6, <1>11, <3>2, <3>3, <4>1
    <3>4. CASE i # x + 1
      <4>1. i \in 1 .. x
        BY <3>4
      <4>2. bob.store[k] = Life
        BY <1>4, <1>10, <2>2, <4>1
      <4> QED BY <1>11, <3>2, <4>2
    <3> QED BY <3>3, <3>4
  <2>3. \A i \in 1 .. y - 1 : alice.proposed[(x + 1) + i] = t[i]
    <3> SUFFICES ASSUME NEW i \in 1 .. y - 1 PROVE alice.proposed[(x + 1) + i] = t[i]
      OBVIOUS
    <3>1. i + 1 \in 1 .. y /\ (x + 1) + i = x + (i + 1)
      OBVIOUS
    <3>2. alice.proposed[x + (i + 1)] = bob.asked[i + 1]
      BY <1>4, <3>1
    <3> QED BY <1>8, <3>1, <3>2
  <2>4. \A i \in 1 .. z : alice.proposed[(x + 1) + (y - 1) + i] = sig.bob[i]
    <3> SUFFICES ASSUME NEW i \in 1 .. z
                 PROVE  alice.proposed[(x + 1) + (y - 1) + i] = sig.bob[i]
      OBVIOUS
    <3>1. (x + 1) + (y - 1) + i = x + y + i
      OBVIOUS
    <3> QED BY <1>4, <3>1
  <2>5. \A i \in 1 .. x + 1 : s[i] = "Ok" => \A k \in alice.proposed[i] : st[k] = Life
    BY <2>2
  <2>6. Len(sig'.alice) = x + 1 /\ Len(bob'.asked) = y - 1 /\ Len(sig'.bob) = z
    BY <1>4, <1>8, <1>10, <1>13, <1>14
  <2> QED BY <1>13, <1>14, <2>1, <2>3, <2>4, <2>5, <2>6 DEF Answering
<1>18. Single(alice, bob')
  BY <1>3, <1>13 DEF Single
<1>19. \A k \in KeyIds : \/ bob'.store[k] = bob.store[k]
                         \/ bob'.store[k] = Life /\ Uses(alice, data, k) = 0
  BY <1>13, <1>16
<1> QED BY <1>3, <1>13, <1>14, <1>15, <1>17, <1>18, <1>19, ReplicaStep

-----------------------------------------------------------------------------
(* The answer to a proposal.                                               *)

(* What Alice does with the keys of the proposal that is answered is right *)
(* when Bob has at least the uses she gives them.                          *)
LEMMA ProposalGone ==
  ASSUME IInv, sig.alice # <<>>, sig' = [sig EXCEPT !.alice = Tail(@)],
         UNCHANGED <<set, bob, data, kms, failed>>,
         alice' \in Primary, Asking(alice'), Settled(set.auth, alice'),
         alice'.proposed = Tail(alice.proposed),
         \A k \in KeyIds \ alice.proposed[1] :
           /\ alice'.common[k] = alice.common[k] /\ alice'.enc[k] = alice.enc[k]
           /\ k \in alice'.auth <=> k \in alice.auth,
         \A k \in KeyIds \cap alice.proposed[1] :
           /\ alice'.common[k] = "none" /\ (alice'.enc[k] > 0 => k \notin alice'.auth)
           /\ Enough(set.cipher, bob.store[k], Uses(alice', data, k))
  PROVE  IInv'
<1>1. /\ set' = set /\ bob' = bob /\ data' = data /\ kms' = kms /\ failed' = failed
  OBVIOUS
<1>2. /\ sig \in [alice : Seq(Status), bob : Seq(SUBSET KeyIds)] /\ sig.alice \in Seq(Status)
      /\ bob \in Replica /\ bob.asked \in Seq(SUBSET KeyIds) /\ sig.bob \in Seq(SUBSET KeyIds)
      /\ alice.proposed \in Seq(SUBSET KeyIds) /\ Apart(alice) /\ Single(alice, bob)
      /\ Waiting(alice, data, kms.made)
      /\ Holding(set.cipher, alice, bob.store, data, kms.made)
  BY DEF IInv, Types, Primary, Replica
<1>3. PICK x, y, z \in Nat :
        /\ x = Len(sig.alice) /\ y = Len(bob.asked) /\ z = Len(sig.bob)
        /\ Len(alice.proposed) = x + y + z
        /\ \A i \in 1 .. x : sig.alice[i] = "Ok" =>
             \A k \in alice.proposed[i] : bob.store[k] = Life
        /\ \A i \in 1 .. y : alice.proposed[x + i] = bob.asked[i]
        /\ \A i \in 1 .. z : alice.proposed[x + y + i] = sig.bob[i]
  BY Places
<1>4. PICK n \in Nat : n = x + y + z
  OBVIOUS
<1>5. x \in Nat \ {0} /\ n \in Nat \ {0} /\ alice.proposed # <<>>
  <2>1. x # 0
    BY <1>2, <1>3, EmptySeq
  <2>2. n # 0
    BY <1>4, <2>1
  <2> QED BY <1>3, <1>4, <2>1, <2>2, EmptySeq
<1>6. PICK t \in Seq(Status) :
        t = Tail(sig.alice) /\ Len(t) = x - 1 /\ \A i \in 1 .. x - 1 : t[i] = sig.alice[i + 1]
  <2>1. /\ Tail(sig.alice) \in Seq(Status) /\ Len(Tail(sig.alice)) = x - 1
        /\ \A i \in 1 .. x - 1 : Tail(sig.alice)[i] = sig.alice[i + 1]
    BY <1>2, <1>3, TailOf
  <2> QED BY <2>1
<1>7. PICK pr \in Seq(SUBSET KeyIds) :
        /\ pr = alice'.proposed /\ Len(pr) = n - 1
        /\ \A i \in 1 .. n - 1 : pr[i] = alice.proposed[i + 1]
  <2>1. n = Len(alice.proposed)
    BY <1>3, <1>4
  <2>2. /\ Tail(alice.proposed) \in Seq(SUBSET KeyIds) /\ Len(Tail(alice.proposed)) = n - 1
        /\ \A i \in 1 .. n - 1 : Tail(alice.proposed)[i] = alice.proposed[i + 1]
    BY <1>2, <1>5, <2>1, TailOf
  <2> QED BY <2>2
<1>8. DOMAIN alice.proposed = 1 .. n /\ DOMAIN pr = 1 .. n - 1
  <2>1. n - 1 \in Nat
    BY <1>5
  <2> QED BY <1>2, <1>3, <1>4, <1>7, <2>1
<1>9. sig' = [sig EXCEPT !.alice = t]
  BY <1>6
<1>10. /\ sig' \in [alice : Seq(Status), bob : Seq(SUBSET KeyIds)]
       /\ sig'.alice = t /\ sig'.bob = sig.bob
  BY <1>2, <1>9
<1>11. Types'
  BY <1>1, <1>10 DEF IInv, Types
<1>12. Answering(alice', bob', sig'.alice, sig'.bob)
  <2>0. PICK w \in Nat : w = x - 1
    BY <1>5
  <2>1. Len(pr) = w + y + z
    <3>1. (x + y + z) - 1 = w + y + z
      BY <2>0
    <3> QED BY <1>4, <1>7, <3>1
  <2>2. \A i \in 1 .. w : t[i] = "Ok" => \A k \in pr[i] : bob.store[k] = Life
    <3> SUFFICES ASSUME NEW i \in 1 .. w, t[i] = "Ok"
                 PROVE  \A k \in pr[i] : bob.store[k] = Life
      OBVIOUS
    <3>1. i + 1 \in 1 .. x /\ i \in 1 .. n - 1 /\ i \in 1 .. x - 1
      BY <1>4, <2>0
    <3>2. pr[i] = alice.proposed[i + 1] /\ sig.alice[i + 1] = "Ok"
      BY <1>6, <1>7, <3>1
    <3> QED BY <1>3, <3>1, <3>2
  <2>3. \A i \in 1 .. y : pr[w + i] = bob.asked[i]
    <3> SUFFICES ASSUME NEW i \in 1 .. y PROVE pr[w + i] = bob.asked[i]
      OBVIOUS
    <3>1. w + i \in 1 .. n - 1 /\ (w + i) + 1 = x + i
      BY <1>4, <1>5, <2>0
    <3>2. pr[w + i] = alice.proposed[x + i]
      BY <1>7, <3>1
    <3> QED BY <1>3, <3>2
  <2>4. \A i \in 1 .. z : pr[w + y + i] = sig.bob[i]
    <3> SUFFICES ASSUME NEW i \in 1 .. z PROVE pr[w + y + i] = sig.bob[i]
      OBVIOUS
    <3>1. w + y + i \in 1 .. n - 1 /\ (w + y + i) + 1 = x + y + i
      BY <1>4, <1>5, <2>0, SMTT(30)
    <3>2. pr[w + y + i] = alice.proposed[x + y + i]
      BY <1>7, <3>1
    <3> QED BY <1>3, <3>2
  <2>5. Len(sig'.alice) = w /\ Len(bob'.asked) = y /\ Len(sig'.bob) = z
    BY <1>1, <1>3, <1>6, <1>10, <2>0
  <2>6. Len(alice'.proposed) = Len(sig'.alice) + Len(bob'.asked) + Len(sig'.bob)
    BY <1>7, <2>1, <2>5
  <2>7. \A i \in 1 .. Len(sig'.alice) : sig'.alice[i] = "Ok" =>
          \A k \in alice'.proposed[i] : bob'.store[k] = Life
    <3>1. sig'.alice = t /\ alice'.proposed = pr /\ bob'.store = bob.store
      BY <1>1, <1>7, <1>10
    <3>2. Len(sig'.alice) = w
      BY <2>5
    <3> QED BY <2>2, <3>1, <3>2
  <2>8. \A i \in 1 .. Len(bob'.asked) : alice'.proposed[Len(sig'.alice) + i] = bob'.asked[i]
    BY <1>1, <1>7, <2>3, <2>5
  <2>9. \A i \in 1 .. Len(sig'.bob) :
          alice'.proposed[Len(sig'.alice) + Len(bob'.asked) + i] = sig'.bob[i]
    BY <1>7, <1>10, <2>4, <2>5
  <2> QED BY <2>6, <2>7, <2>8, <2>9 DEF Answering
<1>13. Single(alice', bob')
  <2>1. ~bob.up => n <= 1
    BY <1>2, <1>3, <1>4 DEF Single
  <2>2. ~bob.up => Len(alice'.proposed) <= 1
    BY <1>7, <2>1
  <2> QED BY <1>1, <1>2, <2>2 DEF Single
<1>14. \A i \in 1 .. n - 1 : i + 1 \in 1 .. n /\ pr[i] = alice.proposed[i + 1]
  BY <1>7
<1>15. Apart(alice')
  <2>1. \A i, j \in 1 .. n - 1 : i # j => pr[i] \cap pr[j] = {}
    <3> SUFFICES ASSUME NEW i \in 1 .. n - 1, NEW j \in 1 .. n - 1, i # j
                 PROVE  pr[i] \cap pr[j] = {}
      OBVIOUS
    <3>1. PICK u \in 1 .. n, v \in 1 .. n : u = i + 1 /\ v = j + 1 /\ u # v
      OBVIOUS
    <3>2. alice.proposed[u] \cap alice.proposed[v] = {}
      BY <1>2, <1>8, <3>1 DEF Apart
    <3> QED BY <1>14, <3>1, <3>2
  <2> QED BY <1>7, <1>8, <2>1 DEF Apart
<1>16. \A k \in KeyIds \ alice.proposed[1] : Uses(alice', data, k) = Uses(alice, data, k)
  BY DEF Uses
<1>17. Waiting(alice', data', kms'.made)
  <2>1. ASSUME NEW i \in 1 .. n - 1, NEW k \in pr[i]
        PROVE  Uses(alice', data, k) = 0 /\ kms.made[k] # "none"
    <3>1. PICK u \in 1 .. n : u = i + 1 /\ u # 1
      OBVIOUS
    <3>2. 1 \in 1 .. n
      BY <1>5
    <3>3. k \in alice.proposed[u] /\ k \in KeyIds
      <4>1. alice.proposed[u] \in SUBSET KeyIds
        BY <1>2, <1>8
      <4> QED BY <1>14, <2>1, <3>1, <4>1
    <3>4. alice.proposed[u] \cap alice.proposed[1] = {}
      BY <1>2, <1>8, <3>1, <3>2 DEF Apart
    <3>5. Uses(alice, data, k) = 0 /\ kms.made[k] # "none"
      BY <1>2, <1>8, <3>3 DEF Waiting
    <3> QED BY <1>16, <3>3, <3>4, <3>5
  <2> QED BY <1>1, <1>7, <1>8, <2>1 DEF Waiting
<1>18. Holding(set.cipher, alice', bob.store, data, kms.made)
  <2> SUFFICES ASSUME NEW k \in KeyIds
               PROVE  /\ kms.made[k] = "none" => Uses(alice', data, k) = 0
                      /\ Uses(alice', data, k) > 0 => alice'.common[k] = "none"
                      /\ alice'.enc[k] > 0 => k \notin alice'.auth
                      /\ Enough(set.cipher, bob.store[k], Uses(alice', data, k))
    BY DEF Holding
  <2>1. CASE k \in alice.proposed[1]
    <3>1. kms.made[k] # "none"
      <4>1. 1 \in 1 .. n
        BY <1>5
      <4> QED BY <1>2, <1>8, <2>1, <4>1 DEF Waiting
    <3> QED BY <2>1, <3>1
  <2>2. CASE k \notin alice.proposed[1]
    <3>1. Uses(alice', data, k) = Uses(alice, data, k)
      BY <1>16, <2>2
    <3>2. /\ kms.made[k] = "none" => Uses(alice, data, k) = 0
          /\ Uses(alice, data, k) > 0 => alice.common[k] = "none"
          /\ alice.enc[k] > 0 => k \notin alice.auth
          /\ Enough(set.cipher, bob.store[k], Uses(alice, data, k))
      BY <1>2 DEF Holding
    <3>3. /\ alice'.common[k] = alice.common[k] /\ alice'.enc[k] = alice.enc[k]
          /\ k \in alice'.auth <=> k \in alice.auth
      BY <2>2
    <3>4. kms.made[k] = "none" => Uses(alice', data, k) = 0
      BY <3>1, <3>2
    <3>5. Uses(alice', data, k) > 0 => alice'.common[k] = "none"
      BY <3>1, <3>2, <3>3
    <3>6. alice'.enc[k] > 0 => k \notin alice'.auth
      BY <3>2, <3>3
    <3>7. Enough(set.cipher, bob.store[k], Uses(alice', data, k))
      BY <3>1, <3>2
    <3> QED BY <3>4, <3>5, <3>6, <3>7
  <2> QED BY <2>1, <2>2
<1>19. Holding(set'.cipher, alice', bob'.store, data', kms'.made) /\ ~failed' /\ Settled(set'.auth, alice')
  BY <1>1, <1>18 DEF IInv
<1> QED BY <1>11, <1>12, <1>13, <1>15, <1>17, <1>19 DEF IInv

(* The keys of the proposal, each in the store of the kind it was mapped to*)
LEMMA KeysMoved ==
  ASSUME NEW a \in Primary, NEW ids \in SUBSET KeyIds, NEW c, c = Moved(a, ids), set \in Settings
  PROVE  /\ c \in Primary /\ c.proposed = a.proposed /\ c.asked = a.asked /\ c.queue = a.queue
         /\ \A k \in KeyIds : c.enc[k] = IF k \in ids /\ a.common[k] = "encryption"
                                           THEN LifeOf("encryption") ELSE a.enc[k]
         /\ \A k \in KeyIds : k \in c.auth <=>
                                k \in a.auth \/ (k \in ids /\ a.common[k] = "authentication")
         /\ \A k \in KeyIds : c.common[k] = IF k \in ids THEN "none" ELSE a.common[k]
<1>1. LifeOf("encryption") \in 0 .. Life
  BY App014Assumption DEF LifeOf
<1>2. PICK en \in [KeyIds -> 0 .. Life] :
        en = [k \in KeyIds |-> IF k \in {j \in ids : a.common[j] = "encryption"}
                                 THEN LifeOf("encryption") ELSE a.enc[k]]
  BY <1>1 DEF Primary
<1>3. PICK au \in SUBSET KeyIds :
        au = a.auth \cup {j \in ids : a.common[j] = "authentication"}
  BY DEF Primary
<1>4. PICK cm \in [KeyIds -> Kinds \cup {"none"}] :
        cm = [k \in KeyIds |-> IF k \in ids THEN "none" ELSE a.common[k]]
  BY DEF Primary
<1>5. c = [a EXCEPT !.enc = en, !.auth = au, !.common = cm]
  BY <1>2, <1>3, <1>4 DEF Moved
<1>6. /\ c \in Primary /\ c.proposed = a.proposed /\ c.asked = a.asked /\ c.queue = a.queue
      /\ c.enc = en /\ c.auth = au /\ c.common = cm
  BY <1>5 DEF Primary
<1>7. \A k \in KeyIds : en[k] = IF k \in ids /\ a.common[k] = "encryption"
                                  THEN LifeOf("encryption") ELSE a.enc[k]
  BY <1>2
<1>8. \A k \in KeyIds : k \in au <=> k \in a.auth \/ (k \in ids /\ a.common[k] = "authentication")
  BY <1>3
<1>9. \A k \in KeyIds : cm[k] = IF k \in ids THEN "none" ELSE a.common[k]
  BY <1>4
<1> QED BY <1>6, <1>7, <1>8, <1>9

LEMMA ProposalAnsweredStep ==
  ASSUME IInv, ProposalAnswered
  PROVE  IInv'
<1>1. /\ alice \in Primary /\ alice.proposed \in Seq(SUBSET KeyIds) /\ Asking(alice)
      /\ Settled(set.auth, alice) /\ sig.alice \in Seq(Status) /\ bob \in Replica
      /\ data \in Seq(Packet) /\ set \in Settings /\ Waiting(alice, data, kms.made)
  BY DEF IInv, Types, Primary
<1>2. sig.alice # <<>> /\ sig' = [sig EXCEPT !.alice = Tail(@)]
      /\ UNCHANGED <<set, bob, data, kms>>
  BY DEF ProposalAnswered
<1>3. alice.proposed # <<>>
  <2>1. PICK x, y, z \in Nat : x = Len(sig.alice) /\ Len(alice.proposed) = x + y + z
    BY Places
  <2>2. x # 0
    BY <1>1, <1>2, <2>1, EmptySeq
  <2>3. x + y + z # 0
    BY <2>2
  <2> QED BY <2>1, <2>3, EmptySeq
<1>4. PICK n \in Nat \ {0} : n = Len(alice.proposed)
  BY <1>1, <1>3, EmptySeq
<1>5. /\ Tail(alice.proposed) \in Seq(SUBSET KeyIds) /\ Head(alice.proposed) \in SUBSET KeyIds
      /\ Head(alice.proposed) = alice.proposed[1]
  BY <1>1, <1>3, <1>4, TailOf
<1>6. PICK ids \in SUBSET KeyIds : ids = Head(alice.proposed) /\ ids = alice.proposed[1]
  BY <1>5
<1>7. PICK pr \in Seq(SUBSET KeyIds) : pr = Tail(alice.proposed)
  BY <1>5
<1>8. PICK a : a = [alice EXCEPT !.proposed = pr]
  OBVIOUS
<1>9. /\ a \in Primary /\ a.proposed = pr /\ a.enc = alice.enc /\ a.auth = alice.auth
      /\ a.common = alice.common /\ a.asked = alice.asked /\ a.queue = alice.queue
      /\ a.state = alice.state
  BY <1>1, <1>8 DEF Primary
<1>10. /\ alice' = IF Accepted(Head(sig.alice)) THEN CheckAppState(Moved(a, ids))
                   ELSE GetKeysFromKMS(Forgotten(a, ids), KindAgain(a, ids))
       /\ failed' = failed
  BY <1>3, <1>6, <1>7, <1>8 DEF ProposalAnswered
<1>11. \A k \in ids : /\ alice.enc[k] = 0 /\ k \notin alice.auth /\ Air(data, k) = 0
                      /\ Uses(alice, data, k) = 0
  <2> SUFFICES ASSUME NEW k \in ids
               PROVE  /\ alice.enc[k] = 0 /\ k \notin alice.auth /\ Air(data, k) = 0
                      /\ Uses(alice, data, k) = 0
    OBVIOUS
  <2>1. 1 \in DOMAIN alice.proposed
    BY <1>1, <1>4
  <2>2. Uses(alice, data, k) = 0
    BY <1>1, <1>6, <2>1 DEF Waiting
  <2>a. alice.enc[k] \in Nat
    BY <1>1 DEF Primary
  <2>b. Air(data, k) \in Nat
    BY <1>1, AirCount
  <2>3. PICK e \in Nat, u \in Nat : e = alice.enc[k] /\ u = Air(data, k)
    BY <2>a, <2>b
  <2>4. e + (IF k \in alice.auth THEN 1 ELSE 0) + u = 0
    BY <2>2, <2>3 DEF Uses
  <2>5. e = 0 /\ u = 0 /\ k \notin alice.auth
    BY <2>4
  <2> QED BY <2>2, <2>3, <2>5
<1>12. CASE Accepted(Head(sig.alice))
  <2>1. PICK c : c = Moved(a, ids)
    OBVIOUS
  <2>2. c \in Primary /\ c.proposed = pr /\ c.asked = alice.asked /\ c.queue = alice.queue
    BY <1>1, <1>9, <2>1, KeysMoved
  <2>3. /\ \A k \in KeyIds : c.enc[k] = IF k \in ids /\ alice.common[k] = "encryption"
                                           THEN LifeOf("encryption") ELSE alice.enc[k]
        /\ \A k \in KeyIds : k \in c.auth <=>
             k \in alice.auth \/ (k \in ids /\ alice.common[k] = "authentication")
        /\ \A k \in KeyIds : c.common[k] = IF k \in ids THEN "none" ELSE alice.common[k]
    BY <1>1, <1>9, <2>1, KeysMoved
  <2>4. Asking(c)
    BY <1>1, <2>2 DEF Asking
  <2>5. alice' = CheckAppState(c)
    BY <1>10, <1>12, <2>1
  <2>6. alice' \in Primary /\ Alike(c, alice') /\ Settled(set.auth, alice') /\ Asking(alice')
    BY <2>2, <2>4, <2>5, StateChecked
  <2>7. /\ alice'.enc = c.enc /\ alice'.auth = c.auth /\ alice'.common = c.common
        /\ alice'.proposed = pr
    BY <2>2, <2>6 DEF Alike
  <2>8. \A k \in ids : bob.store[k] = Life
    <3>1. PICK x, y, z \in Nat :
            /\ x = Len(sig.alice)
            /\ \A i \in 1 .. x : sig.alice[i] = "Ok" =>
                 \A k \in alice.proposed[i] : bob.store[k] = Life
      BY Places
    <3>2. x \in Nat \ {0} /\ Head(sig.alice) = sig.alice[1]
      BY <1>1, <1>2, <3>1, EmptySeq
    <3>3. 1 \in 1 .. x /\ sig.alice[1] = "Ok"
      BY <1>12, <3>2 DEF Accepted
    <3> QED BY <1>6, <3>1, <3>3
  <2>9. \A k \in KeyIds \ alice.proposed[1] :
          /\ alice'.common[k] = alice.common[k] /\ alice'.enc[k] = alice.enc[k]
          /\ k \in alice'.auth <=> k \in alice.auth
    BY <1>6, <2>3, <2>7
  <2>10. ASSUME NEW k \in KeyIds \cap alice.proposed[1]
         PROVE  /\ alice'.common[k] = "none" /\ (alice'.enc[k] > 0 => k \notin alice'.auth)
                /\ Enough(set.cipher, bob.store[k], Uses(alice', data, k))
    <3>1. /\ k \in ids /\ k \in KeyIds /\ alice.enc[k] = 0 /\ k \notin alice.auth
          /\ Air(data, k) = 0 /\ bob.store[k] = Life
      BY <1>6, <1>11, <2>8
    <3>2. alice'.common[k] = "none"
      BY <2>3, <2>7, <3>1
    <3>3. CASE alice.common[k] = "encryption"
      <4>1. alice'.enc[k] = LifeOf("encryption") /\ k \notin alice'.auth
        BY <2>3, <2>7, <3>1, <3>3
      <4>2. Uses(alice', data, k) = LifeOf("encryption")
        <5>1. LifeOf("encryption") \in Nat
          BY App014Assumption DEF LifeOf
        <5> QED BY <3>1, <4>1, <5>1 DEF Uses
      <4>3. Enough(set.cipher, Life, LifeOf("encryption"))
        BY App014Assumption DEF Enough, LifeOf
      <4> QED BY <3>1, <3>2, <4>1, <4>2, <4>3
    <3>4. CASE alice.common[k] # "encryption"
      <4>1. alice'.enc[k] = 0
        BY <2>3, <2>7, <3>1, <3>4
      <4>2. Uses(alice', data, k) = IF k \in alice'.auth THEN 1 ELSE 0
        BY <3>1, <4>1 DEF Uses
      <4>3. Enough(set.cipher, Life, 1) /\ Enough(set.cipher, Life, 0)
        BY App014Assumption DEF Enough
      <4>4. Enough(set.cipher, bob.store[k], Uses(alice', data, k))
        BY <3>1, <4>2, <4>3
      <4> QED BY <3>2, <4>1, <4>4
    <3> QED BY <3>3, <3>4
  <2> QED BY <1>2, <1>7, <1>10, <2>6, <2>7, <2>9, <2>10, ProposalGone
<1>13. CASE ~Accepted(Head(sig.alice))
  <2>1. PICK cm \in [KeyIds -> Kinds \cup {"none"}] :
          cm = [k \in KeyIds |-> IF k \in ids THEN "none" ELSE alice.common[k]]
    BY <1>1 DEF Primary
  <2>2. PICK c : c = [a EXCEPT !.common = cm]
    OBVIOUS
  <2>3. c = Forgotten(a, ids)
    BY <1>9, <2>1, <2>2 DEF Forgotten
  <2>4. /\ c \in Primary /\ c.proposed = pr /\ c.enc = alice.enc /\ c.auth = alice.auth
        /\ c.common = cm /\ c.asked = alice.asked /\ c.queue = alice.queue
        /\ c.state = alice.state
    BY <1>9, <2>2 DEF Primary
  <2>5. Asking(c)
    BY <1>1, <2>4 DEF Asking
  <2>6. PICK kind \in Kinds : kind = KindAgain(a, ids)
    BY DEF KindAgain, Kinds
  <2>7. alice' = GetKeysFromKMS(c, kind)
    BY <1>10, <1>13, <2>3, <2>6
  <2>8. alice' \in Primary /\ Asking(alice') /\ Alike(c, alice') /\ alice'.state = c.state
    BY <2>4, <2>5, <2>7, KeysAsked
  <2>9. /\ alice'.enc = alice.enc /\ alice'.auth = alice.auth /\ alice'.common = cm
        /\ alice'.proposed = pr /\ alice'.state = alice.state
    BY <2>4, <2>8 DEF Alike
  <2>10. Settled(set.auth, alice')
    BY <1>1, <2>9 DEF Settled, LacksOf, EncKeys
  <2>11. \A k \in KeyIds \ alice.proposed[1] :
           /\ alice'.common[k] = alice.common[k] /\ alice'.enc[k] = alice.enc[k]
           /\ k \in alice'.auth <=> k \in alice.auth
    BY <1>6, <2>1, <2>9
  <2>12. ASSUME NEW k \in KeyIds \cap alice.proposed[1]
         PROVE  /\ alice'.common[k] = "none" /\ (alice'.enc[k] > 0 => k \notin alice'.auth)
                /\ Enough(set.cipher, bob.store[k], Uses(alice', data, k))
    <3>1. /\ k \in ids /\ alice.enc[k] = 0 /\ k \notin alice.auth /\ Air(data, k) = 0
      BY <1>6, <1>11
    <3>2. Uses(alice', data, k) = 0
      BY <2>9, <3>1 DEF Uses
    <3>3. bob.store[k] \in Nat
      BY <1>1 DEF Replica
    <3>4. Enough(set.cipher, bob.store[k], 0)
      BY <3>3 DEF Enough
    <3>5. alice'.common[k] = "none"
      BY <2>1, <2>9, <3>1
    <3>6. alice'.enc[k] > 0 => k \notin alice'.auth
      BY <2>9, <3>1
    <3> QED BY <3>2, <3>4, <3>5, <3>6
  <2> QED BY <1>2, <1>7, <1>10, <2>8, <2>9, <2>10, <2>11, <2>12, ProposalGone
<1> QED BY <1>12, <1>13

-----------------------------------------------------------------------------
(* Packets.                                                                *)

LEMMA UsesCount ==
  ASSUME NEW a \in Primary, NEW d \in Seq(Packet), NEW k \in KeyIds
  PROVE  /\ a.enc[k] \in Nat /\ Air(d, k) \in Nat /\ Uses(a, d, k) \in Nat
         /\ a.enc[k] > 0 \/ k \in a.auth \/ Air(d, k) > 0 <=> Uses(a, d, k) > 0
<1>1. a.enc[k] \in Nat
  BY DEF Primary
<1>2. Air(d, k) \in Nat
  BY AirCount
<1>3. PICK e \in Nat, u \in Nat, w \in {0, 1} :
        e = a.enc[k] /\ u = Air(d, k) /\ w = (IF k \in a.auth THEN 1 ELSE 0)
  BY <1>1, <1>2
<1>4. Uses(a, d, k) = e + w + u
  BY <1>3 DEF Uses
<1>5. e + w + u \in Nat /\ (e > 0 \/ w = 1 \/ u > 0 <=> e + w + u > 0)
  OBVIOUS
<1> QED BY <1>3, <1>4, <1>5

(* A packet that is sent, lost or received moves uses from one place to    *)
(* another; a key without uses gets none, and Bob still has enough.        *)
LEMMA FlowStep ==
  ASSUME IInv, UNCHANGED <<set, sig, kms>>, ~failed',
         alice' \in Primary, Asking(alice'), Settled(set.auth, alice'),
         alice'.proposed = alice.proposed, alice'.common = alice.common,
         bob' \in Replica, bob'.asked = bob.asked, bob'.up = bob.up, bob'.watch = bob.watch,
         data' \in Seq(Packet),
         \A k \in KeyIds :
           /\ alice'.enc[k] > 0 => k \notin alice'.auth
           /\ Uses(alice, data, k) = 0 =>
                Uses(alice', data', k) = 0 /\ bob'.store[k] = bob.store[k]
           /\ Enough(set.cipher, bob'.store[k], Uses(alice', data', k))
  PROVE  IInv'
<1>1. set' = set /\ sig' = sig /\ kms' = kms
  OBVIOUS
<1>2. /\ alice \in Primary /\ alice.proposed \in Seq(SUBSET KeyIds) /\ data \in Seq(Packet)
      /\ Waiting(alice, data, kms.made) /\ Answering(alice, bob, sig.alice, sig.bob)
      /\ Holding(set.cipher, alice, bob.store, data, kms.made)
  BY DEF IInv, Types, Primary
<1>3. Types'
  BY <1>1 DEF IInv, Types
<1>4. ASSUME NEW i \in DOMAIN alice.proposed, NEW k \in alice.proposed[i]
      PROVE  /\ Uses(alice', data', k) = 0 /\ kms.made[k] # "none"
             /\ bob'.store[k] = bob.store[k]
  <2>1. k \in KeyIds
    BY <1>2, <1>4
  <2>2. Uses(alice, data, k) = 0 /\ kms.made[k] # "none"
    BY <1>2, <1>4 DEF Waiting
  <2> QED BY <2>1, <2>2
<1>5. Waiting(alice', data', kms'.made)
  BY <1>1, <1>4 DEF Waiting
<1>6. Answering(alice', bob', sig'.alice, sig'.bob)
  <2>1. PICK x, y, z \in Nat :
          /\ x = Len(sig.alice) /\ y = Len(bob.asked) /\ z = Len(sig.bob)
          /\ Len(alice.proposed) = x + y + z
          /\ \A i \in 1 .. x : sig.alice[i] = "Ok" =>
               \A k \in alice.proposed[i] : bob.store[k] = Life
          /\ \A i \in 1 .. y : alice.proposed[x + i] = bob.asked[i]
          /\ \A i \in 1 .. z : alice.proposed[x + y + i] = sig.bob[i]
    BY Places
  <2>2. \A i \in 1 .. x : i \in DOMAIN alice.proposed
    <3>1. \A i \in 1 .. x : i \in 1 .. x + y + z
      OBVIOUS
    <3>2. DOMAIN alice.proposed = 1 .. Len(alice.proposed)
      BY <1>2
    <3>3. Len(alice.proposed) = x + y + z
      BY <2>1
    <3> QED BY <3>1, <3>2, <3>3
  <2>3. \A i \in 1 .. x : sig.alice[i] = "Ok" => \A k \in alice.proposed[i] : bob'.store[k] = Life
    BY <1>4, <2>1, <2>2
  <2>4. \A i \in 1 .. Len(sig'.alice) : sig'.alice[i] = "Ok" =>
          \A k \in alice'.proposed[i] : bob'.store[k] = Life
    BY <1>1, <2>1, <2>3
  <2> QED BY <1>1, <1>2, <2>4 DEF Answering
<1>7. Single(alice', bob') /\ Apart(alice')
  BY DEF IInv, Single, Apart
<1>8. Holding(set.cipher, alice', bob'.store, data', kms.made)
  <2> SUFFICES ASSUME NEW k \in KeyIds
               PROVE  /\ kms.made[k] = "none" => Uses(alice', data', k) = 0
                      /\ Uses(alice', data', k) > 0 => alice'.common[k] = "none"
                      /\ alice'.enc[k] > 0 => k \notin alice'.auth
                      /\ Enough(set.cipher, bob'.store[k], Uses(alice', data', k))
    BY DEF Holding
  <2>1. /\ kms.made[k] = "none" => Uses(alice, data, k) = 0
        /\ Uses(alice, data, k) > 0 => alice.common[k] = "none"
    BY <1>2 DEF Holding
  <2>2. Uses(alice, data, k) \in Nat /\ (Uses(alice, data, k) = 0 => Uses(alice', data', k) = 0)
    BY <1>2, UsesCount
  <2>3. kms.made[k] = "none" => Uses(alice', data', k) = 0
    BY <2>1, <2>2
  <2>4. Uses(alice', data', k) > 0 => alice'.common[k] = "none"
    BY <2>1, <2>2
  <2> QED BY <2>3, <2>4
<1>9. Holding(set'.cipher, alice', bob'.store, data', kms'.made) /\ Settled(set'.auth, alice')
  BY <1>1, <1>8
<1> QED BY <1>3, <1>5, <1>6, <1>7, <1>9 DEF IInv

LEMMA FirstOf ==
  ASSUME NEW keys \in SUBSET Nat, keys # {}
  PROVE  First(keys) \in keys
<1> DEFINE R == {p \in Nat \X Nat : p[1] < p[2]}
<1>1. IsWellFoundedOn(R, Nat)
  BY NatLessThanWellFounded, IsWellFoundedOnSubrelation DEF OpToRel
<1>2. PICK k \in keys : \A j \in keys : <<j, k>> \notin R
  <2> HIDE DEF R
  <2> QED BY <1>1, WFMin
<1>3. ASSUME NEW j \in keys PROVE k <= j
  <2>1. k \in Nat /\ j \in Nat
    OBVIOUS
  <2>2. <<j, k>> \notin R
    BY <1>2, <1>3
  <2>3. ~(j < k)
    BY <2>1, <2>2
  <2> QED BY <2>1, <2>3
<1>4. k \in keys /\ \A j \in keys : k <= j
  BY <1>3
<1> QED BY <1>4 DEF First

LEMMA DataLostStep ==
  ASSUME IInv, DataLost
  PROVE  IInv'
<1>1. /\ alice \in Primary /\ bob \in Replica /\ data \in Seq(Packet) /\ Asking(alice)
      /\ Settled(set.auth, alice) /\ ~failed /\ set \in Settings
      /\ Holding(set.cipher, alice, bob.store, data, kms.made)
  BY DEF IInv, Types
<1>2. data # <<>> /\ data' = Tail(data) /\ UNCHANGED <<set, alice, bob, sig, kms, faults, failed>>
  BY DEF DataLost
<1>3. data' \in Seq(Packet)
  BY <1>1, <1>2, AirTail
<1>4. ASSUME NEW k \in KeyIds
      PROVE  /\ alice.enc[k] > 0 => k \notin alice.auth
             /\ Uses(alice, data, k) = 0 => Uses(alice, data', k) = 0
             /\ Enough(set.cipher, bob.store[k], Uses(alice, data', k))
  <2>1. /\ alice.enc[k] > 0 => k \notin alice.auth
        /\ Enough(set.cipher, bob.store[k], Uses(alice, data, k))
    BY <1>1 DEF Holding
  <2>2. PICK named \in {0, 1} : Air(data, k) = Air(data', k) + named
    <3>1. Air(data, k) = Air(Tail(data), k) + IF k = Head(data).enc \/ k \in Head(data).auth THEN 1 ELSE 0
      BY <1>1, <1>2, AirTail
    <3> QED BY <1>2, <3>1
  <2>3. /\ alice.enc[k] \in Nat /\ Air(data, k) \in Nat /\ Air(data', k) \in Nat
        /\ Uses(alice, data, k) \in Nat /\ Uses(alice, data', k) \in Nat
    BY <1>1, <1>3, UsesCount
  <2>4. Uses(alice, data', k) <= Uses(alice, data, k)
    <3>1. PICK e \in Nat, w \in {0, 1} : e = alice.enc[k] /\ w = (IF k \in alice.auth THEN 1 ELSE 0)
      BY <2>3
    <3>2. PICK u \in Nat : u = Air(data', k)
      BY <2>3
    <3>3. Uses(alice, data, k) = e + w + (u + named) /\ Uses(alice, data', k) = e + w + u
      BY <2>2, <3>1, <3>2 DEF Uses
    <3>4. e + w + u <= e + w + (u + named)
      OBVIOUS
    <3> QED BY <3>3, <3>4
  <2>5. bob.store[k] \in Nat
    BY <1>1 DEF Replica
  <2>6. Enough(set.cipher, bob.store[k], Uses(alice, data', k))
    BY <2>1, <2>3, <2>4, <2>5 DEF Enough
  <2>7. Uses(alice, data, k) = 0 => Uses(alice, data', k) = 0
    BY <2>3, <2>4
  <2> QED BY <2>1, <2>6, <2>7
<1>5. \A k \in KeyIds :
        /\ alice'.enc[k] > 0 => k \notin alice'.auth
        /\ Uses(alice, data, k) = 0 =>
             Uses(alice', data', k) = 0 /\ bob'.store[k] = bob.store[k]
        /\ Enough(set.cipher, bob'.store[k], Uses(alice', data', k))
  BY <1>2, <1>4
<1> QED BY <1>1, <1>2, <1>3, <1>5, FlowStep

(* Bob takes from a key what the packet has stood for.                     *)
LEMMA DataArrivesStep ==
  ASSUME IInv, DataArrives
  PROVE  IInv'
<1>1. /\ alice \in Primary /\ bob \in Replica /\ data \in Seq(Packet) /\ Asking(alice)
      /\ Settled(set.auth, alice) /\ ~failed /\ set \in Settings
      /\ Holding(set.cipher, alice, bob.store, data, kms.made)
  BY DEF IInv, Types
<1>2. PICK used : used = {Head(data).enc} \cup Head(data).auth
  OBVIOUS
<1>3. /\ data # <<>> /\ data' = Tail(data) /\ UNCHANGED <<set, alice, sig, kms, faults>>
      /\ failed' = (failed \/ \E k \in used : bob.store[k] = 0)
      /\ bob' = [bob EXCEPT !.store =
                   [k \in KeyIds |-> IF k \in used /\ @[k] > 0 THEN Used(@[k]) ELSE @[k]]]
  BY <1>2 DEF DataArrives
<1>4. data' \in Seq(Packet) /\ Head(data) \in Packet
  BY <1>1, <1>3, AirTail
<1>5. used \in SUBSET KeyIds
  BY <1>2, <1>4 DEF Packet
<1>6. PICK st \in [KeyIds -> 0 .. Life] :
        st = [k \in KeyIds |-> IF k \in used /\ bob.store[k] > 0
                                 THEN Used(bob.store[k]) ELSE bob.store[k]]
  <2>1. bob.store \in [KeyIds -> 0 .. Life]
    BY <1>1 DEF Replica
  <2>2. \A l \in 0 .. Life : l > 0 => Used(l) \in 0 .. Life
    BY App014Assumption DEF Used
  <2> QED BY <2>1, <2>2
<1>7. bob' = [bob EXCEPT !.store = st]
  BY <1>3, <1>6
<1>8. /\ bob' \in Replica /\ bob'.store = st /\ bob'.asked = bob.asked /\ bob'.up = bob.up
      /\ bob'.watch = bob.watch
  BY <1>1, <1>7 DEF Replica
<1>9. ASSUME NEW k \in KeyIds
      PROVE  /\ Air(data, k) = Air(data', k) + IF k \in used THEN 1 ELSE 0
             /\ Air(data, k) \in Nat /\ Air(data', k) \in Nat /\ alice.enc[k] \in Nat
             /\ Uses(alice, data, k) = Uses(alice, data', k) + IF k \in used THEN 1 ELSE 0
             /\ Uses(alice, data', k) \in Nat
  <2>1. Air(data, k) = Air(Tail(data), k) + IF k = Head(data).enc \/ k \in Head(data).auth THEN 1 ELSE 0
    BY <1>1, <1>3, AirTail
  <2>2. k = Head(data).enc \/ k \in Head(data).auth <=> k \in used
    BY <1>2
  <2>3. Air(data, k) = Air(data', k) + IF k \in used THEN 1 ELSE 0
    BY <1>3, <2>1, <2>2
  <2>4. /\ alice.enc[k] \in Nat /\ Air(data, k) \in Nat /\ Air(data', k) \in Nat
        /\ Uses(alice, data', k) \in Nat
    BY <1>1, <1>4, UsesCount
  <2>5. PICK e \in Nat, w \in {0, 1} : e = alice.enc[k] /\ w = (IF k \in alice.auth THEN 1 ELSE 0)
    BY <2>4
  <2>6. PICK u \in Nat, v \in {0, 1} : u = Air(data', k) /\ v = (IF k \in used THEN 1 ELSE 0)
    BY <2>4
  <2>7. Uses(alice, data, k) = e + w + (u + v) /\ Uses(alice, data', k) = e + w + u
    BY <2>3, <2>5, <2>6 DEF Uses
  <2>8. e + w + (u + v) = (e + w + u) + v
    OBVIOUS
  <2> QED BY <2>3, <2>4, <2>6, <2>7, <2>8
<1>10. ASSUME NEW k \in KeyIds
       PROVE  /\ k \in used => bob.store[k] > 0
              /\ alice.enc[k] > 0 => k \notin alice.auth
              /\ Uses(alice, data, k) = 0 => Uses(alice, data', k) = 0 /\ st[k] = bob.store[k]
              /\ Enough(set.cipher, st[k], Uses(alice, data', k))
  <2>1. /\ alice.enc[k] > 0 => k \notin alice.auth
        /\ Enough(set.cipher, bob.store[k], Uses(alice, data, k))
    BY <1>1 DEF Holding
  <2>2. bob.store[k] \in Nat
    BY <1>1 DEF Replica
  <2>3. PICK l \in Nat, u \in Nat : l = bob.store[k] /\ u = Uses(alice, data', k)
    BY <1>9, <2>2
  <2>4. CASE k \in used
    <3>1. Uses(alice, data, k) = u + 1
      BY <1>9, <2>3, <2>4
    <3>2. Enough(set.cipher, l, u + 1)
      BY <2>1, <2>3, <3>1
    <3>3. l > 0
      BY <3>2 DEF Enough
    <3>4. st[k] = Used(l)
      BY <1>6, <2>3, <2>4, <3>3
    <3>5. Enough(set.cipher, Used(l), u)
      BY <3>2, <3>3 DEF Enough, Used
    <3>6. u + 1 # 0
      OBVIOUS
    <3> QED BY <2>1, <2>3, <3>1, <3>3, <3>4, <3>5, <3>6
  <2>5. CASE k \notin used
    <3>1. Uses(alice, data, k) = u
      BY <1>9, <2>3, <2>5
    <3>2. st[k] = l
      BY <1>6, <2>3, <2>5
    <3> QED BY <2>1, <2>3, <2>5, <3>1, <3>2
  <2> QED BY <2>4, <2>5
<1>11. ~failed'
  <2>1. \A k \in used : bob.store[k] # 0
    <3> SUFFICES ASSUME NEW k \in used, bob.store[k] = 0 PROVE FALSE
      OBVIOUS
    <3>1. bob.store[k] > 0
      BY <1>5, <1>10
    <3> QED BY <3>1
  <2>2. ~(failed \/ \E k \in used : bob.store[k] = 0)
    BY <1>1, <2>1
  <2> QED BY <1>3, <2>2
<1>12. \A k \in KeyIds :
         /\ alice'.enc[k] > 0 => k \notin alice'.auth
         /\ Uses(alice, data, k) = 0 =>
              Uses(alice', data', k) = 0 /\ bob'.store[k] = bob.store[k]
         /\ Enough(set.cipher, bob'.store[k], Uses(alice', data', k))
  BY <1>3, <1>8, <1>10
<1> QED BY <1>1, <1>3, <1>4, <1>8, <1>11, <1>12, FlowStep

(* What Alice takes from her keys is what the packet stands for.           *)
LEMMA SendStep ==
  ASSUME IInv, Send
  PROVE  IInv'
<1>1. /\ alice \in Primary /\ bob \in Replica /\ data \in Seq(Packet) /\ Asking(alice)
      /\ Settled(set.auth, alice) /\ ~failed /\ set \in Setting
      /\ Holding(set.cipher, alice, bob.store, data, kms.made)
  BY App014Assumption DEF IInv, Types
<1>2. alice.state = "READY" /\ UNCHANGED <<set, bob, sig, kms, faults>>
  BY DEF Send
<1>3. \A kind \in Kinds : ~Lacks(alice, kind)
  BY <1>1, <1>2 DEF Settled, LacksOf, Lacks
<1>4. EncKeys(alice) # {} /\ (set.auth => alice.auth # {})
  BY <1>3 DEF Lacks, Kinds
<1>5. PICK k : k = First(EncKeys(alice))
  OBVIOUS
<1>6. PICK t : t = IF set.auth THEN {First(alice.auth)} ELSE {}
  OBVIOUS
<1>7. /\ data' = Append(data, [enc |-> k, auth |-> t]) /\ failed' = failed
      /\ alice' = ManageStores([alice EXCEPT !.enc[k] = Used(@), !.auth = @ \ t])
  BY <1>3, <1>5, <1>6 DEF Send
<1>8. k \in KeyIds /\ alice.enc[k] > 0
  <2>1. EncKeys(alice) \in SUBSET Nat
    BY App014Assumption DEF EncKeys
  <2>2. k \in EncKeys(alice)
    BY <1>4, <1>5, <2>1, FirstOf
  <2> QED BY <2>2 DEF EncKeys
<1>9. t \in SUBSET KeyIds /\ t \subseteq alice.auth
  <2>1. alice.auth \in SUBSET KeyIds /\ alice.auth \in SUBSET Nat
    BY <1>1, App014Assumption DEF Primary
  <2>2. CASE set.auth
    <3>1. First(alice.auth) \in alice.auth
      BY <1>4, <2>1, <2>2, FirstOf
    <3> QED BY <1>6, <2>1, <2>2, <3>1
  <2>3. CASE ~set.auth
    BY <1>6, <2>3
  <2> QED BY <2>2, <2>3
<1>10. PICK p \in Packet : p = [enc |-> k, auth |-> t]
  BY <1>8, <1>9 DEF Packet
<1>11. data' \in Seq(Packet) /\ data' = Append(data, p)
  BY <1>1, <1>7, <1>10, AppendProperties
<1>12. PICK e \in Nat : e = alice.enc[k] /\ e <= Life /\ e > 0
  BY <1>1, <1>8, App014Assumption DEF Primary
<1>13. PICK en \in [KeyIds -> 0 .. Life] : en = [alice.enc EXCEPT ![k] = Used(e)]
  <2>1. Used(e) \in 0 .. Life
    BY <1>12, App014Assumption DEF Used
  <2> QED BY <1>1, <2>1 DEF Primary
<1>14. PICK au \in SUBSET KeyIds : au = alice.auth \ t
  BY <1>1 DEF Primary
<1>15. PICK a : a = [alice EXCEPT !.enc = en, !.auth = au]
  OBVIOUS
<1>16. a = [alice EXCEPT !.enc[k] = Used(@), !.auth = @ \ t]
  BY <1>1, <1>12, <1>13, <1>14, <1>15 DEF Primary
<1>17. /\ a \in Primary /\ a.enc = en /\ a.auth = au /\ a.common = alice.common
       /\ a.proposed = alice.proposed /\ a.asked = alice.asked /\ a.queue = alice.queue
  BY <1>1, <1>15 DEF Primary
<1>18. Asking(a)
  BY <1>1, <1>17 DEF Asking
<1>19. alice' = ManageStores(a)
  BY <1>7, <1>16
<1>20. alice' \in Primary /\ Asking(alice') /\ Alike(a, alice') /\ Settled(set.auth, alice')
  BY <1>17, <1>18, <1>19, StoresManaged
<1>21. /\ alice'.enc = en /\ alice'.auth = au /\ alice'.common = alice.common
       /\ alice'.proposed = alice.proposed
  BY <1>17, <1>20 DEF Alike
<1>22. k \notin alice.auth
  BY <1>1, <1>8 DEF Holding
<1>23. ASSUME NEW j \in KeyIds
       PROVE  /\ alice'.enc[j] > 0 => j \notin alice'.auth
              /\ Uses(alice, data, j) = 0 => Uses(alice', data', j) = 0
              /\ Enough(set.cipher, bob.store[j], Uses(alice', data', j))
  <2>1. /\ alice.enc[j] > 0 => j \notin alice.auth
        /\ Enough(set.cipher, bob.store[j], Uses(alice, data, j))
    BY <1>1 DEF Holding
  <2>2. Air(data', j) = Air(data, j) + IF j = k \/ j \in t THEN 1 ELSE 0
    <3>1. Air(data', j) = Air(data, j) + IF j = p.enc \/ j \in p.auth THEN 1 ELSE 0
      BY <1>1, <1>11, AirAppend
    <3> QED BY <1>10, <3>1
  <2>3. PICK u \in Nat, l \in Nat, c \in Nat :
          u = Air(data, j) /\ l = bob.store[j] /\ c = alice.enc[j]
    <3>1. Air(data, j) \in Nat /\ alice.enc[j] \in Nat
      BY <1>1, UsesCount
    <3>2. bob.store[j] \in Nat
      BY <1>1 DEF Replica
    <3> QED BY <3>1, <3>2
  <2>4. CASE j = k
    <3>1. j \notin t /\ j \notin au /\ en[j] = Used(e) /\ c = e
      BY <1>9, <1>12, <1>13, <1>14, <1>22, <1>1, <2>3, <2>4 DEF Primary
    <3>2. Uses(alice, data, j) = e + 0 + u
      BY <1>22, <2>3, <2>4, <3>1 DEF Uses
    <3>3. Uses(alice', data', j) = Used(e) + 0 + (u + 1)
      BY <1>21, <2>2, <2>3, <2>4, <3>1 DEF Uses
    <3>4. Enough(set.cipher, l, e + 0 + u)
      BY <2>1, <2>3, <3>2
    <3>5. Enough(set.cipher, l, Used(e) + 0 + (u + 1))
      BY <1>12, <3>4 DEF Enough, Used
    <3>6. e + 0 + u # 0
      BY <1>12
    <3>7. alice'.enc[j] > 0 => j \notin alice'.auth
      BY <1>21, <3>1
    <3> QED BY <2>3, <3>2, <3>3, <3>5, <3>6, <3>7
  <2>5. CASE j # k /\ j \in t
    <3>1. j \in alice.auth /\ j \notin au /\ en[j] = c
      BY <1>9, <1>13, <1>14, <1>1, <2>3, <2>5 DEF Primary
    <3>2. Uses(alice, data, j) = c + 1 + u
      BY <2>3, <3>1 DEF Uses
    <3>3. Uses(alice', data', j) = c + 0 + (u + 1)
      BY <1>21, <2>2, <2>3, <2>5, <3>1 DEF Uses
    <3>4. c + 1 + u = c + 0 + (u + 1) /\ c + 1 + u # 0
      OBVIOUS
    <3>5. alice'.enc[j] > 0 => j \notin alice'.auth
      BY <1>21, <3>1
    <3> QED BY <2>1, <3>2, <3>3, <3>4, <3>5
  <2>6. CASE j # k /\ j \notin t
    <3>1. (j \in au <=> j \in alice.auth) /\ en[j] = c
      BY <1>13, <1>14, <1>1, <2>3, <2>6 DEF Primary
    <3>2. Air(data', j) = u
      BY <2>2, <2>3, <2>6
    <3>3. Uses(alice', data', j) = Uses(alice, data, j)
      BY <1>21, <2>3, <3>1, <3>2 DEF Uses
    <3>4. alice'.enc[j] > 0 => j \notin alice'.auth
      BY <1>21, <2>1, <2>3, <3>1
    <3> QED BY <2>1, <3>3, <3>4
  <2> QED BY <2>4, <2>5, <2>6
<1>24. bob' = bob /\ ~failed'
  BY <1>1, <1>2, <1>7
<1>25. \A j \in KeyIds :
         /\ alice'.enc[j] > 0 => j \notin alice'.auth
         /\ Uses(alice, data, j) = 0 =>
              Uses(alice', data', j) = 0 /\ bob'.store[j] = bob.store[j]
         /\ Enough(set.cipher, bob'.store[j], Uses(alice', data', j))
  BY <1>23, <1>24
<1> QED BY <1>1, <1>2, <1>11, <1>20, <1>21, <1>24, <1>25, FlowStep

-----------------------------------------------------------------------------
(* Every packet finds its keys.                                            *)

LEMMA InitIInv ==
  ASSUME Init
  PROVE  IInv
<1>1. /\ <<>> \in Seq(SUBSET KeyIds) /\ <<>> \in Seq(Kinds) /\ <<>> \in Seq(Status)
      /\ <<>> \in Seq(Packet) /\ Len(<<>>) = 0
  BY EmptySeq
<1>2. /\ <<"status">> \in Seq(Kinds \cup {"status"}) /\ Len(<<"status">>) = 1
      /\ DOMAIN <<"status">> = {1} /\ <<"status">>[1] = "status"
  <2>1. "status" \in Kinds \cup {"status"}
    OBVIOUS
  <2> QED BY <2>1
<1>3. 0 \in 0 .. Life
  BY App014Assumption
<1>4. alice \in Primary
  BY <1>1, <1>2, <1>3 DEF Init, Primary
<1>5. bob \in Replica
  BY <1>1, <1>3 DEF Init, Replica
<1>6. Types
  BY <1>1, <1>4, <1>5 DEF Init, Types
<1>7. Asking(alice)
  BY <1>1, <1>2 DEF Init, Asking
<1>8. Answering(alice, bob, sig.alice, sig.bob)
  <2>1. /\ Len(alice.proposed) = 0 /\ Len(sig.alice) = 0 /\ Len(bob.asked) = 0
        /\ Len(sig.bob) = 0
    BY <1>1 DEF Init
  <2>2. 1 .. 0 = {} /\ 0 = 0 + 0 + 0
    OBVIOUS
  <2> QED BY <2>1, <2>2 DEF Answering
<1>9. Single(alice, bob)
  BY DEF Init, Single
<1>10. DOMAIN alice.proposed = {}
  <2>1. DOMAIN alice.proposed = 1 .. 0
    BY <1>1 DEF Init
  <2> QED BY <2>1
<1>11. Apart(alice) /\ Waiting(alice, data, kms.made)
  BY <1>10 DEF Apart, Waiting
<1>12. Holding(set.cipher, alice, bob.store, data, kms.made)
  <2> SUFFICES ASSUME NEW k \in KeyIds
               PROVE  /\ Uses(alice, data, k) = 0 /\ alice.enc[k] = 0
                      /\ Enough(set.cipher, bob.store[k], Uses(alice, data, k))
    BY DEF Holding
  <2>1. Air(data, k) = 0
    BY AirNone DEF Init
  <2>2. alice.enc[k] = 0 /\ k \notin alice.auth /\ bob.store[k] = 0
    BY DEF Init
  <2>3. Uses(alice, data, k) = 0
    BY <2>1, <2>2 DEF Uses
  <2> QED BY <2>2, <2>3 DEF Enough
<1>13. Settled(set.auth, alice) /\ ~failed
  BY DEF Init, Settled
<1> QED BY <1>6, <1>7, <1>8, <1>9, <1>11, <1>12, <1>13 DEF IInv

LEMMA NextIInv ==
  ASSUME IInv, [Next]_vars, Overlap = FALSE
  PROVE  IInv'
<1>1. CASE ScheduledLook
  BY <1>1, ScheduledLookStep
<1>2. CASE Send
  BY <1>2, SendStep
<1>3. CASE Miss
  BY <1>3, MissStep
<1>4. CASE StatusAnswered
  BY <1>4, StatusAnsweredStep
<1>5. CASE EncKeysAnswered
  BY <1>5, EncKeysAnsweredStep
<1>6. CASE EncKeysRefused
  BY <1>6, EncKeysRefusedStep
<1>7. CASE KmsRequestTimeoutAlice
  BY <1>7, KmsRequestTimeoutAliceStep
<1>8. CASE ConnectionSilentAlice
  BY <1>8, ConnectionSilentAliceStep
<1>9. CASE ProposalArrives
  BY <1>9, ProposalArrivesStep
<1>10. CASE DecKeysAnswered
  BY <1>10, DecKeysAnsweredStep
<1>11. CASE KmsRequestTimeoutBob
  BY <1>11, KmsRequestTimeoutBobStep
<1>12. CASE ConnectionSilentBob
  BY <1>12, ConnectionSilentBobStep
<1>13. CASE ProposalAnswered
  BY <1>13, ProposalAnsweredStep
<1>14. CASE DataArrives
  BY <1>14, DataArrivesStep
<1>15. CASE DataLost
  BY <1>15, DataLostStep
<1>16. CASE UNCHANGED vars
  <2>1. /\ set' = set /\ alice' = alice /\ bob' = bob /\ sig' = sig /\ data' = data
        /\ kms' = kms /\ failed' = failed
    BY <1>16 DEF vars
  <2> QED BY <2>1 DEF IInv, Types
<1> QED BY <1>1, <1>2, <1>3, <1>4, <1>5, <1>6, <1>7, <1>8, <1>9, <1>10, <1>11, <1>12,
           <1>13, <1>14, <1>15, <1>16 DEF Next

LEMMA TypesOfIInv ==
  ASSUME IInv
  PROVE  TypeOK
<1>1. /\ set \in Settings /\ alice \in Primary /\ bob \in Replica /\ data \in Seq(Packet)
      /\ kms \in [made : [KeyIds -> Kinds \cup {"none"}], kept : SUBSET KeyIds]
      /\ \A k \in kms.kept : kms.made[k] # "none"
      /\ Holding(set.cipher, alice, bob.store, data, kms.made)
  BY DEF IInv, Types
<1>2. ASSUME NEW k \in KeyIds, alice.enc[k] > 0 \/ k \in alice.auth
      PROVE  alice.common[k] = "none"
  <2>1. Uses(alice, data, k) > 0
    BY <1>1, <1>2, UsesCount
  <2> QED BY <1>1, <2>1 DEF Holding
<1>3. \A k \in EncKeys(alice) : alice.common[k] = "none" /\ k \notin alice.auth
  BY <1>1, <1>2 DEF EncKeys, Holding
<1>4. \A k \in alice.auth : alice.common[k] = "none"
  BY <1>1, <1>2 DEF Primary
<1>5. kms.kept \subseteq KeyIds \ Fresh
  BY <1>1 DEF Fresh
<1>6. /\ alice.state \in {"WAIT", "READY"} /\ alice.enc \in [KeyIds -> 0 .. Life]
      /\ bob.store \in [KeyIds -> 0 .. Life] /\ alice.common \in [KeyIds -> Kinds \cup {"none"}]
  BY <1>1 DEF Primary, Replica
<1> QED BY <1>1, <1>3, <1>4, <1>5, <1>6 DEF TypeOK

(* The packets protected with a key are packets that name it.              *)
LEMMA InAirCount ==
  ASSUME data \in Seq(Packet), NEW k
  PROVE  InAir(k) \in Nat /\ InAir(k) <= Air(data, k)
<1> DEFINE S == {i \in DOMAIN data : k = data[i].enc \/ k \in data[i].auth}
           T == {i \in DOMAIN data : data[i].enc = k}
<1>1. IsFiniteSet(S) /\ Cardinality(S) = Air(data, k)
  BY AirCount DEF Air
<1>2. T \subseteq S
  OBVIOUS
<1>3. InAir(k) = Cardinality(T)
  BY DEF InAir
<1> HIDE DEF S, T
<1>4. IsFiniteSet(T) /\ Cardinality(T) <= Cardinality(S)
  BY <1>1, <1>2, FS_Subset
<1>5. Cardinality(T) \in Nat
  BY <1>4, FS_CardinalityType
<1> QED BY <1>1, <1>3, <1>4, <1>5

LEMMA FindsOfIInv ==
  ASSUME IInv
  PROVE  PacketFindsKeys
<1>1. /\ set \in Settings /\ alice \in Primary /\ bob \in Replica /\ data \in Seq(Packet)
      /\ Holding(set.cipher, alice, bob.store, data, kms.made) /\ ~failed
  BY DEF IInv, Types
<1>2. TypeOK
  BY TypesOfIInv
<1>3. ASSUME NEW i \in DOMAIN data
      PROVE  /\ data[i].enc \in KeyIds /\ data[i].auth \in SUBSET KeyIds
             /\ \A k \in {data[i].enc} \cup data[i].auth : k \in KeyIds /\ Air(data, k) > 0
  <2>1. data[i] \in Packet
    BY <1>1
  <2>2. \A k \in {data[i].enc} \cup data[i].auth : Air(data, k) > 0
    BY <1>1, AirSome
  <2> QED BY <2>1, <2>2 DEF Packet
<1>4. ASSUME NEW k \in KeyIds, Uses(alice, data, k) > 0
      PROVE  /\ bob.store[k] \in Nat /\ bob.store[k] > 0
             /\ set.cipher = "AES" => bob.store[k] >= alice.enc[k] + InAir(k)
             /\ set.cipher = "AES" => bob.store[k] >= InAir(k)
  <2>1. Enough(set.cipher, bob.store[k], Uses(alice, data, k))
    BY <1>1 DEF Holding
  <2>2. /\ alice.enc[k] \in Nat /\ Air(data, k) \in Nat /\ Uses(alice, data, k) \in Nat
    BY <1>1, UsesCount
  <2>3. InAir(k) \in Nat /\ InAir(k) <= Air(data, k)
    BY <1>1, InAirCount
  <2>4. bob.store[k] \in Nat
    BY <1>1 DEF Replica
  <2>5. PICK e \in Nat, u \in Nat, v \in Nat, l \in Nat, w \in {0, 1} :
          /\ e = alice.enc[k] /\ u = Air(data, k) /\ v = InAir(k) /\ l = bob.store[k]
          /\ w = (IF k \in alice.auth THEN 1 ELSE 0)
    BY <2>2, <2>3, <2>4
  <2>6. Uses(alice, data, k) = e + w + u /\ v <= u
    BY <2>3, <2>5 DEF Uses
  <2>7. e + w + u > 0 /\ Enough(set.cipher, l, e + w + u)
    BY <1>4, <2>1, <2>5, <2>6
  <2>8. l > 0
    BY <2>7 DEF Enough
  <2>9. set.cipher = "AES" => l >= e + v /\ l >= v
    BY <2>6, <2>7 DEF Enough
  <2> QED BY <2>5, <2>8, <2>9
<1>5. \A i \in DOMAIN data : \A k \in {data[i].enc} \cup data[i].auth : bob.store[k] > 0
  <2> SUFFICES ASSUME NEW i \in DOMAIN data, NEW k \in {data[i].enc} \cup data[i].auth
               PROVE  bob.store[k] > 0
    OBVIOUS
  <2>1. k \in KeyIds /\ Air(data, k) > 0
    BY <1>3
  <2>2. Uses(alice, data, k) > 0
    BY <1>1, <2>1, UsesCount
  <2> QED BY <1>4, <2>1, <2>2
<1>6. \A k \in EncKeys(alice) :
        bob.store[k] >= IF set.cipher = "AES" THEN alice.enc[k] + InAir(k) ELSE 1
  <2> SUFFICES ASSUME NEW k \in EncKeys(alice)
               PROVE  bob.store[k] >= IF set.cipher = "AES" THEN alice.enc[k] + InAir(k) ELSE 1
    OBVIOUS
  <2>1. k \in KeyIds /\ alice.enc[k] > 0
    BY DEF EncKeys
  <2>2. Uses(alice, data, k) > 0
    BY <1>1, <2>1, UsesCount
  <2>3. /\ bob.store[k] \in Nat /\ bob.store[k] > 0
        /\ set.cipher = "AES" => bob.store[k] >= alice.enc[k] + InAir(k)
    BY <1>4, <2>1, <2>2
  <2> QED BY <2>3
<1>7. \A i \in DOMAIN data : set.cipher = "AES" => bob.store[data[i].enc] >= InAir(data[i].enc)
  <2> SUFFICES ASSUME NEW i \in DOMAIN data, set.cipher = "AES"
               PROVE  bob.store[data[i].enc] >= InAir(data[i].enc)
    OBVIOUS
  <2>1. PICK k : k = data[i].enc
    OBVIOUS
  <2>2. k \in KeyIds /\ Air(data, k) > 0
    BY <1>3, <2>1
  <2>3. Uses(alice, data, k) > 0
    BY <1>1, <2>2, UsesCount
  <2> QED BY <1>4, <2>1, <2>2, <2>3
<1> QED BY <1>1, <1>2, <1>5, <1>6, <1>7 DEF PacketFindsKeys

LEMMA Inductive ==
  ASSUME Overlap = FALSE
  PROVE  Spec => []IInv
<1>1. Init => IInv
  BY InitIInv
<1>2. IInv /\ [Next]_vars => IInv'
  BY NextIInv
<1> QED BY <1>1, <1>2, PTL DEF Spec

(* The state of the pair stays well formed, and a key is in one store of   *)
(* Alice at most (CheckAppState, SendDataPacket, the moves from the common *)
(* store), where Bob's silent connection has one proposal to answer for.   *)
THEOREM TypeCorrect ==
  ASSUME Overlap = FALSE
  PROVE  Spec => []TypeOK
<1>1. IInv => TypeOK
  BY TypesOfIInv
<1> QED BY <1>1, Inductive, PTL

(* Bob finds the keys of every packet and has as many uses of them left as *)
(* the packets on the way and Alice's store will ask of him: the answers he*)
(* gives are in the order of the proposals Alice remembers, and no key has *)
(* a use before his answer (ProcessDataPacket, SendDataPacket, dec_keys).  *)
THEOREM PacketFindsKeysHolds ==
  ASSUME Overlap = FALSE
  PROVE  Spec => []PacketFindsKeys
<1>1. IInv => PacketFindsKeys
  BY FindsOfIInv
<1> QED BY <1>1, Inductive, PTL

-----------------------------------------------------------------------------
(* The kinds of keys.                                                      *)

(* A key is stored, and its proposal remembered, as what it was made for.  *)
Kept(a, made) ==
  /\ \A k \in KeyIds : /\ a.enc[k] > 0 => made[k] = "encryption"
                       /\ k \in a.auth => made[k] = "authentication"
  /\ \A i \in DOMAIN a.proposed : \A k \in a.proposed[i] : a.common[k] = made[k]

(* Where keys of both kinds are asked for, the queue is what is asked for, *)
(* behind the status; where one kind is, nothing else is in either.        *)
Ahead(a) == IF a.asked # <<>> /\ a.asked[1] = "status" THEN 1 ELSE 0

Queued(auth, a) ==
  IF auth
    THEN /\ a.up /\ Len(a.asked) = Len(a.queue) + Ahead(a)
         /\ \A i \in 1 .. Len(a.queue) : a.queue[i] = a.asked[i + Ahead(a)]
    ELSE /\ \A i \in DOMAIN a.queue : a.queue[i] = "encryption"
         /\ \A i \in DOMAIN a.asked : a.asked[i] # "authentication"

(* Both are about what is asked and whether the KMS answers, only.         *)
LEMMA AskingSame ==
  ASSUME NEW a, NEW c, c.asked = a.asked, c.queue = a.queue, c.up = a.up, NEW auth
  PROVE  Asking(c) = Asking(a) /\ Queued(auth, c) = Queued(auth, a)
<1>1. Asking(c) = Asking(a)
  BY DEF Asking
<1>2. Queued(auth, c) = Queued(auth, a)
  BY DEF Queued, Ahead
<1> QED BY <1>1, <1>2

Plain(auth, made) == auth \/ \A k \in KeyIds : made[k] # "authentication"

KInv == Kept(alice, kms.made) /\ Queued(set.auth, alice) /\ Plain(set.auth, kms.made)

LEMMA QueuedAsked ==
  ASSUME NEW a \in Primary, NEW auth \in BOOLEAN, Queued(auth, a), NEW kind \in Kinds,
         auth \/ kind = "encryption", NEW c, c = GetKeysFromKMS(a, kind)
  PROVE  Queued(auth, c)
<1>1. CASE ~a.up /\ Len(a.asked) >= MaxAsked
  <2>1. c = [a EXCEPT !.watch = TRUE]
    BY <1>1 DEF GetKeysFromKMS
  <2>2. c.queue = a.queue /\ c.asked = a.asked /\ c.up = a.up
    BY <2>1 DEF Primary
  <2> QED BY <2>2 DEF Queued, Ahead
<1>2. CASE ~(~a.up /\ Len(a.asked) >= MaxAsked)
  <2>1. a.queue \in Seq(Kinds) /\ a.asked \in Seq(Kinds \cup {"status"}) /\ kind # "status"
        /\ kind \in Kinds \cup {"status"}
    BY DEF Primary, Kinds
  <2>2. PICK n \in Nat, l \in Nat : n = Len(a.queue) /\ l = Len(a.asked)
    BY <2>1
  <2>3. PICK q \in Seq(Kinds) :
          /\ q = Append(a.queue, kind) /\ Len(q) = n + 1 /\ q[n + 1] = kind
          /\ \A i \in 1 .. n : q[i] = a.queue[i]
    <3>1. /\ Append(a.queue, kind) \in Seq(Kinds) /\ Len(Append(a.queue, kind)) = n + 1
          /\ Append(a.queue, kind)[n + 1] = kind
          /\ \A i \in 1 .. n : Append(a.queue, kind)[i] = a.queue[i]
      BY <2>1, <2>2, AppendOf
    <3> QED BY <3>1
  <2>4. PICK s \in Seq(Kinds \cup {"status"}) :
          /\ s = Append(a.asked, kind) /\ Len(s) = l + 1 /\ s[l + 1] = kind /\ s # <<>>
          /\ \A i \in 1 .. l : s[i] = a.asked[i]
    <3>1. /\ Append(a.asked, kind) \in Seq(Kinds \cup {"status"})
          /\ Len(Append(a.asked, kind)) = l + 1 /\ Append(a.asked, kind)[l + 1] = kind
          /\ Append(a.asked, kind) # <<>>
          /\ \A i \in 1 .. l : Append(a.asked, kind)[i] = a.asked[i]
      <4>1. PICK S : S = Kinds \cup {"status"}
        OBVIOUS
      <4>2. a.asked \in Seq(S) /\ kind \in S
        BY <2>1, <4>1
      <4>3. /\ Append(a.asked, kind) \in Seq(S)
            /\ Len(Append(a.asked, kind)) = l + 1 /\ Append(a.asked, kind)[l + 1] = kind
            /\ Append(a.asked, kind) # <<>>
            /\ \A i \in 1 .. l : Append(a.asked, kind)[i] = a.asked[i]
        BY <2>2, <4>2, AppendOf
      <4> QED BY <4>1, <4>3
    <3> QED BY <3>1
  <2>5. c = [a EXCEPT !.queue = q, !.asked = s, !.watch = TRUE]
    BY <1>2, <2>3, <2>4 DEF GetKeysFromKMS
  <2>6. c.queue = q /\ c.asked = s /\ c.up = a.up
    BY <2>5 DEF Primary
  <2>7. DOMAIN q = 1 .. n + 1 /\ DOMAIN s = 1 .. l + 1
    BY <2>3, <2>4
  <2>8. /\ \A i \in 1 .. n + 1 : i \in 1 .. n \/ i = n + 1
        /\ \A i \in 1 .. l + 1 : i \in 1 .. l \/ i = l + 1
    OBVIOUS
  <2>9. CASE auth
    <3>1. PICK d \in {0, 1} : d = Ahead(a)
      BY DEF Ahead
    <3>2. a.up /\ l = n + d /\ \A i \in 1 .. n : a.queue[i] = a.asked[i + d]
      BY <2>2, <2>9, <3>1 DEF Queued
    <3>3. Ahead(c) = d
      <4>1. CASE l = 0
        <5>1. s[1] = kind /\ a.asked = <<>>
          <6>1. l + 1 = 1
            BY <4>1
          <6>2. a.asked = <<>>
            BY <2>1, <2>2, <4>1, EmptySeq
          <6> QED BY <2>4, <6>1, <6>2
        <5> QED BY <2>1, <2>6, <3>1, <5>1 DEF Ahead
      <4>2. CASE l # 0
        <5>1. 1 \in 1 .. l /\ a.asked # <<>>
          BY <2>2, <4>2, EmptySeq
        <5>2. s[1] = a.asked[1]
          BY <2>4, <5>1
        <5> QED BY <2>4, <2>6, <3>1, <5>1, <5>2 DEF Ahead
      <4> QED BY <4>1, <4>2
    <3>4. l + 1 = (n + 1) + d
      BY <3>2
    <3>5. \A i \in 1 .. n + 1 : q[i] = s[i + d]
      <4> SUFFICES ASSUME NEW i \in 1 .. n + 1 PROVE q[i] = s[i + d]
        OBVIOUS
      <4>1. CASE i = n + 1
        <5>1. i + d = l + 1
          BY <3>4, <4>1
        <5> QED BY <2>3, <2>4, <4>1, <5>1
      <4>2. CASE i # n + 1
        <5>1. i \in 1 .. n /\ i + d \in 1 .. l
          BY <3>2, <4>2
        <5> QED BY <2>3, <2>4, <3>2, <5>1
      <4> QED BY <4>1, <4>2
    <3>6. Len(c.asked) = l + 1 /\ Len(c.queue) = n + 1 /\ c.up
      BY <2>3, <2>4, <2>6, <3>2
    <3>7. Len(c.asked) = Len(c.queue) + Ahead(c)
      BY <3>3, <3>4, <3>6
    <3>8. \A i \in 1 .. Len(c.queue) : c.queue[i] = c.asked[i + Ahead(c)]
      BY <2>6, <3>3, <3>5, <3>6
    <3> QED BY <2>9, <3>6, <3>7, <3>8 DEF Queued
  <2>10. CASE ~auth
    <3>1. /\ \A i \in 1 .. n : a.queue[i] = "encryption"
          /\ \A i \in 1 .. l : a.asked[i] # "authentication"
      BY <2>1, <2>2, <2>10 DEF Queued
    <3>2. \A i \in 1 .. n + 1 : q[i] = "encryption"
      BY <2>3, <2>8, <2>10, <3>1
    <3>3. \A i \in 1 .. l + 1 : s[i] # "authentication"
      BY <2>4, <2>8, <2>10, <3>1
    <3> QED BY <2>6, <2>7, <2>10, <3>2, <3>3 DEF Queued
  <2> QED BY <2>9, <2>10
<1> QED BY <1>1, <1>2

LEMMA QueuedManaged ==
  ASSUME NEW a \in Primary, Asking(a), set.auth \in BOOLEAN, Queued(set.auth, a),
         NEW c, c = ManageStores(a)
  PROVE  Queued(set.auth, c)
<1>1. PICK b : b = IF Lacks(a, "encryption") THEN GetKeysFromKMS(a, "encryption") ELSE a
  OBVIOUS
<1>2. PICK e : e = IF Lacks(b, "authentication") THEN GetKeysFromKMS(b, "authentication") ELSE b
  OBVIOUS
<1>3. c = CheckAppState(e)
  BY <1>1, <1>2 DEF ManageStores
<1>4. "encryption" \in Kinds /\ "authentication" \in Kinds
  BY DEF Kinds
<1>5. b \in Primary /\ Asking(b) /\ Queued(set.auth, b)
  <2>1. CASE Lacks(a, "encryption")
    <3>1. b = GetKeysFromKMS(a, "encryption")
      BY <1>1, <2>1
    <3>2. b \in Primary /\ Asking(b)
      BY <1>4, <3>1, KeysAsked
    <3>3. Queued(set.auth, b)
      BY <1>4, <3>1, QueuedAsked
    <3> QED BY <3>2, <3>3
  <2>2. CASE ~Lacks(a, "encryption")
    BY <1>1, <2>2
  <2> QED BY <2>1, <2>2
<1>6. e \in Primary /\ Queued(set.auth, e)
  <2>1. CASE Lacks(b, "authentication")
    <3>1. e = GetKeysFromKMS(b, "authentication") /\ set.auth
      BY <1>2, <2>1 DEF Lacks
    <3>2. e \in Primary
      BY <1>4, <1>5, <3>1, KeysAsked
    <3>3. Queued(set.auth, e)
      BY <1>4, <1>5, <3>1, QueuedAsked
    <3> QED BY <3>2, <3>3
  <2>2. CASE ~Lacks(b, "authentication")
    BY <1>2, <1>5, <2>2
  <2> QED BY <2>1, <2>2
<1>7. c.queue = e.queue /\ c.asked = e.asked /\ c.up = e.up
  <2>1. PICK st : c = [e EXCEPT !.state = st]
    BY <1>3 DEF CheckAppState
  <2> QED BY <1>6, <2>1 DEF Primary
<1> QED BY <1>6, <1>7, ZenonT(60) DEF Queued, Ahead

LEMMA AlikeKinds ==
  ASSUME KInv, set' = set, kms'.made = kms.made, Alike(alice, alice'), Queued(set.auth, alice')
  PROVE  KInv'
<1>1. Kept(alice', kms.made)
  BY DEF KInv, Kept, Alike
<1>2. Kept(alice', kms'.made)
  BY <1>1
<1>3. Queued(set'.auth, alice')
  OBVIOUS
<1>4. Plain(set'.auth, kms'.made)
  BY DEF KInv
<1> QED BY <1>2, <1>3, <1>4 DEF KInv

LEMMA ScheduledLookKinds ==
  ASSUME IInv, KInv, ScheduledLook
  PROVE  KInv'
<1>1. alice \in Primary /\ Asking(alice) /\ set.auth \in BOOLEAN
  BY App014Assumption DEF IInv, Types, Setting
<1>2. PICK a : a = [alice EXCEPT !.look = FALSE]
  OBVIOUS
<1>3. /\ a \in Primary /\ Alike(alice, a) /\ a.asked = alice.asked /\ a.queue = alice.queue
      /\ a.up = alice.up
  BY <1>1, <1>2 DEF Primary, Alike
<1>4. Asking(a)
  BY <1>1, <1>3 DEF Asking
<1>5. Queued(set.auth, a)
  BY <1>3 DEF KInv, Queued, Ahead
<1>6. alice' = ManageStores(a) /\ UNCHANGED <<set, kms>>
  BY <1>2 DEF ScheduledLook
<1>7. Alike(a, alice')
  BY <1>3, <1>4, <1>6, StoresManaged
<1>8. Queued(set.auth, alice')
  BY <1>1, <1>3, <1>4, <1>5, <1>6, QueuedManaged
<1>9. Alike(alice, alice')
  BY <1>3, <1>7 DEF Alike
<1> QED BY <1>6, <1>8, <1>9, AlikeKinds

LEMMA MissKinds ==
  ASSUME IInv, KInv, Miss
  PROVE  KInv'
<1>1. alice \in Primary
  BY DEF IInv, Types
<1>2. alice' = [alice EXCEPT !.look = TRUE] /\ UNCHANGED <<set, kms>>
  BY DEF Miss
<1>3. /\ Alike(alice, alice') /\ alice'.asked = alice.asked /\ alice'.queue = alice.queue
      /\ alice'.up = alice.up
  BY <1>1, <1>2 DEF Primary, Alike
<1>4. Queued(set.auth, alice')
  BY <1>3 DEF KInv, Queued, Ahead
<1> QED BY <1>2, <1>3, <1>4, AlikeKinds

(* The answer to a request of one kind among others of this kind.          *)
LEMMA QueuedRemoved ==
  ASSUME NEW a \in Primary, NEW i \in DOMAIN a.asked, Queued(FALSE, a), NEW c, c = Answered(a, i)
  PROVE  Queued(FALSE, c)
<1>1. PICK l \in Nat : l = Len(a.asked) /\ DOMAIN a.asked = 1 .. l
  BY DEF Primary
<1>2. /\ c.queue = a.queue /\ DOMAIN c.asked = 1 .. l - 1
      /\ \A j \in 1 .. l - 1 : c.asked[j] = IF j < i THEN a.asked[j] ELSE a.asked[j + 1]
  BY <1>1, RequestAnswered
<1>3. \A j \in 1 .. l : a.asked[j] # "authentication"
  BY <1>1 DEF Queued
<1>4. \A j \in 1 .. l - 1 : j \in 1 .. l /\ j + 1 \in 1 .. l
  OBVIOUS
<1>5. \A j \in 1 .. l - 1 : c.asked[j] # "authentication"
  BY <1>2, <1>3, <1>4
<1> QED BY <1>2, <1>5 DEF Queued

LEMMA StatusAnsweredKinds ==
  ASSUME IInv, KInv, StatusAnswered
  PROVE  KInv'
<1>1. /\ alice \in Primary /\ Asking(alice) /\ set.auth \in BOOLEAN /\ Queued(set.auth, alice)
      /\ alice.asked \in Seq(Kinds \cup {"status"}) /\ alice.queue \in Seq(Kinds)
  BY App014Assumption DEF IInv, KInv, Types, Setting, Primary
<1>2. /\ alice.asked # <<>> /\ Head(alice.asked) = "status"
      /\ alice' = ManageStores(Answered(alice, 1)) /\ UNCHANGED <<set, kms>>
  BY DEF StatusAnswered, HeadAsked
<1>3. PICK n \in Nat, l \in Nat : n = Len(alice.queue) /\ l = Len(alice.asked)
  BY <1>1
<1>4. 1 \in 1 .. l /\ DOMAIN alice.asked = 1 .. l /\ alice.asked[1] = "status"
  <2>1. l # 0
    BY <1>1, <1>2, <1>3, EmptySeq
  <2> QED BY <1>1, <1>2, <1>3, <2>1
<1>5. PICK a : a = Answered(alice, 1)
  OBVIOUS
<1>6. /\ a \in Primary /\ Alike(alice, a) /\ a.queue = alice.queue /\ a.up = alice.up
      /\ Len(a.asked) = l - 1 /\ DOMAIN a.asked = 1 .. l - 1
  BY <1>1, <1>3, <1>4, <1>5, RequestAnswered
<1>7. \A j \in 1 .. l - 1 : a.asked[j] = alice.asked[j + 1]
  <2>1. \A j \in 1 .. l - 1 :
          a.asked[j] = IF j < 1 THEN alice.asked[j] ELSE alice.asked[j + 1]
    BY <1>1, <1>3, <1>4, <1>5, RequestAnswered
  <2> QED BY <2>1
<1>8. Asking(a)
  BY <1>1, <1>4, <1>5, AskingKept
<1>9. Queued(set.auth, a)
  <2>1. CASE set.auth
    <3>1. alice.up /\ l = n + 1 /\ \A i \in 1 .. n : alice.queue[i] = alice.asked[i + 1]
      BY <1>1, <1>2, <1>3, <1>4, <2>1 DEF Queued, Ahead
    <3>2. Ahead(a) = 0
      <4> SUFFICES ASSUME a.asked # <<>>, a.asked[1] = "status" PROVE FALSE
        BY DEF Ahead
      <4>1. 1 \in 1 .. l - 1
        <5>1. a.asked \in Seq(Kinds \cup {"status"})
          BY <1>6 DEF Primary
        <5>2. Len(a.asked) # 0
          BY <5>1, EmptySeq
        <5>3. l - 1 # 0
          BY <1>6, <5>2
        <5> QED BY <1>4, <5>3
      <4>2. alice.asked[2] = "status" /\ 2 \in 1 .. l
        BY <1>7, <4>1
      <4> QED BY <1>1, <1>4, <4>2 DEF Asking
    <3>3. n = l - 1 /\ \A i \in 1 .. n : alice.queue[i] = a.asked[i]
      BY <1>7, <3>1
    <3>4. Len(a.asked) = Len(a.queue) + 0
      BY <1>3, <1>6, <3>3
    <3>5. \A i \in 1 .. Len(a.queue) : a.queue[i] = a.asked[i + 0]
      BY <1>3, <1>6, <3>3
    <3> QED BY <1>6, <2>1, <3>1, <3>2, <3>4, <3>5 DEF Queued
  <2>2. CASE ~set.auth
    <3>1. Queued(FALSE, alice)
      BY <1>1, <2>2 DEF Queued
    <3>2. Queued(FALSE, a)
      BY <1>1, <1>4, <1>5, <3>1, QueuedRemoved
    <3> QED BY <2>2, <3>2 DEF Queued
  <2> QED BY <2>1, <2>2
<1>10. alice' = ManageStores(a)
  BY <1>2, <1>5
<1>11. Alike(a, alice')
  BY <1>6, <1>8, <1>10, StoresManaged
<1>12. Queued(set.auth, alice')
  BY <1>1, <1>6, <1>8, <1>9, <1>10, QueuedManaged
<1>13. Alike(alice, alice')
  BY <1>6, <1>11 DEF Alike
<1> QED BY <1>2, <1>12, <1>13, AlikeKinds

(* Where there are faults, one kind of keys is asked for.                  *)
LEMMA EncKeysRefusedKinds ==
  ASSUME IInv, KInv, EncKeysRefused, \A s \in Faulty : ~s.auth
  PROVE  KInv'
<1>1. alice \in Primary /\ Queued(set.auth, alice)
  BY DEF IInv, KInv, Types
<1>2. PICK i \in DOMAIN alice.asked :
        /\ alice' = [Answered(alice, i) EXCEPT !.look = TRUE]
        /\ UNCHANGED <<set, kms>>
  BY DEF EncKeysRefused
<1>3. set.auth = FALSE \/ ~set.auth
  BY DEF EncKeysRefused, Fault
<1>4. Queued(FALSE, alice)
  BY <1>1, <1>3 DEF Queued
<1>5. PICK a : a = Answered(alice, i)
  OBVIOUS
<1>6. a \in Primary /\ Alike(alice, a)
  BY <1>1, <1>5, RequestAnswered
<1>7. Queued(FALSE, a)
  BY <1>1, <1>4, <1>5, QueuedRemoved
<1>8. alice' = [a EXCEPT !.look = TRUE]
  BY <1>2, <1>5
<1>9. Alike(alice, alice') /\ alice'.asked = a.asked /\ alice'.queue = a.queue
  BY <1>6, <1>8 DEF Primary, Alike
<1>10. Queued(set.auth, alice')
  BY <1>3, <1>7, <1>9 DEF Queued
<1> QED BY <1>2, <1>9, <1>10, AlikeKinds

LEMMA KmsRequestTimeoutAliceKinds ==
  ASSUME IInv, KInv, KmsRequestTimeoutAlice
  PROVE  KInv'
<1>1. alice \in Primary /\ Queued(set.auth, alice) /\ set.auth \in BOOLEAN
  BY App014Assumption DEF IInv, KInv, Types, Setting
<1>2. PICK a : a = Reconnected(alice)
  OBVIOUS
<1>3. ~set.auth
  BY <1>1 DEF KmsRequestTimeoutAlice, Silent, Queued
<1>4. /\ a \in Primary /\ Alike(alice, a) /\ a.asked = <<>> /\ a.queue = alice.queue
  <2>1. PICK e \in Seq(Kinds \cup {"status"}) : e = <<>>
    BY EmptySeq
  <2>2. a = [alice EXCEPT !.asked = e, !.up = TRUE, !.watch = FALSE]
    BY <1>2, <2>1 DEF Reconnected
  <2> QED BY <1>1, <2>1, <2>2 DEF Primary, Alike
<1>5. Asking(a)
  <2>1. Len(a.queue) \in Nat
    BY <1>4 DEF Primary
  <2> QED BY <1>4, <2>1 DEF Asking
<1>6. Queued(set.auth, a)
  BY <1>1, <1>3, <1>4 DEF Queued
<1>7. alice' = ManageStores(a) /\ UNCHANGED <<set, kms>>
  BY <1>2 DEF KmsRequestTimeoutAlice
<1>8. Alike(a, alice')
  BY <1>4, <1>5, <1>7, StoresManaged
<1>9. Queued(set.auth, alice')
  BY <1>1, <1>4, <1>5, <1>6, <1>7, QueuedManaged
<1>10. Alike(alice, alice')
  BY <1>4, <1>8 DEF Alike
<1> QED BY <1>7, <1>9, <1>10, AlikeKinds

LEMMA ConnectionSilentAliceKinds ==
  ASSUME IInv, KInv, ConnectionSilentAlice, \A s \in Faulty : ~s.auth
  PROVE  KInv'
<1>1. alice \in Primary /\ Queued(set.auth, alice)
  BY DEF IInv, KInv, Types
<1>2. alice' = [alice EXCEPT !.up = FALSE] /\ UNCHANGED <<set, kms>> /\ ~set.auth
  BY DEF ConnectionSilentAlice, Fault
<1>3. Alike(alice, alice') /\ alice'.asked = alice.asked /\ alice'.queue = alice.queue
  BY <1>1, <1>2 DEF Primary, Alike
<1>4. Queued(set.auth, alice')
  BY <1>1, <1>2, <1>3 DEF Queued
<1> QED BY <1>2, <1>3, <1>4, AlikeKinds

LEMMA SendKinds ==
  ASSUME IInv, KInv, Send
  PROVE  KInv'
<1>1. /\ alice \in Primary /\ Asking(alice) /\ Queued(set.auth, alice) /\ set.auth \in BOOLEAN
      /\ Settled(set.auth, alice) /\ Kept(alice, kms.made) /\ set \in Setting
  BY App014Assumption DEF IInv, KInv, Types, Setting
<1>2. \A kind \in Kinds : ~Lacks(alice, kind)
  BY <1>1 DEF Send, Settled, LacksOf, Lacks
<1>3. EncKeys(alice) # {}
  BY <1>2 DEF Lacks, Kinds
<1>4. PICK k : k = First(EncKeys(alice))
  OBVIOUS
<1>5. PICK t : t = IF set.auth THEN {First(alice.auth)} ELSE {}
  OBVIOUS
<1>6. /\ alice' = ManageStores([alice EXCEPT !.enc[k] = Used(@), !.auth = @ \ t])
      /\ UNCHANGED <<set, kms>>
  BY <1>2, <1>4, <1>5 DEF Send
<1>7. k \in KeyIds /\ alice.enc[k] > 0
  <2>1. EncKeys(alice) \in SUBSET Nat
    BY App014Assumption DEF EncKeys
  <2>2. k \in EncKeys(alice)
    BY <1>3, <1>4, <2>1, FirstOf
  <2> QED BY <2>2 DEF EncKeys
<1>8. PICK en \in [KeyIds -> 0 .. Life] : en = [alice.enc EXCEPT ![k] = Used(alice.enc[k])]
  <2>1. alice.enc[k] \in 0 .. Life
    BY <1>1, <1>7 DEF Primary
  <2>2. Used(alice.enc[k]) \in 0 .. Life
    BY <1>7, <2>1, App014Assumption DEF Used
  <2> QED BY <1>1, <2>2 DEF Primary
<1>9. PICK au \in SUBSET KeyIds : au = alice.auth \ t
  BY <1>1 DEF Primary
<1>10. PICK a : a = [alice EXCEPT !.enc = en, !.auth = au]
  OBVIOUS
<1>11. alice' = ManageStores(a)
  BY <1>1, <1>6, <1>8, <1>9, <1>10 DEF Primary
<1>12. /\ a \in Primary /\ a.enc = en /\ a.auth = au /\ a.common = alice.common
       /\ a.proposed = alice.proposed /\ a.asked = alice.asked /\ a.queue = alice.queue
       /\ a.up = alice.up
  BY <1>1, <1>10 DEF Primary
<1>13. Asking(a) /\ Queued(set.auth, a)
  BY <1>1, <1>12 DEF Asking, Queued, Ahead
<1>14. Alike(a, alice')
  BY <1>11, <1>12, <1>13, StoresManaged
<1>15. Queued(set.auth, alice')
  BY <1>1, <1>11, <1>12, <1>13, QueuedManaged
<1>16. /\ alice'.enc = en /\ alice'.auth = au /\ alice'.common = alice.common
       /\ alice'.proposed = alice.proposed
  BY <1>12, <1>14 DEF Alike
<1>17. \A j \in KeyIds : /\ en[j] > 0 => alice.enc[j] > 0
                         /\ j \in au => j \in alice.auth
  BY <1>1, <1>7, <1>8, <1>9 DEF Primary
<1>18. Kept(alice', kms.made)
  BY <1>1, <1>16, <1>17 DEF Kept
<1> QED BY <1>6, <1>15, <1>18 DEF KInv

(* The kind at the head of the queue is that of the request answered.      *)
LEMMA EncKeysAnsweredKinds ==
  ASSUME IInv, KInv, EncKeysAnswered
  PROVE  KInv'
<1>1. /\ alice \in Primary /\ Asking(alice) /\ Queued(set.auth, alice) /\ set.auth \in BOOLEAN
      /\ Kept(alice, kms.made) /\ Plain(set.auth, kms.made) /\ data \in Seq(Packet)
      /\ Waiting(alice, data, kms.made)
      /\ Holding(set.cipher, alice, bob.store, data, kms.made)
      /\ alice.asked \in Seq(Kinds \cup {"status"}) /\ alice.queue \in Seq(Kinds)
      /\ alice.proposed \in Seq(SUBSET KeyIds)
  BY App014Assumption DEF IInv, KInv, Types, Setting, Primary
<1>2. PICK ids \in SUBSET Fresh :
        /\ kms' = [made |-> [k \in KeyIds |->
                               IF k \in ids THEN Head(alice.asked) ELSE kms.made[k]],
                   kept |-> kms.kept \cup ids]
        /\ LET pop == PopHttpKmsRequest(alice)
           IN alice' = [Answered(alice, 1) EXCEPT
                          !.queue = pop.rest,
                          !.common = [k \in KeyIds |-> IF k \in ids THEN pop.kind ELSE @[k]],
                          !.proposed = Append(@, ids)]
  BY DEF EncKeysAnswered
<1>3. set' = set /\ alice.asked # <<>> /\ Head(alice.asked) \in Kinds
  BY DEF EncKeysAnswered, HeadAsked
<1>4. PICK n \in Nat, l \in Nat : n = Len(alice.queue) /\ l = Len(alice.asked)
  BY <1>1
<1>5. PICK h \in Kinds : h = Head(alice.asked) /\ h = alice.asked[1] /\ h # "status"
  BY <1>1, <1>3 DEF Kinds
<1>6. 1 \in 1 .. l /\ DOMAIN alice.asked = 1 .. l /\ DOMAIN alice.queue = 1 .. n
  <2>1. l # 0
    BY <1>1, <1>3, <1>4, EmptySeq
  <2> QED BY <1>1, <1>4, <2>1
<1>7. l <= n
  <2>1. l <= n + 0
    BY <1>1, <1>4, <1>5 DEF Asking
  <2> QED BY <2>1
<1>8. alice.queue # <<>> /\ 1 \in 1 .. n
  <2>1. 1 \in 1 .. n /\ n # 0
    BY <1>6, <1>7
  <2> QED BY <1>4, <2>1, EmptySeq
<1>9. PICK q \in Seq(Kinds) :
        /\ q = Tail(alice.queue) /\ Len(q) = n - 1 /\ DOMAIN q = 1 .. n - 1
        /\ \A i \in 1 .. n - 1 : q[i] = alice.queue[i + 1]
  <2>1. /\ Tail(alice.queue) \in Seq(Kinds) /\ Len(Tail(alice.queue)) = n - 1
        /\ \A i \in 1 .. n - 1 : Tail(alice.queue)[i] = alice.queue[i + 1]
    BY <1>1, <1>4, <1>8, TailOf
  <2>2. DOMAIN Tail(alice.queue) = 1 .. n - 1
    BY <2>1
  <2> QED BY <2>1, <2>2
<1>10. Head(alice.queue) = alice.queue[1]
  OBVIOUS
<1>11. alice.queue[1] = h
  <2>1. CASE set.auth
    <3>1. Ahead(alice) = 0
      BY <1>5 DEF Ahead
    <3>2. alice.queue[1] = alice.asked[1 + 0]
      BY <1>1, <1>4, <1>8, <2>1, <3>1 DEF Queued
    <3> QED BY <1>5, <3>2
  <2>2. CASE ~set.auth
    <3>1. alice.queue[1] = "encryption" /\ alice.asked[1] # "authentication"
      BY <1>1, <1>6, <1>8, <2>2 DEF Queued
    <3> QED BY <1>5, <3>1 DEF Kinds
  <2> QED BY <2>1, <2>2
<1>12. PICK cm \in [KeyIds -> Kinds \cup {"none"}] :
         cm = [k \in KeyIds |-> IF k \in ids THEN h ELSE alice.common[k]]
  BY <1>1 DEF Primary
<1>13. PICK pr \in Seq(SUBSET KeyIds) : pr = Append(alice.proposed, ids)
  <2>1. ids \in SUBSET KeyIds
    BY DEF Fresh
  <2> QED BY <1>1, <2>1, AppendProperties
<1>14. PICK p \in Nat : p = Len(alice.proposed)
  BY <1>1
<1>15. /\ DOMAIN pr = 1 .. p + 1 /\ DOMAIN alice.proposed = 1 .. p
       /\ pr[p + 1] = ids /\ \A i \in 1 .. p : pr[i] = alice.proposed[i]
  BY <1>1, <1>13, <1>14
<1>16. PICK a : a = Answered(alice, 1)
  OBVIOUS
<1>17. /\ a \in Primary /\ Alike(alice, a) /\ a.queue = alice.queue /\ a.up = alice.up
       /\ Len(a.asked) = l - 1 /\ DOMAIN a.asked = 1 .. l - 1
  BY <1>1, <1>4, <1>6, <1>16, RequestAnswered
<1>18. \A j \in 1 .. l - 1 : a.asked[j] = alice.asked[j + 1]
  <2>1. \A j \in 1 .. l - 1 :
          a.asked[j] = IF j < 1 THEN alice.asked[j] ELSE alice.asked[j + 1]
    BY <1>1, <1>4, <1>6, <1>16, RequestAnswered
  <2> QED BY <2>1
<1>19. alice' = [a EXCEPT !.queue = q, !.common = cm, !.proposed = pr]
  BY <1>2, <1>9, <1>10, <1>11, <1>12, <1>13, <1>16, <1>17 DEF PopHttpKmsRequest, Alike
<1>20. /\ alice'.enc = alice.enc /\ alice'.auth = alice.auth /\ alice'.queue = q
       /\ alice'.asked = a.asked /\ alice'.common = cm /\ alice'.proposed = pr
       /\ alice'.up = alice.up
  BY <1>17, <1>19 DEF Primary, Alike
<1>21. \A k \in KeyIds : kms'.made[k] = IF k \in ids THEN h ELSE kms.made[k]
  BY <1>2, <1>5
<1>22. \A k \in ids : k \in KeyIds /\ kms.made[k] = "none"
  BY DEF Fresh
<1>23. Kept(alice', kms'.made)
  <2>1. ASSUME NEW k \in KeyIds
        PROVE  /\ alice.enc[k] > 0 => kms'.made[k] = "encryption"
               /\ k \in alice.auth => kms'.made[k] = "authentication"
    <3>1. /\ alice.enc[k] > 0 => kms.made[k] = "encryption"
          /\ k \in alice.auth => kms.made[k] = "authentication"
      BY <1>1 DEF Kept
    <3> QED BY <1>21, <1>22, <3>1
  <2>2. ASSUME NEW i \in 1 .. p + 1, NEW k \in pr[i]
        PROVE  cm[k] = kms'.made[k]
    <3>1. CASE i = p + 1
      BY <1>12, <1>15, <1>21, <1>22, <2>2, <3>1
    <3>2. CASE i # p + 1
      <4>1. i \in 1 .. p /\ pr[i] = alice.proposed[i]
        BY <1>15, <3>2
      <4>2. k \in KeyIds /\ kms.made[k] # "none" /\ alice.common[k] = kms.made[k]
        <5>1. alice.proposed[i] \in SUBSET KeyIds
          BY <1>1, <1>15, <4>1
        <5>2. kms.made[k] # "none" /\ alice.common[k] = kms.made[k]
          BY <1>1, <1>15, <2>2, <4>1 DEF Waiting, Kept
        <5> QED BY <2>2, <4>1, <5>1, <5>2
      <4> QED BY <1>12, <1>21, <1>22, <4>2
    <3> QED BY <3>1, <3>2
  <2>3. \A i \in DOMAIN alice'.proposed : \A k \in alice'.proposed[i] :
          alice'.common[k] = kms'.made[k]
    BY <1>15, <1>20, <2>2
  <2> QED BY <1>20, <2>1, <2>3 DEF Kept
<1>24. Queued(set'.auth, alice')
  <2>1. CASE set.auth
    <3>1. Ahead(alice) = 0
      BY <1>5 DEF Ahead
    <3>2. alice.up /\ l = n + 0 /\ \A i \in 1 .. n : alice.queue[i] = alice.asked[i + 0]
      BY <1>1, <1>4, <2>1, <3>1 DEF Queued
    <3>3. \A i \in 1 .. n - 1 : q[i] = a.asked[i]
      BY <1>9, <1>18, <3>2
    <3>4. Ahead(alice') = 0
      <4> SUFFICES ASSUME a.asked # <<>>, a.asked[1] = "status" PROVE FALSE
        BY <1>20 DEF Ahead
      <4>1. 1 \in 1 .. l - 1
        <5>1. a.asked \in Seq(Kinds \cup {"status"})
          BY <1>17 DEF Primary
        <5>2. Len(a.asked) # 0
          BY <5>1, EmptySeq
        <5>3. l - 1 # 0
          BY <1>17, <5>2
        <5> QED BY <1>6, <5>3
      <4>2. alice.asked[2] = "status" /\ 2 \in 1 .. l
        BY <1>18, <4>1
      <4>3. \A j \in 1 .. l : alice.asked[j] = "status" => j = 1
        BY <1>1, <1>6 DEF Asking
      <4> QED BY <4>2, <4>3
    <3>5. l - 1 = n - 1
      BY <3>2
    <3>6. Len(alice'.asked) = Len(alice'.queue) + 0
      BY <1>9, <1>17, <1>20, <3>5
    <3>7. \A i \in 1 .. Len(alice'.queue) : alice'.queue[i] = alice'.asked[i + 0]
      BY <1>9, <1>20, <3>3
    <3> QED BY <1>3, <1>20, <2>1, <3>2, <3>4, <3>6, <3>7 DEF Queued
  <2>2. CASE ~set.auth
    <3>1. \A i \in 1 .. n - 1 : i + 1 \in 1 .. n
      OBVIOUS
    <3>2. \A i \in 1 .. n - 1 : q[i] = "encryption"
      BY <1>1, <1>6, <1>9, <2>2, <3>1 DEF Queued
    <3>3. \A j \in 1 .. l - 1 : j + 1 \in 1 .. l
      OBVIOUS
    <3>4. \A j \in 1 .. l - 1 : a.asked[j] # "authentication"
      BY <1>1, <1>6, <1>18, <2>2, <3>3 DEF Queued
    <3> QED BY <1>3, <1>9, <1>17, <1>20, <2>2, <3>2, <3>4 DEF Queued
  <2> QED BY <2>1, <2>2
<1>25. Plain(set'.auth, kms'.made)
  <2>1. CASE set.auth
    BY <1>3, <2>1 DEF Plain
  <2>2. CASE ~set.auth
    <3>1. h # "authentication"
      BY <1>1, <1>5, <1>6, <2>2 DEF Queued
    <3>2. \A k \in KeyIds : kms.made[k] # "authentication"
      BY <1>1, <2>2 DEF Plain
    <3> QED BY <1>21, <3>1, <3>2 DEF Plain
  <2> QED BY <2>1, <2>2
<1> QED BY <1>23, <1>24, <1>25 DEF KInv

LEMMA ProposalAnsweredKinds ==
  ASSUME IInv, KInv, ProposalAnswered
  PROVE  KInv'
<1>1. /\ alice \in Primary /\ Asking(alice) /\ Queued(set.auth, alice) /\ set.auth \in BOOLEAN
      /\ Kept(alice, kms.made) /\ Plain(set.auth, kms.made) /\ Apart(alice)
      /\ alice.proposed \in Seq(SUBSET KeyIds) /\ set \in Settings
  BY App014Assumption DEF IInv, KInv, Types, Setting, Primary
<1>2. set' = set /\ kms' = kms
  BY DEF ProposalAnswered
<1>3. CASE alice.proposed = <<>>
  <2>1. alice' = alice
    BY <1>3 DEF ProposalAnswered
  <2> QED BY <1>2, <2>1 DEF KInv
<1>4. CASE alice.proposed # <<>>
  <2>1. PICK n \in Nat \ {0} : n = Len(alice.proposed) /\ DOMAIN alice.proposed = 1 .. n
    <3>1. Len(alice.proposed) \in Nat \ {0}
      BY <1>1, <1>4, EmptySeq
    <3> QED BY <1>1, <3>1
  <2>2. PICK ids \in SUBSET KeyIds : ids = Head(alice.proposed) /\ ids = alice.proposed[1]
    BY <1>1, <1>4, <2>1, TailOf
  <2>3. PICK pr \in Seq(SUBSET KeyIds) :
          /\ pr = Tail(alice.proposed) /\ DOMAIN pr = 1 .. n - 1
          /\ \A i \in 1 .. n - 1 : pr[i] = alice.proposed[i + 1]
    <3>1. /\ Tail(alice.proposed) \in Seq(SUBSET KeyIds) /\ Len(Tail(alice.proposed)) = n - 1
          /\ \A i \in 1 .. n - 1 : Tail(alice.proposed)[i] = alice.proposed[i + 1]
      BY <1>1, <1>4, <2>1, TailOf
    <3>2. DOMAIN Tail(alice.proposed) = 1 .. n - 1
      BY <3>1
    <3> QED BY <3>1, <3>2
  <2>4. PICK a : a = [alice EXCEPT !.proposed = pr]
    OBVIOUS
  <2>5. /\ a \in Primary /\ a.proposed = pr /\ a.enc = alice.enc /\ a.auth = alice.auth
        /\ a.common = alice.common /\ a.asked = alice.asked /\ a.queue = alice.queue
        /\ a.up = alice.up
    BY <1>1, <2>4 DEF Primary
  <2>6. alice' = IF Accepted(Head(sig.alice)) THEN CheckAppState(Moved(a, ids))
                 ELSE GetKeysFromKMS(Forgotten(a, ids), KindAgain(a, ids))
    BY <1>4, <2>2, <2>3, <2>4 DEF ProposalAnswered
  <2>7. 1 \in 1 .. n
    OBVIOUS
  <2>8. \A k \in ids : k \in KeyIds /\ alice.common[k] = kms.made[k]
    BY <1>1, <2>1, <2>2, <2>7 DEF Kept
  <2>9. ASSUME NEW i \in 1 .. n - 1, NEW k \in pr[i]
        PROVE  k \in KeyIds /\ k \notin ids /\ alice.common[k] = kms.made[k]
    <3>1. PICK u \in 1 .. n : u = i + 1 /\ u # 1
      OBVIOUS
    <3>2. k \in alice.proposed[u] /\ alice.proposed[u] \in SUBSET KeyIds
      BY <1>1, <2>1, <2>3, <2>9, <3>1
    <3>3. alice.proposed[u] \cap alice.proposed[1] = {}
      BY <1>1, <2>1, <2>7, <3>1 DEF Apart
    <3>4. alice.common[k] = kms.made[k]
      BY <1>1, <2>1, <3>2 DEF Kept
    <3> QED BY <2>2, <3>2, <3>3, <3>4
  <2>10. CASE Accepted(Head(sig.alice))
    <3>1. PICK c : c = Moved(a, ids)
      OBVIOUS
    <3>2. /\ c \in Primary /\ c.proposed = pr /\ c.asked = alice.asked /\ c.queue = alice.queue
      BY <1>1, <2>5, <3>1, KeysMoved
    <3>3. /\ \A k \in KeyIds : c.enc[k] = IF k \in ids /\ alice.common[k] = "encryption"
                                             THEN LifeOf("encryption") ELSE alice.enc[k]
          /\ \A k \in KeyIds : k \in c.auth <=>
               k \in alice.auth \/ (k \in ids /\ alice.common[k] = "authentication")
          /\ \A k \in KeyIds : c.common[k] = IF k \in ids THEN "none" ELSE alice.common[k]
      BY <1>1, <2>5, <3>1, KeysMoved
    <3>4. c.up = alice.up
      BY <2>5, <3>1 DEF Moved, Primary
    <3>5. alice' = CheckAppState(c)
      BY <2>6, <2>10, <3>1
    <3>6. Alike(c, alice') /\ alice'.queue = c.queue /\ alice'.asked = c.asked
      BY <3>2, <3>5, StateChecked
    <3>7. alice'.up = c.up
      <4>1. PICK st : alice' = [c EXCEPT !.state = st]
        BY <3>5 DEF CheckAppState
      <4> QED BY <3>2, <4>1 DEF Primary
    <3>8. /\ alice'.enc = c.enc /\ alice'.auth = c.auth /\ alice'.common = c.common
          /\ alice'.proposed = pr
      BY <3>2, <3>6 DEF Alike
    <3>9. Queued(set'.auth, alice')
      BY <1>1, <1>2, <3>2, <3>4, <3>6, <3>7 DEF Queued, Ahead
    <3>10. ASSUME NEW k \in KeyIds
           PROVE  /\ c.enc[k] > 0 => kms.made[k] = "encryption"
                  /\ k \in c.auth => kms.made[k] = "authentication"
      <4>1. /\ alice.enc[k] > 0 => kms.made[k] = "encryption"
            /\ k \in alice.auth => kms.made[k] = "authentication"
        BY <1>1 DEF Kept
      <4>2. c.enc[k] > 0 => kms.made[k] = "encryption"
        BY <2>8, <3>3, <4>1
      <4>3. k \in c.auth => kms.made[k] = "authentication"
        BY <2>8, <3>3, <4>1
      <4> QED BY <4>2, <4>3
    <3>11. \A i \in 1 .. n - 1 : \A k \in pr[i] : c.common[k] = kms.made[k]
      BY <2>9, <3>3
    <3>12. Kept(alice', kms'.made)
      BY <1>2, <2>3, <3>8, <3>10, <3>11 DEF Kept
    <3> QED BY <1>1, <1>2, <3>9, <3>12 DEF KInv
  <2>11. CASE ~Accepted(Head(sig.alice))
    <3>1. PICK cm \in [KeyIds -> Kinds \cup {"none"}] :
            cm = [k \in KeyIds |-> IF k \in ids THEN "none" ELSE alice.common[k]]
      BY <1>1 DEF Primary
    <3>2. PICK c : c = [a EXCEPT !.common = cm]
      OBVIOUS
    <3>3. c = Forgotten(a, ids)
      BY <2>5, <3>1, <3>2 DEF Forgotten
    <3>4. /\ c \in Primary /\ c.proposed = pr /\ c.enc = alice.enc /\ c.auth = alice.auth
          /\ c.common = cm /\ c.asked = alice.asked /\ c.queue = alice.queue
          /\ c.up = alice.up
      BY <2>5, <3>2 DEF Primary
    <3>5. Asking(c) /\ Queued(set.auth, c)
      BY <1>1, <3>4, AskingSame
    <3>6. PICK kind \in Kinds : kind = KindAgain(a, ids)
      BY DEF KindAgain, Kinds
    <3>7. alice' = GetKeysFromKMS(c, kind)
      BY <2>6, <2>11, <3>3, <3>6
    <3>8. set.auth \/ kind = "encryption"
      <4> SUFFICES ASSUME ~set.auth PROVE kind = "encryption"
        OBVIOUS
      <4>1. \A k \in ids : a.common[k] # "authentication"
        BY <1>1, <2>5, <2>8 DEF Plain
      <4> QED BY <3>6, <4>1 DEF KindAgain
    <3>9. Alike(c, alice')
      BY <3>4, <3>5, <3>7, KeysAsked
    <3>10. Queued(set.auth, alice')
      BY <1>1, <3>4, <3>5, <3>7, <3>8, QueuedAsked
    <3>11. /\ alice'.enc = alice.enc /\ alice'.auth = alice.auth /\ alice'.common = cm
           /\ alice'.proposed = pr
      BY <3>4, <3>9 DEF Alike
    <3>12. \A i \in 1 .. n - 1 : \A k \in pr[i] : cm[k] = kms.made[k]
      BY <2>9, <3>1
    <3>13. Kept(alice', kms'.made)
      BY <1>1, <1>2, <2>3, <3>11, <3>12 DEF Kept
    <3> QED BY <1>1, <1>2, <3>10, <3>13 DEF KInv
  <2> QED BY <2>10, <2>11
<1> QED BY <1>3, <1>4

LEMMA NextKinds ==
  ASSUME IInv, KInv, [Next]_vars, \A s \in Faulty : ~s.auth
  PROVE  KInv'
<1>1. CASE ScheduledLook
  BY <1>1, ScheduledLookKinds
<1>2. CASE Send
  BY <1>2, SendKinds
<1>3. CASE Miss
  BY <1>3, MissKinds
<1>4. CASE StatusAnswered
  BY <1>4, StatusAnsweredKinds
<1>5. CASE EncKeysAnswered
  BY <1>5, EncKeysAnsweredKinds
<1>6. CASE EncKeysRefused
  BY <1>6, EncKeysRefusedKinds
<1>7. CASE KmsRequestTimeoutAlice
  BY <1>7, KmsRequestTimeoutAliceKinds
<1>8. CASE ConnectionSilentAlice
  BY <1>8, ConnectionSilentAliceKinds
<1>9. CASE ProposalAnswered
  BY <1>9, ProposalAnsweredKinds
<1>10. CASE \/ ProposalArrives \/ DecKeysAnswered \/ KmsRequestTimeoutBob \/ ConnectionSilentBob
            \/ DataArrives \/ DataLost \/ UNCHANGED vars
  <2>1. set' = set /\ alice' = alice
    BY <1>10 DEF ProposalArrives, DecKeysAnswered, KmsRequestTimeoutBob, ConnectionSilentBob,
                 DataArrives, DataLost, vars
  <2>2. kms'.made = kms.made
    <3>1. CASE DecKeysAnswered
      BY <3>1 DEF DecKeysAnswered, IInv, Types
    <3>2. CASE ~DecKeysAnswered
      BY <1>10, <3>2 DEF ProposalArrives, KmsRequestTimeoutBob, ConnectionSilentBob,
                         DataArrives, DataLost, vars
    <3> QED BY <3>1, <3>2
  <2> QED BY <2>1, <2>2 DEF KInv
<1> QED BY <1>1, <1>2, <1>3, <1>4, <1>5, <1>6, <1>7, <1>8, <1>9, <1>10 DEF Next

LEMMA InitKinds ==
  ASSUME Init
  PROVE  KInv
<1>1. Len(<<>>) = 0 /\ DOMAIN <<>> = {}
  OBVIOUS
<1>2. Kept(alice, kms.made)
  <2>1. \A k \in KeyIds : alice.enc[k] = 0
    BY DEF Init
  <2>2. DOMAIN alice.proposed = {} /\ alice.auth = {}
    BY <1>1 DEF Init
  <2> QED BY <2>1, <2>2 DEF Kept
<1>3. Queued(set.auth, alice)
  <2>1. alice.up /\ alice.asked = <<"status">> /\ alice.queue = <<>>
    BY DEF Init
  <2>2. Ahead(alice) = 1 /\ Len(alice.asked) = 1 /\ Len(alice.queue) = 0
    BY <1>1, <2>1 DEF Ahead
  <2>3. DOMAIN alice.queue = {} /\ 1 .. 0 = {} /\ \A i \in DOMAIN alice.asked : alice.asked[i] = "status"
    BY <1>1, <2>1
  <2> QED BY <2>1, <2>2, <2>3 DEF Queued
<1>4. Plain(set.auth, kms.made)
  BY DEF Init, Plain
<1> QED BY <1>2, <1>3, <1>4 DEF KInv

(* A key is used as what it was made for, with the size that goes with it: *)
(* the queue of requests maps every answer to the kind it was asked for    *)
(* (PushHttpKmsRequest, PopHttpKmsRequest).  A request that is refused or  *)
(* not answered stays in the queue, and so the two kinds are told apart    *)
(* only where no KMS refuses and no connection falls silent.               *)
THEOREM KindsAgreeHolds ==
  ASSUME Overlap = FALSE, \A s \in Faulty : ~s.auth
  PROVE  Spec => []KindsAgree
<1>1. Init => IInv /\ KInv
  BY InitIInv, InitKinds
<1>2. IInv /\ KInv /\ [Next]_vars => IInv' /\ KInv'
  BY NextIInv, NextKinds
<1>3. IInv /\ KInv => KindsAgree
  BY DEF IInv, Types, Primary, KInv, Kept, KindsAgree, EncKeys
<1> QED BY <1>1, <1>2, <1>3, PTL DEF Spec
=============================================================================
