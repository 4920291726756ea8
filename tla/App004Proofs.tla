---------------------------- MODULE App004Proofs ----------------------------
(***************************************************************************)
(* Proofs about App004 for any queue size, lifetimes, chunks and bounds:   *)
(* the sender never stops, the windows of the two ends keep their size, and*)
(* no key is given up while a packet needs it.  The invariant says where   *)
(* the handshake of the two applications stands, and relates the streams of*)
(* both ends to the packets on the way: their indices run from Bob's first *)
(* key up to Alice's, and for each index Bob has as many uses left as      *)
(* packets on the way and packets Alice can still send.                    *)
(***************************************************************************)
EXTENDS App004, Integers, FiniteSetTheorems, TLAPS

-----------------------------------------------------------------------------
(* The invariant.                                                          *)

Ask == {"open_connect", "get_key"}

Word == {"ksid", "ksid_ok", "queues", "queues_ok"}

Stock == UNION {[D -> Nat] : D \in SUBSET Index}

AppState ==
  [state : State, verified : BOOLEAN, keys : Stock, asked : Seq(Ask), retries : Nat,
   own : BOOLEAN, peer : BOOLEAN, timer : BOOLEAN]

Types ==
  /\ set \in [life : Lives, udp : BOOLEAN]
  /\ app \in [Node -> AppState]
  /\ sig \in [Node -> Seq(Word)]
  /\ data \in Seq(Index)
  /\ kms \in [known : BOOLEAN, filled : [Node -> 0 .. Chunks], next : [Node -> 0 .. Chunks]]
  /\ \A n \in Node : kms.next[n] <= kms.filled[n]

(* A stream holds the chunks from f on that it has been given.             *)
Stream(life, keys, f, next) ==
  /\ f \in 0 .. next /\ keys \in [f .. next - 1 -> 0 .. life]

(* The packets a key is good for: each takes it twice, and a key of which  *)
(* nothing is left is sent with once more.                                 *)
Packets(left) == left \div 2 + 1

(* The indices of the packets on the way, and the next one.                *)
Due(d, f, j) == IF j <= Len(d) THEN d[j] ELSE f

InAir(d, k) == Cardinality({j \in DOMAIN d : d[j] = k})

ToSend(life, keys, f, next, k) ==
  IF k < f THEN 0 ELSE IF k < next THEN Packets(keys[k]) ELSE Packets(life)

UsesLeft(life, keys, next, k) == IF k < next THEN keys[k] ELSE life

(* The stream of Alice from fa on, the packets d, and Bob's stream from fb *)
(* on.  As long as no packet is lost or comes too early the indices leave  *)
(* out none.                                                               *)
Chain(life, ka, fa, na, kb, fb, nb, d, steady) ==
  /\ Stream(life, ka, fa, na) /\ Stream(life, kb, fb, nb)
  /\ \A i \in fb .. nb - 1 : kb[i] > 0
  /\ life % 2 = 1 => \A i \in fa .. na - 1 : ka[i] % 2 = 1
  /\ fb <= Due(d, fa, 1)
  /\ \A i, j \in 1 .. Len(d) + 1 : i <= j => Due(d, fa, i) <= Due(d, fa, j)
  /\ steady => /\ Due(d, fa, 1) <= fb + 1
               /\ \A i \in 1 .. Len(d) : Due(d, fa, i + 1) <= Due(d, fa, i) + 1
  /\ \A k \in Nat : k >= fb => UsesLeft(life, kb, nb, k) >= InAir(d, k) + ToSend(life, ka, fa, na, k)

Steady == seen \cap {"lost", "late"} = {}

Chained ==
  \E fa, fb \in Nat :
    Chain(set.life, app["A"].keys, fa, kms.next["A"], app["B"].keys, fb, kms.next["B"], data, Steady)

Keys(a) == Cardinality(DOMAIN a.keys)

(* An application waits for k keys, and nothing else.                      *)
OnlyKeys(a) == \A i \in DOMAIN a.asked : a.asked[i] = "get_key"

Asks(a, k) == a.retries + Len(a.asked) = k /\ OnlyKeys(a)

(* Before both ends have joined the association.                           *)
Joining(a, b, toA, toB, d) ==
  /\ Keys(a) = 0 /\ Keys(b) = 0 /\ a.retries = 0 /\ b.retries = 0 /\ d = <<>>
  /\ ~a.verified /\ ~a.own /\ ~a.peer
  /\ a.state = "ESTABLISHING_ASSOCIATIONS" /\ b.state # "ESTABLISHING_KEY_QUEUES"
  /\ toA \in {<<>>, <<"ksid_ok">>} /\ (b.verified <=> toA = <<"ksid_ok">>)
  /\ \/ a.asked = <<"open_connect">> /\ b.asked = <<>> /\ toB = <<>> /\ ~b.verified
     \/ a.asked = <<>> /\ b.asked = <<>> /\ toB = <<"ksid">> /\ ~b.verified
     \/ a.asked = <<>> /\ b.asked = <<"open_connect">> /\ toB = <<>> /\ ~b.verified
     \/ a.asked = <<>> /\ b.asked = <<>> /\ toB = <<>>

(* An end that fills its queue asks for one key at a time.                 *)
Fills(a) == Keys(a) < Size /\ Asks(a, 1)
IsFull(a) == Keys(a) = Size /\ Asks(a, 0)

Filling(a, b, toA, toB, d) ==
  /\ a.verified /\ b.verified /\ d = <<>>
  /\ a.state = "ESTABLISHING_KEY_QUEUES" /\ IF a.own THEN IsFull(a) ELSE Fills(a)
  /\ \/ toA = <<>> /\ toB = <<"queues">> /\ Keys(b) = 0 /\ Asks(b, 0) /\ ~a.peer
     \/ toA = <<>> /\ toB = <<>> /\ b.state = "ESTABLISHING_KEY_QUEUES" /\ Fills(b) /\ ~a.peer
     \/ toA = <<"queues_ok">> /\ toB = <<>> /\ b.state = "READY" /\ IsFull(b) /\ ~a.peer
     \/ toA = <<>> /\ toB = <<>> /\ b.state = "READY" /\ IsFull(b) /\ a.peer /\ ~a.own

Width(a) == Keys(a) + a.retries + Len(a.asked)

Sends(life, regular, a, b, toA, toB) ==
  /\ a.state = (IF Keys(a) = 0 THEN "WAIT" ELSE "READY") /\ a.timer
  /\ b.state = "READY" /\ toA = <<>> /\ toB = <<>>
  /\ OnlyKeys(a) /\ OnlyKeys(b)
  /\ IF life % 2 = 0 THEN Width(a) >= Size ELSE Width(a) = Size
  /\ regular => Width(b) = Size

Stage(life, regular, a, b, toA, toB, d) ==
  \/ Joining(a, b, toA, toB, d) \/ Filling(a, b, toA, toB, d)
  \/ Sends(life, regular, a, b, toA, toB)

Handshake == Stage(set.life, Regular, app["A"], app["B"], sig["A"], sig["B"], data)

IInv == Types /\ Chained /\ Handshake

-----------------------------------------------------------------------------
(* Counting packets and keys.                                              *)

LEMMA AirCount ==
  ASSUME NEW d \in Seq(Nat), NEW k \in Nat
  PROVE  /\ IsFiniteSet({j \in DOMAIN d : d[j] = k})
         /\ InAir(d, k) \in Nat
<1>1. IsFiniteSet(1 .. Len(d)) /\ {j \in DOMAIN d : d[j] = k} \subseteq 1 .. Len(d)
  <2>1. 1 \in Int /\ Len(d) \in Int /\ DOMAIN d = 1 .. Len(d)
    OBVIOUS
  <2>2. IsFiniteSet(1 .. Len(d))
    BY <2>1, FS_Interval
  <2> QED BY <2>1, <2>2
<1>2. IsFiniteSet({j \in DOMAIN d : d[j] = k})
  BY <1>1, FS_Subset
<1> QED BY <1>2, FS_CardinalityType DEF InAir

LEMMA AirNone ==
  ASSUME NEW d \in Seq(Nat), NEW k \in Nat, \A j \in DOMAIN d : d[j] # k
  PROVE  InAir(d, k) = 0
<1>1. {j \in DOMAIN d : d[j] = k} = {}
  OBVIOUS
<1> QED BY <1>1, FS_EmptySet DEF InAir

LEMMA AirAppend ==
  ASSUME NEW d \in Seq(Nat), NEW x \in Nat, NEW k \in Nat
  PROVE  InAir(Append(d, x), k) = InAir(d, k) + IF x = k THEN 1 ELSE 0
<1> DEFINE J == {j \in DOMAIN d : d[j] = k}
           n == Len(d) + 1
           K == {j \in DOMAIN Append(d, x) : Append(d, x)[j] = k}
<1>1. K = IF x = k THEN J \cup {n} ELSE J
  OBVIOUS
<1>2. n \notin J
  OBVIOUS
<1>3. IsFiniteSet(J) /\ Cardinality(J) \in Nat
  BY AirCount DEF InAir
<1>4. Cardinality(J \cup {n}) = Cardinality(J) + 1
  BY <1>2, <1>3, FS_AddElement
<1>5. InAir(d, k) = Cardinality(J) /\ InAir(Append(d, x), k) = Cardinality(K)
  BY DEF InAir
<1> HIDE DEF J, K, n
<1> QED BY <1>1, <1>3, <1>4, <1>5

LEMMA AirTail ==
  ASSUME NEW d \in Seq(Nat), d # <<>>, NEW k \in Nat
  PROVE  /\ Tail(d) \in Seq(Nat)
         /\ InAir(d, k) = InAir(Tail(d), k) + IF d[1] = k THEN 1 ELSE 0
<1> DEFINE T == {j \in DOMAIN Tail(d) : Tail(d)[j] = k}
           J == {j \in DOMAIN d : d[j] = k}
           S == {j \in J : j # 1}
           f == [j \in T |-> j + 1]
<1>0. Tail(d) \in Seq(Nat) /\ Len(d) \in Nat \ {0} /\ DOMAIN Tail(d) = 1 .. Len(d) - 1
      /\ \A j \in 1 .. Len(d) - 1 : Tail(d)[j] = d[j + 1]
  OBVIOUS
<1>1. IsFiniteSet(T) /\ IsFiniteSet(J) /\ Cardinality(T) \in Nat /\ Cardinality(J) \in Nat
  BY <1>0, AirCount DEF InAir
<1>2. IsFiniteSet(S)
  BY <1>1, FS_Subset
<1>3. f \in Bijection(T, S)
  <2>1. f \in [T -> S]
    BY <1>0
  <2>2. \A i, j \in T : i # j => f[i] # f[j]
    BY <1>0
  <2>3. \A i \in S : i - 1 \in T /\ f[i - 1] = i
    BY <1>0
  <2> QED BY <2>1, <2>2, <2>3 DEF Bijection, Injection, Surjection, IsInjective
<1>4. Cardinality(S) = Cardinality(T)
  BY <1>1, <1>2, <1>3, FS_Bijection DEF ExistsBijection
<1>. InAir(d, k) = Cardinality(J) /\ InAir(Tail(d), k) = Cardinality(T)
  BY DEF InAir
<1>5. CASE d[1] = k
  <2>1. 1 \in J /\ S = J \ {1}
    BY <1>0, <1>5
  <2>2. Cardinality(S) = Cardinality(J) - 1
    BY <1>1, <2>1, FS_RemoveElement
  <2> HIDE DEF J, T, S, f
  <2> QED BY <1>0, <1>1, <1>4, <1>5, <2>2
<1>6. CASE d[1] # k
  <2>1. S = J
    BY <1>6
  <2> HIDE DEF J, T, S, f
  <2> QED BY <1>0, <1>1, <1>4, <1>6, <2>1
<1> QED BY <1>5, <1>6

LEMMA SpanSize ==
  ASSUME NEW next \in Nat, NEW f \in 0 .. next
  PROVE  Cardinality(f .. next - 1) = next - f
<1>1. Cardinality(f .. next - 1) = IF f > next - 1 THEN 0 ELSE (next - 1) - f + 1
  <2>1. f \in Int /\ next - 1 \in Int
    OBVIOUS
  <2> QED BY <2>1, FS_Interval
<1> QED BY <1>1

LEMMA SpanFirst ==
  ASSUME NEW next \in Nat, NEW f \in 0 .. next, f # next, NEW keys, DOMAIN keys = f .. next - 1
  PROVE  First(keys) = f
<1>1. f \in f .. next - 1 /\ \A y \in f .. next - 1 : f <= y
  OBVIOUS
<1>2. \A x \in f .. next - 1 : (\A y \in f .. next - 1 : x <= y) => x = f
  BY <1>1
<1> QED BY <1>1, <1>2 DEF First, Min

-----------------------------------------------------------------------------
(* The steps of a chain.                                                   *)

LEMMA PacketsOf ==
  ASSUME NEW v \in Nat
  PROVE  /\ Packets(v) \in Nat /\ Packets(v) >= 1
         /\ v <= 1 => Packets(v) = 1
         /\ v >= 2 => Packets(v - 2) = Packets(v) - 1
         /\ v >= 1 => Packets(v) <= v
  BY DEF Packets

LEMMA Demand ==
  ASSUME NEW f \in Nat, NEW next \in Nat, NEW k \in Nat, NEW life \in Nat, NEW keys,
         Stream(life, keys, f, next)
  PROVE  ToSend(life, keys, f, next, k) \in Nat
<1>1. k >= f /\ k < next => keys[k] \in Nat
  BY DEF Stream
<1>2. Packets(life) \in Nat /\ (k >= f /\ k < next => Packets(keys[k]) \in Nat)
  BY <1>1, PacketsOf
<1> QED BY <1>2 DEF ToSend

(* Both streams are empty, and nothing is on the way.                      *)
LEMMA ChainBegins ==
  ASSUME NEW life \in Nat \ {0}, NEW ka, NEW kb, NEW steady,
         ka = NoKeys, kb = NoKeys
  PROVE  Chain(life, ka, 0, 0, kb, 0, 0, <<>>, steady)
<1>1. Stream(life, ka, 0, 0) /\ Stream(life, kb, 0, 0)
  BY DEF Stream, NoKeys
<1>2. \A k \in Nat : UsesLeft(life, kb, 0, k) >= InAir(<<>>, k) + ToSend(life, ka, 0, 0, k)
  <2>1. TAKE k \in Nat
  <2>2. InAir(<<>>, k) = 0
    <3>1. <<>> \in Seq(Nat) /\ DOMAIN <<>> = {}
      OBVIOUS
    <3> QED BY <3>1, AirNone
  <2>3. UsesLeft(life, kb, 0, k) = life /\ ToSend(life, ka, 0, 0, k) = Packets(life)
    BY DEF UsesLeft, ToSend
  <2> QED BY <2>2, <2>3, PacketsOf
<1> QED BY <1>1, <1>2 DEF Chain, Due

(* A stream with one more chunk.                                           *)
Plus(life, keys, i) == [j \in DOMAIN keys \cup {i} |-> IF j \in DOMAIN keys THEN keys[j] ELSE life]

LEMMA Extended ==
  ASSUME NEW life \in Nat, NEW next \in Nat, NEW f \in Nat, NEW keys, Stream(life, keys, f, next),
         NEW k2, k2 = Plus(life, keys, next)
  PROVE  /\ Stream(life, k2, f, next + 1) /\ k2[next] = life
         /\ \A i \in f .. next - 1 : k2[i] = keys[i]
<1>1. f <= next /\ DOMAIN keys = f .. next - 1 /\ \A i \in f .. next - 1 : keys[i] \in 0 .. life
  BY DEF Stream
<1>2. k2 = [i \in DOMAIN keys \cup {next} |-> IF i \in DOMAIN keys THEN keys[i] ELSE life]
  BY DEF Plus
<1>3. DOMAIN keys \cup {next} = f .. (next + 1) - 1 /\ next \notin DOMAIN keys
  BY <1>1
<1> QED BY <1>1, <1>2, <1>3 DEF Stream

(* Alice's next chunk.                                                     *)
LEMMA ChainAtAlice ==
  ASSUME NEW life \in Nat \ {0}, NEW d \in Seq(Nat), NEW steady \in BOOLEAN,
         NEW ka, NEW fa \in Nat, NEW na \in Nat, NEW kb, NEW fb \in Nat, NEW nb \in Nat,
         Chain(life, ka, fa, na, kb, fb, nb, d, steady)
  PROVE  Chain(life, Plus(life, ka, na), fa, na + 1, kb, fb, nb, d, steady)
<1>0. PICK k2 : k2 = Plus(life, ka, na)
  OBVIOUS
<1>1. Stream(life, ka, fa, na)
  BY DEF Chain
<1>2. /\ Stream(life, k2, fa, na + 1) /\ k2[na] = life
      /\ \A i \in fa .. na - 1 : k2[i] = ka[i]
  BY <1>0, <1>1, Extended
<1>3. life % 2 = 1 => \A i \in fa .. (na + 1) - 1 : k2[i] % 2 = 1
  <2>1. SUFFICES ASSUME life % 2 = 1, NEW i \in fa .. (na + 1) - 1 PROVE k2[i] % 2 = 1
    OBVIOUS
  <2>2. i = na \/ i \in fa .. na - 1
    OBVIOUS
  <2>3. i = na => k2[i] % 2 = 1
    BY <1>2, <2>1
  <2>4. i \in fa .. na - 1 => k2[i] % 2 = 1
    BY <1>2, <2>1 DEF Chain
  <2> QED BY <2>2, <2>3, <2>4
<1>4. \A k \in Nat : ToSend(life, k2, fa, na + 1, k) = ToSend(life, ka, fa, na, k)
  BY <1>1, <1>2 DEF ToSend, Stream
<1> QED BY <1>0, <1>2, <1>3, <1>4 DEF Chain

(* Bob's next chunk.                                                       *)
LEMMA ChainAtBob ==
  ASSUME NEW life \in Nat \ {0}, NEW d \in Seq(Nat), NEW steady \in BOOLEAN,
         NEW ka, NEW fa \in Nat, NEW na \in Nat, NEW kb, NEW fb \in Nat, NEW nb \in Nat,
         Chain(life, ka, fa, na, kb, fb, nb, d, steady)
  PROVE  Chain(life, ka, fa, na, Plus(life, kb, nb), fb, nb + 1, d, steady)
<1>0. PICK k2 : k2 = Plus(life, kb, nb)
  OBVIOUS
<1>1. Stream(life, kb, fb, nb)
  BY DEF Chain
<1>2. /\ Stream(life, k2, fb, nb + 1) /\ k2[nb] = life
      /\ \A i \in fb .. nb - 1 : k2[i] = kb[i]
  BY <1>0, <1>1, Extended
<1>3. \A i \in fb .. (nb + 1) - 1 : k2[i] > 0
  <2>1. TAKE i \in fb .. (nb + 1) - 1
  <2>2. i = nb \/ i \in fb .. nb - 1
    OBVIOUS
  <2>3. i \in fb .. nb - 1 => kb[i] > 0
    BY DEF Chain
  <2>4. CASE i = nb
    BY <1>2, <2>4
  <2>5. CASE i # nb
    BY <1>2, <2>2, <2>3, <2>5
  <2> QED BY <2>4, <2>5
<1>4. \A k \in Nat : k >= fb => UsesLeft(life, k2, nb + 1, k) = UsesLeft(life, kb, nb, k)
  BY <1>1, <1>2 DEF UsesLeft, Stream
<1> QED BY <1>0, <1>2, <1>3, <1>4 DEF Chain

(* Alice sends a packet with her first key.                                *)
Spent(keys, f) ==
  IF keys[f] <= 1 THEN [i \in DOMAIN keys \ {f} |-> keys[i]]
  ELSE [keys EXCEPT ![f] = keys[f] - 2]

FirstLeft(keys, f) == IF keys[f] <= 1 THEN f + 1 ELSE f

LEMMA SpentStream ==
  ASSUME NEW life \in Nat, NEW next \in Nat, NEW f \in Nat, NEW keys,
         Stream(life, keys, f, next), f # next
  PROVE  /\ Stream(life, Spent(keys, f), FirstLeft(keys, f), next)
         /\ keys[f] \in Nat /\ f < next
         /\ keys[f] > 1 => Spent(keys, f)[f] = keys[f] - 2
         /\ \A i \in f + 1 .. next - 1 : Spent(keys, f)[i] = keys[i]
<1>1. keys[f] \in 0 .. life /\ f < next /\ DOMAIN keys = f .. next - 1
  BY DEF Stream
<1>2. CASE keys[f] <= 1
  <2>1. Spent(keys, f) = [i \in (f .. next - 1) \ {f} |-> keys[i]] /\ FirstLeft(keys, f) = f + 1
    BY <1>1, <1>2 DEF Spent, FirstLeft
  <2>2. (f .. next - 1) \ {f} = (f + 1) .. next - 1
    BY <1>1
  <2> QED BY <1>1, <1>2, <2>1, <2>2 DEF Stream
<1>3. CASE keys[f] > 1
  <2>1. Spent(keys, f) = [keys EXCEPT ![f] = keys[f] - 2] /\ FirstLeft(keys, f) = f
    BY <1>1, <1>3 DEF Spent, FirstLeft
  <2> QED BY <1>1, <1>3, <2>1 DEF Stream
<1> QED BY <1>1, <1>2, <1>3

LEMMA ChainSent ==
  ASSUME NEW life \in Nat \ {0}, NEW d \in Seq(Nat), NEW steady \in BOOLEAN,
         NEW ka, NEW fa \in Nat, NEW na \in Nat, NEW kb, NEW fb \in Nat, NEW nb \in Nat,
         Chain(life, ka, fa, na, kb, fb, nb, d, steady), fa # na
  PROVE  Chain(life, Spent(ka, fa), FirstLeft(ka, fa), na, kb, fb, nb, Append(d, fa), steady)
<1> DEFINE e == Append(d, fa)
<1>0. PICK k2, f2 : k2 = Spent(ka, fa) /\ f2 = FirstLeft(ka, fa)
  OBVIOUS
<1>1. Stream(life, ka, fa, na) /\ Stream(life, kb, fb, nb)
  BY DEF Chain
<1>2. /\ Stream(life, k2, f2, na) /\ ka[fa] \in Nat /\ fa < na
      /\ ka[fa] > 1 => k2[fa] = ka[fa] - 2
      /\ \A i \in fa + 1 .. na - 1 : k2[i] = ka[i]
  BY <1>0, <1>1, SpentStream
<1>3. f2 = (IF ka[fa] <= 1 THEN fa + 1 ELSE fa) /\ f2 \in Nat /\ fa <= f2 /\ f2 <= fa + 1
  BY <1>0, <1>2 DEF FirstLeft
<1>4. life % 2 = 1 => \A i \in f2 .. na - 1 : k2[i] % 2 = 1
  <2>1. SUFFICES ASSUME life % 2 = 1, NEW i \in f2 .. na - 1 PROVE k2[i] % 2 = 1
    OBVIOUS
  <2>2. ka[i] % 2 = 1
    BY <1>2, <1>3, <2>1 DEF Chain
  <2>3. CASE i = fa
    <3>1. k2[i] = ka[fa] - 2 /\ ka[fa] > 1
      BY <1>2, <1>3, <2>3
    <3> QED BY <1>2, <2>2, <2>3, <3>1
  <2>4. CASE i # fa
    BY <1>2, <1>3, <2>1, <2>2, <2>4
  <2> QED BY <2>3, <2>4
<1>5. /\ e \in Seq(Nat) /\ Len(e) = Len(d) + 1 /\ Len(d) \in Nat
      /\ \A j \in 1 .. Len(d) + 1 : Due(e, f2, j) = Due(d, fa, j)
      /\ Due(e, f2, Len(d) + 2) = f2 /\ Due(d, fa, Len(d) + 1) = fa
  BY DEF Due
<1>6. \A j \in 1 .. Len(d) + 1 : Due(d, fa, j) \in Nat /\ Due(d, fa, j) <= fa
  <2>1. TAKE j \in 1 .. Len(d) + 1
  <2>2. Due(d, fa, j) <= Due(d, fa, Len(d) + 1)
    BY <1>5 DEF Chain
  <2>3. Due(d, fa, j) \in Nat
    BY DEF Due
  <2> QED BY <1>5, <2>2, <2>3
<1>7. \A i, j \in 1 .. Len(e) + 1 : i <= j => Due(e, f2, i) <= Due(e, f2, j)
  <2>1. SUFFICES ASSUME NEW i \in 1 .. Len(d) + 2, NEW j \in 1 .. Len(d) + 2, i <= j
                 PROVE  Due(e, f2, i) <= Due(e, f2, j)
    BY <1>5
  <2>2. CASE j = Len(d) + 2
    <3>1. i = j \/ Due(e, f2, i) <= fa
      <4>1. i = j \/ i \in 1 .. Len(d) + 1
        BY <1>5, <2>2
      <4> QED BY <1>5, <1>6, <4>1
    <3>2. Due(e, f2, j) = f2
      BY <1>5, <2>2
    <3>3. i \in 1 .. Len(d) + 1 => Due(e, f2, i) \in Nat
      BY <1>5, <1>6
    <3> QED BY <1>3, <2>2, <3>1, <3>2, <3>3
  <2>3. CASE j # Len(d) + 2
    <3>1. i \in 1 .. Len(d) + 1 /\ j \in 1 .. Len(d) + 1
      BY <1>5, <2>1, <2>3
    <3>2. Due(d, fa, i) <= Due(d, fa, j)
      BY <2>1, <3>1 DEF Chain
    <3> QED BY <1>5, <3>1, <3>2
  <2> QED BY <2>2, <2>3
<1>8. steady => /\ Due(e, f2, 1) <= fb + 1
                /\ \A i \in 1 .. Len(e) : Due(e, f2, i + 1) <= Due(e, f2, i) + 1
  <2>1. SUFFICES ASSUME steady
                 PROVE  /\ Due(e, f2, 1) <= fb + 1
                        /\ \A i \in 1 .. Len(d) + 1 : Due(e, f2, i + 1) <= Due(e, f2, i) + 1
    BY <1>5
  <2>2. Due(e, f2, 1) <= fb + 1
    BY <1>5, <2>1, SMTT(30) DEF Chain
  <2>3. ASSUME NEW i \in 1 .. Len(d) + 1
        PROVE  Due(e, f2, i + 1) <= Due(e, f2, i) + 1
    <3>1. CASE i = Len(d) + 1
      <4>1. Due(e, f2, i + 1) = f2 /\ Due(e, f2, i) = fa
        BY <1>5, <3>1
      <4> QED BY <1>3, <4>1
    <3>2. CASE i # Len(d) + 1
      <4>1. i \in 1 .. Len(d) /\ i + 1 \in 1 .. Len(d) + 1
        BY <1>5, <3>2
      <4>2. Due(d, fa, i + 1) <= Due(d, fa, i) + 1
        BY <2>1, <4>1 DEF Chain
      <4> QED BY <1>5, <2>3, <4>1, <4>2
    <3> QED BY <3>1, <3>2
  <2> QED BY <2>2, <2>3
<1>9. ASSUME NEW k \in Nat, k >= fb
      PROVE  UsesLeft(life, kb, nb, k) >= InAir(e, k) + ToSend(life, k2, f2, na, k)
  <2>1. InAir(e, k) = InAir(d, k) + (IF fa = k THEN 1 ELSE 0) /\ InAir(d, k) \in Nat
    BY AirAppend, AirCount
  <2>0. Packets(life) \in Nat /\ (k >= fa /\ k < na => ka[k] \in Nat /\ Packets(ka[k]) \in Nat)
    <3>1. k >= fa /\ k < na => ka[k] \in Nat
      BY <1>1 DEF Stream
    <3> QED BY <3>1, PacketsOf
  <2>2. ToSend(life, k2, f2, na, k) + (IF fa = k THEN 1 ELSE 0) = ToSend(life, ka, fa, na, k)
    <3>1. CASE k < fa
      BY <1>3, <3>1 DEF ToSend
    <3>2. CASE k = fa /\ ka[fa] <= 1
      <4>1. ToSend(life, k2, f2, na, k) = 0 /\ ToSend(life, ka, fa, na, k) = Packets(ka[fa])
        BY <1>2, <1>3, <3>2 DEF ToSend
      <4>2. Packets(ka[fa]) = 1
        BY <1>2, <3>2, PacketsOf
      <4> QED BY <3>2, <4>1, <4>2
    <3>3. CASE k = fa /\ ka[fa] > 1
      <4>1. ToSend(life, k2, f2, na, k) = Packets(ka[fa] - 2) /\ ToSend(life, ka, fa, na, k) = Packets(ka[fa])
        BY <1>2, <1>3, <3>3 DEF ToSend
      <4>2. Packets(ka[fa] - 2) = Packets(ka[fa]) - 1 /\ Packets(ka[fa]) \in Nat
        <5>1. PICK v \in Nat : v = ka[fa]
          BY <1>2
        <5>2. v >= 2
          BY <3>3, <5>1
        <5>3. Packets(v - 2) = Packets(v) - 1 /\ Packets(v) \in Nat
          BY <5>2, PacketsOf
        <5> QED BY <5>1, <5>3
      <4> QED BY <3>3, <4>1, <4>2
    <3>4. CASE k > fa
      <4>1. k < na => k2[k] = ka[k] /\ ka[k] \in Nat
        BY <1>1, <1>2, <3>4 DEF Stream
      <4>2. ToSend(life, k2, f2, na, k) = ToSend(life, ka, fa, na, k) /\ ToSend(life, ka, fa, na, k) \in Nat
        BY <1>2, <1>3, <2>0, <3>4, <4>1 DEF ToSend
      <4> QED BY <3>4, <4>2
    <3>5. k < fa \/ (k = fa /\ ka[fa] <= 1) \/ (k = fa /\ ka[fa] > 1) \/ k > fa
      BY <1>2
    <3> QED BY <3>1, <3>2, <3>3, <3>4, <3>5
  <2>3. UsesLeft(life, kb, nb, k) >= InAir(d, k) + ToSend(life, ka, fa, na, k)
    BY <1>9 DEF Chain
  <2>4. ToSend(life, k2, f2, na, k) \in Nat
    <3>1. k >= f2 /\ k < na => k2[k] \in Nat
      BY <1>2 DEF Stream
    <3>2. k >= f2 /\ k < na => Packets(k2[k]) \in Nat
      BY <3>1, PacketsOf
    <3> QED BY <1>3, <2>0, <3>2 DEF ToSend
  <2>5. UsesLeft(life, kb, nb, k) \in Nat
    BY <1>1, <1>9 DEF UsesLeft, Stream
  <2>6. ToSend(life, ka, fa, na, k) \in Nat
    BY <2>0 DEF ToSend
  <2> HIDE DEF e
  <2> QED BY <2>1, <2>2, <2>3, <2>4, <2>5, <2>6
<1>10. fb <= Due(e, f2, 1)
  BY <1>5 DEF Chain
<1> HIDE DEF e
<1> SUFFICES Chain(life, k2, f2, na, kb, fb, nb, e, steady)
  BY <1>0 DEF e
<1> QED BY <1>1, <1>2, <1>4, <1>7, <1>8, <1>9, <1>10 DEF Chain

(* The first packet leaves the chain.                                      *)
LEMMA DueTail ==
  ASSUME NEW d \in Seq(Nat), d # <<>>, NEW f
  PROVE  /\ Tail(d) \in Seq(Nat) /\ Len(Tail(d)) = Len(d) - 1 /\ Len(d) \in Nat \ {0}
         /\ Due(d, f, 1) = d[1] /\ d[1] \in Nat
         /\ \A j \in 1 .. Len(d) : Due(Tail(d), f, j) = Due(d, f, j + 1)
<1>1. /\ Tail(d) \in Seq(Nat) /\ Len(Tail(d)) = Len(d) - 1 /\ Len(d) \in Nat \ {0}
      /\ d[1] \in Nat /\ \A j \in 1 .. Len(d) - 1 : Tail(d)[j] = d[j + 1]
  OBVIOUS
<1> QED BY <1>1 DEF Due

(* What is left of a chain whose first packet is gone, when Bob goes on    *)
(* with the stream k2 from f2 on, and has the uses for what is left.       *)
LEMMA ChainGone ==
  ASSUME NEW life \in Nat \ {0}, NEW d \in Seq(Nat), d # <<>>, NEW steady \in BOOLEAN,
         NEW ka, NEW fa \in Nat, NEW na \in Nat, NEW kb, NEW fb \in Nat, NEW nb \in Nat,
         Chain(life, ka, fa, na, kb, fb, nb, d, steady),
         NEW k2, NEW f2 \in Nat, NEW firm \in BOOLEAN,
         Stream(life, k2, f2, nb), \A i \in f2 .. nb - 1 : k2[i] > 0,
         f2 <= Due(Tail(d), fa, 1),
         firm => steady /\ f2 >= d[1],
         \A k \in Nat : k >= f2 => UsesLeft(life, k2, nb, k) >= InAir(Tail(d), k) + ToSend(life, ka, fa, na, k)
  PROVE  Chain(life, ka, fa, na, k2, f2, nb, Tail(d), firm)
<1>1. /\ Tail(d) \in Seq(Nat) /\ Len(Tail(d)) = Len(d) - 1 /\ Len(d) \in Nat \ {0}
      /\ Due(d, fa, 1) = d[1] /\ d[1] \in Nat
      /\ \A j \in 1 .. Len(d) : Due(Tail(d), fa, j) = Due(d, fa, j + 1)
  BY DueTail
<1> DEFINE t == Tail(d)
<1>2. \A i, j \in 1 .. Len(t) + 1 : i <= j => Due(t, fa, i) <= Due(t, fa, j)
  <2>1. SUFFICES ASSUME NEW i \in 1 .. Len(d), NEW j \in 1 .. Len(d), i <= j
                 PROVE  Due(t, fa, i) <= Due(t, fa, j)
    BY <1>1
  <2>2. i + 1 \in 1 .. Len(d) + 1 /\ j + 1 \in 1 .. Len(d) + 1 /\ i + 1 <= j + 1
    BY <2>1
  <2>3. Due(d, fa, i + 1) <= Due(d, fa, j + 1)
    BY <2>2 DEF Chain
  <2> QED BY <1>1, <2>3
<1>3. firm => /\ Due(t, fa, 1) <= f2 + 1
              /\ \A i \in 1 .. Len(t) : Due(t, fa, i + 1) <= Due(t, fa, i) + 1
  <2>1. SUFFICES ASSUME firm
                 PROVE  /\ Due(t, fa, 1) <= f2 + 1
                        /\ \A i \in 1 .. Len(d) - 1 : Due(t, fa, i + 1) <= Due(t, fa, i) + 1
    BY <1>1
  <2>2. \A i \in 1 .. Len(d) : Due(d, fa, i + 1) <= Due(d, fa, i) + 1
    BY <2>1 DEF Chain
  <2>3. Due(t, fa, 1) <= f2 + 1
    <3>1. Due(d, fa, 2) <= d[1] + 1 /\ Due(t, fa, 1) = Due(d, fa, 2)
      BY <1>1, <2>2
    <3>2. Due(d, fa, 2) \in Nat
      BY DEF Due
    <3> QED BY <1>1, <2>1, <3>1, <3>2
  <2>4. ASSUME NEW i \in 1 .. Len(d) - 1
        PROVE  Due(t, fa, i + 1) <= Due(t, fa, i) + 1
    <3>1. i + 1 \in 1 .. Len(d) /\ i \in 1 .. Len(d)
      OBVIOUS
    <3>2. Due(d, fa, (i + 1) + 1) <= Due(d, fa, i + 1) + 1
      BY <2>2, <3>1
    <3> QED BY <1>1, <3>1, <3>2
  <2> QED BY <2>3, <2>4
<1>4. Stream(life, ka, fa, na) /\ (life % 2 = 1 => \A i \in fa .. na - 1 : ka[i] % 2 = 1)
  BY DEF Chain
<1> QED BY <1>2, <1>3, <1>4 DEF Chain

LEMMA ChainLost ==
  ASSUME NEW life \in Nat \ {0}, NEW d \in Seq(Nat), d # <<>>, NEW steady \in BOOLEAN,
         NEW ka, NEW fa \in Nat, NEW na \in Nat, NEW kb, NEW fb \in Nat, NEW nb \in Nat,
         Chain(life, ka, fa, na, kb, fb, nb, d, steady)
  PROVE  Chain(life, ka, fa, na, kb, fb, nb, Tail(d), FALSE)
<1>1. fb <= Due(Tail(d), fa, 1)
  <2>1. fb <= Due(d, fa, 1) /\ Due(d, fa, 1) <= Due(d, fa, 2)
    BY DueTail, SMTT(30) DEF Chain
  <2>2. Due(Tail(d), fa, 1) = Due(d, fa, 2) /\ Due(d, fa, 1) \in Nat /\ Due(d, fa, 2) \in Nat
    BY DueTail DEF Due
  <2> QED BY <2>1, <2>2
<1>2. ASSUME NEW k \in Nat, k >= fb
      PROVE  UsesLeft(life, kb, nb, k) >= InAir(Tail(d), k) + ToSend(life, ka, fa, na, k)
  <2>1. UsesLeft(life, kb, nb, k) >= InAir(d, k) + ToSend(life, ka, fa, na, k)
    BY <1>2 DEF Chain
  <2>2. InAir(d, k) = InAir(Tail(d), k) + (IF d[1] = k THEN 1 ELSE 0) /\ InAir(Tail(d), k) \in Nat
    BY AirTail, AirCount
  <2>3. UsesLeft(life, kb, nb, k) \in Nat /\ ToSend(life, ka, fa, na, k) \in Nat
    <3>1. Stream(life, ka, fa, na) /\ Stream(life, kb, fb, nb)
      BY DEF Chain
    <3>2. UsesLeft(life, kb, nb, k) \in Nat
      BY <1>2, <3>1 DEF UsesLeft, Stream
    <3>3. ToSend(life, ka, fa, na, k) \in Nat
      BY <3>1, Demand
    <3> QED BY <3>2, <3>3
  <2> QED BY <2>1, <2>2, <2>3
<1>3. Stream(life, kb, fb, nb) /\ \A i \in fb .. nb - 1 : kb[i] > 0
  BY DEF Chain
<1> QED BY <1>1, <1>2, <1>3, ChainGone

(* What Bob makes of a packet.                                             *)
LEMMA Synced ==
  ASSUME NEW life \in Nat, NEW next \in Nat, NEW f \in Nat, NEW keys,
         Stream(life, keys, f, next), NEW i \in Nat, i >= f, NEW f1, f1 = IF i < next THEN i ELSE f
  PROVE  /\ f1 \in Nat /\ Stream(life, SyncStream(keys, i), f1, next)
         /\ \A j \in f1 .. next - 1 : SyncStream(keys, i)[j] = keys[j]
         /\ InSync(keys, i) <=> (f = next \/ f = i)
<1>1. f <= next /\ DOMAIN keys = f .. next - 1 /\ (i \in DOMAIN keys <=> i < next)
      /\ keys \in [f .. next - 1 -> 0 .. life]
  BY DEF Stream
<1>2. CASE i < next
  <2>1. SyncStream(keys, i) = [j \in {j \in f .. next - 1 : j >= i} |-> keys[j]]
    BY <1>1, <1>2 DEF SyncStream, From
  <2>2. {j \in f .. next - 1 : j >= i} = i .. next - 1
    BY <1>1
  <2>3. i \in Nat /\ i \in f .. next - 1 /\ f1 = i /\ f # next
    BY <1>1, <1>2
  <2>4. /\ Stream(life, SyncStream(keys, i), i, next)
        /\ \A j \in i .. next - 1 : SyncStream(keys, i)[j] = keys[j]
    BY <1>1, <2>1, <2>2, <2>3 DEF Stream
  <2>5. First(keys) = f /\ DOMAIN keys # {}
    <3>1. f \in 0 .. next
      BY <1>1
    <3> QED BY <1>1, <2>3, <3>1, SpanFirst
  <2> QED BY <2>3, <2>4, <2>5 DEF InSync
<1>3. CASE ~(i < next)
  <2>1. SyncStream(keys, i) = keys
    BY <1>1, <1>3 DEF SyncStream
  <2>2. InSync(keys, i) <=> (f = next \/ f = i)
    <3>1. f = next => DOMAIN keys = {}
      BY <1>1
    <3>2. f # next => DOMAIN keys # {} /\ First(keys) = f
      <4>1. f \in 0 .. next /\ (f # next => f \in f .. next - 1)
        BY <1>1
      <4> QED BY <1>1, <4>1, SpanFirst
    <3> QED BY <3>1, <3>2 DEF InSync
  <2> QED BY <1>1, <1>3, <2>1, <2>2
<1> QED BY <1>2, <1>3

LEMMA Got ==
  ASSUME NEW life \in Nat, NEW next \in Nat, NEW f \in Nat, NEW keys, Stream(life, keys, f, next),
         f # next, keys[f] > 0, NEW f2, f2 = FirstLeft(keys, f)
  PROVE  /\ f2 \in Nat /\ f2 >= f /\ f2 <= f + 1 /\ Stream(life, GetKey(keys), f2, next)
         /\ keys[f] \in Nat /\ f < next
         /\ f2 = f => keys[f] > 1 /\ GetKey(keys)[f] = keys[f] - 1
         /\ f2 = f + 1 => keys[f] = 1
         /\ \A i \in f + 1 .. next - 1 : GetKey(keys)[i] = keys[i]
<1>1. f < next /\ DOMAIN keys = f .. next - 1 /\ keys[f] \in 0 .. life
      /\ keys \in [f .. next - 1 -> 0 .. life]
  BY DEF Stream
<1>2. First(keys) = f
  BY <1>1, SpanFirst
<1>3. CASE keys[f] = 1
  <2>1. GetKey(keys) = [i \in (f .. next - 1) \ {f} |-> keys[i]] /\ f2 = f + 1
    BY <1>1, <1>2, <1>3 DEF GetKey, UseLifetime, Without, FirstLeft
  <2>2. (f .. next - 1) \ {f} = (f + 1) .. next - 1
    BY <1>1
  <2> QED BY <1>1, <1>3, <2>1, <2>2 DEF Stream
<1>4. CASE keys[f] # 1
  <2>1. GetKey(keys) = [keys EXCEPT ![f] = keys[f] - 1] /\ f2 = f /\ keys[f] > 1
    <3>1. UseLifetime(keys[f]) = keys[f] - 1 /\ keys[f] - 1 # 0 /\ keys[f] > 1
      BY <1>1, <1>4 DEF UseLifetime
    <3>2. GetKey(keys) = [keys EXCEPT ![f] = UseLifetime(keys[f])]
      BY <1>2, <3>1 DEF GetKey
    <3> QED BY <1>1, <3>1, <3>2 DEF FirstLeft
  <2> QED BY <1>1, <1>4, <2>1 DEF Stream
<1> QED BY <1>3, <1>4

(* A packet that arrives.                                                  *)
LEMMA ChainArrives ==
  ASSUME NEW life \in Nat \ {0}, NEW d \in Seq(Nat), d # <<>>, NEW steady \in BOOLEAN,
         NEW ka, NEW fa \in Nat, NEW na \in Nat, NEW kb, NEW fb \in Nat, NEW nb \in Nat,
         Chain(life, ka, fa, na, kb, fb, nb, d, steady),
         NEW keys, keys = SyncStream(kb, d[1]),
         NEW rest, rest = IF DOMAIN keys = {} THEN keys ELSE GetKey(keys)
  PROVE  \E f2 \in Nat :
           /\ Chain(life, ka, fa, na, rest, f2, nb, Tail(d), steady /\ d[1] \in DOMAIN keys)
           /\ steady /\ d[1] \in DOMAIN keys =>
                f2 = fb + (IF InSync(kb, d[1]) THEN 0 ELSE 1)
                        + (IF DOMAIN keys = {} \/ Cardinality(DOMAIN rest) < Cardinality(DOMAIN keys)
                           THEN 1 ELSE 0)
<1> DEFINE i == d[1]
<1>1. i \in Nat /\ fb <= i /\ Due(d, fa, 1) = i
  BY DueTail DEF Chain
<1>2. /\ Stream(life, ka, fa, na) /\ Stream(life, kb, fb, nb)
      /\ \A j \in fb .. nb - 1 : kb[j] > 0
      /\ \A k \in Nat : k >= fb => UsesLeft(life, kb, nb, k) >= InAir(d, k) + ToSend(life, ka, fa, na, k)
  BY DEF Chain
<1>0. PICK f1 : f1 = IF i < nb THEN i ELSE fb
  OBVIOUS
<1>3. /\ f1 \in Nat /\ Stream(life, keys, f1, nb)
      /\ \A j \in f1 .. nb - 1 : keys[j] = kb[j]
      /\ InSync(kb, i) <=> (fb = nb \/ fb = i)
  <2>0. PICK x : x = i
    OBVIOUS
  <2>1. x \in Nat /\ x >= fb /\ Stream(life, kb, fb, nb)
        /\ f1 = (IF x < nb THEN x ELSE fb) /\ life \in Nat
    BY <1>0, <1>1, <1>2, <2>0
  <2>2. /\ f1 \in Nat /\ Stream(life, SyncStream(kb, x), f1, nb)
        /\ \A j \in f1 .. nb - 1 : SyncStream(kb, x)[j] = kb[j]
        /\ InSync(kb, x) <=> (fb = nb \/ fb = x)
    BY <2>1, Synced, SMTT(30)
  <2> QED BY <2>0, <2>2
<1>4. fb <= f1 /\ f1 <= nb /\ DOMAIN keys = f1 .. nb - 1 /\ (i < nb <=> i \in DOMAIN keys)
  <2>1. fb <= nb /\ f1 <= nb /\ DOMAIN keys = f1 .. nb - 1
    BY <1>2, <1>3 DEF Stream
  <2> QED BY <1>0, <1>1, <2>1
<1>5. \A j \in f1 .. nb - 1 : keys[j] > 0
  <2>1. TAKE j \in f1 .. nb - 1
  <2>2. j \in fb .. nb - 1
    BY <1>3, <1>4
  <2> QED BY <1>2, <1>3, <2>2
<1>6. CASE f1 = nb
  <2>1. DOMAIN keys = {} /\ rest = keys /\ fb = nb
    BY <1>0, <1>1, <1>4, <1>6
  <2>2. Chain(life, ka, fa, na, kb, fb, nb, Tail(d), FALSE)
    BY ChainLost
  <2>3. rest = kb
    BY <1>3, <1>2, <1>6, <2>1 DEF Stream
  <2>4. d[1] \notin DOMAIN keys
    BY <2>1
  <2> QED BY <2>2, <2>3, <2>4
<1>7. CASE f1 # nb
  <2>0. PICK f2 : f2 = FirstLeft(keys, f1)
    OBVIOUS
  <2>1. rest = GetKey(keys) /\ keys[f1] > 0
    <3>1. f1 \in f1 .. nb - 1
      BY <1>3, <1>4, <1>7
    <3> QED BY <1>4, <1>5, <1>7, <3>1
  <2>2. /\ f2 \in Nat /\ f2 >= f1 /\ f2 <= f1 + 1 /\ Stream(life, rest, f2, nb)
        /\ keys[f1] \in Nat /\ f1 < nb
        /\ f2 = f1 => keys[f1] > 1 /\ rest[f1] = keys[f1] - 1
        /\ f2 = f1 + 1 => keys[f1] = 1
        /\ \A j \in f1 + 1 .. nb - 1 : rest[j] = keys[j]
    BY <1>3, <1>7, <2>0, <2>1, Got, SMTT(30)
  <2>3. \A j \in f2 .. nb - 1 : rest[j] > 0
    <3>1. TAKE j \in f2 .. nb - 1
    <3>2. CASE j = f1
      BY <2>2, <3>2
    <3>3. CASE j # f1
      <4>1. j \in f1 + 1 .. nb - 1 /\ j \in f1 .. nb - 1
        BY <1>3, <2>2, <3>1, <3>3
      <4> QED BY <1>5, <2>2, <4>1
    <3> QED BY <3>2, <3>3
  <2>4. \A k \in Nat : k >= fb =>
          /\ InAir(d, k) = InAir(Tail(d), k) + (IF i = k THEN 1 ELSE 0)
          /\ InAir(Tail(d), k) \in Nat /\ ToSend(life, ka, fa, na, k) \in Nat
          /\ UsesLeft(life, kb, nb, k) >= InAir(d, k) + ToSend(life, ka, fa, na, k)
    BY <1>2, AirTail, AirCount, Demand
  <2>5. i <= Due(Tail(d), fa, 1) /\ Due(Tail(d), fa, 1) \in Nat
    <3>1. Due(d, fa, 1) <= Due(d, fa, 2) /\ Due(Tail(d), fa, 1) = Due(d, fa, 2)
      BY DueTail DEF Chain
    <3>2. Due(d, fa, 2) \in Nat
      BY DEF Due
    <3> QED BY <1>1, <3>1, <3>2
  <2>6. f1 = fb /\ fb < i => InAir(Tail(d), fb) = 0 /\ ToSend(life, ka, fa, na, fb) = 0
    <3>1. SUFFICES ASSUME fb < i PROVE InAir(Tail(d), fb) = 0 /\ ToSend(life, ka, fa, na, fb) = 0
      OBVIOUS
    <3>2. \A j \in 1 .. Len(d) + 1 : i <= Due(d, fa, j)
      BY <1>1, DueTail DEF Chain
    <3>3. fa >= i
      <4>1. Len(d) \in Nat /\ Due(d, fa, Len(d) + 1) = fa
        BY DEF Due
      <4> QED BY <3>2, <4>1
    <3>4. \A j \in DOMAIN Tail(d) : Tail(d)[j] # fb
      <4>1. TAKE j \in DOMAIN Tail(d)
      <4>2. j \in 1 .. Len(d) /\ Due(Tail(d), fa, j) = Tail(d)[j] /\ j + 1 \in 1 .. Len(d) + 1
        BY DueTail, SMTT(30) DEF Due
      <4>3. Tail(d)[j] = Due(d, fa, j + 1)
        BY <4>2, DueTail
      <4> QED BY <1>1, <3>1, <3>2, <4>2, <4>3, SMTT(30)
    <3>5. Tail(d) \in Seq(Nat)
      BY DueTail
    <3>6. fb < fa
      BY <1>1, <3>1, <3>3
    <3> QED BY <3>4, <3>5, <3>6, AirNone DEF ToSend
  <2>7. UsesLeft(life, kb, nb, f1) = keys[f1]
    BY <1>3, <2>2 DEF UsesLeft
  <2>8. f2 <= Due(Tail(d), fa, 1)
    <3>1. CASE f2 <= i
      BY <2>2, <2>5, <1>1, <3>1
    <3>2. CASE f2 > i
      <4>1. f1 = i /\ f2 = i + 1 /\ keys[i] = 1 /\ i >= fb
        <5>1. f1 = i
          <6>1. CASE i < nb
            BY <1>0, <6>1
          <6>2. CASE ~(i < nb)
            <7>1. f1 = fb /\ f1 < nb /\ f2 <= f1 + 1 /\ nb <= i
              BY <1>0, <1>1, <2>2, <6>2
            <7> QED BY <1>1, <2>2, <3>2, <7>1
          <6> QED BY <6>1, <6>2
        <5>2. f2 = f1 + 1
          BY <1>3, <2>2, <3>2, <5>1
        <5> QED BY <1>1, <2>2, <5>1, <5>2
      <4>2. InAir(Tail(d), i) = 0 /\ ToSend(life, ka, fa, na, i) = 0
        BY <1>1, <2>4, <2>7, <4>1, SMTT(30)
      <4>3. Due(Tail(d), fa, 1) # i
        <5>1. SUFFICES ASSUME Due(Tail(d), fa, 1) = i PROVE FALSE
          OBVIOUS
        <5>2. CASE Tail(d) = <<>>
          <6>1. fa = i
            <7>1. PICK t : t = Tail(d)
              OBVIOUS
            <7>2. Due(t, fa, 1) = i /\ Len(t) = 0
              BY <5>1, <5>2, <7>1
            <7> QED BY <7>2 DEF Due
          <6>2. ToSend(life, ka, fa, na, i) >= 1
            <7>1. i < na => ka[i] \in Nat
              BY <1>2, <6>1 DEF Stream
            <7>2. Packets(life) >= 1 /\ (i < na => Packets(ka[i]) >= 1)
              BY <7>1, PacketsOf
            <7> QED BY <1>1, <6>1, <7>2 DEF ToSend
          <6> QED BY <4>2, <6>2
        <5>3. CASE Tail(d) # <<>>
          <6>1. Tail(d) \in Seq(Nat) /\ Tail(d)[1] = i
            BY <5>1, <5>3, DueTail DEF Due
          <6>2. InAir(Tail(d), i) = InAir(Tail(Tail(d)), i) + 1
                /\ InAir(Tail(Tail(d)), i) \in Nat
            BY <1>1, <5>3, <6>1, AirTail, AirCount
          <6> QED BY <4>2, <6>2
        <5> QED BY <5>2, <5>3
      <4> QED BY <1>1, <2>5, <4>1, <4>3
    <3> QED BY <1>1, <2>2, <3>1, <3>2
  <2>9. \A k \in Nat : k >= f2 =>
          UsesLeft(life, rest, nb, k) >= InAir(Tail(d), k) + ToSend(life, ka, fa, na, k)
    <3>1. SUFFICES ASSUME NEW k \in Nat, k >= f2
                   PROVE  UsesLeft(life, rest, nb, k) >= InAir(Tail(d), k) + ToSend(life, ka, fa, na, k)
      OBVIOUS
    <3>2. k >= fb
      BY <1>3, <1>4, <2>2, <3>1
    <3>3. CASE k = f1
      <4>1. UsesLeft(life, rest, nb, k) = keys[f1] - 1 /\ keys[f1] > 1
        BY <2>2, <3>1, <3>3 DEF UsesLeft
      <4>2. CASE i = f1
        <5>1. InAir(d, k) = InAir(Tail(d), k) + 1 /\ UsesLeft(life, kb, nb, k) = keys[f1]
          BY <2>4, <2>7, <3>2, <3>3, <4>2
        <5>2. /\ UsesLeft(life, kb, nb, k) >= InAir(d, k) + ToSend(life, ka, fa, na, k)
              /\ InAir(Tail(d), k) \in Nat /\ ToSend(life, ka, fa, na, k) \in Nat
          BY <2>4, <3>2
        <5> QED BY <2>2, <4>1, <5>1, <5>2
      <4>3. CASE i # f1
        <5>1. f1 = fb /\ fb < i
          BY <1>0, <1>1, <1>4, <4>3
        <5> QED BY <2>2, <2>6, <3>3, <4>1, <5>1
      <4> QED BY <4>2, <4>3
    <3>4. CASE k # f1
      <4>1. UsesLeft(life, rest, nb, k) = UsesLeft(life, kb, nb, k)
        <5>1. k < nb => k \in f1 + 1 .. nb - 1 /\ k \in f1 .. nb - 1
          BY <1>3, <2>2, <3>1, <3>4
        <5> QED BY <1>3, <2>2, <5>1 DEF UsesLeft
      <4>2. UsesLeft(life, kb, nb, k) \in Nat
        BY <1>2, <3>2 DEF UsesLeft, Stream
      <4>3. InAir(Tail(d), k) <= InAir(d, k) /\ InAir(d, k) \in Nat
        <5>1. PICK x \in {0, 1} : x = IF i = k THEN 1 ELSE 0
          OBVIOUS
        <5>2. InAir(d, k) = InAir(Tail(d), k) + x /\ InAir(Tail(d), k) \in Nat
          BY <2>4, <3>2, <5>1
        <5> QED BY <5>2
      <4>4. /\ UsesLeft(life, kb, nb, k) >= InAir(d, k) + ToSend(life, ka, fa, na, k)
            /\ InAir(Tail(d), k) \in Nat /\ ToSend(life, ka, fa, na, k) \in Nat
        BY <2>4, <3>2
      <4> QED BY <4>1, <4>2, <4>3, <4>4
    <3> QED BY <3>3, <3>4
  <2>10. Chain(life, ka, fa, na, rest, f2, nb, Tail(d), steady /\ i \in DOMAIN keys)
    <3>1. steady /\ i \in DOMAIN keys => steady /\ f2 >= d[1]
      BY <1>0, <1>1, <1>4, <2>2
    <3> QED BY <2>2, <2>3, <2>8, <2>9, <3>1, ChainGone
  <2>11. steady /\ i \in DOMAIN keys =>
           f2 = fb + (IF InSync(kb, i) THEN 0 ELSE 1)
                   + (IF DOMAIN keys = {} \/ Cardinality(DOMAIN rest) < Cardinality(DOMAIN keys)
                      THEN 1 ELSE 0)
    <3>1. SUFFICES ASSUME steady, i \in DOMAIN keys
                   PROVE  f2 = fb + (IF fb = i THEN 0 ELSE 1) + (f2 - f1) 
      <4>1. Cardinality(DOMAIN rest) = nb - f2 /\ Cardinality(DOMAIN keys) = nb - f1
        <5>1. f2 \in 0 .. nb /\ f1 \in 0 .. nb /\ DOMAIN rest = f2 .. nb - 1
          BY <1>3, <1>4, <2>2 DEF Stream
        <5> QED BY <1>4, <5>1, SpanSize
      <4>2. (IF DOMAIN keys = {} \/ Cardinality(DOMAIN rest) < Cardinality(DOMAIN keys)
             THEN 1 ELSE 0) = f2 - f1
        <5>1. DOMAIN keys # {}
          <6>1. f1 \in f1 .. nb - 1
            BY <1>3, <2>2
          <6> QED BY <1>4, <6>1
        <5>2. Cardinality(DOMAIN rest) < Cardinality(DOMAIN keys) <=> f2 = f1 + 1
          BY <1>3, <2>2, <4>1
        <5> QED BY <1>3, <2>2, <5>1, <5>2
      <4>3. i \in DOMAIN keys => fb # nb
        BY <1>1, <1>4
      <4> QED BY <1>3, <4>2, <4>3
    <3>2. i <= fb + 1
      BY <1>1, <3>1 DEF Chain
    <3>3. f1 = i /\ (i = fb \/ i = fb + 1)
      BY <1>0, <1>1, <1>4, <3>1, <3>2
    <3> QED BY <1>1, <2>2, <3>3
  <2> QED BY <2>2, <2>10, <2>11
<1> QED BY <1>6, <1>7

-----------------------------------------------------------------------------
(* The handlers of an application.                                         *)

LEMMA KeysSize ==
  ASSUME NEW life \in Nat, NEW next \in Nat, NEW f \in Nat, NEW a, Stream(life, a.keys, f, next)
  PROVE  /\ Keys(a) = next - f /\ Keys(a) \in Nat /\ f <= next
         /\ DOMAIN a.keys = f .. next - 1
         /\ DOMAIN a.keys = {} <=> f = next
<1>1. f \in 0 .. next /\ DOMAIN a.keys = f .. next - 1
  BY DEF Stream
<1>2. Keys(a) = next - f
  BY <1>1, SpanSize DEF Keys
<1>3. DOMAIN a.keys = {} <=> f = next
  <2>1. f # next => f \in f .. next - 1
    BY <1>1
  <2> QED BY <1>1, <2>1
<1> QED BY <1>1, <1>2, <1>3

LEMMA StreamIsStock ==
  ASSUME NEW life \in Nat, NEW next \in 0 .. Chunks, NEW f \in Nat, NEW keys,
         Stream(life, keys, f, next)
  PROVE  keys \in Stock
<1>1. keys \in [f .. next - 1 -> 0 .. life]
  BY DEF Stream
<1>2. f .. next - 1 \in SUBSET Index /\ keys \in [f .. next - 1 -> Nat]
  BY <1>1, App004Assumption DEF Index
<1> QED BY <1>2 DEF Stock

LEMMA MoreAsked ==
  ASSUME NEW a \in AppState, NEW times \in Nat, NEW c, c = GetKeyFromKMS(a, times)
  PROVE  /\ c \in AppState /\ c.keys = a.keys /\ c.state = a.state /\ c.retries = a.retries
         /\ c.verified = a.verified /\ c.own = a.own /\ c.peer = a.peer /\ c.timer = a.timer
         /\ Len(c.asked) = Len(a.asked) + times
         /\ OnlyKeys(a) => OnlyKeys(c)
<1> DEFINE more == [i \in 1 .. times |-> "get_key"]
<1>1. more \in Seq(Ask) /\ Len(more) = times /\ a.asked \in Seq(Ask)
      /\ \A i \in 1 .. times : more[i] = "get_key"
  BY DEF Ask, AppState
<1>2. c = [a EXCEPT !.asked = a.asked \o more]
  BY DEF GetKeyFromKMS
<1> HIDE DEF more
<1>3. PICK e : e = a.asked \o more
  OBVIOUS
<1>4. e \in Seq(Ask) /\ Len(e) = Len(a.asked) + times
      /\ \A i \in 1 .. Len(e) : e[i] = IF i <= Len(a.asked) THEN a.asked[i] ELSE more[i - Len(a.asked)]
  <2>1. PICK p \in Seq(Ask) : p = a.asked
    BY <1>1
  <2>2. PICK q \in Seq(Ask) : q = more
    BY <1>1
  <2>3. p \o q \in Seq(Ask) /\ Len(p \o q) = Len(p) + Len(q)
        /\ \A i \in 1 .. Len(p) + Len(q) : (p \o q)[i] = IF i <= Len(p) THEN p[i] ELSE q[i - Len(p)]
    OBVIOUS
  <2> QED BY <1>1, <1>3, <2>1, <2>2, <2>3
<1>5. c = [a EXCEPT !.asked = e]
  BY <1>2, <1>3
<1>6. /\ c \in AppState /\ c.keys = a.keys /\ c.state = a.state /\ c.retries = a.retries
      /\ c.verified = a.verified /\ c.own = a.own /\ c.peer = a.peer /\ c.timer = a.timer
      /\ c.asked = e
  BY <1>4, <1>5 DEF AppState
<1>7. ASSUME OnlyKeys(a)
      PROVE  OnlyKeys(c)
  <2>1. \A i \in 1 .. Len(e) : e[i] = "get_key"
    <3>1. TAKE i \in 1 .. Len(e)
    <3>2. CASE i <= Len(a.asked)
      <4>1. i \in DOMAIN a.asked
        BY <1>1, <3>2
      <4> QED BY <1>4, <1>7, <3>2, <4>1 DEF OnlyKeys
    <3>3. CASE ~(i <= Len(a.asked))
      <4>1. i - Len(a.asked) \in 1 .. times
        BY <1>1, <1>4, <3>1, <3>3
      <4> QED BY <1>1, <1>4, <3>3, <4>1
    <3> QED BY <3>2, <3>3
  <2>2. DOMAIN c.asked = 1 .. Len(e)
    BY <1>4, <1>6
  <2> QED BY <1>6, <2>1, <2>2 DEF OnlyKeys
<1> QED BY <1>4, <1>6, <1>7

(* Of these, how many requests wait.                                       *)
LEMMA MoreLength ==
  ASSUME NEW a \in AppState, NEW times \in Nat
  PROVE  Len(GetKeyFromKMS(a, times).asked) = Len(a.asked) + times
<1>1. PICK c : c = GetKeyFromKMS(a, times)
  OBVIOUS
<1>2. Len(c.asked) = Len(a.asked) + times
  BY <1>1, MoreAsked
<1> QED BY <1>1, <1>2

(* Alice sends a packet: the stream goes on as in ChainSent, and the window*)
(* does not shrink.                                                        *)
LEMMA SendEffect ==
  ASSUME NEW life \in Nat, NEW next \in 0 .. Chunks, NEW f \in Nat, NEW a \in AppState,
         Stream(life, a.keys, f, next), f # next, OnlyKeys(a),
         NEW o, o = SendPacket(a)
  PROVE  /\ o.app \in AppState /\ o.sent = <<f>> /\ o.says = <<>>
         /\ o.app.keys = Spent(a.keys, f) /\ o.app.timer
         /\ o.app.state = IF Keys(o.app) = 0 THEN "WAIT" ELSE "READY"
         /\ Width(o.app) \in Nat /\ Width(a) \in Nat
         /\ Width(o.app) >= Width(a)
         /\ a.keys[f] % 2 = 1 => Width(o.app) = Width(a)
         /\ OnlyKeys(o.app)
<1>1. /\ f < next /\ f \in 0 .. next /\ next \in Nat /\ DOMAIN a.keys = f .. next - 1
      /\ a.keys[f] \in Nat /\ a.keys \in [f .. next - 1 -> 0 .. life]
  BY DEF Stream
<1>2. DOMAIN a.keys # {} /\ First(a.keys) = f
  <2>1. f \in f .. next - 1
    BY <1>1
  <2> QED BY <1>1, <2>1, SpanFirst
<1>3. PICK left, keys, v :
        /\ v = a.keys[f] /\ left = UseLifetime(UseLifetime(v))
        /\ keys = IF f \in DOMAIN GetKey(a.keys) THEN [GetKey(a.keys) EXCEPT ![f] = left]
                  ELSE GetKey(a.keys)
  OBVIOUS
<1>4. /\ v \in Nat /\ left \in Nat /\ (v <= 2 => left = 0) /\ (v > 2 => left = v - 2 /\ left > 0)
  BY <1>1, <1>3 DEF UseLifetime
<1>5. keys = Spent(a.keys, f)
  <2>1. CASE v <= 1
    <3>1. UseLifetime(v) = 0
      BY <1>4, <2>1 DEF UseLifetime
    <3>2. GetKey(a.keys) = [j \in DOMAIN a.keys \ {f} |-> a.keys[j]]
      BY <1>2, <1>3, <3>1 DEF GetKey, Without
    <3> QED BY <1>3, <2>1, <3>2 DEF Spent
  <2>2. CASE ~(v <= 1)
    <3>1. UseLifetime(v) # 0 /\ left = v - 2
      BY <1>4, <2>2, <1>3 DEF UseLifetime
    <3>2. GetKey(a.keys) = [a.keys EXCEPT ![f] = UseLifetime(v)]
      BY <1>2, <1>3, <3>1 DEF GetKey
    <3>3. f \in DOMAIN GetKey(a.keys)
      BY <1>1, <3>2
    <3>4. keys = [a.keys EXCEPT ![f] = left]
      BY <1>1, <1>3, <3>2, <3>3
    <3> QED BY <1>3, <2>2, <3>1, <3>4 DEF Spent
  <2> QED BY <2>1, <2>2
<1>6. Stream(life, keys, FirstLeft(a.keys, f), next)
  BY <1>1, <1>5, SpentStream
<1>7. keys \in Stock
  <2>1. FirstLeft(a.keys, f) \in Nat
    BY <1>1 DEF FirstLeft
  <2> QED BY <1>6, <2>1, StreamIsStock
<1>8. PICK b, c, e :
        /\ b = [a EXCEPT !.keys = keys, !.timer = TRUE]
        /\ c = (IF left = 0 THEN GetKeyFromKMS(b, 1) ELSE b)
        /\ e = Rested(c)
  OBVIOUS
<1>9. o.app = e /\ o.sent = <<f>> /\ o.says = <<>>
  <2>1. o = [Quiet(e) EXCEPT !.sent = <<f>>]
    BY <1>2, <1>3, <1>8 DEF SendPacket
  <2> QED BY <2>1 DEF Quiet
<1>10. /\ b \in AppState /\ b.keys = keys /\ b.timer /\ b.retries = a.retries /\ b.asked = a.asked
  BY <1>7, <1>8 DEF AppState
<1>11. OnlyKeys(b) /\ b.retries \in Nat /\ Len(b.asked) \in Nat
  BY <1>10 DEF OnlyKeys, AppState
<1>12. PICK x \in {0, 1} : x = IF left = 0 THEN 1 ELSE 0
  OBVIOUS
<1>13. /\ c \in AppState /\ c.keys = keys /\ c.timer /\ c.retries = a.retries
       /\ Len(c.asked) = Len(a.asked) + x /\ OnlyKeys(c)
  <2>1. CASE left = 0
    <3>1. c = GetKeyFromKMS(b, 1) /\ x = 1
      BY <1>8, <1>12, <2>1
    <3>2. /\ c \in AppState /\ c.keys = b.keys /\ c.retries = b.retries /\ c.timer = b.timer
          /\ Len(c.asked) = Len(b.asked) + 1 /\ (OnlyKeys(b) => OnlyKeys(c))
      <4>1. b \in AppState /\ 1 \in Nat
        BY <1>10
      <4>2. c \in AppState 
        BY <3>1, <4>1, MoreAsked
      <4>3. c.keys = b.keys /\ c.retries = b.retries
        BY <3>1, <4>1, MoreAsked
      <4>4. c.timer = b.timer
        BY <3>1, <4>1, MoreAsked
      <4>5. Len(c.asked) = Len(b.asked) + 1
        BY <3>1, <4>1, MoreAsked
      <4>6. OnlyKeys(b) => OnlyKeys(c)
        BY <3>1, <4>1, MoreAsked
      <4> QED BY <4>2, <4>3, <4>4, <4>5, <4>6
    <3> QED BY <1>10, <1>11, <3>1, <3>2
  <2>2. CASE left # 0
    BY <1>8, <1>10, <1>11, <1>12, <2>2
  <2> QED BY <2>1, <2>2
<1>14. /\ e \in AppState /\ e.keys = keys /\ e.timer /\ e.retries = a.retries /\ e.asked = c.asked
       /\ e.state = IF DOMAIN keys = {} THEN "WAIT" ELSE "READY"
  BY <1>8, <1>13, ZenonT(60) DEF Rested, AppState, State
<1>15. OnlyKeys(e)
  BY <1>13, <1>14 DEF OnlyKeys
<1>16. PICK f2 \in Nat : f2 = FirstLeft(a.keys, f)
  BY <1>1 DEF FirstLeft
<1>17. /\ Keys(e) = next - f2 /\ Keys(e) \in Nat /\ (DOMAIN keys = {} <=> f2 = next)
  BY <1>6, <1>14, <1>16, <1>1, KeysSize, SMTT(30)
<1>18. Keys(a) = next - f
  BY <1>1, KeysSize
<1>19. f2 = IF v <= 1 THEN f + 1 ELSE f
  BY <1>3, <1>16 DEF FirstLeft
<1>20. Width(e) = (next - f2) + a.retries + Len(a.asked) + x /\ Width(a) = (next - f) + a.retries + Len(a.asked)
  BY <1>13, <1>14, <1>17, <1>18, <1>10, <1>11 DEF Width
<1>21. /\ Width(e) \in Nat /\ Width(a) \in Nat /\ Width(e) >= Width(a)
       /\ v % 2 = 1 => Width(e) = Width(a)
  <2>1. PICK n \in Nat : n = a.retries + Len(a.asked)
    BY <1>10, <1>11
  <2>2. Width(e) = (next - f2) + n + x /\ Width(a) = (next - f) + n
    <3>1. PICK r, l \in Nat : r = a.retries /\ l = Len(a.asked)
      BY <1>10, <1>11
    <3>2. /\ Width(e) = (next - f2) + r + l + x /\ Width(a) = (next - f) + r + l /\ n = r + l
      BY <1>20, <2>1, <3>1
    <3> QED BY <1>1, <1>12, <1>16, <3>2
  <2>3. f2 <= next
    BY <1>1, <1>19
  <2>4. v <= 1 => f2 = f + 1 /\ x = 1
    BY <1>4, <1>12, <1>19
  <2>5. v > 1 => f2 = f
    BY <1>4, <1>19
  <2>6. v > 2 => x = 0
    BY <1>4, <1>12
  <2>7. v = 2 => v % 2 = 0
    OBVIOUS
  <2>8. v % 2 = 1 => v <= 1 \/ v > 2
    BY <1>4, <2>7
  <2>9. (next - f2) + n + x \in Nat /\ (next - f) + n \in Nat
    <3>1. next - f2 \in Nat /\ x \in Nat /\ next - f \in Nat
      BY <1>1, <1>12, <1>16, <2>3
    <3> QED BY <2>1, <3>1
  <2>10. (next - f2) + n + x >= (next - f) + n
    BY <1>1, <1>4, <1>12, <2>1, <2>4, <2>5
  <2>11. v <= 1 \/ v > 2 => (next - f2) + n + x = (next - f) + n
    <3>1. next - f \in Nat /\ x \in Int /\ next \in Nat /\ f \in Nat
      BY <1>1, <1>12
    <3>2. CASE v <= 1
      BY <2>1, <2>4, <3>1, <3>2
    <3>3. CASE v > 2
      BY <1>4, <2>1, <2>5, <2>6, <3>1, <3>3
    <3> QED BY <3>2, <3>3
  <2> QED BY <2>2, <2>8, <2>9, <2>10, <2>11
<1> QED BY <1>3, <1>5, <1>9, <1>14, <1>15, <1>17, <1>21

-----------------------------------------------------------------------------
(* What the steps have in common.                                          *)

LEMMA Nodes == Node = {"A", "B"} /\ Peer("A") = "B" /\ Peer("B") = "A"
  BY DEF Node, Peer

LEMMA Here ==
  ASSUME Types
  PROVE  /\ set.life \in Nat \ {0}
         /\ app["A"] \in AppState /\ app["B"] \in AppState
         /\ sig["A"] \in Seq(Word) /\ sig["B"] \in Seq(Word)
         /\ data \in Seq(Index) /\ data \in Seq(Nat)
         /\ kms.next["A"] \in 0 .. Chunks /\ kms.next["B"] \in 0 .. Chunks
         /\ kms.next["A"] \in Nat /\ kms.next["B"] \in Nat
<1>1. set.life \in Nat \ {0}
  BY App004Assumption DEF Types
<1>2. app["A"] \in AppState /\ app["B"] \in AppState /\ sig["A"] \in Seq(Word) /\ sig["B"] \in Seq(Word)
  BY Nodes DEF Types
<1>3. data \in Seq(Index) /\ data \in Seq(Nat)
  <2>1. Index \subseteq Nat
    BY App004Assumption DEF Index
  <2>2. data \in Seq(Index)
    BY DEF Types
  <2>3. data \in [1 .. Len(data) -> Index] /\ Len(data) \in Nat
    BY <2>2
  <2>4. data \in [1 .. Len(data) -> Nat]
    BY <2>1, <2>3
  <2>5. data \in Seq(Nat)
    BY <2>3, <2>4
  <2> QED BY <2>2, <2>5
<1>4. /\ kms.next["A"] \in 0 .. Chunks /\ kms.next["B"] \in 0 .. Chunks
      /\ kms.next["A"] \in Nat /\ kms.next["B"] \in Nat
  BY Nodes, App004Assumption DEF Types
<1> QED BY <1>1, <1>2, <1>3, <1>4

LEMMA EndsEffect ==
  ASSUME Types, NEW n \in Node, NEW o, o.app \in AppState, o.sent \in Seq(Index),
         o.says \in Seq(Word), NEW signals \in [Node -> Seq(Word)], Ends(n, o, signals)
  PROVE  /\ app' \in [Node -> AppState] /\ app'[n] = o.app /\ app'[Peer(n)] = app[Peer(n)]
         /\ sig' \in [Node -> Seq(Word)] /\ sig'[n] = signals[n]
         /\ sig'[Peer(n)] = signals[Peer(n)] \o o.says
         /\ data' \in Seq(Index) /\ data' = data \o o.sent
<1>1. app \in [Node -> AppState] /\ app' = [app EXCEPT ![n] = o.app] /\ Peer(n) \in Node /\ Peer(n) # n
  BY DEF Ends, Types, Peer, Node
<1>2. app' \in [Node -> AppState] /\ app'[n] = o.app /\ app'[Peer(n)] = app[Peer(n)]
  BY <1>1
<1>3. PICK word \in Seq(Word) : word = signals[Peer(n)] \o o.says
  <2>1. PICK p \in Seq(Word), q \in Seq(Word) : p = signals[Peer(n)] /\ q = o.says
    BY <1>1
  <2>2. p \o q \in Seq(Word)
    OBVIOUS
  <2> QED BY <2>1, <2>2
<1>4. sig' = [signals EXCEPT ![Peer(n)] = word]
  BY <1>3 DEF Ends
<1>5. /\ sig' \in [Node -> Seq(Word)] /\ sig'[n] = signals[n] /\ sig'[Peer(n)] = word
  BY <1>1, <1>3, <1>4
<1>6. data' \in Seq(Index) /\ data' = data \o o.sent
  BY DEF Ends, Types
<1> QED BY <1>2, <1>3, <1>5, <1>6

LEMMA ChainWeaker ==
  ASSUME NEW life, NEW ka, NEW fa, NEW na, NEW kb, NEW fb, NEW nb, NEW d, NEW steady, NEW firm,
         Chain(life, ka, fa, na, kb, fb, nb, d, steady), firm => steady
  PROVE  Chain(life, ka, fa, na, kb, fb, nb, d, firm)
  BY DEF Chain

(* A step that leaves the streams and the packets alone.                   *)
LEMMA ChainStays ==
  ASSUME Chained, set' = set, app'["A"].keys = app["A"].keys, app'["B"].keys = app["B"].keys,
         kms'.next = kms.next, data' = data, Steady' => Steady
  PROVE  Chained'
<1>1. PICK fa \in Nat, fb \in Nat :
        Chain(set.life, app["A"].keys, fa, kms.next["A"], app["B"].keys, fb, kms.next["B"], data, Steady)
  BY DEF Chained
<1>2. Chain(set.life, app["A"].keys, fa, kms.next["A"], app["B"].keys, fb, kms.next["B"], data, Steady')
  BY <1>1, ChainWeaker
<1>3. Chain(set'.life, app'["A"].keys, fa, kms'.next["A"], app'["B"].keys, fb, kms'.next["B"], data', Steady')
  BY <1>2
<1> QED BY <1>3 DEF Chained

(* What is at the head of a queue.                                         *)
LEMMA Heads ==
  ASSUME NEW a \in AppState
  PROVE  /\ \A x : a.asked = <<x>> => a.asked # <<>> /\ Head(a.asked) = x /\ Tail(a.asked) = <<>>
         /\ a.asked # <<>> /\ OnlyKeys(a) => Head(a.asked) = "get_key"
         /\ a.asked # <<>> => /\ [a EXCEPT !.asked = Tail(a.asked)] \in AppState
                              /\ Len(Tail(a.asked)) = Len(a.asked) - 1 /\ Len(a.asked) \in Nat \ {0}
                              /\ OnlyKeys(a) => OnlyKeys([a EXCEPT !.asked = Tail(a.asked)])
<1>1. a.asked \in Seq(Ask)
  BY DEF AppState
<1>2. \A x : a.asked = <<x>> => a.asked # <<>> /\ Head(a.asked) = x /\ Tail(a.asked) = <<>>
  OBVIOUS
<1>3. a.asked # <<>> /\ OnlyKeys(a) => Head(a.asked) = "get_key"
  BY <1>1 DEF OnlyKeys
<1>4. ASSUME a.asked # <<>>
      PROVE  /\ [a EXCEPT !.asked = Tail(a.asked)] \in AppState
             /\ Len(Tail(a.asked)) = Len(a.asked) - 1 /\ Len(a.asked) \in Nat \ {0}
             /\ OnlyKeys(a) => OnlyKeys([a EXCEPT !.asked = Tail(a.asked)])
  <2>1. PICK t : t = Tail(a.asked)
    OBVIOUS
  <2>2. t \in Seq(Ask) /\ Len(t) = Len(a.asked) - 1 /\ Len(a.asked) \in Nat \ {0}
        /\ \A i \in 1 .. Len(t) : t[i] = a.asked[i + 1] /\ i + 1 \in DOMAIN a.asked
    BY <1>1, <1>4, <2>1
  <2>3. PICK c : c = [a EXCEPT !.asked = t]
    OBVIOUS
  <2>4. c \in AppState /\ c.asked = t
    BY <2>2, <2>3 DEF AppState
  <2>5. OnlyKeys(a) => OnlyKeys(c)
    BY <2>2, <2>4 DEF OnlyKeys
  <2> QED BY <2>1, <2>2, <2>3, <2>4, <2>5
<1> QED BY <1>2, <1>3, <1>4

(* A handler that sends no packet and leaves the stream alone.             *)
LEMMA TalkEffect ==
  ASSUME Types, Chained, NEW n \in Node, NEW o, o.app \in AppState, o.app.keys = app[n].keys,
         o.sent = <<>>, o.says \in Seq(Word), NEW signals \in [Node -> Seq(Word)],
         Ends(n, o, signals), set' = set, kms' = kms, Steady' => Steady
  PROVE  /\ Types' /\ Chained' /\ data' = data
         /\ app'[n] = o.app /\ app'[Peer(n)] = app[Peer(n)]
         /\ sig'[n] = signals[n] /\ sig'[Peer(n)] = signals[Peer(n)] \o o.says
<1>1. o.sent \in Seq(Index)
  OBVIOUS
<1>2. /\ app' \in [Node -> AppState] /\ app'[n] = o.app /\ app'[Peer(n)] = app[Peer(n)]
      /\ sig' \in [Node -> Seq(Word)] /\ sig'[n] = signals[n]
      /\ sig'[Peer(n)] = signals[Peer(n)] \o o.says
      /\ data' \in Seq(Index) /\ data' = data \o o.sent
  BY <1>1, EndsEffect
<1>3. data' = data
  <2>1. data \in Seq(Index)
    BY DEF Types
  <2> QED BY <1>2, <2>1
<1>4. Types'
  BY <1>2 DEF Types
<1>5. app'["A"].keys = app["A"].keys /\ app'["B"].keys = app["B"].keys
  BY <1>2, Nodes
<1>6. Chained'
  BY <1>3, <1>5, ChainStays
<1> QED BY <1>2, <1>3, <1>4, <1>6

LEMMA TalkOfAlice ==
  ASSUME Types, Chained, NEW o, o.app \in AppState, o.app.keys = app["A"].keys,
         o.sent = <<>>, o.says \in Seq(Word), NEW signals \in [Node -> Seq(Word)],
         Ends("A", o, signals), set' = set, kms' = kms, Steady' => Steady
  PROVE  /\ Types' /\ Chained' /\ data' = data
         /\ app'["A"] = o.app /\ app'["B"] = app["B"]
         /\ sig'["A"] = signals["A"] /\ sig'["B"] = signals["B"] \o o.says
<1>1. "A" \in Node /\ Peer("A") = "B"
  BY Nodes
<1>2. Types' /\ Chained' /\ data' = data
  BY <1>1, TalkEffect
<1>3. app'["A"] = o.app /\ app'[Peer("A")] = app[Peer("A")]
  BY <1>1, TalkEffect
<1>4. sig'["A"] = signals["A"] /\ sig'[Peer("A")] = signals[Peer("A")] \o o.says
  BY <1>1, TalkEffect
<1> QED BY <1>1, <1>2, <1>3, <1>4

LEMMA TalkOfBob ==
  ASSUME Types, Chained, NEW o, o.app \in AppState, o.app.keys = app["B"].keys,
         o.sent = <<>>, o.says \in Seq(Word), NEW signals \in [Node -> Seq(Word)],
         Ends("B", o, signals), set' = set, kms' = kms, Steady' => Steady
  PROVE  /\ Types' /\ Chained' /\ data' = data
         /\ app'["B"] = o.app /\ app'["A"] = app["A"]
         /\ sig'["B"] = signals["B"] /\ sig'["A"] = signals["A"] \o o.says
<1>1. "B" \in Node /\ Peer("B") = "A"
  BY Nodes
<1>2. Types' /\ Chained' /\ data' = data
  BY <1>1, TalkEffect
<1>3. app'["B"] = o.app /\ app'[Peer("B")] = app[Peer("B")]
  BY <1>1, TalkEffect
<1>4. sig'["B"] = signals["B"] /\ sig'[Peer("B")] = signals[Peer("B")] \o o.says
  BY <1>1, TalkEffect
<1> QED BY <1>1, <1>2, <1>3, <1>4

LEMMA HeardType ==
  ASSUME Types, NEW n \in Node, sig[n] # <<>>
  PROVE  /\ Heard(n) \in [Node -> Seq(Word)] /\ Heard(n)[n] = Tail(sig[n])
         /\ Heard(n)[Peer(n)] = sig[Peer(n)]
<1>1. PICK t : t = Tail(sig[n])
  OBVIOUS
<1>2. t \in Seq(Word) /\ sig \in [Node -> Seq(Word)] /\ Heard(n) = [sig EXCEPT ![n] = t]
  BY <1>1 DEF Types, Heard
<1>3. Peer(n) \in Node /\ Peer(n) # n
  BY DEF Peer, Node
<1> QED BY <1>1, <1>2, <1>3

(* The handshake, step by step.                                            *)
LEMMA StepAssociationOpened ==
  ASSUME IInv, AssociationOpened
  PROVE  IInv'
<1> DEFINE a == app["A"]
           a2 == [a EXCEPT !.asked = Tail(a.asked)]
           o == [Quiet(a2) EXCEPT !.says = <<"ksid">>]
<1>1. Types /\ Chained /\ Handshake /\ a.asked # <<>> /\ Head(a.asked) = "open_connect"
  BY DEF IInv, AssociationOpened, HeadAsked
<1>2. a \in AppState /\ Keys(a) = Keys(a2)
  BY <1>1, Here DEF AppState, Keys
<1>3. a2 \in AppState /\ ~OnlyKeys(a)
  BY <1>1, <1>2, Heads
<1>4. /\ Joining(a, app["B"], sig["A"], sig["B"], data)
      /\ a.asked = <<"open_connect">> /\ sig["B"] = <<>> /\ app["B"].asked = <<>> /\ ~app["B"].verified
  BY <1>1, <1>3 DEF Handshake, Stage, Joining, Filling, Sends, IsFull, Fills, Asks
<1>5. o.app = a2 /\ o.sent = <<>> /\ o.says = <<"ksid">>
  BY DEF Quiet
<1>6. Ends("A", o, sig) /\ set' = set /\ kms' = kms /\ seen' = seen
  BY DEF AssociationOpened, Answered
<1>7. a2.keys = a.keys /\ a2.asked = <<>> /\ a2.state = a.state /\ a2.retries = a.retries
      /\ a2.verified = a.verified /\ a2.own = a.own /\ a2.peer = a.peer
  BY <1>2, <1>4 DEF AppState
<1> HIDE DEF a2, o
<1>8. /\ Types' /\ Chained' /\ data' = data
      /\ app'["A"] = a2 /\ app'["B"] = app["B"]
      /\ sig'["A"] = sig["A"] /\ sig'["B"] = sig["B"] \o <<"ksid">>
  <2>1. o.app \in AppState /\ o.says \in Seq(Word) /\ "A" \in Node
    BY <1>3, <1>5, Nodes DEF Word
  <2>2. sig \in [Node -> Seq(Word)] /\ (Steady' => Steady)
    BY <1>1, <1>6 DEF Types, Steady
  <2>3. o.app.keys = app["A"].keys /\ o.sent = <<>> /\ Ends("A", o, sig)
    BY <1>5, <1>6, <1>7
  <2>4. Types' /\ Chained' /\ data' = data
    BY <1>1, <1>6, <2>1, <2>2, <2>3, TalkOfAlice
  <2>5. app'["A"] = o.app /\ app'["B"] = app["B"]
    BY <1>1, <1>6, <2>1, <2>2, <2>3, TalkOfAlice
  <2>6. sig'["A"] = sig["A"] /\ sig'["B"] = sig["B"] \o o.says
    BY <1>1, <1>6, <2>1, <2>2, <2>3, TalkOfAlice
  <2> QED BY <1>5, <2>4, <2>5, <2>6
<1>9. sig'["B"] = <<"ksid">>
  BY <1>4, <1>8
<1>10. Joining(a2, app["B"], sig["A"], <<"ksid">>, data)
  BY <1>2, <1>4, <1>7 DEF Joining
<1> QED BY <1>8, <1>9, <1>10 DEF IInv, Handshake, Stage

LEMMA StepAssociationJoined ==
  ASSUME IInv, AssociationJoined
  PROVE  IInv'
<1> DEFINE b == app["B"]
           b2 == [b EXCEPT !.asked = Tail(b.asked)]
           b3 == IF kms.known THEN [b2 EXCEPT !.verified = TRUE] ELSE b2
           w == IF kms.known THEN <<"ksid_ok">> ELSE <<>>
<1>1. Types /\ Chained /\ Handshake /\ b.asked # <<>> /\ Head(b.asked) = "open_connect"
  BY DEF IInv, AssociationJoined, HeadAsked
<1>2. b \in AppState
  BY <1>1, Here
<1>3. b2 \in AppState /\ ~OnlyKeys(b)
  BY <1>1, <1>2, Heads
<1>4. /\ Joining(app["A"], b, sig["A"], sig["B"], data)
      /\ app["A"].asked = <<>> /\ b.asked = <<"open_connect">> /\ sig["B"] = <<>> /\ ~b.verified
      /\ sig["A"] = <<>>
  BY <1>1, <1>3 DEF Handshake, Stage, Joining, Filling, Sends, IsFull, Fills, Asks, OnlyKeys
<1>5. PICK o : o = IF kms.known THEN [Quiet(b3) EXCEPT !.says = <<"ksid_ok">>] ELSE Quiet(b3)
  OBVIOUS
<1>6. o.app = b3 /\ o.sent = <<>> /\ o.says = w
  BY <1>5 DEF Quiet
<1>7. Ends("B", o, sig) /\ set' = set /\ kms' = kms /\ (Steady' => Steady)
  BY <1>5 DEF AssociationJoined, Answered, Steady
<1>8. b3 \in AppState /\ b3.keys = b.keys /\ b3.asked = <<>> /\ b3.state = b.state
      /\ b3.retries = b.retries /\ (b3.verified <=> kms.known)
  <2>1. b2.asked = <<>> /\ b2.keys = b.keys /\ b2.state = b.state /\ b2.retries = b.retries
        /\ ~b2.verified
    BY <1>2, <1>4 DEF AppState
  <2> HIDE DEF b2
  <2>2. CASE kms.known
    <3>1. b3 = [b2 EXCEPT !.verified = TRUE]
      BY <2>2
    <3> HIDE DEF b3
    <3> QED BY <1>3, <2>1, <2>2, <3>1 DEF AppState
  <2>3. CASE ~kms.known
    <3>1. b3 = b2
      BY <2>3
    <3> HIDE DEF b3
    <3> QED BY <1>3, <2>1, <2>3, <3>1
  <2> QED BY <2>2, <2>3
<1>9. Keys(b3) = Keys(b)
  BY <1>8 DEF Keys
<1>10. w \in Seq(Word) /\ w \in {<<>>, <<"ksid_ok">>} /\ (kms.known <=> w = <<"ksid_ok">>)
  <2>1. <<"ksid_ok">> \in Seq(Word) /\ <<>> \in Seq(Word) /\ <<"ksid_ok">> # <<>>
    BY DEF Word
  <2>2. CASE kms.known
    BY <2>1, <2>2
  <2>3. CASE ~kms.known
    BY <2>1, <2>3
  <2> QED BY <2>2, <2>3
<1> HIDE DEF b3, w
<1>11. sig \in [Node -> Seq(Word)]
  BY <1>1 DEF Types
<1>12. Types' /\ Chained' /\ data' = data
  BY <1>1, <1>6, <1>7, <1>8, <1>10, <1>11, TalkOfBob
<1>13. app'["B"] = b3 /\ app'["A"] = app["A"]
  BY <1>1, <1>6, <1>7, <1>8, <1>10, <1>11, TalkOfBob
<1>14. sig'["B"] = <<>> /\ sig'["A"] = w
  <2>1. sig'["B"] = sig["B"] /\ sig'["A"] = sig["A"] \o w
    BY <1>1, <1>6, <1>7, <1>8, <1>10, <1>11, TalkOfBob
  <2> QED BY <1>4, <1>10, <2>1
<1>15. Joining(app["A"], b3, w, <<>>, data)
  BY <1>4, <1>8, <1>9, <1>10 DEF Joining
<1> QED BY <1>12, <1>13, <1>14, <1>15 DEF IInv, Handshake, Stage

LEMMA StepKsidArrives ==
  ASSUME IInv, KsidArrives
  PROVE  IInv'
<1> DEFINE b == app["B"]
           b2 == [b EXCEPT !.state = "ESTABLISHING_ASSOCIATIONS",
                           !.asked = Append(b.asked, "open_connect")]
<1>1. Types /\ Chained /\ Handshake /\ sig["B"] # <<>> /\ Head(sig["B"]) = "ksid"
  BY DEF IInv, KsidArrives, Told
<1>2. b \in AppState
  BY <1>1, Here
<1>3. /\ Joining(app["A"], b, sig["A"], sig["B"], data)
      /\ app["A"].asked = <<>> /\ b.asked = <<>> /\ sig["B"] = <<"ksid">> /\ ~b.verified
  BY <1>1 DEF Handshake, Stage, Joining, Filling, Sends
<1>4. PICK o : o = Quiet(b2)
  OBVIOUS
<1>5. o.app = b2 /\ o.sent = <<>> /\ o.says = <<>>
  BY <1>4 DEF Quiet
<1>6. Ends("B", o, Heard("B")) /\ set' = set /\ kms' = kms /\ (Steady' => Steady)
  BY <1>4 DEF KsidArrives, Steady
<1>7. b2 \in AppState /\ b2.keys = b.keys /\ b2.asked = <<"open_connect">>
      /\ b2.state = "ESTABLISHING_ASSOCIATIONS"
      /\ b2.retries = b.retries /\ b2.verified = b.verified
  <2>1. Append(b.asked, "open_connect") = <<"open_connect">> /\ <<"open_connect">> \in Seq(Ask)
    BY <1>3 DEF Ask
  <2> QED BY <1>2, <2>1 DEF AppState, State
<1>8. Keys(b2) = Keys(b)
  BY <1>7 DEF Keys
<1> HIDE DEF b2
<1>9. Heard("B") \in [Node -> Seq(Word)] /\ Heard("B")["B"] = <<>> /\ Heard("B")["A"] = sig["A"]
  <2>1. "B" \in Node /\ Peer("B") = "A"
    BY Nodes
  <2>2. Heard("B") \in [Node -> Seq(Word)] /\ Heard("B")["B"] = Tail(sig["B"]) /\ Heard("B")["A"] = sig["A"]
    BY <1>1, <2>1, HeardType
  <2> QED BY <1>3, <2>2
<1>10. o.says \in Seq(Word) /\ sig["A"] \in Seq(Word)
  BY <1>1, <1>5, Here
<1>11. Types' /\ Chained' /\ data' = data
  BY <1>1, <1>5, <1>6, <1>7, <1>9, <1>10, TalkOfBob
<1>12. app'["B"] = b2 /\ app'["A"] = app["A"]
  BY <1>1, <1>5, <1>6, <1>7, <1>9, <1>10, TalkOfBob
<1>13. sig'["B"] = <<>> /\ sig'["A"] = sig["A"]
  <2>1. sig'["B"] = Heard("B")["B"] /\ sig'["A"] = Heard("B")["A"] \o o.says
    BY <1>1, <1>5, <1>6, <1>7, <1>9, <1>10, TalkOfBob
  <2> QED BY <1>5, <1>9, <1>10, <2>1
<1>14. Joining(app["A"], b2, sig["A"], <<>>, data)
  BY <1>3, <1>7, <1>8 DEF Joining
<1> QED BY <1>11, <1>12, <1>13, <1>14 DEF IInv, Handshake, Stage

(* CheckQueues asks for a key as long as the queue is short.               *)
LEMMA CheckAsks ==
  ASSUME NEW a \in AppState, a.verified, Keys(a) < Size, a.retries = 0, a.asked = <<>>,
         NEW n, NEW o, o = CheckQueues(n, a)
  PROVE  /\ o.app \in AppState /\ o.sent = <<>> /\ o.says = <<>>
         /\ o.app.keys = a.keys /\ o.app.state = a.state /\ o.app.verified
         /\ o.app.own = a.own /\ o.app.peer = a.peer /\ Fills(o.app)
<1>1. PICK c : c = GetKeyFromKMS(a, 1)
  OBVIOUS
<1>2. o = Quiet(c)
  BY <1>1 DEF CheckQueues, Keys
<1>3. o.app = c /\ o.sent = <<>> /\ o.says = <<>>
  BY <1>2 DEF Quiet
<1>4. c \in AppState
  BY <1>1, MoreAsked
<1>5. c.keys = a.keys /\ c.state = a.state /\ c.retries = a.retries
  <2>1. 1 \in Nat
    OBVIOUS
  <2>2. c.keys = a.keys
    BY <1>1, <2>1, MoreAsked
  <2>3. c.state = a.state
    BY <1>1, <2>1, MoreAsked
  <2>4. c.retries = a.retries
    BY <1>1, <2>1, MoreAsked
  <2> QED BY <2>2, <2>3, <2>4
<1>6. c.verified = a.verified /\ c.own = a.own /\ c.peer = a.peer
  <2>1. PICK e : e = a.asked \o [i \in 1 .. 1 |-> "get_key"]
    OBVIOUS
  <2>2. c = [a EXCEPT !.asked = e]
    BY <1>1, <2>1 DEF GetKeyFromKMS
  <2> QED BY <2>2 DEF AppState
<1>7. Len(c.asked) = Len(a.asked) + 1
  <2>1. PICK b \in AppState, times \in Nat : b = a /\ times = 1
    OBVIOUS
  <2>2. c = GetKeyFromKMS(b, times)
    BY <1>1, <2>1
  <2>3. Len(c.asked) = Len(b.asked) + times
    BY <2>2, MoreAsked
  <2> QED BY <2>1, <2>3
<1>8. OnlyKeys(c)
  <2>1. OnlyKeys(a) /\ 1 \in Nat
    BY DEF OnlyKeys
  <2> QED BY <1>1, <2>1, MoreAsked
<1>9. Len(c.asked) = 1
  BY <1>7
<1>10. Fills(c)
  BY <1>5, <1>8, <1>9 DEF Fills, Asks, Keys
<1> QED BY <1>3, <1>4, <1>5, <1>6, <1>10

LEMMA StepKsidAnswered ==
  ASSUME IInv, KsidAnswered
  PROVE  IInv'
<1> DEFINE a == app["A"]
<1>1. Types /\ Chained /\ Handshake /\ sig["A"] # <<>> /\ Head(sig["A"]) = "ksid_ok"
  BY DEF IInv, KsidAnswered, Told
<1>2. a \in AppState
  BY <1>1, Here
<1>3. /\ Joining(a, app["B"], sig["A"], sig["B"], data) /\ data = <<>>
      /\ a.asked = <<>> /\ app["B"].asked = <<>> /\ sig["B"] = <<>> /\ app["B"].verified
      /\ sig["A"] = <<"ksid_ok">> /\ Keys(app["B"]) = 0 /\ app["B"].retries = 0
      /\ Keys(a) = 0 /\ a.retries = 0 /\ ~a.own /\ ~a.peer
  BY <1>1 DEF Handshake, Stage, Joining, Filling, Sends
<1>4. PICK a1 : a1 = [a EXCEPT !.verified = TRUE, !.state = "ESTABLISHING_KEY_QUEUES"]
  OBVIOUS
<1>5. /\ a1 \in AppState /\ a1.verified /\ a1.state = "ESTABLISHING_KEY_QUEUES"
      /\ a1.keys = a.keys /\ a1.asked = <<>> /\ a1.retries = 0 /\ ~a1.own /\ ~a1.peer
  BY <1>2, <1>3, <1>4 DEF AppState, State
<1>6. PICK c : c = CheckQueues("A", a1)
  OBVIOUS
<1>7. Keys(a1) < Size
  BY <1>3, <1>5, App004Assumption DEF Keys
<1>8. c.app \in AppState /\ c.sent = <<>> /\ c.says = <<>>
  BY <1>5, <1>6, <1>7, CheckAsks
<1>9. c.app.keys = a1.keys /\ c.app.state = a1.state /\ c.app.verified
  BY <1>5, <1>6, <1>7, CheckAsks
<1>10. c.app.own = a1.own /\ c.app.peer = a1.peer /\ Fills(c.app)
  BY <1>5, <1>6, <1>7, CheckAsks
<1>11. PICK o : o = [c EXCEPT !.says = <<"queues">>]
  OBVIOUS
<1>12. o.app = c.app /\ o.sent = <<>> /\ o.says = <<"queues">>
  <2>1. \E x : c = Quiet(x)
    BY <1>5, <1>6, <1>7 DEF CheckQueues, Keys
  <2> QED BY <1>8, <1>11, <2>1 DEF Quiet
<1>13. Ends("A", o, Heard("A")) /\ set' = set /\ kms' = kms /\ (Steady' => Steady)
  BY <1>4, <1>6, <1>11 DEF KsidAnswered, Steady
<1>14. Heard("A") \in [Node -> Seq(Word)] /\ Heard("A")["A"] = <<>> /\ Heard("A")["B"] = <<>>
  <2>1. "A" \in Node /\ Peer("A") = "B"
    BY Nodes
  <2>2. Heard("A") \in [Node -> Seq(Word)] /\ Heard("A")["A"] = Tail(sig["A"]) /\ Heard("A")["B"] = sig["B"]
    BY <1>1, <2>1, HeardType
  <2> QED BY <1>3, <2>2
<1>15. o.says \in Seq(Word) /\ o.app \in AppState /\ o.app.keys = app["A"].keys
  BY <1>5, <1>8, <1>9, <1>12 DEF Word
<1>16. Types' /\ Chained' /\ data' = data
  BY <1>1, <1>12, <1>13, <1>14, <1>15, TalkOfAlice
<1>17. app'["A"] = c.app /\ app'["B"] = app["B"]
  BY <1>1, <1>12, <1>13, <1>14, <1>15, TalkOfAlice
<1>18. sig'["A"] = <<>> /\ sig'["B"] = <<"queues">>
  <2>1. sig'["A"] = Heard("A")["A"] /\ sig'["B"] = Heard("A")["B"] \o o.says
    BY <1>1, <1>12, <1>13, <1>14, <1>15, TalkOfAlice
  <2>2. Heard("A")["B"] \o o.says = <<>> \o <<"queues">>
    BY <1>12, <1>14
  <2>3. <<>> \o <<"queues">> = <<"queues">>
    OBVIOUS
  <2> QED BY <1>14, <2>1, <2>2, <2>3
<1>19. Asks(app["B"], 0)
  BY <1>3 DEF Asks, OnlyKeys
<1>20. Filling(c.app, app["B"], <<>>, <<"queues">>, data)
  BY <1>3, <1>5, <1>9, <1>10, <1>19 DEF Filling
<1> QED BY <1>16, <1>17, <1>18, <1>20 DEF IInv, Handshake, Stage

LEMMA StepEstablishQueues ==
  ASSUME IInv, EstablishQueues
  PROVE  IInv'
<1> DEFINE b == app["B"]
<1>1. Types /\ Chained /\ Handshake /\ sig["B"] # <<>> /\ Head(sig["B"]) = "queues"
  BY DEF IInv, EstablishQueues, Told
<1>2. b \in AppState
  BY <1>1, Here
<1>3. /\ Filling(app["A"], b, sig["A"], sig["B"], data)
      /\ sig["A"] = <<>> /\ sig["B"] = <<"queues">> /\ Keys(b) = 0 /\ Asks(b, 0) /\ ~app["A"].peer
      /\ b.verified
  BY <1>1 DEF Handshake, Stage, Joining, Filling, Sends
<1>4. b.retries = 0 /\ b.asked = <<>>
  BY <1>2, <1>3 DEF Asks, AppState
<1>5. PICK b1 : b1 = [b EXCEPT !.state = "ESTABLISHING_KEY_QUEUES"]
  OBVIOUS
<1>6. /\ b1 \in AppState /\ b1.verified /\ b1.state = "ESTABLISHING_KEY_QUEUES"
      /\ b1.keys = b.keys /\ b1.asked = <<>> /\ b1.retries = 0
  BY <1>2, <1>3, <1>4, <1>5 DEF AppState, State
<1>7. PICK o : o = CheckQueues("B", b1)
  OBVIOUS
<1>8. Keys(b1) < Size
  BY <1>3, <1>6, App004Assumption DEF Keys
<1>9. o.app \in AppState /\ o.sent = <<>> /\ o.says = <<>>
  BY <1>6, <1>7, <1>8, CheckAsks
<1>10. o.app.keys = b1.keys /\ o.app.state = b1.state /\ o.app.verified
  BY <1>6, <1>7, <1>8, CheckAsks
<1>11. Fills(o.app)
  BY <1>6, <1>7, <1>8, CheckAsks
<1>12. Ends("B", o, Heard("B")) /\ set' = set /\ kms' = kms /\ (Steady' => Steady)
  BY <1>5, <1>7 DEF EstablishQueues, Steady
<1>13. Heard("B") \in [Node -> Seq(Word)] /\ Heard("B")["B"] = <<>> /\ Heard("B")["A"] = <<>>
  <2>1. "B" \in Node /\ Peer("B") = "A"
    BY Nodes
  <2>2. Heard("B") \in [Node -> Seq(Word)] /\ Heard("B")["B"] = Tail(sig["B"]) /\ Heard("B")["A"] = sig["A"]
    BY <1>1, <2>1, HeardType
  <2> QED BY <1>3, <2>2
<1>14. o.says \in Seq(Word) /\ o.app.keys = app["B"].keys
  BY <1>6, <1>9, <1>10
<1>15. Types' /\ Chained' /\ data' = data
  BY <1>1, <1>9, <1>12, <1>13, <1>14, TalkOfBob
<1>16. app'["B"] = o.app /\ app'["A"] = app["A"]
  BY <1>1, <1>9, <1>12, <1>13, <1>14, TalkOfBob
<1>17. sig'["B"] = <<>> /\ sig'["A"] = <<>>
  <2>1. sig'["B"] = Heard("B")["B"] /\ sig'["A"] = Heard("B")["A"] \o o.says
    BY <1>1, <1>9, <1>12, <1>13, <1>14, TalkOfBob
  <2> QED BY <1>9, <1>13, <2>1
<1>18. Filling(app["A"], o.app, <<>>, <<>>, data)
  BY <1>3, <1>6, <1>10, <1>11 DEF Filling
<1> QED BY <1>15, <1>16, <1>17, <1>18 DEF IInv, Handshake, Stage

(* Alice sends, and begins or goes on: her stream was in a chain.          *)
LEMMA SendStep ==
  ASSUME Types, NEW a \in AppState, OnlyKeys(a), Keys(a) # 0,
         NEW fa \in Nat, NEW fb \in Nat, NEW na \in 0 .. Chunks, NEW nb \in 0 .. Chunks,
         Chain(set.life, a.keys, fa, na, app["B"].keys, fb, nb, data, Steady),
         kms'.next["A"] = na, kms'.next["B"] = nb,
         kms' \in [known : BOOLEAN, filled : [Node -> 0 .. Chunks], next : [Node -> 0 .. Chunks]],
         \A n \in Node : kms'.next[n] <= kms'.filled[n],
         NEW signals \in [Node -> Seq(Word)], Ends("A", SendPacket(a), signals),
         set' = set, Steady' => Steady
  PROVE  /\ Types' /\ Chained'
         /\ app'["B"] = app["B"] /\ sig'["A"] = signals["A"] /\ sig'["B"] = signals["B"]
         /\ app'["A"].timer /\ OnlyKeys(app'["A"])
         /\ app'["A"].state = IF Keys(app'["A"]) = 0 THEN "WAIT" ELSE "READY"
         /\ Width(a) \in Nat /\ Width(app'["A"]) \in Nat /\ Width(app'["A"]) >= Width(a)
         /\ set.life % 2 = 1 => Width(app'["A"]) = Width(a)
<1>1. PICK o : o = SendPacket(a)
  OBVIOUS
<1>2. /\ set.life \in Nat \ {0} /\ data \in Seq(Nat) /\ "A" \in Node /\ Peer("A") = "B"
      /\ na \in Nat /\ nb \in Nat /\ Steady \in BOOLEAN
  BY Here, Nodes, App004Assumption DEF Steady
<1>3. Stream(set.life, a.keys, fa, na)
  BY DEF Chain
<1>4. fa # na
  BY <1>2, <1>3, KeysSize
<1>5. o.app \in AppState /\ o.sent = <<fa>> /\ o.says = <<>> /\ o.app.keys = Spent(a.keys, fa)
  BY <1>1, <1>2, <1>3, <1>4, SendEffect, SMTT(30)
<1>6. o.app.timer
  BY <1>1, <1>2, <1>3, <1>4, SendEffect
<1>7. o.app.state = IF Keys(o.app) = 0 THEN "WAIT" ELSE "READY"
  BY <1>1, <1>2, <1>3, <1>4, SendEffect
<1>8. Width(o.app) \in Nat /\ Width(a) \in Nat /\ Width(o.app) >= Width(a)
  BY <1>1, <1>2, <1>3, <1>4, SendEffect
<1>9. a.keys[fa] % 2 = 1 => Width(o.app) = Width(a)
  BY <1>1, <1>2, <1>3, <1>4, SendEffect
<1>10. OnlyKeys(o.app)
  BY <1>1, <1>2, <1>3, <1>4, SendEffect
<1>11. fa \in fa .. na - 1 /\ fa \in Index
  BY <1>2, <1>3, <1>4, App004Assumption, SMTT(30) DEF Stream, Index
<1>12. set.life % 2 = 1 => Width(o.app) = Width(a)
  BY <1>9, <1>11 DEF Chain
<1>13. Ends("A", o, signals)
  BY <1>1
<1>14. o.sent \in Seq(Index) /\ o.says \in Seq(Word)
  BY <1>5, <1>11
<1>15. /\ app' \in [Node -> AppState] /\ app'["A"] = o.app /\ app'["B"] = app["B"]
       /\ sig' \in [Node -> Seq(Word)] /\ sig'["A"] = signals["A"]
       /\ sig'["B"] = signals["B"] \o o.says
       /\ data' \in Seq(Index) /\ data' = data \o o.sent
  <2>1. app' \in [Node -> AppState] /\ app'["A"] = o.app /\ app'[Peer("A")] = app[Peer("A")]
    BY <1>2, <1>5, <1>13, <1>14, EndsEffect
  <2>2. sig' \in [Node -> Seq(Word)] /\ sig'["A"] = signals["A"]
    BY <1>2, <1>5, <1>13, <1>14, EndsEffect
  <2>3. sig'[Peer("A")] = signals[Peer("A")] \o o.says
    BY <1>2, <1>5, <1>13, <1>14, EndsEffect
  <2>4. data' \in Seq(Index) /\ data' = data \o o.sent
    BY <1>2, <1>5, <1>13, <1>14, EndsEffect
  <2> QED BY <1>2, <2>1, <2>2, <2>3, <2>4
<1>16. sig'["B"] = signals["B"]
  <2>1. PICK p \in Seq(Word) : p = signals["B"]
    BY Nodes
  <2>2. p \o <<>> = p
    OBVIOUS
  <2> QED BY <1>5, <1>15, <2>1, <2>2
<1>17. data' = Append(data, fa)
  BY <1>2, <1>5, <1>15
<1>18. Types'
  BY <1>15 DEF Types
<1>19. PICK f2 : f2 = FirstLeft(a.keys, fa)
  OBVIOUS
<1>20. Chain(set.life, Spent(a.keys, fa), f2, na, app["B"].keys, fb, nb, Append(data, fa), Steady)
  BY <1>2, <1>4, <1>19, ChainSent
<1>21. Chain(set.life, Spent(a.keys, fa), f2, na, app["B"].keys, fb, nb, Append(data, fa), Steady')
  BY <1>20, ChainWeaker
<1>22. Chain(set'.life, app'["A"].keys, f2, kms'.next["A"], app'["B"].keys, fb, kms'.next["B"], data', Steady')
  BY <1>5, <1>15, <1>17, <1>21
<1>23. f2 \in Nat
  BY <1>19 DEF FirstLeft
<1>24. Chained'
  BY <1>22, <1>23 DEF Chained
<1> QED BY <1>6, <1>7, <1>8, <1>10, <1>12, <1>15, <1>16, <1>18, <1>24

(* The two ends have begun to send.                                        *)
LEMMA Begins ==
  ASSUME NEW life \in Nat, NEW regular, NEW a0, NEW a, NEW b \in AppState, Width(a0) = Size,
         Width(a) \in Nat, Width(a) >= Width(a0), life % 2 = 1 => Width(a) = Width(a0),
         a.timer, OnlyKeys(a), a.state = IF Keys(a) = 0 THEN "WAIT" ELSE "READY",
         b.state = "READY", IsFull(b), NEW d
  PROVE  Stage(life, regular, a, b, <<>>, <<>>, d)
<1>1. Size \in Nat /\ (life % 2 = 0 \/ life % 2 = 1)
  BY App004Assumption
<1>2. IF life % 2 = 0 THEN Width(a) >= Size ELSE Width(a) = Size
  BY <1>1
<1>3. Width(b) = Size /\ OnlyKeys(b)
  BY <1>1 DEF IsFull, Asks, Width, AppState
<1> QED BY <1>2, <1>3 DEF Stage, Sends

LEMMA StepQueuesAnswered ==
  ASSUME IInv, QueuesAnswered
  PROVE  IInv'
<1> DEFINE a == app["A"]
           b == app["B"]
<1>1. Types /\ Chained /\ Handshake /\ sig["A"] # <<>> /\ Head(sig["A"]) = "queues_ok"
  BY DEF IInv, QueuesAnswered, Told
<1>2. a \in AppState /\ b \in AppState
  BY <1>1, Here
<1>3. /\ Filling(a, b, sig["A"], sig["B"], data)
      /\ sig["A"] = <<"queues_ok">> /\ sig["B"] = <<>> /\ b.state = "READY" /\ IsFull(b)
      /\ data = <<>> /\ a.verified /\ b.verified /\ a.state = "ESTABLISHING_KEY_QUEUES"
      /\ IF a.own THEN IsFull(a) ELSE Fills(a)
  BY <1>1 DEF Handshake, Stage, Joining, Filling, Sends
<1>4. Heard("A") \in [Node -> Seq(Word)] /\ Heard("A")["A"] = <<>> /\ Heard("A")["B"] = <<>>
  <2>1. "A" \in Node /\ Peer("A") = "B"
    BY Nodes
  <2>2. Heard("A") \in [Node -> Seq(Word)] /\ Heard("A")["A"] = Tail(sig["A"]) /\ Heard("A")["B"] = sig["B"]
    BY <1>1, <2>1, HeardType
  <2> QED BY <1>3, <2>2
<1>5. PICK a1 : a1 = [a EXCEPT !.peer = TRUE]
  OBVIOUS
<1>6. /\ a1 \in AppState /\ a1.peer /\ a1.own = a.own /\ a1.keys = a.keys /\ a1.asked = a.asked
      /\ a1.retries = a.retries /\ a1.state = a.state /\ a1.verified = a.verified
  BY <1>2, <1>5 DEF AppState
<1>7. Ends("A", IF a1.own THEN StartsSending(a1) ELSE Quiet(a1), Heard("A"))
      /\ set' = set /\ kms' = kms /\ (Steady' => Steady)
  BY <1>5 DEF QueuesAnswered, Steady
<1>8. CASE ~a.own
  <2>1. PICK o : o = Quiet(a1)
    OBVIOUS
  <2>2. o.app = a1 /\ o.sent = <<>> /\ o.says = <<>> /\ Ends("A", o, Heard("A"))
    BY <1>6, <1>7, <1>8, <2>1 DEF Quiet
  <2>3. o.says \in Seq(Word) /\ o.app \in AppState /\ o.app.keys = app["A"].keys
    BY <1>6, <2>2
  <2>4. Types' /\ Chained' /\ data' = data
    BY <1>1, <1>4, <1>7, <2>2, <2>3, TalkOfAlice
  <2>5. app'["A"] = o.app /\ app'["B"] = app["B"]
    BY <1>1, <1>4, <1>7, <2>2, <2>3, TalkOfAlice
  <2>6. sig'["A"] = <<>> /\ sig'["B"] = <<>>
    <3>1. sig'["A"] = Heard("A")["A"] /\ sig'["B"] = Heard("A")["B"] \o o.says
      BY <1>1, <1>4, <1>7, <2>2, <2>3, TalkOfAlice
    <3> QED BY <1>4, <2>2, <3>1
  <2>7. Fills(a1) /\ ~a1.own
    BY <1>3, <1>6, <1>8 DEF Fills, Asks, OnlyKeys, Keys
  <2>8. Filling(a1, b, <<>>, <<>>, data)
    BY <1>3, <1>6, <2>7 DEF Filling
  <2> QED BY <2>2, <2>4, <2>5, <2>6, <2>8 DEF IInv, Handshake, Stage
<1>9. CASE a.own
  <2>1. PICK a2 : a2 = [a1 EXCEPT !.state = "READY"]
    OBVIOUS
  <2>2. a2 \in AppState /\ a2.keys = a.keys /\ a2.asked = a.asked /\ a2.retries = a.retries
    BY <1>6, <2>1 DEF AppState, State
  <2>3. Ends("A", SendPacket(a2), Heard("A"))
    BY <1>6, <1>7, <1>9, <2>1 DEF StartsSending
  <2>4. IsFull(a2)
    BY <1>3, <1>9, <2>2 DEF IsFull, Asks, OnlyKeys, Keys
  <2>5. OnlyKeys(a2) /\ Keys(a2) # 0 /\ Width(a2) = Size
    BY <2>2, <2>4, App004Assumption DEF IsFull, Asks, Width, AppState
  <2>6. PICK fa \in Nat, fb \in Nat :
          Chain(set.life, a.keys, fa, kms.next["A"], b.keys, fb, kms.next["B"], data, Steady)
    BY <1>1 DEF Chained
  <2>7. PICK na \in 0 .. Chunks, nb \in 0 .. Chunks : na = kms.next["A"] /\ nb = kms.next["B"]
    BY <1>1, Here
  <2>8. Chain(set.life, a2.keys, fa, na, app["B"].keys, fb, nb, data, Steady)
        /\ kms'.next["A"] = na /\ kms'.next["B"] = nb
    BY <1>7, <2>2, <2>6, <2>7
  <2>9. /\ kms' \in [known : BOOLEAN, filled : [Node -> 0 .. Chunks], next : [Node -> 0 .. Chunks]]
        /\ \A n \in Node : kms'.next[n] <= kms'.filled[n]
    BY <1>1, <1>7 DEF Types
  <2>10. Types' /\ Chained'
    BY <1>1, <1>4, <1>7, <2>2, <2>3, <2>5, <2>8, <2>9, SendStep
  <2>11. app'["B"] = b /\ sig'["A"] = <<>> /\ sig'["B"] = <<>>
    BY <1>1, <1>4, <1>7, <2>2, <2>3, <2>5, <2>8, <2>9, SendStep
  <2>12. app'["A"].timer /\ OnlyKeys(app'["A"])
    BY <1>1, <1>4, <1>7, <2>2, <2>3, <2>5, <2>8, <2>9, SendStep
  <2>13. app'["A"].state = IF Keys(app'["A"]) = 0 THEN "WAIT" ELSE "READY"
    BY <1>1, <1>4, <1>7, <2>2, <2>3, <2>5, <2>8, <2>9, SendStep
  <2>14. Width(a2) \in Nat /\ Width(app'["A"]) \in Nat /\ Width(app'["A"]) >= Width(a2)
    BY <1>1, <1>4, <1>7, <2>2, <2>3, <2>5, <2>8, <2>9, SendStep
  <2>15. set.life % 2 = 1 => Width(app'["A"]) = Width(a2)
    BY <1>1, <1>4, <1>7, <2>2, <2>3, <2>5, <2>8, <2>9, SendStep
  <2>16. set'.life \in Nat
    BY <1>1, <1>7, Here
  <2>17. Stage(set'.life, Regular', app'["A"], b, <<>>, <<>>, data')
    BY <1>2, <1>3, <1>7, <2>5, <2>12, <2>13, <2>14, <2>15, <2>16, Begins
  <2> QED BY <2>10, <2>11, <2>17 DEF IInv, Handshake
<1> QED BY <1>8, <1>9

(* The next chunk comes to an application that has asked for it.           *)
LEMMA NextChunk ==
  ASSUME Types, NEW n \in Node, HasChunk(n), kms' = [kms EXCEPT !.next[n] = @ + 1]
  PROVE  /\ kms' \in [known : BOOLEAN, filled : [Node -> 0 .. Chunks], next : [Node -> 0 .. Chunks]]
         /\ \A m \in Node : kms'.next[m] <= kms'.filled[m]
         /\ kms'.next[n] = kms.next[n] + 1 /\ kms'.next[Peer(n)] = kms.next[Peer(n)]
         /\ kms.next[n] + 1 \in 0 .. Chunks
<1>1. PICK i : i = kms.next[n] + 1
  OBVIOUS
<1>2. /\ kms.next \in [Node -> 0 .. Chunks] /\ kms.filled \in [Node -> 0 .. Chunks]
      /\ \A m \in Node : kms.next[m] <= kms.filled[m]
      /\ kms \in [known : BOOLEAN, filled : [Node -> 0 .. Chunks], next : [Node -> 0 .. Chunks]]
  BY DEF Types
<1>3. i \in 0 .. Chunks /\ i <= kms.filled[n]
  BY <1>1, <1>2, App004Assumption DEF HasChunk
<1>4. PICK next : next = [kms.next EXCEPT ![n] = i]
  OBVIOUS
<1>5. kms' = [kms EXCEPT !.next = next]
  BY <1>1, <1>2, <1>4
<1>6. next \in [Node -> 0 .. Chunks] /\ next[n] = i /\ \A m \in Node : m # n => next[m] = kms.next[m]
  BY <1>2, <1>3, <1>4
<1>7. kms'.next = next /\ kms'.filled = kms.filled
      /\ kms' \in [known : BOOLEAN, filled : [Node -> 0 .. Chunks], next : [Node -> 0 .. Chunks]]
  BY <1>2, <1>5, <1>6
<1>8. Peer(n) \in Node /\ Peer(n) # n
  BY DEF Peer, Node
<1>9. \A m \in Node : kms'.next[m] <= kms'.filled[m]
  BY <1>2, <1>3, <1>6, <1>7
<1> QED BY <1>1, <1>3, <1>6, <1>7, <1>8, <1>9

LEMMA KeyAdded ==
  ASSUME Types, NEW n \in Node, app[n].asked # <<>>, HasChunk(n), NEW f \in Nat,
         Stream(set.life, app[n].keys, f, kms.next[n]),
         NEW c, c = AddKey(Answered(n), kms.next[n])
  PROVE  /\ c \in AppState /\ c.keys = Plus(set.life, app[n].keys, kms.next[n])
         /\ Keys(c) = Keys(app[n]) + 1 /\ Keys(app[n]) \in Nat
         /\ Len(c.asked) = Len(app[n].asked) - 1 /\ Len(app[n].asked) \in Nat \ {0}
         /\ OnlyKeys(app[n]) => OnlyKeys(c)
         /\ c.state = app[n].state /\ c.retries = app[n].retries /\ c.verified = app[n].verified
         /\ c.own = app[n].own /\ c.peer = app[n].peer /\ c.timer = app[n].timer
<1>1. PICK a, next, t, k2 :
        /\ a = app[n] /\ next = kms.next[n] /\ t = [a EXCEPT !.asked = Tail(a.asked)]
        /\ k2 = Plus(set.life, a.keys, next)
  OBVIOUS
<1>2. a \in AppState /\ next \in 0 .. Chunks /\ next + 1 \in 0 .. Chunks /\ next \in Nat
      /\ set.life \in Nat
  <2>1. a \in AppState /\ next \in 0 .. Chunks /\ kms.filled[n] \in 0 .. Chunks
    BY <1>1 DEF Types
  <2>2. set.life \in Nat
    BY Here
  <2> QED BY <1>1, <2>1, <2>2, App004Assumption DEF HasChunk
<1>3. t \in AppState
  BY <1>1, <1>2, Heads
<1>4. Len(Tail(a.asked)) = Len(a.asked) - 1 /\ Len(a.asked) \in Nat \ {0}
  BY <1>1, <1>2, Heads
<1>5. OnlyKeys(a) => OnlyKeys(t)
  BY <1>1, <1>2, Heads
<1>6. /\ t.keys = a.keys /\ t.asked = Tail(a.asked) /\ t.state = a.state /\ t.retries = a.retries
      /\ t.verified = a.verified /\ t.own = a.own /\ t.peer = a.peer /\ t.timer = a.timer
  BY <1>1, <1>2 DEF AppState
<1>7. c = [t EXCEPT !.keys = k2]
  <2>1. Answered(n) = t
    BY <1>1 DEF Answered
  <2>2. With(t.keys, next) = k2
    BY <1>1, <1>6 DEF With, Plus
  <2> QED BY <1>1, <2>1, <2>2 DEF AddKey
<1>8. Stream(set.life, k2, f, next + 1)
  BY <1>1, <1>2, Extended
<1>9. k2 \in Stock
  BY <1>2, <1>8, StreamIsStock
<1>10. /\ c \in AppState /\ c.keys = k2 /\ c.asked = t.asked /\ c.state = t.state
       /\ c.retries = t.retries /\ c.verified = t.verified
       /\ c.own = t.own /\ c.peer = t.peer /\ c.timer = t.timer
  BY <1>3, <1>7, <1>9 DEF AppState
<1>11. Keys(c) = (next + 1) - f /\ Keys(a) = next - f /\ Keys(a) \in Nat
  <2>1. next + 1 \in Nat
    BY <1>2
  <2>2. Keys(c) = (next + 1) - f
    BY <1>2, <1>8, <1>10, <2>1, KeysSize
  <2>3. Keys(a) = next - f /\ Keys(a) \in Nat
    BY <1>1, <1>2, KeysSize
  <2> QED BY <2>2, <2>3
<1>12. OnlyKeys(a) => OnlyKeys(c)
  BY <1>5, <1>10 DEF OnlyKeys
<1>13. c.keys = Plus(set.life, app[n].keys, kms.next[n])
  BY <1>1, <1>10
<1>14. Keys(c) = Keys(a) + 1
  BY <1>2, <1>11
<1> QED BY <1>1, <1>4, <1>6, <1>10, <1>11, <1>12, <1>13, <1>14

(* What is left for an application that has its key: it asks for the next, *)
(* or its queue is full.                                                   *)
LEMMA FillsOrFull ==
  ASSUME NEW a, Fills(a), NEW c \in AppState, Keys(c) = Keys(a) + 1, Keys(a) \in Nat,
         Len(c.asked) = Len(a.asked) - 1, Len(a.asked) \in Nat \ {0}, a.retries \in Nat,
         c.retries = a.retries, OnlyKeys(a) => OnlyKeys(c)
  PROVE  /\ c.retries = 0 /\ c.asked = <<>> /\ OnlyKeys(c)
         /\ Keys(c) < Size \/ Keys(c) = Size
<1>1. Size \in Nat /\ Keys(a) < Size /\ OnlyKeys(a) /\ a.retries + Len(a.asked) = 1
  BY App004Assumption DEF Fills, Asks
<1>2. a.retries = 0 /\ Len(c.asked) = 0
  <2>1. PICK r \in Nat, l \in Nat \ {0} : r = a.retries /\ l = Len(a.asked)
    OBVIOUS
  <2>2. r + l = 1
    BY <1>1, <2>1
  <2>3. r = 0 /\ l - 1 = 0
    BY <2>2
  <2>4. Len(c.asked) = l - 1
    BY <2>1
  <2> QED BY <2>1, <2>3, <2>4
<1>3. c.asked = <<>>
  BY <1>2 DEF AppState
<1> QED BY <1>1, <1>2, <1>3

LEMMA BobHasKey ==
  ASSUME IInv, KeyAnswered("B")
  PROVE  IInv'
<1> DEFINE a == app["A"]
           b == app["B"]
<1>1. Types /\ Chained /\ Handshake /\ b.asked # <<>> /\ Head(b.asked) = "get_key" /\ HasChunk("B")
      /\ "B" \in Node /\ Peer("B") = "A"
  BY Nodes DEF IInv, KeyAnswered, HeadAsked
<1>2. a \in AppState /\ b \in AppState /\ set.life \in Nat \ {0} /\ data \in Seq(Nat)
  BY <1>1, Here
<1>3. PICK na \in 0 .. Chunks, nb \in 0 .. Chunks : na = kms.next["A"] /\ nb = kms.next["B"]
  BY <1>1, Here
<1>4. PICK fa \in Nat, fb \in Nat :
        Chain(set.life, a.keys, fa, na, b.keys, fb, nb, data, Steady)
  BY <1>1, <1>3 DEF Chained
<1>5. Stream(set.life, b.keys, fb, kms.next["B"])
  BY <1>3, <1>4 DEF Chain
<1>6. PICK c : c = AddKey(Answered("B"), kms.next["B"])
  OBVIOUS
<1>7. c \in AppState /\ c.keys = Plus(set.life, b.keys, kms.next["B"])
  BY <1>1, <1>5, <1>6, KeyAdded
<1>8. Keys(c) = Keys(b) + 1 /\ Keys(b) \in Nat
  BY <1>1, <1>5, <1>6, KeyAdded
<1>9. Len(c.asked) = Len(b.asked) - 1 /\ Len(b.asked) \in Nat \ {0}
  BY <1>1, <1>5, <1>6, KeyAdded
<1>10. OnlyKeys(b) => OnlyKeys(c)
  BY <1>1, <1>5, <1>6, KeyAdded
<1>11. c.state = b.state /\ c.retries = b.retries
  BY <1>1, <1>5, <1>6, KeyAdded
<1>12. c.verified = b.verified
  BY <1>1, <1>5, <1>6, KeyAdded
<1>13. kms' = [kms EXCEPT !.next["B"] = @ + 1] /\ set' = set /\ seen' = seen
  BY DEF KeyAnswered
<1>14. /\ kms' \in [known : BOOLEAN, filled : [Node -> 0 .. Chunks], next : [Node -> 0 .. Chunks]]
       /\ \A m \in Node : kms'.next[m] <= kms'.filled[m]
  BY <1>1, <1>13, NextChunk
<1>15. kms'.next["B"] = nb + 1 /\ kms'.next["A"] = na
  BY <1>1, <1>3, <1>13, NextChunk
<1>16. Chain(set.life, a.keys, fa, na, c.keys, fb, nb + 1, data, Steady)
  <2>1. PICK st \in BOOLEAN : st = Steady
    BY DEF Steady
  <2>2. na \in Nat /\ nb \in Nat
    BY App004Assumption
  <2>3. Chain(set.life, a.keys, fa, na, Plus(set.life, b.keys, nb), fb, nb + 1, data, st)
    BY <1>2, <1>4, <2>1, <2>2, ChainAtBob
  <2> QED BY <1>3, <1>7, <2>1, <2>3
<1>17. PICK o : o = GoesOn("B", c)
  OBVIOUS
<1>18. Ends("B", o, sig)
  BY <1>6, <1>17 DEF KeyAnswered
<1>19. sig \in [Node -> Seq(Word)]
  BY <1>1 DEF Types
<1>20. ASSUME o.app \in AppState, o.app.keys = c.keys, o.sent = <<>>, o.says \in Seq(Word)
       PROVE  /\ Types' /\ Chained' /\ data' = data /\ app'["A"] = a /\ app'["B"] = o.app
              /\ sig'["B"] = sig["B"] /\ sig'["A"] = sig["A"] \o o.says
  <2>1. o.sent \in Seq(Index)
    BY <1>20
  <2>2. app' \in [Node -> AppState] /\ app'["B"] = o.app /\ app'[Peer("B")] = app[Peer("B")]
    BY <1>1, <1>18, <1>19, <1>20, <2>1, EndsEffect
  <2>3. sig' \in [Node -> Seq(Word)] /\ sig'["B"] = sig["B"]
    BY <1>1, <1>18, <1>19, <1>20, <2>1, EndsEffect
  <2>4. sig'[Peer("B")] = sig[Peer("B")] \o o.says
    BY <1>1, <1>18, <1>19, <1>20, <2>1, EndsEffect
  <2>5. data' \in Seq(Index) /\ data' = data \o o.sent
    BY <1>1, <1>18, <1>19, <1>20, <2>1, EndsEffect
  <2>6. data' = data
    BY <1>2, <1>20, <2>5
  <2>7. Types'
    BY <1>1, <1>13, <1>14, <2>2, <2>3, <2>5 DEF Types
  <2>8. Chain(set'.life, app'["A"].keys, fa, kms'.next["A"], app'["B"].keys, fb, kms'.next["B"], data', Steady')
    <3>1. Steady' = Steady
      BY <1>13 DEF Steady
    <3> QED BY <1>1, <1>13, <1>15, <1>16, <1>20, <2>2, <2>6, <3>1
  <2>9. Chained'
    BY <2>8 DEF Chained
  <2> QED BY <1>1, <2>2, <2>3, <2>4, <2>6, <2>7, <2>9
<1>21. b.asked # <<>> /\ b.asked # <<"open_connect">>
  <2>1. b.asked = <<"open_connect">> => Head(b.asked) = "open_connect"
    BY <1>2, Heads
  <2> QED BY <1>1, <2>1
<1>22. CASE Filling(a, b, sig["A"], sig["B"], data)
  <2>1. /\ sig["A"] = <<>> /\ sig["B"] = <<>> /\ b.state = "ESTABLISHING_KEY_QUEUES"
        /\ Fills(b) /\ ~a.peer /\ b.verified /\ a.verified /\ data = <<>>
        /\ a.state = "ESTABLISHING_KEY_QUEUES" /\ IF a.own THEN IsFull(a) ELSE Fills(a)
    <3>1. ~Asks(b, 0)
      BY <1>2, <1>9 DEF Asks, AppState
    <3> QED BY <1>22, <3>1 DEF Filling, IsFull
  <2>2. b.retries \in Nat
    BY <1>2 DEF AppState
  <2>3. c.retries = 0 /\ c.asked = <<>> /\ OnlyKeys(c) /\ (Keys(c) < Size \/ Keys(c) = Size)
    BY <1>7, <1>8, <1>9, <1>10, <1>11, <2>1, <2>2, FillsOrFull
  <2>4. o = CheckQueues("B", c)
    BY <1>11, <1>17, <2>1 DEF GoesOn
  <2>5. CASE Keys(c) < Size
    <3>1. c.verified
      BY <1>12, <2>1
    <3>2. o.app \in AppState /\ o.sent = <<>> /\ o.says = <<>>
      BY <1>7, <2>3, <2>4, <2>5, <3>1, CheckAsks
    <3>3. o.app.keys = c.keys /\ o.app.state = c.state
      BY <1>7, <2>3, <2>4, <2>5, <3>1, CheckAsks
    <3>4. o.app.verified /\ Fills(o.app)
      BY <1>7, <2>3, <2>4, <2>5, <3>1, CheckAsks
    <3>5. o.says \in Seq(Word)
      BY <3>2
    <3>6. /\ Types' /\ Chained' /\ data' = data /\ app'["A"] = a /\ app'["B"] = o.app
          /\ sig'["B"] = sig["B"] /\ sig'["A"] = sig["A"] \o o.says
      BY <1>20, <3>2, <3>3, <3>5
    <3>7. sig'["A"] = <<>>
      BY <2>1, <3>2, <3>6
    <3>8. Filling(a, o.app, <<>>, <<>>, data)
      BY <1>11, <2>1, <3>3, <3>4 DEF Filling
    <3> QED BY <2>1, <3>6, <3>7, <3>8 DEF IInv, Handshake, Stage
  <2>6. CASE Keys(c) = Size
    <3>1. PICK e : e = [c EXCEPT !.state = "READY"]
      OBVIOUS
    <3>2. /\ e \in AppState /\ e.keys = c.keys /\ e.asked = c.asked /\ e.retries = c.retries
          /\ e.state = "READY" /\ e.verified = c.verified
      BY <1>7, <3>1 DEF AppState, State
    <3>3. o = [Quiet(e) EXCEPT !.says = <<"queues_ok">>]
      <4>1. ~(Cardinality(DOMAIN c.keys) < Size)
        BY <2>6, App004Assumption DEF Keys
      <4> QED BY <2>4, <3>1, <4>1 DEF CheckQueues
    <3>4. o.app = e /\ o.sent = <<>> /\ o.says = <<"queues_ok">> /\ o.says \in Seq(Word)
      BY <3>3 DEF Quiet, Word
    <3>5. /\ Types' /\ Chained' /\ data' = data /\ app'["A"] = a /\ app'["B"] = o.app
          /\ sig'["B"] = sig["B"] /\ sig'["A"] = sig["A"] \o o.says
      BY <1>20, <3>2, <3>4
    <3>6. sig'["A"] = <<"queues_ok">>
      <4>1. <<>> \o <<"queues_ok">> = <<"queues_ok">>
        OBVIOUS
      <4> QED BY <2>1, <3>4, <3>5, <4>1
    <3>7. IsFull(e)
      BY <2>3, <2>6, <3>2 DEF IsFull, Asks, OnlyKeys, Keys
    <3>8. Filling(a, e, <<"queues_ok">>, <<>>, data)
      BY <1>12, <2>1, <3>2, <3>7 DEF Filling
    <3> QED BY <2>1, <3>4, <3>5, <3>6, <3>8 DEF IInv, Handshake, Stage
  <2> QED BY <2>3, <2>5, <2>6
<1>23. CASE Sends(set.life, Regular, a, b, sig["A"], sig["B"])
  <2>1. b.state = "READY" /\ sig["A"] = <<>> /\ sig["B"] = <<>> /\ OnlyKeys(b)
        /\ (Regular => Width(b) = Size)
    BY <1>23 DEF Sends
  <2>2. o = Quiet(c)
    BY <1>11, <1>17, <2>1 DEF GoesOn
  <2>3. o.app = c /\ o.sent = <<>> /\ o.says = <<>> /\ o.says \in Seq(Word)
    BY <2>2 DEF Quiet
  <2>4. /\ Types' /\ Chained' /\ data' = data /\ app'["A"] = a /\ app'["B"] = c
        /\ sig'["B"] = sig["B"] /\ sig'["A"] = sig["A"] \o o.says
    BY <1>7, <1>20, <2>3
  <2>5. sig'["A"] = <<>>
    BY <2>1, <2>3, <2>4
  <2>6. Width(c) = Width(b)
    <3>1. PICK r \in Nat, l \in Nat, k \in Nat : r = b.retries /\ l = Len(b.asked) /\ k = Keys(b)
      BY <1>2, <1>8, <1>9 DEF AppState
    <3>2. Width(c) = (k + 1) + r + (l - 1)
      BY <1>8, <1>9, <1>11, <3>1 DEF Width
    <3>3. Width(b) = k + r + l
      BY <3>1 DEF Width
    <3>4. (k + 1) + r + (l - 1) = k + r + l
      OBVIOUS
    <3> QED BY <3>2, <3>3, <3>4
  <2>7. OnlyKeys(c) /\ c.state = "READY"
    BY <1>10, <1>11, <2>1
  <2>8. Sends(set.life, Regular, a, c, <<>>, <<>>)
    BY <1>23, <2>6, <2>7 DEF Sends
  <2>9. Regular' = Regular
    BY <1>13 DEF Regular
  <2> QED BY <1>13, <2>1, <2>4, <2>5, <2>8, <2>9 DEF IInv, Handshake, Stage
<1> QED BY <1>1, <1>21, <1>22, <1>23 DEF Handshake, Stage, Joining

LEMMA AliceHasKey ==
  ASSUME IInv, KeyAnswered("A")
  PROVE  IInv'
<1> DEFINE a == app["A"]
           b == app["B"]
<1>1. Types /\ Chained /\ Handshake /\ a.asked # <<>> /\ Head(a.asked) = "get_key" /\ HasChunk("A")
      /\ "A" \in Node /\ Peer("A") = "B"
  BY Nodes DEF IInv, KeyAnswered, HeadAsked
<1>2. a \in AppState /\ b \in AppState /\ set.life \in Nat \ {0} /\ data \in Seq(Nat)
  BY <1>1, Here
<1>3. PICK na \in 0 .. Chunks, nb \in 0 .. Chunks : na = kms.next["A"] /\ nb = kms.next["B"]
  BY <1>1, Here
<1>4. PICK fa \in Nat, fb \in Nat :
        Chain(set.life, a.keys, fa, na, b.keys, fb, nb, data, Steady)
  BY <1>1, <1>3 DEF Chained
<1>5. Stream(set.life, a.keys, fa, kms.next["A"])
  BY <1>3, <1>4 DEF Chain
<1>6. PICK c : c = AddKey(Answered("A"), kms.next["A"])
  OBVIOUS
<1>7. c \in AppState /\ c.keys = Plus(set.life, a.keys, kms.next["A"])
  BY <1>1, <1>5, <1>6, KeyAdded
<1>8. Keys(c) = Keys(a) + 1 /\ Keys(a) \in Nat
  BY <1>1, <1>5, <1>6, KeyAdded
<1>9. Len(c.asked) = Len(a.asked) - 1 /\ Len(a.asked) \in Nat \ {0}
  BY <1>1, <1>5, <1>6, KeyAdded
<1>10. OnlyKeys(a) => OnlyKeys(c)
  BY <1>1, <1>5, <1>6, KeyAdded
<1>11. c.state = a.state /\ c.retries = a.retries
  BY <1>1, <1>5, <1>6, KeyAdded
<1>12. c.verified = a.verified /\ c.own = a.own
  BY <1>1, <1>5, <1>6, KeyAdded
<1>13. c.peer = a.peer /\ c.timer = a.timer
  BY <1>1, <1>5, <1>6, KeyAdded
<1>14. kms' = [kms EXCEPT !.next["A"] = @ + 1] /\ set' = set /\ seen' = seen
  BY DEF KeyAnswered
<1>15. /\ kms' \in [known : BOOLEAN, filled : [Node -> 0 .. Chunks], next : [Node -> 0 .. Chunks]]
       /\ \A m \in Node : kms'.next[m] <= kms'.filled[m]
  BY <1>1, <1>14, NextChunk
<1>16. PICK n2 \in 0 .. Chunks : n2 = na + 1
  BY <1>1, <1>3, <1>14, NextChunk
<1>17. kms'.next["A"] = n2 /\ kms'.next["B"] = nb
  BY <1>1, <1>3, <1>14, <1>16, NextChunk
<1>18. Chain(set.life, c.keys, fa, n2, b.keys, fb, nb, data, Steady)
  <2>1. PICK st \in BOOLEAN : st = Steady
    BY DEF Steady
  <2>2. na \in Nat /\ nb \in Nat
    BY App004Assumption
  <2>3. Chain(set.life, Plus(set.life, a.keys, na), fa, na + 1, b.keys, fb, nb, data, st)
    BY <1>2, <1>4, <2>1, <2>2, ChainAtAlice
  <2> QED BY <1>3, <1>7, <1>16, <2>1, <2>3
<1>19. PICK o : o = GoesOn("A", c)
  OBVIOUS
<1>20. Ends("A", o, sig)
  BY <1>6, <1>19 DEF KeyAnswered
<1>21. sig \in [Node -> Seq(Word)] /\ Steady' = Steady /\ Regular' = Regular
  BY <1>1, <1>14 DEF Types, Steady, Regular
<1>22. ASSUME o.app \in AppState, o.app.keys = c.keys, o.sent = <<>>, o.says = <<>>
       PROVE  /\ Types' /\ Chained' /\ data' = data /\ app'["B"] = b /\ app'["A"] = o.app
              /\ sig'["A"] = sig["A"] /\ sig'["B"] = sig["B"]
  <2>1. o.sent \in Seq(Index) /\ o.says \in Seq(Word)
    BY <1>22
  <2>2. app' \in [Node -> AppState] /\ app'["A"] = o.app /\ app'[Peer("A")] = app[Peer("A")]
    BY <1>1, <1>20, <1>21, <1>22, <2>1, EndsEffect
  <2>3. sig' \in [Node -> Seq(Word)] /\ sig'["A"] = sig["A"]
    BY <1>1, <1>20, <1>21, <1>22, <2>1, EndsEffect
  <2>4. sig'[Peer("A")] = sig[Peer("A")] \o o.says
    BY <1>1, <1>20, <1>21, <1>22, <2>1, EndsEffect
  <2>5. data' \in Seq(Index) /\ data' = data \o o.sent
    BY <1>1, <1>20, <1>21, <1>22, <2>1, EndsEffect
  <2>6. data' = data
    BY <1>2, <1>22, <2>5
  <2>7. sig'["B"] = sig["B"]
    <3>1. PICK p \in Seq(Word) : p = sig["B"]
      BY <1>1, Here
    <3>2. p \o <<>> = p
      OBVIOUS
    <3> QED BY <1>1, <1>22, <2>4, <3>1, <3>2
  <2>8. Types'
    BY <1>1, <1>14, <1>15, <2>2, <2>3, <2>5 DEF Types
  <2>9. Chain(set'.life, app'["A"].keys, fa, kms'.next["A"], app'["B"].keys, fb, kms'.next["B"], data', Steady')
    BY <1>1, <1>14, <1>17, <1>18, <1>21, <1>22, <2>2, <2>6
  <2>10. Chained'
    BY <2>9 DEF Chained
  <2> QED BY <1>1, <2>2, <2>3, <2>6, <2>7, <2>8, <2>10
<1>23. a.asked # <<>> /\ a.asked # <<"open_connect">>
  <2>1. a.asked = <<"open_connect">> => Head(a.asked) = "open_connect"
    BY <1>2, Heads
  <2> QED BY <1>1, <2>1
<1>24. CASE Filling(a, b, sig["A"], sig["B"], data)
  <2>1. /\ Fills(a) /\ ~a.own /\ b.verified /\ a.verified /\ data = <<>>
        /\ a.state = "ESTABLISHING_KEY_QUEUES"
    <3>1. ~Asks(a, 0)
      BY <1>2, <1>9 DEF Asks, AppState
    <3> QED BY <1>24, <3>1 DEF Filling, IsFull
  <2>2. a.retries \in Nat
    BY <1>2 DEF AppState
  <2>3. c.retries = 0 /\ c.asked = <<>> /\ OnlyKeys(c) /\ (Keys(c) < Size \/ Keys(c) = Size)
    BY <1>7, <1>8, <1>9, <1>10, <1>11, <2>1, <2>2, FillsOrFull
  <2>4. o = CheckQueues("A", c)
    BY <1>11, <1>19, <2>1 DEF GoesOn
  <2>5. CASE Keys(c) < Size
    <3>1. c.verified
      BY <1>12, <2>1
    <3>2. o.app \in AppState /\ o.sent = <<>> /\ o.says = <<>>
      BY <1>7, <2>3, <2>4, <2>5, <3>1, CheckAsks
    <3>3. o.app.keys = c.keys /\ o.app.state = c.state
      BY <1>7, <2>3, <2>4, <2>5, <3>1, CheckAsks
    <3>4. o.app.verified /\ Fills(o.app)
      BY <1>7, <2>3, <2>4, <2>5, <3>1, CheckAsks
    <3>5. o.app.own = c.own
      BY <1>7, <2>3, <2>4, <2>5, <3>1, CheckAsks
    <3>6. o.app.peer = c.peer
      BY <1>7, <2>3, <2>4, <2>5, <3>1, CheckAsks
    <3>7. /\ Types' /\ Chained' /\ data' = data /\ app'["B"] = b /\ app'["A"] = o.app
          /\ sig'["A"] = sig["A"] /\ sig'["B"] = sig["B"]
      BY <1>22, <3>2, <3>3
    <3>8. ~o.app.own /\ (o.app.peer <=> a.peer) /\ o.app.state = a.state
      BY <1>11, <1>12, <1>13, <2>1, <3>3, <3>5, <3>6
    <3>9. Filling(o.app, b, sig["A"], sig["B"], data)
      BY <1>24, <2>1, <3>4, <3>8 DEF Filling
    <3> QED BY <3>7, <3>9 DEF IInv, Handshake, Stage
  <2>6. CASE Keys(c) = Size /\ ~a.peer
    <3>1. PICK e : e = [c EXCEPT !.own = TRUE]
      OBVIOUS
    <3>2. /\ e \in AppState /\ e.keys = c.keys /\ e.asked = c.asked /\ e.retries = c.retries
          /\ e.state = c.state /\ e.own
      BY <1>7, <3>1 DEF AppState
    <3>3. e.verified = c.verified /\ e.peer = c.peer
      BY <1>7, <3>1 DEF AppState
    <3>4. o = Quiet(e)
      <4>1. ~(Cardinality(DOMAIN c.keys) < Size) /\ ~c.peer
        BY <1>13, <2>6, App004Assumption DEF Keys
      <4> QED BY <2>4, <3>1, <4>1 DEF CheckQueues
    <3>5. o.app = e /\ o.sent = <<>> /\ o.says = <<>>
      BY <3>4 DEF Quiet
    <3>6. /\ Types' /\ Chained' /\ data' = data /\ app'["B"] = b /\ app'["A"] = o.app
          /\ sig'["A"] = sig["A"] /\ sig'["B"] = sig["B"]
      BY <1>22, <3>2, <3>5
    <3>7. IsFull(e)
      BY <2>3, <2>6, <3>2 DEF IsFull, Asks, OnlyKeys, Keys
    <3>8. e.verified /\ ~e.peer /\ e.state = a.state
      BY <1>11, <1>12, <1>13, <2>1, <2>6, <3>2, <3>3
    <3>9. Filling(e, b, sig["A"], sig["B"], data)
      BY <1>24, <2>1, <2>6, <3>2, <3>7, <3>8 DEF Filling
    <3> QED BY <3>5, <3>6, <3>9 DEF IInv, Handshake, Stage
  <2>7. CASE Keys(c) = Size /\ a.peer
    <3>1. PICK e : e = [c EXCEPT !.state = "READY"]
      OBVIOUS
    <3>2. /\ e \in AppState /\ e.keys = c.keys /\ e.asked = c.asked /\ e.retries = c.retries
      BY <1>7, <3>1 DEF AppState, State
    <3>3. o = SendPacket(e)
      <4>1. ~(Cardinality(DOMAIN c.keys) < Size) /\ c.peer
        BY <1>13, <2>7, App004Assumption DEF Keys
      <4> QED BY <2>4, <3>1, <4>1 DEF CheckQueues, StartsSending
    <3>4. Ends("A", SendPacket(e), sig)
      BY <1>20, <3>3
    <3>5. OnlyKeys(e) /\ Keys(e) = Size /\ Keys(e) # 0
      BY <2>3, <2>7, <3>2, App004Assumption DEF OnlyKeys, Keys
    <3>6. Width(e) = Size
      BY <2>3, <3>2, <3>5, App004Assumption DEF Width
    <3>7. Chain(set.life, e.keys, fa, n2, app["B"].keys, fb, nb, data, Steady)
      BY <1>18, <3>2
    <3>8. Types' /\ Chained'
      BY <1>1, <1>14, <1>15, <1>17, <1>21, <3>2, <3>4, <3>5, <3>7, SendStep
    <3>9. app'["B"] = b /\ sig'["A"] = sig["A"] /\ sig'["B"] = sig["B"]
      BY <1>1, <1>14, <1>15, <1>17, <1>21, <3>2, <3>4, <3>5, <3>7, SendStep
    <3>10. app'["A"].timer /\ OnlyKeys(app'["A"])
      BY <1>1, <1>14, <1>15, <1>17, <1>21, <3>2, <3>4, <3>5, <3>7, SendStep
    <3>11. app'["A"].state = IF Keys(app'["A"]) = 0 THEN "WAIT" ELSE "READY"
      BY <1>1, <1>14, <1>15, <1>17, <1>21, <3>2, <3>4, <3>5, <3>7, SendStep
    <3>12. Width(e) \in Nat /\ Width(app'["A"]) \in Nat /\ Width(app'["A"]) >= Width(e)
      BY <1>1, <1>14, <1>15, <1>17, <1>21, <3>2, <3>4, <3>5, <3>7, SendStep
    <3>13. set.life % 2 = 1 => Width(app'["A"]) = Width(e)
      BY <1>1, <1>14, <1>15, <1>17, <1>21, <3>2, <3>4, <3>5, <3>7, SendStep
    <3>14. sig["A"] = <<>> /\ sig["B"] = <<>> /\ b.state = "READY" /\ IsFull(b)
      BY <1>24, <2>7 DEF Filling
    <3>15. Stage(set'.life, Regular', app'["A"], b, <<>>, <<>>, data')
      BY <1>2, <1>14, <3>6, <3>10, <3>11, <3>12, <3>13, <3>14, Begins
    <3> QED BY <3>8, <3>9, <3>14, <3>15 DEF IInv, Handshake
  <2> QED BY <2>3, <2>5, <2>6, <2>7
<1>25. CASE Sends(set.life, Regular, a, b, sig["A"], sig["B"])
  <2>1. /\ a.state \in {"READY", "WAIT"} /\ a.timer /\ OnlyKeys(a)
        /\ IF set.life % 2 = 0 THEN Width(a) >= Size ELSE Width(a) = Size
    BY <1>25 DEF Sends
  <2>2. PICK e : e = IF c.state = "WAIT" THEN [c EXCEPT !.state = "READY"] ELSE c
    OBVIOUS
  <2>3. /\ e \in AppState /\ e.keys = c.keys /\ e.asked = c.asked /\ e.retries = c.retries
        /\ e.state = "READY" /\ e.timer = c.timer
    <3>1. CASE c.state = "WAIT"
      <4>1. e = [c EXCEPT !.state = "READY"]
        BY <2>2, <3>1
      <4> QED BY <1>7, <4>1 DEF AppState, State
    <3>2. CASE c.state # "WAIT"
      BY <1>7, <1>11, <2>1, <2>2, <3>2
    <3> QED BY <3>1, <3>2
  <2>4. o = Quiet(e)
    BY <1>11, <1>19, <2>1, <2>2 DEF GoesOn
  <2>5. o.app = e /\ o.sent = <<>> /\ o.says = <<>>
    BY <2>4 DEF Quiet
  <2>6. /\ Types' /\ Chained' /\ data' = data /\ app'["B"] = b /\ app'["A"] = e
        /\ sig'["A"] = sig["A"] /\ sig'["B"] = sig["B"]
    BY <1>22, <2>3, <2>5
  <2>7. Width(e) = Width(a) /\ Keys(e) # 0
    <3>1. PICK r \in Nat, l \in Nat, k \in Nat : r = a.retries /\ l = Len(a.asked) /\ k = Keys(a)
      BY <1>2, <1>8, <1>9 DEF AppState
    <3>2. Width(c) = (k + 1) + r + (l - 1) /\ Keys(c) = k + 1
      BY <1>8, <1>9, <1>11, <3>1 DEF Width
    <3>3. Width(a) = k + r + l
      BY <3>1 DEF Width
    <3>4. (k + 1) + r + (l - 1) = k + r + l /\ k + 1 # 0
      OBVIOUS
    <3>5. Width(e) = Width(c) /\ Keys(e) = Keys(c)
      BY <2>3 DEF Width, Keys
    <3> QED BY <3>2, <3>3, <3>4, <3>5
  <2>8. OnlyKeys(e) /\ e.timer
    BY <1>10, <1>13, <2>1, <2>3 DEF OnlyKeys
  <2>9. Sends(set.life, Regular, e, b, sig["A"], sig["B"])
    BY <1>25, <2>3, <2>7, <2>8 DEF Sends
  <2> QED BY <1>14, <1>21, <2>6, <2>9 DEF IInv, Handshake, Stage
<1> QED BY <1>1, <1>23, <1>24, <1>25 DEF Handshake, Stage, Joining

-----------------------------------------------------------------------------
(* A request that moves between the KMS, the timer and the ground.         *)

(* An application waits for as many keys as before, though elsewhere.      *)
LEMMA Rerouted ==
  ASSUME IInv, NEW n \in Node,
         app[n].retries # 0 \/ (app[n].asked # <<>> /\ Head(app[n].asked) = "get_key"),
         NEW c \in AppState, c.keys = app[n].keys, c.state = app[n].state,
         c.verified = app[n].verified, c.own = app[n].own, c.peer = app[n].peer,
         c.timer = app[n].timer, c.retries + Len(c.asked) = app[n].retries + Len(app[n].asked),
         OnlyKeys(app[n]) => OnlyKeys(c),
         app' = [app EXCEPT ![n] = c], set' = set, sig' = sig, data' = data, kms' = kms,
         Steady' => Steady, Regular' => Regular
  PROVE  IInv'
<1> DEFINE a == app["A"]
           b == app["B"]
<1>1. Types /\ Chained /\ Handshake /\ app \in [Node -> AppState]
  BY DEF IInv, Types
<1>2. a \in AppState /\ b \in AppState /\ app[n] \in AppState
  BY <1>1, Here
<1>3. Types'
  BY <1>1 DEF Types
<1>4. app'[n] = c /\ \A m \in Node : m # n => app'[m] = app[m]
  BY <1>1
<1>5. app'["A"].keys = a.keys /\ app'["B"].keys = b.keys
  BY <1>4, Nodes
<1>6. Chained'
  BY <1>1, <1>5, ChainStays
<1>7. Keys(c) = Keys(app[n])
  BY DEF Keys
<1>8. Width(c) = Width(app[n])
  <2>1. PICK r \in Nat, l \in Nat, r2 \in Nat, l2 \in Nat, k \in Nat :
          /\ r = app[n].retries /\ l = Len(app[n].asked) /\ r2 = c.retries /\ l2 = Len(c.asked)
          /\ k = Keys(c)
    <3>1. Keys(c) \in Nat
      <4>1. PICK fa \in Nat, fb \in Nat :
              Chain(set.life, a.keys, fa, kms.next["A"], b.keys, fb, kms.next["B"], data, Steady)
        BY <1>1 DEF Chained
      <4>2. Stream(set.life, a.keys, fa, kms.next["A"]) /\ Stream(set.life, b.keys, fb, kms.next["B"])
        BY <4>1 DEF Chain
      <4>3. PICK na \in Nat, nb \in Nat, life \in Nat :
              na = kms.next["A"] /\ nb = kms.next["B"] /\ life = set.life
        BY <1>1, Here
      <4>4. Keys(a) \in Nat
        BY <4>2, <4>3, KeysSize
      <4>5. Keys(b) \in Nat
        BY <4>2, <4>3, KeysSize
      <4> QED BY <1>7, <4>4, <4>5, Nodes
    <3> QED BY <1>2, <3>1 DEF AppState
  <2>2. r2 + l2 = r + l
    BY <2>1
  <2>3. k + r2 + l2 = k + r + l
    BY <2>2
  <2>4. Width(c) = k + r2 + l2
    BY <2>1 DEF Width
  <2>5. Width(app[n]) = k + r + l
    BY <1>7, <2>1 DEF Width
  <2> QED BY <2>3, <2>4, <2>5
<1>9. (Fills(app[n]) => Fills(c)) /\ (IsFull(app[n]) => IsFull(c))
  BY <1>7 DEF Fills, IsFull, Asks
<1>10. Asks(app[n], 0) => Asks(c, 0)
  BY DEF Asks
<1>11. ~Joining(a, b, sig["A"], sig["B"], data)
  <2>1. a.asked = <<"open_connect">> => Head(a.asked) = "open_connect"
    BY <1>2, Heads
  <2>2. b.asked = <<"open_connect">> => Head(b.asked) = "open_connect"
    BY <1>2, Heads
  <2>3. CASE n = "A"
    BY <2>1, <2>3 DEF Joining
  <2>4. CASE n = "B"
    BY <2>2, <2>4 DEF Joining
  <2> QED BY <2>3, <2>4, Nodes
<1>12. CASE n = "A"
  <2>1. app'["A"] = c /\ app'["B"] = b
    BY <1>4, <1>12, Nodes
  <2>2. CASE Filling(a, b, sig["A"], sig["B"], data)
    <3>1. Filling(c, b, sig["A"], sig["B"], data)
      BY <1>9, <1>12, <2>2 DEF Filling
    <3> QED BY <1>3, <1>6, <2>1, <3>1 DEF IInv, Handshake, Stage
  <2>3. CASE Sends(set.life, Regular, a, b, sig["A"], sig["B"])
    <3>1. Sends(set.life, Regular', c, b, sig["A"], sig["B"])
      BY <1>7, <1>8, <1>12, <2>3 DEF Sends
    <3> QED BY <1>3, <1>6, <2>1, <3>1 DEF IInv, Handshake, Stage
  <2> QED BY <1>1, <1>11, <2>2, <2>3 DEF Handshake, Stage
<1>13. CASE n = "B"
  <2>1. app'["A"] = a /\ app'["B"] = c
    BY <1>4, <1>13, Nodes
  <2>2. CASE Filling(a, b, sig["A"], sig["B"], data)
    <3>1. Filling(a, c, sig["A"], sig["B"], data)
      BY <1>7, <1>9, <1>10, <1>13, <2>2 DEF Filling
    <3> QED BY <1>3, <1>6, <2>1, <3>1 DEF IInv, Handshake, Stage
  <2>3. CASE Sends(set.life, Regular, a, b, sig["A"], sig["B"])
    <3>1. Sends(set.life, Regular', a, c, sig["A"], sig["B"])
      BY <1>7, <1>8, <1>13, <2>3 DEF Sends
    <3> QED BY <1>3, <1>6, <2>1, <3>1 DEF IInv, Handshake, Stage
  <2> QED BY <1>1, <1>11, <2>2, <2>3 DEF Handshake, Stage
<1> QED BY <1>12, <1>13, Nodes

LEMMA StepScheduledRetry ==
  ASSUME IInv, NEW n \in Node, ScheduledRetry(n)
  PROVE  IInv'
<1>1. Types /\ Chained /\ Handshake /\ app[n] \in AppState /\ app[n].retries > 0
  BY DEF IInv, ScheduledRetry, Types
<1>2. PICK r \in Nat : r = app[n].retries /\ r > 0
  BY <1>1 DEF AppState
<1>3. PICK t : t = [app[n] EXCEPT !.retries = app[n].retries - 1]
  OBVIOUS
<1>4. /\ t \in AppState /\ t.keys = app[n].keys /\ t.retries = r - 1 /\ t.asked = app[n].asked
      /\ t.state = app[n].state /\ t.timer = app[n].timer
  BY <1>1, <1>2, <1>3 DEF AppState
<1>5. t.verified = app[n].verified /\ t.own = app[n].own /\ t.peer = app[n].peer
  BY <1>1, <1>3 DEF AppState
<1>6. PICK times \in Nat, c \in {GetKeyFromKMS(t, 1)} : c = GetKeyFromKMS(t, times) /\ times = 1
  OBVIOUS
<1>7. c \in AppState
  BY <1>4, <1>6, MoreAsked
<1>8. c.keys = t.keys /\ c.state = t.state /\ c.retries = t.retries
  BY <1>4, <1>6, MoreAsked
<1>9. c.verified = t.verified
  BY <1>4, <1>6, MoreAsked
<1>10. c.own = t.own
  BY <1>4, <1>6, MoreAsked
<1>11. c.peer = t.peer
  BY <1>4, <1>6, MoreAsked
<1>12. c.timer = t.timer
  BY <1>4, <1>6, MoreAsked
<1>13. Len(c.asked) = Len(t.asked) + times
  BY <1>4, <1>6, MoreLength
<1>14. OnlyKeys(t) => OnlyKeys(c)
  BY <1>4, <1>6, MoreAsked
<1>15. app' = [app EXCEPT ![n] = c] /\ UNCHANGED <<set, sig, data, kms, seen>>
  <2>1. app' = [app EXCEPT ![n] = GetKeyFromKMS([app[n] EXCEPT !.retries = app[n].retries - 1], 1)]
    BY DEF ScheduledRetry
  <2>2. GetKeyFromKMS([app[n] EXCEPT !.retries = app[n].retries - 1], 1) = c
    BY <1>3, <1>6
  <2> QED BY <2>1, <2>2 DEF ScheduledRetry
<1>16. c.retries + Len(c.asked) = app[n].retries + Len(app[n].asked)
  <2>1. PICK l \in Nat : l = Len(app[n].asked)
    BY <1>1 DEF AppState
  <2>2. (r - 1) + (l + 1) = r + l
    OBVIOUS
  <2> QED BY <1>2, <1>4, <1>6, <1>8, <1>13, <2>1, <2>2
<1>17. OnlyKeys(app[n]) => OnlyKeys(c)
  BY <1>4, <1>14 DEF OnlyKeys
<1>18. Steady' = Steady /\ Regular' = Regular
  BY <1>15 DEF Steady, Regular
<1>19. c.keys = app[n].keys /\ c.state = app[n].state /\ c.verified = app[n].verified
  BY <1>4, <1>5, <1>8, <1>9
<1>20. c.own = app[n].own
  BY <1>5, <1>10
<1>21. c.peer = app[n].peer
  BY <1>5, <1>11
<1>22. c.timer = app[n].timer
  BY <1>4, <1>12
<1>23. set' = set /\ sig' = sig /\ data' = data /\ kms' = kms /\ app[n].retries # 0
  BY <1>2, <1>15
<1> QED BY <1>7, <1>15, <1>16, <1>17, <1>18, <1>19, <1>20, <1>21, <1>22, <1>23, Rerouted

LEMMA StepKeyRefused ==
  ASSUME IInv, NEW n \in Node, KeyRefused(n)
  PROVE  IInv'
<1>1. Types /\ Chained /\ Handshake /\ app[n].asked # <<>> /\ Head(app[n].asked) = "get_key"
      /\ app \in [Node -> AppState] /\ app[n] \in AppState
  BY DEF IInv, KeyRefused, HeadAsked, Types
<1>2. PICK t : t = [app[n] EXCEPT !.asked = Tail(app[n].asked)]
  OBVIOUS
<1>3. t \in AppState
  BY <1>1, <1>2, Heads
<1>4. Len(Tail(app[n].asked)) = Len(app[n].asked) - 1 /\ Len(app[n].asked) \in Nat \ {0}
  BY <1>1, Heads
<1>5. OnlyKeys(app[n]) => OnlyKeys(t)
  BY <1>1, <1>2, Heads
<1>6. /\ t.keys = app[n].keys /\ t.state = app[n].state /\ t.retries = app[n].retries
      /\ t.asked = Tail(app[n].asked)
  BY <1>1, <1>2 DEF AppState
<1>7. /\ t.verified = app[n].verified /\ t.own = app[n].own /\ t.peer = app[n].peer
      /\ t.timer = app[n].timer
  BY <1>1, <1>2 DEF AppState
<1>8. /\ app' = [app EXCEPT ![n] = IF AsksAgain(n) THEN [t EXCEPT !.retries = @ + 1] ELSE t]
      /\ seen' = IF AsksAgain(n) THEN seen ELSE seen \cup {"refused"}
      /\ set' = set /\ sig' = sig /\ data' = data /\ kms' = kms
  BY <1>2 DEF KeyRefused, Answered
<1>9. CASE AsksAgain(n)
  <2>1. PICK r \in Nat, l \in Nat \ {0} : r = app[n].retries /\ l = Len(app[n].asked)
    BY <1>1, <1>4 DEF AppState
  <2>2. PICK c : c = [t EXCEPT !.retries = r + 1]
    OBVIOUS
  <2>3. /\ c \in AppState /\ c.keys = t.keys /\ c.state = t.state /\ c.retries = r + 1
        /\ c.asked = t.asked
    BY <1>3, <2>2 DEF AppState
  <2>4. c.verified = t.verified /\ c.own = t.own /\ c.peer = t.peer /\ c.timer = t.timer
    BY <1>3, <2>2 DEF AppState
  <2>5. app' = [app EXCEPT ![n] = c]
    BY <1>6, <1>8, <1>9, <2>1, <2>2
  <2>6. c.retries + Len(c.asked) = app[n].retries + Len(app[n].asked)
    <3>1. (r + 1) + (l - 1) = r + l
      OBVIOUS
    <3> QED BY <1>4, <1>6, <2>1, <2>3, <3>1
  <2>7. OnlyKeys(app[n]) => OnlyKeys(c)
    BY <1>5, <2>3 DEF OnlyKeys
  <2>8. Steady' = Steady /\ Regular' = Regular
    BY <1>8, <1>9 DEF Steady, Regular
  <2>9. c.keys = app[n].keys /\ c.state = app[n].state
    BY <1>6, <2>3
  <2>10. c.verified = app[n].verified
    BY <1>7, <2>4
  <2>11. c.own = app[n].own
    BY <1>7, <2>4
  <2>12. c.peer = app[n].peer
    BY <1>7, <2>4
  <2>13. c.timer = app[n].timer
    BY <1>7, <2>4
  <2> QED BY <1>1, <1>8, <2>3, <2>5, <2>6, <2>7, <2>8, <2>9, <2>10, <2>11, <2>12, <2>13, Rerouted
<1>10. CASE ~AsksAgain(n)
  <2> DEFINE a == app["A"]
             b == app["B"]
  <2>1. n = "B" /\ b.state # "ESTABLISHING_KEY_QUEUES" /\ "A" \in Node /\ "B" \in Node
    BY <1>10, Nodes DEF AsksAgain
  <2>2. app' = [app EXCEPT !["B"] = t] /\ "refused" \in seen'
    BY <1>8, <1>10, <2>1
  <2>3. app'["A"] = a /\ app'["B"] = t
    BY <1>1, <2>1, <2>2
  <2>4. Types'
    BY <1>1, <1>3, <1>8, <2>1, <2>2, ZenonT(60) DEF Types
  <2>5. Steady' => Steady
    BY <1>8, <1>10 DEF Steady
  <2>6. Chained'
    BY <1>1, <1>6, <1>8, <2>1, <2>3, <2>5, ChainStays
  <2>7. b.asked # <<"open_connect">>
    BY <1>1, <2>1, Heads
  <2>8. ~Joining(a, b, sig["A"], sig["B"], data)
    BY <1>1, <2>1, <2>7 DEF Joining
  <2>9. ~Filling(a, b, sig["A"], sig["B"], data)
    <3>1. ~Asks(b, 0)
      BY <1>1, <1>4, <2>1 DEF Asks, AppState
    <3> QED BY <2>1, <3>1 DEF Filling, IsFull
  <2>10. Sends(set.life, Regular, a, b, sig["A"], sig["B"])
    BY <1>1, <2>8, <2>9 DEF Handshake, Stage
  <2>11. ~Regular'
    BY <2>2 DEF Regular
  <2>12. Sends(set.life, Regular', a, t, sig["A"], sig["B"])
    BY <1>5, <1>6, <2>1, <2>10, <2>11 DEF Sends
  <2> QED BY <1>8, <2>3, <2>4, <2>6, <2>12 DEF IInv, Handshake, Stage
<1> QED BY <1>9, <1>10

-----------------------------------------------------------------------------
(* Packets, and steps that leave the applications alone.                   *)

LEMMA StepScheduledSend ==
  ASSUME IInv, ScheduledSend
  PROVE  IInv'
<1> DEFINE a == app["A"]
           b == app["B"]
<1>1. Types /\ Chained /\ Handshake /\ "A" \in Node /\ Peer("A") = "B"
  BY Nodes DEF IInv
<1>2. a \in AppState /\ b \in AppState /\ set.life \in Nat \ {0} /\ sig \in [Node -> Seq(Word)]
  BY <1>1, Here DEF Types
<1>3. UNCHANGED <<set, kms, seen>> /\ Steady' = Steady /\ Regular' = Regular
  BY DEF ScheduledSend, Steady, Regular
<1>4. CASE a.state # "READY"
  <2>1. PICK o : o = Quiet(a)
    OBVIOUS
  <2>2. o.app = a /\ o.sent = <<>> /\ o.says = <<>> /\ Ends("A", o, sig)
    BY <1>4, <2>1 DEF Quiet, Missed, ScheduledSend
  <2>3. o.says \in Seq(Word) /\ o.app \in AppState /\ o.app.keys = app["A"].keys
    BY <1>2, <2>2
  <2>4. Types' /\ Chained' /\ data' = data
    BY <1>1, <1>2, <1>3, <2>2, <2>3, TalkOfAlice
  <2>5. app'["A"] = o.app /\ app'["B"] = app["B"]
    BY <1>1, <1>2, <1>3, <2>2, <2>3, TalkOfAlice
  <2>6. sig'["A"] = sig["A"] /\ sig'["B"] = sig["B"]
    <3>1. sig'["A"] = sig["A"] /\ sig'["B"] = sig["B"] \o o.says
      BY <1>1, <1>2, <1>3, <2>2, <2>3, TalkOfAlice
    <3>2. PICK p \in Seq(Word) : p = sig["B"]
      BY <1>1, Here
    <3>3. p \o <<>> = p
      OBVIOUS
    <3> QED BY <2>2, <3>1, <3>2, <3>3
  <2> QED BY <1>1, <1>3, <2>2, <2>4, <2>5, <2>6 DEF IInv, Handshake
<1>5. CASE a.state = "READY"
  <2>1. Sends(set.life, Regular, a, b, sig["A"], sig["B"])
    BY <1>1, <1>5 DEF Handshake, Stage, Joining, Filling
  <2>2. /\ Keys(a) # 0 /\ OnlyKeys(a) /\ b.state = "READY" /\ OnlyKeys(b)
        /\ sig["A"] = <<>> /\ sig["B"] = <<>>
        /\ IF set.life % 2 = 0 THEN Width(a) >= Size ELSE Width(a) = Size
        /\ Regular => Width(b) = Size
    BY <1>5, <2>1 DEF Sends
  <2>3. PICK e : e = [a EXCEPT !.timer = FALSE]
    OBVIOUS
  <2>4. e \in AppState /\ e.keys = a.keys /\ e.asked = a.asked /\ e.retries = a.retries
    BY <1>2, <2>3 DEF AppState
  <2>5. OnlyKeys(e) /\ Keys(e) # 0 /\ Width(e) = Width(a)
    BY <2>2, <2>4 DEF OnlyKeys, Keys, Width
  <2>6. Ends("A", SendPacket(e), sig)
    BY <1>5, <2>3 DEF ScheduledSend
  <2>7. PICK na \in 0 .. Chunks, nb \in 0 .. Chunks : na = kms.next["A"] /\ nb = kms.next["B"]
    BY <1>1, Here
  <2>8. PICK fa \in Nat, fb \in Nat :
          Chain(set.life, e.keys, fa, na, app["B"].keys, fb, nb, data, Steady)
    BY <1>1, <2>4, <2>7 DEF Chained
  <2>9. /\ kms' \in [known : BOOLEAN, filled : [Node -> 0 .. Chunks], next : [Node -> 0 .. Chunks]]
        /\ \A n \in Node : kms'.next[n] <= kms'.filled[n]
        /\ kms'.next["A"] = na /\ kms'.next["B"] = nb
    BY <1>1, <1>3, <2>7 DEF Types
  <2>10. Types' /\ Chained'
    BY <1>1, <1>2, <1>3, <2>4, <2>5, <2>6, <2>8, <2>9, SendStep
  <2>11. app'["B"] = b /\ sig'["A"] = sig["A"] /\ sig'["B"] = sig["B"]
    BY <1>1, <1>2, <1>3, <2>4, <2>5, <2>6, <2>8, <2>9, SendStep
  <2>12. app'["A"].timer /\ OnlyKeys(app'["A"])
    BY <1>1, <1>2, <1>3, <2>4, <2>5, <2>6, <2>8, <2>9, SendStep
  <2>13. app'["A"].state = IF Keys(app'["A"]) = 0 THEN "WAIT" ELSE "READY"
    BY <1>1, <1>2, <1>3, <2>4, <2>5, <2>6, <2>8, <2>9, SendStep
  <2>14. Width(e) \in Nat /\ Width(app'["A"]) \in Nat /\ Width(app'["A"]) >= Width(e)
    BY <1>1, <1>2, <1>3, <2>4, <2>5, <2>6, <2>8, <2>9, SendStep
  <2>15. set.life % 2 = 1 => Width(app'["A"]) = Width(e)
    BY <1>1, <1>2, <1>3, <2>4, <2>5, <2>6, <2>8, <2>9, SendStep
  <2>16. IF set.life % 2 = 0 THEN Width(app'["A"]) >= Size ELSE Width(app'["A"]) = Size
    <3>1. PICK w \in Nat, w2 \in Nat : w = Width(e) /\ w2 = Width(app'["A"])
      BY <2>14
    <3>2. w2 >= w /\ (set.life % 2 = 1 => w2 = w) /\ IF set.life % 2 = 0 THEN w >= Size ELSE w = Size
      BY <2>2, <2>5, <2>14, <2>15, <3>1
    <3>3. PICK x \in {0, 1} : x = set.life % 2
      BY <1>2
    <3>4. IF x = 0 THEN w2 >= Size ELSE w2 = Size
      BY <3>2, <3>3, App004Assumption
    <3> QED BY <3>1, <3>3, <3>4
  <2>17. Sends(set.life, Regular, app'["A"], b, sig["A"], sig["B"])
    BY <2>2, <2>12, <2>13, <2>16 DEF Sends
  <2> QED BY <1>3, <2>10, <2>11, <2>17 DEF IInv, Handshake, Stage
<1> QED BY <1>4, <1>5

(* Packets are on the way only when both ends have begun.                  *)
LEMMA OnTheWay ==
  ASSUME IInv, data # <<>>
  PROVE  Sends(set.life, Regular, app["A"], app["B"], sig["A"], sig["B"])
  BY DEF IInv, Handshake, Stage, Joining, Filling

LEMMA StepDataLost ==
  ASSUME IInv, DataLost
  PROVE  IInv'
<1> DEFINE a == app["A"]
           b == app["B"]
<1>1. /\ Types /\ Chained /\ data # <<>> /\ data' = Tail(data) /\ "lost" \in seen'
      /\ UNCHANGED <<set, app, sig, kms>>
  BY DEF IInv, DataLost
<1>2. Sends(set.life, Regular, a, b, sig["A"], sig["B"])
  BY <1>1, OnTheWay
<1>3. ~Steady' /\ ~Regular'
  BY <1>1 DEF Steady, Regular
<1>4. Sends(set.life, Regular', a, b, sig["A"], sig["B"])
  BY <1>2, <1>3 DEF Sends
<1>5. Types'
  <2>1. data \in Seq(Index)
    BY <1>1 DEF Types
  <2>2. Tail(data) \in Seq(Index)
    BY <1>1, <2>1
  <2> QED BY <1>1, <2>2 DEF Types
<1>6. PICK life \in Nat \ {0}, d \in Seq(Nat), na \in Nat, nb \in Nat, st \in BOOLEAN :
        /\ life = set.life /\ d = data /\ na = kms.next["A"] /\ nb = kms.next["B"] /\ st = Steady
  BY <1>1, Here DEF Steady
<1>7. PICK fa \in Nat, fb \in Nat : Chain(life, a.keys, fa, na, b.keys, fb, nb, d, st)
  BY <1>1, <1>6 DEF Chained
<1>8. Chain(life, a.keys, fa, na, b.keys, fb, nb, Tail(d), Steady')
  <2>1. Chain(life, a.keys, fa, na, b.keys, fb, nb, Tail(d), FALSE)
    BY <1>1, <1>6, <1>7, ChainLost
  <2>2. PICK firm \in {Steady'} : firm => FALSE
    BY <1>3
  <2>3. Chain(life, a.keys, fa, na, b.keys, fb, nb, Tail(d), firm)
    BY <2>1, <2>2, ChainWeaker
  <2> QED BY <2>2, <2>3
<1>9. Chain(set'.life, app'["A"].keys, fa, kms'.next["A"], app'["B"].keys, fb, kms'.next["B"], data', Steady')
  BY <1>1, <1>6, <1>8
<1>10. Chained'
  BY <1>9 DEF Chained
<1> QED BY <1>1, <1>4, <1>5, <1>10 DEF IInv, Handshake, Stage

LEMMA StepElsewhere ==
  ASSUME IInv, NewApp \/ (\E n \in Node : Filled(n)) \/ UNCHANGED vars
  PROVE  IInv'
<1>1. Types /\ Chained /\ Handshake
  BY DEF IInv
<1>2. UNCHANGED <<set, app, sig, data, seen>> /\ kms'.next = kms.next
  <2>1. kms \in [known : BOOLEAN, filled : [Node -> 0 .. Chunks], next : [Node -> 0 .. Chunks]]
    BY <1>1 DEF Types
  <2>2. NewApp => UNCHANGED <<set, app, sig, data, seen>> /\ kms'.next = kms.next
    BY <2>1 DEF NewApp
  <2>3. ASSUME NEW n \in Node, Filled(n)
        PROVE  UNCHANGED <<set, app, sig, data, seen>> /\ kms'.next = kms.next
    BY <2>1, <2>3 DEF Filled
  <2> QED BY <2>2, <2>3 DEF vars
<1>3. Types'
  <2>1. kms \in [known : BOOLEAN, filled : [Node -> 0 .. Chunks], next : [Node -> 0 .. Chunks]]
        /\ \A n \in Node : kms.next[n] <= kms.filled[n]
    BY <1>1 DEF Types
  <2>2. /\ kms' \in [known : BOOLEAN, filled : [Node -> 0 .. Chunks], next : [Node -> 0 .. Chunks]]
        /\ \A n \in Node : kms'.next[n] <= kms'.filled[n]
    <3>1. CASE NewApp
      BY <2>1, <3>1 DEF NewApp
    <3>2. CASE \E n \in Node : Filled(n)
      <4>1. PICK n \in Node : Filled(n)
        BY <3>2
      <4>2. PICK k : k = kms.filled[n] + 1
        OBVIOUS
      <4>3. k \in 0 .. Chunks /\ kms.filled[n] <= k
        BY <2>1, <4>1, <4>2, App004Assumption DEF Filled
      <4>4. PICK filled : filled = [kms.filled EXCEPT ![n] = k]
        OBVIOUS
      <4>5. kms' = [kms EXCEPT !.filled = filled]
        BY <2>1, <4>1, <4>2, <4>4 DEF Filled
      <4>6. filled \in [Node -> 0 .. Chunks]
        BY <2>1, <4>3, <4>4
      <4>7. \A m \in Node : kms.next[m] <= filled[m]
        <5>1. \A m \in Node : filled[m] = IF m = n THEN k ELSE kms.filled[m]
          BY <2>1, <4>4
        <5>2. kms.next[n] <= k
          <6>1. kms.next[n] \in Nat /\ kms.filled[n] \in Nat /\ kms.next[n] <= kms.filled[n] /\ k \in Nat
            BY <2>1, <4>3, App004Assumption
          <6> QED BY <4>3, <6>1
        <5> QED BY <2>1, <5>1, <5>2
      <4> QED BY <2>1, <4>5, <4>6, <4>7
    <3>3. CASE UNCHANGED vars
      BY <2>1, <3>3 DEF vars
    <3> QED BY <3>1, <3>2, <3>3
  <2> QED BY <1>1, <1>2, <2>2 DEF Types
<1>4. Chained'
  <2>1. Steady' => Steady
    BY <1>2 DEF Steady
  <2> QED BY <1>1, <1>2, <2>1, ChainStays
<1>5. Handshake'
  BY <1>1, <1>2 DEF Handshake, Regular
<1> QED BY <1>3, <1>4, <1>5 DEF IInv

(* Bob takes a packet: he moves his stream to the key it names, uses that  *)
(* key, and asks for another for each key that has left the stream.        *)
LEMMA StepDataArrives ==
  ASSUME IInv, DataArrives
  PROVE  IInv'
<1> DEFINE a == app["A"]
           b == app["B"]
<1>1. Types /\ Chained /\ data # <<>> /\ "A" \in Node /\ "B" \in Node
  BY Nodes DEF IInv, DataArrives
<1>2. Sends(set.life, Regular, a, b, sig["A"], sig["B"])
  BY <1>1, OnTheWay
<1>3. a \in AppState /\ b \in AppState /\ app \in [Node -> AppState]
  BY <1>1, Here DEF Types
<1>4. PICK life \in Nat \ {0}, d \in Seq(Nat), na \in 0 .. Chunks, nb \in 0 .. Chunks, st \in BOOLEAN :
        /\ life = set.life /\ d = data /\ na = kms.next["A"] /\ nb = kms.next["B"] /\ st = Steady
  BY <1>1, Here DEF Steady
<1>5. na \in Nat /\ nb \in Nat /\ d # <<>> /\ Head(d) = d[1]
  BY <1>1, <1>4, App004Assumption
<1>6. PICK fa \in Nat, fb \in Nat : Chain(life, a.keys, fa, na, b.keys, fb, nb, d, st)
  BY <1>1, <1>4 DEF Chained
<1>7. PICK keys, rest, late, used :
        /\ keys = SyncStream(b.keys, d[1])
        /\ rest = (IF DOMAIN keys = {} THEN keys ELSE GetKey(keys))
        /\ late = (IF InSync(b.keys, d[1]) THEN 0 ELSE 1)
        /\ used = (IF DOMAIN keys = {} \/ Cardinality(DOMAIN rest) < Cardinality(DOMAIN keys)
                   THEN 1 ELSE 0)
  OBVIOUS
<1>8. late \in Nat /\ used \in Nat
  BY <1>7
<1>9. PICK times \in Nat : times = late + used
  BY <1>8
<1>10. PICK e : e = [b EXCEPT !.keys = rest, !.state = "READY"]
  OBVIOUS
<1>11. PICK c : c = GetKeyFromKMS(e, times)
  OBVIOUS
<1>12. /\ app' = [app EXCEPT !["B"] = c]
       /\ seen' = seen \cup (IF d[1] \in DOMAIN keys THEN {} ELSE {"late"})
                       \cup (IF DOMAIN keys = {} \/ First(keys) = d[1] THEN {} ELSE {"another"})
       /\ data' = Tail(data) /\ UNCHANGED <<set, sig, kms>>
  BY <1>4, <1>5, <1>7, <1>9, <1>10, <1>11 DEF DataArrives
<1>13. PICK f2 \in Nat :
         /\ Chain(life, a.keys, fa, na, rest, f2, nb, Tail(d), st /\ d[1] \in DOMAIN keys)
         /\ st /\ d[1] \in DOMAIN keys =>
              f2 = fb + (IF InSync(b.keys, d[1]) THEN 0 ELSE 1)
                      + (IF DOMAIN keys = {} \/ Cardinality(DOMAIN rest) < Cardinality(DOMAIN keys)
                         THEN 1 ELSE 0)
  BY <1>5, <1>6, <1>7, ChainArrives
<1>14. st /\ d[1] \in DOMAIN keys => f2 = fb + late + used
  BY <1>7, <1>13
<1>15. Stream(life, rest, f2, nb) /\ Stream(life, b.keys, fb, nb)
  BY <1>6, <1>13 DEF Chain
<1>16. rest \in Stock
  BY <1>15, StreamIsStock
<1>17. e \in AppState /\ e.keys = rest /\ e.state = "READY" /\ e.asked = b.asked /\ e.retries = b.retries
  BY <1>3, <1>10, <1>16 DEF AppState, State
<1>18. c \in AppState
  BY <1>11, <1>17, MoreAsked
<1>19. c.keys = e.keys /\ c.state = e.state /\ c.retries = e.retries
  BY <1>11, <1>17, MoreAsked
<1>20. Len(c.asked) = Len(e.asked) + times
  BY <1>11, <1>17, MoreLength
<1>21. OnlyKeys(e) => OnlyKeys(c)
  <2>1. e \in AppState /\ times \in Nat /\ c = GetKeyFromKMS(e, times)
    BY <1>11, <1>17
  <2> QED BY <2>1, MoreAsked
<1>22. app'["A"] = a /\ app'["B"] = c
  BY <1>1, <1>3, <1>12, Nodes
<1>23. Types'
  <2>1. data \in Seq(Index)
    BY <1>1 DEF Types
  <2>2. Tail(data) \in Seq(Index)
    BY <1>1, <2>1
  <2>3. app' \in [Node -> AppState]
    BY <1>1, <1>3, <1>12, <1>18
  <2> QED BY <1>1, <1>12, <2>2, <2>3 DEF Types
<1>24. Steady' => st /\ d[1] \in DOMAIN keys
  BY <1>4, <1>12 DEF Steady
<1>25. Chain(set'.life, app'["A"].keys, fa, kms'.next["A"], app'["B"].keys, f2, kms'.next["B"], data', Steady')
  <2>1. PICK firm \in {Steady'} : firm => st /\ d[1] \in DOMAIN keys
    BY <1>24
  <2>2. Chain(life, a.keys, fa, na, rest, f2, nb, Tail(d), firm)
    BY <1>13, <2>1, ChainWeaker
  <2> QED BY <1>4, <1>12, <1>17, <1>19, <1>22, <2>1, <2>2
<1>26. Chained'
  BY <1>25 DEF Chained
<1>27. Regular' => Regular /\ Steady'
  BY <1>12 DEF Regular, Steady
<1>28. Regular' => Width(c) = Size
  <2>1. SUFFICES ASSUME Regular' PROVE Width(c) = Size
    OBVIOUS
  <2>2. f2 = fb + late + used
    BY <1>14, <1>24, <1>27, <2>1
  <2>3. Width(b) = Size
    BY <1>2, <1>27, <2>1 DEF Sends
  <2>4. Keys(b) = nb - fb
    BY <1>5, <1>15, KeysSize
  <2>5. Keys(c) = nb - f2
    BY <1>5, <1>15, <1>17, <1>19, KeysSize
  <2>6. PICK r \in Nat, l \in Nat : r = b.retries /\ l = Len(b.asked)
    <3>1. b.retries \in Nat /\ b.asked \in Seq(Ask)
      BY <1>3 DEF AppState
    <3>2. Len(b.asked) \in Nat
      BY <3>1
    <3> QED BY <3>1, <3>2
  <2>7. Width(b) = (nb - fb) + r + l
    BY <2>4, <2>6 DEF Width
  <2>8. Width(c) = (nb - f2) + r + (l + times)
    BY <1>17, <1>19, <1>20, <2>5, <2>6 DEF Width
  <2>9. (nb - f2) + r + (l + times) = (nb - fb) + r + l
    BY <1>5, <1>8, <1>9, <2>2
  <2> QED BY <2>3, <2>7, <2>8, <2>9
<1>29. OnlyKeys(c) /\ c.state = "READY"
  <2>1. OnlyKeys(e)
    BY <1>2, <1>17 DEF Sends, OnlyKeys
  <2> QED BY <1>17, <1>19, <1>21, <2>1
<1>30. Sends(set.life, Regular', a, c, sig["A"], sig["B"])
  BY <1>2, <1>28, <1>29 DEF Sends
<1> QED BY <1>12, <1>22, <1>23, <1>26, <1>30 DEF IInv, Handshake, Stage

-----------------------------------------------------------------------------
(* The invariant holds.                                                    *)

LEMMA Starts ==
  ASSUME Init
  PROVE  IInv
<1>1. PICK e : e = NoKeys
  OBVIOUS
<1>2. e \in Stock /\ DOMAIN e = {}
  <2>1. e \in [{} -> Nat] /\ {} \in SUBSET Index
    BY <1>1 DEF NoKeys
  <2> QED BY <2>1 DEF Stock
<1>3. "A" \in Node /\ "B" \in Node /\ <<"open_connect">> \in Seq(Ask) /\ <<>> \in Seq(Ask)
      /\ <<>> \in Seq(Word) /\ <<>> \in Seq(Index)
  BY Nodes DEF Ask
<1>4. PICK asks : asks = [n \in Node |-> IF n = "A" THEN <<"open_connect">> ELSE <<>>]
  OBVIOUS
<1>5. PICK st : st = [n \in Node |-> IF n = "A" THEN "ESTABLISHING_ASSOCIATIONS" ELSE "READY"]
  OBVIOUS
<1>6. asks \in [Node -> Seq(Ask)] /\ st \in [Node -> State]
  BY <1>3, <1>4, <1>5 DEF State
<1>7. app = [n \in Node |->
         [state |-> st[n], verified |-> FALSE, keys |-> e, asked |-> asks[n], retries |-> 0,
          own |-> FALSE, peer |-> FALSE, timer |-> FALSE]]
  BY <1>1, <1>4, <1>5 DEF Init
<1>8. app \in [Node -> AppState]
  BY <1>2, <1>6, <1>7 DEF AppState
<1>9. kms = [known |-> FALSE, filled |-> [n \in Node |-> 0], next |-> [n \in Node |-> 0]]
  BY DEF Init
<1>10. Types
  BY <1>3, <1>8, <1>9, App004Assumption DEF Init, Types
<1>11. /\ app["A"].keys = e /\ app["B"].keys = e /\ kms.next["A"] = 0 /\ kms.next["B"] = 0
       /\ data = <<>> /\ sig["A"] = <<>> /\ sig["B"] = <<>> /\ set.life \in Nat \ {0}
  BY <1>3, <1>7, <1>9, <1>10, Here DEF Init
<1>12. Chain(set.life, app["A"].keys, 0, kms.next["A"], app["B"].keys, 0, kms.next["B"], data, Steady)
  BY <1>1, <1>11, ChainBegins
<1>13. Chained
  BY <1>12 DEF Chained
<1>14. Keys(app["A"]) = 0 /\ Keys(app["B"]) = 0
  BY <1>2, <1>11, FS_EmptySet DEF Keys
<1>15. /\ app["A"].state = "ESTABLISHING_ASSOCIATIONS" /\ app["B"].state = "READY"
       /\ app["A"].asked = <<"open_connect">> /\ app["B"].asked = <<>>
  BY <1>3, <1>4, <1>5, <1>7
<1>16. /\ app["A"].retries = 0 /\ app["B"].retries = 0
       /\ ~app["A"].verified /\ ~app["A"].own /\ ~app["A"].peer /\ ~app["B"].verified
  BY <1>3, <1>7
<1>17. <<>> # <<"ksid_ok">>
  OBVIOUS
<1>18. Joining(app["A"], app["B"], sig["A"], sig["B"], data)
  BY <1>11, <1>14, <1>15, <1>16, <1>17 DEF Joining
<1> QED BY <1>10, <1>13, <1>18 DEF IInv, Handshake, Stage

LEMMA Keeps ==
  ASSUME IInv, [Next]_vars
  PROVE  IInv'
<1>1. CASE AssociationOpened
  BY <1>1, StepAssociationOpened
<1>2. CASE AssociationJoined
  BY <1>2, StepAssociationJoined
<1>3. ASSUME NEW n \in Node, KeyAnswered(n) PROVE IInv'
  <2>1. n = "A" \/ n = "B"
    BY Nodes
  <2> QED BY <1>3, <2>1, AliceHasKey, BobHasKey
<1>4. ASSUME NEW n \in Node, KeyRefused(n) PROVE IInv'
  BY <1>4, StepKeyRefused
<1>5. ASSUME NEW n \in Node, ScheduledRetry(n) PROVE IInv'
  BY <1>5, StepScheduledRetry
<1>6. ASSUME NewApp \/ (\E n \in Node : Filled(n)) \/ UNCHANGED vars PROVE IInv'
  BY <1>6, StepElsewhere
<1>7. CASE KsidArrives
  BY <1>7, StepKsidArrives
<1>8. CASE KsidAnswered
  BY <1>8, StepKsidAnswered
<1>9. CASE EstablishQueues
  BY <1>9, StepEstablishQueues
<1>10. CASE QueuesAnswered
  BY <1>10, StepQueuesAnswered
<1>11. CASE ScheduledSend
  BY <1>11, StepScheduledSend
<1>12. CASE DataArrives
  BY <1>12, StepDataArrives
<1>13. CASE DataLost
  BY <1>13, StepDataLost
<1> QED BY <1>1, <1>2, <1>3, <1>4, <1>5, <1>6, <1>7, <1>8, <1>9, <1>10, <1>11, <1>12, <1>13 DEF Next

LEMMA Invariant == Spec => []IInv
<1>1. Init => IInv
  BY Starts
<1>2. IInv /\ [Next]_vars => IInv'
  BY Keeps
<1> QED BY <1>1, <1>2, PTL DEF Spec

-----------------------------------------------------------------------------
(* The properties.                                                         *)

LEMMA TypesHold ==
  ASSUME IInv
  PROVE  TypeOK
<1>1. Types /\ Chained
  BY DEF IInv
<1>2. PICK fa \in Nat, fb \in Nat :
        /\ Stream(set.life, app["A"].keys, fa, kms.next["A"])
        /\ Stream(set.life, app["B"].keys, fb, kms.next["B"])
  BY <1>1 DEF Chained, Chain
<1>3. ASSUME NEW n \in Node
      PROVE  /\ app[n].state \in State /\ app[n].verified \in BOOLEAN
             /\ DOMAIN app[n].keys \subseteq Index
             /\ \A i \in DOMAIN app[n].keys : app[n].keys[i] \in 0 .. set.life
             /\ app[n].retries \in Nat
             /\ kms.next[n] \in 0 .. kms.filled[n] /\ kms.filled[n] \in 0 .. Chunks
  <2>1. app[n] \in AppState
    BY <1>1 DEF Types
  <2>2. app[n].state \in State /\ app[n].verified \in BOOLEAN /\ app[n].retries \in Nat
    BY <2>1 DEF AppState
  <2>3. kms.next[n] \in 0 .. Chunks /\ kms.filled[n] \in 0 .. Chunks /\ kms.next[n] <= kms.filled[n]
    BY <1>1 DEF Types
  <2>4. PICK f \in Nat : Stream(set.life, app[n].keys, f, kms.next[n])
    BY <1>2, Nodes
  <2>5. DOMAIN app[n].keys = f .. kms.next[n] - 1
        /\ \A i \in DOMAIN app[n].keys : app[n].keys[i] \in 0 .. set.life
    BY <2>4 DEF Stream
  <2>6. f .. kms.next[n] - 1 \subseteq Index
    BY <2>3, App004Assumption DEF Index
  <2>7. kms.next[n] \in 0 .. kms.filled[n]
    BY <2>3, App004Assumption
  <2> QED BY <2>2, <2>3, <2>5, <2>6, <2>7
<1>4. \A i \in DOMAIN data : data[i] \in Index
  BY <1>1 DEF Types
<1> QED BY <1>1, <1>3, <1>4 DEF Types, TypeOK

LEMMA SendersSend ==
  ASSUME IInv
  PROVE  SendsOn
<1>1. TypeOK
  BY TypesHold
<1>2. CASE Joining(app["A"], app["B"], sig["A"], sig["B"], data)
  BY <1>1, <1>2 DEF Joining, SendsOn, Sending
<1>3. CASE Filling(app["A"], app["B"], sig["A"], sig["B"], data)
  BY <1>1, <1>3 DEF Filling, SendsOn, Sending
<1>4. CASE Sends(set.life, Regular, app["A"], app["B"], sig["A"], sig["B"])
  <2>1. app["A"].state = "READY" => Keys(app["A"]) # 0
    BY <1>4 DEF Sends
  <2>2. app["A"].state = "READY" => DOMAIN app["A"].keys # {}
    BY <2>1, FS_EmptySet DEF Keys
  <2> QED BY <1>1, <1>4, <2>2 DEF Sends, SendsOn
<1> QED BY <1>2, <1>3, <1>4 DEF IInv, Handshake, Stage

(* An application that waits for nothing but keys has this window.         *)
LEMMA WindowIsWidth ==
  ASSUME NEW n, app[n] \in AppState, OnlyKeys(app[n]), Keys(app[n]) \in Nat
  PROVE  Window(n) = Width(app[n])
<1>1. {i \in DOMAIN app[n].asked : app[n].asked[i] = "get_key"} = 1 .. Len(app[n].asked)
  BY DEF AppState, OnlyKeys
<1>2. Len(app[n].asked) \in Nat /\ app[n].retries \in Nat
  BY DEF AppState
<1>3. Cardinality(1 .. Len(app[n].asked)) = Len(app[n].asked)
  <2>1. 1 \in Int /\ Len(app[n].asked) \in Int
    BY <1>2
  <2>2. Cardinality(1 .. Len(app[n].asked))
          = IF 1 > Len(app[n].asked) THEN 0 ELSE Len(app[n].asked) - 1 + 1
    BY <2>1, FS_Interval
  <2> QED BY <1>2, <2>2
<1> QED BY <1>1, <1>3 DEF Window, Width, Keys

LEMMA EndsInStep ==
  ASSUME IInv
  PROVE  InStep
<1> DEFINE a == app["A"]
           b == app["B"]
<1>1. Types /\ Chained /\ Handshake
  BY DEF IInv
<1>2. PICK life \in Nat \ {0}, d \in Seq(Nat), na \in Nat, nb \in Nat, st \in BOOLEAN :
        /\ life = set.life /\ d = data /\ na = kms.next["A"] /\ nb = kms.next["B"] /\ st = Steady
  BY <1>1, Here DEF Steady
<1>3. PICK fa \in Nat, fb \in Nat : Chain(life, a.keys, fa, na, b.keys, fb, nb, d, st)
  BY <1>1, <1>2 DEF Chained
<1>4. Stream(life, a.keys, fa, na) /\ Stream(life, b.keys, fb, nb)
  BY <1>3 DEF Chain
<1>5. Keys(a) \in Nat
  BY <1>2, <1>4, KeysSize
<1>6. Keys(b) \in Nat
  BY <1>2, <1>4, KeysSize
<1>7. a \in AppState /\ b \in AppState
  BY <1>1, Here
<1>8. ASSUME Sending
      PROVE  /\ IF Even THEN Window("A") >= Size ELSE Window("A") = Size
             /\ Regular => Window("B") = Size
  <2>1. Sends(set.life, Regular, a, b, sig["A"], sig["B"])
    BY <1>1, <1>8 DEF Sending, Handshake, Stage, Joining, Filling
  <2>2. OnlyKeys(a) /\ OnlyKeys(b)
    BY <2>1 DEF Sends
  <2>3. Window("A") = Width(a)
    BY <1>5, <1>7, <2>2, WindowIsWidth
  <2>4. Window("B") = Width(b)
    BY <1>6, <1>7, <2>2, WindowIsWidth
  <2> QED BY <2>1, <2>3, <2>4 DEF Sends, Even
<1>9. ASSUME NEW j \in DOMAIN d
      PROVE  d[j] \in DOMAIN b.keys \/ d[j] >= nb
  <2>1. j \in 1 .. Len(d) /\ Len(d) \in Nat /\ d[j] \in Nat
    OBVIOUS
  <2>2. Due(d, fa, j) = d[j]
    BY <2>1 DEF Due
  <2>3. 1 \in 1 .. Len(d) + 1 /\ j \in 1 .. Len(d) + 1 /\ 1 <= j
    BY <2>1
  <2>4. fb <= Due(d, fa, 1) /\ Due(d, fa, 1) <= Due(d, fa, j)
    BY <1>3, <2>3 DEF Chain
  <2>5. Due(d, fa, 1) \in Nat
    BY <2>1 DEF Due
  <2>6. fb <= d[j]
    BY <2>1, <2>2, <2>4, <2>5
  <2>7. DOMAIN b.keys = fb .. nb - 1
    BY <1>4 DEF Stream
  <2> QED BY <2>1, <2>6, <2>7
<1> QED BY <1>2, <1>8, <1>9 DEF InStep

(* The states of both applications, their streams, the packets and the     *)
(* chunks of the session keep their types, whatever the queue size and the *)
(* lifetimes.                                                              *)
THEOREM TypeCorrect == Spec => []TypeOK
<1>1. IInv => TypeOK
  BY TypesHold
<1> QED BY <1>1, Invariant, PTL

(* An application that has begun to send has its timer pending, and is     *)
(* READY only with a key: SendPacket never returns without a timer.        *)
THEOREM SendsOnHolds == Spec => []SendsOn
<1>1. IInv => SendsOn
  BY SendersSend
<1> QED BY <1>1, Invariant, PTL

(* Both windows keep the size of the queue (Alice's may grow where the     *)
(* lifetime is even, Bob's is kept as long as nothing is lost, late or     *)
(* refused), and Bob has or will get the key of every packet on the way.   *)
THEOREM InStepHolds == Spec => []InStep
<1>1. IInv => InStep
  BY EndsInStep
<1> QED BY <1>1, Invariant, PTL
=============================================================================
