--------------------------- MODULE KmsRelayProofs ---------------------------
(***************************************************************************)
(* Proofs about KmsRelay for paths of any length, any number of keys and   *)
(* any capacity of the RELAY buffers.                                      *)
(***************************************************************************)
EXTENDS KmsRelay, SBufferCoreProofs, SequenceTheorems

(* A buffer of keys that are never split.                                  *)
Plain(b) == b \in Buffer /\ \A k \in KeyIds : b.lo[k] = 0

Owned(b) == {k \in KeyIds : Held(b, k)}

-----------------------------------------------------------------------------
(* The operations on a buffer whose keys are never split, whatever it holds*)
(* and whether or not a check fails.                                       *)

LEMMA PlainFields ==
  ASSUME NEW b, Plain(b)
  PROVE  /\ b.st \in [KeyIds -> KeyState] /\ b.lo \in [KeyIds -> 0 .. MaxLen]
         /\ b.hi \in [KeyIds -> 0 .. MaxLen] /\ b.supply \in [SupplyIds -> SUBSET Cell]
         /\ b.bits \in Nat /\ b.nrKeys \in Nat /\ b.nrBits \in Nat /\ b.failed \in BOOLEAN
         /\ \A k \in KeyIds : b.lo[k] = 0 /\ KeyLen(b, k) \in Nat
         /\ b = [ st |-> b.st, lo |-> b.lo, hi |-> b.hi, supply |-> b.supply,
                  bits |-> b.bits, nrKeys |-> b.nrKeys, nrBits |-> b.nrBits,
                  failed |-> b.failed ]
  BY BoundsNat DEF Plain, Buffer, KeyLen

LEMMA PlainStop ==
  ASSUME NEW b, Plain(b)
  PROVE  Plain(Stop(b)) /\ Stop(b).st = b.st /\ Stop(b).supply = b.supply
<1>1. PICK v \in BOOLEAN : v = TRUE
  OBVIOUS
<1>2. Stop(b) = [b EXCEPT !.failed = v]
  BY <1>1 DEF Stop
<1>3. Stop(b) = [ st |-> b.st, lo |-> b.lo, hi |-> b.hi, supply |-> b.supply,
                  bits |-> b.bits, nrKeys |-> b.nrKeys, nrBits |-> b.nrBits,
                  failed |-> v ]
  BY <1>2, PlainFields
<1>4. Stop(b) \in Buffer /\ Stop(b).lo = b.lo
  BY <1>3, PlainFields DEF Buffer
<1> QED BY <1>3, <1>4, PlainFields DEF Plain

LEMMA PlainBits ==
  ASSUME NEW b, Plain(b), NEW n \in Nat
  PROVE  /\ Plain([b EXCEPT !.bits = n]) /\ [b EXCEPT !.bits = n].st = b.st
         /\ [b EXCEPT !.bits = n].supply = b.supply
<1> DEFINE c == [b EXCEPT !.bits = n]
<1>1. c = [ st |-> b.st, lo |-> b.lo, hi |-> b.hi, supply |-> b.supply,
            bits |-> n, nrKeys |-> b.nrKeys, nrBits |-> b.nrBits,
            failed |-> b.failed ]
  BY PlainFields
<1> HIDE DEF c
<1>2. c \in Buffer /\ c.lo = b.lo
  BY <1>1, PlainFields DEF Buffer
<1>3. Plain(c) /\ c.st = b.st /\ c.supply = b.supply
  BY <1>1, <1>2, PlainFields DEF Plain
<1> QED BY <1>3 DEF c

LEMMA PlainLog ==
  ASSUME NEW b, Plain(b), NEW n \in Nat
  PROVE  /\ Plain(LogAdd(b, n)) /\ LogAdd(b, n).st = b.st /\ LogAdd(b, n).supply = b.supply
         /\ Plain(LogSub(b, n)) /\ LogSub(b, n).st = b.st /\ LogSub(b, n).supply = b.supply
<1>1. b.bits \in Nat
  BY PlainFields
<1>2. PICK x \in Nat : x = b.bits + n
  BY <1>1
<1>3. PICK y \in Nat : y = IF n > b.bits THEN b.bits ELSE b.bits - n
  BY <1>1
<1>4. LogAdd(b, n) = Checked([b EXCEPT !.bits = x])
  BY <1>2 DEF LogAdd
<1>5. LogSub(b, n) = Checked([b EXCEPT !.bits = y])
  BY <1>3 DEF LogSub
<1>6. ASSUME NEW c, Plain(c), c.st = b.st, c.supply = b.supply
      PROVE  Plain(Checked(c)) /\ Checked(c).st = b.st /\ Checked(c).supply = b.supply
  BY <1>6, PlainStop DEF Checked
<1>7. ASSUME NEW c, NEW z \in Nat, c = [b EXCEPT !.bits = z]
      PROVE  Plain(c) /\ c.st = b.st /\ c.supply = b.supply
  BY <1>7, PlainBits
<1>8. /\ Plain(LogAdd(b, n)) /\ LogAdd(b, n).st = b.st /\ LogAdd(b, n).supply = b.supply
  <2>1. PICK c : c = [b EXCEPT !.bits = x]
    OBVIOUS
  <2>2. Plain(c) /\ c.st = b.st /\ c.supply = b.supply /\ LogAdd(b, n) = Checked(c)
    BY <1>4, <1>7, <2>1
  <2> QED BY <1>6, <2>2
<1>9. /\ Plain(LogSub(b, n)) /\ LogSub(b, n).st = b.st /\ LogSub(b, n).supply = b.supply
  <2>1. PICK c : c = [b EXCEPT !.bits = y]
    OBVIOUS
  <2>2. Plain(c) /\ c.st = b.st /\ c.supply = b.supply /\ LogSub(b, n) = Checked(c)
    BY <1>5, <1>7, <2>1
  <2> QED BY <1>6, <2>2
<1> QED BY <1>8, <1>9

(* A change of one key.                                                    *)
LEMMA PlainSet ==
  ASSUME NEW b, Plain(b), NEW k \in KeyIds, NEW s \in KeyState, NEW h \in 0 .. MaxLen
  PROVE  /\ Plain(SetKey(b, k, s, 0, h)) /\ SetKey(b, k, s, 0, h).st = [b.st EXCEPT ![k] = s]
         /\ SetKey(b, k, s, 0, h).supply = b.supply
<1> DEFINE c == SetKey(b, k, s, 0, h)
<1>1. PICK st, lo, hi : /\ st = [b.st EXCEPT ![k] = s] /\ lo = [b.lo EXCEPT ![k] = 0]
                        /\ hi = [b.hi EXCEPT ![k] = h]
  OBVIOUS
<1>2. c = [b EXCEPT !.st = st, !.lo = lo, !.hi = hi]
  BY <1>1 DEF SetKey, Plain, Buffer
<1>3. c = [ st |-> st, lo |-> lo, hi |-> hi, supply |-> b.supply,
            bits |-> b.bits, nrKeys |-> b.nrKeys, nrBits |-> b.nrBits,
            failed |-> b.failed ]
  BY <1>2, PlainFields, ZenonT(60)
<1>4. /\ st \in [KeyIds -> KeyState] /\ lo \in [KeyIds -> 0 .. MaxLen]
      /\ hi \in [KeyIds -> 0 .. MaxLen] /\ \A j \in KeyIds : lo[j] = 0
  BY <1>1, PlainFields, BoundsNat
<1> HIDE DEF c
<1>5. c \in Buffer /\ c.lo = lo
  BY <1>3, <1>4, PlainFields DEF Buffer
<1>6. Plain(c) /\ c.st = st /\ c.supply = b.supply
  BY <1>3, <1>4, <1>5 DEF Plain
<1> QED BY <1>1, <1>6 DEF c

(* c may hold key k beyond what b holds, and nothing else.                 *)
Gains(b, c, k) ==
  /\ Plain(c) /\ c.supply = b.supply
  /\ \A j \in KeyIds : Held(c, j) => Held(b, j) \/ j = k

Keeps(b, c) ==
  /\ Plain(c) /\ c.supply = b.supply
  /\ \A j \in KeyIds : Held(c, j) => Held(b, j)

LEMMA PlainStore ==
  ASSUME NEW b, Plain(b), NEW k \in KeyIds
  PROVE  Gains(b, StoreKey(b, k, 1), k)
<1>1. 1 \in 0 .. MaxLen /\ "READY" \in KeyState /\ 1 \in Nat
  BY BoundsNat DEF KeyState
<1>2. PICK c : c = Insert(b, k, 1)
  OBVIOUS
<1>3. Plain(c) /\ c.supply = b.supply /\ (c.st = b.st \/ c.st = [b.st EXCEPT ![k] = "READY"])
  BY <1>1, <1>2, PlainSet DEF Insert
<1>4. Plain(LogAdd(c, 1)) /\ LogAdd(c, 1).st = c.st /\ LogAdd(c, 1).supply = c.supply
  BY <1>1, <1>3, PlainLog
<1>5. StoreKey(b, k, 1) = LogAdd(c, 1) \/ StoreKey(b, k, 1) = b
  BY <1>2 DEF StoreKey
<1>6. Gains(b, LogAdd(c, 1), k)
  BY <1>3, <1>4, PlainFields DEF Gains, Held
<1> QED BY <1>5, <1>6 DEF Gains

LEMMA PlainErase ==
  ASSUME NEW b, Plain(b), NEW k \in KeyIds
  PROVE  Keeps(b, GetKey(b, k, TRUE)) /\ ~Held(GetKey(b, k, TRUE), k)
<1>1. 0 \in 0 .. MaxLen /\ "NONE" \in KeyState /\ KeyLen(b, k) \in Nat
  BY BoundsNat, PlainFields DEF KeyState
<1>2. PICK c : c = Erase(b, k)
  OBVIOUS
<1>3. Plain(c) /\ c.supply = b.supply /\ c.st = [b.st EXCEPT ![k] = "NONE"]
  BY <1>1, <1>2, PlainSet DEF Erase
<1>4. PICK d : d = LogSub(c, KeyLen(b, k))
  OBVIOUS
<1>5. Plain(d) /\ d.st = c.st /\ d.supply = c.supply
  BY <1>1, <1>3, <1>4, PlainLog
<1>6. GetKey(b, k, TRUE) = c \/ GetKey(b, k, TRUE) = d
  BY <1>2, <1>4 DEF GetKey
<1>7. Keeps(b, c) /\ ~Held(c, k)
  BY <1>3, PlainFields DEF Keeps, Held
<1>8. Keeps(b, d) /\ ~Held(d, k)
  BY <1>3, <1>5, PlainFields DEF Keeps, Held
<1> QED BY <1>6, <1>7, <1>8

(* A buffer with other counters of the keys that are not READY.            *)
Counted(b, n, m) == [b EXCEPT !.nrKeys = n, !.nrBits = m]

(* The counters of the keys that are not READY.                            *)
LEMMA PlainCount ==
  ASSUME NEW b, Plain(b), NEW n \in Nat, NEW m \in Nat,
         NEW c, c = Counted(b, n, m)
  PROVE  Plain(c) /\ c.st = b.st /\ c.supply = b.supply /\ c.lo = b.lo /\ c.hi = b.hi
<1>1. c = [ st |-> b.st, lo |-> b.lo, hi |-> b.hi, supply |-> b.supply,
            bits |-> b.bits, nrKeys |-> n, nrBits |-> m, failed |-> b.failed ]
  <2>1. PICK d : d = [b EXCEPT !.nrKeys = n]
    OBVIOUS
  <2>2. d = [ st |-> b.st, lo |-> b.lo, hi |-> b.hi, supply |-> b.supply,
              bits |-> b.bits, nrKeys |-> n, nrBits |-> b.nrBits, failed |-> b.failed ]
    BY <2>1, PlainFields
  <2>3. c = [d EXCEPT !.nrBits = m]
    BY <2>1, PlainFields DEF Counted
  <2> QED BY <2>2, <2>3
<1>2. c \in Buffer /\ c.lo = b.lo
  BY <1>1, PlainFields DEF Buffer
<1>3. Plain(c) /\ c.st = b.st /\ c.supply = b.supply /\ c.lo = b.lo /\ c.hi = b.hi
  BY <1>1, <1>2, PlainFields DEF Plain
<1> QED BY <1>3

LEMMA PlainState ==
  ASSUME NEW b, Plain(b), NEW k \in KeyIds, NEW s \in KeyState
  PROVE  LET c == [b EXCEPT !.st[k] = s]
         IN  Plain(c) /\ c.st = [b.st EXCEPT ![k] = s] /\ c.supply = b.supply
<1>1. PICK st : st = [b.st EXCEPT ![k] = s]
  OBVIOUS
<1> DEFINE c == [b EXCEPT !.st[k] = s]
<1>2. c = [ st |-> st, lo |-> b.lo, hi |-> b.hi, supply |-> b.supply,
            bits |-> b.bits, nrKeys |-> b.nrKeys, nrBits |-> b.nrBits,
            failed |-> b.failed ]
  BY <1>1, PlainFields
<1>3. st \in [KeyIds -> KeyState]
  BY <1>1, PlainFields
<1> HIDE DEF c
<1>4. c \in Buffer /\ c.lo = b.lo
  BY <1>2, <1>3, PlainFields DEF Buffer
<1>5. Plain(c) /\ c.st = st /\ c.supply = b.supply
  BY <1>2, <1>4, PlainFields DEF Plain
<1> QED BY <1>1, <1>5 DEF c

LEMMA PlainMark ==
  ASSUME NEW b, Plain(b), NEW k \in KeyIds, NEW s \in {"INIT", "READY", "OBSOLETE"}
  PROVE  Keeps(b, MarkKey(b, k, s))
<1>1. PICK n \in Nat, y \in Nat, z \in Nat : n = KeyLen(b, k) /\ y = b.nrKeys /\ z = b.nrBits
  <2>1. KeyLen(b, k) \in Nat /\ b.nrKeys \in Nat /\ b.nrBits \in Nat
    BY PlainFields
  <2> QED BY <2>1
<1>2. s \in KeyState /\ Keeps(b, b) /\ Keeps(b, Stop(b))
  BY PlainStop DEF Keeps, KeyState, Held
<1>3. CASE b.st[k] = "READY" /\ s # "READY"
  <2>1. PICK y1 \in Nat, z1 \in Nat : y1 = y + 1 /\ z1 = z + n
    OBVIOUS
  <2>2. PICK c : c = Count(b, k)
    OBVIOUS
  <2>3. c = Counted(b, y1, z1)
    BY <1>1, <2>1, <2>2 DEF Count, Counted
  <2>4. Plain(c) /\ c.st = b.st /\ c.supply = b.supply
    BY <2>3, PlainCount
  <2>5. PICK d : d = [c EXCEPT !.st[k] = s]
    OBVIOUS
  <2>6. Plain(d) /\ d.st = [c.st EXCEPT ![k] = s] /\ d.supply = c.supply
    BY <1>2, <2>4, <2>5, PlainState
  <2>7. PICK e : e = LogSub(d, n)
    OBVIOUS
  <2>8. Plain(e) /\ e.st = d.st /\ e.supply = d.supply
    BY <2>6, <2>7, PlainLog
  <2>9. MarkKey(b, k, s) = e
    BY <1>1, <1>3, <2>2, <2>5, <2>7 DEF MarkKey, Held
  <2>10. Keeps(b, e)
    BY <1>3, <2>4, <2>6, <2>8, PlainFields DEF Keeps, Held
  <2> QED BY <2>9, <2>10
<1>4. CASE b.st[k] # "NONE" /\ b.st[k] # "READY" /\ s \in {"READY", "OBSOLETE"} /\ CountersCover(b, k)
  <2>0. y - 1 \in Nat /\ z - n \in Nat
    BY <1>1, <1>4 DEF CountersCover
  <2>1. PICK y1 \in Nat, z1 \in Nat : y1 = y - 1 /\ z1 = z - n
    BY <2>0
  <2>2. PICK c : c = Uncount(b, k)
    OBVIOUS
  <2>3. c = Counted(b, y1, z1)
    BY <1>1, <2>1, <2>2 DEF Uncount, Counted
  <2>4. Plain(c) /\ c.st = b.st /\ c.supply = b.supply
    BY <2>3, PlainCount
  <2>5. PICK d : d = [c EXCEPT !.st[k] = "READY"]
    OBVIOUS
  <2>6. Plain(d) /\ d.st = [c.st EXCEPT ![k] = "READY"] /\ d.supply = c.supply
    BY <2>4, <2>5, PlainState DEF KeyState
  <2>7. PICK e : e = LogAdd(d, n)
    OBVIOUS
  <2>8. Plain(e) /\ e.st = d.st /\ e.supply = d.supply
    BY <2>6, <2>7, PlainLog
  <2>9. MarkKey(b, k, s) = IF s = "READY" THEN e ELSE GetKey(c, k, TRUE)
    BY <1>1, <1>4, <2>2, <2>5, <2>7 DEF MarkKey, Held
  <2>10. Keeps(b, e)
    BY <1>4, <2>4, <2>6, <2>8, PlainFields DEF Keeps, Held
  <2>11. Keeps(c, GetKey(c, k, TRUE))
    BY <2>4, PlainErase
  <2>12. Keeps(b, GetKey(c, k, TRUE))
    BY <2>4, <2>11 DEF Keeps, Held
  <2> QED BY <2>9, <2>10, <2>12
<1>5. CASE ~(b.st[k] = "READY" /\ s # "READY")
           /\ ~(b.st[k] # "NONE" /\ b.st[k] # "READY" /\ s \in {"READY", "OBSOLETE"} /\ CountersCover(b, k))
  <2>1. MarkKey(b, k, s) = b \/ MarkKey(b, k, s) = Stop(b)
    BY <1>5 DEF MarkKey, Held
  <2> QED BY <1>2, <2>1
<1> QED BY <1>3, <1>4, <1>5

(* The operations a RELAY buffer sees.                                     *)
LEMMA PlainOperations ==
  ASSUME NEW b, Plain(b), NEW k \in KeyIds
  PROVE  /\ Gains(b, ReserveKey(b, k), k) /\ Gains(b, StoreKey(b, k, 1), k)
         /\ Keeps(b, DiscardKey(b, k)) /\ Keeps(b, ConfirmKey(b, k))
<1>1. Gains(b, StoreKey(b, k, 1), k)
  BY PlainStore
<1>2. PICK c : c = StoreKey(b, k, 1)
  OBVIOUS
<1>3. Keeps(c, MarkKey(c, k, "INIT"))
  BY <1>1, <1>2, PlainMark DEF Gains
<1>4. Gains(b, ReserveKey(b, k), k)
  BY <1>1, <1>2, <1>3 DEF Gains, Keeps, ReserveKey
<1>5. Keeps(b, MarkKey(b, k, "OBSOLETE")) /\ Keeps(b, MarkKey(b, k, "READY"))
  BY PlainMark
<1> QED BY <1>1, <1>4, <1>5 DEF DiscardKey, ConfirmKey

LEMMA PlainTransform ==
  ASSUME NEW b, Plain(b), NEW k \in KeyIds
  PROVE  Keeps(b, TransformCandidate(b, k, 1))
<1>1. ~Splits(b, k, 1)
  <2>1. b.hi[k] \in 0 .. 1 /\ b.lo[k] = 0
    BY PlainFields, RelayAssumption
  <2> QED BY <2>1 DEF Splits, KeyLen
<1>2. PICK c : c = CandidateChecked(b)
  OBVIOUS
<1>3. Plain(c) /\ c.st = b.st /\ c.supply = b.supply
  BY <1>2, PlainStop DEF CandidateChecked
<1>4. Keeps(c, GetKey(c, k, TRUE))
  BY <1>3, PlainErase
<1>5. TransformCandidate(b, k, 1) = GetKey(c, k, TRUE)
  BY <1>1, <1>2 DEF TransformCandidate
<1> QED BY <1>3, <1>4, <1>5 DEF Keeps, Held

LEMMA PlainHalf ==
  ASSUME NEW b, Plain(b), NEW k \in KeyIds
  PROVE  Keeps(b, HalfKey(b, k, 1))
<1>1. ~(KeyLen(b, k) > 1)
  <2>1. b.hi[k] \in 0 .. 1 /\ b.lo[k] = 0
    BY PlainFields, RelayAssumption
  <2> QED BY <2>1 DEF KeyLen
<1>2. HalfKey(b, k, 1) \in {b, Stop(b), GetKey(b, k, TRUE)}
  BY <1>1 DEF HalfKey
<1>3. Keeps(b, b) /\ Keeps(b, Stop(b)) /\ Keeps(b, GetKey(b, k, TRUE))
  BY PlainStop, PlainErase DEF Keeps, Held
<1> QED BY <1>2, <1>3

(* A supply key set, or taken.                                             *)
SetsSupply(b, c, s, cells) ==
  Plain(c) /\ c.st = b.st /\ c.supply = [b.supply EXCEPT ![s] = cells]

LEMMA PlainSupply ==
  ASSUME NEW b, Plain(b), NEW s \in SupplyIds, NEW cells \in SUBSET Cell
  PROVE  /\ SetsSupply(b, [b EXCEPT !.supply[s] = cells], s, cells)
<1>1. PICK su : su = [b.supply EXCEPT ![s] = cells]
  OBVIOUS
<1> DEFINE c == [b EXCEPT !.supply[s] = cells]
<1>2. c = [ st |-> b.st, lo |-> b.lo, hi |-> b.hi, supply |-> su,
            bits |-> b.bits, nrKeys |-> b.nrKeys, nrBits |-> b.nrBits,
            failed |-> b.failed ]
  BY <1>1, PlainFields
<1>3. su \in [SupplyIds -> SUBSET Cell]
  BY <1>1, PlainFields
<1> HIDE DEF c
<1>4. c \in Buffer /\ c.lo = b.lo
  BY <1>2, <1>3, PlainFields DEF Buffer
<1>5. Plain(c) /\ c.st = b.st /\ c.supply = su
  BY <1>2, <1>4, PlainFields DEF Plain
<1> QED BY <1>1, <1>5 DEF c, SetsSupply

LEMMA PlainStoreSupply ==
  ASSUME NEW b, Plain(b), NEW s \in SupplyIds, NEW cells \in SUBSET Cell
  PROVE  SetsSupply(b, StoreSupplyKey(b, s, cells), s, cells)
<1>1. PICK c : c = [b EXCEPT !.supply[s] = cells]
  OBVIOUS
<1>2. SetsSupply(b, c, s, cells)
  BY <1>1, PlainSupply
<1>3. Cardinality(cells) \in Nat
  BY CellsFinite, FS_Subset, FS_CardinalityType
<1>4. SetsSupply(b, LogAdd(c, Cardinality(cells)), s, cells)
  BY <1>2, <1>3, PlainLog DEF SetsSupply
<1> QED BY <1>1, <1>4 DEF StoreSupplyKey

LEMMA PlainTakeSupply ==
  ASSUME NEW b, Plain(b), NEW s \in SupplyIds
  PROVE  GetSupplyKey(b, s) = b \/ SetsSupply(b, GetSupplyKey(b, s), s, {})
<1>1. PICK c : c = [b EXCEPT !.supply[s] = {}]
  OBVIOUS
<1>2. SetsSupply(b, c, s, {})
  BY <1>1, PlainSupply
<1>3. Cardinality(b.supply[s]) \in Nat
  <2>1. b.supply[s] \in SUBSET Cell
    BY PlainFields
  <2> QED BY <2>1, CellsFinite, FS_Subset, FS_CardinalityType
<1>4. SetsSupply(b, LogSub(c, Cardinality(b.supply[s])), s, {})
  BY <1>2, <1>3, PlainLog DEF SetsSupply
<1> QED BY <1>1, <1>4 DEF GetSupplyKey

(* The destination makes the supply key.                                   *)
LEMMA PlainSupplies ==
  ASSUME NEW b, Plain(b), NEW m, m.key \in KeyIds, m.supply \in SupplyIds
  PROVE  /\ Plain(Supply(b, m))
         /\ \A j \in KeyIds : Held(Supply(b, m), j) => Held(b, j)
         /\ \/ Supply(b, m).supply = b.supply
            \/ Supply(b, m).supply = [b.supply EXCEPT ![m.supply] = {<<m.key, 1>>}]
<1>1. PICK k \in KeyIds, s \in SupplyIds : k = m.key /\ s = m.supply
  OBVIOUS
<1>2. PICK cells \in SUBSET Cell : cells = {<<k, 1>>}
  <2>1. <<k, 1>> \in Cell
    BY BoundsNat DEF Cell
  <2> QED BY <2>1
<1>3. PICK c : c = HalfKey(b, k, 1)
  OBVIOUS
<1>4. Keeps(b, c)
  BY <1>3, PlainHalf
<1>5. SetsSupply(c, StoreSupplyKey(c, s, cells), s, cells)
  BY <1>4, PlainStoreSupply DEF Keeps
<1>6. CASE Held(b, k)
  <2>1. Supply(b, m) = StoreSupplyKey(c, s, cells)
    BY <1>1, <1>2, <1>3, <1>6 DEF Supply
  <2> QED BY <1>1, <1>2, <1>4, <1>5, <2>1 DEF Keeps, SetsSupply, Held
<1>7. CASE ~Held(b, k)
  <2>1. Supply(b, m) = Stop(b)
    BY <1>1, <1>7 DEF Supply
  <2> QED BY <2>1, PlainStop DEF Held
<1> QED BY <1>6, <1>7

-----------------------------------------------------------------------------
(* The operations on a set of keys, one key after the other in some order: *)
(* what the order of a fold keeps holds of its result.                     *)

LEMMA EachReserve ==
  ASSUME NEW b, Plain(b), NEW ks \in SUBSET KeyIds, NEW R, <<{}, b>> \in R,
         \A s \in SUBSET ks, k \in ks : \A c :
           k \notin s /\ Plain(c) /\ <<s, c>> \in R => <<s \cup {k}, ReserveKey(c, k)>> \in R
  PROVE  /\ Plain(Each(ReserveKey, b, ks))
         /\ <<ks, Each(ReserveKey, b, ks)>> \in R
<1> DEFINE T == {c \in Buffer : Plain(c)}
           G(f, s) == LET k == Pick(s) IN LET c == f[s \ {k}] IN ReserveKey(c, k)
           F == CHOOSE f : f = [s \in SUBSET ks |-> IF s = {} THEN b ELSE G(f, s)]
           O == [p \in ks \X T |-> LET k == p[1] IN LET c == p[2] IN ReserveKey(c, k)]
           Q == {p \in (SUBSET ks) \X T : p \in R}
<1>1. IsFiniteSet(ks)
  BY KeyIdsFinite, FS_Subset
<1>2. \A c, k : c \in T /\ k \in ks => ReserveKey(c, k) \in T
  BY PlainOperations DEF Plain, Gains, Keeps
<1>3. O \in [ks \X T -> T] /\ b \in T
  BY <1>2 DEF Plain
<1>4. \A c \in T, k \in ks : O[<<k, c>>] = ReserveKey(c, k)
  OBVIOUS
<1>5. \A s \in SUBSET ks : s # {} => Pick(s) \in s /\ s \ {Pick(s)} \in SUBSET ks
                                    /\ s = (s \ {Pick(s)}) \cup {Pick(s)}
  BY DEF Pick
<1>6. \E f : f = [s \in SUBSET ks |-> IF s = {} THEN b ELSE G(f, s)]
  <2> HIDE DEF T, O
  <2>0. PICK f : Folding(f, ks, T, b, O)
    BY <1>1, <1>3, FoldExists
  <2>1. /\ f \in [SUBSET ks -> T]
        /\ \A s \in SUBSET ks :
             f[s] = IF s = {} THEN b ELSE O[<<Pick(s), f[s \ {Pick(s)}]>>]
    BY <2>0 DEF Folding
  <2>2. \A s \in SUBSET ks : s # {} => O[<<Pick(s), f[s \ {Pick(s)}]>>] = G(f, s)
    <3>1. TAKE s \in SUBSET ks
    <3>2. HAVE s # {}
    <3>3. Pick(s) \in ks /\ f[s \ {Pick(s)}] \in T
      BY <1>5, <2>1, <3>2
    <3>4. PICK k \in ks, c \in T : k = Pick(s) /\ c = f[s \ {Pick(s)}]
      BY <3>3
    <3> QED BY <1>4, <3>4
  <2>3. \A s \in SUBSET ks : f[s] = IF s = {} THEN b ELSE G(f, s)
    <3> HIDE DEF G
    <3> QED BY <2>1, <2>2
  <2>4. f = [s \in SUBSET ks |-> IF s = {} THEN b ELSE G(f, s)]
    <3> HIDE DEF G
    <3> QED BY <2>1, <2>3
  <2> QED BY <2>4
<1>7. F = [s \in SUBSET ks |-> IF s = {} THEN b ELSE G(F, s)]
  <2> HIDE DEF G
  <2> QED BY <1>6
<1>8. Each(ReserveKey, b, ks) = F[ks]
  BY DEF Each, FoldSet, MapThenFoldSet, Pick
<1> HIDE DEF F
<1>9. F[{}] = b /\ \A s \in SUBSET ks : s # {} => F[s] = G(F, s)
  <2> HIDE DEF G
  <2> QED BY <1>7
<1>10. <<{}, F[{}]>> \in Q
  BY <1>3, <1>9
<1>11. \A s \in SUBSET ks : s # {} /\ <<s \ {Pick(s)}, F[s \ {Pick(s)}]>> \in Q
                              => <<s, F[s]>> \in Q
  <2>1. SUFFICES ASSUME NEW s \in SUBSET ks, s # {}, <<s \ {Pick(s)}, F[s \ {Pick(s)}]>> \in Q
                 PROVE <<s, F[s]>> \in Q
    OBVIOUS
  <2>2. PICK k \in ks, r \in SUBSET ks, c \in T :
          k = Pick(s) /\ r = s \ {k} /\ c = F[r] /\ <<r, c>> \in R
    BY <1>5, <2>1
  <2>3. F[s] = ReserveKey(c, k) /\ s = r \cup {k} /\ k \notin r
    BY <1>5, <1>9, <2>1, <2>2
  <2>4. <<r \cup {k}, ReserveKey(c, k)>> \in R /\ ReserveKey(c, k) \in T
    BY <1>2, <2>2, <2>3
  <2> QED BY <2>3, <2>4
<1>12. <<ks, F[ks]>> \in Q
  <2> HIDE DEF Q
  <2> QED BY <1>1, <1>10, <1>11, FoldRule
<1> QED BY <1>8, <1>12

LEMMA EachDiscard ==
  ASSUME NEW b, Plain(b), NEW ks \in SUBSET KeyIds, NEW R, <<{}, b>> \in R,
         \A s \in SUBSET ks, k \in ks : \A c :
           k \notin s /\ Plain(c) /\ <<s, c>> \in R => <<s \cup {k}, DiscardKey(c, k)>> \in R
  PROVE  /\ Plain(Each(DiscardKey, b, ks))
         /\ <<ks, Each(DiscardKey, b, ks)>> \in R
<1> DEFINE T == {c \in Buffer : Plain(c)}
           G(f, s) == LET k == Pick(s) IN LET c == f[s \ {k}] IN DiscardKey(c, k)
           F == CHOOSE f : f = [s \in SUBSET ks |-> IF s = {} THEN b ELSE G(f, s)]
           O == [p \in ks \X T |-> LET k == p[1] IN LET c == p[2] IN DiscardKey(c, k)]
           Q == {p \in (SUBSET ks) \X T : p \in R}
<1>1. IsFiniteSet(ks)
  BY KeyIdsFinite, FS_Subset
<1>2. \A c, k : c \in T /\ k \in ks => DiscardKey(c, k) \in T
  BY PlainOperations DEF Plain, Gains, Keeps
<1>3. O \in [ks \X T -> T] /\ b \in T
  BY <1>2 DEF Plain
<1>4. \A c \in T, k \in ks : O[<<k, c>>] = DiscardKey(c, k)
  OBVIOUS
<1>5. \A s \in SUBSET ks : s # {} => Pick(s) \in s /\ s \ {Pick(s)} \in SUBSET ks
                                    /\ s = (s \ {Pick(s)}) \cup {Pick(s)}
  BY DEF Pick
<1>6. \E f : f = [s \in SUBSET ks |-> IF s = {} THEN b ELSE G(f, s)]
  <2> HIDE DEF T, O
  <2>0. PICK f : Folding(f, ks, T, b, O)
    BY <1>1, <1>3, FoldExists
  <2>1. /\ f \in [SUBSET ks -> T]
        /\ \A s \in SUBSET ks :
             f[s] = IF s = {} THEN b ELSE O[<<Pick(s), f[s \ {Pick(s)}]>>]
    BY <2>0 DEF Folding
  <2>2. \A s \in SUBSET ks : s # {} => O[<<Pick(s), f[s \ {Pick(s)}]>>] = G(f, s)
    <3>1. TAKE s \in SUBSET ks
    <3>2. HAVE s # {}
    <3>3. Pick(s) \in ks /\ f[s \ {Pick(s)}] \in T
      BY <1>5, <2>1, <3>2
    <3>4. PICK k \in ks, c \in T : k = Pick(s) /\ c = f[s \ {Pick(s)}]
      BY <3>3
    <3> QED BY <1>4, <3>4
  <2>3. \A s \in SUBSET ks : f[s] = IF s = {} THEN b ELSE G(f, s)
    <3> HIDE DEF G
    <3> QED BY <2>1, <2>2
  <2>4. f = [s \in SUBSET ks |-> IF s = {} THEN b ELSE G(f, s)]
    <3> HIDE DEF G
    <3> QED BY <2>1, <2>3
  <2> QED BY <2>4
<1>7. F = [s \in SUBSET ks |-> IF s = {} THEN b ELSE G(F, s)]
  <2> HIDE DEF G
  <2> QED BY <1>6
<1>8. Each(DiscardKey, b, ks) = F[ks]
  BY DEF Each, FoldSet, MapThenFoldSet, Pick
<1> HIDE DEF F
<1>9. F[{}] = b /\ \A s \in SUBSET ks : s # {} => F[s] = G(F, s)
  <2> HIDE DEF G
  <2> QED BY <1>7
<1>10. <<{}, F[{}]>> \in Q
  BY <1>3, <1>9
<1>11. \A s \in SUBSET ks : s # {} /\ <<s \ {Pick(s)}, F[s \ {Pick(s)}]>> \in Q
                              => <<s, F[s]>> \in Q
  <2>1. SUFFICES ASSUME NEW s \in SUBSET ks, s # {}, <<s \ {Pick(s)}, F[s \ {Pick(s)}]>> \in Q
                 PROVE <<s, F[s]>> \in Q
    OBVIOUS
  <2>2. PICK k \in ks, r \in SUBSET ks, c \in T :
          k = Pick(s) /\ r = s \ {k} /\ c = F[r] /\ <<r, c>> \in R
    BY <1>5, <2>1
  <2>3. F[s] = DiscardKey(c, k) /\ s = r \cup {k} /\ k \notin r
    BY <1>5, <1>9, <2>1, <2>2
  <2>4. <<r \cup {k}, DiscardKey(c, k)>> \in R /\ DiscardKey(c, k) \in T
    BY <1>2, <2>2, <2>3
  <2> QED BY <2>3, <2>4
<1>12. <<ks, F[ks]>> \in Q
  <2> HIDE DEF Q
  <2> QED BY <1>1, <1>10, <1>11, FoldRule
<1> QED BY <1>8, <1>12

LEMMA EachConfirm ==
  ASSUME NEW b, Plain(b), NEW ks \in SUBSET KeyIds, NEW R, <<{}, b>> \in R,
         \A s \in SUBSET ks, k \in ks : \A c :
           k \notin s /\ Plain(c) /\ <<s, c>> \in R => <<s \cup {k}, ConfirmKey(c, k)>> \in R
  PROVE  /\ Plain(Each(ConfirmKey, b, ks))
         /\ <<ks, Each(ConfirmKey, b, ks)>> \in R
<1> DEFINE T == {c \in Buffer : Plain(c)}
           G(f, s) == LET k == Pick(s) IN LET c == f[s \ {k}] IN ConfirmKey(c, k)
           F == CHOOSE f : f = [s \in SUBSET ks |-> IF s = {} THEN b ELSE G(f, s)]
           O == [p \in ks \X T |-> LET k == p[1] IN LET c == p[2] IN ConfirmKey(c, k)]
           Q == {p \in (SUBSET ks) \X T : p \in R}
<1>1. IsFiniteSet(ks)
  BY KeyIdsFinite, FS_Subset
<1>2. \A c, k : c \in T /\ k \in ks => ConfirmKey(c, k) \in T
  BY PlainOperations DEF Plain, Gains, Keeps
<1>3. O \in [ks \X T -> T] /\ b \in T
  BY <1>2 DEF Plain
<1>4. \A c \in T, k \in ks : O[<<k, c>>] = ConfirmKey(c, k)
  OBVIOUS
<1>5. \A s \in SUBSET ks : s # {} => Pick(s) \in s /\ s \ {Pick(s)} \in SUBSET ks
                                    /\ s = (s \ {Pick(s)}) \cup {Pick(s)}
  BY DEF Pick
<1>6. \E f : f = [s \in SUBSET ks |-> IF s = {} THEN b ELSE G(f, s)]
  <2> HIDE DEF T, O
  <2>0. PICK f : Folding(f, ks, T, b, O)
    BY <1>1, <1>3, FoldExists
  <2>1. /\ f \in [SUBSET ks -> T]
        /\ \A s \in SUBSET ks :
             f[s] = IF s = {} THEN b ELSE O[<<Pick(s), f[s \ {Pick(s)}]>>]
    BY <2>0 DEF Folding
  <2>2. \A s \in SUBSET ks : s # {} => O[<<Pick(s), f[s \ {Pick(s)}]>>] = G(f, s)
    <3>1. TAKE s \in SUBSET ks
    <3>2. HAVE s # {}
    <3>3. Pick(s) \in ks /\ f[s \ {Pick(s)}] \in T
      BY <1>5, <2>1, <3>2
    <3>4. PICK k \in ks, c \in T : k = Pick(s) /\ c = f[s \ {Pick(s)}]
      BY <3>3
    <3> QED BY <1>4, <3>4
  <2>3. \A s \in SUBSET ks : f[s] = IF s = {} THEN b ELSE G(f, s)
    <3> HIDE DEF G
    <3> QED BY <2>1, <2>2
  <2>4. f = [s \in SUBSET ks |-> IF s = {} THEN b ELSE G(f, s)]
    <3> HIDE DEF G
    <3> QED BY <2>1, <2>3
  <2> QED BY <2>4
<1>7. F = [s \in SUBSET ks |-> IF s = {} THEN b ELSE G(F, s)]
  <2> HIDE DEF G
  <2> QED BY <1>6
<1>8. Each(ConfirmKey, b, ks) = F[ks]
  BY DEF Each, FoldSet, MapThenFoldSet, Pick
<1> HIDE DEF F
<1>9. F[{}] = b /\ \A s \in SUBSET ks : s # {} => F[s] = G(F, s)
  <2> HIDE DEF G
  <2> QED BY <1>7
<1>10. <<{}, F[{}]>> \in Q
  BY <1>3, <1>9
<1>11. \A s \in SUBSET ks : s # {} /\ <<s \ {Pick(s)}, F[s \ {Pick(s)}]>> \in Q
                              => <<s, F[s]>> \in Q
  <2>1. SUFFICES ASSUME NEW s \in SUBSET ks, s # {}, <<s \ {Pick(s)}, F[s \ {Pick(s)}]>> \in Q
                 PROVE <<s, F[s]>> \in Q
    OBVIOUS
  <2>2. PICK k \in ks, r \in SUBSET ks, c \in T :
          k = Pick(s) /\ r = s \ {k} /\ c = F[r] /\ <<r, c>> \in R
    BY <1>5, <2>1
  <2>3. F[s] = ConfirmKey(c, k) /\ s = r \cup {k} /\ k \notin r
    BY <1>5, <1>9, <2>1, <2>2
  <2>4. <<r \cup {k}, ConfirmKey(c, k)>> \in R /\ ConfirmKey(c, k) \in T
    BY <1>2, <2>2, <2>3
  <2> QED BY <2>3, <2>4
<1>12. <<ks, F[ks]>> \in Q
  <2> HIDE DEF Q
  <2> QED BY <1>1, <1>10, <1>11, FoldRule
<1> QED BY <1>8, <1>12

LEMMA EachStore ==
  ASSUME NEW b, Plain(b), NEW ks \in SUBSET KeyIds, NEW R, <<{}, b>> \in R,
         \A s \in SUBSET ks, k \in ks : \A c :
           k \notin s /\ Plain(c) /\ <<s, c>> \in R => <<s \cup {k}, StoreKey(c, k, 1)>> \in R
  PROVE  /\ Plain(Each(LAMBDA x, y : StoreKey(x, y, 1), b, ks))
         /\ <<ks, Each(LAMBDA x, y : StoreKey(x, y, 1), b, ks)>> \in R
<1> DEFINE T == {c \in Buffer : Plain(c)}
           G(f, s) == LET k == Pick(s) IN LET c == f[s \ {k}] IN StoreKey(c, k, 1)
           F == CHOOSE f : f = [s \in SUBSET ks |-> IF s = {} THEN b ELSE G(f, s)]
           O == [p \in ks \X T |-> LET k == p[1] IN LET c == p[2] IN StoreKey(c, k, 1)]
           Q == {p \in (SUBSET ks) \X T : p \in R}
<1>1. IsFiniteSet(ks)
  BY KeyIdsFinite, FS_Subset
<1>2. \A c, k : c \in T /\ k \in ks => StoreKey(c, k, 1) \in T
  BY PlainOperations DEF Plain, Gains, Keeps
<1>3. O \in [ks \X T -> T] /\ b \in T
  BY <1>2 DEF Plain
<1>4. \A c \in T, k \in ks : O[<<k, c>>] = StoreKey(c, k, 1)
  OBVIOUS
<1>5. \A s \in SUBSET ks : s # {} => Pick(s) \in s /\ s \ {Pick(s)} \in SUBSET ks
                                    /\ s = (s \ {Pick(s)}) \cup {Pick(s)}
  BY DEF Pick
<1>6. \E f : f = [s \in SUBSET ks |-> IF s = {} THEN b ELSE G(f, s)]
  <2> HIDE DEF T, O
  <2>0. PICK f : Folding(f, ks, T, b, O)
    BY <1>1, <1>3, FoldExists
  <2>1. /\ f \in [SUBSET ks -> T]
        /\ \A s \in SUBSET ks :
             f[s] = IF s = {} THEN b ELSE O[<<Pick(s), f[s \ {Pick(s)}]>>]
    BY <2>0 DEF Folding
  <2>2. \A s \in SUBSET ks : s # {} => O[<<Pick(s), f[s \ {Pick(s)}]>>] = G(f, s)
    <3>1. TAKE s \in SUBSET ks
    <3>2. HAVE s # {}
    <3>3. Pick(s) \in ks /\ f[s \ {Pick(s)}] \in T
      BY <1>5, <2>1, <3>2
    <3>4. PICK k \in ks, c \in T : k = Pick(s) /\ c = f[s \ {Pick(s)}]
      BY <3>3
    <3> QED BY <1>4, <3>4
  <2>3. \A s \in SUBSET ks : f[s] = IF s = {} THEN b ELSE G(f, s)
    <3> HIDE DEF G
    <3> QED BY <2>1, <2>2
  <2>4. f = [s \in SUBSET ks |-> IF s = {} THEN b ELSE G(f, s)]
    <3> HIDE DEF G
    <3> QED BY <2>1, <2>3
  <2> QED BY <2>4
<1>7. F = [s \in SUBSET ks |-> IF s = {} THEN b ELSE G(F, s)]
  <2> HIDE DEF G
  <2> QED BY <1>6
<1>8. Each(LAMBDA x, y : StoreKey(x, y, 1), b, ks) = F[ks]
  BY DEF Each, FoldSet, MapThenFoldSet, Pick
<1> HIDE DEF F
<1>9. F[{}] = b /\ \A s \in SUBSET ks : s # {} => F[s] = G(F, s)
  <2> HIDE DEF G
  <2> QED BY <1>7
<1>10. <<{}, F[{}]>> \in Q
  BY <1>3, <1>9
<1>11. \A s \in SUBSET ks : s # {} /\ <<s \ {Pick(s)}, F[s \ {Pick(s)}]>> \in Q
                              => <<s, F[s]>> \in Q
  <2>1. SUFFICES ASSUME NEW s \in SUBSET ks, s # {}, <<s \ {Pick(s)}, F[s \ {Pick(s)}]>> \in Q
                 PROVE <<s, F[s]>> \in Q
    OBVIOUS
  <2>2. PICK k \in ks, r \in SUBSET ks, c \in T :
          k = Pick(s) /\ r = s \ {k} /\ c = F[r] /\ <<r, c>> \in R
    BY <1>5, <2>1
  <2>3. F[s] = StoreKey(c, k, 1) /\ s = r \cup {k} /\ k \notin r
    BY <1>5, <1>9, <2>1, <2>2
  <2>4. <<r \cup {k}, StoreKey(c, k, 1)>> \in R /\ StoreKey(c, k, 1) \in T
    BY <1>2, <2>2, <2>3
  <2> QED BY <2>3, <2>4
<1>12. <<ks, F[ks]>> \in Q
  <2> HIDE DEF Q
  <2> QED BY <1>1, <1>10, <1>11, FoldRule
<1> QED BY <1>8, <1>12

(* What a set of operations makes of the content.                          *)
LEMMA EachReserves ==
  ASSUME NEW b, Plain(b), NEW ks \in SUBSET KeyIds
  PROVE  LET c == Each(ReserveKey, b, ks)
         IN  /\ Plain(c) /\ c.supply = b.supply
             /\ \A j \in KeyIds : Held(c, j) => Held(b, j) \/ j \in ks
<1> DEFINE R == {p \in (SUBSET ks) \X Buffer :
                   /\ p[2].supply = b.supply
                   /\ \A j \in KeyIds : Held(p[2], j) => Held(b, j) \/ j \in p[1]}
<1>1. <<{}, b>> \in R
  BY DEF Plain
<1>2. ASSUME NEW s \in SUBSET ks, NEW k \in ks, NEW c, Plain(c), <<s, c>> \in R
      PROVE  <<s \cup {k}, ReserveKey(c, k)>> \in R
  <2>1. Gains(c, ReserveKey(c, k), k)
    BY <1>2, PlainOperations
  <2> QED BY <1>2, <2>1 DEF Gains, Plain
<1>3. PICK c : c = Each(ReserveKey, b, ks)
  OBVIOUS
<1>4. Plain(c) /\ <<ks, c>> \in R
  <2> HIDE DEF R
  <2> QED BY <1>1, <1>2, <1>3, EachReserve
<1> QED BY <1>3, <1>4

LEMMA EachStores ==
  ASSUME NEW b, Plain(b), NEW ks \in SUBSET KeyIds
  PROVE  LET c == Each(LAMBDA x, y : StoreKey(x, y, 1), b, ks)
         IN  /\ Plain(c) /\ c.supply = b.supply
             /\ \A j \in KeyIds : Held(c, j) => Held(b, j) \/ j \in ks
<1> DEFINE R == {p \in (SUBSET ks) \X Buffer :
                   /\ p[2].supply = b.supply
                   /\ \A j \in KeyIds : Held(p[2], j) => Held(b, j) \/ j \in p[1]}
<1>1. <<{}, b>> \in R
  BY DEF Plain
<1>2. ASSUME NEW s \in SUBSET ks, NEW k \in ks, NEW c, Plain(c), <<s, c>> \in R
      PROVE  <<s \cup {k}, StoreKey(c, k, 1)>> \in R
  <2>1. Gains(c, StoreKey(c, k, 1), k)
    BY <1>2, PlainOperations
  <2> QED BY <1>2, <2>1 DEF Gains, Plain
<1>3. PICK c : c = Each(LAMBDA x, y : StoreKey(x, y, 1), b, ks)
  OBVIOUS
<1>4. Plain(c) /\ <<ks, c>> \in R
  <2> HIDE DEF R
  <2> QED BY <1>1, <1>2, <1>3, EachStore
<1> QED BY <1>3, <1>4

LEMMA EachKeeps ==
  ASSUME NEW b, Plain(b), NEW ks \in SUBSET KeyIds
  PROVE  Keeps(b, Each(DiscardKey, b, ks)) /\ Keeps(b, Each(ConfirmKey, b, ks))
<1> DEFINE R == {p \in (SUBSET ks) \X Buffer : Keeps(b, p[2])}
<1>1. <<{}, b>> \in R
  BY DEF Plain, Keeps
<1>2. ASSUME NEW s \in SUBSET ks, NEW k \in ks, NEW c, Plain(c), <<s, c>> \in R
      PROVE  <<s \cup {k}, DiscardKey(c, k)>> \in R /\ <<s \cup {k}, ConfirmKey(c, k)>> \in R
  <2>1. Keeps(c, DiscardKey(c, k)) /\ Keeps(c, ConfirmKey(c, k))
    BY <1>2, PlainOperations
  <2> QED BY <1>2, <2>1 DEF Keeps, Plain
<1>3. PICK c, d : c = Each(DiscardKey, b, ks) /\ d = Each(ConfirmKey, b, ks)
  OBVIOUS
<1>4. <<ks, c>> \in R
  <2> HIDE DEF R
  <2> QED BY <1>1, <1>2, <1>3, EachDiscard
<1>5. <<ks, d>> \in R
  <2> HIDE DEF R
  <2> QED BY <1>1, <1>2, <1>3, EachConfirm
<1> QED BY <1>3, <1>4, <1>5

-----------------------------------------------------------------------------
(* The path, and the messages on it.                                       *)

LEMMA PathFacts ==
  /\ Serving \subseteq End /\ End \subseteq Node
  /\ \A e \in End : Far(e) \in End /\ Far(e) # e /\ Far(Far(e)) = e
  /\ \A e \in End, i \in Node : i # e =>
       NextHop(i, e) \in Node /\ <<i, NextHop(i, e)>> \in Link
  /\ \A l \in Link : l[1] \in Node /\ l[2] \in Node /\ l[1] # l[2] /\ l = <<l[1], l[2]>>
                     /\ <<l[2], l[1]>> \in Link
  /\ \A e, f \in Serving : e = f
<1>1. Serving \subseteq End /\ End \subseteq Node /\ \A e, f \in Serving : e = f
  BY RelayAssumption DEF End, Node
<1>2. \A e \in End : Far(e) \in End /\ Far(e) # e /\ Far(Far(e)) = e
  BY RelayAssumption DEF End, Far
<1>3. \A e \in End, i \in Node : i # e =>
        NextHop(i, e) \in Node /\ <<i, NextHop(i, e)>> \in Link
  <2>1. TAKE e \in End, i \in Node
  <2>2. HAVE i # e
  <2>3. CASE e > i
    <3>1. NextHop(i, e) = i + 1 /\ i + 1 \in Node
      BY <2>3, RelayAssumption DEF End, Node, NextHop
    <3> QED BY <3>1 DEF Link
  <2>4. CASE ~(e > i)
    <3>1. NextHop(i, e) = i - 1 /\ i - 1 \in Node /\ i = (i - 1) + 1
      BY <2>2, <2>4, RelayAssumption DEF End, Node, NextHop
    <3> QED BY <3>1 DEF Link
  <2> QED BY <2>3, <2>4
<1>4. \A l \in Link : l[1] \in Node /\ l[2] \in Node /\ l[1] # l[2] /\ l = <<l[1], l[2]>>
                      /\ <<l[2], l[1]>> \in Link
  BY RelayAssumption DEF Link, Node
<1> QED BY <1>1, <1>2, <1>3, <1>4

Put(n, l, m) == [n EXCEPT ![l] = Append(@, m)]
Drop(n, l) == [n EXCEPT ![l] = Tail(@)]
Nets == [Link -> Seq(Message)]

LEMMA NetTyped ==
  ASSUME NEW n \in Nets, NEW l \in Link
  PROVE  /\ \A m \in Message : Put(n, l, m) \in Nets
         /\ n[l] # <<>> => Drop(n, l) \in Nets /\ Head(n[l]) \in Message
         /\ [n EXCEPT ![l] = <<>>] \in Nets
<1>1. n[l] \in Seq(Message)
  BY DEF Nets
<1>2. \A m \in Message : Append(n[l], m) \in Seq(Message)
  BY <1>1
<1>3. n[l] # <<>> => Tail(n[l]) \in Seq(Message) /\ Head(n[l]) \in Message
  BY <1>1
<1>4. <<>> \in Seq(Message)
  BY EmptySeq
<1> QED BY <1>2, <1>3, <1>4 DEF Put, Drop, Nets

LEMMA PassedDrops ==
  ASSUME net \in Nets, NEW l \in Link, NEW k, <<l[2], k>> \in Link, NEW m
  PROVE  Passed(l[1], l[2], k, m) = Put(Drop(net, l), <<l[2], k>>, m)
<1>1. l = <<l[1], l[2]>> /\ <<l[2], k>> # l
  BY PathFacts
<1>2. Passed(l[1], l[2], k, m) = [net EXCEPT ![l] = Tail(@), ![<<l[2], k>>] = Append(@, m)]
  BY <1>1 DEF Passed
<1> QED BY <1>1, <1>2 DEF Put, Drop, Nets

(* The kinds of messages.                                                  *)
LEMMA MessageKinds ==
  ASSUME NEW m \in Message
  PROVE  /\ m.type \in {"relay", "relayed", "skey", "created"}
         /\ m.type = "relay" => m \in [type : {"relay"}, req : Request, keys : SUBSET KeyIds,
                                       pads : SUBSET KeyIds]
         /\ m.type = "relayed" => m \in [type : {"relayed"}, req : Request, ok : BOOLEAN]
         /\ m.type = "skey" => m \in [type : {"skey"}, src : End, key : KeyIds, supply : SupplyIds]
         /\ m.type = "created" => m \in [type : {"created"}]
  BY DEF Message

-----------------------------------------------------------------------------
(* Types.  The inductive form also says that the keys are not split, and   *)
(* that what a node has noted to answer is itself or one of its neighbours.*)

EndState ==
  [buf : Buffer, active : BOOLEAN, pending : SUBSET KeyIds, gen : 0 .. MaxRelays,
   timers : SUBSET (1 .. MaxRelays)]

Near(j) == {j} \cup {k \in Node : <<j, k>> \in Link}

Noted(j) == [req : Request, prev : Near(j), keys : SUBSET KeyIds]

Ends(rl) == rl \in [End -> EndState] /\ \A e \in End : Plain(rl[e].buf)

Proxies(px) == DOMAIN px = Node /\ \A j \in Node : px[j] \subseteq Noted(j)

Queries(qs) == DOMAIN qs = Link /\ \A l \in Link : qs[l] \in Seq(Near(l[1]))

Given(gv) == gv \in [End -> [SupplyIds -> SUBSET Cell]]

Types ==
  /\ Ends(relay)
  /\ enc \in [Link -> SUBSET KeyIds] /\ dec \in [Link -> SUBSET KeyIds]
  /\ proxy = [j \in Node |-> proxy[j]] /\ Proxies(proxy)
  /\ query = [l \in Link |-> query[l]] /\ Queries(query)
  /\ net \in Nets /\ halted \subseteq Node
  /\ Given(served) /\ Given(fetched) /\ lost \in 0 .. MaxLost

LEMMA NearNode ==
  ASSUME NEW j \in Node
  PROVE  Near(j) \subseteq Node
  BY DEF Near

LEMMA TypesImply == Types => TypeOK
<1> SUFFICES ASSUME Types PROVE TypeOK
  OBVIOUS
<1>1. \A j \in Node : proxy[j] \subseteq [req : Request, prev : Node, keys : SUBSET KeyIds]
  BY NearNode DEF Types, Proxies, Noted
<1>2. \A l \in Link : query[l] \in Seq(Node) /\ net[l] \in Seq(Message)
  <2>1. TAKE l \in Link
  <2>2. query[l] \in Seq(Near(l[1])) /\ Near(l[1]) \subseteq Node
    BY PathFacts, NearNode DEF Types, Queries
  <2>3. query[l] \in Seq(Node)
    BY <2>2
  <2> QED BY <2>3 DEF Types, Nets
<1> QED BY <1>1, <1>2 DEF Types, TypeOK, Ends, EndState, Given

(* An end with another buffer.                                             *)
LEMMA EndBuffer ==
  ASSUME NEW rl, Ends(rl), NEW e \in End, NEW b, Plain(b), NEW r2,
         r2 = [rl EXCEPT ![e].buf = b]
  PROVE  /\ Ends(r2) /\ r2[e].buf = b /\ r2[e].active = rl[e].active
         /\ r2[e].pending = rl[e].pending /\ r2[e].gen = rl[e].gen
         /\ r2[e].timers = rl[e].timers
         /\ \A f \in End : f # e => r2[f] = rl[f]
<1>1. rl[e] \in EndState /\ b \in Buffer
  BY DEF Ends, Plain
<1>2. PICK x : x = [rl[e] EXCEPT !.buf = b]
  OBVIOUS
<1>3. x \in EndState /\ x.buf = b /\ x.active = rl[e].active /\ x.pending = rl[e].pending
      /\ x.gen = rl[e].gen /\ x.timers = rl[e].timers
  BY <1>1, <1>2 DEF EndState
<1>4. r2 = [rl EXCEPT ![e] = x]
  BY <1>2
<1> QED BY <1>3, <1>4 DEF Ends

(* A whole end.                                                            *)
LEMMA EndWhole ==
  ASSUME NEW rl, Ends(rl), NEW e \in End, NEW x \in EndState, Plain(x.buf), NEW r2,
         r2 = [rl EXCEPT ![e] = x]
  PROVE  Ends(r2) /\ r2[e] = x /\ \A f \in End : f # e => r2[f] = rl[f]
  BY DEF Ends

-----------------------------------------------------------------------------
(* What the handlers do, with what they take and send named.               *)

(* A new attempt of end e, from x.                                         *)
Begun(x, ks) ==
  [buf |-> Each(ReserveKey, x.buf, ks), active |-> TRUE, pending |-> ks, gen |-> x.gen + 1,
   timers |-> x.timers \cup {x.gen + 1}]

Way(e) == <<e, NextHop(e, Far(e))>>

Quiet(e, x, asks) ==
  /\ relay' = [relay EXCEPT ![e] = x] /\ enc' = enc /\ proxy' = proxy
  /\ net' = [net EXCEPT ![Way(e)] = @ \o asks]

Begins(e, x, ks, asks) ==
  /\ ~x.active /\ Low(x.buf) /\ ks # {} /\ ks \subseteq enc[Way(e)]
  /\ Cardinality(ks) = Amount(x.buf, Cardinality(enc[Way(e)]))
  /\ relay' = [relay EXCEPT ![e] = Begun(x, ks)]
  /\ enc' = [enc EXCEPT ![Way(e)] = @ \ ks]
  /\ proxy' = [proxy EXCEPT ![e] =
                 @ \cup {[req |-> <<e, x.gen + 1>>, prev |-> e, keys |-> ks]}]
  /\ net' = [net EXCEPT ![Way(e)] =
               (@ \o asks) \o <<[type |-> "relay", req |-> <<e, x.gen + 1>>, keys |-> ks,
                               pads |-> {}]>>]

LEMMA WayLink ==
  ASSUME NEW e \in Serving
  PROVE  e \in End /\ e \in Node /\ Way(e) \in Link /\ Way(e)[1] = e /\ Way(e)[2] # e
  BY PathFacts DEF Way

LEMMA FinishEffect ==
  ASSUME Types, NEW e \in Serving, NEW x \in EndState, NEW asks, Finish(e, x, asks),
         asks \in Seq(Message)
  PROVE  Quiet(e, x, asks) \/ \E ks : Begins(e, x, ks, asks)
<1> DEFINE local == enc[Way(e)]
           n == Amount(x.buf, Cardinality(local))
           req(r) == <<e, r.end.gen>>
           sends(r) == IF r.keys = {} THEN <<>>
                    ELSE <<[type |-> "relay", req |-> req(r), keys |-> r.keys, pads |-> {}]>>
<1>1. PICK r \in Relays(e, x) :
         /\ relay' = [relay EXCEPT ![e] = r.end]
         /\ enc' = Take(Way(e), r.keys)
         /\ net' = [net EXCEPT ![Way(e)] = @ \o asks \o sends(r)]
         /\ proxy' = [proxy EXCEPT ![e] = IF r.keys = {} THEN @
                         ELSE @ \cup {[req |-> req(r), prev |-> e, keys |-> r.keys]}]
  BY DEF Finish, Way
<1>2. CASE x.active \/ n = 0 \/ ~Low(x.buf)
  <2>1. r = [end |-> x, keys |-> {}]
    BY <1>2 DEF Relays, Way
  <2>2. r.end = x /\ r.keys = {} /\ sends(r) = <<>>
    BY <2>1
  <2>3. enc' = enc /\ proxy' = proxy
    BY <1>1, <2>2, WayLink DEF Types, Take
  <2>4. net' = [net EXCEPT ![Way(e)] = (@ \o asks) \o <<>>]
    BY <1>1, <2>2
  <2>5. net[Way(e)] \o asks \in Seq(Message)
    BY WayLink, ConcatProperties DEF Types, Nets
  <2>6. (net[Way(e)] \o asks) \o <<>> = net[Way(e)] \o asks
    BY <2>5, ConcatEmptySeq
  <2>7. net' = [net EXCEPT ![Way(e)] = @ \o asks]
    BY <2>4, <2>6
  <2> QED BY <1>1, <2>2, <2>3, <2>7 DEF Quiet
<1>3. CASE ~(x.active \/ n = 0 \/ ~Low(x.buf))
  <2>1. PICK ks \in kSubset(n, local) :
           r = [end |-> [WatchNext(x) EXCEPT !.buf = Each(ReserveKey, @, ks),
                                             !.active = TRUE, !.pending = ks],
                keys |-> ks]
    BY <1>3 DEF Relays, Way
  <2>2. ks \subseteq local /\ Cardinality(ks) = n
    BY <2>1 DEF kSubset
  <2>3. ks # {}
    BY <1>3, <2>2, FS_EmptySet
  <2>4. PICK y : y = WatchNext(x)
    OBVIOUS
  <2>5. y = [buf |-> x.buf, active |-> x.active, pending |-> x.pending, gen |-> x.gen + 1,
             timers |-> x.timers \cup {x.gen + 1}]
    <3>1. PICK g, t : g = x.gen + 1 /\ t = x.timers \cup {x.gen + 1}
      OBVIOUS
    <3>2. y = [x EXCEPT !.gen = g, !.timers = t]
      BY <2>4, <3>1 DEF WatchNext
    <3> QED BY <3>1, <3>2 DEF EndState
  <2>6. PICK c : c = Each(ReserveKey, x.buf, ks)
    OBVIOUS
  <2>7. r.keys = ks /\ r.end = [y EXCEPT !.buf = Each(ReserveKey, @, ks), !.active = TRUE,
                                         !.pending = ks]
    BY <2>1, <2>4
  <2>8. r.end = [y EXCEPT !.buf = c, !.active = TRUE, !.pending = ks]
    BY <2>5, <2>6, <2>7
  <2>9. r.end = [buf |-> c, active |-> TRUE, pending |-> ks, gen |-> x.gen + 1,
                 timers |-> x.timers \cup {x.gen + 1}]
    BY <2>5, <2>8
  <2>10. r.end = Begun(x, ks) /\ r.end.gen = x.gen + 1
    BY <2>6, <2>9 DEF Begun
  <2> QED BY <1>1, <1>3, <2>2, <2>3, <2>7, <2>10 DEF Begins, Take
<1> QED BY <1>2, <1>3

-----------------------------------------------------------------------------
(* Every step keeps the types.                                             *)

LEMMA InitTypes == Init => Types
<1> SUFFICES ASSUME Init PROVE Types
  OBVIOUS
<1>1. EmptyBuffer \in Buffer /\ Plain(EmptyBuffer)
  BY BoundsNat DEF EmptyBuffer, Buffer, KeyState, Plain
<1>2. Idle \in EndState /\ Idle.buf = EmptyBuffer
  BY <1>1, RelayAssumption DEF Idle, EndState
<1>3. Ends(relay)
  BY <1>1, <1>2 DEF Init, Ends
<1>4. Proxies(proxy) /\ proxy = [j \in Node |-> proxy[j]]
  BY DEF Init, Proxies
<1>5. Queries(query) /\ query = [l \in Link |-> query[l]] /\ net \in Nets
  BY EmptySeq DEF Init, Queries, Nets
<1>6. Given(served) /\ Given(fetched) /\ lost \in 0 .. MaxLost
  BY RelayAssumption DEF Init, Given
<1> QED BY <1>3, <1>4, <1>5, <1>6 DEF Init, Types

LEMMA ReservedTyped ==
  ASSUME NEW x \in EndState, Plain(x.buf), x.gen < MaxRelays, NEW ks \in SUBSET KeyIds
  PROVE  /\ Begun(x, ks) \in EndState /\ Plain(Begun(x, ks).buf)
         /\ x.gen + 1 \in 1 .. MaxRelays
<1>1. x.gen + 1 \in 1 .. MaxRelays /\ x.gen + 1 \in 0 .. MaxRelays
      /\ x.timers \cup {x.gen + 1} \in SUBSET (1 .. MaxRelays)
  BY RelayAssumption DEF EndState
<1>2. PICK c : c = Each(ReserveKey, x.buf, ks)
  OBVIOUS
<1>3. Plain(c) /\ c \in Buffer
  BY <1>2, EachReserves DEF Plain
<1> QED BY <1>1, <1>2, <1>3 DEF Begun, EndState

LEMMA FinishTypes ==
  ASSUME Types, NEW e \in Serving, NEW x \in EndState, Plain(x.buf), x.gen < MaxRelays,
         NEW asks \in Seq(Message), Finish(e, x, asks)
  PROVE  /\ Ends(relay') /\ enc' \in [Link -> SUBSET KeyIds]
         /\ proxy' = [j \in Node |-> proxy'[j]] /\ Proxies(proxy')
         /\ net' \in Nets
<1>1. e \in End /\ e \in Node /\ Way(e) \in Link /\ net[Way(e)] \in Seq(Message)
  BY WayLink DEF Types, Nets
<1>2. net[Way(e)] \o asks \in Seq(Message)
  BY <1>1, ConcatProperties
<1>3. CASE Quiet(e, x, asks)
  <2>1. net' \in Nets
    BY <1>1, <1>2, <1>3 DEF Types, Nets, Quiet
  <2>2. Ends(relay')
    BY <1>1, <1>3, EndWhole DEF Types, Quiet
  <2> QED BY <1>3, <2>1, <2>2 DEF Types, Quiet
<1>4. ASSUME NEW ks, Begins(e, x, ks, asks)
      PROVE  /\ Ends(relay') /\ enc' \in [Link -> SUBSET KeyIds]
             /\ proxy' = [j \in Node |-> proxy'[j]] /\ Proxies(proxy')
             /\ net' \in Nets
  <2>1. ks \in SUBSET KeyIds
    BY <1>1, <1>4 DEF Begins, Types
  <2>2. Begun(x, ks) \in EndState /\ Plain(Begun(x, ks).buf) /\ x.gen + 1 \in 1 .. MaxRelays
    BY <2>1, ReservedTyped
  <2>3. Ends(relay')
    BY <1>1, <1>4, <2>2, EndWhole DEF Types, Begins
  <2>4. enc' \in [Link -> SUBSET KeyIds]
    BY <1>1, <1>4 DEF Types, Begins
  <2>5. PICK q : q = <<e, x.gen + 1>>
    OBVIOUS
  <2>6. q \in Request
    BY <1>1, <2>2, <2>5 DEF Request
  <2>7. [req |-> q, prev |-> e, keys |-> ks] \in Noted(e)
    BY <1>1, <2>1, <2>6 DEF Noted, Near
  <2>8. proxy' = [proxy EXCEPT ![e] = @ \cup {[req |-> q, prev |-> e, keys |-> ks]}]
    BY <1>4, <2>5 DEF Begins
  <2>9. proxy' = [j \in Node |-> proxy'[j]] /\ Proxies(proxy')
    BY <1>1, <2>7, <2>8 DEF Types, Proxies
  <2>10. PICK m : m = [type |-> "relay", req |-> q, keys |-> ks, pads |-> {}]
    OBVIOUS
  <2>11. m \in Message
    BY <2>1, <2>6, <2>10 DEF Message
  <2>12. (net[Way(e)] \o asks) \o <<m>> \in Seq(Message)
    <3>1. <<m>> \in Seq(Message)
      BY <2>11
    <3> QED BY <1>2, <3>1, ConcatProperties
  <2>13. net' = [net EXCEPT ![Way(e)] = (@ \o asks) \o <<m>>]
    BY <1>4, <2>5, <2>10 DEF Begins
  <2>14. net' \in Nets
    BY <1>1, <2>12, <2>13 DEF Types, Nets
  <2> QED BY <2>3, <2>4, <2>9, <2>14
<1> QED BY <1>3, <1>4, FinishEffect

LEMMA TimeoutTypes ==
  ASSUME Types, NEW e \in End, NEW g, RelayTimeoutCheck(e, g)
  PROVE  Types'
<1>1. relay[e] \in EndState /\ Plain(relay[e].buf)
  BY DEF Types, Ends
<1>2. PICK y : y = IF Current(e, g)
         THEN [buf |-> Each(DiscardKey, relay[e].buf, relay[e].pending), active |-> FALSE,
               pending |-> {}, gen |-> g, timers |-> relay[e].timers \ {g}]
         ELSE [relay[e] EXCEPT !.timers = @ \ {g}]
  OBVIOUS
<1>3. relay' = [relay EXCEPT ![e] = y]
  BY <1>2 DEF RelayTimeoutCheck
<1>4. PICK c : c = Each(DiscardKey, relay[e].buf, relay[e].pending)
  OBVIOUS
<1>5. Plain(c) /\ c \in Buffer
  BY <1>1, <1>4, EachKeeps DEF Keeps, Plain, EndState
<1>6. y \in EndState /\ Plain(y.buf)
  <2>1. CASE Current(e, g)
    <3>1. g = relay[e].gen /\ y = [buf |-> c, active |-> FALSE, pending |-> {}, gen |-> g,
                                   timers |-> relay[e].timers \ {g}]
      BY <1>2, <1>4, <2>1 DEF Current
    <3> QED BY <1>1, <1>5, <3>1 DEF EndState
  <2>2. CASE ~Current(e, g)
    <3>1. y = [relay[e] EXCEPT !.timers = @ \ {g}]
      BY <1>2, <2>2
    <3> QED BY <1>1, <3>1 DEF EndState
  <2> QED BY <2>1, <2>2
<1>7. Ends(relay')
  BY <1>3, <1>6, EndWhole DEF Types
<1> QED BY <1>7 DEF Types, RelayTimeoutCheck

(* ProcessRelayRequest: refuse, pass on under new pads, or store.          *)
Refuses(l, r, dst) ==
  /\ net' = Put(Drop(net, l), <<l[2], l[1]>>, Reply(r, FALSE))
  /\ relay' = relay /\ enc' = enc /\ proxy' = proxy

PassesOn(l, r, dst, pads) ==
  LET out == <<l[2], NextHop(l[2], dst)>>
  IN /\ l[2] # dst /\ pads \subseteq enc[out] /\ Cardinality(pads) = Cardinality(r.keys)
     /\ net' = Put(Drop(net, l), out, [r EXCEPT !.pads = pads])
     /\ enc' = [enc EXCEPT ![out] = @ \ pads]
     /\ proxy' = [proxy EXCEPT ![l[2]] = @ \cup {[req |-> r.req, prev |-> l[1], keys |-> {}]}]
     /\ relay' = relay

Stores(l, r, dst, ks) ==
  /\ l[2] = dst /\ ks \subseteq r.keys
  /\ Cardinality(ks) = Min({Cardinality(r.keys), Max({0, Mmax - relay[dst].buf.bits})})
  /\ net' = Put(Drop(net, l), <<l[2], l[1]>>, Reply(r, TRUE))
  /\ relay' = [relay EXCEPT ![dst].buf = Each(LAMBDA b, k : StoreKey(b, k, 1), @, ks)]
  /\ enc' = enc /\ proxy' = proxy

LEMMA RequestEffect ==
  ASSUME Types, NEW l \in Link, ProcessRelayRequest(l[1], l[2]),
         NEW r, r = Head(net[l]), NEW dst, dst = Far(r.req[1])
  PROVE  /\ Running(l[2]) /\ net[l] # <<>> /\ r \in Message /\ r.type = "relay"
         /\ r.req \in Request /\ r.keys \in SUBSET KeyIds /\ r.pads \in SUBSET KeyIds
         /\ dst \in End
         /\ dec' = [dec EXCEPT ![l] = @ \ Opens(r)]
         /\ UNCHANGED <<query, halted, served, fetched, lost>>
         /\ \/ Refuses(l, r, dst)
            \/ \E pads : PassesOn(l, r, dst, pads)
            \/ \E ks : Stores(l, r, dst, ks)
<1>1. l = <<l[1], l[2]>> /\ <<l[2], l[1]>> \in Link /\ l[2] \in Node
  BY PathFacts
<1>2. Running(l[2]) /\ net[l] # <<>> /\ r.type = "relay"
  BY <1>1 DEF ProcessRelayRequest, Received
<1>3. r \in Message
  BY <1>2, NetTyped DEF Types
<1>4. r.req \in Request /\ r.keys \in SUBSET KeyIds /\ r.pads \in SUBSET KeyIds
  BY <1>2, <1>3, MessageKinds
<1>5. dst \in End
  BY <1>4, PathFacts DEF Request
<1>6. dec' = [dec EXCEPT ![l] = @ \ Opens(r)] /\ UNCHANGED <<query, halted, served, fetched, lost>>
  BY <1>1 DEF ProcessRelayRequest
<1> DEFINE out == <<l[2], NextHop(l[2], dst)>>
           n == Cardinality(r.keys)
<1>7. \/ /\ net' = Passed(l[1], l[2], l[1], Reply(r, FALSE))
         /\ UNCHANGED <<relay, enc, proxy>>
      \/ /\ l[2] # dst
         /\ \E pads \in kSubset(n, enc[out]) :
              /\ enc' = Take(out, pads)
              /\ net' = Passed(l[1], l[2], out[2], [r EXCEPT !.pads = pads])
         /\ proxy' = [proxy EXCEPT ![l[2]] =
                        @ \cup {[req |-> r.req, prev |-> l[1], keys |-> {}]}]
         /\ UNCHANGED relay
      \/ /\ l[2] = dst
         /\ \E ks \in kSubset(Min({n, Max({0, Mmax - relay[l[2]].buf.bits})}), r.keys) :
              relay' = [relay EXCEPT ![l[2]].buf =
                          Each(LAMBDA b, k : StoreKey(b, k, 1), @, ks)]
         /\ net' = Passed(l[1], l[2], l[1], Reply(r, TRUE))
         /\ UNCHANGED <<enc, proxy>>
  BY <1>1 DEF ProcessRelayRequest
<1>8. CASE /\ net' = Passed(l[1], l[2], l[1], Reply(r, FALSE))
           /\ UNCHANGED <<relay, enc, proxy>>
  <2>1. net' = Put(Drop(net, l), <<l[2], l[1]>>, Reply(r, FALSE))
    BY <1>1, <1>8, PassedDrops DEF Types
  <2> QED BY <1>2, <1>3, <1>4, <1>5, <1>6, <1>8, <2>1 DEF Refuses
<1>9. ASSUME l[2] # dst, NEW pads \in kSubset(n, enc[out]), enc' = Take(out, pads),
             net' = Passed(l[1], l[2], out[2], [r EXCEPT !.pads = pads]),
             proxy' = [proxy EXCEPT ![l[2]] =
                         @ \cup {[req |-> r.req, prev |-> l[1], keys |-> {}]}],
             UNCHANGED relay
      PROVE  PassesOn(l, r, dst, pads)
  <2>1. out \in Link /\ out = <<l[2], out[2]>>
    BY <1>1, <1>5, <1>9, PathFacts
  <2>2. net' = Put(Drop(net, l), out, [r EXCEPT !.pads = pads])
    BY <1>9, <2>1, PassedDrops DEF Types
  <2>3. pads \subseteq enc[out] /\ Cardinality(pads) = n
    BY <1>9 DEF kSubset
  <2> QED BY <1>9, <2>2, <2>3 DEF PassesOn, Take
<1>10. ASSUME l[2] = dst,
              NEW ks \in kSubset(Min({n, Max({0, Mmax - relay[l[2]].buf.bits})}), r.keys),
              relay' = [relay EXCEPT ![l[2]].buf =
                          Each(LAMBDA b, k : StoreKey(b, k, 1), @, ks)],
              net' = Passed(l[1], l[2], l[1], Reply(r, TRUE)), UNCHANGED <<enc, proxy>>
       PROVE  Stores(l, r, dst, ks)
  <2>1. net' = Put(Drop(net, l), <<l[2], l[1]>>, Reply(r, TRUE))
    BY <1>1, <1>10, PassedDrops DEF Types
  <2>2. ks \subseteq r.keys /\ Cardinality(ks) = Min({n, Max({0, Mmax - relay[dst].buf.bits})})
    BY <1>10 DEF kSubset
  <2> QED BY <1>10, <2>1, <2>2 DEF Stores
<1> QED BY <1>2, <1>3, <1>4, <1>5, <1>6, <1>7, <1>8, <1>9, <1>10

LEMMA RequestTypes ==
  ASSUME Types, NEW l \in Link, ProcessRelayRequest(l[1], l[2])
  PROVE  Types'
<1>1. PICK r, dst : r = Head(net[l]) /\ dst = Far(r.req[1])
  OBVIOUS
<1>2. /\ net[l] # <<>> /\ r \in Message /\ r.type = "relay"
      /\ r.req \in Request /\ r.keys \in SUBSET KeyIds /\ r.pads \in SUBSET KeyIds
      /\ dst \in End
      /\ dec' = [dec EXCEPT ![l] = @ \ Opens(r)]
      /\ UNCHANGED <<query, halted, served, fetched, lost>>
  BY <1>1, RequestEffect
<1>3. Drop(net, l) \in Nets /\ l[1] \in Node /\ l[2] \in Node /\ <<l[2], l[1]>> \in Link
  BY <1>2, NetTyped, PathFacts DEF Types
<1>4. dec' \in [Link -> SUBSET KeyIds]
  BY <1>2 DEF Types
<1>5. Reply(r, FALSE) \in Message /\ Reply(r, TRUE) \in Message
  BY <1>2 DEF Reply, Message
<1>6. CASE Refuses(l, r, dst)
  <2>1. net' \in Nets
    BY <1>3, <1>5, <1>6, NetTyped DEF Refuses
  <2> QED BY <1>2, <1>4, <1>6, <2>1 DEF Refuses, Types
<1>7. ASSUME NEW pads, PassesOn(l, r, dst, pads) PROVE Types'
  <2>1. PICK out : out = <<l[2], NextHop(l[2], dst)>>
    OBVIOUS
  <2>2. out \in Link
    BY <1>2, <1>3, <1>7, <2>1, PathFacts DEF PassesOn
  <2>3. pads \in SUBSET KeyIds
    BY <1>7, <2>1, <2>2 DEF PassesOn, Types
  <2>4. [r EXCEPT !.pads = pads] \in Message
    <3>1. r \in [type : {"relay"}, req : Request, keys : SUBSET KeyIds, pads : SUBSET KeyIds]
      BY <1>2, MessageKinds
    <3>2. [r EXCEPT !.pads = pads] \in
            [type : {"relay"}, req : Request, keys : SUBSET KeyIds, pads : SUBSET KeyIds]
      BY <2>3, <3>1
    <3> QED BY <3>2 DEF Message
  <2>5. net' \in Nets
    BY <1>3, <1>7, <2>1, <2>2, <2>4, NetTyped DEF PassesOn
  <2>6. enc' \in [Link -> SUBSET KeyIds]
    BY <1>7, <2>1, <2>2 DEF PassesOn, Types
  <2>7. [req |-> r.req, prev |-> l[1], keys |-> {}] \in Noted(l[2])
    BY <1>2, <1>3 DEF Noted, Near
  <2>8. proxy' = [proxy EXCEPT ![l[2]] = @ \cup {[req |-> r.req, prev |-> l[1], keys |-> {}]}]
        /\ relay' = relay
    BY <1>7 DEF PassesOn
  <2>9. proxy' = [j \in Node |-> proxy'[j]] /\ Proxies(proxy')
    BY <1>3, <2>7, <2>8 DEF Types, Proxies
  <2> QED BY <1>2, <1>4, <2>5, <2>6, <2>8, <2>9 DEF Types
<1>8. ASSUME NEW ks, Stores(l, r, dst, ks) PROVE Types'
  <2>1. ks \in SUBSET KeyIds /\ Plain(relay[dst].buf)
    BY <1>2, <1>8 DEF Stores, Types, Ends
  <2>2. PICK c : c = Each(LAMBDA b, k : StoreKey(b, k, 1), relay[dst].buf, ks)
    OBVIOUS
  <2>3. Plain(c)
    BY <2>1, <2>2, EachStores
  <2>4. relay' = [relay EXCEPT ![dst].buf = c]
    BY <1>8, <2>2 DEF Stores
  <2>5. Ends(relay')
    BY <1>2, <2>3, <2>4, EndBuffer DEF Types
  <2>6. net' \in Nets
    BY <1>3, <1>5, <1>8, NetTyped DEF Stores
  <2> QED BY <1>2, <1>4, <1>8, <2>5, <2>6 DEF Stores, Types
<1> QED BY <1>1, <1>6, <1>7, <1>8, RequestEffect

(* ProcessRelayResponse: it belongs to no request, it is handed back, or   *)
(* the keys of the attempt are settled.                                    *)
Halts(l, a) ==
  /\ {p \in proxy[l[2]] : p.req = a.req} = {} /\ halted' = halted \cup {l[2]}
  /\ net' = Drop(net, l) /\ UNCHANGED <<relay, proxy>>

HandsBack(l, a, p) ==
  /\ p \in proxy[l[2]] /\ p.req = a.req /\ p.prev # l[2]
  /\ net' = Put(Drop(net, l), <<l[2], p.prev>>, a)
  /\ proxy' = [proxy EXCEPT ![l[2]] = @ \ {p}] /\ UNCHANGED <<relay, halted>>

Settled(j, ok, ks) ==
  [relay EXCEPT ![j].buf = IF ok THEN Each(ConfirmKey, @, ks) ELSE Each(DiscardKey, @, ks),
                ![j].active = FALSE]

Settles(l, a, p) ==
  /\ p \in proxy[l[2]] /\ p.req = a.req /\ p.prev = l[2]
  /\ net' = Drop(net, l)
  /\ relay' = Settled(l[2], a.ok, p.keys)
  /\ proxy' = [proxy EXCEPT ![l[2]] = @ \ {p}] /\ UNCHANGED halted

LEMMA ResponseEffect ==
  ASSUME Types, NEW l \in Link, ProcessRelayResponse(l[1], l[2]), NEW a, a = Head(net[l])
  PROVE  /\ Running(l[2]) /\ net[l] # <<>> /\ a \in Message /\ a.type = "relayed"
         /\ a.req \in Request /\ a.ok \in BOOLEAN
         /\ UNCHANGED <<enc, dec, query, served, fetched, lost>>
         /\ Halts(l, a) \/ \E p : HandsBack(l, a, p) \/ Settles(l, a, p)
<1>1. l = <<l[1], l[2]>> /\ <<l[2], l[1]>> \in Link /\ l[2] \in Node
  BY PathFacts
<1>2. Running(l[2]) /\ net[l] # <<>> /\ a.type = "relayed"
  BY <1>1 DEF ProcessRelayResponse, Received
<1>3. a \in Message
  BY <1>2, NetTyped DEF Types
<1>4. a.req \in Request /\ a.ok \in BOOLEAN
  BY <1>2, <1>3, MessageKinds
<1>5. UNCHANGED <<enc, dec, query, served, fetched, lost>>
  BY DEF ProcessRelayResponse
<1>6. CASE {p \in proxy[l[2]] : p.req = a.req} = {}
  BY <1>1, <1>2, <1>3, <1>4, <1>5, <1>6 DEF ProcessRelayResponse, Halts, Drop
<1>7. CASE {p \in proxy[l[2]] : p.req = a.req} # {}
  <2>1. PICK p \in {p \in proxy[l[2]] : p.req = a.req} :
          /\ proxy' = [proxy EXCEPT ![l[2]] = @ \ {p}]
          /\ IF p.prev # l[2]
               THEN net' = Passed(l[1], l[2], p.prev, a) /\ UNCHANGED relay
               ELSE /\ net' = [net EXCEPT ![l] = Tail(@)]
                    /\ relay' = [relay EXCEPT
                         ![l[2]].buf = IF a.ok THEN Each(ConfirmKey, @, p.keys)
                                               ELSE Each(DiscardKey, @, p.keys),
                         ![l[2]].active = FALSE]
          /\ UNCHANGED halted
    BY <1>1, <1>7 DEF ProcessRelayResponse
  <2>2. CASE p.prev # l[2]
    <3>1. <<l[2], p.prev>> \in Link
      <4>1. p \in Noted(l[2])
        BY <1>1, <2>1 DEF Types, Proxies
      <4> QED BY <2>2, <4>1 DEF Noted, Near
    <3>2. net' = Put(Drop(net, l), <<l[2], p.prev>>, a)
      BY <2>1, <2>2, <3>1, PassedDrops DEF Types
    <3>3. HandsBack(l, a, p)
      BY <2>1, <2>2, <3>2 DEF HandsBack
    <3> QED BY <1>2, <1>3, <1>4, <1>5, <3>3
  <2>3. CASE p.prev = l[2]
    <3>1. net' = Drop(net, l)
      BY <2>1, <2>3 DEF Drop
    <3>2. relay' = Settled(l[2], a.ok, p.keys)
      BY <2>1, <2>3 DEF Settled
    <3>3. Settles(l, a, p)
      BY <2>1, <2>3, <3>1, <3>2 DEF Settles
    <3> QED BY <1>2, <1>3, <1>4, <1>5, <3>3
  <2> QED BY <2>2, <2>3
<1> QED BY <1>6, <1>7

LEMMA SettledWhole ==
  ASSUME Types, NEW j \in End, NEW ok, NEW ks \in SUBSET KeyIds, NEW r2,
         r2 = Settled(j, ok, ks), NEW c,
         c = IF ok THEN Each(ConfirmKey, relay[j].buf, ks) ELSE Each(DiscardKey, relay[j].buf, ks)
  PROVE   /\ Ends(r2) /\ Keeps(relay[j].buf, c) /\ r2[j].buf = c /\ ~r2[j].active
             /\ r2[j].gen = relay[j].gen /\ r2[j].timers = relay[j].timers
             /\ r2[j].pending = relay[j].pending
             /\ \A f \in End : f # j => r2[f] = relay[f]
<1>2. Keeps(relay[j].buf, c)
  BY EachKeeps DEF Types, Ends
<1>3. PICK r1 : r1 = [relay EXCEPT ![j].buf = c]
  OBVIOUS
<1>4. PICK v \in BOOLEAN : v = FALSE
  OBVIOUS
<1>5. r2 = [r1 EXCEPT ![j].active = v]
  BY <1>3, <1>4 DEF Types, Ends, Settled
<1>6. /\ Ends(r1) /\ r1[j].buf = c /\ r1[j].pending = relay[j].pending
      /\ r1[j].gen = relay[j].gen /\ r1[j].timers = relay[j].timers
      /\ \A f \in End : f # j => r1[f] = relay[f]
  <2>1. Ends(relay) /\ Plain(c)
    BY <1>2 DEF Types, Keeps
  <2>2. Ends(r1)
    BY <1>3, <2>1, EndBuffer
  <2>3. r1[j].buf = c
    BY <1>3, <2>1 DEF Ends, EndState
  <2>4. r1[j].pending = relay[j].pending
    BY <1>3, <2>1, EndBuffer
  <2>5. r1[j].gen = relay[j].gen
    BY <1>3, <2>1, EndBuffer
  <2>6. r1[j].timers = relay[j].timers
    BY <1>3, <2>1, EndBuffer
  <2>7. \A f \in End : f # j => r1[f] = relay[f]
    BY <1>3, <2>1, EndBuffer
  <2> QED BY <2>2, <2>3, <2>4, <2>5, <2>6, <2>7
<1>7. r1[j] \in EndState /\ r1 \in [End -> EndState]
  BY <1>6 DEF Ends
<1>8. PICK y : y = [r1[j] EXCEPT !.active = v]
  OBVIOUS
<1>9. y \in EndState /\ y.buf = c /\ y.active = v /\ y.pending = relay[j].pending
      /\ y.gen = relay[j].gen /\ y.timers = relay[j].timers
  BY <1>6, <1>7, <1>8 DEF EndState
<1>10. r2 = [r1 EXCEPT ![j] = y]
  BY <1>5, <1>7, <1>8
<1>11. Ends(r2) /\ r2[j] = y /\ \A f \in End : f # j => r2[f] = r1[f]
  <2>1. Plain(y.buf)
    BY <1>2, <1>9 DEF Keeps
  <2>2. r2 \in [End -> EndState]
    BY <1>7, <1>9, <1>10
  <2>3. r2[j] = y /\ \A f \in End : f # j => r2[f] = r1[f]
    BY <1>7, <1>10
  <2>4. Ends(r2)
    BY <1>6, <2>1, <2>2, <2>3 DEF Ends
  <2> QED BY <2>2, <2>3, <2>4
<1>12. ~r2[j].active
  BY <1>4, <1>9, <1>11
<1> QED BY <1>2, <1>6, <1>9, <1>11, <1>12

LEMMA ResponseTypes ==
  ASSUME Types, NEW l \in Link, ProcessRelayResponse(l[1], l[2])
  PROVE  Types'
<1>1. PICK a : a = Head(net[l])
  OBVIOUS
<1>2. /\ net[l] # <<>> /\ a \in Message /\ a.type = "relayed"
      /\ a.req \in Request /\ a.ok \in BOOLEAN /\ Running(l[2])
      /\ UNCHANGED <<enc, dec, query, served, fetched, lost>>
  BY <1>1, ResponseEffect
<1>3. Drop(net, l) \in Nets /\ l[1] \in Node /\ l[2] \in Node
  BY <1>2, NetTyped, PathFacts DEF Types
<1>4. CASE Halts(l, a)
  BY <1>2, <1>3, <1>4 DEF Halts, Types
<1>5. ASSUME NEW p, p \in proxy[l[2]], proxy' = [proxy EXCEPT ![l[2]] = @ \ {p}]
      PROVE  proxy' = [j \in Node |-> proxy'[j]] /\ Proxies(proxy') /\ p \in Noted(l[2])
  BY <1>3, <1>5 DEF Types, Proxies
<1>6. ASSUME NEW p, HandsBack(l, a, p) PROVE Types'
  <2>1. proxy' = [j \in Node |-> proxy'[j]] /\ Proxies(proxy') /\ p \in Noted(l[2])
    BY <1>5, <1>6 DEF HandsBack
  <2>2. <<l[2], p.prev>> \in Link
    BY <1>6, <2>1 DEF HandsBack, Noted, Near
  <2>3. net' \in Nets
    BY <1>2, <1>3, <1>6, <2>2, NetTyped DEF HandsBack
  <2> QED BY <1>2, <1>6, <2>1, <2>3 DEF HandsBack, Types
<1>7. ASSUME NEW p, Settles(l, a, p) PROVE Types'
  <2>1. proxy' = [j \in Node |-> proxy'[j]] /\ Proxies(proxy') /\ p \in Noted(l[2])
    BY <1>5, <1>7 DEF Settles
  <2>2. p.keys \in SUBSET KeyIds
    BY <2>1 DEF Noted
  <2>3. CASE l[2] \in End
    <3>1. PICK r2 : r2 = Settled(l[2], a.ok, p.keys)
      OBVIOUS
    <3>2. Ends(r2) /\ relay' = r2
      BY <1>7, <2>2, <2>3, <3>1, SettledWhole DEF Settles
    <3> QED BY <1>2, <1>3, <1>7, <2>1, <3>2 DEF Settles, Types
  <2>4. CASE l[2] \notin End
    <3>1. relay' = relay
      BY <1>7, <2>4 DEF Settles, Settled, Types, Ends
    <3> QED BY <1>2, <1>3, <1>7, <2>1, <3>1 DEF Settles, Types
  <2> QED BY <2>3, <2>4
<1> QED BY <1>1, <1>4, <1>6, <1>7, ResponseEffect

(* ProcessSKeyCreateRequest.                                               *)
Forwards(l, m, dst) ==
  LET out == <<l[2], NextHop(l[2], dst)>>
  IN /\ l[2] # dst /\ net' = Put(Drop(net, l), out, m)
     /\ query' = [query EXCEPT ![out] = Append(@, l[1])] /\ relay' = relay

Makes(l, m, dst) ==
  /\ l[2] = dst /\ net' = Put(Drop(net, l), <<l[2], l[1]>>, [type |-> "created"])
  /\ relay' = [relay EXCEPT ![dst].buf = Supply(@, m)] /\ query' = query

LEMMA CreateEffect ==
  ASSUME Types, NEW l \in Link, ProcessSKeyCreateRequest(l[1], l[2]),
         NEW m, m = Head(net[l]), NEW dst, dst = Far(m.src)
  PROVE  /\ Running(l[2]) /\ net[l] # <<>> /\ m \in Message /\ m.type = "skey"
         /\ m.src \in End /\ m.key \in KeyIds /\ m.supply \in SupplyIds /\ dst \in End
         /\ UNCHANGED <<enc, dec, proxy, halted, served, fetched, lost>>
         /\ Forwards(l, m, dst) \/ Makes(l, m, dst)
<1>1. l = <<l[1], l[2]>> /\ <<l[2], l[1]>> \in Link /\ l[2] \in Node
  BY PathFacts
<1>2. Running(l[2]) /\ net[l] # <<>> /\ m.type = "skey"
  BY <1>1 DEF ProcessSKeyCreateRequest, Received
<1>3. m \in Message
  BY <1>2, NetTyped DEF Types
<1>4. m.src \in End /\ m.key \in KeyIds /\ m.supply \in SupplyIds
  BY <1>2, <1>3, MessageKinds
<1>5. dst \in End
  BY <1>4, PathFacts
<1>6. UNCHANGED <<enc, dec, proxy, halted, served, fetched, lost>>
  BY DEF ProcessSKeyCreateRequest
<1>7. CASE l[2] # dst
  <2>1. PICK out : out = <<l[2], NextHop(l[2], dst)>>
    OBVIOUS
  <2>2. out \in Link /\ out = <<l[2], out[2]>>
    BY <1>1, <1>5, <1>7, <2>1, PathFacts
  <2>3. /\ net' = Passed(l[1], l[2], out[2], m)
        /\ query' = [query EXCEPT ![out] = Append(@, l[1])] /\ relay' = relay
    BY <1>1, <1>7, <2>1 DEF ProcessSKeyCreateRequest
  <2>4. net' = Put(Drop(net, l), out, m)
    BY <2>2, <2>3, PassedDrops DEF Types
  <2>5. Forwards(l, m, dst)
    BY <1>7, <2>1, <2>3, <2>4 DEF Forwards
  <2> QED BY <1>2, <1>3, <1>4, <1>5, <1>6, <2>5
<1>8. CASE l[2] = dst
  <2>1. /\ net' = Passed(l[1], l[2], l[1], [type |-> "created"])
        /\ relay' = [relay EXCEPT ![l[2]].buf = Supply(@, m)] /\ query' = query
    BY <1>1, <1>8 DEF ProcessSKeyCreateRequest
  <2>2. net' = Put(Drop(net, l), <<l[2], l[1]>>, [type |-> "created"])
    BY <1>1, <2>1, PassedDrops DEF Types
  <2>3. Makes(l, m, dst)
    BY <1>8, <2>1, <2>2 DEF Makes
  <2> QED BY <1>2, <1>3, <1>4, <1>5, <1>6, <2>3
<1> QED BY <1>7, <1>8

LEMMA CreateTypes ==
  ASSUME Types, NEW l \in Link, ProcessSKeyCreateRequest(l[1], l[2])
  PROVE  Types'
<1>1. PICK m, dst : m = Head(net[l]) /\ dst = Far(m.src)
  OBVIOUS
<1>2. /\ net[l] # <<>> /\ m \in Message
      /\ m.key \in KeyIds /\ m.supply \in SupplyIds /\ dst \in End
      /\ UNCHANGED <<enc, dec, proxy, halted, served, fetched, lost>>
  BY <1>1, CreateEffect
<1>3. Drop(net, l) \in Nets /\ l[1] \in Node /\ l[2] \in Node /\ <<l[2], l[1]>> \in Link
  BY <1>2, NetTyped, PathFacts DEF Types
<1>4. CASE Forwards(l, m, dst)
  <2>1. PICK out : out = <<l[2], NextHop(l[2], dst)>>
    OBVIOUS
  <2>2. out \in Link /\ out[1] = l[2]
    BY <1>2, <1>3, <1>4, <2>1, PathFacts DEF Forwards
  <2>3. net' = Put(Drop(net, l), out, m) /\ query' = [query EXCEPT ![out] = Append(@, l[1])]
        /\ relay' = relay
    BY <1>4, <2>1 DEF Forwards
  <2>4. net' \in Nets
    BY <1>2, <1>3, <2>2, <2>3, NetTyped
  <2>5. l[1] \in Near(out[1]) /\ query[out] \in Seq(Near(out[1]))
    BY <1>3, <2>2 DEF Near, Types, Queries
  <2>6. Append(query[out], l[1]) \in Seq(Near(out[1]))
    BY <2>5
  <2>7. query' = [k \in Link |-> query'[k]] /\ Queries(query')
    BY <2>2, <2>3, <2>6 DEF Types, Queries
  <2> QED BY <1>2, <2>3, <2>4, <2>7 DEF Types
<1>5. CASE Makes(l, m, dst)
  <2>1. PICK c : c = Supply(relay[dst].buf, m)
    OBVIOUS
  <2>2. Plain(c)
    <3>1. Plain(relay[dst].buf)
      BY <1>2 DEF Types, Ends
    <3> QED BY <1>2, <2>1, <3>1, PlainSupplies
  <2>3. relay' = [relay EXCEPT ![dst].buf = c]
    BY <1>5, <2>1 DEF Makes
  <2>4. Ends(relay')
    BY <1>2, <2>2, <2>3, EndBuffer DEF Types
  <2>5. [type |-> "created"] \in Message
    BY DEF Message
  <2>6. net' \in Nets
    BY <1>3, <1>5, <2>5, NetTyped DEF Makes
  <2> QED BY <1>2, <1>5, <2>4, <2>6 DEF Makes, Types
<1> QED BY <1>1, <1>4, <1>5, CreateEffect

(* ProcessSKeyCreateResponse.                                              *)
LEMMA CreatedEffect ==
  ASSUME Types, NEW l \in Link, ProcessSKeyCreateResponse(l[1], l[2])
  PROVE  LET m == Head(net[l])
             back == <<l[2], l[1]>>
         IN  /\ net[l] # <<>> /\ m \in Message /\ m.type = "created" /\ back \in Link
             /\ UNCHANGED <<relay, enc, dec, proxy, halted, served, fetched, lost>>
             /\ \/ net' = Drop(net, l) /\ query' = query
                \/ /\ query[back] # <<>> /\ query' = [query EXCEPT ![back] = Tail(@)]
                   /\ \/ net' = Drop(net, l)
                      \/ \E k : <<l[2], k>> \in Link /\ net' = Put(Drop(net, l), <<l[2], k>>, m)
<1>1. l = <<l[1], l[2]>> /\ <<l[2], l[1]>> \in Link /\ l[2] \in Node
  BY PathFacts
<1>2. PICK m, back : m = Head(net[l]) /\ back = <<l[2], l[1]>>
  OBVIOUS
<1>3. net[l] # <<>> /\ m.type = "created"
  BY <1>1, <1>2 DEF ProcessSKeyCreateResponse, Received
<1>4. m \in Message
  BY <1>2, <1>3, NetTyped DEF Types
<1>5. UNCHANGED <<relay, enc, dec, proxy, halted, served, fetched, lost>>
  BY DEF ProcessSKeyCreateResponse
<1>6. CASE query[back] = <<>>
  <2>1. net' = Drop(net, l) /\ query' = query
    BY <1>1, <1>2, <1>6 DEF ProcessSKeyCreateResponse, Drop
  <2> QED BY <1>1, <1>2, <1>3, <1>4, <1>5, <2>1
<1>7. CASE query[back] # <<>>
  <2>1. PICK k : k = Head(query[back])
    OBVIOUS
  <2>2. /\ query' = [query EXCEPT ![back] = Tail(@)]
        /\ net' = IF k = l[2] THEN Drop(net, l) ELSE Passed(l[1], l[2], k, m)
    BY <1>1, <1>2, <1>7, <2>1 DEF ProcessSKeyCreateResponse, Drop
  <2>3. k \in Near(l[2])
    <3>1. query[back] \in Seq(Near(l[2]))
      BY <1>1, <1>2 DEF Types, Queries
    <3> QED BY <1>7, <2>1, <3>1
  <2>4. CASE k = l[2]
    <3>1. net' = Drop(net, l)
      BY <2>2, <2>4
    <3> QED BY <1>1, <1>2, <1>3, <1>4, <1>5, <1>7, <2>2, <3>1
  <2>5. CASE k # l[2]
    <3>1. <<l[2], k>> \in Link
      BY <2>3, <2>5 DEF Near
    <3>2. net' = Put(Drop(net, l), <<l[2], k>>, m)
      BY <2>2, <2>5, <3>1, PassedDrops DEF Types
    <3> QED BY <1>1, <1>2, <1>3, <1>4, <1>5, <1>7, <2>2, <3>1, <3>2
  <2> QED BY <2>4, <2>5
<1> QED BY <1>6, <1>7

LEMMA CreatedTypes ==
  ASSUME Types, NEW l \in Link, ProcessSKeyCreateResponse(l[1], l[2])
  PROVE  Types'
<1>1. PICK m, back : m = Head(net[l]) /\ back = <<l[2], l[1]>>
  OBVIOUS
<1>2. /\ net[l] # <<>> /\ m \in Message /\ back \in Link
      /\ UNCHANGED <<relay, enc, dec, proxy, halted, served, fetched, lost>>
  BY <1>1, CreatedEffect
<1>3. Drop(net, l) \in Nets
  BY <1>2, NetTyped DEF Types
<1>4. \/ net' = Drop(net, l)
      \/ \E k : <<l[2], k>> \in Link /\ net' = Put(Drop(net, l), <<l[2], k>>, m)
  BY <1>1, CreatedEffect
<1>5. net' \in Nets
  BY <1>2, <1>3, <1>4, NetTyped
<1>6. query' = query \/ (query[back] # <<>> /\ query' = [query EXCEPT ![back] = Tail(@)])
  BY <1>1, CreatedEffect
<1>7. query' = [k \in Link |-> query'[k]] /\ Queries(query')
  <2>1. CASE query' = query
    BY <2>1 DEF Types
  <2>2. CASE query[back] # <<>> /\ query' = [query EXCEPT ![back] = Tail(@)]
    <3>1. query[back] \in Seq(Near(back[1]))
      BY <1>2 DEF Types, Queries
    <3>2. Tail(query[back]) \in Seq(Near(back[1]))
      BY <2>2, <3>1, HeadTailProperties
    <3> QED BY <1>2, <2>2, <3>2 DEF Types, Queries
  <2> QED BY <1>6, <2>1, <2>2
<1> QED BY <1>2, <1>5, <1>7 DEF Types

LEMMA EncTypes ==
  ASSUME Types, NEW e \in End, NEW s \in SupplyIds, EncKeys(e, s)
  PROVE  Types'
<1>1. e \in Serving /\ relay[e].gen < MaxRelays /\ relay[e] \in EndState /\ Plain(relay[e].buf)
  BY DEF EncKeys, Types, Ends
<1>2. PICK k \in Candidates(relay[e].buf, 1) :
        /\ Finish(e, [relay[e] EXCEPT !.buf = TransformCandidate(@, k, 1)],
                  <<[type |-> "skey", src |-> e, key |-> k, supply |-> s]>>)
        /\ served' = [served EXCEPT ![e][s] = {<<k, 1>>}]
  BY DEF EncKeys
<1>3. k \in KeyIds
  BY <1>2 DEF Candidates, Enough, ReadyKeys
<1>4. PICK c : c = TransformCandidate(relay[e].buf, k, 1)
  OBVIOUS
<1>5. Plain(c) /\ c \in Buffer
  BY <1>1, <1>3, <1>4, PlainTransform DEF Keeps, Plain
<1>6. PICK x : x = [relay[e] EXCEPT !.buf = c]
  OBVIOUS
<1>7. x \in EndState /\ x.buf = c /\ x.gen = relay[e].gen
  BY <1>1, <1>5, <1>6 DEF EndState
<1>8. PICK asks : asks = <<[type |-> "skey", src |-> e, key |-> k, supply |-> s]>>
  OBVIOUS
<1>9. asks \in Seq(Message)
  <2>1. [type |-> "skey", src |-> e, key |-> k, supply |-> s] \in Message
    BY <1>3 DEF Message
  <2> QED BY <1>8, <2>1
<1>10. Finish(e, x, asks)
  BY <1>2, <1>4, <1>6, <1>8
<1>11. /\ Ends(relay') /\ enc' \in [Link -> SUBSET KeyIds]
       /\ proxy' = [j \in Node |-> proxy'[j]] /\ Proxies(proxy')
       /\ net' \in Nets
  BY <1>1, <1>5, <1>7, <1>9, <1>10, FinishTypes
<1>12. query' = [l \in Link |-> query'[l]] /\ Queries(query')
  <2>1. query' = [query EXCEPT ![Way(e)] = Append(@, e)]
    BY DEF EncKeys, Way
  <2>2. Way(e) \in Link /\ Way(e)[1] = e /\ e \in Node
    BY <1>1, WayLink
  <2>3. query[Way(e)] \in Seq(Near(e)) /\ e \in Near(e)
    BY <2>2 DEF Types, Queries, Near
  <2>4. Append(query[Way(e)], e) \in Seq(Near(e))
    BY <2>3
  <2> QED BY <2>1, <2>2, <2>4 DEF Types, Queries
<1>13. Given(served')
  <2>1. {<<k, 1>>} \in SUBSET Cell
    BY <1>3, BoundsNat DEF Cell
  <2> QED BY <1>2, <2>1 DEF Types, Given
<1>14. UNCHANGED <<dec, halted, fetched, lost>>
  BY DEF EncKeys
<1> QED BY <1>11, <1>12, <1>13, <1>14 DEF Types

LEMMA RefusedTypes ==
  ASSUME Types, NEW e \in End, EncKeysRefused(e)
  PROVE  Types'
<1>1. /\ e \in Serving /\ relay[e].gen < MaxRelays /\ relay[e] \in EndState
      /\ Plain(relay[e].buf) /\ Finish(e, relay[e], <<>>)
  BY DEF EncKeysRefused, Types, Ends
<1>2. PICK asks \in Seq(Message) : asks = <<>>
  BY EmptySeq
<1>3. /\ Ends(relay') /\ enc' \in [Link -> SUBSET KeyIds]
      /\ proxy' = [j \in Node |-> proxy'[j]] /\ Proxies(proxy')
      /\ net' \in Nets
  BY <1>1, <1>2, FinishTypes
<1>4. UNCHANGED <<dec, query, halted, served, fetched, lost>>
  BY DEF EncKeysRefused
<1> QED BY <1>3, <1>4 DEF Types

LEMMA DecTypes ==
  ASSUME Types, NEW e \in End, NEW s \in SupplyIds, DecKeys(e, s)
  PROVE  Types'
<1>1. PICK c : c = GetSupplyKey(relay[e].buf, s)
  OBVIOUS
<1>2. Plain(relay[e].buf)
  BY DEF Types, Ends
<1>3. Plain(c)
  BY <1>1, <1>2, PlainTakeSupply DEF SetsSupply
<1>4. relay' = [relay EXCEPT ![e].buf = c]
  BY <1>1 DEF DecKeys
<1>5. Ends(relay')
  BY <1>3, <1>4, EndBuffer DEF Types
<1>6. Given(fetched')
  <2>1. relay[e].buf.supply[s] \in SUBSET Cell
    BY <1>2, PlainFields
  <2>2. PICK cells \in SUBSET Cell :
          cells = IF relay[e].buf.supply[s] = {} THEN fetched[e][s] ELSE relay[e].buf.supply[s]
    BY <2>1 DEF Types, Given
  <2>3. fetched' = [fetched EXCEPT ![e][s] = cells]
    BY <2>2 DEF DecKeys, Types, Given
  <2> QED BY <2>3 DEF Types, Given
<1> QED BY <1>5, <1>6 DEF DecKeys, Types

LEMMA NextTypes == Types /\ [Next]_vars => Types'
<1> SUFFICES ASSUME Types, [Next]_vars PROVE Types'
  OBVIOUS
<1>1. CASE Deliver
  BY <1>1, RequestTypes, ResponseTypes, CreateTypes, CreatedTypes DEF Deliver
<1>2. CASE Timeout
  BY <1>2, TimeoutTypes DEF Timeout
<1>3. ASSUME NEW l \in Link, Break(l) PROVE Types'
  <2>1. net' \in Nets
    BY <1>3, NetTyped DEF Types, Break
  <2>2. lost' \in 0 .. MaxLost
    BY <1>3, RelayAssumption DEF Types, Break
  <2> QED BY <1>3, <2>1, <2>2 DEF Types, Break
<1>4. ASSUME NEW l \in Link, NEW k \in KeyIds, LocalKey(l, k) PROVE Types'
  <2>1. enc' \in [Link -> SUBSET KeyIds] /\ dec' \in [Link -> SUBSET KeyIds]
    BY <1>4 DEF Types, LocalKey
  <2> QED BY <1>4, <2>1 DEF Types, LocalKey
<1>5. CASE UNCHANGED vars
  BY <1>5 DEF Types, vars
<1> QED BY <1>1, <1>2, <1>3, <1>4, <1>5, EncTypes, RefusedTypes, DecTypes DEF Next

LEMMA AlwaysTypes == Spec => []Types
<1> QED BY InitTypes, NextTypes, PTL DEF Spec

(* Every handler leaves the state of every node well formed, on a path of  *)
(* any length: a buffer keeps its type even where LogUpdate's guard or a   *)
(* failed assertion leaves its counters wrong.                             *)
THEOREM TypeCorrect == Spec => []TypeOK
<1> QED BY AlwaysTypes, TypesImply, PTL

-----------------------------------------------------------------------------
(* One-time pads.  Where a key is: in the LOCAL buffers of one link only,  *)
(* and in a message, as a key relayed or as a pad, only after it has left  *)
(* the "enc" buffer; a pad is in "dec" of the link it is used on until the *)
(* message is opened, so that no key with its id becomes available.        *)

Stock(en, de, rl) ==
  /\ \A l \in Link : en[l] \subseteq de[l]
  /\ \A l, m \in Link : l # m => en[l] \cap en[m] = {}
  /\ \A l \in Link, e \in End : en[l] \cap Owned(rl[e].buf) = {}

Secure(l, m, en, de, rl) ==
  /\ m.pads \subseteq de[l]
  /\ \A k \in Link : m.pads \cap en[k] = {} /\ m.keys \cap en[k] = {}
  /\ \A e \in End : m.pads \cap Owned(rl[e].buf) = {}

Flying(en, de, rl, n) ==
  \A l \in Link : \A i \in 1 .. Len(n[l]) :
    n[l][i].type = "relay" => Secure(l, n[l][i], en, de, rl)

Distinct(n) ==
  \A l, k \in Link : \A i \in 1 .. Len(n[l]), j \in 1 .. Len(n[k]) :
    n[l][i].type = "relay" /\ n[k][j].type = "relay" =>
      /\ n[l][i].pads \cap n[k][j].keys = {}
      /\ l # k \/ i # j => n[l][i].pads \cap n[k][j].pads = {}

PadInv == Stock(enc, dec, relay) /\ Flying(enc, dec, relay, net) /\ Distinct(net)

(* Nothing of the message m is in use by another message.                  *)
Alone(m, n) ==
  /\ m.pads \cap m.keys = {}
  /\ \A k \in Link : \A j \in 1 .. Len(n[k]) :
       n[k][j].type = "relay" =>
         /\ m.pads \cap n[k][j].keys = {} /\ m.pads \cap n[k][j].pads = {}
         /\ m.keys \cap n[k][j].pads = {}

LEMMA PadInvImplies == Types /\ PadInv => PadOnce
<1> SUFFICES ASSUME Types, PadInv PROVE PadOnce
  OBVIOUS
<1> DEFINE Pads(l) == UNION {net[l][i].pads : i \in {n \in DOMAIN net[l] : net[l][n].type = "relay"}}
<1>1. \A l \in Link : DOMAIN net[l] = 1 .. Len(net[l])
  BY DEF Types, Nets
<1>2. ASSUME NEW l \in Link, NEW k \in Pads(l)
      PROVE  (\A m \in Link : k \notin enc[m]) /\ \A e \in End : k \in KeyIds => ~Held(relay[e].buf, k)
  <2>1. PICK i \in 1 .. Len(net[l]) : net[l][i].type = "relay" /\ k \in net[l][i].pads
    BY <1>1, <1>2
  <2>2. Secure(l, net[l][i], enc, dec, relay)
    BY <2>1 DEF PadInv, Flying
  <2> QED BY <2>1, <2>2 DEF Secure, Owned
<1>3. ASSUME NEW l \in Link, NEW k \in Pads(l) PROVE k \in KeyIds
  <2>2. PICK i \in 1 .. Len(net[l]) : net[l][i].type = "relay" /\ k \in net[l][i].pads
    BY <1>1, <1>3
  <2>3. net[l][i] \in Message
    BY DEF Types, Nets
  <2> QED BY <2>2, <2>3, MessageKinds
<1>4. \A l \in Link : \A i, j \in DOMAIN net[l] :
        i # j /\ net[l][i].type = "relay" /\ net[l][j].type = "relay"
          => net[l][i].pads \cap net[l][j].pads = {}
  BY <1>1 DEF PadInv, Distinct
<1> HIDE DEF Pads
<1>5. \A l \in Link : /\ \A m \in Link : Pads(l) \cap enc[m] = {}
                      /\ \A e \in End, k \in Pads(l) : ~Held(relay[e].buf, k)
  BY <1>2, <1>3
<1> USE DEF Pads
<1> QED BY <1>4, <1>5 DEF PadOnce

-----------------------------------------------------------------------------
(* Where a message of the changed network was.                             *)

LEMMA DropAt ==
  ASSUME NEW n \in Nets, NEW l \in Link, n[l] # <<>>, NEW k \in Link,
         NEW i \in 1 .. Len(Drop(n, l)[k])
  PROVE  LET j == IF k = l THEN i + 1 ELSE i
         IN  /\ j \in 1 .. Len(n[k]) /\ Drop(n, l)[k][i] = n[k][j]
             /\ k # l \/ j # 1
<1>1. n[l] \in Seq(Message)
  BY DEF Nets
<1>2. CASE k = l
  <2>1. Drop(n, l)[k] = Tail(n[l])
    BY <1>2 DEF Drop, Nets
  <2>2. Len(Tail(n[l])) = Len(n[l]) - 1 /\ \A x \in 1 .. Len(n[l]) - 1 : Tail(n[l])[x] = n[l][x + 1]
    BY <1>1, HeadTailProperties
  <2>3. i \in 1 .. Len(n[l]) - 1 /\ Len(n[l]) \in Nat
    BY <1>1, <2>1, <2>2
  <2> QED BY <1>2, <2>1, <2>2, <2>3
<1>3. CASE k # l
  <2>1. Drop(n, l)[k] = n[k]
    BY <1>3 DEF Drop, Nets
  <2> QED BY <1>3, <2>1
<1> QED BY <1>2, <1>3

LEMMA PutAt ==
  ASSUME NEW n \in Nets, NEW l \in Link, NEW m, NEW k \in Link,
         NEW i \in 1 .. Len(Put(n, l, m)[k])
  PROVE  \/ i \in 1 .. Len(n[k]) /\ Put(n, l, m)[k][i] = n[k][i]
         \/ k = l /\ i = Len(n[l]) + 1 /\ Put(n, l, m)[k][i] = m
<1>1. n[l] \in Seq(Message)
  BY DEF Nets
<1>2. CASE k = l
  <2>1. Put(n, l, m)[k] = Append(n[l], m)
    BY <1>2 DEF Put, Nets
  <2>2. Len(Append(n[l], m)) = Len(n[l]) + 1 /\ Append(n[l], m)[Len(n[l]) + 1] = m
        /\ \A x \in 1 .. Len(n[l]) : Append(n[l], m)[x] = n[l][x]
    BY <1>1
  <2> QED BY <1>1, <1>2, <2>1, <2>2
<1>3. CASE k # l
  <2>1. Put(n, l, m)[k] = n[k]
    BY <1>3 DEF Put, Nets
  <2> QED BY <2>1
<1> QED BY <1>2, <1>3

LEMMA DropKeeps ==
  ASSUME NEW n \in Nets, NEW l \in Link, n[l] # <<>>, NEW en, NEW de, NEW rl,
         Flying(en, de, rl, n), Distinct(n)
  PROVE  /\ Flying(en, de, rl, Drop(n, l)) /\ Distinct(Drop(n, l))
         /\ Head(n[l]).type = "relay" =>
              /\ Secure(l, Head(n[l]), en, de, rl) /\ Alone(Head(n[l]), Drop(n, l))
<1>1. Head(n[l]) = n[l][1] /\ 1 \in 1 .. Len(n[l])
  <2>1. n[l] \in Seq(Message)
    BY DEF Nets
  <2> QED BY <2>1
<1>2. Flying(en, de, rl, Drop(n, l))
  <2> SUFFICES ASSUME NEW k \in Link, NEW i \in 1 .. Len(Drop(n, l)[k]),
                      Drop(n, l)[k][i].type = "relay"
               PROVE  Secure(k, Drop(n, l)[k][i], en, de, rl)
    BY DEF Flying
  <2>1. PICK j \in 1 .. Len(n[k]) : Drop(n, l)[k][i] = n[k][j]
    BY DropAt
  <2> QED BY <2>1 DEF Flying
<1>3. Distinct(Drop(n, l))
  <2> SUFFICES ASSUME NEW k \in Link, NEW q \in Link, NEW i \in 1 .. Len(Drop(n, l)[k]),
                      NEW j \in 1 .. Len(Drop(n, l)[q]),
                      Drop(n, l)[k][i].type = "relay", Drop(n, l)[q][j].type = "relay"
               PROVE  /\ Drop(n, l)[k][i].pads \cap Drop(n, l)[q][j].keys = {}
                      /\ k # q \/ i # j => Drop(n, l)[k][i].pads \cap Drop(n, l)[q][j].pads = {}
    BY DEF Distinct
  <2>1. PICK x \in 1 .. Len(n[k]) : Drop(n, l)[k][i] = n[k][x] /\ x = IF k = l THEN i + 1 ELSE i
    BY DropAt
  <2>2. PICK y \in 1 .. Len(n[q]) : Drop(n, l)[q][j] = n[q][y] /\ y = IF q = l THEN j + 1 ELSE j
    BY DropAt
  <2>3. k # q \/ i # j => k # q \/ x # y
    BY <2>1, <2>2
  <2> QED BY <2>1, <2>2, <2>3 DEF Distinct
<1>4. ASSUME Head(n[l]).type = "relay" PROVE Alone(Head(n[l]), Drop(n, l))
  <2>1. n[l][1].pads \cap n[l][1].keys = {}
    BY <1>1, <1>4 DEF Distinct
  <2>2. ASSUME NEW k \in Link, NEW j \in 1 .. Len(Drop(n, l)[k]), Drop(n, l)[k][j].type = "relay"
        PROVE  /\ n[l][1].pads \cap Drop(n, l)[k][j].keys = {}
               /\ n[l][1].pads \cap Drop(n, l)[k][j].pads = {}
               /\ n[l][1].keys \cap Drop(n, l)[k][j].pads = {}
    <3>1. PICK y \in 1 .. Len(n[k]) : Drop(n, l)[k][j] = n[k][y] /\ (k # l \/ y # 1)
      BY DropAt
    <3>2. n[k][y].type = "relay" /\ n[l][1].type = "relay"
      BY <1>1, <1>4, <2>2, <3>1
    <3>3. n[l][1].pads \cap n[k][y].keys = {} /\ n[k][y].pads \cap n[l][1].keys = {}
      BY <1>1, <3>2 DEF Distinct
    <3>4. n[l][1].pads \cap n[k][y].pads = {}
      BY <1>1, <3>1, <3>2 DEF Distinct
    <3> QED BY <3>1, <3>3, <3>4
  <2> QED BY <1>1, <2>1, <2>2 DEF Alone
<1>5. Head(n[l]).type = "relay" => Secure(l, Head(n[l]), en, de, rl)
  BY <1>1 DEF Flying
<1> QED BY <1>2, <1>3, <1>4, <1>5

LEMMA PutKeeps ==
  ASSUME NEW n \in Nets, NEW l \in Link, NEW m, NEW en, NEW de, NEW rl,
         Flying(en, de, rl, n), Distinct(n),
         m.type = "relay" => Secure(l, m, en, de, rl) /\ Alone(m, n)
  PROVE  Flying(en, de, rl, Put(n, l, m)) /\ Distinct(Put(n, l, m))
<1>1. Flying(en, de, rl, Put(n, l, m))
  <2> SUFFICES ASSUME NEW k \in Link, NEW i \in 1 .. Len(Put(n, l, m)[k]),
                      Put(n, l, m)[k][i].type = "relay"
               PROVE  Secure(k, Put(n, l, m)[k][i], en, de, rl)
    BY DEF Flying
  <2> QED BY PutAt DEF Flying
<1>2. Distinct(Put(n, l, m))
  <2> SUFFICES ASSUME NEW k \in Link, NEW q \in Link, NEW i \in 1 .. Len(Put(n, l, m)[k]),
                      NEW j \in 1 .. Len(Put(n, l, m)[q]),
                      Put(n, l, m)[k][i].type = "relay", Put(n, l, m)[q][j].type = "relay"
               PROVE  /\ Put(n, l, m)[k][i].pads \cap Put(n, l, m)[q][j].keys = {}
                      /\ k # q \/ i # j => Put(n, l, m)[k][i].pads \cap Put(n, l, m)[q][j].pads = {}
    BY DEF Distinct
  <2>1. \/ i \in 1 .. Len(n[k]) /\ Put(n, l, m)[k][i] = n[k][i]
        \/ k = l /\ i = Len(n[l]) + 1 /\ Put(n, l, m)[k][i] = m
    BY PutAt
  <2>2. \/ j \in 1 .. Len(n[q]) /\ Put(n, l, m)[q][j] = n[q][j]
        \/ q = l /\ j = Len(n[l]) + 1 /\ Put(n, l, m)[q][j] = m
    BY PutAt
  <2>3. CASE i \in 1 .. Len(n[k]) /\ Put(n, l, m)[k][i] = n[k][i]
             /\ j \in 1 .. Len(n[q]) /\ Put(n, l, m)[q][j] = n[q][j]
    BY <2>3 DEF Distinct
  <2>4. CASE i \in 1 .. Len(n[k]) /\ Put(n, l, m)[k][i] = n[k][i]
             /\ q = l /\ j = Len(n[l]) + 1 /\ Put(n, l, m)[q][j] = m
    BY <2>4 DEF Alone
  <2>5. CASE k = l /\ i = Len(n[l]) + 1 /\ Put(n, l, m)[k][i] = m
             /\ j \in 1 .. Len(n[q]) /\ Put(n, l, m)[q][j] = n[q][j]
    BY <2>5 DEF Alone
  <2>6. CASE k = l /\ i = Len(n[l]) + 1 /\ Put(n, l, m)[k][i] = m
             /\ q = l /\ j = Len(n[l]) + 1 /\ Put(n, l, m)[q][j] = m
    BY <2>6 DEF Alone
  <2> QED BY <2>1, <2>2, <2>3, <2>4, <2>5, <2>6
<1> QED BY <1>1, <1>2

(* The keys in stock shrink, and nothing on the way is touched.            *)
LEMMA ShiftKeeps ==
  ASSUME NEW n, NEW en, NEW de, NEW rl, NEW en2, NEW de2, NEW rl2, Flying(en, de, rl, n),
         \A l \in Link : en2[l] \subseteq en[l],
         \A l \in Link : \A i \in 1 .. Len(n[l]) :
           n[l][i].type = "relay" => n[l][i].pads \subseteq de2[l],
         \A l \in Link : \A i \in 1 .. Len(n[l]) : \A e \in End :
           n[l][i].type = "relay" => n[l][i].pads \cap Owned(rl2[e].buf) = {}
  PROVE  Flying(en2, de2, rl2, n)
<1> SUFFICES ASSUME NEW l \in Link, NEW i \in 1 .. Len(n[l]), n[l][i].type = "relay"
             PROVE  Secure(l, n[l][i], en2, de2, rl2)
  BY DEF Flying
<1>1. Secure(l, n[l][i], en, de, rl)
  BY DEF Flying
<1>2. \A k \in Link : n[l][i].pads \cap en2[k] = {} /\ n[l][i].keys \cap en2[k] = {}
  BY <1>1 DEF Secure
<1> QED BY <1>2 DEF Secure

LEMMA SmallerOwned ==
  ASSUME NEW n, NEW rl2, Flying(enc, dec, relay, n), Distinct(n), Stock(enc, dec, relay),
         \A e \in End : Owned(rl2[e].buf) \subseteq Owned(relay[e].buf)
  PROVE  Stock(enc, dec, rl2) /\ Flying(enc, dec, rl2, n)
<1>1. Stock(enc, dec, rl2)
  BY DEF Stock
<1>2. \A l \in Link : \A i \in 1 .. Len(n[l]) : n[l][i].type = "relay" =>
        /\ n[l][i].pads \subseteq dec[l]
        /\ \A e \in End : n[l][i].pads \cap Owned(rl2[e].buf) = {}
  BY DEF Flying, Secure
<1>3. Flying(enc, dec, rl2, n)
  BY <1>2, ShiftKeeps
<1> QED BY <1>1, <1>3

LEMMA BreakKeeps ==
  ASSUME NEW n \in Nets, NEW l \in Link, NEW en, NEW de, NEW rl,
         Flying(en, de, rl, n), Distinct(n)
  PROVE  Flying(en, de, rl, [n EXCEPT ![l] = <<>>]) /\ Distinct([n EXCEPT ![l] = <<>>])
<1>1. PICK q : q = [n EXCEPT ![l] = <<>>]
  OBVIOUS
<1>2. \A k \in Link : \A i \in 1 .. Len(q[k]) : k # l /\ q[k] = n[k]
  BY <1>1 DEF Nets
<1>3. Flying(en, de, rl, q)
  BY <1>2 DEF Flying
<1>4. Distinct(q)
  BY <1>2, SMTT(60) DEF Distinct
<1> QED BY <1>1, <1>3, <1>4

(* What an end sends before it checks its buffer is no relay message.      *)
Plainly(asks) == asks = <<>> \/ \E m \in Message : m.type # "relay" /\ asks = <<m>>

LEMMA AsksKeep ==
  ASSUME NEW n \in Nets, NEW l \in Link, NEW asks, Plainly(asks), NEW en, NEW de, NEW rl,
         Flying(en, de, rl, n), Distinct(n), NEW q, q = [n EXCEPT ![l] = @ \o asks]
  PROVE  q \in Nets /\ Flying(en, de, rl, q) /\ Distinct(q)
<1>1. n[l] \in Seq(Message)
  BY DEF Nets
<1>2. CASE asks = <<>>
  <2>1. n[l] \o asks = n[l]
    BY <1>1, <1>2, ConcatEmptySeq
  <2>2. q = n
    BY <2>1 DEF Nets
  <2> QED BY <2>2
<1>3. ASSUME NEW m \in Message, m.type # "relay", asks = <<m>>
      PROVE  q \in Nets /\ Flying(en, de, rl, q) /\ Distinct(q)
  <2>1. n[l] \o asks = Append(n[l], m)
    BY <1>1, <1>3
  <2>2. q = Put(n, l, m)
    BY <2>1 DEF Put
  <2>3. q \in Nets
    BY <2>2, NetTyped, ZenonT(60)
  <2>4. Flying(en, de, rl, Put(n, l, m)) /\ Distinct(Put(n, l, m))
    BY <1>3, PutKeeps
  <2> QED BY <2>2, <2>3, <2>4
<1> QED BY <1>2, <1>3 DEF Plainly

LEMMA FinishPads ==
  ASSUME Types, PadInv, NEW e \in Serving, NEW x \in EndState, Plain(x.buf), x.gen < MaxRelays,
         Owned(x.buf) \subseteq Owned(relay[e].buf), NEW asks \in Seq(Message), Plainly(asks),
         dec' = dec, Finish(e, x, asks)
  PROVE  PadInv'
<1>1. e \in End /\ Way(e) \in Link
  BY WayLink
<1>2. PICK n : n = [net EXCEPT ![Way(e)] = @ \o asks]
  OBVIOUS
<1>3. n \in Nets /\ Flying(enc, dec, relay, n) /\ Distinct(n)
  BY <1>1, <1>2, AsksKeep, ZenonT(60) DEF PadInv, Types
<1>4. CASE Quiet(e, x, asks)
  <2>1. relay'[e] = x /\ \A f \in End : f # e => relay'[f] = relay[f]
    BY <1>1, <1>4 DEF Quiet, Types, Ends
  <2>2. \A f \in End : Owned(relay'[f].buf) \subseteq Owned(relay[f].buf)
    BY <2>1
  <2>3. enc' = enc /\ net' = n
    BY <1>2, <1>4 DEF Quiet
  <2>4. Stock(enc, dec, relay') /\ Flying(enc, dec, relay', n)
    BY <1>3, <2>2, SmallerOwned DEF PadInv
  <2> QED BY <1>3, <2>3, <2>4 DEF PadInv
<1>5. ASSUME NEW ks, Begins(e, x, ks, asks) PROVE PadInv'
  <2>1. ks \subseteq enc[Way(e)] /\ ks \in SUBSET KeyIds
    BY <1>1, <1>5 DEF Begins, Types
  <2>2. PICK m : m = [type |-> "relay", req |-> <<e, x.gen + 1>>, keys |-> ks, pads |-> {}]
    OBVIOUS
  <2>3. n[Way(e)] \in Seq(Message) /\ net[Way(e)] \o asks = n[Way(e)]
    BY <1>1, <1>2, <1>3 DEF Nets, Types
  <2>4. m \in Message /\ m.type = "relay" /\ m.keys = ks /\ m.pads = {}
    <3>1. <<e, x.gen + 1>> \in Request
      BY <1>1, <2>1, ReservedTyped DEF Request
    <3> QED BY <2>1, <2>2, <3>1 DEF Message
  <2>5. net' = Put(n, Way(e), m)
    <3>1. n[Way(e)] \o <<m>> = Append(n[Way(e)], m)
      BY <2>3, <2>4
    <3>2. net' = [net EXCEPT ![Way(e)] = n[Way(e)] \o <<m>>]
      BY <1>5, <2>2, <2>3 DEF Begins
    <3>3. net' = [n EXCEPT ![Way(e)] = n[Way(e)] \o <<m>>]
      BY <1>1, <1>2, <3>2 DEF Types, Nets
    <3> QED BY <3>1, <3>3 DEF Put
  <2>6. relay'[e] = Begun(x, ks) /\ \A f \in End : f # e => relay'[f] = relay[f]
    <3>1. Begun(x, ks) \in EndState /\ Plain(Begun(x, ks).buf)
      BY <2>1, ReservedTyped
    <3>2. relay' = [relay EXCEPT ![e] = Begun(x, ks)]
      BY <1>5 DEF Begins
    <3> QED BY <1>1, <3>2 DEF Types, Ends
  <2>7. Owned(relay'[e].buf) \subseteq Owned(relay[e].buf) \cup ks
    <3>1. PICK c : c = Each(ReserveKey, x.buf, ks)
      OBVIOUS
    <3>2. \A j \in KeyIds : Held(c, j) => Held(x.buf, j) \/ j \in ks
      BY <2>1, <3>1, EachReserves
    <3>3. relay'[e].buf = c
      BY <2>6, <3>1 DEF Begun
    <3> QED BY <3>2, <3>3 DEF Owned
  <2>8. enc' = [enc EXCEPT ![Way(e)] = @ \ ks]
    BY <1>5 DEF Begins
  <2>9. \A l \in Link : enc'[l] \subseteq enc[l] /\ enc'[l] \cap ks = {}
    BY <1>1, <2>1, <2>8 DEF Types, PadInv, Stock
  <2>10. Stock(enc', dec, relay')
    <3>1. \A l \in Link : enc'[l] \subseteq dec[l]
      BY <2>9 DEF PadInv, Stock
    <3>2. \A l, k \in Link : l # k => enc'[l] \cap enc'[k] = {}
      BY <2>9 DEF PadInv, Stock
    <3>3. \A l \in Link, f \in End : enc'[l] \cap Owned(relay'[f].buf) = {}
      BY <2>6, <2>7, <2>9 DEF PadInv, Stock
    <3> QED BY <3>1, <3>2, <3>3 DEF Stock
  <2>11. \A l \in Link : \A i \in 1 .. Len(n[l]) : n[l][i].type = "relay" =>
           /\ n[l][i].pads \subseteq dec[l] /\ n[l][i].pads \cap ks = {}
           /\ \A f \in End : n[l][i].pads \cap Owned(relay'[f].buf) = {}
    BY <1>1, <1>3, <2>1, <2>6, <2>7 DEF Flying, Secure
  <2>12. Flying(enc', dec, relay', n)
    <3>1. \A l \in Link : enc'[l] \subseteq enc[l]
      BY <2>9
    <3> QED BY <1>3, <2>11, <3>1, ShiftKeeps
  <2>13. Secure(Way(e), m, enc', dec, relay') /\ Alone(m, n)
    BY <2>4, <2>9, <2>11 DEF Secure, Alone
  <2>14. Flying(enc', dec, relay', net') /\ Distinct(net')
    BY <1>1, <1>3, <2>5, <2>12, <2>13, PutKeeps
  <2> QED BY <2>10, <2>14 DEF PadInv
<1> QED BY <1>4, <1>5, FinishEffect

(* A step that delivers a message other than a relay.                      *)
LEMMA NetPads ==
  ASSUME Types, PadInv, NEW l \in Link, net[l] # <<>>, net' \in Nets, Head(net[l]).type # "relay",
         \/ net' = Drop(net, l)
         \/ \E k \in Link, m \in Message : m.type # "relay" /\ net' = Put(Drop(net, l), k, m),
         enc' = enc, dec' = dec,
         \A e \in End : Owned(relay'[e].buf) \subseteq Owned(relay[e].buf)
  PROVE  PadInv'
<1>1. Drop(net, l) \in Nets
  BY NetTyped DEF Types
<1>2. Flying(enc, dec, relay, Drop(net, l)) /\ Distinct(Drop(net, l))
  BY DropKeeps DEF Types, PadInv
<1>3. Flying(enc, dec, relay, net') /\ Distinct(net')
  <2>1. CASE net' = Drop(net, l)
    BY <1>2, <2>1
  <2>2. ASSUME NEW k \in Link, NEW m \in Message, m.type # "relay",
               net' = Put(Drop(net, l), k, m)
        PROVE  Flying(enc, dec, relay, net') /\ Distinct(net')
    <3>1. Flying(enc, dec, relay, Put(Drop(net, l), k, m)) /\ Distinct(Put(Drop(net, l), k, m))
      BY <1>1, <1>2, <2>2, PutKeeps
    <3> QED BY <2>2, <3>1
  <2> QED BY <2>1, <2>2
<1>4. Stock(enc, dec, relay') /\ Flying(enc, dec, relay', net')
  BY <1>3, SmallerOwned DEF PadInv
<1> QED BY <1>3, <1>4 DEF PadInv

LEMMA TimeoutPads ==
  ASSUME Types, PadInv, NEW e \in End, NEW g, RelayTimeoutCheck(e, g)
  PROVE  PadInv'
<1>1. relay[e] \in EndState /\ Plain(relay[e].buf) /\ relay[e].pending \in SUBSET KeyIds
  BY DEF Types, Ends, EndState
<1>2. PICK c : c = Each(DiscardKey, relay[e].buf, relay[e].pending)
  OBVIOUS
<1>3. Owned(c) \subseteq Owned(relay[e].buf)
  BY <1>1, <1>2, EachKeeps DEF Keeps, Owned
<1>4. PICK y : y = IF Current(e, g)
         THEN [buf |-> Each(DiscardKey, relay[e].buf, relay[e].pending), active |-> FALSE,
               pending |-> {}, gen |-> g, timers |-> relay[e].timers \ {g}]
         ELSE [relay[e] EXCEPT !.timers = @ \ {g}]
  OBVIOUS
<1>5. relay' = [relay EXCEPT ![e] = y]
  BY <1>4 DEF RelayTimeoutCheck
<1>6. y.buf = c \/ y.buf = relay[e].buf
  BY <1>1, <1>2, <1>4 DEF EndState
<1>7. \A f \in End : Owned(relay'[f].buf) \subseteq Owned(relay[f].buf)
  BY <1>3, <1>5, <1>6 DEF Types, Ends
<1>8. UNCHANGED <<enc, dec, net>>
  BY DEF RelayTimeoutCheck
<1>9. Stock(enc, dec, relay') /\ Flying(enc, dec, relay', net)
  BY <1>7, SmallerOwned DEF PadInv
<1> QED BY <1>8, <1>9 DEF PadInv

LEMMA RequestPads ==
  ASSUME Types, PadInv, NEW l \in Link, ProcessRelayRequest(l[1], l[2])
  PROVE  PadInv'
<1>1. PICK r, dst : r = Head(net[l]) /\ dst = Far(r.req[1])
  OBVIOUS
<1>2. /\ net[l] # <<>> /\ r \in Message /\ r.type = "relay"
      /\ r.req \in Request /\ r.keys \in SUBSET KeyIds /\ r.pads \in SUBSET KeyIds
      /\ dst \in End
      /\ dec' = [dec EXCEPT ![l] = @ \ Opens(r)]
  BY <1>1, RequestEffect
<1>3. PICK n \in Nets : n = Drop(net, l)
  BY <1>2, NetTyped DEF Types
<1>4. Flying(enc, dec, relay, n) /\ Distinct(n) /\ Secure(l, r, enc, dec, relay) /\ Alone(r, n)
  BY <1>1, <1>2, <1>3, DropKeeps DEF Types, PadInv
<1>5. \A k \in Link : Opens(r) \cap enc[k] = {}
  BY <1>4 DEF Secure, Opens
<1>6. \A k \in Link : \A i \in 1 .. Len(n[k]) : n[k][i].type = "relay" =>
        /\ n[k][i].pads \cap Opens(r) = {} /\ n[k][i].pads \cap r.keys = {}
        /\ \A e \in End : n[k][i].pads \cap Owned(relay[e].buf) = {}
        /\ n[k][i].pads \subseteq dec'[k]
  <2> SUFFICES ASSUME NEW k \in Link, NEW i \in 1 .. Len(n[k]), n[k][i].type = "relay"
               PROVE  /\ n[k][i].pads \cap Opens(r) = {} /\ n[k][i].pads \cap r.keys = {}
                      /\ \A e \in End : n[k][i].pads \cap Owned(relay[e].buf) = {}
                      /\ n[k][i].pads \subseteq dec'[k]
    OBVIOUS
  <2>1. n[k][i].pads \cap Opens(r) = {} /\ n[k][i].pads \cap r.keys = {}
    BY <1>4 DEF Alone, Opens
  <2>2. Secure(k, n[k][i], enc, dec, relay)
    BY <1>4 DEF Flying
  <2>3. n[k][i].pads \subseteq dec'[k]
    BY <1>2, <2>1, <2>2 DEF Secure, Types
  <2> QED BY <2>1, <2>2, <2>3 DEF Secure
<1>7. \A k \in Link : enc[k] \subseteq dec'[k]
  BY <1>2, <1>5 DEF Types, PadInv, Stock
<1>8. \A m : Reply(r, m).type # "relay"
  BY DEF Reply
<1>9. CASE Refuses(l, r, dst)
  <2>1. Stock(enc, dec', relay)
    BY <1>7 DEF PadInv, Stock
  <2>2. Flying(enc, dec', relay, n)
    BY <1>4, <1>6, ShiftKeeps
  <2>3. <<l[2], l[1]>> \in Link
    BY PathFacts
  <2>4. Flying(enc, dec', relay, Put(n, <<l[2], l[1]>>, Reply(r, FALSE)))
        /\ Distinct(Put(n, <<l[2], l[1]>>, Reply(r, FALSE)))
    BY <1>4, <1>8, <2>2, <2>3, PutKeeps
  <2> QED BY <1>3, <1>9, <2>1, <2>4 DEF PadInv, Refuses
<1>10. ASSUME NEW pads, PassesOn(l, r, dst, pads) PROVE PadInv'
  <2>1. PICK out : out = <<l[2], NextHop(l[2], dst)>>
    OBVIOUS
  <2>2. out \in Link /\ out # l
    BY <1>2, <1>10, <2>1, PathFacts DEF PassesOn
  <2>3. pads \subseteq enc[out] /\ pads \subseteq KeyIds
    BY <1>10, <2>1, <2>2 DEF PassesOn, Types
  <2>4. PICK m : m = [r EXCEPT !.pads = pads]
    OBVIOUS
  <2>5. m.type = "relay" /\ m.keys = r.keys /\ m.pads = pads
    <3>1. r \in [type : {"relay"}, req : Request, keys : SUBSET KeyIds, pads : SUBSET KeyIds]
      BY <1>2, MessageKinds
    <3> QED BY <2>4, <3>1
  <2>6. /\ net' = Put(n, out, m) /\ enc' = [enc EXCEPT ![out] = @ \ pads] /\ relay' = relay
    BY <1>3, <1>10, <2>1, <2>4 DEF PassesOn
  <2>7. \A k \in Link : enc'[k] \subseteq enc[k] /\ enc'[k] \cap pads = {}
    BY <2>2, <2>3, <2>6 DEF Types, PadInv, Stock
  <2>8. Stock(enc', dec', relay)
    <3>1. \A k \in Link : enc'[k] \subseteq dec'[k]
      BY <1>7, <2>7
    <3> QED BY <2>7, <3>1 DEF PadInv, Stock
  <2>9. Flying(enc', dec', relay, n)
    <3>1. \A k \in Link : enc'[k] \subseteq enc[k]
      BY <2>7
    <3> QED BY <1>4, <1>6, <3>1, ShiftKeeps
  <2>10. Secure(out, m, enc', dec', relay)
    <3>1. pads \subseteq dec'[out]
      BY <1>2, <2>2, <2>3 DEF Types, PadInv, Stock
    <3>2. \A k \in Link : r.keys \cap enc'[k] = {}
      BY <1>4, <2>7 DEF Secure
    <3>3. \A e \in End : pads \cap Owned(relay[e].buf) = {}
      BY <2>2, <2>3 DEF PadInv, Stock
    <3> QED BY <2>5, <2>7, <3>1, <3>2, <3>3 DEF Secure
  <2>11. Alone(m, n)
    <3>1. pads \cap r.keys = {}
      BY <1>4, <2>2, <2>3 DEF Secure
    <3>2. ASSUME NEW k \in Link, NEW j \in 1 .. Len(n[k]), n[k][j].type = "relay"
          PROVE  /\ pads \cap n[k][j].keys = {} /\ pads \cap n[k][j].pads = {}
                 /\ r.keys \cap n[k][j].pads = {}
      <4>1. Secure(k, n[k][j], enc, dec, relay)
        BY <1>4, <3>2 DEF Flying
      <4>2. n[k][j].keys \cap enc[out] = {} /\ n[k][j].pads \cap enc[out] = {}
        BY <2>2, <4>1 DEF Secure
      <4> QED BY <1>6, <2>3, <3>2, <4>2
    <3> QED BY <2>5, <3>1, <3>2 DEF Alone
  <2>12. Flying(enc', dec', relay, Put(n, out, m)) /\ Distinct(Put(n, out, m))
    BY <1>4, <2>2, <2>9, <2>10, <2>11, PutKeeps
  <2> QED BY <2>6, <2>8, <2>12 DEF PadInv
<1>11. ASSUME NEW ks, Stores(l, r, dst, ks) PROVE PadInv'
  <2>1. ks \in SUBSET KeyIds /\ ks \subseteq r.keys /\ Plain(relay[dst].buf)
    BY <1>2, <1>11 DEF Stores, Types, Ends
  <2>2. PICK c : c = Each(LAMBDA b, k : StoreKey(b, k, 1), relay[dst].buf, ks)
    OBVIOUS
  <2>3. Plain(c) /\ \A j \in KeyIds : Held(c, j) => Held(relay[dst].buf, j) \/ j \in ks
    BY <2>1, <2>2, EachStores
  <2>4. relay' = [relay EXCEPT ![dst].buf = c]
    BY <1>11, <2>2 DEF Stores
  <2>5. relay'[dst].buf = c /\ \A f \in End : f # dst => relay'[f] = relay[f]
    <3>1. relay[dst] \in EndState
      BY <1>2 DEF Types, Ends
    <3>2. PICK x : x = [relay[dst] EXCEPT !.buf = c]
      OBVIOUS
    <3>3. x.buf = c /\ relay' = [relay EXCEPT ![dst] = x]
      BY <2>4, <3>1, <3>2 DEF EndState
    <3> QED BY <1>2, <3>3 DEF Types, Ends
  <2>6. \A e \in End : Owned(relay'[e].buf) \subseteq Owned(relay[e].buf) \cup r.keys
    BY <2>1, <2>3, <2>5 DEF Owned
  <2>7. Stock(enc, dec', relay')
    <3>1. \A k \in Link : r.keys \cap enc[k] = {}
      BY <1>4 DEF Secure
    <3> QED BY <1>7, <2>6, <3>1 DEF PadInv, Stock
  <2>8. Flying(enc, dec', relay', n)
    <3>1. \A k \in Link : \A i \in 1 .. Len(n[k]) : \A e \in End :
            n[k][i].type = "relay" => n[k][i].pads \cap Owned(relay'[e].buf) = {}
      BY <1>6, <2>6
    <3> QED BY <1>4, <1>6, <3>1, ShiftKeeps
  <2>9. <<l[2], l[1]>> \in Link
    BY PathFacts
  <2>10. Flying(enc, dec', relay', Put(n, <<l[2], l[1]>>, Reply(r, TRUE)))
         /\ Distinct(Put(n, <<l[2], l[1]>>, Reply(r, TRUE)))
    BY <1>4, <1>8, <2>8, <2>9, PutKeeps
  <2> QED BY <1>3, <1>11, <2>7, <2>10 DEF PadInv, Stores
<1> QED BY <1>1, <1>9, <1>10, <1>11, RequestEffect

LEMMA ResponsePads ==
  ASSUME Types, PadInv, NEW l \in Link, ProcessRelayResponse(l[1], l[2])
  PROVE  PadInv'
<1>1. PICK a : a = Head(net[l])
  OBVIOUS
<1>2. /\ net[l] # <<>> /\ a \in Message /\ a.type = "relayed"
      /\ UNCHANGED <<enc, dec>>
  BY <1>1, ResponseEffect
<1>3. net' \in Nets /\ Head(net[l]).type # "relay" /\ l[2] \in Node
  BY <1>1, <1>2, ResponseTypes, PathFacts DEF Types
<1>4. CASE Halts(l, a)
  <2>1. net' = Drop(net, l) /\ relay' = relay
    BY <1>4 DEF Halts
  <2>2. \A e \in End : Owned(relay'[e].buf) \subseteq Owned(relay[e].buf)
    BY <2>1
  <2> QED BY <1>2, <1>3, <2>1, <2>2, NetPads
<1>5. ASSUME NEW p, HandsBack(l, a, p) PROVE PadInv'
  <2>1. p \in Noted(l[2])
    BY <1>3, <1>5 DEF HandsBack, Types, Proxies
  <2>2. <<l[2], p.prev>> \in Link
    BY <1>5, <2>1 DEF HandsBack, Noted, Near
  <2>3. net' = Put(Drop(net, l), <<l[2], p.prev>>, a) /\ relay' = relay
    BY <1>5 DEF HandsBack
  <2>4. \A e \in End : Owned(relay'[e].buf) \subseteq Owned(relay[e].buf)
    BY <2>3
  <2>5. \E k \in Link, m \in Message : m.type # "relay" /\ net' = Put(Drop(net, l), k, m)
    BY <1>2, <2>2, <2>3
  <2> QED BY <1>2, <1>3, <2>4, <2>5, NetPads
<1>6. ASSUME NEW p, Settles(l, a, p) PROVE PadInv'
  <2>1. p \in Noted(l[2]) /\ net' = Drop(net, l)
    BY <1>3, <1>6 DEF Settles, Types, Proxies
  <2>2. p.keys \in SUBSET KeyIds
    BY <2>1 DEF Noted
  <2>3. PICK r2 : r2 = relay'
    OBVIOUS
  <2>4. r2 = Settled(l[2], a.ok, p.keys)
    BY <1>6, <2>3 DEF Settles
  <2>5. \A e \in End : Owned(r2[e].buf) \subseteq Owned(relay[e].buf)
    <3>1. CASE l[2] \in End
      <4>1. PICK c : c = IF a.ok THEN Each(ConfirmKey, relay[l[2]].buf, p.keys)
                                 ELSE Each(DiscardKey, relay[l[2]].buf, p.keys)
        OBVIOUS
      <4>2. Plain(relay[l[2]].buf)
        BY <3>1 DEF Types, Ends
      <4>3. Keeps(relay[l[2]].buf, c)
        BY <2>2, <4>1, <4>2, EachKeeps
      <4>4. r2[l[2]].buf = c
        BY <2>2, <2>4, <3>1, <4>1, SettledWhole
      <4>5. \A f \in End : f # l[2] => r2[f] = relay[f]
        BY <2>2, <2>4, <3>1, <4>1, SettledWhole
      <4> QED BY <4>3, <4>4, <4>5 DEF Keeps, Owned
    <3>2. CASE l[2] \notin End
      BY <2>4, <3>2 DEF Types, Ends, Settled
    <3> QED BY <3>1, <3>2
  <2>6. \A e \in End : Owned(relay'[e].buf) \subseteq Owned(relay[e].buf)
    BY <2>3, <2>5
  <2> QED BY <1>2, <1>3, <2>1, <2>6, NetPads
<1> QED BY <1>1, <1>4, <1>5, <1>6, ResponseEffect

LEMMA CreatePads ==
  ASSUME Types, PadInv, NEW l \in Link, ProcessSKeyCreateRequest(l[1], l[2])
  PROVE  PadInv'
<1>1. PICK m, dst : m = Head(net[l]) /\ dst = Far(m.src)
  OBVIOUS
<1>2. /\ net[l] # <<>> /\ m \in Message /\ m.type = "skey" /\ m.key \in KeyIds
      /\ m.supply \in SupplyIds /\ dst \in End /\ UNCHANGED <<enc, dec>>
  BY <1>1, CreateEffect
<1>3. net' \in Nets /\ Head(net[l]).type # "relay" /\ l[2] \in Node /\ <<l[2], l[1]>> \in Link
  BY <1>1, <1>2, CreateTypes, PathFacts DEF Types
<1>4. CASE Forwards(l, m, dst)
  <2>1. PICK out : out = <<l[2], NextHop(l[2], dst)>>
    OBVIOUS
  <2>2. out \in Link
    BY <1>2, <1>3, <1>4, <2>1, PathFacts DEF Forwards
  <2>3. net' = Put(Drop(net, l), out, m) /\ relay' = relay
    BY <1>4, <2>1 DEF Forwards
  <2>4. \A e \in End : Owned(relay'[e].buf) \subseteq Owned(relay[e].buf)
    BY <2>3
  <2>5. \E k \in Link, q \in Message : q.type # "relay" /\ net' = Put(Drop(net, l), k, q)
    BY <1>2, <2>2, <2>3
  <2> QED BY <1>2, <1>3, <2>4, <2>5, NetPads
<1>5. CASE Makes(l, m, dst)
  <2>1. PICK c : c = Supply(relay[dst].buf, m)
    OBVIOUS
  <2>2. Plain(relay[dst].buf) /\ relay[dst] \in EndState
    BY <1>2 DEF Types, Ends
  <2>3. \A j \in KeyIds : Held(c, j) => Held(relay[dst].buf, j)
    BY <1>2, <2>1, <2>2, PlainSupplies
  <2>4. PICK x : x = [relay[dst] EXCEPT !.buf = c]
    OBVIOUS
  <2>5. x.buf = c /\ relay' = [relay EXCEPT ![dst] = x]
    BY <1>5, <2>1, <2>2, <2>4 DEF Makes, EndState
  <2>6. \A e \in End : Owned(relay'[e].buf) \subseteq Owned(relay[e].buf)
    BY <1>2, <2>3, <2>5 DEF Types, Ends, Owned
  <2>7. PICK q \in Message : q = [type |-> "created"]
    BY DEF Message
  <2>8. \E k \in Link, p \in Message : p.type # "relay" /\ net' = Put(Drop(net, l), k, p)
    BY <1>3, <1>5, <2>7 DEF Makes
  <2> QED BY <1>2, <1>3, <2>6, <2>8, NetPads
<1> QED BY <1>1, <1>4, <1>5, CreateEffect

LEMMA CreatedPads ==
  ASSUME Types, PadInv, NEW l \in Link, ProcessSKeyCreateResponse(l[1], l[2])
  PROVE  PadInv'
<1>1. PICK m : m = Head(net[l])
  OBVIOUS
<1>2. net[l] # <<>> /\ m \in Message /\ m.type = "created" /\ UNCHANGED <<relay, enc, dec>>
  BY <1>1, CreatedEffect
<1>3. net' \in Nets /\ Head(net[l]).type # "relay"
  BY <1>1, <1>2, CreatedTypes DEF Types
<1>4. \/ net' = Drop(net, l)
      \/ \E k : <<l[2], k>> \in Link /\ net' = Put(Drop(net, l), <<l[2], k>>, m)
  BY <1>1, CreatedEffect
<1>5. \/ net' = Drop(net, l)
      \/ \E k \in Link, q \in Message : q.type # "relay" /\ net' = Put(Drop(net, l), k, q)
  BY <1>2, <1>4
<1>6. \A e \in End : Owned(relay'[e].buf) \subseteq Owned(relay[e].buf)
  BY <1>2
<1> QED BY <1>2, <1>3, <1>5, <1>6, NetPads

LEMMA EncPads ==
  ASSUME Types, PadInv, NEW e \in End, NEW s \in SupplyIds, EncKeys(e, s)
  PROVE  PadInv'
<1>1. e \in Serving /\ relay[e].gen < MaxRelays /\ relay[e] \in EndState /\ Plain(relay[e].buf)
      /\ dec' = dec
  BY DEF EncKeys, Types, Ends
<1>2. PICK k \in Candidates(relay[e].buf, 1) :
        Finish(e, [relay[e] EXCEPT !.buf = TransformCandidate(@, k, 1)],
               <<[type |-> "skey", src |-> e, key |-> k, supply |-> s]>>)
  BY DEF EncKeys
<1>3. k \in KeyIds
  BY <1>2 DEF Candidates, Enough, ReadyKeys
<1>4. PICK c : c = TransformCandidate(relay[e].buf, k, 1)
  OBVIOUS
<1>5. Plain(c) /\ c \in Buffer /\ Keeps(relay[e].buf, c)
  BY <1>1, <1>3, <1>4, PlainTransform DEF Keeps, Plain
<1>6. PICK x : x = [relay[e] EXCEPT !.buf = c]
  OBVIOUS
<1>7. x \in EndState /\ x.buf = c /\ x.gen = relay[e].gen
  BY <1>1, <1>5, <1>6 DEF EndState
<1>8. PICK m : m = [type |-> "skey", src |-> e, key |-> k, supply |-> s]
  OBVIOUS
<1>9. m \in Message /\ m.type # "relay"
  BY <1>3, <1>8 DEF Message
<1>10. <<m>> \in Seq(Message) /\ Plainly(<<m>>)
  BY <1>9 DEF Plainly
<1>11. Finish(e, x, <<m>>)
  BY <1>2, <1>4, <1>6, <1>8
<1>12. Owned(x.buf) \subseteq Owned(relay[e].buf)
  BY <1>5, <1>7 DEF Keeps, Owned
<1> QED BY <1>1, <1>5, <1>7, <1>10, <1>11, <1>12, FinishPads

LEMMA RefusedPads ==
  ASSUME Types, PadInv, NEW e \in End, EncKeysRefused(e)
  PROVE  PadInv'
<1>1. /\ e \in Serving /\ relay[e].gen < MaxRelays /\ relay[e] \in EndState
      /\ Plain(relay[e].buf) /\ Finish(e, relay[e], <<>>) /\ dec' = dec
  BY DEF EncKeysRefused, Types, Ends
<1>2. PICK asks \in Seq(Message) : asks = <<>>
  BY EmptySeq
<1>3. Plainly(asks)
  BY <1>2 DEF Plainly
<1> QED BY <1>1, <1>2, <1>3, FinishPads

LEMMA DecPads ==
  ASSUME Types, PadInv, NEW e \in End, NEW s \in SupplyIds, DecKeys(e, s)
  PROVE  PadInv'
<1>1. PICK c : c = GetSupplyKey(relay[e].buf, s)
  OBVIOUS
<1>2. Plain(relay[e].buf) /\ relay[e] \in EndState
  BY DEF Types, Ends
<1>3. c.st = relay[e].buf.st
  BY <1>1, <1>2, PlainTakeSupply DEF SetsSupply
<1>4. PICK x : x = [relay[e] EXCEPT !.buf = c]
  OBVIOUS
<1>5. x.buf = c /\ relay' = [relay EXCEPT ![e] = x]
  BY <1>1, <1>2, <1>4 DEF DecKeys, EndState
<1>6. \A f \in End : Owned(relay'[f].buf) \subseteq Owned(relay[f].buf)
  BY <1>3, <1>5 DEF Types, Ends, Owned, Held
<1>7. UNCHANGED <<enc, dec, net>>
  BY DEF DecKeys
<1>8. Stock(enc, dec, relay') /\ Flying(enc, dec, relay', net)
  BY <1>6, SmallerOwned DEF PadInv
<1> QED BY <1>7, <1>8 DEF PadInv

LEMMA LocalPads ==
  ASSUME Types, PadInv, NEW l \in Link, NEW k \in KeyIds, LocalKey(l, k)
  PROVE  PadInv'
<1>1. /\ enc' = [enc EXCEPT ![l] = @ \cup {k}] /\ dec' = [dec EXCEPT ![l] = @ \cup {k}]
      /\ UNCHANGED <<relay, net>>
  BY DEF LocalKey
<1>2. /\ \A q \in Link : k \notin enc[q] /\ k \notin dec[q]
      /\ \A e \in End : k \notin Owned(relay[e].buf)
  BY DEF LocalKey, Seen, Owned
<1>3. \A q \in Link : \A i \in 1 .. Len(net[q]) :
        net[q][i].type = "relay" => k \notin net[q][i].keys /\ k \notin net[q][i].pads
  <2> SUFFICES ASSUME NEW q \in Link, NEW i \in 1 .. Len(net[q]), net[q][i].type = "relay"
               PROVE  k \notin net[q][i].keys /\ k \notin net[q][i].pads
    OBVIOUS
  <2>1. DOMAIN net[q] = 1 .. Len(net[q])
    BY DEF Types, Nets
  <2>2. k \notin net[q][i].keys
    BY <2>1 DEF LocalKey, Seen
  <2>3. net[q][i].pads \subseteq dec[q]
    BY DEF PadInv, Flying, Secure
  <2> QED BY <1>2, <2>2, <2>3
<1>4. \A q \in Link : /\ enc'[q] \subseteq enc[q] \cup {k} /\ dec[q] \subseteq dec'[q]
                      /\ enc'[q] \subseteq dec'[q] /\ (q # l => enc'[q] = enc[q])
  BY <1>1 DEF Types, PadInv, Stock
<1>5. Stock(enc', dec', relay)
  <2>1. \A q, m \in Link : q # m => enc'[q] \cap enc'[m] = {}
    BY <1>2, <1>4 DEF PadInv, Stock
  <2>2. \A q \in Link, e \in End : enc'[q] \cap Owned(relay[e].buf) = {}
    BY <1>2, <1>4 DEF PadInv, Stock
  <2> QED BY <1>4, <2>1, <2>2 DEF Stock
<1>6. Flying(enc', dec', relay, net)
  <2> SUFFICES ASSUME NEW q \in Link, NEW i \in 1 .. Len(net[q]), net[q][i].type = "relay"
               PROVE  Secure(q, net[q][i], enc', dec', relay)
    BY DEF Flying
  <2>1. Secure(q, net[q][i], enc, dec, relay)
    BY DEF PadInv, Flying
  <2>2. k \notin net[q][i].keys /\ k \notin net[q][i].pads
    BY <1>3
  <2> QED BY <1>4, <2>1, <2>2 DEF Secure
<1> QED BY <1>1, <1>5, <1>6 DEF PadInv

LEMMA InitPads == Init => PadInv
<1> SUFFICES ASSUME Init PROVE PadInv
  OBVIOUS
<1>1. \A l \in Link : enc[l] = {} /\ dec[l] = {} /\ Len(net[l]) = 0
  BY DEF Init
<1> QED BY <1>1 DEF PadInv, Stock, Flying, Distinct

LEMMA NextPads == Types /\ PadInv /\ [Next]_vars => PadInv'
<1> SUFFICES ASSUME Types, PadInv, [Next]_vars PROVE PadInv'
  OBVIOUS
<1>1. CASE Deliver
  BY <1>1, RequestPads, ResponsePads, CreatePads, CreatedPads DEF Deliver
<1>2. CASE Timeout
  BY <1>2, TimeoutPads DEF Timeout
<1>3. ASSUME NEW l \in Link, Break(l) PROVE PadInv'
  <2>1. net' = [net EXCEPT ![l] = <<>>] /\ UNCHANGED <<relay, enc, dec>>
    BY <1>3 DEF Break
  <2>2. Flying(enc, dec, relay, [net EXCEPT ![l] = <<>>]) /\ Distinct([net EXCEPT ![l] = <<>>])
    BY BreakKeeps DEF Types, PadInv
  <2> QED BY <2>1, <2>2 DEF PadInv
<1>4. CASE UNCHANGED vars
  BY <1>4 DEF PadInv, vars
<1> QED BY <1>1, <1>2, <1>3, <1>4, LocalPads, EncPads, RefusedPads, DecPads DEF Next

(* No key is ever the pad of two messages, or a pad and a relayed key, or  *)
(* a pad and still in stock, whatever is lost, refused or given up on a    *)
(* path of any length, also when an answer is later than the watchdog.     *)
THEOREM PadOnceHolds == Spec => []PadOnce
<1>1. Init => Types /\ PadInv
  BY InitTypes, InitPads
<1>2. Types /\ PadInv /\ [Next]_vars => (Types /\ PadInv)'
  BY NextTypes, NextPads
<1>3. Types /\ PadInv => PadOnce
  BY PadInvImplies
<1> QED BY <1>1, <1>2, <1>3, PTL DEF Spec

-----------------------------------------------------------------------------
(* The watchdog.  The buffer of the serving end has room for what is       *)
(* reserved in it and its counters agree with its content, so that MarkKey *)
(* always finds what an attempt has reserved.                              *)

Reserved(b) == {k \in KeyIds : b.st[k] = "INIT"}

Room(b) == b.bits + Cardinality(Reserved(b)) <= Mmax

Source(b) ==
  /\ Plain(b) /\ Sound(b) /\ ~b.failed /\ Room(b)
  /\ \A s \in SupplyIds : b.supply[s] = {}

LEMMA ReservedFinite ==
  ASSUME NEW b
  PROVE  IsFiniteSet(Reserved(b)) /\ Cardinality(Reserved(b)) \in Nat
<1>1. Reserved(b) \in SUBSET KeyIds
  BY DEF Reserved
<1> QED BY <1>1, KeyIdsFinite, FS_Subset, FS_CardinalityType

(* A change of one key.                                                    *)
LEMMA UpdReserved ==
  ASSUME NEW b, Shaped(b), NEW k \in KeyIds, NEW s, NEW l, NEW h, NEW x, NEW nk, NEW nb, NEW c,
         c = Upd(b, k, s, l, h, x, nk, nb)
  PROVE  /\ Reserved(c) = IF s = "INIT" THEN Reserved(b) \cup {k} ELSE Reserved(b) \ {k}
         /\ c.bits = x /\ c.failed = b.failed /\ c.supply = b.supply
<1>1. c.st = [b.st EXCEPT ![k] = s] /\ c.bits = x /\ c.failed = b.failed /\ c.supply = b.supply
  BY DEF Upd
<1>2. b.st \in [KeyIds -> KeyState]
  BY DEF Shaped, Buffer
<1> QED BY <1>1, <1>2 DEF Reserved

LEMMA OneUnit ==
  ASSUME NEW b, Plain(b), Sound(b), NEW k \in KeyIds
  PROVE  KeyLen(b, k) \in {0, 1}
<1>1. b.lo[k] = 0 /\ b.hi[k] \in 0 .. 1
  BY PlainFields, RelayAssumption
<1> QED BY <1>1 DEF KeyLen

LEMMA ReserveOne ==
  ASSUME NEW b, Plain(b), Sound(b), NEW k \in KeyIds, ~Held(b, k), b.bits + 1 <= Mmax,
         NEW d, d = ReserveKey(b, k)
  PROVE  /\ Plain(d) /\ Sound(d) /\ d.bits = b.bits /\ d.failed = b.failed
         /\ d.supply = b.supply /\ Reserved(d) = Reserved(b) \cup {k}
         /\ \A j \in KeyIds : Held(d, j) => Held(b, j) \/ j = k
<1>1. PICK c : c = StoreKey(b, k, 1)
  OBVIOUS
<1>2. Shaped(b) /\ b.st[k] = "NONE" /\ Fits(b, 1) /\ 1 \in 1 .. MaxLen /\ b.bits \in Nat
  BY BoundsNat, KeyFacts DEF Sound, Held, Fits
<1>3. c = Upd(b, k, "READY", 0, 1, b.bits + 1, b.nrKeys, b.nrBits) /\ Sound(c)
  BY <1>1, <1>2, StoreSound
<1>4. Reserved(c) = Reserved(b) \ {k} /\ c.bits = b.bits + 1 /\ c.failed = b.failed
      /\ c.supply = b.supply
  BY <1>2, <1>3, UpdReserved
<1>5. c.st[k] = "READY" /\ KeyLen(c, k) = 1
  <2>1. b.st \in [KeyIds -> KeyState] /\ b.lo \in [KeyIds -> 0 .. MaxLen]
        /\ b.hi \in [KeyIds -> 0 .. MaxLen]
    BY <1>2 DEF Shaped, Buffer
  <2> QED BY <1>3, <2>1 DEF Upd, KeyLen
<1>6. /\ d = Upd(c, k, "INIT", c.lo[k], c.hi[k], c.bits - KeyLen(c, k), c.nrKeys + 1,
                 c.nrBits + KeyLen(c, k))
      /\ Sound(d)
  BY <1>1, <1>3, <1>5, MarkInitSound DEF ReserveKey
<1>7. Shaped(c)
  BY <1>3 DEF Sound
<1>8. Reserved(d) = Reserved(c) \cup {k} /\ d.bits = c.bits - KeyLen(c, k)
      /\ d.failed = c.failed /\ d.supply = c.supply
  BY <1>6, <1>7, UpdReserved
<1>9. d.bits = b.bits
  BY <1>2, <1>4, <1>5, <1>8
<1>10. Gains(b, d, k)
  BY PlainOperations
<1> QED BY <1>4, <1>6, <1>8, <1>9, <1>10 DEF Gains

LEMMA DiscardOne ==
  ASSUME NEW b, Plain(b), Sound(b), NEW k \in KeyIds, b.st[k] = "INIT",
         NEW d, d = DiscardKey(b, k)
  PROVE  /\ Plain(d) /\ Sound(d) /\ d.bits = b.bits /\ d.failed = b.failed
         /\ d.supply = b.supply /\ Reserved(d) = Reserved(b) \ {k}
<1>1. d = Upd(b, k, "NONE", 0, 0, b.bits, b.nrKeys - 1, b.nrBits - KeyLen(b, k)) /\ Sound(d)
  BY MarkObsoleteSound DEF DiscardKey
<1>2. Reserved(d) = Reserved(b) \ {k} /\ d.bits = b.bits /\ d.failed = b.failed
      /\ d.supply = b.supply
  <2>1. Shaped(b)
    BY DEF Sound
  <2> QED BY <1>1, <2>1, UpdReserved
<1>3. Plain(d)
  BY PlainOperations DEF Keeps
<1> QED BY <1>1, <1>2, <1>3

LEMMA ConfirmOne ==
  ASSUME NEW b, Plain(b), Sound(b), NEW k \in KeyIds, b.st[k] = "INIT",
         NEW d, d = ConfirmKey(b, k)
  PROVE  /\ Plain(d) /\ Sound(d) /\ d.bits <= b.bits + 1 /\ d.failed = b.failed
         /\ d.supply = b.supply /\ Reserved(d) = Reserved(b) \ {k}
<1>1. d = Upd(b, k, "READY", b.lo[k], b.hi[k], b.bits + KeyLen(b, k), b.nrKeys - 1,
              b.nrBits - KeyLen(b, k)) /\ Sound(d)
  BY MarkReadySound DEF ConfirmKey
<1>2. Shaped(b) /\ b.bits \in Nat
  BY KeyFacts DEF Sound
<1>3. Reserved(d) = Reserved(b) \ {k} /\ d.bits = b.bits + KeyLen(b, k) /\ d.failed = b.failed
      /\ d.supply = b.supply
  BY <1>1, <1>2, UpdReserved
<1>4. Plain(d)
  BY PlainOperations DEF Keeps
<1>5. d.bits <= b.bits + 1
  BY <1>2, <1>3, OneUnit
<1> QED BY <1>1, <1>3, <1>4, <1>5

(* An attempt reserves keys that the buffer did not hold.                  *)
LEMMA ReservesSource ==
  ASSUME NEW b, Source(b), Reserved(b) = {}, NEW ks \in SUBSET KeyIds, ks \cap Owned(b) = {},
         b.bits + Cardinality(ks) <= Mmax, NEW c, c = Each(ReserveKey, b, ks)
  PROVE  Source(c) /\ Reserved(c) = ks
<1> DEFINE R == {p \in (SUBSET ks) \X Buffer :
                   /\ Sound(p[2]) /\ p[2].bits = b.bits /\ p[2].failed = b.failed
                   /\ p[2].supply = b.supply /\ Reserved(p[2]) = p[1]
                   /\ \A j \in KeyIds : Held(p[2], j) => Held(b, j) \/ j \in p[1]}
<1>1. b \in Buffer /\ Plain(b) /\ b.bits \in Nat
  BY PlainFields DEF Source, Plain
<1>2. <<{}, b>> \in R
  BY <1>1 DEF Source
<1>3. IsFiniteSet(ks) /\ Cardinality(ks) \in Nat
  BY KeyIdsFinite, FS_Subset, FS_CardinalityType
<1>4. ASSUME NEW s \in SUBSET ks, NEW k \in ks, NEW a, k \notin s, Plain(a), <<s, a>> \in R
      PROVE  <<s \cup {k}, ReserveKey(a, k)>> \in R
  <2>1. PICK d : d = ReserveKey(a, k)
    OBVIOUS
  <2>2. ~Held(a, k)
    BY <1>4 DEF Owned
  <2>3. Cardinality(ks) # 0
    BY <1>3, FS_EmptySet
  <2>4. b.bits + 1 <= Mmax
    BY <1>1, <1>3, <2>3, BoundsNat
  <2>5. Sound(a) /\ a.bits = b.bits /\ a.failed = b.failed /\ a.supply = b.supply
        /\ Reserved(a) = s /\ \A j \in KeyIds : Held(a, j) => Held(b, j) \/ j \in s
    BY <1>4
  <2>6. /\ Plain(d) /\ Sound(d) /\ d.bits = a.bits /\ d.failed = a.failed
        /\ d.supply = a.supply /\ Reserved(d) = Reserved(a) \cup {k}
        /\ \A j \in KeyIds : Held(d, j) => Held(a, j) \/ j = k
    BY <1>4, <2>1, <2>2, <2>4, <2>5, ReserveOne
  <2>7. d \in Buffer
    BY <2>6 DEF Plain
  <2>8. <<s \cup {k}, d>> \in R
    BY <2>5, <2>6, <2>7
  <2> QED BY <2>1, <2>8
<1>5. Plain(c) /\ <<ks, c>> \in R
  <2> HIDE DEF R
  <2> QED BY <1>1, <1>2, <1>4, EachReserve
<1>6. Reserved(c) = ks /\ Sound(c) /\ c.bits = b.bits /\ c.failed = b.failed /\ c.supply = b.supply
  BY <1>5
<1>7. Room(c)
  BY <1>6 DEF Room
<1> QED BY <1>5, <1>6, <1>7 DEF Source

LEMMA DiscardsSource ==
  ASSUME NEW b, Source(b), NEW ks, ks = Reserved(b), NEW c, c = Each(DiscardKey, b, ks)
  PROVE  Source(c) /\ Reserved(c) = {}
<1> DEFINE R == {p \in (SUBSET ks) \X Buffer :
                   /\ Sound(p[2]) /\ p[2].failed = b.failed /\ p[2].bits = b.bits
                   /\ p[2].supply = b.supply /\ Reserved(p[2]) = Reserved(b) \ p[1]}
<1>1. b \in Buffer /\ Plain(b) /\ b.bits \in Nat /\ ks \in SUBSET KeyIds
  BY PlainFields DEF Source, Plain, Reserved
<1>2. <<{}, b>> \in R
  BY <1>1 DEF Source
<1>3. ASSUME NEW s \in SUBSET ks, NEW k \in ks, NEW a, k \notin s, Plain(a), <<s, a>> \in R
      PROVE  <<s \cup {k}, DiscardKey(a, k)>> \in R
  <2>1. PICK d : d = DiscardKey(a, k)
    OBVIOUS
  <2>2. Sound(a) /\ a.bits = b.bits /\ a.failed = b.failed /\ a.supply = b.supply
        /\ Reserved(a) = Reserved(b) \ s
    BY <1>3
  <2>3. a.st[k] = "INIT" /\ k \in KeyIds
    BY <1>3, <2>2 DEF Reserved
  <2>4. /\ Plain(d) /\ Sound(d) /\ d.bits = a.bits /\ d.failed = a.failed
        /\ d.supply = a.supply /\ Reserved(d) = Reserved(a) \ {k}
    BY <1>3, <2>1, <2>2, <2>3, DiscardOne
  <2>5. d \in Buffer
    BY <2>4 DEF Plain
  <2>6. <<s \cup {k}, d>> \in R
    BY <2>2, <2>4, <2>5
  <2> QED BY <2>1, <2>6
<1>4. Plain(c) /\ <<ks, c>> \in R
  <2> HIDE DEF R
  <2> QED BY <1>1, <1>2, <1>3, EachDiscard
<1>5. Reserved(c) = {} /\ Sound(c) /\ c.bits = b.bits /\ c.failed = b.failed /\ c.supply = b.supply
  BY <1>4
<1>6. Room(c)
  BY <1>1, <1>5, ReservedFinite, FS_EmptySet, BoundsNat DEF Room, Source
<1> QED BY <1>4, <1>5, <1>6 DEF Source

LEMMA ConfirmsSource ==
  ASSUME NEW b, Source(b), NEW ks, ks = Reserved(b), NEW c, c = Each(ConfirmKey, b, ks)
  PROVE  Source(c) /\ Reserved(c) = {}
<1> DEFINE R == {p \in (SUBSET ks) \X Buffer :
                   /\ Sound(p[2]) /\ p[2].failed = b.failed /\ Room(p[2])
                   /\ p[2].supply = b.supply /\ Reserved(p[2]) = Reserved(b) \ p[1]}
<1>1. b \in Buffer /\ Plain(b) /\ ks \in SUBSET KeyIds
  BY DEF Source, Plain, Reserved
<1>2. <<{}, b>> \in R
  BY <1>1 DEF Source
<1>3. ASSUME NEW s \in SUBSET ks, NEW k \in ks, NEW a, k \notin s, Plain(a), <<s, a>> \in R
      PROVE  <<s \cup {k}, ConfirmKey(a, k)>> \in R
  <2>1. PICK d : d = ConfirmKey(a, k)
    OBVIOUS
  <2>2. Sound(a) /\ Room(a) /\ a.failed = b.failed /\ a.supply = b.supply
        /\ Reserved(a) = Reserved(b) \ s
    BY <1>3
  <2>3. a.st[k] = "INIT" /\ k \in KeyIds /\ k \in Reserved(a)
    BY <1>3, <2>2 DEF Reserved
  <2>4. /\ Plain(d) /\ Sound(d) /\ d.bits <= a.bits + 1 /\ d.failed = a.failed
        /\ d.supply = a.supply /\ Reserved(d) = Reserved(a) \ {k}
    BY <1>3, <2>1, <2>2, <2>3, ConfirmOne
  <2>5. d \in Buffer /\ d.bits \in Nat /\ a.bits \in Nat
    BY <1>3, <2>4, PlainFields DEF Plain
  <2>6. Room(d)
    <3>1. Cardinality(Reserved(d)) = Cardinality(Reserved(a)) - 1
      BY <2>3, <2>4, ReservedFinite, FS_RemoveElement
    <3>2. Cardinality(Reserved(a)) \in Nat
      BY ReservedFinite
    <3> QED BY <2>2, <2>4, <2>5, <3>1, <3>2, BoundsNat DEF Room
  <2>7. <<s \cup {k}, d>> \in R
    BY <2>2, <2>4, <2>5, <2>6
  <2> QED BY <2>1, <2>7
<1>4. Plain(c) /\ <<ks, c>> \in R
  <2> HIDE DEF R
  <2> QED BY <1>1, <1>2, <1>3, EachConfirm
<1> QED BY <1>4 DEF Source

(* enc_keys takes a key out.                                               *)
LEMMA TransformSource ==
  ASSUME NEW b, Source(b), NEW k \in KeyIds, b.st[k] = "READY",
         NEW c, c = TransformCandidate(b, k, 1)
  PROVE  Source(c) /\ Reserved(c) = Reserved(b)
<1>1. KeyLen(b, k) \in {0, 1} /\ Sound(b) /\ Shaped(b) /\ b.bits \in Nat /\ Plain(b)
  BY OneUnit, KeyFacts DEF Source, Sound
<1>2. ~Splits(b, k, 1)
  BY <1>1 DEF Splits
<1>3. CandidateChecked(b) = b
  BY CandidateCheckedSound DEF Source
<1>4. c = GetKey(b, k, TRUE)
  BY <1>2, <1>3 DEF TransformCandidate
<1>5. c = Upd(b, k, "NONE", 0, 0, b.bits - KeyLen(b, k), b.nrKeys, b.nrBits) /\ Sound(c)
  BY <1>1, <1>4, GetReadySound
<1>6. Reserved(c) = Reserved(b) \ {k} /\ c.bits = b.bits - KeyLen(b, k) /\ c.failed = b.failed
      /\ c.supply = b.supply
  BY <1>1, <1>5, UpdReserved
<1>7. Reserved(c) = Reserved(b)
  BY <1>6 DEF Reserved
<1>8. Room(c)
  BY <1>1, <1>6, <1>7, ReservedFinite, BoundsNat DEF Room, Source
<1>9. Plain(c)
  BY <1>1, PlainTransform DEF Keeps
<1> QED BY <1>5, <1>6, <1>7, <1>8, <1>9 DEF Source

(* Nothing is reserved at the other end.                                   *)
LEMMA StoreReserves ==
  ASSUME NEW b, Plain(b), Reserved(b) = {}, NEW k \in KeyIds, NEW d, d = StoreKey(b, k, 1)
  PROVE  Plain(d) /\ Reserved(d) = {}
<1>1. 1 \in 0 .. MaxLen /\ "READY" \in KeyState /\ 1 \in Nat
  BY BoundsNat DEF KeyState
<1>2. PICK c : c = Insert(b, k, 1)
  OBVIOUS
<1>3. Plain(c) /\ (c.st = b.st \/ c.st = [b.st EXCEPT ![k] = "READY"])
  BY <1>1, <1>2, PlainSet DEF Insert
<1>4. LogAdd(c, 1).st = c.st
  BY <1>1, <1>3, PlainLog
<1>5. d = LogAdd(c, 1) \/ d = b
  BY <1>2 DEF StoreKey
<1>6. d.st = b.st \/ d.st = [b.st EXCEPT ![k] = "READY"]
  BY <1>3, <1>4, <1>5
<1>7. Reserved(d) = {}
  BY <1>6, PlainFields DEF Reserved
<1>8. Plain(d)
  BY PlainOperations DEF Gains
<1> QED BY <1>7, <1>8

LEMMA StoresReserve ==
  ASSUME NEW b, Plain(b), Reserved(b) = {}, NEW ks \in SUBSET KeyIds,
         NEW c, c = Each(LAMBDA x, y : StoreKey(x, y, 1), b, ks)
  PROVE  Plain(c) /\ Reserved(c) = {}
<1> DEFINE R == {p \in (SUBSET ks) \X Buffer : Reserved(p[2]) = {}}
<1>1. <<{}, b>> \in R
  BY DEF Plain
<1>2. ASSUME NEW s \in SUBSET ks, NEW k \in ks, NEW a, Plain(a), <<s, a>> \in R
      PROVE  <<s \cup {k}, StoreKey(a, k, 1)>> \in R
  <2>1. PICK d : d = StoreKey(a, k, 1)
    OBVIOUS
  <2>2. Plain(d) /\ Reserved(d) = {}
    BY <1>2, <2>1, StoreReserves
  <2> QED BY <2>1, <2>2 DEF Plain
<1>3. Plain(c) /\ <<ks, c>> \in R
  <2> HIDE DEF R
  <2> QED BY <1>1, <1>2, EachStore
<1> QED BY <1>3

LEMMA SupplyReserves ==
  ASSUME NEW b, Plain(b), Reserved(b) = {}, NEW m, m.key \in KeyIds, m.supply \in SupplyIds,
         NEW d, d = Supply(b, m)
  PROVE  Reserved(d) = {}
<1>1. PICK k \in KeyIds, s \in SupplyIds : k = m.key /\ s = m.supply
  OBVIOUS
<1>2. PICK cells \in SUBSET Cell : cells = {<<k, 1>>}
  <2>1. <<k, 1>> \in Cell
    BY BoundsNat DEF Cell
  <2> QED BY <2>1
<1>3. PICK c : c = HalfKey(b, k, 1)
  OBVIOUS
<1>4. Plain(c)
  BY <1>3, PlainHalf DEF Keeps
<1>5. Reserved(c) = {}
  <2>1. ~(KeyLen(b, k) > 1)
    <3>1. b.hi[k] \in 0 .. 1 /\ b.lo[k] = 0
      BY PlainFields, RelayAssumption
    <3> QED BY <3>1 DEF KeyLen
  <2>2. c \in {b, Stop(b), GetKey(b, k, TRUE)}
    BY <1>3, <2>1 DEF HalfKey
  <2>3. PICK e : e = Erase(b, k)
    OBVIOUS
  <2>4. Plain(e) /\ e.st = [b.st EXCEPT ![k] = "NONE"]
    <3>1. "NONE" \in KeyState /\ 0 \in 0 .. MaxLen
      BY BoundsNat DEF KeyState
    <3> QED BY <2>3, <3>1, PlainSet DEF Erase
  <2>5. KeyLen(b, k) \in Nat
    BY PlainFields
  <2>6. LogSub(e, KeyLen(b, k)).st = e.st
    BY <2>4, <2>5, PlainLog
  <2>7. GetKey(b, k, TRUE).st = e.st
    BY <2>3, <2>6 DEF GetKey
  <2>8. c.st = b.st \/ c.st = [b.st EXCEPT ![k] = "NONE"]
    BY <2>2, <2>4, <2>7, PlainStop
  <2> QED BY <2>8, PlainFields DEF Reserved
<1>6. StoreSupplyKey(c, s, cells).st = c.st
  BY <1>4, PlainStoreSupply DEF SetsSupply
<1>7. d = StoreSupplyKey(c, s, cells) \/ d = Stop(b)
  BY <1>1, <1>2, <1>3 DEF Supply
<1>8. d.st = c.st \/ d.st = b.st
  BY <1>6, <1>7, PlainStop
<1> QED BY <1>5, <1>8 DEF Reserved

-----------------------------------------------------------------------------
(* The attempt the serving end waits on is the only one on the path: its   *)
(* request travels away from that end, and what the end has noted of it are*)
(* the keys it has reserved.                                               *)

Tracked(m) == m.type = "relay" \/ m.type = "relayed"

Right(e, x, l, m) ==
  /\ m.type = "skey" => m.src = e
  /\ Tracked(m) => x.active /\ m.req = <<e, x.gen>>
  /\ m.type = "relay" => l[1] # Far(e) /\ l[2] = NextHop(l[1], Far(e))

Carried(e, x, n) == \A l \in Link : \A i \in 1 .. Len(n[l]) : Right(e, x, l, n[l][i])

Sole(n) ==
  \A l, k \in Link : \A i \in 1 .. Len(n[l]), j \in 1 .. Len(n[k]) :
    Tracked(n[l][i]) /\ Tracked(n[k][j]) => l = k /\ i = j

Clear(n) == \A l \in Link : \A i \in 1 .. Len(n[l]) : ~Tracked(n[l][i])

Waiting(x) ==
  /\ Source(x.buf)
  /\ x.active => x.gen \in x.timers
  /\ Reserved(x.buf) = IF x.active THEN x.pending ELSE {}
  /\ \A g \in x.timers : g <= x.gen

Passive(x) == ~x.active /\ x.timers = {} /\ Reserved(x.buf) = {}

Recalled(e, x, px) ==
  /\ \A p \in px[e] :
       /\ p.prev = e /\ p.req[2] <= x.gen
       /\ x.active /\ p.req = <<e, x.gen>> => p.keys = x.pending
  /\ \A j \in Node : j # e => \A p \in px[j] : p.prev # j

WatchAt(e) ==
  /\ Waiting(relay[e]) /\ Passive(relay[Far(e)])
  /\ Carried(e, relay[e], net) /\ Sole(net) /\ Recalled(e, relay[e], proxy)

WatchInv == \A e \in Serving : WatchAt(e)

LEMMA WatchImplies == WatchInv => Watched
<1> SUFFICES ASSUME WatchInv, NEW e \in End
             PROVE  /\ relay[e].active => relay[e].gen \in relay[e].timers
                    /\ Reserved(relay[e].buf) = IF relay[e].active THEN relay[e].pending ELSE {}
  BY DEF Watched, Reserved
<1>1. PICK f \in Serving : TRUE
  BY RelayAssumption
<1>2. e = f \/ e = Far(f)
  BY RelayAssumption DEF End, Far
<1>3. Waiting(relay[f]) /\ Passive(relay[Far(f)])
  BY DEF WatchInv, WatchAt
<1>4. CASE e = f
  BY <1>3, <1>4 DEF Waiting
<1>5. CASE e = Far(f)
  BY <1>3, <1>5 DEF Passive
<1> QED BY <1>2, <1>4, <1>5

LEMMA DropWatch ==
  ASSUME NEW n \in Nets, NEW l \in Link, n[l] # <<>>, NEW e, NEW x, Carried(e, x, n), Sole(n)
  PROVE  /\ Carried(e, x, Drop(n, l)) /\ Sole(Drop(n, l)) /\ Right(e, x, l, Head(n[l]))
         /\ Tracked(Head(n[l])) => Clear(Drop(n, l))
<1>1. Head(n[l]) = n[l][1] /\ 1 \in 1 .. Len(n[l])
  <2>1. n[l] \in Seq(Message)
    BY DEF Nets
  <2> QED BY <2>1
<1>2. Carried(e, x, Drop(n, l))
  <2> SUFFICES ASSUME NEW k \in Link, NEW i \in 1 .. Len(Drop(n, l)[k])
               PROVE  Right(e, x, k, Drop(n, l)[k][i])
    BY DEF Carried
  <2>1. PICK j \in 1 .. Len(n[k]) : Drop(n, l)[k][i] = n[k][j]
    BY DropAt
  <2> QED BY <2>1 DEF Carried
<1>3. Sole(Drop(n, l))
  <2> SUFFICES ASSUME NEW k \in Link, NEW q \in Link, NEW i \in 1 .. Len(Drop(n, l)[k]),
                      NEW j \in 1 .. Len(Drop(n, l)[q]),
                      Tracked(Drop(n, l)[k][i]), Tracked(Drop(n, l)[q][j])
               PROVE  k = q /\ i = j
    BY DEF Sole
  <2>1. PICK a \in 1 .. Len(n[k]) : Drop(n, l)[k][i] = n[k][a] /\ a = IF k = l THEN i + 1 ELSE i
    BY DropAt
  <2>2. PICK c \in 1 .. Len(n[q]) : Drop(n, l)[q][j] = n[q][c] /\ c = IF q = l THEN j + 1 ELSE j
    BY DropAt
  <2>3. k = q /\ a = c
    BY <2>1, <2>2, SMTT(60) DEF Sole
  <2> QED BY <2>1, <2>2, <2>3
<1>4. ASSUME Tracked(Head(n[l])) PROVE Clear(Drop(n, l))
  <2> SUFFICES ASSUME NEW k \in Link, NEW i \in 1 .. Len(Drop(n, l)[k]), Tracked(Drop(n, l)[k][i])
               PROVE  FALSE
    BY DEF Clear
  <2>1. PICK j \in 1 .. Len(n[k]) : Drop(n, l)[k][i] = n[k][j] /\ (k # l \/ j # 1)
    BY DropAt
  <2>2. Tracked(n[l][1]) /\ Tracked(n[k][j])
    BY <1>1, <1>4, <2>1
  <2>3. k = l /\ j = 1
    BY <1>1, <2>2 DEF Sole
  <2> QED BY <2>1, <2>3
<1>5. Right(e, x, l, Head(n[l]))
  BY <1>1 DEF Carried
<1> QED BY <1>2, <1>3, <1>4, <1>5

LEMMA PutWatch ==
  ASSUME NEW n \in Nets, NEW l \in Link, NEW m, NEW e, NEW x, Carried(e, x, n), Sole(n),
         Right(e, x, l, m), Tracked(m) => Clear(n)
  PROVE  Carried(e, x, Put(n, l, m)) /\ Sole(Put(n, l, m))
<1>1. Carried(e, x, Put(n, l, m))
  <2> SUFFICES ASSUME NEW k \in Link, NEW i \in 1 .. Len(Put(n, l, m)[k])
               PROVE  Right(e, x, k, Put(n, l, m)[k][i])
    BY DEF Carried
  <2> QED BY PutAt DEF Carried
<1>2. Sole(Put(n, l, m))
  <2> SUFFICES ASSUME NEW k \in Link, NEW q \in Link, NEW i \in 1 .. Len(Put(n, l, m)[k]),
                      NEW j \in 1 .. Len(Put(n, l, m)[q]),
                      Tracked(Put(n, l, m)[k][i]), Tracked(Put(n, l, m)[q][j])
               PROVE  k = q /\ i = j
    BY DEF Sole
  <2>1. \/ i \in 1 .. Len(n[k]) /\ Put(n, l, m)[k][i] = n[k][i]
        \/ k = l /\ i = Len(n[l]) + 1 /\ Put(n, l, m)[k][i] = m
    BY PutAt
  <2>2. \/ j \in 1 .. Len(n[q]) /\ Put(n, l, m)[q][j] = n[q][j]
        \/ q = l /\ j = Len(n[l]) + 1 /\ Put(n, l, m)[q][j] = m
    BY PutAt
  <2>3. CASE i \in 1 .. Len(n[k]) /\ Put(n, l, m)[k][i] = n[k][i]
             /\ j \in 1 .. Len(n[q]) /\ Put(n, l, m)[q][j] = n[q][j]
    BY <2>3 DEF Sole
  <2>4. CASE i \in 1 .. Len(n[k]) /\ Put(n, l, m)[k][i] = n[k][i] /\ Put(n, l, m)[q][j] = m
    BY <2>4 DEF Clear
  <2>5. CASE j \in 1 .. Len(n[q]) /\ Put(n, l, m)[q][j] = n[q][j] /\ Put(n, l, m)[k][i] = m
    BY <2>5 DEF Clear
  <2>6. CASE k = l /\ i = Len(n[l]) + 1 /\ q = l /\ j = Len(n[l]) + 1
    BY <2>6
  <2> QED BY <2>1, <2>2, <2>3, <2>4, <2>5, <2>6
<1> QED BY <1>1, <1>2

(* An end that starts or ends an attempt while nothing of one is on the way*)
LEMMA ClearWatch ==
  ASSUME NEW n, NEW e, NEW x, NEW y, Carried(e, x, n), Clear(n)
  PROVE  Carried(e, y, n)
  BY DEF Carried, Clear, Right

LEMMA IdleClear ==
  ASSUME NEW n, NEW e, NEW x, Carried(e, x, n), ~x.active
  PROVE  Clear(n)
  BY DEF Carried, Clear, Right

LEMMA BreakWatch ==
  ASSUME NEW n \in Nets, NEW l \in Link, NEW e, NEW x, Carried(e, x, n), Sole(n)
  PROVE  Carried(e, x, [n EXCEPT ![l] = <<>>]) /\ Sole([n EXCEPT ![l] = <<>>])
<1>1. PICK q : q = [n EXCEPT ![l] = <<>>]
  OBVIOUS
<1>2. \A k \in Link : \A i \in 1 .. Len(q[k]) : k # l /\ q[k] = n[k]
  BY <1>1 DEF Nets
<1>3. Carried(e, x, q)
  BY <1>2 DEF Carried
<1>4. Sole(q)
  BY <1>2 DEF Sole
<1> QED BY <1>1, <1>3, <1>4

(* What the messages and the notes say of the state of the end.            *)
LEMMA SameAttempt ==
  ASSUME NEW e, NEW x, NEW y, y.active = x.active, y.gen = x.gen, y.pending = x.pending
  PROVE  /\ \A n : Carried(e, x, n) => Carried(e, y, n)
         /\ \A px : Recalled(e, x, px) => Recalled(e, y, px)
  BY DEF Carried, Right, Recalled

(* A request that travels away from e does not come to e.                  *)
LEMMA NextAway ==
  ASSUME NEW e \in End, NEW i \in Node, i # Far(e)
  PROVE  NextHop(i, Far(e)) # e
<1>1. CASE e = 0
  BY <1>1, RelayAssumption DEF Far, NextHop, Node
<1>2. CASE e = Hops
  BY <1>2, RelayAssumption DEF Far, NextHop, Node
<1> QED BY <1>1, <1>2 DEF End

LEMMA ServingEnds ==
  ASSUME NEW e \in Serving
  PROVE  e \in End /\ e \in Node /\ Far(e) \in End /\ Far(e) # e
         /\ \A f \in Serving : f = e
         /\ \A g \in End : g = e \/ g = Far(e)
<1>1. \A f \in End : f = e \/ f = Far(e)
  BY RelayAssumption DEF End, Far
<1> QED BY <1>1, PathFacts

(* No more is reserved than the buffer has room for.                       *)
LEMMA AmountFits ==
  ASSUME NEW b, Source(b), NEW n \in Nat
  PROVE  b.bits + Amount(b, n) <= Mmax
<1>1. b.bits \in Nat /\ b.bits <= Mmax /\ Mmax - b.bits \in Nat
  <2>1. b.bits \in Nat /\ Cardinality(Reserved(b)) \in Nat
    BY PlainFields, ReservedFinite DEF Source
  <2> QED BY <2>1, BoundsNat DEF Source, Room
<1>2. PICK m \in Nat : m = Mmax - b.bits
  BY <1>1
<1>3. Amount(b, n) = Min({Batch, n, m})
  <2>1. ~(b.bits > Mmax)
    BY <1>1, BoundsNat
  <2>2. Amount(b, n) = Min({Batch, n} \cup {m})
    BY <1>2, <2>1 DEF Amount
  <2>3. {Batch, n} \cup {m} = {Batch, n, m}
    OBVIOUS
  <2> QED BY <2>2, <2>3
<1>4. \E y \in {Batch, n, m} : \A z \in {Batch, n, m} : y <= z
  BY RelayAssumption
<1>5. Min({Batch, n, m}) \in {Batch, n, m} /\ \A z \in {Batch, n, m} : Min({Batch, n, m}) <= z
  BY <1>4 DEF Min
<1>6. Amount(b, n) \in Nat /\ Amount(b, n) <= m
  BY <1>3, <1>5, RelayAssumption
<1> QED BY <1>1, <1>2, <1>6, BoundsNat

AsksRight(e, asks) ==
  asks = <<>> \/ \E m \in Message : /\ asks = <<m>> /\ ~Tracked(m)
                                    /\ m.type = "skey" => m.src = e

LEMMA AsksWatch ==
  ASSUME NEW n \in Nets, NEW l \in Link, NEW e, NEW x, NEW asks, AsksRight(e, asks),
         Carried(e, x, n), Sole(n), NEW q, q = [n EXCEPT ![l] = @ \o asks]
  PROVE  q \in Nets /\ Carried(e, x, q) /\ Sole(q)
<1>1. n[l] \in Seq(Message)
  BY DEF Nets
<1>2. CASE asks = <<>>
  <2>1. n[l] \o asks = n[l]
    BY <1>1, <1>2, ConcatEmptySeq
  <2>2. q = n
    BY <2>1 DEF Nets
  <2> QED BY <2>2
<1>3. ASSUME NEW m \in Message, asks = <<m>>, ~Tracked(m), m.type = "skey" => m.src = e
      PROVE  q \in Nets /\ Carried(e, x, q) /\ Sole(q)
  <2>1. n[l] \o asks = Append(n[l], m)
    BY <1>1, <1>3
  <2>2. q = Put(n, l, m)
    BY <2>1 DEF Put
  <2>3. q \in Nets
    BY <2>2, NetTyped, ZenonT(60)
  <2>4. Right(e, x, l, m)
    BY <1>3 DEF Right, Tracked
  <2>5. Carried(e, x, Put(n, l, m)) /\ Sole(Put(n, l, m))
    BY <1>3, <2>4, PutWatch
  <2> QED BY <2>2, <2>3, <2>5
<1> QED BY <1>2, <1>3 DEF AsksRight

LEMMA FinishWatch ==
  ASSUME Types, PadInv, NEW e \in Serving, WatchAt(e),
         NEW x \in EndState, Waiting(x), x.gen < MaxRelays,
         x.active = relay[e].active, x.gen = relay[e].gen, x.pending = relay[e].pending,
         Owned(x.buf) \subseteq Owned(relay[e].buf),
         NEW asks \in Seq(Message), AsksRight(e, asks), Finish(e, x, asks)
  PROVE  WatchAt(e)'
<1>1. e \in End /\ Way(e) \in Link /\ Way(e)[1] = e /\ Way(e)[2] = NextHop(e, Far(e))
  BY WayLink DEF Way
<1>2. PICK n : n = [net EXCEPT ![Way(e)] = @ \o asks]
  OBVIOUS
<1>3. Carried(e, x, net) /\ Recalled(e, x, proxy) /\ Sole(net)
  BY SameAttempt DEF WatchAt
<1>4. n \in Nets /\ Carried(e, x, n) /\ Sole(n)
  <2>1. PICK l \in Link : l = Way(e)
    BY <1>1
  <2>2. n = [net EXCEPT ![l] = @ \o asks] /\ net \in Nets
    BY <1>2, <2>1 DEF Types
  <2> QED BY <1>3, <2>2, AsksWatch
<1>5. Plain(x.buf) /\ x.gen \in Nat /\ x.timers \in SUBSET (1 .. MaxRelays)
  BY RelayAssumption DEF Waiting, Source, EndState
<1>6. Far(e) \in End /\ Far(e) # e
  BY ServingEnds
<1>7. CASE Quiet(e, x, asks)
  <2>1. relay'[e] = x /\ relay'[Far(e)] = relay[Far(e)] /\ proxy' = proxy /\ net' = n
    BY <1>1, <1>2, <1>6, <1>7 DEF Quiet, Types, Ends
  <2> QED BY <1>3, <1>4, <2>1 DEF WatchAt
<1>8. ASSUME NEW ks, Begins(e, x, ks, asks) PROVE WatchAt(e)'
  <2>1. ks \subseteq enc[Way(e)] /\ ks \in SUBSET KeyIds /\ ~x.active
    BY <1>1, <1>8 DEF Begins, Types
  <2>2. PICK m : m = [type |-> "relay", req |-> <<e, x.gen + 1>>, keys |-> ks, pads |-> {}]
    OBVIOUS
  <2>3. n[Way(e)] \in Seq(Message) /\ net[Way(e)] \o asks = n[Way(e)]
    BY <1>1, <1>2, <1>4 DEF Nets, Types
  <2>4. m \in Message /\ m.type = "relay" /\ m.req = <<e, x.gen + 1>>
    <3>1. <<e, x.gen + 1>> \in Request
      BY <1>1, <1>5, <2>1, ReservedTyped DEF Request
    <3> QED BY <2>1, <2>2, <3>1 DEF Message
  <2>5. net' = Put(n, Way(e), m)
    <3>1. n[Way(e)] \o <<m>> = Append(n[Way(e)], m)
      BY <2>3, <2>4
    <3>2. net' = [net EXCEPT ![Way(e)] = n[Way(e)] \o <<m>>]
      BY <1>8, <2>2, <2>3 DEF Begins
    <3>3. net' = [n EXCEPT ![Way(e)] = n[Way(e)] \o <<m>>]
      BY <1>1, <1>2, <3>2 DEF Types, Nets
    <3> QED BY <3>1, <3>3 DEF Put
  <2>6. PICK c : c = Each(ReserveKey, x.buf, ks)
    OBVIOUS
  <2>7. PICK y : y = Begun(x, ks)
    OBVIOUS
  <2>8. y = [buf |-> c, active |-> TRUE, pending |-> ks, gen |-> x.gen + 1,
             timers |-> x.timers \cup {x.gen + 1}]
    BY <2>6, <2>7 DEF Begun
  <2>9. relay'[e] = y /\ relay'[Far(e)] = relay[Far(e)]
    BY <1>1, <1>6, <1>8, <2>7 DEF Begins, Types, Ends
  <2>10. Source(c) /\ Reserved(c) = ks
    <3>1. Source(x.buf) /\ Reserved(x.buf) = {}
      BY <2>1 DEF Waiting
    <3>2. ks \cap Owned(x.buf) = {}
      BY <1>1, <2>1 DEF PadInv, Stock
    <3>3. Cardinality(enc[Way(e)]) \in Nat
      <4>1. enc[Way(e)] \in SUBSET KeyIds
        BY <1>1 DEF Types
      <4> QED BY <4>1, KeyIdsFinite, FS_Subset, FS_CardinalityType
    <3>4. x.buf.bits + Cardinality(ks) <= Mmax
      BY <1>8, <3>1, <3>3, AmountFits DEF Begins
    <3> QED BY <2>1, <2>6, <3>1, <3>2, <3>4, ReservesSource
  <2>11. Waiting(y)
    <3>1. \A g \in x.timers : g <= x.gen /\ g \in Nat
      BY <1>5 DEF Waiting
    <3>2. \A g \in y.timers : g <= y.gen
      BY <1>5, <2>8, <3>1
    <3>3. y.gen \in y.timers /\ y.buf = c /\ y.active = TRUE /\ y.pending = ks
      BY <2>8
    <3> QED BY <2>10, <3>2, <3>3 DEF Waiting
  <2>12. Carried(e, y, n) /\ Clear(n)
    BY <1>4, <2>1, IdleClear, ClearWatch
  <2>13. Right(e, y, Way(e), m)
    BY <1>1, <1>6, <2>4, <2>8 DEF Right
  <2>14. Carried(e, y, net') /\ Sole(net')
    <3>1. Carried(e, y, Put(n, Way(e), m)) /\ Sole(Put(n, Way(e), m))
      BY <1>1, <1>4, <2>12, <2>13, PutWatch
    <3> QED BY <2>5, <3>1
  <2>15. Recalled(e, y, proxy')
    <3>1. PICK p1 : p1 = [req |-> <<e, x.gen + 1>>, prev |-> e, keys |-> ks]
      OBVIOUS
    <3>2. proxy' = [proxy EXCEPT ![e] = @ \cup {p1}]
      BY <1>8, <3>1 DEF Begins
    <3>3. proxy'[e] = proxy[e] \cup {p1} /\ \A j \in Node : j # e => proxy'[j] = proxy[j]
      BY <1>1, <3>2, PathFacts DEF Types, Proxies
    <3>4. ASSUME NEW p \in proxy[e]
          PROVE  p.prev = e /\ p.req[2] <= x.gen + 1 /\ p.req # <<e, x.gen + 1>>
      <4>1. p.prev = e /\ p.req[2] <= x.gen
        BY <1>3 DEF Recalled
      <4>2. p.req[2] \in Nat
        <5>1. p \in Noted(e)
          BY <1>1, PathFacts DEF Types, Proxies
        <5> QED BY <5>1, RelayAssumption DEF Noted, Request
      <4>3. p.req[2] # x.gen + 1 /\ p.req[2] <= x.gen + 1
        BY <1>5, <4>1, <4>2
      <4> QED BY <4>1, <4>3
    <3>5. p1.prev = e /\ p1.req[2] <= x.gen + 1 /\ p1.keys = ks
      BY <1>5, <3>1
    <3>6. y.gen = x.gen + 1 /\ y.pending = ks
      BY <2>8
    <3>7. \A j \in Node : j # e => \A p \in proxy'[j] : p.prev # j
      BY <1>3, <3>3 DEF Recalled
    <3> QED BY <3>3, <3>4, <3>5, <3>6, <3>7 DEF Recalled
  <2> QED BY <2>9, <2>11, <2>14, <2>15 DEF WatchAt
<1> QED BY <1>7, <1>8, FinishEffect

LEMMA TimeoutWatch ==
  ASSUME LateAnswers = FALSE, Types, NEW e \in Serving, WatchAt(e), NEW f \in End, NEW g,
         RelayTimeoutCheck(f, g)
  PROVE  WatchAt(e)'
<1>1. e \in End /\ Far(e) \in End /\ Far(e) # e /\ relay[e] \in EndState
  BY ServingEnds DEF Types, Ends
<1>2. f = e /\ g \in relay[e].timers
  <2>1. g \in relay[f].timers
    BY DEF RelayTimeoutCheck
  <2> QED BY <2>1, ServingEnds DEF WatchAt, Passive
<1>3. PICK x : x = relay[e]
  OBVIOUS
<1>4. /\ Source(x.buf) /\ (x.active => x.gen \in x.timers)
      /\ Reserved(x.buf) = (IF x.active THEN x.pending ELSE {}) /\ \A h \in x.timers : h <= x.gen
  BY <1>3 DEF WatchAt, Waiting
<1>5. PICK y : y = IF Current(e, g)
         THEN [buf |-> Each(DiscardKey, x.buf, x.pending), active |-> FALSE,
               pending |-> {}, gen |-> g, timers |-> x.timers \ {g}]
         ELSE [x EXCEPT !.timers = @ \ {g}]
  OBVIOUS
<1>6. relay' = [relay EXCEPT ![e] = y] /\ UNCHANGED <<net, proxy>>
  BY <1>2, <1>3, <1>5 DEF RelayTimeoutCheck
<1>7. relay'[e] = y /\ relay'[Far(e)] = relay[Far(e)]
  BY <1>1, <1>6 DEF Types, Ends
<1>8. CASE Current(e, g)
  <2>1. x.gen = g /\ x.active
    BY <1>3, <1>8 DEF Current
  <2>2. PICK c : c = Each(DiscardKey, x.buf, x.pending)
    OBVIOUS
  <2>3. y = [buf |-> c, active |-> FALSE, pending |-> {}, gen |-> g, timers |-> x.timers \ {g}]
    BY <1>5, <1>8, <2>2
  <2>4. y.buf = c /\ y.active = FALSE /\ y.gen = x.gen /\ y.timers = x.timers \ {g}
    BY <2>1, <2>3
  <2>5. Source(c) /\ Reserved(c) = {}
    BY <1>4, <2>1, <2>2, DiscardsSource
  <2>6. Waiting(y)
    BY <1>4, <2>4, <2>5 DEF Waiting
  <2>7. Clear(net)
    <3>1. ~OnTheWay(<<e, g>>)
      BY <1>2, <1>8 DEF RelayTimeoutCheck
    <3>2. SUFFICES ASSUME NEW l \in Link, NEW i \in 1 .. Len(net[l]), Tracked(net[l][i])
                   PROVE  FALSE
      BY DEF Clear
    <3>3. i \in DOMAIN net[l]
      BY DEF Types, Nets
    <3>4. net[l][i].req = <<e, g>>
      BY <1>3, <2>1, <3>2 DEF WatchAt, Carried, Right
    <3>5. net[l][i].type \in {"relay", "relayed"}
      BY <3>2 DEF Tracked
    <3> QED BY <3>1, <3>3, <3>4, <3>5 DEF OnTheWay
  <2>8. Carried(e, y, net)
    BY <2>7, ClearWatch DEF WatchAt
  <2>9. Recalled(e, y, proxy)
    BY <1>3, <2>4 DEF WatchAt, Recalled
  <2> QED BY <1>6, <1>7, <2>6, <2>8, <2>9 DEF WatchAt
<1>9. CASE ~Current(e, g)
  <2>1. y = [x EXCEPT !.timers = @ \ {g}] /\ ~(x.gen = g /\ x.active)
    BY <1>3, <1>5, <1>9 DEF Current
  <2>2. /\ y.buf = x.buf /\ y.active = x.active /\ y.pending = x.pending /\ y.gen = x.gen
        /\ y.timers = x.timers \ {g}
    BY <1>1, <1>3, <2>1 DEF EndState
  <2>3. Waiting(y)
    BY <1>4, <2>1, <2>2 DEF Waiting
  <2>4. Carried(e, y, net) /\ Recalled(e, y, proxy)
    BY <1>3, <2>2, SameAttempt DEF WatchAt
  <2> QED BY <1>6, <1>7, <2>3, <2>4 DEF WatchAt
<1> QED BY <1>8, <1>9

LEMMA RequestWatch ==
  ASSUME Types, NEW e \in Serving, WatchAt(e), NEW l \in Link, ProcessRelayRequest(l[1], l[2])
  PROVE  WatchAt(e)'
<1>1. PICK r, dst : r = Head(net[l]) /\ dst = Far(r.req[1])
  OBVIOUS
<1>2. /\ net[l] # <<>> /\ r \in Message /\ r.type = "relay" /\ r.keys \in SUBSET KeyIds
      /\ dst \in End
  BY <1>1, RequestEffect
<1>3. PICK n \in Nets : n = Drop(net, l)
  BY <1>2, NetTyped DEF Types
<1>4. /\ Carried(e, relay[e], n) /\ Sole(n) /\ Right(e, relay[e], l, r) /\ Clear(n)
  <2>1. Tracked(r)
    BY <1>2 DEF Tracked
  <2> QED BY <1>1, <1>2, <1>3, <2>1, DropWatch DEF Types, WatchAt
<1>5. /\ relay[e].active /\ r.req = <<e, relay[e].gen>> /\ l[1] # Far(e)
      /\ l[2] = NextHop(l[1], Far(e))
  BY <1>2, <1>4 DEF Right, Tracked
<1>6. dst = Far(e) /\ e \in End /\ e \in Node /\ dst # e /\ l[1] \in Node /\ l[2] \in Node
      /\ l[1] # l[2] /\ l[2] # e
  <2>1. dst = Far(e)
    BY <1>1, <1>5
  <2>2. e \in End /\ e \in Node /\ Far(e) # e
    BY ServingEnds
  <2>3. l[1] \in Node /\ l[2] \in Node /\ l[1] # l[2]
    BY PathFacts
  <2> QED BY <1>5, <2>1, <2>2, <2>3, NextAway
<1>7. ASSUME NEW ok \in BOOLEAN, NEW q, q = Put(n, <<l[2], l[1]>>, Reply(r, ok))
      PROVE  Carried(e, relay[e], q) /\ Sole(q)
  <2>1. PICK m : m = Reply(r, ok)
    OBVIOUS
  <2>2. m.type = "relayed" /\ m.req = r.req
    BY <2>1 DEF Reply
  <2>3. <<l[2], l[1]>> \in Link
    BY PathFacts
  <2>4. Right(e, relay[e], <<l[2], l[1]>>, m)
    BY <1>5, <2>2 DEF Right
  <2> QED BY <1>4, <1>7, <2>1, <2>3, <2>4, PutWatch
<1>8. CASE Refuses(l, r, dst)
  <2>1. relay' = relay /\ proxy' = proxy /\ net' = Put(n, <<l[2], l[1]>>, Reply(r, FALSE))
    BY <1>3, <1>8 DEF Refuses
  <2>2. Carried(e, relay[e], net') /\ Sole(net')
    BY <1>7, <2>1
  <2> QED BY <2>1, <2>2 DEF WatchAt
<1>9. ASSUME NEW pads, PassesOn(l, r, dst, pads) PROVE WatchAt(e)'
  <2>1. PICK out, m : out = <<l[2], NextHop(l[2], dst)>> /\ m = [r EXCEPT !.pads = pads]
    OBVIOUS
  <2>2. out \in Link /\ out[1] = l[2] /\ out[2] = NextHop(l[2], dst) /\ l[2] # dst
    BY <1>2, <1>6, <1>9, <2>1, PathFacts DEF PassesOn
  <2>3. m.type = "relay" /\ m.req = r.req
    <3>1. r \in [type : {"relay"}, req : Request, keys : SUBSET KeyIds, pads : SUBSET KeyIds]
      BY <1>2, MessageKinds
    <3> QED BY <2>1, <3>1
  <2>4. PICK p1 : p1 = [req |-> r.req, prev |-> l[1], keys |-> {}]
    OBVIOUS
  <2>5. /\ net' = Put(n, out, m) /\ relay' = relay
        /\ proxy' = [proxy EXCEPT ![l[2]] = @ \cup {p1}]
    BY <1>3, <1>9, <2>1, <2>4 DEF PassesOn
  <2>6. Right(e, relay[e], out, m)
    BY <1>5, <1>6, <2>2, <2>3 DEF Right
  <2>7. Carried(e, relay[e], net') /\ Sole(net')
    <3>1. Carried(e, relay[e], Put(n, out, m)) /\ Sole(Put(n, out, m))
      BY <1>4, <2>2, <2>6, PutWatch
    <3> QED BY <2>5, <3>1
  <2>8. Recalled(e, relay[e], proxy')
    <3>1. proxy'[l[2]] = proxy[l[2]] \cup {p1} /\ \A j \in Node : j # l[2] => proxy'[j] = proxy[j]
      BY <1>6, <2>5 DEF Types, Proxies
    <3>2. p1.prev # l[2]
      BY <1>6, <2>4
    <3> QED BY <1>6, <3>1, <3>2 DEF WatchAt, Recalled
  <2> QED BY <2>5, <2>7, <2>8 DEF WatchAt
<1>10. ASSUME NEW ks, Stores(l, r, dst, ks) PROVE WatchAt(e)'
  <2>1. ks \in SUBSET KeyIds /\ relay[dst] \in EndState /\ Plain(relay[dst].buf)
    BY <1>2, <1>10 DEF Stores, Types, Ends
  <2>2. PICK c : c = Each(LAMBDA b, k : StoreKey(b, k, 1), relay[dst].buf, ks)
    OBVIOUS
  <2>3. Passive(relay[dst])
    BY <1>6 DEF WatchAt
  <2>4. Reserved(c) = {}
    BY <2>1, <2>2, <2>3, StoresReserve DEF Passive
  <2>5. PICK y : y = [relay[dst] EXCEPT !.buf = c]
    OBVIOUS
  <2>6. y.buf = c /\ y.active = relay[dst].active /\ y.timers = relay[dst].timers
    BY <2>1, <2>5 DEF EndState
  <2>7. relay' = [relay EXCEPT ![dst] = y]
    BY <1>10, <2>1, <2>2, <2>5 DEF Stores, EndState
  <2>8. relay'[dst] = y /\ relay'[e] = relay[e]
    BY <1>2, <1>6, <2>7 DEF Types, Ends
  <2>9. Passive(y)
    BY <2>3, <2>4, <2>6 DEF Passive
  <2>10. proxy' = proxy /\ net' = Put(n, <<l[2], l[1]>>, Reply(r, TRUE))
    BY <1>3, <1>10 DEF Stores
  <2>11. Carried(e, relay[e], net') /\ Sole(net')
    BY <1>7, <2>10
  <2> QED BY <1>6, <2>8, <2>9, <2>10, <2>11 DEF WatchAt
<1> QED BY <1>1, <1>8, <1>9, <1>10, RequestEffect

LEMMA ResponseWatch ==
  ASSUME Types, NEW e \in Serving, WatchAt(e), NEW l \in Link, ProcessRelayResponse(l[1], l[2])
  PROVE  WatchAt(e)'
<1>1. PICK a : a = Head(net[l])
  OBVIOUS
<1>2. /\ net[l] # <<>> /\ a \in Message /\ a.type = "relayed" /\ a.ok \in BOOLEAN
  BY <1>1, ResponseEffect
<1>3. PICK n \in Nets : n = Drop(net, l)
  BY <1>2, NetTyped DEF Types
<1>4. /\ Carried(e, relay[e], n) /\ Sole(n) /\ Right(e, relay[e], l, a) /\ Clear(n)
  <2>1. Tracked(a)
    BY <1>2 DEF Tracked
  <2> QED BY <1>1, <1>2, <1>3, <2>1, DropWatch DEF Types, WatchAt
<1>5. relay[e].active /\ a.req = <<e, relay[e].gen>>
  BY <1>2, <1>4 DEF Right, Tracked
<1>6. l[2] \in Node /\ e \in End /\ e \in Node /\ Far(e) \in End /\ Far(e) # e
  BY PathFacts, ServingEnds
<1>7. CASE Halts(l, a)
  BY <1>3, <1>4, <1>7 DEF Halts, WatchAt
<1>8. ASSUME NEW p, p \in proxy[l[2]], proxy' = [proxy EXCEPT ![l[2]] = @ \ {p}]
      PROVE  /\ \A j \in Node : proxy'[j] \subseteq proxy[j]
             /\ p \in Noted(l[2]) /\ (p.prev = l[2] => l[2] = e) /\ (l[2] = e => p.prev = e)
  <2>1. p \in Noted(l[2]) /\ \A j \in Node : proxy'[j] \subseteq proxy[j]
    BY <1>6, <1>8 DEF Types, Proxies
  <2>2. p.prev = l[2] => l[2] = e
    BY <1>6, <1>8 DEF WatchAt, Recalled
  <2>3. l[2] = e => p.prev = e
    BY <1>6, <1>8 DEF WatchAt, Recalled
  <2> QED BY <2>1, <2>2, <2>3
<1>9. ASSUME NEW p, HandsBack(l, a, p) PROVE WatchAt(e)'
  <2>1. /\ p \in proxy[l[2]] /\ p.prev # l[2] /\ proxy' = [proxy EXCEPT ![l[2]] = @ \ {p}]
        /\ net' = Put(n, <<l[2], p.prev>>, a) /\ relay' = relay
    BY <1>3, <1>9 DEF HandsBack
  <2>2. \A j \in Node : proxy'[j] \subseteq proxy[j]
    BY <1>8, <2>1
  <2>3. p \in Noted(l[2])
    BY <1>8, <2>1
  <2>4. <<l[2], p.prev>> \in Link
    BY <2>1, <2>3 DEF Noted, Near
  <2>5. Right(e, relay[e], <<l[2], p.prev>>, a)
    BY <1>2, <1>5 DEF Right
  <2>6. Carried(e, relay[e], Put(n, <<l[2], p.prev>>, a)) /\ Sole(Put(n, <<l[2], p.prev>>, a))
    BY <1>4, <2>4, <2>5, PutWatch
  <2>7. Recalled(e, relay[e], proxy')
    BY <1>6, <2>2 DEF WatchAt, Recalled
  <2> QED BY <2>1, <2>6, <2>7 DEF WatchAt
<1>10. ASSUME NEW p, Settles(l, a, p) PROVE WatchAt(e)'
  <2>1. /\ p \in proxy[l[2]] /\ p.req = a.req /\ p.prev = l[2]
        /\ proxy' = [proxy EXCEPT ![l[2]] = @ \ {p}] /\ net' = n
        /\ relay' = Settled(l[2], a.ok, p.keys)
    BY <1>3, <1>10 DEF Settles
  <2>2. \A j \in Node : proxy'[j] \subseteq proxy[j]
    BY <1>8, <2>1
  <2>3. p \in Noted(l[2]) /\ l[2] = e
    BY <1>8, <2>1
  <2>4. PICK ks \in SUBSET KeyIds : ks = p.keys
    BY <2>3 DEF Noted
  <2>5. ks = relay[e].pending
    BY <1>5, <1>6, <2>1, <2>3, <2>4 DEF WatchAt, Recalled
  <2>6. Source(relay[e].buf) /\ Reserved(relay[e].buf) = ks
        /\ \A g \in relay[e].timers : g <= relay[e].gen
    BY <1>5, <2>5 DEF WatchAt, Waiting
  <2>7. PICK c : c = IF a.ok THEN Each(ConfirmKey, relay[e].buf, ks)
                             ELSE Each(DiscardKey, relay[e].buf, ks)
    OBVIOUS
  <2>8. Source(c) /\ Reserved(c) = {}
    <3>1. CASE a.ok
      <4>1. c = Each(ConfirmKey, relay[e].buf, ks)
        BY <2>7, <3>1
      <4> QED BY <2>6, <4>1, ConfirmsSource
    <3>2. CASE ~a.ok
      <4>1. c = Each(DiscardKey, relay[e].buf, ks)
        BY <2>7, <3>2
      <4> QED BY <2>6, <4>1, DiscardsSource
    <3> QED BY <3>1, <3>2
  <2>9. PICK r2 : r2 = Settled(e, a.ok, ks)
    OBVIOUS
  <2>10. relay' = r2
    BY <2>1, <2>3, <2>4, <2>9
  <2>11. r2[e].buf = c /\ ~r2[e].active
    BY <1>6, <2>7, <2>9, SettledWhole
  <2>12. r2[e].gen = relay[e].gen /\ r2[e].timers = relay[e].timers
    BY <1>6, <2>7, <2>9, SettledWhole
  <2>13. r2[Far(e)] = relay[Far(e)]
    BY <1>6, <2>7, <2>9, SettledWhole
  <2>14. Waiting(r2[e])
    BY <2>6, <2>8, <2>11, <2>12 DEF Waiting
  <2>15. Carried(e, r2[e], n)
    BY <1>4, ClearWatch
  <2>16. Recalled(e, r2[e], proxy')
    BY <1>6, <2>2, <2>11, <2>12 DEF WatchAt, Recalled
  <2> QED BY <1>4, <2>1, <2>10, <2>13, <2>14, <2>15, <2>16 DEF WatchAt
<1> QED BY <1>1, <1>7, <1>9, <1>10, ResponseEffect

LEMMA CreateWatch ==
  ASSUME Types, NEW e \in Serving, WatchAt(e), NEW l \in Link, ProcessSKeyCreateRequest(l[1], l[2])
  PROVE  WatchAt(e)'
<1>1. PICK m, dst : m = Head(net[l]) /\ dst = Far(m.src)
  OBVIOUS
<1>2. /\ net[l] # <<>> /\ m \in Message /\ m.type = "skey" /\ m.key \in KeyIds
      /\ m.supply \in SupplyIds /\ dst \in End /\ proxy' = proxy
  BY <1>1, CreateEffect
<1>3. PICK n \in Nets : n = Drop(net, l)
  BY <1>2, NetTyped DEF Types
<1>4. Carried(e, relay[e], n) /\ Sole(n)
  BY <1>2, <1>3, DropWatch DEF Types, WatchAt
<1>5. Right(e, relay[e], l, m)
  BY <1>1, <1>2, DropWatch DEF Types, WatchAt
<1>6. m.src = e /\ dst = Far(e) /\ ~Tracked(m) /\ m.type # "relay"
  BY <1>1, <1>2, <1>5 DEF Right, Tracked
<1>7. e \in End /\ dst # e /\ <<l[2], l[1]>> \in Link /\ l[2] \in Node
  BY <1>6, ServingEnds, PathFacts
<1>8. CASE Forwards(l, m, dst)
  <2>1. PICK out : out = <<l[2], NextHop(l[2], dst)>>
    OBVIOUS
  <2>2. out \in Link
    BY <1>2, <1>7, <1>8, <2>1, PathFacts DEF Forwards
  <2>3. net' = Put(n, out, m) /\ relay' = relay
    BY <1>3, <1>8, <2>1 DEF Forwards
  <2>4. Right(e, relay[e], out, m)
    BY <1>6 DEF Right
  <2>5. Carried(e, relay[e], Put(n, out, m)) /\ Sole(Put(n, out, m))
    BY <1>4, <1>6, <2>2, <2>4, PutWatch
  <2> QED BY <1>2, <2>3, <2>5 DEF WatchAt
<1>9. CASE Makes(l, m, dst)
  <2>1. PICK c : c = Supply(relay[dst].buf, m)
    OBVIOUS
  <2>2. Plain(relay[dst].buf) /\ relay[dst] \in EndState
    BY <1>2 DEF Types, Ends
  <2>3. Passive(relay[dst])
    BY <1>6 DEF WatchAt
  <2>4. Reserved(c) = {}
    BY <1>2, <2>1, <2>2, <2>3, SupplyReserves DEF Passive
  <2>5. PICK y : y = [relay[dst] EXCEPT !.buf = c]
    OBVIOUS
  <2>6. /\ y.buf = c /\ y.active = relay[dst].active /\ y.timers = relay[dst].timers
        /\ relay' = [relay EXCEPT ![dst] = y]
    BY <1>9, <2>1, <2>2, <2>5 DEF Makes, EndState
  <2>7. relay'[dst] = y /\ relay'[e] = relay[e]
    BY <1>2, <1>7, <2>6 DEF Types, Ends
  <2>8. Passive(y)
    BY <2>3, <2>4, <2>6 DEF Passive
  <2>9. PICK q : q = [type |-> "created"]
    OBVIOUS
  <2>10. q.type = "created" /\ net' = Put(n, <<l[2], l[1]>>, q)
    BY <1>3, <1>9, <2>9 DEF Makes
  <2>11. Right(e, relay[e], <<l[2], l[1]>>, q) /\ ~Tracked(q)
    BY <2>10 DEF Right, Tracked
  <2>12. Carried(e, relay[e], Put(n, <<l[2], l[1]>>, q)) /\ Sole(Put(n, <<l[2], l[1]>>, q))
    BY <1>4, <1>7, <2>11, PutWatch
  <2> QED BY <1>2, <1>6, <2>7, <2>8, <2>10, <2>12 DEF WatchAt
<1> QED BY <1>1, <1>8, <1>9, CreateEffect

LEMMA CreatedWatch ==
  ASSUME Types, NEW e \in Serving, WatchAt(e), NEW l \in Link,
         ProcessSKeyCreateResponse(l[1], l[2])
  PROVE  WatchAt(e)'
<1>1. PICK m : m = Head(net[l])
  OBVIOUS
<1>2. net[l] # <<>> /\ m \in Message /\ m.type = "created" /\ UNCHANGED <<relay, proxy>>
  BY <1>1, CreatedEffect
<1>3. PICK n \in Nets : n = Drop(net, l)
  BY <1>2, NetTyped DEF Types
<1>4. Carried(e, relay[e], n) /\ Sole(n)
  BY <1>2, <1>3, DropWatch DEF Types, WatchAt
<1>5. \A k : Right(e, relay[e], <<l[2], k>>, m) /\ ~Tracked(m)
  BY <1>2 DEF Right, Tracked
<1>6. \/ net' = n
      \/ \E k : <<l[2], k>> \in Link /\ net' = Put(n, <<l[2], k>>, m)
  BY <1>1, <1>3, CreatedEffect
<1>7. Carried(e, relay[e], net') /\ Sole(net')
  <2>1. CASE net' = n
    BY <1>4, <2>1
  <2>2. ASSUME NEW k, <<l[2], k>> \in Link, net' = Put(n, <<l[2], k>>, m)
        PROVE  Carried(e, relay[e], net') /\ Sole(net')
    <3>1. Carried(e, relay[e], Put(n, <<l[2], k>>, m)) /\ Sole(Put(n, <<l[2], k>>, m))
      BY <1>4, <1>5, <2>2, PutWatch
    <3> QED BY <2>2, <3>1
  <2> QED BY <1>6, <2>1, <2>2
<1> QED BY <1>2, <1>7 DEF WatchAt

LEMMA EncWatch ==
  ASSUME Types, PadInv, NEW e \in Serving, WatchAt(e), NEW f \in End, NEW s \in SupplyIds,
         EncKeys(f, s)
  PROVE  WatchAt(e)'
<1>0. f = e /\ e \in End
  BY ServingEnds DEF EncKeys
<1>1. relay[e].gen < MaxRelays /\ relay[e] \in EndState /\ Plain(relay[e].buf)
  BY <1>0 DEF EncKeys, Types, Ends
<1>2. PICK k \in Candidates(relay[e].buf, 1) :
        Finish(e, [relay[e] EXCEPT !.buf = TransformCandidate(@, k, 1)],
               <<[type |-> "skey", src |-> e, key |-> k, supply |-> s]>>)
  BY <1>0 DEF EncKeys
<1>3. k \in KeyIds /\ relay[e].buf.st[k] = "READY"
  BY <1>2 DEF Candidates, Enough, ReadyKeys
<1>4. PICK c : c = TransformCandidate(relay[e].buf, k, 1)
  OBVIOUS
<1>5. Plain(c) /\ c \in Buffer /\ Keeps(relay[e].buf, c)
  BY <1>1, <1>3, <1>4, PlainTransform DEF Keeps, Plain
<1>6. PICK x : x = [relay[e] EXCEPT !.buf = c]
  OBVIOUS
<1>7. /\ x \in EndState /\ x.buf = c /\ x.gen = relay[e].gen /\ x.active = relay[e].active
      /\ x.pending = relay[e].pending /\ x.timers = relay[e].timers
  BY <1>1, <1>5, <1>6 DEF EndState
<1>8. PICK m : m = [type |-> "skey", src |-> e, key |-> k, supply |-> s]
  OBVIOUS
<1>9. m \in Message /\ m.type = "skey" /\ m.src = e
  BY <1>0, <1>3, <1>8 DEF Message
<1>10. <<m>> \in Seq(Message) /\ AsksRight(e, <<m>>)
  BY <1>9 DEF AsksRight, Tracked
<1>11. Finish(e, x, <<m>>)
  BY <1>2, <1>4, <1>6, <1>8
<1>12. Owned(x.buf) \subseteq Owned(relay[e].buf)
  BY <1>5, <1>7 DEF Keeps, Owned
<1>13. Source(c) /\ Reserved(c) = Reserved(relay[e].buf)
  BY <1>3, <1>4, TransformSource DEF WatchAt, Waiting
<1>14. Waiting(x)
  BY <1>7, <1>13 DEF WatchAt, Waiting
<1> QED BY <1>1, <1>7, <1>10, <1>11, <1>12, <1>14, FinishWatch

LEMMA RefusedWatch ==
  ASSUME Types, PadInv, NEW e \in Serving, WatchAt(e), NEW f \in End, EncKeysRefused(f)
  PROVE  WatchAt(e)'
<1>0. f = e /\ e \in End
  BY ServingEnds DEF EncKeysRefused
<1>1. relay[e].gen < MaxRelays /\ relay[e] \in EndState /\ Finish(e, relay[e], <<>>)
  BY <1>0 DEF EncKeysRefused, Types, Ends
<1>2. PICK asks \in Seq(Message) : asks = <<>>
  BY EmptySeq
<1>3. AsksRight(e, asks)
  BY <1>2 DEF AsksRight
<1>4. Waiting(relay[e])
  BY DEF WatchAt
<1> QED BY <1>1, <1>2, <1>3, <1>4, FinishWatch

LEMMA DecWatch ==
  ASSUME Types, NEW e \in Serving, WatchAt(e), NEW f \in End, NEW s \in SupplyIds, DecKeys(f, s)
  PROVE  WatchAt(e)'
<1>1. PICK c : c = GetSupplyKey(relay[f].buf, s)
  OBVIOUS
<1>2. Plain(relay[f].buf) /\ relay[f] \in EndState /\ e \in End /\ Far(e) \in End /\ Far(e) # e
  BY ServingEnds DEF Types, Ends
<1>3. c.st = relay[f].buf.st /\ (relay[f].buf.supply[s] = {} => c = relay[f].buf)
  BY <1>1, <1>2, PlainTakeSupply DEF SetsSupply, GetSupplyKey
<1>4. PICK y : y = [relay[f] EXCEPT !.buf = c]
  OBVIOUS
<1>5. /\ y.buf = c /\ y.active = relay[f].active /\ y.timers = relay[f].timers
      /\ y.gen = relay[f].gen /\ y.pending = relay[f].pending
      /\ relay' = [relay EXCEPT ![f] = y]
  BY <1>1, <1>2, <1>4 DEF DecKeys, EndState
<1>6. UNCHANGED <<net, proxy>>
  BY DEF DecKeys
<1>7. CASE f = e
  <2>1. c = relay[e].buf
    BY <1>3, <1>7 DEF WatchAt, Waiting, Source
  <2>2. relay'[e] = y /\ relay'[Far(e)] = relay[Far(e)]
    BY <1>2, <1>5, <1>7 DEF Types, Ends
  <2>3. Waiting(y)
    BY <1>5, <1>7, <2>1 DEF WatchAt, Waiting
  <2>4. Carried(e, y, net) /\ Recalled(e, y, proxy)
    BY <1>5, <1>7, SameAttempt DEF WatchAt
  <2> QED BY <1>6, <2>2, <2>3, <2>4 DEF WatchAt
<1>8. CASE f = Far(e)
  <2>1. relay'[f] = y /\ relay'[e] = relay[e]
    BY <1>2, <1>5, <1>8 DEF Types, Ends
  <2>2. Passive(y)
    BY <1>3, <1>5, <1>8 DEF WatchAt, Passive, Reserved
  <2> QED BY <1>6, <1>8, <2>1, <2>2 DEF WatchAt
<1> QED BY <1>7, <1>8, ServingEnds

LEMMA InitWatch == Init => WatchInv
<1> SUFFICES ASSUME Init, NEW e \in Serving PROVE WatchAt(e)
  BY DEF WatchInv
<1>1. e \in End /\ e \in Node /\ Far(e) \in End
  BY ServingEnds
<1>2. relay[e] = Idle /\ relay[Far(e)] = Idle
  BY <1>1 DEF Init
<1>3. /\ Idle.buf = EmptyBuffer /\ Idle.active = FALSE /\ Idle.timers = {}
      /\ Idle.pending = {} /\ Idle.gen = 0
  BY DEF Idle
<1>4. Reserved(EmptyBuffer) = {} /\ EmptyBuffer.bits = 0 /\ EmptyBuffer.failed = FALSE
      /\ \A s \in SupplyIds : EmptyBuffer.supply[s] = {}
  BY DEF Reserved, EmptyBuffer
<1>5. Sound(EmptyBuffer)
  <2>1. EmptyBuffer \in Buffer /\ Shaped(EmptyBuffer)
    BY BoundsNat DEF EmptyBuffer, Buffer, KeyState, Shaped
  <2>2. /\ ReadyCells(EmptyBuffer) = {} /\ SupplyCells(EmptyBuffer) = {}
        /\ NotReadyKeys(EmptyBuffer) = {} /\ NotReadyCells(EmptyBuffer) = {}
    BY DEF EmptyBuffer, ReadyCells, SupplyCells, NotReadyKeys, NotReadyCells, Held, Cell
  <2>3. EmptyBuffer.bits = 0 /\ EmptyBuffer.nrKeys = 0 /\ EmptyBuffer.nrBits = 0
    BY DEF EmptyBuffer
  <2>4. ReadyAmount(EmptyBuffer) = 0
    BY <2>2, FS_EmptySet DEF ReadyAmount
  <2>5. Cardinality(NotReadyKeys(EmptyBuffer)) = 0 /\ Cardinality(NotReadyCells(EmptyBuffer)) = 0
    BY <2>2, FS_EmptySet
  <2> QED BY <2>1, <2>3, <2>4, <2>5 DEF Sound
<1>6. Plain(EmptyBuffer)
  BY BoundsNat DEF EmptyBuffer, Buffer, KeyState, Plain
<1>7. Room(EmptyBuffer)
  <2>1. Cardinality(Reserved(EmptyBuffer)) = 0
    BY <1>4, FS_EmptySet
  <2> QED BY <1>4, <2>1, BoundsNat DEF Room
<1>8. Waiting(relay[e]) /\ Passive(relay[Far(e)])
  BY <1>2, <1>3, <1>4, <1>5, <1>6, <1>7 DEF Waiting, Passive, Source
<1>9. \A l \in Link : Len(net[l]) = 0
  BY DEF Init
<1>10. Carried(e, relay[e], net) /\ Sole(net)
  BY <1>9 DEF Carried, Sole
<1>11. Recalled(e, relay[e], proxy)
  BY <1>1 DEF Init, Recalled
<1> QED BY <1>8, <1>10, <1>11 DEF WatchAt

LEMMA NextWatch ==
  ASSUME LateAnswers = FALSE, Types, PadInv, WatchInv, [Next]_vars
  PROVE  WatchInv'
<1> SUFFICES ASSUME NEW e \in Serving PROVE WatchAt(e)'
  BY DEF WatchInv
<1>0. WatchAt(e)
  BY DEF WatchInv
<1>1. CASE Deliver
  BY <1>0, <1>1, RequestWatch, ResponseWatch, CreateWatch, CreatedWatch DEF Deliver
<1>2. CASE Timeout
  BY <1>0, <1>2, TimeoutWatch DEF Timeout
<1>3. ASSUME NEW l \in Link, Break(l) PROVE WatchAt(e)'
  <2>1. net' = [net EXCEPT ![l] = <<>>] /\ UNCHANGED <<relay, proxy>>
    BY <1>3 DEF Break
  <2>2. Carried(e, relay[e], [net EXCEPT ![l] = <<>>]) /\ Sole([net EXCEPT ![l] = <<>>])
    BY <1>0, BreakWatch DEF Types, WatchAt
  <2> QED BY <1>0, <2>1, <2>2 DEF WatchAt
<1>4. ASSUME NEW l \in Link, NEW k \in KeyIds, LocalKey(l, k) PROVE WatchAt(e)'
  BY <1>0, <1>4 DEF LocalKey, WatchAt
<1>5. CASE UNCHANGED vars
  BY <1>0, <1>5 DEF vars, WatchAt
<1> QED BY <1>0, <1>1, <1>2, <1>3, <1>4, <1>5, EncWatch, RefusedWatch, DecWatch DEF Next

(* When no answer is later than the watchdog, the serving end has an       *)
(* attempt on its books only while the watchdog of that attempt is         *)
(* scheduled, and a key is reserved exactly while the end waits on it, on a*)
(* path of any length and whatever is lost, refused or given up.           *)
THEOREM WatchedHolds ==
  ASSUME LateAnswers = FALSE
  PROVE  Spec => []Watched
<1>1. Init => Types /\ PadInv /\ WatchInv
  BY InitTypes, InitPads, InitWatch
<1>2. Types /\ PadInv /\ WatchInv /\ [Next]_vars => (Types /\ PadInv /\ WatchInv)'
  BY NextTypes, NextPads, NextWatch
<1>3. WatchInv => Watched
  BY WatchImplies
<1> QED BY <1>1, <1>2, <1>3, PTL DEF Spec

(* The buffer of the serving end is stopped by no assertion: its counters  *)
(* agree with its content, so that LogUpdate and MarkKey never fail there. *)
SourceRuns == \A e \in Serving : ~relay[e].buf.failed

THEOREM SourceRunsHolds ==
  ASSUME LateAnswers = FALSE
  PROVE  Spec => []SourceRuns
<1>1. Init => Types /\ PadInv /\ WatchInv
  BY InitTypes, InitPads, InitWatch
<1>2. Types /\ PadInv /\ WatchInv /\ [Next]_vars => (Types /\ PadInv /\ WatchInv)'
  BY NextTypes, NextPads, NextWatch
<1>3. WatchInv => SourceRuns
  BY DEF WatchInv, WatchAt, Waiting, Source, SourceRuns
<1> QED BY <1>1, <1>2, <1>3, PTL DEF Spec

-----------------------------------------------------------------------------
(* What is on its way, wherever it is in the queue of its link.            *)

Sent(n, l, m) == \E i \in 1 .. Len(n[l]) : n[l][i] = m

Fewer(n, q) == \A k \in Link : \A m : Sent(q, k, m) => Sent(n, k, m)

Gets(n, q, l, m) == \A k \in Link : \A a : Sent(q, k, a) <=> Sent(n, k, a) \/ (k = l /\ a = m)

Loses(n, q, l, m) ==
  /\ Fewer(n, q)
  /\ \A k \in Link : \A a : Sent(n, k, a) => Sent(q, k, a) \/ (k = l /\ a = m)

LEMMA SentTyped ==
  ASSUME NEW n \in Nets, NEW l \in Link, NEW m, Sent(n, l, m)
  PROVE  m \in Message
<1>1. n[l] \in Seq(Message)
  BY DEF Nets
<1> QED BY <1>1 DEF Sent

LEMMA SentHead ==
  ASSUME NEW n \in Nets, NEW l \in Link, n[l] # <<>>
  PROVE  Sent(n, l, Head(n[l]))
<1>1. n[l] \in Seq(Message)
  BY DEF Nets
<1>2. Head(n[l]) = n[l][1] /\ 1 \in 1 .. Len(n[l])
  BY <1>1
<1> QED BY <1>2 DEF Sent

LEMMA SentDrop ==
  ASSUME NEW n \in Nets, NEW l \in Link, n[l] # <<>>
  PROVE  Loses(n, Drop(n, l), l, Head(n[l]))
<1>1. n[l] \in Seq(Message)
  BY DEF Nets
<1>2. Fewer(n, Drop(n, l))
  <2> SUFFICES ASSUME NEW k \in Link, NEW i \in 1 .. Len(Drop(n, l)[k])
               PROVE  Sent(n, k, Drop(n, l)[k][i])
    BY DEF Fewer, Sent
  <2>1. PICK j \in 1 .. Len(n[k]) : Drop(n, l)[k][i] = n[k][j]
    BY DropAt
  <2> QED BY <2>1 DEF Sent
<1>3. ASSUME NEW k \in Link, NEW i \in 1 .. Len(n[k])
      PROVE  Sent(Drop(n, l), k, n[k][i]) \/ (k = l /\ n[k][i] = Head(n[l]))
  <2>1. CASE k # l
    <3>1. Drop(n, l)[k] = n[k]
      BY <2>1 DEF Drop, Nets
    <3> QED BY <3>1 DEF Sent
  <2>2. CASE k = l /\ i = 1
    BY <1>1, <2>2
  <2>3. CASE k = l /\ i # 1
    <3>1. Drop(n, l)[l] = Tail(n[l])
      BY DEF Drop, Nets
    <3>2. Len(Tail(n[l])) = Len(n[l]) - 1 /\ \A x \in 1 .. Len(n[l]) - 1 : Tail(n[l])[x] = n[l][x + 1]
      BY <1>1, HeadTailProperties
    <3>3. Len(n[l]) \in Nat /\ i \in 1 .. Len(n[l])
      BY <1>1, <2>3
    <3>4. PICK x \in 1 .. Len(n[l]) - 1 : i = x + 1
      BY <2>3, <3>3
    <3>5. Drop(n, l)[l][x] = n[l][i] /\ x \in 1 .. Len(Drop(n, l)[l])
      BY <3>1, <3>2, <3>4
    <3> QED BY <2>3, <3>5 DEF Sent
  <2> QED BY <2>1, <2>2, <2>3
<1> QED BY <1>2, <1>3 DEF Loses, Sent

LEMMA SentPut ==
  ASSUME NEW n \in Nets, NEW l \in Link, NEW m
  PROVE  Gets(n, Put(n, l, m), l, m)
<1>1. n[l] \in Seq(Message)
  BY DEF Nets
<1>2. ASSUME NEW k \in Link, NEW i \in 1 .. Len(Put(n, l, m)[k])
      PROVE  Sent(n, k, Put(n, l, m)[k][i]) \/ (k = l /\ Put(n, l, m)[k][i] = m)
  BY <1>2, PutAt DEF Sent
<1>3. ASSUME NEW k \in Link, NEW i \in 1 .. Len(n[k])
      PROVE  Sent(Put(n, l, m), k, n[k][i])
  <2>1. CASE k # l
    <3>1. Put(n, l, m)[k] = n[k]
      BY <2>1 DEF Put, Nets
    <3> QED BY <3>1 DEF Sent
  <2>2. CASE k = l
    <3>1. Put(n, l, m)[k] = Append(n[l], m)
      BY <2>2 DEF Put, Nets
    <3>2. i \in 1 .. Len(Append(n[l], m)) /\ Append(n[l], m)[i] = n[l][i]
      BY <1>1, <2>2
    <3> QED BY <2>2, <3>1, <3>2 DEF Sent
  <2> QED BY <2>1, <2>2
<1>4. Sent(Put(n, l, m), l, m)
  <2>1. Put(n, l, m)[l] = Append(n[l], m)
    BY DEF Put, Nets
  <2>2. Len(n[l]) + 1 \in 1 .. Len(Append(n[l], m)) /\ Append(n[l], m)[Len(n[l]) + 1] = m
    BY <1>1
  <2> QED BY <2>1, <2>2 DEF Sent
<1>5. PICK q : q = Put(n, l, m)
  OBVIOUS
<1>6. \A k \in Link : \A a : Sent(q, k, a) => Sent(n, k, a) \/ (k = l /\ a = m)
  <2> SUFFICES ASSUME NEW k \in Link, NEW i \in 1 .. Len(q[k])
               PROVE  Sent(n, k, q[k][i]) \/ (k = l /\ q[k][i] = m)
    BY DEF Sent
  <2> QED BY <1>2, <1>5
<1>7. \A k \in Link : \A a : Sent(n, k, a) => Sent(q, k, a)
  <2> SUFFICES ASSUME NEW k \in Link, NEW i \in 1 .. Len(n[k])
               PROVE  Sent(q, k, n[k][i])
    BY DEF Sent
  <2> QED BY <1>3, <1>5
<1>8. Sent(q, l, m)
  BY <1>4, <1>5
<1>9. Gets(n, q, l, m)
  BY <1>6, <1>7, <1>8 DEF Gets
<1> QED BY <1>5, <1>9

LEMMA SentBreak ==
  ASSUME NEW n \in Nets, NEW l \in Link
  PROVE  Fewer(n, [n EXCEPT ![l] = <<>>])
<1>1. PICK q : q = [n EXCEPT ![l] = <<>>]
  OBVIOUS
<1>2. \A k \in Link : \A i \in 1 .. Len(q[k]) : k # l /\ q[k] = n[k]
  BY <1>1 DEF Nets
<1>3. Fewer(n, q)
  BY <1>2 DEF Fewer, Sent
<1> QED BY <1>1, <1>3

LEMMA SentCarried ==
  ASSUME NEW n \in Nets, NEW e, NEW x, Carried(e, x, n)
  PROVE  \A l \in Link : \A m : Sent(n, l, m) => Right(e, x, l, m)
  BY DEF Carried, Sent

-----------------------------------------------------------------------------
(* The buffer of the destination: every key in it is READY and one unit    *)
(* long.                                                                   *)

Whole(b) == \A k \in KeyIds : b.st[k] \in {"NONE", "READY"} /\ (Held(b, k) => b.hi[k] = 1)

LEMMA SameHi ==
  ASSUME NEW b, Plain(b), NEW n \in Nat
  PROVE  /\ Stop(b).hi = b.hi /\ LogAdd(b, n).hi = b.hi /\ LogSub(b, n).hi = b.hi
<1>1. ASSUME NEW v, NEW w PROVE [b EXCEPT !.failed = v].hi = b.hi /\ [b EXCEPT !.bits = w].hi = b.hi
                                /\ [[b EXCEPT !.bits = w] EXCEPT !.failed = v].hi = b.hi
  BY PlainFields
<1>2. Stop(b).hi = b.hi
  BY <1>1 DEF Stop
<1>3. PICK x : x = b.bits + n
  OBVIOUS
<1>4. PICK y : y = IF n > b.bits THEN b.bits ELSE b.bits - n
  OBVIOUS
<1>5. LogAdd(b, n) = Checked([b EXCEPT !.bits = x])
  BY <1>3 DEF LogAdd
<1>6. LogSub(b, n) = Checked([b EXCEPT !.bits = y])
  BY <1>4 DEF LogSub
<1>7. ASSUME NEW z PROVE Checked([b EXCEPT !.bits = z]).hi = b.hi
  BY <1>1 DEF Checked, Stop
<1> QED BY <1>2, <1>5, <1>6, <1>7

LEMMA SetKeyHi ==
  ASSUME NEW b, Plain(b), NEW k \in KeyIds, NEW s \in KeyState, NEW h \in 0 .. MaxLen
  PROVE  SetKey(b, k, s, 0, h).hi = [b.hi EXCEPT ![k] = h]
<1>1. PICK st, lo, hi : /\ st = [b.st EXCEPT ![k] = s] /\ lo = [b.lo EXCEPT ![k] = 0]
                        /\ hi = [b.hi EXCEPT ![k] = h]
  OBVIOUS
<1>2. SetKey(b, k, s, 0, h) = [b EXCEPT !.st = st, !.lo = lo, !.hi = hi]
  BY <1>1 DEF SetKey, Plain, Buffer
<1>3. SetKey(b, k, s, 0, h) = [ st |-> st, lo |-> lo, hi |-> hi, supply |-> b.supply,
            bits |-> b.bits, nrKeys |-> b.nrKeys, nrBits |-> b.nrBits, failed |-> b.failed ]
  BY <1>2, PlainFields, ZenonT(60)
<1>4. SetKey(b, k, s, 0, h).hi = hi
  BY <1>3
<1> QED BY <1>1, <1>4

LEMMA WholeStore ==
  ASSUME NEW b, Plain(b), Whole(b), NEW k \in KeyIds, NEW d, d = StoreKey(b, k, 1)
  PROVE  Whole(d)
<1>1. 1 \in 0 .. MaxLen /\ "READY" \in KeyState /\ 1 \in Nat
  BY BoundsNat DEF KeyState
<1>2. PICK c : c = Insert(b, k, 1)
  OBVIOUS
<1>3. CASE Held(b, k)
  <2>1. c = b
    BY <1>2, <1>3 DEF Insert
  <2>2. LogAdd(b, 1).st = b.st /\ LogAdd(b, 1).hi = b.hi
    BY <1>1, PlainLog, SameHi
  <2>3. d = b \/ d = LogAdd(b, 1)
    BY <1>2, <2>1 DEF StoreKey
  <2> QED BY <2>2, <2>3 DEF Whole, Held
<1>4. CASE ~Held(b, k)
  <2>1. c = SetKey(b, k, "READY", 0, 1)
    BY <1>2, <1>4 DEF Insert
  <2>2. Plain(c) /\ c.st = [b.st EXCEPT ![k] = "READY"] /\ c.hi = [b.hi EXCEPT ![k] = 1]
    BY <1>1, <2>1, PlainSet, SetKeyHi
  <2>3. LogAdd(c, 1).st = c.st /\ LogAdd(c, 1).hi = c.hi
    BY <1>1, <2>2, PlainLog, SameHi
  <2>4. d = b \/ d = LogAdd(c, 1)
    BY <1>2 DEF StoreKey
  <2>5. Whole(LogAdd(c, 1))
    BY <2>2, <2>3, PlainFields DEF Whole, Held
  <2> QED BY <2>4, <2>5
<1> QED BY <1>3, <1>4

LEMMA WholeStores ==
  ASSUME NEW b, Plain(b), Whole(b), NEW ks \in SUBSET KeyIds,
         NEW c, c = Each(LAMBDA x, y : StoreKey(x, y, 1), b, ks)
  PROVE  Whole(c)
<1> DEFINE R == {p \in (SUBSET ks) \X Buffer : Whole(p[2])}
<1>1. <<{}, b>> \in R
  BY DEF Plain
<1>2. ASSUME NEW s \in SUBSET ks, NEW k \in ks, NEW a, Plain(a), <<s, a>> \in R
      PROVE  <<s \cup {k}, StoreKey(a, k, 1)>> \in R
  <2>1. PICK d : d = StoreKey(a, k, 1)
    OBVIOUS
  <2>2. Whole(d) /\ Plain(d)
    BY <1>2, <2>1, WholeStore, PlainOperations DEF Gains
  <2> QED BY <2>1, <2>2 DEF Plain
<1>3. <<ks, c>> \in R
  <2> HIDE DEF R
  <2> QED BY <1>1, <1>2, EachStore
<1> QED BY <1>3

(* A key of the destination is used up by the supply key made of it.       *)
UsesUp(b, c, k, s) ==
  /\ Held(b, k) /\ ~Held(c, k) /\ c.supply = [b.supply EXCEPT ![s] = {<<k, 1>>}]
  /\ Owned(c) = Owned(b) \ {k}

LEMMA EraseWhole ==
  ASSUME NEW b, Plain(b), Whole(b), NEW k \in KeyIds, Held(b, k), NEW c, c = HalfKey(b, k, 1)
  PROVE  /\ Plain(c) /\ Whole(c) /\ c = GetKey(b, k, TRUE) /\ b.st[k] = "READY"
         /\ c.st = [b.st EXCEPT ![k] = "NONE"] /\ c.supply = b.supply
<1>1. b.st[k] = "READY" /\ KeyLen(b, k) = 1
  BY PlainFields DEF Whole, Held, KeyLen
<1>2. c = GetKey(b, k, TRUE)
  BY <1>1 DEF HalfKey
<1>3. PICK d : d = Erase(b, k)
  OBVIOUS
<1>4. "NONE" \in KeyState /\ 0 \in 0 .. MaxLen /\ 1 \in Nat
  BY BoundsNat DEF KeyState
<1>5. Plain(d) /\ d.st = [b.st EXCEPT ![k] = "NONE"] /\ d.hi = [b.hi EXCEPT ![k] = 0]
      /\ d.supply = b.supply
  BY <1>3, <1>4, PlainSet, SetKeyHi DEF Erase
<1>6. c = LogSub(d, 1)
  BY <1>1, <1>2, <1>3 DEF GetKey
<1>7. Plain(LogSub(d, 1)) /\ LogSub(d, 1).st = d.st /\ LogSub(d, 1).supply = d.supply
  <2>1. Plain(d) /\ 1 \in Nat
    BY <1>4, <1>5
  <2> QED BY <2>1, PlainLog
<1>8. LogSub(d, 1).hi = d.hi
  <2>1. Plain(d) /\ 1 \in Nat
    BY <1>4, <1>5
  <2> QED BY <2>1, SameHi
<1>9. Plain(c) /\ c.st = [b.st EXCEPT ![k] = "NONE"] /\ c.hi = [b.hi EXCEPT ![k] = 0]
      /\ c.supply = b.supply
  BY <1>5, <1>6, <1>7, <1>8
<1>10. Whole(c)
  BY <1>9, PlainFields DEF Whole, Held
<1> QED BY <1>1, <1>2, <1>9, <1>10

LEMMA WholeSupply ==
  ASSUME NEW b, Plain(b), Whole(b), NEW m, m.key \in KeyIds, m.supply \in SupplyIds,
         NEW c, c = Supply(b, m)
  PROVE  /\ Plain(c) /\ Whole(c)
         /\ \/ ~Held(b, m.key) /\ c.st = b.st /\ c.supply = b.supply
            \/ UsesUp(b, c, m.key, m.supply)
<1>1. PICK k \in KeyIds, s \in SupplyIds : k = m.key /\ s = m.supply
  OBVIOUS
<1>2. PICK cells \in SUBSET Cell : cells = {<<k, 1>>}
  <2>1. <<k, 1>> \in Cell
    BY BoundsNat DEF Cell
  <2> QED BY <2>1
<1>3. CASE ~Held(b, k)
  <2>1. c = Stop(b)
    BY <1>1, <1>3 DEF Supply
  <2>2. Plain(c) /\ c.st = b.st /\ c.supply = b.supply /\ c.hi = b.hi
    <3>1. 0 \in Nat
      OBVIOUS
    <3> QED BY <2>1, <3>1, PlainStop, SameHi
  <2>3. Whole(c)
    BY <2>2 DEF Whole, Held
  <2> QED BY <1>1, <1>3, <2>2, <2>3
<1>4. CASE Held(b, k)
  <2>1. PICK d : d = HalfKey(b, k, 1)
    OBVIOUS
  <2>2. Plain(d) /\ Whole(d) /\ d.st = [b.st EXCEPT ![k] = "NONE"] /\ d.supply = b.supply
    BY <1>4, <2>1, EraseWhole
  <2>3. c = StoreSupplyKey(d, s, cells)
    BY <1>1, <1>2, <1>4, <2>1 DEF Supply
  <2>4. SetsSupply(d, c, s, cells)
    BY <2>2, <2>3, PlainStoreSupply
  <2>5. c.hi = d.hi
    <3>1. PICK a : a = [d EXCEPT !.supply[s] = cells]
      OBVIOUS
    <3>2. Plain(a) /\ a.hi = d.hi
      <4>1. Plain(a)
        BY <2>2, <3>1, PlainSupply DEF SetsSupply
      <4>2. PICK su : su = [d.supply EXCEPT ![s] = cells]
        OBVIOUS
      <4>3. a = [d EXCEPT !.supply = su]
        BY <3>1, <4>2
      <4>4. a.hi = d.hi
        BY <2>2, <4>3, PlainFields
      <4> QED BY <4>1, <4>4
    <3>3. Cardinality(cells) \in Nat
      BY CellsFinite, FS_Subset, FS_CardinalityType
    <3>4. c = LogAdd(a, Cardinality(cells))
      BY <2>3, <3>1 DEF StoreSupplyKey
    <3> QED BY <3>2, <3>3, <3>4, SameHi
  <2>6. Plain(c) /\ c.st = d.st /\ c.supply = [d.supply EXCEPT ![s] = cells]
    BY <2>4 DEF SetsSupply
  <2>7. Whole(c)
    BY <2>2, <2>5, <2>6 DEF Whole, Held
  <2>8. UsesUp(b, c, k, s)
    <3>1. c.st = [b.st EXCEPT ![k] = "NONE"] /\ c.supply = [b.supply EXCEPT ![s] = {<<k, 1>>}]
      BY <1>2, <2>2, <2>6
    <3>2. Owned(c) = Owned(b) \ {k} /\ ~Held(c, k)
      BY <3>1, PlainFields DEF Owned, Held
    <3> QED BY <1>4, <3>1, <3>2 DEF UsesUp
  <2> QED BY <1>1, <2>6, <2>7, <2>8
<1> QED BY <1>3, <1>4

-----------------------------------------------------------------------------
(* What the two ends and the messages between them agree on.               *)

KeysOf(gv) == {k \in KeyIds : \E s \in SupplyIds : \E c \in gv[s] : c[1] = k}

(* The destination knows a key_ID by what enc_keys gave for it, and no key *)
(* that was given is left at either end.                                   *)
Agrees(own, b, gv, fe) ==
  /\ Whole(b)
  /\ \A s \in SupplyIds : b.supply[s] \in {{}, gv[s]} /\ fe[s] \in {{}, gv[s]}
  /\ \A s \in SupplyIds : gv[s] # {} => \E k \in KeyIds : gv[s] = {<<k, 1>>}
  /\ KeysOf(gv) \cap own = {}
  /\ KeysOf(b.supply) \cap Owned(b) = {} /\ KeysOf(fe) \cap Owned(b) = {}

Unused(gv, en) == \A l \in Link : KeysOf(gv) \cap en[l] = {}

(* It runs, it has what the source may serve, and its amount is no more    *)
(* than the keys it has, relayed or supplied.                              *)
Stocks(c, b) ==
  /\ Sound(b) /\ ~b.failed
  /\ Owned(c) \ Reserved(c) \subseteq Owned(b)
  /\ b.bits <= Cardinality(Owned(b) \cup KeysOf(b.supply))

Apt(pending, b, gv, fe, m) ==
  /\ m.type = "skey" => /\ gv[m.supply] = {<<m.key, 1>>} /\ Held(b, m.key)
                        /\ b.supply[m.supply] = {} /\ fe[m.supply] = {}
  /\ m.type = "relay" => m.keys = pending /\ m.keys \cap KeysOf(gv) = {} /\ m.keys \cap Owned(b) = {}
  /\ m.type = "relayed" => (m.ok => pending \subseteq Owned(b))

Suits(pending, b, gv, fe, n) ==
  \A l \in Link : \A m : Sent(n, l, m) => Apt(pending, b, gv, fe, m)

Keyed(n) ==
  \A l, k \in Link : \A i \in 1 .. Len(n[l]), j \in 1 .. Len(n[k]) :
    n[l][i].type = "skey" /\ n[k][j].type = "skey" /\ n[l][i].key = n[k][j].key => l = k /\ i = j

Requests(n, s) == \E l \in Link : \E m : Sent(n, l, m) /\ m.type = "skey" /\ m.supply = s

Asked(b, gv, fe, n, ls) ==
  \A s \in SupplyIds : gv[s] # {} /\ b.supply[s] = {} /\ fe[s] = {} => ls > 0 \/ Requests(n, s)

(* The way back of an answer: every node behind it has noted the request.  *)
Behind(e, k, j) == IF e = 0 THEN k <= j ELSE k >= j

Tracks(px, k, req) == \E p \in px[k] : p.req = req

Routed(e, px, l, m) ==
  /\ m.type = "relay" => \A k \in Node : Behind(e, k, l[1]) => Tracks(px, k, m.req)
  /\ m.type = "relayed" => /\ l[1] # e /\ l[2] = NextHop(l[1], e)
                           /\ \A k \in Node : Behind(e, k, l[2]) => Tracks(px, k, m.req)

Routes(e, px, n) == \A l \in Link : \A m : Sent(n, l, m) => Routed(e, px, l, m)

Returns(e, px) == \A j \in Node : j # e => \A p \in px[j] : p.prev = NextHop(j, e)

ServeAt(e) ==
  /\ Agrees(Owned(relay[e].buf), relay[Far(e)].buf, served[e], fetched[Far(e)])
  /\ Unused(served[e], enc)
  /\ Stocks(relay[e].buf, relay[Far(e)].buf)
  /\ Suits(relay[e].pending, relay[Far(e)].buf, served[e], fetched[Far(e)], net)
  /\ Keyed(net)
  /\ Asked(relay[Far(e)].buf, served[e], fetched[Far(e)], net, lost)
  /\ Routes(e, proxy, net) /\ Returns(e, proxy) /\ halted = {}

ServeInv == \A e \in Serving : ServeAt(e)

-----------------------------------------------------------------------------
(* The messages that are left, and the one that is new.                    *)

LEMMA FewerSuits ==
  ASSUME NEW n, NEW q, Fewer(n, q)
  PROVE  /\ \A pending, b, gv, fe : Suits(pending, b, gv, fe, n) => Suits(pending, b, gv, fe, q)
         /\ \A e, px : Routes(e, px, n) => Routes(e, px, q)
  BY DEF Fewer, Suits, Routes

LEMMA GetsSuits ==
  ASSUME NEW n, NEW q, NEW l, NEW m, Gets(n, q, l, m)
  PROVE  /\ \A pending, b, gv, fe :
              Suits(pending, b, gv, fe, n) /\ Apt(pending, b, gv, fe, m) => Suits(pending, b, gv, fe, q)
         /\ \A e, px : Routes(e, px, n) /\ Routed(e, px, l, m) => Routes(e, px, q)
         /\ \A b, gv, fe, ls : Asked(b, gv, fe, n, ls) => Asked(b, gv, fe, q, ls)
<1>1. \A pending, b, gv, fe :
        Suits(pending, b, gv, fe, n) /\ Apt(pending, b, gv, fe, m) => Suits(pending, b, gv, fe, q)
  BY DEF Gets, Suits
<1>2. \A e, px : Routes(e, px, n) /\ Routed(e, px, l, m) => Routes(e, px, q)
  BY DEF Gets, Routes
<1>3. \A s : Requests(n, s) => Requests(q, s)
  BY DEF Gets, Requests
<1>4. \A b, gv, fe, ls : Asked(b, gv, fe, n, ls) => Asked(b, gv, fe, q, ls)
  BY <1>3 DEF Asked
<1> QED BY <1>1, <1>2, <1>4

(* Losing what is no request for a supply key loses no request.            *)
LEMMA LosesAsked ==
  ASSUME NEW n, NEW q, NEW l, NEW m, Loses(n, q, l, m), m.type # "skey"
  PROVE  \A b, gv, fe, ls : Asked(b, gv, fe, n, ls) => Asked(b, gv, fe, q, ls)
<1>1. \A s : Requests(n, s) => Requests(q, s)
  BY DEF Loses, Requests
<1> QED BY <1>1 DEF Asked

LEMMA ClearSent ==
  ASSUME NEW n, Clear(n), NEW l \in Link, NEW m, Sent(n, l, m)
  PROVE  ~Tracked(m)
  BY DEF Clear, Sent

LEMMA DropKeyed ==
  ASSUME NEW n \in Nets, NEW l \in Link, n[l] # <<>>, Keyed(n)
  PROVE  /\ Keyed(Drop(n, l))
         /\ Head(n[l]).type = "skey" =>
              \A k \in Link : \A a : Sent(Drop(n, l), k, a) /\ a.type = "skey" => a.key # Head(n[l]).key
<1>1. Head(n[l]) = n[l][1] /\ Len(n[l]) \in Nat /\ 1 \in 1 .. Len(n[l])
  <2>1. n[l] \in Seq(Message)
    BY DEF Nets
  <2> QED BY <2>1
<1>2. ASSUME NEW k \in Link, NEW q \in Link, NEW i \in 1 .. Len(Drop(n, l)[k]),
             NEW j \in 1 .. Len(Drop(n, l)[q]),
             Drop(n, l)[k][i].type = "skey", Drop(n, l)[q][j].type = "skey",
             Drop(n, l)[k][i].key = Drop(n, l)[q][j].key
      PROVE  k = q /\ i = j
  <2>1. PICK x : x = (IF k = l THEN i + 1 ELSE i)
    OBVIOUS
  <2>2. x \in 1 .. Len(n[k]) /\ Drop(n, l)[k][i] = n[k][x]
    BY <2>1, DropAt
  <2>3. PICK y : y = (IF q = l THEN j + 1 ELSE j)
    OBVIOUS
  <2>4. y \in 1 .. Len(n[q]) /\ Drop(n, l)[q][j] = n[q][y]
    BY <2>3, DropAt
  <2>5. k = q /\ x = y
    BY <1>2, <2>2, <2>4 DEF Keyed
  <2>6. i \in Int /\ j \in Int
    OBVIOUS
  <2> QED BY <2>1, <2>3, <2>5, <2>6
<1>3. ASSUME Head(n[l]).type = "skey", NEW k \in Link, NEW i \in 1 .. Len(Drop(n, l)[k]),
             Drop(n, l)[k][i].type = "skey"
      PROVE  Drop(n, l)[k][i].key # Head(n[l]).key
  <2>1. PICK x : x = (IF k = l THEN i + 1 ELSE i)
    OBVIOUS
  <2>2. x \in 1 .. Len(n[k]) /\ Drop(n, l)[k][i] = n[k][x] /\ (k # l \/ x # 1)
    BY <2>1, DropAt
  <2> QED BY <1>1, <1>3, <2>2 DEF Keyed
<1>4. Keyed(Drop(n, l))
  BY <1>2 DEF Keyed
<1> QED BY <1>3, <1>4 DEF Sent

LEMMA PutKeyed ==
  ASSUME NEW n \in Nets, NEW l \in Link, NEW m, Keyed(n),
         m.type = "skey" => \A k \in Link : \A a : Sent(n, k, a) /\ a.type = "skey" => a.key # m.key
  PROVE  Keyed(Put(n, l, m))
<1> SUFFICES ASSUME NEW k \in Link, NEW q \in Link, NEW i \in 1 .. Len(Put(n, l, m)[k]),
                    NEW j \in 1 .. Len(Put(n, l, m)[q]),
                    Put(n, l, m)[k][i].type = "skey", Put(n, l, m)[q][j].type = "skey",
                    Put(n, l, m)[k][i].key = Put(n, l, m)[q][j].key
             PROVE  k = q /\ i = j
  BY DEF Keyed
<1>1. \/ i \in 1 .. Len(n[k]) /\ Put(n, l, m)[k][i] = n[k][i] /\ Sent(n, k, n[k][i])
      \/ k = l /\ i = Len(n[l]) + 1 /\ Put(n, l, m)[k][i] = m
  BY PutAt DEF Sent
<1>2. \/ j \in 1 .. Len(n[q]) /\ Put(n, l, m)[q][j] = n[q][j] /\ Sent(n, q, n[q][j])
      \/ q = l /\ j = Len(n[l]) + 1 /\ Put(n, l, m)[q][j] = m
  BY PutAt DEF Sent
<1>3. CASE i \in 1 .. Len(n[k]) /\ Put(n, l, m)[k][i] = n[k][i] /\ Sent(n, k, n[k][i])
  BY <1>2, <1>3 DEF Keyed
<1>4. CASE k = l /\ i = Len(n[l]) + 1 /\ Put(n, l, m)[k][i] = m
  BY <1>2, <1>4
<1> QED BY <1>1, <1>3, <1>4

LEMMA BreakKeyed ==
  ASSUME NEW n \in Nets, NEW l \in Link, Keyed(n), NEW q, q = [n EXCEPT ![l] = <<>>]
  PROVE  Keyed(q)
<1>1. \A k \in Link : \A i \in 1 .. Len(q[k]) : k # l /\ q[k] = n[k]
  BY DEF Nets
<1> QED BY <1>1 DEF Keyed

-----------------------------------------------------------------------------
(* The operations on a sound buffer with room for them.                    *)

LEMMA LogBits ==
  ASSUME NEW b, Plain(b), NEW n \in Nat
  PROVE  /\ LogAdd(b, n).bits = b.bits + n
         /\ n <= b.bits => LogSub(b, n).bits = b.bits - n
<1>1. ASSUME NEW v, NEW w PROVE [b EXCEPT !.bits = w].bits = w
                                /\ [[b EXCEPT !.bits = w] EXCEPT !.failed = v].bits = w
  BY PlainFields
<1>2. PICK x : x = b.bits + n
  OBVIOUS
<1>3. PICK y : y = IF n > b.bits THEN b.bits ELSE b.bits - n
  OBVIOUS
<1>4. LogAdd(b, n) = Checked([b EXCEPT !.bits = x])
  BY <1>2 DEF LogAdd
<1>5. LogSub(b, n) = Checked([b EXCEPT !.bits = y])
  BY <1>3 DEF LogSub
<1>6. ASSUME NEW z PROVE Checked([b EXCEPT !.bits = z]).bits = z
  BY <1>1 DEF Checked, Stop
<1>7. n <= b.bits => y = b.bits - n
  BY <1>3, PlainFields
<1> QED BY <1>2, <1>4, <1>5, <1>6, <1>7

LEMMA OwnedFinite ==
  ASSUME NEW S \in SUBSET KeyIds
  PROVE  IsFiniteSet(S) /\ Cardinality(S) \in Nat
  BY KeyIdsFinite, FS_Subset, FS_CardinalityType

StoresAll(b, ks) == Each(LAMBDA x, y : StoreKey(x, y, 1), b, ks)

LEMMA StoresSound ==
  ASSUME NEW b, Plain(b), Sound(b), ~b.failed, NEW ks \in SUBSET KeyIds, ks \cap Owned(b) = {},
         b.bits + Cardinality(ks) <= Mmax, NEW c, c = StoresAll(b, ks)
  PROVE  Sound(c) /\ ~c.failed /\ Owned(c) = Owned(b) \cup ks /\ c.bits = b.bits + Cardinality(ks)
<1> DEFINE R == {p \in (SUBSET ks) \X Buffer :
                   /\ Sound(p[2]) /\ p[2].failed = b.failed /\ Owned(p[2]) = Owned(b) \cup p[1]
                   /\ p[2].bits = b.bits + Cardinality(p[1])}
<1>1. <<{}, b>> \in R
  <2>1. Cardinality({}) = 0 /\ b \in Buffer /\ b.bits \in Nat
    BY PlainFields, FS_EmptySet DEF Plain
  <2>2. b.bits = b.bits + Cardinality({}) /\ Owned(b) = Owned(b) \cup {}
    BY <2>1
  <2>3. {} \in SUBSET ks
    OBVIOUS
  <2> QED BY <2>1, <2>2, <2>3
<1>2. ASSUME NEW s \in SUBSET ks, NEW k \in ks, NEW a, k \notin s, Plain(a), <<s, a>> \in R
      PROVE  <<s \cup {k}, StoreKey(a, k, 1)>> \in R
  <2>1. PICK d : d = StoreKey(a, k, 1)
    OBVIOUS
  <2>2. /\ Sound(a) /\ a.failed = b.failed /\ Owned(a) = Owned(b) \cup s /\ a.bits = b.bits + Cardinality(s)
    BY <1>2
  <2>3. a.st[k] = "NONE"
    BY <1>2, <2>2 DEF Owned, Held
  <2>4. Cardinality(s \cup {k}) = Cardinality(s) + 1 /\ Cardinality(s) \in Nat
        /\ Cardinality(s \cup {k}) <= Cardinality(ks)
    <3>1. s \cup {k} \in SUBSET ks /\ IsFiniteSet(ks) /\ IsFiniteSet(s)
      BY OwnedFinite
    <3> QED BY <1>2, <3>1, FS_AddElement, FS_Subset, FS_CardinalityType
  <2>5. Fits(a, 1)
    BY <2>2, <2>4, PlainFields, OwnedFinite, BoundsNat DEF Fits
  <2>6. 1 \in 1 .. MaxLen /\ 1 \in Nat
    BY BoundsNat
  <2>7. d = Upd(a, k, "READY", 0, 1, a.bits + 1, a.nrKeys, a.nrBits) /\ Sound(d)
    BY <2>1, <2>2, <2>3, <2>5, <2>6, StoreSound
  <2>8. d.st = [a.st EXCEPT ![k] = "READY"] /\ d.bits = a.bits + 1 /\ d.failed = a.failed
    BY <2>7 DEF Upd
  <2>9. Owned(d) = Owned(b) \cup (s \cup {k})
    BY <1>2, <2>2, <2>8, PlainFields DEF Owned, Held
  <2>10. d.bits = b.bits + Cardinality(s \cup {k})
    BY <2>2, <2>4, <2>8, PlainFields
  <2>11. d \in Buffer
    BY <2>7 DEF Sound, Shaped
  <2> QED BY <2>1, <2>2, <2>7, <2>8, <2>9, <2>10, <2>11
<1>3. <<ks, c>> \in R
  <2> HIDE DEF R
  <2> QED BY <1>1, <1>2, EachStore DEF StoresAll
<1> QED BY <1>3

LEMMA SupplySound ==
  ASSUME NEW b, Plain(b), Whole(b), Sound(b), ~b.failed,
         NEW m, m.key \in KeyIds, m.supply \in SupplyIds, Held(b, m.key), b.supply[m.supply] = {},
         NEW c, c = Supply(b, m)
  PROVE  Sound(c) /\ ~c.failed /\ c.bits = b.bits /\ UsesUp(b, c, m.key, m.supply)
<1>1. PICK k \in KeyIds, s \in SupplyIds : k = m.key /\ s = m.supply
  OBVIOUS
<1>2. UsesUp(b, c, k, s)
  BY <1>1, WholeSupply
<1>3. PICK d : d = HalfKey(b, k, 1)
  OBVIOUS
<1>4. Plain(d) /\ d = GetKey(b, k, TRUE) /\ b.st[k] = "READY" /\ d.supply = b.supply
  <2>1. Held(b, k)
    BY <1>1
  <2> QED BY <1>3, <2>1, EraseWhole
<1>5. PICK n \in Nat : n = KeyLen(b, k)
  BY PlainFields
<1>6. n = 1
  <2>1. b.hi[k] = 1 /\ b.lo[k] = 0
    BY <1>1, PlainFields DEF Whole
  <2> QED BY <1>5, <2>1 DEF KeyLen
<1>7. 1 <= b.bits
  BY <1>4, <1>5, <1>6, ReadyBound
<1>8. Sound(d) /\ d.failed = b.failed /\ d.bits = b.bits - 1
  <2>1. d = Upd(b, k, "NONE", 0, 0, b.bits - n, b.nrKeys, b.nrBits) /\ Sound(d)
    BY <1>4, <1>5, GetReadySound
  <2> QED BY <1>6, <2>1 DEF Upd
<1>9. PICK cells \in SUBSET Cell : cells = {<<k, 1>>}
  <2>1. <<k, 1>> \in Cell
    BY BoundsNat DEF Cell
  <2> QED BY <2>1
<1>10. c = StoreSupplyKey(d, s, cells)
  BY <1>1, <1>3, <1>9 DEF Supply
<1>11. SupplyBecomes(d, c, s, cells)
  <2>1. d.supply[s] = {}
    BY <1>1, <1>4
  <2>2. SupplyBecomes(d, StoreSupplyKey(d, s, cells), s, cells)
    BY <1>8, <2>1, StoreSupplySound
  <2> QED BY <1>10, <2>2
<1>12. c.bits = d.bits + 1
  <2>1. PICK a : a = [d EXCEPT !.supply[s] = cells]
    OBVIOUS
  <2>2. Plain(a)
    BY <1>4, <2>1, PlainSupply DEF SetsSupply
  <2>3. a.bits = d.bits
    <3>1. PICK su : su = [d.supply EXCEPT ![s] = cells]
      OBVIOUS
    <3>2. a = [d EXCEPT !.supply = su]
      BY <2>1, <3>1
    <3> QED BY <1>4, <3>2, PlainFields
  <2>4. PICK q \in Nat : q = Cardinality(cells) /\ q = 1
    BY <1>9, FS_Singleton
  <2>5. c = LogAdd(a, q)
    BY <1>10, <2>1, <2>4 DEF StoreSupplyKey
  <2>6. c.bits = a.bits + q
    BY <2>2, <2>5, LogBits
  <2> QED BY <2>3, <2>4, <2>6
<1>13. c.bits = b.bits
  BY <1>7, <1>8, <1>12, PlainFields
<1>14. Sound(c) /\ c.failed = d.failed
  BY <1>11 DEF SupplyBecomes
<1> QED BY <1>1, <1>2, <1>8, <1>13, <1>14

LEMMA TakeSound ==
  ASSUME NEW b, Plain(b), Sound(b), ~b.failed, NEW s \in SupplyIds, NEW k \in KeyIds,
         b.supply[s] = {<<k, 1>>}, NEW c, c = GetSupplyKey(b, s)
  PROVE  /\ Plain(c) /\ Sound(c) /\ ~c.failed /\ c.bits + 1 = b.bits
         /\ c.st = b.st /\ c.hi = b.hi /\ c.supply = [b.supply EXCEPT ![s] = {}]
<1>1. SupplyBecomes(b, c, s, {})
  BY TakeSupplySound
<1>2. Plain(c)
  BY PlainTakeSupply DEF SetsSupply
<1>3. PICK a : a = [b EXCEPT !.supply[s] = {}]
  OBVIOUS
<1>4. Plain(a) /\ a.bits = b.bits
  <2>1. PICK cells \in SUBSET Cell : cells = {}
    OBVIOUS
  <2>2. PICK su : su = [b.supply EXCEPT ![s] = cells]
    OBVIOUS
  <2>3. Plain(a)
    BY <1>3, <2>1, PlainSupply DEF SetsSupply
  <2>4. a = [b EXCEPT !.supply = su]
    BY <1>3, <2>1, <2>2
  <2> QED BY <2>3, <2>4, PlainFields
<1>5. PICK q \in Nat : q = Cardinality(b.supply[s]) /\ q = 1
  BY FS_Singleton
<1>6. c = LogSub(a, q)
  BY <1>3, <1>5 DEF GetSupplyKey
<1>7. 1 <= b.bits
  <2>1. PICK cells \in SUBSET Cell : cells = {}
    OBVIOUS
  <2>2. Shaped(b) /\ b.bits = Cardinality(ReadyCells(b)) + Cardinality(SupplyCells(b))
    BY DEF Sound, ReadyAmount
  <2>3. Cardinality(SupplyCells(UpdSupply(b, s, cells, 0))) + Cardinality(b.supply[s])
          = Cardinality(SupplyCells(b)) + Cardinality(cells)
    BY <2>2, SupplyDelta
  <2>4. Cardinality(cells) = 0
    BY <2>1, FS_EmptySet
  <2>5. /\ Cardinality(SupplyCells(UpdSupply(b, s, cells, 0))) \in Nat
        /\ Cardinality(SupplyCells(b)) \in Nat /\ Cardinality(ReadyCells(b)) \in Nat
    BY CountsFinite
  <2> QED BY <1>5, <2>2, <2>3, <2>4, <2>5
<1>8. c.bits = b.bits - 1
  BY <1>4, <1>5, <1>6, <1>7, LogBits
<1> QED BY <1>1, <1>2, <1>7, <1>8, PlainFields DEF SupplyBecomes

(* What an attempt had reserved is gone when it is given up.               *)
LEMMA DiscardsErase ==
  ASSUME NEW b, Source(b), NEW ks, ks = Reserved(b), NEW c, c = Each(DiscardKey, b, ks)
  PROVE  Owned(c) \subseteq Owned(b) \ ks
<1> DEFINE R == {p \in (SUBSET ks) \X Buffer :
                   /\ Sound(p[2]) /\ Reserved(p[2]) = ks \ p[1]
                   /\ Owned(p[2]) \subseteq Owned(b) \ p[1]}
<1>0. Plain(b) /\ ks \in SUBSET KeyIds
  BY DEF Source, Reserved
<1>1. <<{}, b>> \in R
  BY <1>0 DEF Source, Plain
<1>2. ASSUME NEW s \in SUBSET ks, NEW k \in ks, NEW a, k \notin s, Plain(a), <<s, a>> \in R
      PROVE  <<s \cup {k}, DiscardKey(a, k)>> \in R
  <2>1. PICK d : d = DiscardKey(a, k)
    OBVIOUS
  <2>2. Sound(a) /\ Reserved(a) = ks \ s /\ Owned(a) \subseteq Owned(b) \ s
    BY <1>2
  <2>3. k \in KeyIds /\ a.st[k] = "INIT"
    BY <1>0, <1>2, <2>2 DEF Reserved
  <2>4. d = Upd(a, k, "NONE", 0, 0, a.bits, a.nrKeys - 1, a.nrBits - KeyLen(a, k)) /\ Sound(d)
    BY <2>1, <2>2, <2>3, MarkObsoleteSound DEF DiscardKey
  <2>5. d.st = [a.st EXCEPT ![k] = "NONE"]
    BY <2>4 DEF Upd
  <2>6. Reserved(d) = ks \ (s \cup {k}) /\ Owned(d) \subseteq Owned(b) \ (s \cup {k})
    BY <1>2, <2>2, <2>5, PlainFields DEF Reserved, Owned, Held
  <2>7. d \in Buffer
    BY <2>4 DEF Sound, Shaped
  <2> QED BY <2>1, <2>4, <2>6, <2>7
<1>3. <<ks, c>> \in R
  <2> HIDE DEF R
  <2> QED BY <1>0, <1>1, <1>2, EachDiscard
<1> QED BY <1>3

LEMMA TransformErases ==
  ASSUME NEW b, Source(b), NEW k \in KeyIds, b.st[k] = "READY",
         NEW c, c = TransformCandidate(b, k, 1)
  PROVE  Owned(c) \subseteq Owned(b) \ {k}
<1>1. Plain(b) /\ Sound(b)
  BY DEF Source
<1>2. ~Splits(b, k, 1)
  BY <1>1, OneUnit DEF Splits
<1>3. Becomes(CandidateChecked(b), c, k, "NONE", 0, 0)
  BY <1>1, <1>2, TransformSound
<1>4. CandidateChecked(b).st = b.st
  BY <1>1, CandidateCheckedSound
<1>5. c.st = [b.st EXCEPT ![k] = "NONE"]
  BY <1>3, <1>4 DEF Becomes
<1> QED BY <1>1, <1>5, PlainFields DEF Owned, Held

(* The destination stores all that is relayed to it if it has room for it. *)
LEMMA StoresRoom ==
  ASSUME Types, NEW l \in Link, NEW r, r.keys \in SUBSET KeyIds, NEW dst \in End, NEW ks,
         Stores(l, r, dst, ks), relay[dst].buf.bits + Cardinality(r.keys) <= Mmax
  PROVE  ks = r.keys
<1>1. IsFiniteSet(r.keys) /\ Cardinality(r.keys) \in Nat
  BY OwnedFinite
<1>2. relay[dst].buf.bits \in Nat
  BY PlainFields DEF Types, Ends
<1>3. PICK d \in Nat : d = Mmax - relay[dst].buf.bits
  BY <1>1, <1>2, BoundsNat
<1>4. Max({0, d}) = d
  BY DEF Max
<1>5. Cardinality(r.keys) <= d
  BY <1>1, <1>2, <1>3, BoundsNat
<1>6. Min({Cardinality(r.keys), d}) = Cardinality(r.keys)
  BY <1>1, <1>5 DEF Min
<1>7. Cardinality(ks) = Cardinality(r.keys) /\ ks \subseteq r.keys
  BY <1>3, <1>4, <1>6 DEF Stores
<1> QED BY <1>1, <1>7, FS_Subset

LEMMA KeysTyped ==
  ASSUME NEW b
  PROVE  KeysOf(b) \in SUBSET KeyIds
  BY DEF KeysOf

LEMMA StockStores ==
  ASSUME NEW c, NEW b, Plain(b), Stocks(c, b), NEW ks \in SUBSET KeyIds, ks \cap Owned(b) = {},
         ks \cap KeysOf(b.supply) = {}, b.bits + Cardinality(ks) <= Mmax,
         NEW d, d = StoresAll(b, ks)
  PROVE  Stocks(c, d) /\ Owned(d) = Owned(b) \cup ks
<1>1. Sound(b) /\ ~b.failed /\ Owned(c) \ Reserved(c) \subseteq Owned(b)
      /\ b.bits <= Cardinality(Owned(b) \cup KeysOf(b.supply))
  BY DEF Stocks
<1>2. Sound(d) /\ ~d.failed /\ Owned(d) = Owned(b) \cup ks /\ d.bits = b.bits + Cardinality(ks)
  BY <1>1, StoresSound
<1>3. d.supply = b.supply
  BY EachStores DEF StoresAll
<1>4. PICK U \in SUBSET KeyIds : U = Owned(b) \cup KeysOf(b.supply)
  BY KeysTyped DEF Owned
<1>5. U \cap ks = {} /\ Owned(d) \cup KeysOf(d.supply) = U \cup ks
  BY <1>2, <1>3, <1>4
<1>6. Cardinality(U \cup ks) = Cardinality(U) + Cardinality(ks)
  BY <1>5, OwnedFinite, SplitSize
<1>7. d.bits <= Cardinality(Owned(d) \cup KeysOf(d.supply))
  <2>1. d.bits = b.bits + Cardinality(ks) /\ b.bits <= Cardinality(U)
    BY <1>1, <1>2, <1>4
  <2>2. b.bits \in Nat /\ Cardinality(ks) \in Nat /\ Cardinality(U) \in Nat
    BY PlainFields, OwnedFinite
  <2>3. d.bits <= Cardinality(U \cup ks)
    BY <1>6, <2>1, <2>2
  <2> QED BY <1>5, <2>3
<1>8. Owned(c) \ Reserved(c) \subseteq Owned(d)
  BY <1>1, <1>2
<1> QED BY <1>2, <1>7, <1>8 DEF Stocks

LEMMA StockSupplies ==
  ASSUME NEW c, NEW b, Plain(b), Whole(b), Stocks(c, b),
         NEW m, m.key \in KeyIds, m.supply \in SupplyIds, Held(b, m.key), b.supply[m.supply] = {},
         m.key \notin Owned(c), NEW d, d = Supply(b, m)
  PROVE  Stocks(c, d) /\ UsesUp(b, d, m.key, m.supply) /\ Whole(d)
<1>1. Sound(b) /\ ~b.failed /\ Owned(c) \ Reserved(c) \subseteq Owned(b)
      /\ b.bits <= Cardinality(Owned(b) \cup KeysOf(b.supply))
  BY DEF Stocks
<1>2. Sound(d) /\ ~d.failed /\ d.bits = b.bits /\ UsesUp(b, d, m.key, m.supply)
  BY <1>1, SupplySound
<1>3. Whole(d)
  BY WholeSupply
<1>4. PICK k \in KeyIds, s \in SupplyIds : k = m.key /\ s = m.supply
  OBVIOUS
<1>5. k \in Owned(b) /\ d.supply = [b.supply EXCEPT ![s] = {<<k, 1>>}] /\ Owned(d) = Owned(b) \ {k}
      /\ b.supply[s] = {}
  BY <1>2, <1>4 DEF UsesUp, Owned
<1>6. KeysOf(d.supply) \subseteq KeysOf(b.supply) \cup {k}
  <2>1. d.supply[s] = {<<k, 1>>} /\ \A t \in SupplyIds : t # s => d.supply[t] = b.supply[t]
    BY <1>5, PlainFields
  <2>2. <<k, 1>>[1] = k
    OBVIOUS
  <2> QED BY <2>1, <2>2 DEF KeysOf
<1>7. KeysOf(b.supply) \cup {k} \subseteq KeysOf(d.supply)
  <2>1. d.supply[s] = {<<k, 1>>} /\ \A t \in SupplyIds : t # s => d.supply[t] = b.supply[t]
    BY <1>5, PlainFields
  <2>2. k \in KeysOf(d.supply)
    <3>1. <<k, 1>> \in d.supply[s] /\ <<k, 1>>[1] = k
      BY <2>1
    <3> QED BY <3>1 DEF KeysOf
  <2>3. KeysOf(b.supply) \subseteq KeysOf(d.supply)
    BY <1>5, <2>1 DEF KeysOf
  <2> QED BY <2>2, <2>3
<1>8. Owned(d) \cup KeysOf(d.supply) = Owned(b) \cup KeysOf(b.supply)
  BY <1>5, <1>6, <1>7
<1>9. Owned(c) \ Reserved(c) \subseteq Owned(d)
  BY <1>1, <1>4, <1>5
<1>10. d.bits <= Cardinality(Owned(d) \cup KeysOf(d.supply))
  BY <1>1, <1>2, <1>8
<1> QED BY <1>2, <1>3, <1>9, <1>10 DEF Stocks

LEMMA StockTakes ==
  ASSUME NEW c, NEW b, Plain(b), Whole(b), Stocks(c, b), NEW s \in SupplyIds, NEW k \in KeyIds,
         b.supply[s] = {<<k, 1>>}, NEW d, d = GetSupplyKey(b, s)
  PROVE  /\ Plain(d) /\ Stocks(c, d) /\ Whole(d) /\ d.st = b.st
         /\ d.supply = [b.supply EXCEPT ![s] = {}]
<1>1. Sound(b) /\ ~b.failed /\ Owned(c) \ Reserved(c) \subseteq Owned(b)
      /\ b.bits <= Cardinality(Owned(b) \cup KeysOf(b.supply))
  BY DEF Stocks
<1>2. /\ Plain(d) /\ Sound(d) /\ ~d.failed /\ d.bits + 1 = b.bits
      /\ d.st = b.st /\ d.hi = b.hi /\ d.supply = [b.supply EXCEPT ![s] = {}]
  BY <1>1, TakeSound
<1>3. Owned(d) = Owned(b) /\ Whole(d)
  BY <1>2 DEF Owned, Held, Whole
<1>4. KeysOf(b.supply) \subseteq KeysOf(d.supply) \cup {k}
  <2>1. \A t \in SupplyIds : t # s => d.supply[t] = b.supply[t]
    BY <1>2, PlainFields
  <2>2. <<k, 1>>[1] = k
    OBVIOUS
  <2> QED BY <2>1, <2>2 DEF KeysOf
<1>5. PICK U \in SUBSET KeyIds, V \in SUBSET KeyIds :
        U = Owned(b) \cup KeysOf(b.supply) /\ V = Owned(d) \cup KeysOf(d.supply)
  BY KeysTyped DEF Owned
<1>6. Cardinality(U) <= Cardinality(V) + 1
  <2>1. U \subseteq V \cup {k} /\ V \cup {k} \in SUBSET KeyIds
    BY <1>3, <1>4, <1>5
  <2>2. Cardinality(U) <= Cardinality(V \cup {k})
    BY <2>1, OwnedFinite, FS_Subset
  <2>3. Cardinality(V \cup {k}) <= Cardinality(V) + 1
    BY <2>1, OwnedFinite, FS_AddElement
  <2>4. Cardinality(U) \in Nat /\ Cardinality(V) \in Nat /\ Cardinality(V \cup {k}) \in Nat
    BY <2>1, OwnedFinite
  <2> QED BY <2>2, <2>3, <2>4
<1>7. d.bits <= Cardinality(V)
  <2>1. Cardinality(U) \in Nat /\ Cardinality(V) \in Nat
    BY OwnedFinite
  <2>2. b.bits \in Nat /\ d.bits \in Nat /\ b.bits <= Cardinality(U) /\ d.bits + 1 = b.bits
    BY <1>1, <1>2, <1>5, PlainFields
  <2> QED BY <1>6, <2>1, <2>2
<1>8. Owned(c) \ Reserved(c) \subseteq Owned(d)
  BY <1>1, <1>3
<1> QED BY <1>2, <1>3, <1>5, <1>7, <1>8 DEF Stocks

-----------------------------------------------------------------------------
(* The way back along the path.                                            *)

LEMMA PathBack ==
  ASSUME NEW e \in Serving, NEW l \in Link, l[1] # Far(e), l[2] = NextHop(l[1], Far(e))
  PROVE  /\ l[2] # e /\ l[1] = NextHop(l[2], e)
         /\ \A k \in Node : Behind(e, k, l[2]) => k = l[2] \/ Behind(e, k, l[1])
<1>1. e \in {0, Hops} /\ Far(e) = Hops - e /\ Hops \in Nat /\ Hops >= 2
  BY RelayAssumption DEF Far
<1>2. l[1] \in 0 .. Hops /\ l[2] \in 0 .. Hops
  BY PathFacts DEF Node
<1>3. CASE e = 0
  <2>1. l[2] = l[1] + 1
    BY <1>1, <1>2, <1>3 DEF NextHop
  <2> QED BY <1>1, <1>2, <1>3, <2>1 DEF NextHop, Behind, Node
<1>4. CASE e = Hops
  <2>1. l[2] = l[1] - 1 /\ e # 0
    BY <1>1, <1>2, <1>4 DEF NextHop
  <2> QED BY <1>1, <1>2, <1>4, <2>1 DEF NextHop, Behind, Node
<1> QED BY <1>1, <1>3, <1>4

LEMMA BackOne ==
  ASSUME NEW e \in Serving, NEW j \in Node, j # e, NEW i, i = NextHop(j, e), NEW k \in Node,
         Behind(e, k, i)
  PROVE  k # j /\ Behind(e, k, j)
<1>1. e \in {0, Hops} /\ Hops \in Nat /\ Hops >= 2 /\ j \in 0 .. Hops /\ k \in 0 .. Hops
  BY RelayAssumption DEF Node
<1>2. CASE e = 0
  <2>1. i = j - 1 /\ k <= i
    BY <1>1, <1>2 DEF NextHop, Behind
  <2> QED BY <1>1, <1>2, <2>1 DEF Behind
<1>3. CASE e = Hops
  <2>1. i = j + 1 /\ k >= i /\ e # 0
    BY <1>1, <1>3 DEF NextHop, Behind
  <2> QED BY <1>1, <1>3, <2>1 DEF Behind
<1> QED BY <1>1, <1>2, <1>3

LEMMA BehindSelf ==
  ASSUME NEW e \in Serving, NEW j \in Node
  PROVE  Behind(e, j, j) /\ \A k \in Node : Behind(e, k, e) => k = e
  BY RelayAssumption DEF Behind, Node

(* With nothing relayed or answered on its way, no way back is needed.     *)
LEMMA ClearServes ==
  ASSUME NEW n, Clear(n)
  PROVE  /\ \A e, px : Routes(e, px, n)
         /\ \A pending, next, b, gv, fe : Suits(pending, b, gv, fe, n) => Suits(next, b, gv, fe, n)
<1>1. \A l \in Link : \A m : Sent(n, l, m) => ~Tracked(m)
  BY ClearSent
<1>2. \A e, px : Routes(e, px, n)
  BY <1>1 DEF Routes, Routed, Tracked
<1>3. \A pending, next, b, gv, fe : Suits(pending, b, gv, fe, n) => Suits(next, b, gv, fe, n)
  BY <1>1 DEF Suits, Apt, Tracked
<1> QED BY <1>2, <1>3

(* What is left when the first message of a link is taken.                 *)
LEMMA DropServe ==
  ASSUME Types, NEW e \in Serving, WatchAt(e), ServeAt(e), NEW l \in Link, net[l] # <<>>,
         NEW m, m = Head(net[l]), NEW n, n = Drop(net, l)
  PROVE  /\ n \in Nets /\ Carried(e, relay[e], n) /\ Sole(n) /\ Keyed(n)
         /\ Right(e, relay[e], l, m) /\ (Tracked(m) => Clear(n))
         /\ Suits(relay[e].pending, relay[Far(e)].buf, served[e], fetched[Far(e)], n)
         /\ Apt(relay[e].pending, relay[Far(e)].buf, served[e], fetched[Far(e)], m)
         /\ Routes(e, proxy, n) /\ Routed(e, proxy, l, m)
         /\ (m.type # "skey" =>
               Asked(relay[Far(e)].buf, served[e], fetched[Far(e)], n, lost))
         /\ Loses(net, n, l, m)
<1>1. net \in Nets
  BY DEF Types
<1>2. n \in Nets
  BY <1>1, NetTyped
<1>3. Carried(e, relay[e], n) /\ Sole(n) /\ Right(e, relay[e], l, m) /\ (Tracked(m) => Clear(n))
  BY <1>1, DropWatch DEF WatchAt
<1>4. Loses(net, n, l, m)
  BY <1>1, SentDrop
<1>5. Sent(net, l, m)
  BY <1>1, SentHead
<1>6. Keyed(n)
  BY <1>1, DropKeyed DEF ServeAt
<1>7. Suits(relay[e].pending, relay[Far(e)].buf, served[e], fetched[Far(e)], n)
      /\ Routes(e, proxy, n)
  <2>1. Fewer(net, n)
    BY <1>4 DEF Loses
  <2>2. Suits(relay[e].pending, relay[Far(e)].buf, served[e], fetched[Far(e)], net)
        /\ Routes(e, proxy, net)
    BY DEF ServeAt
  <2> QED BY <2>1, <2>2, FewerSuits
<1>8. Apt(relay[e].pending, relay[Far(e)].buf, served[e], fetched[Far(e)], m)
      /\ Routed(e, proxy, l, m)
  BY <1>5 DEF ServeAt, Suits, Routes
<1>9. m.type # "skey" => Asked(relay[Far(e)].buf, served[e], fetched[Far(e)], n, lost)
  BY <1>4, LosesAsked DEF ServeAt
<1> QED BY <1>2, <1>3, <1>4, <1>6, <1>7, <1>8, <1>9

(* The destination has room for what is relayed to it.                     *)
Roomy ==
  \A l \in Link : \A i \in 1 .. Len(net[l]) :
    net[l][i].type = "relay" =>
      relay[Far(net[l][i].req[1])].buf.bits + Cardinality(net[l][i].keys) <= Mmax

LEMMA RequestServe ==
  ASSUME Types, PadInv, NEW e \in Serving, WatchAt(e), ServeAt(e), Roomy,
         NEW l \in Link, ProcessRelayRequest(l[1], l[2])
  PROVE  ServeAt(e)'
<1>1. PICK r, dst : r = Head(net[l]) /\ dst = Far(r.req[1])
  OBVIOUS
<1>2. /\ net[l] # <<>> /\ r \in Message /\ r.type = "relay" /\ r.keys \in SUBSET KeyIds
      /\ dst \in End /\ UNCHANGED <<halted, served, fetched, lost>>
  BY <1>1, RequestEffect
<1>3. PICK n : n = Drop(net, l)
  OBVIOUS
<1>4. PICK x, b, gv, fe :
        x = relay[e] /\ b = relay[Far(e)].buf /\ gv = served[e] /\ fe = fetched[Far(e)]
  OBVIOUS
<1>5. /\ n \in Nets /\ Keyed(n) /\ Clear(n) /\ Right(e, x, l, r)
      /\ Suits(x.pending, b, gv, fe, n) /\ Apt(x.pending, b, gv, fe, r)
      /\ Routed(e, proxy, l, r) /\ Asked(b, gv, fe, n, lost)
  <2>1. Tracked(r) /\ r.type # "skey"
    BY <1>2 DEF Tracked
  <2> QED BY <1>1, <1>2, <1>3, <1>4, <2>1, DropServe
<1>6. /\ l[1] # Far(e) /\ l[2] = NextHop(l[1], Far(e)) /\ r.req = <<e, x.gen>>
  BY <1>2, <1>5 DEF Right, Tracked
<1>7. /\ dst = Far(e) /\ e \in End /\ e \in Node /\ Far(e) # e /\ l[1] \in Node /\ l[2] \in Node
      /\ l[1] # l[2] /\ <<l[2], l[1]>> \in Link
  <2>1. dst = Far(e)
    BY <1>1, <1>6
  <2> QED BY <2>1, ServingEnds, PathFacts
<1>8. /\ l[2] # e /\ l[1] = NextHop(l[2], e)
      /\ \A k \in Node : Behind(e, k, l[2]) => k = l[2] \/ Behind(e, k, l[1])
  BY <1>6, PathBack
<1>9. r.keys = x.pending /\ r.keys \cap KeysOf(gv) = {} /\ r.keys \cap Owned(b) = {}
  BY <1>2, <1>5 DEF Apt
<1>10. \A k \in Node : Behind(e, k, l[1]) => Tracks(proxy, k, r.req)
  BY <1>2, <1>5 DEF Routed
<1>11. /\ Agrees(Owned(x.buf), b, gv, fe) /\ Unused(gv, enc) /\ Stocks(x.buf, b)
       /\ Returns(e, proxy) /\ halted = {}
  BY <1>4 DEF ServeAt
<1>12. ASSUME NEW ok \in BOOLEAN, NEW q, q = Put(n, <<l[2], l[1]>>, Reply(r, ok)), NEW c,
              Suits(x.pending, c, gv, fe, n), Asked(c, gv, fe, n, lost),
              ok => x.pending \subseteq Owned(c)
       PROVE  /\ Suits(x.pending, c, gv, fe, q) /\ Asked(c, gv, fe, q, lost)
              /\ Keyed(q) /\ Routes(e, proxy, q)
  <2>1. PICK m : m = Reply(r, ok)
    OBVIOUS
  <2>2. m.type = "relayed" /\ m.req = r.req /\ m.ok = ok
    BY <2>1 DEF Reply
  <2>3. PICK k : k = <<l[2], l[1]>>
    OBVIOUS
  <2>4. k \in Link /\ k[1] = l[2] /\ k[2] = l[1]
    BY <1>7, <2>3
  <2>5. Apt(x.pending, c, gv, fe, m)
    BY <1>12, <2>2 DEF Apt
  <2>6. Routed(e, proxy, k, m)
    BY <1>8, <1>10, <2>2, <2>4 DEF Routed
  <2>7. q = Put(n, k, m)
    BY <1>12, <2>1, <2>3
  <2>8. Gets(n, q, k, m)
    BY <1>5, <2>4, <2>7, SentPut
  <2>9. Keyed(q)
    BY <1>5, <2>2, <2>4, <2>7, PutKeyed
  <2>10. Routes(e, proxy, n)
    BY <1>5, ClearServes
  <2> QED BY <1>12, <2>5, <2>6, <2>8, <2>9, <2>10, GetsSuits
<1>13. CASE Refuses(l, r, dst)
  <2>1. relay' = relay /\ enc' = enc /\ proxy' = proxy
        /\ net' = Put(n, <<l[2], l[1]>>, Reply(r, FALSE))
    BY <1>3, <1>13 DEF Refuses
  <2>2. /\ Suits(x.pending, b, gv, fe, net') /\ Asked(b, gv, fe, net', lost)
        /\ Keyed(net') /\ Routes(e, proxy, net')
    BY <1>5, <1>12, <2>1
  <2> QED BY <1>2, <1>4, <1>11, <2>1, <2>2 DEF ServeAt
<1>14. ASSUME NEW pads, PassesOn(l, r, dst, pads) PROVE ServeAt(e)'
  <2>1. PICK out, m : out = <<l[2], NextHop(l[2], dst)>> /\ m = [r EXCEPT !.pads = pads]
    OBVIOUS
  <2>2. out \in Link /\ out[1] = l[2]
    BY <1>2, <1>7, <1>14, <2>1, PathFacts DEF PassesOn
  <2>3. m.type = "relay" /\ m.req = r.req /\ m.keys = r.keys
    <3>1. r \in [type : {"relay"}, req : Request, keys : SUBSET KeyIds, pads : SUBSET KeyIds]
      BY <1>2, MessageKinds
    <3> QED BY <2>1, <3>1
  <2>4. PICK p1 : p1 = [req |-> r.req, prev |-> l[1], keys |-> {}]
    OBVIOUS
  <2>5. /\ net' = Put(n, out, m) /\ relay' = relay /\ enc' = [enc EXCEPT ![out] = @ \ pads]
        /\ proxy' = [proxy EXCEPT ![l[2]] = @ \cup {p1}]
    BY <1>3, <1>14, <2>1, <2>4 DEF PassesOn
  <2>6. /\ proxy'[l[2]] = proxy[l[2]] \cup {p1}
        /\ \A j \in Node : j # l[2] => proxy'[j] = proxy[j]
    BY <1>7, <2>5 DEF Types, Proxies
  <2>7. p1.req = r.req /\ p1.prev = l[1]
    BY <2>4
  <2>8. Returns(e, proxy')
    BY <1>8, <1>11, <2>6, <2>7 DEF Returns
  <2>9. \A k \in Node : Behind(e, k, l[2]) => Tracks(proxy', k, r.req)
    <3> SUFFICES ASSUME NEW k \in Node, Behind(e, k, l[2]) PROVE Tracks(proxy', k, r.req)
      OBVIOUS
    <3>1. CASE k = l[2]
      BY <2>6, <2>7, <3>1 DEF Tracks
    <3>2. CASE k # l[2]
      <4>1. Tracks(proxy, k, r.req)
        BY <1>8, <1>10, <3>2
      <4> QED BY <2>6, <3>2, <4>1 DEF Tracks
    <3> QED BY <3>1, <3>2
  <2>10. Routed(e, proxy', out, m)
    BY <2>2, <2>3, <2>9 DEF Routed
  <2>11. Apt(x.pending, b, gv, fe, m)
    BY <1>9, <2>3 DEF Apt
  <2>12. Gets(n, net', out, m)
    <3>1. Gets(n, Put(n, out, m), out, m)
      BY <1>5, <2>2, SentPut
    <3> QED BY <2>5, <3>1
  <2>13. Keyed(net')
    <3>1. Keyed(Put(n, out, m))
      BY <1>5, <2>2, <2>3, PutKeyed
    <3> QED BY <2>5, <3>1
  <2>14. Routes(e, proxy', n)
    BY <1>5, ClearServes
  <2>15. /\ Suits(x.pending, b, gv, fe, net') /\ Asked(b, gv, fe, net', lost)
         /\ Routes(e, proxy', net')
    BY <1>5, <2>10, <2>11, <2>12, <2>14, GetsSuits
  <2>16. Unused(gv, enc')
    <3>1. \A k \in Link : enc'[k] \subseteq enc[k]
      BY <2>5 DEF Types
    <3> QED BY <1>11, <3>1 DEF Unused
  <2> QED BY <1>2, <1>4, <1>11, <2>5, <2>8, <2>13, <2>15, <2>16 DEF ServeAt
<1>15. ASSUME NEW ks, Stores(l, r, dst, ks) PROVE ServeAt(e)'
  <2>1. b.bits + Cardinality(r.keys) <= Mmax
    <3>1. r = net[l][1] /\ 1 \in 1 .. Len(net[l])
      <4>1. net[l] \in Seq(Message)
        BY DEF Types, Nets
      <4> QED BY <1>1, <1>2, <4>1
    <3>2. relay[Far(r.req[1])].buf.bits + Cardinality(r.keys) <= Mmax
      BY <1>2, <3>1 DEF Roomy
    <3> QED BY <1>1, <1>4, <1>7, <3>2
  <2>2. ks = r.keys
    BY <1>2, <1>4, <1>7, <1>15, <2>1, StoresRoom
  <2>3. Plain(b) /\ Whole(b)
    BY <1>2, <1>4, <1>7, <1>11 DEF Types, Ends, Agrees
  <2>4. PICK c : c = StoresAll(b, ks)
    OBVIOUS
  <2>5. \A s \in SupplyIds : b.supply[s] \in {{}, gv[s]}
    BY <1>11 DEF Agrees
  <2>6. KeysOf(b.supply) \subseteq KeysOf(gv)
    BY <2>5 DEF KeysOf
  <2>7. Stocks(x.buf, c) /\ Owned(c) = Owned(b) \cup ks
    BY <1>2, <1>9, <1>11, <2>1, <2>2, <2>3, <2>4, <2>6, StockStores
  <2>8. Whole(c)
    BY <1>2, <2>2, <2>3, <2>4, WholeStores DEF StoresAll
  <2>9. c.supply = b.supply /\ Plain(c)
    BY <1>2, <2>2, <2>3, <2>4, EachStores DEF StoresAll
  <2>10. Agrees(Owned(x.buf), c, gv, fe)
    <3>1. KeysOf(c.supply) \cap Owned(c) = {}
      BY <1>9, <1>11, <2>2, <2>6, <2>7, <2>9 DEF Agrees
    <3>2. \A s \in SupplyIds : fe[s] \in {{}, gv[s]}
      BY <1>11 DEF Agrees
    <3>3. KeysOf(fe) \subseteq KeysOf(gv)
      BY <3>2 DEF KeysOf
    <3>4. KeysOf(fe) \cap Owned(c) = {}
      BY <1>9, <1>11, <2>2, <2>7, <3>3 DEF Agrees
    <3> QED BY <1>11, <2>8, <2>9, <3>1, <3>4 DEF Agrees
  <2>11. Suits(x.pending, c, gv, fe, n)
    <3> SUFFICES ASSUME NEW k \in Link, NEW m, Sent(n, k, m) PROVE Apt(x.pending, c, gv, fe, m)
      BY DEF Suits
    <3>1. Apt(x.pending, b, gv, fe, m) /\ ~Tracked(m) /\ m \in Message
      BY <1>5, ClearSent, SentTyped DEF Suits
    <3>2. m.type = "skey" => m.key \in KeyIds
      BY <3>1, MessageKinds
    <3>3. m.type = "skey" => Held(c, m.key)
      BY <2>7, <3>1, <3>2 DEF Apt, Owned
    <3> QED BY <2>9, <3>1, <3>3 DEF Apt, Tracked
  <2>12. Asked(c, gv, fe, n, lost)
    BY <1>5, <2>9 DEF Asked
  <2>13. relay'[e] = x /\ relay'[Far(e)].buf = c
    <3>1. PICK y : y = [relay[dst] EXCEPT !.buf = c]
      OBVIOUS
    <3>2. relay[dst] \in EndState
      BY <1>2 DEF Types, Ends
    <3>3. y.buf = c
      BY <3>1, <3>2 DEF EndState
    <3>4. relay' = [relay EXCEPT ![dst].buf = c]
      BY <1>4, <1>7, <1>15, <2>4 DEF Stores, StoresAll
    <3>5. relay' = [relay EXCEPT ![dst] = y]
      BY <3>1, <3>2, <3>4 DEF EndState
    <3>6. relay'[dst] = y /\ \A f \in End : f # dst => relay'[f] = relay[f]
      BY <1>2, <3>5 DEF Types, Ends
    <3> QED BY <1>4, <1>7, <3>3, <3>6
  <2>14. enc' = enc /\ proxy' = proxy /\ net' = Put(n, <<l[2], l[1]>>, Reply(r, TRUE))
    BY <1>3, <1>15 DEF Stores
  <2>15. x.pending \subseteq Owned(c)
    BY <1>9, <2>2, <2>7
  <2>16. /\ Suits(x.pending, c, gv, fe, net') /\ Asked(c, gv, fe, net', lost)
         /\ Keyed(net') /\ Routes(e, proxy, net')
    BY <1>12, <2>11, <2>12, <2>14, <2>15
  <2> QED BY <1>2, <1>4, <1>11, <2>7, <2>10, <2>13, <2>14, <2>16 DEF ServeAt
<1> QED BY <1>1, <1>13, <1>14, <1>15, RequestEffect

(* The source may serve what it has been confirmed, and nothing of what it *)
(* has given up.                                                           *)
LEMMA StocksSettled ==
  ASSUME NEW x, NEW c, NEW b, Source(x), Stocks(x, b), Reserved(c) = {},
         \/ Keeps(x, c) /\ Reserved(x) \subseteq Owned(b)
         \/ Owned(c) \subseteq Owned(x) \ Reserved(x)
  PROVE  Stocks(c, b)
<1>1. Owned(x) \ Reserved(x) \subseteq Owned(b)
  BY DEF Stocks
<1>2. Owned(c) \subseteq Owned(b)
  <2>1. CASE Keeps(x, c) /\ Reserved(x) \subseteq Owned(b)
    <3>1. Owned(c) \subseteq Owned(x)
      BY <2>1 DEF Keeps, Owned
    <3> QED BY <1>1, <2>1, <3>1
  <2>2. CASE Owned(c) \subseteq Owned(x) \ Reserved(x)
    BY <1>1, <2>2
  <2> QED BY <2>1, <2>2
<1>3. Owned(c) \ Reserved(c) \subseteq Owned(b)
  BY <1>2
<1> QED BY <1>3 DEF Stocks

LEMMA AgreesLess ==
  ASSUME NEW own, NEW own2, own2 \subseteq own, NEW b, NEW gv, NEW fe, Agrees(own, b, gv, fe)
  PROVE  Agrees(own2, b, gv, fe)
<1>1. KeysOf(gv) \cap own2 = {}
  BY DEF Agrees
<1> QED BY <1>1 DEF Agrees

LEMMA ResponseServe ==
  ASSUME Types, NEW e \in Serving, WatchAt(e), ServeAt(e),
         NEW l \in Link, ProcessRelayResponse(l[1], l[2])
  PROVE  ServeAt(e)'
<1>1. PICK a : a = Head(net[l])
  OBVIOUS
<1>2. /\ net[l] # <<>> /\ a \in Message /\ a.type = "relayed" /\ a.ok \in BOOLEAN
      /\ UNCHANGED <<enc, served, fetched, lost>>
  BY <1>1, ResponseEffect
<1>3. PICK n : n = Drop(net, l)
  OBVIOUS
<1>4. PICK x, b, gv, fe :
        x = relay[e] /\ b = relay[Far(e)].buf /\ gv = served[e] /\ fe = fetched[Far(e)]
  OBVIOUS
<1>5. /\ n \in Nets /\ Keyed(n) /\ Clear(n) /\ Right(e, x, l, a)
      /\ Suits(x.pending, b, gv, fe, n) /\ Apt(x.pending, b, gv, fe, a)
      /\ Routed(e, proxy, l, a) /\ Asked(b, gv, fe, n, lost)
  <2>1. Tracked(a) /\ a.type # "skey"
    BY <1>2 DEF Tracked
  <2> QED BY <1>1, <1>2, <1>3, <1>4, <2>1, DropServe
<1>6. x.active /\ a.req = <<e, x.gen>>
  BY <1>2, <1>5 DEF Right, Tracked
<1>7. /\ e \in End /\ e \in Node /\ Far(e) \in End /\ Far(e) # e /\ l[1] \in Node /\ l[2] \in Node
  BY ServingEnds, PathFacts
<1>8. \A k \in Node : Behind(e, k, l[2]) => Tracks(proxy, k, a.req)
  BY <1>2, <1>5 DEF Routed
<1>9. a.ok => x.pending \subseteq Owned(b)
  BY <1>2, <1>5 DEF Apt
<1>10. /\ Agrees(Owned(x.buf), b, gv, fe) /\ Unused(gv, enc) /\ Stocks(x.buf, b)
       /\ Returns(e, proxy) /\ halted = {}
  BY <1>4 DEF ServeAt
<1>11. Recalled(e, x, proxy) /\ Waiting(x)
  BY <1>4 DEF WatchAt
<1>12. CASE Halts(l, a)
  <2>1. Tracks(proxy, l[2], a.req)
    BY <1>7, <1>8, BehindSelf
  <2> QED BY <1>12, <2>1 DEF Halts, Tracks
<1>13. ASSUME NEW p, p \in proxy[l[2]], proxy' = [proxy EXCEPT ![l[2]] = @ \ {p}]
       PROVE  /\ \A j \in Node : j # l[2] => proxy'[j] = proxy[j]
              /\ p \in Noted(l[2]) /\ (p.prev = l[2] => l[2] = e) /\ (l[2] = e => p.prev = e)
              /\ Returns(e, proxy')
  <2>1. p \in Noted(l[2]) /\ \A j \in Node : j # l[2] => proxy'[j] = proxy[j]
    BY <1>7, <1>13 DEF Types, Proxies
  <2>2. p.prev = l[2] => l[2] = e
    BY <1>7, <1>11, <1>13 DEF Recalled
  <2>3. l[2] = e => p.prev = e
    BY <1>7, <1>11, <1>13 DEF Recalled
  <2>4. \A j \in Node : proxy'[j] \subseteq proxy[j]
    BY <1>7, <1>13 DEF Types, Proxies
  <2>5. Returns(e, proxy')
    BY <1>10, <2>4 DEF Returns
  <2> QED BY <2>1, <2>2, <2>3, <2>5
<1>14. ASSUME NEW p, HandsBack(l, a, p) PROVE ServeAt(e)'
  <2>1. /\ p \in proxy[l[2]] /\ p.prev # l[2] /\ proxy' = [proxy EXCEPT ![l[2]] = @ \ {p}]
        /\ net' = Put(n, <<l[2], p.prev>>, a) /\ UNCHANGED <<relay, halted>>
    BY <1>3, <1>14 DEF HandsBack
  <2>2. \A j \in Node : j # l[2] => proxy'[j] = proxy[j]
    BY <1>13, <2>1
  <2>3. p \in Noted(l[2])
    BY <1>13, <2>1
  <2>4. Returns(e, proxy')
    BY <1>13, <2>1
  <2>5. l[2] # e
    <3>1. l[2] = e => p.prev = e
      BY <1>13, <2>1
    <3> QED BY <2>1, <3>1
  <2>6. p.prev = NextHop(l[2], e)
    BY <1>7, <1>10, <2>1, <2>5 DEF Returns
  <2>7. PICK k : k = <<l[2], p.prev>>
    OBVIOUS
  <2>8. k \in Link /\ k[1] = l[2] /\ k[2] = p.prev
    BY <2>1, <2>3, <2>7 DEF Noted, Near
  <2>9. \A j \in Node : Behind(e, j, k[2]) => Tracks(proxy', j, a.req)
    <3> SUFFICES ASSUME NEW j \in Node, Behind(e, j, p.prev) PROVE Tracks(proxy', j, a.req)
      BY <2>8
    <3>1. j # l[2] /\ Behind(e, j, l[2])
      BY <1>7, <2>5, <2>6, BackOne
    <3>2. Tracks(proxy, j, a.req)
      BY <1>8, <3>1
    <3> QED BY <2>2, <3>1, <3>2 DEF Tracks
  <2>10. Routed(e, proxy', k, a)
    BY <1>2, <2>5, <2>6, <2>8, <2>9 DEF Routed
  <2>11. Gets(n, net', k, a)
    <3>1. Gets(n, Put(n, k, a), k, a)
      BY <1>5, <2>8, SentPut
    <3> QED BY <2>1, <2>7, <3>1
  <2>12. Keyed(net')
    <3>1. Keyed(Put(n, k, a))
      BY <1>2, <1>5, <2>8, PutKeyed
    <3> QED BY <2>1, <2>7, <3>1
  <2>13. Routes(e, proxy', n)
    BY <1>5, ClearServes
  <2>14. /\ Suits(x.pending, b, gv, fe, net') /\ Asked(b, gv, fe, net', lost)
         /\ Routes(e, proxy', net')
    BY <1>5, <2>10, <2>11, <2>13, GetsSuits
  <2> QED BY <1>2, <1>4, <1>10, <2>1, <2>4, <2>12, <2>14 DEF ServeAt
<1>15. ASSUME NEW p, Settles(l, a, p) PROVE ServeAt(e)'
  <2>1. /\ p \in proxy[l[2]] /\ p.req = a.req /\ p.prev = l[2]
        /\ proxy' = [proxy EXCEPT ![l[2]] = @ \ {p}] /\ net' = n
        /\ relay' = Settled(l[2], a.ok, p.keys) /\ halted' = halted
    BY <1>3, <1>15 DEF Settles
  <2>2. Returns(e, proxy')
    BY <1>13, <2>1
  <2>3. p \in Noted(l[2])
    BY <1>13, <2>1
  <2>4. l[2] = e
    BY <1>13, <2>1
  <2>5. PICK ks \in SUBSET KeyIds : ks = p.keys
    BY <2>3 DEF Noted
  <2>6. ks = x.pending
    BY <1>6, <1>7, <1>11, <2>1, <2>4, <2>5 DEF Recalled
  <2>7. Source(x.buf) /\ Reserved(x.buf) = ks
    BY <1>6, <1>11, <2>6 DEF Waiting
  <2>8. PICK c : c = IF a.ok THEN Each(ConfirmKey, relay[e].buf, ks)
                             ELSE Each(DiscardKey, relay[e].buf, ks)
    OBVIOUS
  <2>9. PICK r2 : r2 = Settled(e, a.ok, ks)
    OBVIOUS
  <2>10. relay' = r2
    BY <2>1, <2>4, <2>5, <2>9
  <2>11. Keeps(x.buf, c) /\ r2[e].buf = c
    BY <1>4, <1>7, <2>8, <2>9, SettledWhole
  <2>12. r2[e].pending = x.pending
    BY <1>4, <1>7, <2>8, <2>9, SettledWhole
  <2>13. r2[Far(e)] = relay[Far(e)]
    BY <1>7, <2>8, <2>9, SettledWhole
  <2>14. Stocks(c, b)
    <3>1. CASE a.ok
      <4>1. c = Each(ConfirmKey, x.buf, ks)
        BY <1>4, <2>8, <3>1
      <4>2. Reserved(c) = {}
        BY <2>7, <4>1, ConfirmsSource
      <4>3. Reserved(x.buf) \subseteq Owned(b)
        BY <1>9, <2>6, <2>7, <3>1
      <4> QED BY <1>10, <2>7, <2>11, <4>2, <4>3, StocksSettled
    <3>2. CASE ~a.ok
      <4>1. c = Each(DiscardKey, x.buf, ks)
        BY <1>4, <2>8, <3>2
      <4>2. Reserved(c) = {}
        BY <2>7, <4>1, DiscardsSource
      <4>3. Owned(c) \subseteq Owned(x.buf) \ Reserved(x.buf)
        BY <2>7, <4>1, DiscardsErase
      <4> QED BY <1>10, <2>7, <4>2, <4>3, StocksSettled
    <3> QED BY <3>1, <3>2
  <2>15. Agrees(Owned(c), b, gv, fe)
    <3>1. Owned(c) \subseteq Owned(x.buf)
      BY <2>11 DEF Keeps, Owned
    <3> QED BY <1>10, <3>1, AgreesLess
  <2>16. Routes(e, proxy', n)
    BY <1>5, ClearServes
  <2>17. relay'[e].buf = c /\ relay'[e].pending = x.pending /\ relay'[Far(e)].buf = b
    BY <1>4, <2>10, <2>11, <2>12, <2>13
  <2> QED BY <1>2, <1>4, <1>5, <1>10, <2>1, <2>2, <2>14, <2>15, <2>16, <2>17 DEF ServeAt
<1> QED BY <1>1, <1>12, <1>14, <1>15, ResponseEffect

(* What is not asked for any more by the message taken.                    *)
LEMMA OtherRequests ==
  ASSUME NEW n, NEW q, NEW l, NEW m, Loses(n, q, l, m), NEW s, s # m.supply
  PROVE  Requests(n, s) => Requests(q, s)
  BY DEF Loses, Requests

(* The destination after a supply key is made of m.key.                    *)
LEMMA SupplyServes ==
  ASSUME NEW x, NEW b, NEW gv, NEW fe, Plain(b), Agrees(Owned(x.buf), b, gv, fe),
         Stocks(x.buf, b), NEW m, m.type = "skey", m.key \in KeyIds, m.supply \in SupplyIds,
         Apt(x.pending, b, gv, fe, m), NEW c, c = Supply(b, m)
  PROVE  /\ Agrees(Owned(x.buf), c, gv, fe) /\ Stocks(x.buf, c)
         /\ UsesUp(b, c, m.key, m.supply) /\ m.key \notin Owned(x.buf)
<1>1. gv[m.supply] = {<<m.key, 1>>} /\ Held(b, m.key) /\ b.supply[m.supply] = {}
      /\ fe[m.supply] = {}
  BY DEF Apt
<1>2. PICK k \in KeyIds, s \in SupplyIds : k = m.key /\ s = m.supply
  OBVIOUS
<1>3. k \in KeysOf(gv)
  <2>1. <<k, 1>> \in gv[s] /\ <<k, 1>>[1] = k
    BY <1>1, <1>2
  <2> QED BY <2>1 DEF KeysOf
<1>4. k \notin Owned(x.buf)
  BY <1>3 DEF Agrees
<1>5. Whole(b)
  BY DEF Agrees
<1>6. Stocks(x.buf, c) /\ UsesUp(b, c, m.key, m.supply) /\ Whole(c)
  <2>1. m.key \notin Owned(x.buf)
    BY <1>2, <1>4
  <2> QED BY <1>1, <1>5, <2>1, StockSupplies
<1>7. c.supply = [b.supply EXCEPT ![s] = {<<k, 1>>}] /\ Owned(c) = Owned(b) \ {k}
  BY <1>2, <1>6 DEF UsesUp
<1>8. c.supply[s] = {<<k, 1>>} /\ \A t \in SupplyIds : t # s => c.supply[t] = b.supply[t]
  BY <1>7, PlainFields
<1>9. \A t \in SupplyIds : c.supply[t] \in {{}, gv[t]} /\ fe[t] \in {{}, gv[t]}
  <2>1. \A t \in SupplyIds : b.supply[t] \in {{}, gv[t]} /\ fe[t] \in {{}, gv[t]}
    BY DEF Agrees
  <2> QED BY <1>1, <1>2, <1>8, <2>1
<1>10. KeysOf(c.supply) \subseteq KeysOf(b.supply) \cup {k}
  <2>1. <<k, 1>>[1] = k
    OBVIOUS
  <2> QED BY <1>8, <2>1 DEF KeysOf
<1>11. KeysOf(b.supply) \cap Owned(b) = {} /\ KeysOf(fe) \cap Owned(b) = {}
  BY DEF Agrees
<1>12. KeysOf(c.supply) \cap Owned(c) = {} /\ KeysOf(fe) \cap Owned(c) = {}
  BY <1>7, <1>10, <1>11
<1>13. /\ \A t \in SupplyIds : gv[t] # {} => \E j \in KeyIds : gv[t] = {<<j, 1>>}
       /\ KeysOf(gv) \cap Owned(x.buf) = {}
  BY DEF Agrees
<1>14. Agrees(Owned(x.buf), c, gv, fe)
  BY <1>6, <1>9, <1>12, <1>13 DEF Agrees
<1> QED BY <1>2, <1>4, <1>6, <1>14

LEMMA CreateServe ==
  ASSUME Types, NEW e \in Serving, WatchAt(e), ServeAt(e),
         NEW l \in Link, ProcessSKeyCreateRequest(l[1], l[2])
  PROVE  ServeAt(e)'
<1>1. PICK m, dst : m = Head(net[l]) /\ dst = Far(m.src)
  OBVIOUS
<1>2. /\ net[l] # <<>> /\ m \in Message /\ m.type = "skey" /\ m.key \in KeyIds
      /\ m.supply \in SupplyIds /\ dst \in End
      /\ UNCHANGED <<enc, dec, proxy, halted, served, fetched, lost>>
  BY <1>1, CreateEffect
<1>3. PICK n : n = Drop(net, l)
  OBVIOUS
<1>4. PICK x, b, gv, fe :
        x = relay[e] /\ b = relay[Far(e)].buf /\ gv = served[e] /\ fe = fetched[Far(e)]
  OBVIOUS
<1>5. /\ n \in Nets /\ Keyed(n) /\ Carried(e, x, n) /\ Right(e, x, l, m)
      /\ Suits(x.pending, b, gv, fe, n) /\ Apt(x.pending, b, gv, fe, m)
      /\ Routes(e, proxy, n) /\ Loses(net, n, l, m)
  BY <1>1, <1>2, <1>3, <1>4, DropServe
<1>6. \A k \in Link : \A a : Sent(n, k, a) /\ a.type = "skey" => a.key # m.key
  <2>1. net \in Nets
    BY DEF Types
  <2>2. Head(net[l]).type = "skey" =>
          \A k \in Link : \A a : Sent(Drop(net, l), k, a) /\ a.type = "skey" => a.key # Head(net[l]).key
    BY <1>2, <2>1, DropKeyed DEF ServeAt
  <2> QED BY <1>1, <1>2, <1>3, <2>2
<1>7. /\ m.src = e /\ dst = Far(e) /\ e \in End /\ Far(e) # e /\ l[1] \in Node /\ l[2] \in Node
      /\ <<l[2], l[1]>> \in Link
  <2>1. m.src = e
    BY <1>2, <1>5 DEF Right
  <2> QED BY <1>1, <2>1, ServingEnds, PathFacts
<1>8. /\ Agrees(Owned(x.buf), b, gv, fe) /\ Unused(gv, enc) /\ Stocks(x.buf, b)
      /\ Returns(e, proxy) /\ halted = {} /\ Asked(b, gv, fe, net, lost)
  BY <1>4 DEF ServeAt
<1>9. CASE Forwards(l, m, dst)
  <2>1. PICK out : out = <<l[2], NextHop(l[2], dst)>>
    OBVIOUS
  <2>2. out \in Link
    BY <1>2, <1>7, <1>9, <2>1, PathFacts DEF Forwards
  <2>3. relay' = relay /\ net' = Put(n, out, m)
    BY <1>3, <1>9, <2>1 DEF Forwards
  <2>4. Gets(n, net', out, m)
    <3>1. Gets(n, Put(n, out, m), out, m)
      BY <1>5, <2>2, SentPut
    <3> QED BY <2>3, <3>1
  <2>5. Keyed(net')
    <3>1. Keyed(Put(n, out, m))
      BY <1>5, <1>6, <2>2, PutKeyed
    <3> QED BY <2>3, <3>1
  <2>6. Routed(e, proxy, out, m)
    BY <1>2 DEF Routed
  <2>7. Suits(x.pending, b, gv, fe, net') /\ Routes(e, proxy, net')
    BY <1>5, <2>4, <2>6, GetsSuits
  <2>8. ASSUME NEW s, Requests(net, s) PROVE Requests(net', s)
    <3>1. CASE s = m.supply
      BY <1>2, <2>2, <2>4, <3>1 DEF Gets, Requests
    <3>2. CASE s # m.supply
      <4>1. Requests(n, s)
        BY <1>5, <2>8, <3>2, OtherRequests
      <4> QED BY <2>4, <4>1 DEF Gets, Requests
    <3> QED BY <3>1, <3>2
  <2>9. Asked(b, gv, fe, net', lost)
    BY <1>8, <2>8 DEF Asked
  <2> QED BY <1>2, <1>4, <1>8, <2>3, <2>5, <2>7, <2>9 DEF ServeAt
<1>10. CASE Makes(l, m, dst)
  <2>1. PICK c : c = Supply(b, m)
    OBVIOUS
  <2>2. Plain(b)
    BY <1>2, <1>4, <1>7 DEF Types, Ends
  <2>3. /\ Agrees(Owned(x.buf), c, gv, fe) /\ Stocks(x.buf, c)
        /\ UsesUp(b, c, m.key, m.supply) /\ m.key \notin Owned(x.buf)
    BY <1>2, <1>5, <1>8, <2>1, <2>2, SupplyServes
  <2>4. PICK k \in KeyIds, s \in SupplyIds : k = m.key /\ s = m.supply
    BY <1>2
  <2>5. Owned(c) = Owned(b) \ {k} /\ k \notin Owned(x.buf)
    BY <2>3, <2>4 DEF UsesUp
  <2>6. c.supply[s] = {<<k, 1>>} /\ \A t \in SupplyIds : t # s => c.supply[t] = b.supply[t]
    <3>1. c.supply = [b.supply EXCEPT ![s] = {<<k, 1>>}]
      BY <2>3, <2>4 DEF UsesUp
    <3> QED BY <2>2, <3>1, PlainFields
  <2>7. gv[s] = {<<k, 1>>}
    BY <1>2, <1>5, <2>4 DEF Apt
  <2>8. Suits(x.pending, c, gv, fe, n)
    <3> SUFFICES ASSUME NEW j \in Link, NEW a, Sent(n, j, a) PROVE Apt(x.pending, c, gv, fe, a)
      BY DEF Suits
    <3>1. Apt(x.pending, b, gv, fe, a) /\ a \in Message
      BY <1>5, SentTyped DEF Suits
    <3>2. a.type = "skey" => Held(c, a.key) /\ c.supply[a.supply] = {}
      <4> SUFFICES ASSUME a.type = "skey" PROVE Held(c, a.key) /\ c.supply[a.supply] = {}
        OBVIOUS
      <4>1. a.key \in KeyIds /\ a.supply \in SupplyIds /\ a.key # k
        BY <1>6, <2>4, <3>1, MessageKinds
      <4>2. gv[a.supply] = {<<a.key, 1>>} /\ Held(b, a.key) /\ b.supply[a.supply] = {}
        BY <3>1 DEF Apt
      <4>3. a.supply # s
        <5>1. <<a.key, 1>> # <<k, 1>>
          BY <4>1
        <5> QED BY <2>7, <4>2, <5>1
      <4>4. Held(c, a.key)
        BY <2>5, <4>1, <4>2 DEF Owned
      <4> QED BY <2>6, <4>1, <4>2, <4>3, <4>4
    <3>3. a.type = "relay" => a.keys \cap Owned(c) = {}
      BY <2>5, <3>1 DEF Apt
    <3>4. a.type = "relayed" => (a.ok => x.pending \subseteq Owned(c))
      <4> SUFFICES ASSUME a.type = "relayed", a.ok PROVE x.pending \subseteq Owned(c)
        OBVIOUS
      <4>1. x.active
        <5>1. Right(e, x, j, a)
          BY <1>5, SentCarried
        <5> QED BY <5>1 DEF Right, Tracked
      <4>2. Reserved(x.buf) = x.pending
        BY <1>4, <4>1 DEF WatchAt, Waiting
      <4>3. x.pending \subseteq Owned(x.buf)
        BY <4>2 DEF Reserved, Owned, Held
      <4>4. x.pending \subseteq Owned(b)
        BY <3>1 DEF Apt
      <4> QED BY <2>5, <4>3, <4>4
    <3> QED BY <3>1, <3>2, <3>3, <3>4 DEF Apt
  <2>9. Asked(c, gv, fe, n, lost)
    <3> SUFFICES ASSUME NEW t \in SupplyIds, gv[t] # {}, c.supply[t] = {}, fe[t] = {}
                 PROVE  lost > 0 \/ Requests(n, t)
      BY DEF Asked
    <3>1. t # s
      BY <2>6
    <3>2. lost > 0 \/ Requests(net, t)
      BY <1>8, <2>6, <3>1 DEF Asked
    <3> QED BY <1>5, <2>4, <3>1, <3>2, OtherRequests
  <2>10. PICK back, q : back = <<l[2], l[1]>> /\ q = [type |-> "created"]
    OBVIOUS
  <2>11. q.type = "created" /\ back \in Link /\ net' = Put(n, back, q)
    BY <1>3, <1>7, <1>10, <2>10 DEF Makes
  <2>12. Gets(n, net', back, q)
    <3>1. Gets(n, Put(n, back, q), back, q)
      BY <1>5, <2>11, SentPut
    <3> QED BY <2>11, <3>1
  <2>13. Keyed(net')
    <3>1. Keyed(Put(n, back, q))
      BY <1>5, <2>11, PutKeyed
    <3> QED BY <2>11, <3>1
  <2>14. Routed(e, proxy, back, q) /\ Apt(x.pending, c, gv, fe, q)
    BY <2>11 DEF Routed, Apt
  <2>15. /\ Suits(x.pending, c, gv, fe, net') /\ Asked(c, gv, fe, net', lost)
         /\ Routes(e, proxy, net')
    BY <1>5, <2>8, <2>9, <2>12, <2>14, GetsSuits
  <2>16. relay'[e] = x /\ relay'[Far(e)].buf = c
    <3>1. PICK y : y = [relay[dst] EXCEPT !.buf = c]
      OBVIOUS
    <3>2. relay[dst] \in EndState
      BY <1>2 DEF Types, Ends
    <3>3. y.buf = c
      BY <3>1, <3>2 DEF EndState
    <3>4. relay' = [relay EXCEPT ![dst].buf = c]
      BY <1>4, <1>7, <1>10, <2>1 DEF Makes
    <3>5. relay' = [relay EXCEPT ![dst] = y]
      BY <3>1, <3>2, <3>4 DEF EndState
    <3>6. relay'[dst] = y /\ \A f \in End : f # dst => relay'[f] = relay[f]
      BY <1>2, <3>5 DEF Types, Ends
    <3> QED BY <1>4, <1>7, <3>3, <3>6
  <2> QED BY <1>2, <1>4, <1>8, <2>3, <2>13, <2>15, <2>16 DEF ServeAt
<1> QED BY <1>1, <1>9, <1>10, CreateEffect

LEMMA CreatedServe ==
  ASSUME Types, NEW e \in Serving, WatchAt(e), ServeAt(e),
         NEW l \in Link, ProcessSKeyCreateResponse(l[1], l[2])
  PROVE  ServeAt(e)'
<1>1. PICK m : m = Head(net[l])
  OBVIOUS
<1>2. /\ net[l] # <<>> /\ m \in Message /\ m.type = "created"
      /\ UNCHANGED <<relay, enc, dec, proxy, halted, served, fetched, lost>>
  BY <1>1, CreatedEffect
<1>3. PICK n : n = Drop(net, l)
  OBVIOUS
<1>4. PICK x, b, gv, fe :
        x = relay[e] /\ b = relay[Far(e)].buf /\ gv = served[e] /\ fe = fetched[Far(e)]
  OBVIOUS
<1>5. /\ n \in Nets /\ Keyed(n) /\ Suits(x.pending, b, gv, fe, n)
      /\ Routes(e, proxy, n) /\ Asked(b, gv, fe, n, lost)
  <2>1. m.type # "skey"
    BY <1>2
  <2> QED BY <1>1, <1>2, <1>3, <1>4, <2>1, DropServe
<1>6. /\ Agrees(Owned(x.buf), b, gv, fe) /\ Unused(gv, enc) /\ Stocks(x.buf, b)
      /\ Returns(e, proxy) /\ halted = {}
  BY <1>4 DEF ServeAt
<1>7. \/ net' = n
      \/ \E k : <<l[2], k>> \in Link /\ net' = Put(n, <<l[2], k>>, m)
  BY <1>1, <1>3, CreatedEffect
<1>8. /\ Keyed(net') /\ Suits(x.pending, b, gv, fe, net')
      /\ Routes(e, proxy, net') /\ Asked(b, gv, fe, net', lost)
  <2>1. CASE net' = n
    BY <1>5, <2>1
  <2>2. ASSUME NEW k, <<l[2], k>> \in Link, net' = Put(n, <<l[2], k>>, m)
        PROVE  /\ Keyed(net') /\ Suits(x.pending, b, gv, fe, net')
               /\ Routes(e, proxy, net') /\ Asked(b, gv, fe, net', lost)
    <3>1. PICK out : out = <<l[2], k>>
      OBVIOUS
    <3>2. out \in Link /\ net' = Put(n, out, m)
      BY <2>2, <3>1
    <3>3. Gets(n, net', out, m)
      <4>1. Gets(n, Put(n, out, m), out, m)
        BY <1>5, <3>2, SentPut
      <4> QED BY <3>2, <4>1
    <3>4. Keyed(net')
      <4>1. Keyed(Put(n, out, m))
        BY <1>2, <1>5, <3>2, PutKeyed
      <4> QED BY <3>2, <4>1
    <3>5. Routed(e, proxy, out, m) /\ Apt(x.pending, b, gv, fe, m)
      BY <1>2 DEF Routed, Apt
    <3> QED BY <1>5, <3>3, <3>4, <3>5, GetsSuits
  <2> QED BY <1>7, <2>1, <2>2
<1> QED BY <1>2, <1>4, <1>6, <1>8 DEF ServeAt

LEMMA TimeoutServe ==
  ASSUME LateAnswers = FALSE, Types, NEW e \in Serving, WatchAt(e), ServeAt(e),
         NEW f \in End, NEW g, RelayTimeoutCheck(f, g)
  PROVE  ServeAt(e)'
<1>1. e \in End /\ Far(e) \in End /\ Far(e) # e /\ relay[e] \in EndState
  BY ServingEnds DEF Types, Ends
<1>2. f = e /\ g \in relay[e].timers
  <2>1. g \in relay[f].timers
    BY DEF RelayTimeoutCheck
  <2> QED BY <2>1, ServingEnds DEF WatchAt, Passive
<1>3. PICK x, b, gv, fe :
        x = relay[e] /\ b = relay[Far(e)].buf /\ gv = served[e] /\ fe = fetched[Far(e)]
  OBVIOUS
<1>4. Source(x.buf) /\ Reserved(x.buf) = (IF x.active THEN x.pending ELSE {})
  BY <1>3 DEF WatchAt, Waiting
<1>5. PICK y : y = IF Current(e, g)
         THEN [buf |-> Each(DiscardKey, x.buf, x.pending), active |-> FALSE,
               pending |-> {}, gen |-> g, timers |-> x.timers \ {g}]
         ELSE [x EXCEPT !.timers = @ \ {g}]
  OBVIOUS
<1>6. relay' = [relay EXCEPT ![e] = y]
      /\ UNCHANGED <<enc, dec, net, proxy, halted, served, fetched, lost>>
  BY <1>2, <1>3, <1>5 DEF RelayTimeoutCheck
<1>7. relay'[e] = y /\ relay'[Far(e)] = relay[Far(e)]
  BY <1>1, <1>6 DEF Types, Ends
<1>8. /\ Agrees(Owned(x.buf), b, gv, fe) /\ Unused(gv, enc) /\ Stocks(x.buf, b)
      /\ Suits(x.pending, b, gv, fe, net) /\ Keyed(net) /\ Asked(b, gv, fe, net, lost)
      /\ Routes(e, proxy, net) /\ Returns(e, proxy) /\ halted = {}
  BY <1>3 DEF ServeAt
<1>9. CASE Current(e, g)
  <2>1. x.gen = g /\ x.active
    BY <1>3, <1>9 DEF Current
  <2>2. PICK c : c = Each(DiscardKey, x.buf, x.pending)
    OBVIOUS
  <2>3. y = [buf |-> c, active |-> FALSE, pending |-> {}, gen |-> g, timers |-> x.timers \ {g}]
    BY <1>5, <1>9, <2>2
  <2>4. y.buf = c /\ y.pending = {}
    BY <2>3
  <2>5. Reserved(c) = {} /\ Owned(c) \subseteq Owned(x.buf) \ Reserved(x.buf)
    BY <1>4, <2>1, <2>2, DiscardsSource, DiscardsErase
  <2>6. Stocks(c, b)
    BY <1>4, <1>8, <2>5, StocksSettled
  <2>7. Agrees(Owned(c), b, gv, fe)
    <3>1. Owned(c) \subseteq Owned(x.buf)
      BY <2>5
    <3> QED BY <1>8, <3>1, AgreesLess
  <2>8. Clear(net)
    <3>1. ~OnTheWay(<<e, g>>)
      BY <1>2, <1>9 DEF RelayTimeoutCheck
    <3>2. SUFFICES ASSUME NEW l \in Link, NEW i \in 1 .. Len(net[l]), Tracked(net[l][i])
                   PROVE  FALSE
      BY DEF Clear
    <3>3. i \in DOMAIN net[l]
      BY DEF Types, Nets
    <3>4. net[l][i].req = <<e, g>>
      BY <1>3, <2>1, <3>2 DEF WatchAt, Carried, Right
    <3>5. net[l][i].type \in {"relay", "relayed"}
      BY <3>2 DEF Tracked
    <3> QED BY <3>1, <3>3, <3>4, <3>5 DEF OnTheWay
  <2>9. Suits({}, b, gv, fe, net)
    BY <1>8, <2>8, ClearServes
  <2>10. relay'[e].buf = c /\ relay'[e].pending = {} /\ relay'[Far(e)].buf = b
    BY <1>3, <1>7, <2>4
  <2> QED BY <1>3, <1>6, <1>8, <2>6, <2>7, <2>9, <2>10 DEF ServeAt
<1>10. CASE ~Current(e, g)
  <2>1. y = [x EXCEPT !.timers = @ \ {g}]
    BY <1>5, <1>10
  <2>2. y.buf = x.buf /\ y.pending = x.pending
    BY <1>1, <1>3, <2>1 DEF EndState
  <2>3. relay'[e].buf = x.buf /\ relay'[e].pending = x.pending /\ relay'[Far(e)].buf = b
    BY <1>3, <1>7, <2>2
  <2> QED BY <1>3, <1>6, <1>8, <2>3 DEF ServeAt
<1> QED BY <1>9, <1>10

(* What ServeAt says of the end in x, before it checks its buffer.         *)
Serves(e, x, b, gv, fe, en, px, n, ls) ==
  /\ Agrees(Owned(x.buf), b, gv, fe) /\ Unused(gv, en) /\ Stocks(x.buf, b)
  /\ Suits(x.pending, b, gv, fe, n) /\ Keyed(n) /\ Asked(b, gv, fe, n, ls)
  /\ Routes(e, px, n) /\ Returns(e, px)

LEMMA ServesAt ==
  ASSUME NEW e
  PROVE  ServeAt(e) <=>
           /\ Serves(e, relay[e], relay[Far(e)].buf, served[e], fetched[Far(e)], enc, proxy, net, lost)
           /\ halted = {}
<1>1. ServeAt(e) =>
           /\ Serves(e, relay[e], relay[Far(e)].buf, served[e], fetched[Far(e)], enc, proxy, net, lost)
           /\ halted = {}
  BY DEF ServeAt, Serves
<1>2. /\ Serves(e, relay[e], relay[Far(e)].buf, served[e], fetched[Far(e)], enc, proxy, net, lost)
      /\ halted = {}
      => ServeAt(e)
  BY DEF ServeAt, Serves
<1> QED BY <1>1, <1>2

LEMMA FinishServe ==
  ASSUME Types, PadInv, NEW e \in Serving, NEW x \in EndState, Waiting(x), x.gen < MaxRelays,
         Owned(x.buf) \subseteq Owned(relay[e].buf),
         NEW asks \in Seq(Message), Finish(e, x, asks),
         NEW n \in Nets, n = [net EXCEPT ![Way(e)] = @ \o asks], Carried(e, x, n),
         NEW b, b = relay[Far(e)].buf, NEW gv, NEW fe,
         Serves(e, x, b, gv, fe, enc, proxy, n, lost)
  PROVE  /\ Serves(e, relay'[e], b, gv, fe, enc', proxy', net', lost)
         /\ relay'[Far(e)] = relay[Far(e)]
<1>1. e \in End /\ e \in Node /\ Far(e) \in End /\ Far(e) # e /\ Way(e) \in Link /\ Way(e)[1] = e
  BY WayLink, ServingEnds
<1>2. CASE Quiet(e, x, asks)
  <2>1. relay'[e] = x /\ relay'[Far(e)] = relay[Far(e)]
    BY <1>1, <1>2 DEF Quiet, Types, Ends
  <2>2. proxy' = proxy /\ net' = n /\ enc' = enc
    BY <1>2 DEF Quiet
  <2> QED BY <2>1, <2>2
<1>3. ASSUME NEW ks, Begins(e, x, ks, asks)
      PROVE  /\ Serves(e, relay'[e], b, gv, fe, enc', proxy', net', lost)
             /\ relay'[Far(e)] = relay[Far(e)]
  <2>1. ks \subseteq enc[Way(e)] /\ ks \in SUBSET KeyIds /\ ~x.active
    BY <1>1, <1>3 DEF Begins, Types
  <2>2. PICK m : m = [type |-> "relay", req |-> <<e, x.gen + 1>>, keys |-> ks, pads |-> {}]
    OBVIOUS
  <2>3. n[Way(e)] \in Seq(Message) /\ net[Way(e)] \o asks = n[Way(e)]
    BY <1>1 DEF Nets, Types
  <2>4. PICK req : req = <<e, x.gen + 1>>
    OBVIOUS
  <2>5. m \in Message /\ m.type = "relay" /\ m.req = req /\ m.keys = ks
    <3>1. <<e, x.gen + 1>> \in Request
      <4>1. Plain(x.buf)
        BY DEF Waiting, Source
      <4> QED BY <1>1, <2>1, <4>1, ReservedTyped DEF Request
    <3> QED BY <2>1, <2>2, <2>4, <3>1 DEF Message
  <2>6. net' = Put(n, Way(e), m)
    <3>1. n[Way(e)] \o <<m>> = Append(n[Way(e)], m)
      BY <2>3, <2>5
    <3>2. net' = [net EXCEPT ![Way(e)] = n[Way(e)] \o <<m>>]
      BY <1>3, <2>2, <2>3 DEF Begins
    <3>3. net' = [n EXCEPT ![Way(e)] = n[Way(e)] \o <<m>>]
      BY <1>1, <3>2 DEF Types, Nets
    <3> QED BY <3>1, <3>3 DEF Put
  <2>7. PICK c : c = Each(ReserveKey, x.buf, ks)
    OBVIOUS
  <2>8. relay'[e] = Begun(x, ks) /\ relay'[Far(e)] = relay[Far(e)]
    BY <1>1, <1>3 DEF Begins, Types, Ends
  <2>9. relay'[e].buf = c /\ relay'[e].pending = ks
    BY <2>7, <2>8 DEF Begun
  <2>10. /\ Agrees(Owned(x.buf), b, gv, fe) /\ Unused(gv, enc) /\ Stocks(x.buf, b)
         /\ Suits(x.pending, b, gv, fe, n) /\ Keyed(n) /\ Asked(b, gv, fe, n, lost)
         /\ Routes(e, proxy, n) /\ Returns(e, proxy)
    BY DEF Serves
  <2>11. Source(x.buf) /\ Reserved(x.buf) = {} /\ Clear(n)
    BY <2>1, IdleClear DEF Waiting
  <2>12. ks \cap Owned(x.buf) = {} /\ ks \cap Owned(b) = {} /\ ks \cap KeysOf(gv) = {}
    <3>1. enc[Way(e)] \cap Owned(relay[e].buf) = {} /\ enc[Way(e)] \cap Owned(relay[Far(e)].buf) = {}
      BY <1>1 DEF PadInv, Stock
    <3>2. KeysOf(gv) \cap enc[Way(e)] = {}
      BY <1>1, <2>10 DEF Unused
    <3> QED BY <2>1, <3>1, <3>2
  <2>13. Reserved(c) = ks
    <3>1. Cardinality(enc[Way(e)]) \in Nat
      <4>1. enc[Way(e)] \in SUBSET KeyIds
        BY <1>1 DEF Types
      <4> QED BY <4>1, OwnedFinite
    <3>2. x.buf.bits + Cardinality(ks) <= Mmax
      BY <1>3, <2>11, <3>1, AmountFits DEF Begins
    <3> QED BY <2>1, <2>7, <2>11, <2>12, <3>2, ReservesSource
  <2>14. Owned(c) \subseteq Owned(x.buf) \cup ks
    <3>1. Plain(x.buf)
      BY <2>11 DEF Source
    <3>2. \A j \in KeyIds : Held(c, j) => Held(x.buf, j) \/ j \in ks
      BY <2>1, <2>7, <3>1, EachReserves
    <3> QED BY <3>2 DEF Owned
  <2>15. Agrees(Owned(c), b, gv, fe)
    <3>1. KeysOf(gv) \cap Owned(c) = {}
      <4>1. KeysOf(gv) \cap Owned(x.buf) = {}
        BY <2>10 DEF Agrees
      <4> QED BY <2>12, <2>14, <4>1
    <3> QED BY <2>10, <3>1 DEF Agrees
  <2>16. Stocks(c, b)
    <3>1. Owned(x.buf) \subseteq Owned(b)
      BY <2>10, <2>11 DEF Stocks
    <3>2. Owned(c) \ Reserved(c) \subseteq Owned(b)
      BY <2>13, <2>14, <3>1
    <3> QED BY <2>10, <3>2 DEF Stocks
  <2>17. Unused(gv, enc')
    <3>1. \A l \in Link : enc'[l] \subseteq enc[l]
      BY <1>1, <1>3 DEF Types, Begins
    <3> QED BY <2>10, <3>1 DEF Unused
  <2>18. PICK p1 : p1 = [req |-> req, prev |-> e, keys |-> ks]
    OBVIOUS
  <2>19. proxy'[e] = proxy[e] \cup {p1} /\ \A j \in Node : j # e => proxy'[j] = proxy[j]
    <3>1. proxy' = [proxy EXCEPT ![e] = @ \cup {p1}]
      BY <1>3, <2>4, <2>18 DEF Begins
    <3> QED BY <1>1, <3>1 DEF Types, Proxies
  <2>20. Returns(e, proxy')
    BY <2>10, <2>19 DEF Returns
  <2>21. Routed(e, proxy', Way(e), m)
    <3>1. Tracks(proxy', e, req)
      BY <2>18, <2>19 DEF Tracks
    <3>2. \A k \in Node : Behind(e, k, e) => k = e
      BY <1>1, BehindSelf
    <3>3. \A k \in Node : Behind(e, k, Way(e)[1]) => Tracks(proxy', k, m.req)
      BY <1>1, <2>5, <3>1, <3>2
    <3> QED BY <2>5, <3>3 DEF Routed
  <2>22. Gets(n, net', Way(e), m)
    <3>1. Gets(n, Put(n, Way(e), m), Way(e), m)
      BY <1>1, SentPut
    <3> QED BY <2>6, <3>1
  <2>23. Keyed(net')
    <3>1. Keyed(Put(n, Way(e), m))
      BY <1>1, <2>5, <2>10, PutKeyed
    <3> QED BY <2>6, <3>1
  <2>24. Apt(ks, b, gv, fe, m)
    BY <2>5, <2>12 DEF Apt
  <2>25. Suits(ks, b, gv, fe, n) /\ Routes(e, proxy', n)
    BY <2>10, <2>11, ClearServes
  <2>26. /\ Suits(ks, b, gv, fe, net') /\ Asked(b, gv, fe, net', lost)
         /\ Routes(e, proxy', net')
    BY <2>10, <2>21, <2>22, <2>24, <2>25, GetsSuits
  <2>27. Serves(e, relay'[e], b, gv, fe, enc', proxy', net', lost)
    BY <2>9, <2>15, <2>16, <2>17, <2>20, <2>23, <2>26 DEF Serves
  <2> QED BY <2>8, <2>27
<1> QED BY <1>2, <1>3, FinishEffect

LEMMA RefusedServe ==
  ASSUME Types, PadInv, NEW e \in Serving, WatchAt(e), ServeAt(e), NEW f \in End,
         EncKeysRefused(f)
  PROVE  ServeAt(e)'
<1>0. f = e /\ e \in End /\ Way(e) \in Link
  BY ServingEnds, WayLink DEF EncKeysRefused
<1>1. PICK x, b, gv, fe :
        x = relay[e] /\ b = relay[Far(e)].buf /\ gv = served[e] /\ fe = fetched[Far(e)]
  OBVIOUS
<1>2. x.gen < MaxRelays /\ x \in EndState /\ Waiting(x) /\ Carried(e, x, net)
      /\ UNCHANGED <<halted, served, fetched, lost>>
  BY <1>0, <1>1 DEF EncKeysRefused, Types, Ends, WatchAt
<1>3. PICK asks \in Seq(Message) : asks = <<>>
  BY EmptySeq
<1>4. Finish(e, x, asks)
  BY <1>0, <1>1, <1>3 DEF EncKeysRefused
<1>5. PICK n : n = [net EXCEPT ![Way(e)] = @ \o asks]
  OBVIOUS
<1>6. n = net /\ n \in Nets
  <2>1. net[Way(e)] \in Seq(Message)
    BY <1>0 DEF Types, Nets
  <2>2. net[Way(e)] \o asks = net[Way(e)]
    BY <1>3, <2>1, ConcatEmptySeq
  <2> QED BY <1>5, <2>2 DEF Types, Nets
<1>7. Serves(e, x, b, gv, fe, enc, proxy, n, lost) /\ halted = {} /\ Carried(e, x, n)
  BY <1>1, <1>2, <1>6, ServesAt
<1>8. Owned(x.buf) \subseteq Owned(relay[e].buf)
  BY <1>1
<1>9. /\ Serves(e, relay'[e], b, gv, fe, enc', proxy', net', lost)
      /\ relay'[Far(e)] = relay[Far(e)]
  BY <1>1, <1>2, <1>4, <1>5, <1>6, <1>7, <1>8, FinishServe
<1> QED BY <1>1, <1>2, <1>7, <1>9 DEF Serves, ServeAt

(* What has been given with a new supply key of k.                         *)
Gives(gv, gv2, s, k) ==
  gv2[s] = {<<k, 1>>} /\ \A t \in SupplyIds : t # s => gv2[t] = gv[t]

LEMMA GivesKeys ==
  ASSUME NEW gv, NEW gv2, NEW s \in SupplyIds, NEW k, Gives(gv, gv2, s, k)
  PROVE  KeysOf(gv2) \subseteq KeysOf(gv) \cup {k}
<1>1. <<k, 1>>[1] = k
  OBVIOUS
<1> QED BY <1>1 DEF Gives, KeysOf

LEMMA GivesServes ==
  ASSUME NEW e, NEW x, NEW b, NEW gv, NEW fe, NEW en, NEW px, NEW n \in Nets, NEW ls,
         Serves(e, x, b, gv, fe, en, px, n, ls), Carried(e, x, n), Waiting(x),
         NEW k \in KeyIds, x.buf.st[k] = "READY", NEW s \in SupplyIds, gv[s] = {},
         NEW gv2, Gives(gv, gv2, s, k), NEW y, y.pending = x.pending,
         Owned(y.buf) \subseteq Owned(x.buf) \ {k}, Reserved(y.buf) = Reserved(x.buf),
         \A l \in Link : k \notin en[l],
         NEW l \in Link, NEW m, m.type = "skey", m.key = k, m.supply = s,
         NEW q, q = Put(n, l, m)
  PROVE  Serves(e, y, b, gv2, fe, en, px, q, ls)
<1>1. /\ Agrees(Owned(x.buf), b, gv, fe) /\ Unused(gv, en) /\ Stocks(x.buf, b)
      /\ Suits(x.pending, b, gv, fe, n) /\ Keyed(n) /\ Asked(b, gv, fe, n, ls)
      /\ Routes(e, px, n) /\ Returns(e, px)
  BY DEF Serves
<1>2. k \in Owned(x.buf) /\ k \notin Reserved(x.buf) /\ k \in Owned(b)
  <2>1. k \in Owned(x.buf) /\ k \notin Reserved(x.buf)
    BY DEF Owned, Held, Reserved
  <2> QED BY <1>1, <2>1 DEF Stocks
<1>3. k \notin KeysOf(gv) /\ KeysOf(gv2) \subseteq KeysOf(gv) \cup {k}
  BY <1>1, <1>2, GivesKeys DEF Agrees
<1>4. b.supply[s] = {} /\ fe[s] = {} /\ gv2[s] = {<<k, 1>>}
      /\ \A t \in SupplyIds : t # s => gv2[t] = gv[t]
  <2>1. b.supply[s] \in {{}, gv[s]} /\ fe[s] \in {{}, gv[s]}
    BY <1>1 DEF Agrees
  <2> QED BY <2>1 DEF Gives
<1>5. Agrees(Owned(y.buf), b, gv2, fe)
  <2>1. KeysOf(gv2) \cap Owned(y.buf) = {}
    <3>1. KeysOf(gv) \cap Owned(x.buf) = {}
      BY <1>1 DEF Agrees
    <3> QED BY <1>3, <3>1
  <2>2. \A t \in SupplyIds : b.supply[t] \in {{}, gv2[t]} /\ fe[t] \in {{}, gv2[t]}
    BY <1>1, <1>4 DEF Agrees
  <2>3. \A t \in SupplyIds : gv2[t] # {} => \E j \in KeyIds : gv2[t] = {<<j, 1>>}
    BY <1>1, <1>4 DEF Agrees
  <2> QED BY <1>1, <2>1, <2>2, <2>3 DEF Agrees
<1>6. Unused(gv2, en)
  BY <1>1, <1>3 DEF Unused
<1>7. Stocks(y.buf, b)
  <2>1. Owned(y.buf) \ Reserved(y.buf) \subseteq Owned(b)
    BY <1>1 DEF Stocks
  <2> QED BY <1>1, <2>1 DEF Stocks
<1>8. Suits(x.pending, b, gv2, fe, n)
  <2> SUFFICES ASSUME NEW j \in Link, NEW a, Sent(n, j, a) PROVE Apt(x.pending, b, gv2, fe, a)
    BY DEF Suits
  <2>1. Apt(x.pending, b, gv, fe, a) /\ a \in Message /\ Right(e, x, j, a)
    BY <1>1, SentTyped, SentCarried DEF Suits
  <2>2. a.type = "skey" => gv2[a.supply] = {<<a.key, 1>>}
    <3> SUFFICES ASSUME a.type = "skey" PROVE gv2[a.supply] = {<<a.key, 1>>}
      OBVIOUS
    <3>1. gv[a.supply] = {<<a.key, 1>>} /\ a.supply \in SupplyIds
      BY <2>1, MessageKinds DEF Apt
    <3> QED BY <1>4, <3>1
  <2>3. a.type = "relay" => a.keys \cap KeysOf(gv2) = {}
    <3> SUFFICES ASSUME a.type = "relay" PROVE a.keys \cap KeysOf(gv2) = {}
      OBVIOUS
    <3>1. x.active
      BY <2>1 DEF Right, Tracked
    <3>2. Reserved(x.buf) = x.pending
      BY <3>1 DEF Waiting
    <3>3. a.keys = x.pending /\ a.keys \cap KeysOf(gv) = {}
      BY <2>1 DEF Apt
    <3> QED BY <1>2, <1>3, <3>2, <3>3
  <2> QED BY <2>1, <2>2, <2>3 DEF Apt
<1>9. \A j \in Link : \A a : Sent(n, j, a) /\ a.type = "skey" => a.key # m.key
  <2> SUFFICES ASSUME NEW j \in Link, NEW a, Sent(n, j, a), a.type = "skey" PROVE a.key # k
    OBVIOUS
  <2>1. gv[a.supply] = {<<a.key, 1>>} /\ a.supply \in SupplyIds /\ a.key \in KeyIds
    BY <1>1, SentTyped, MessageKinds DEF Suits, Apt
  <2>2. <<a.key, 1>> \in gv[a.supply] /\ <<a.key, 1>>[1] = a.key
    BY <2>1
  <2>3. a.key \in KeysOf(gv)
    BY <2>1, <2>2 DEF KeysOf
  <2> QED BY <1>3, <2>3
<1>10. Keyed(q)
  <2>1. Keyed(Put(n, l, m))
    BY <1>1, <1>9, PutKeyed
  <2> QED BY <2>1
<1>11. Gets(n, q, l, m)
  <2>1. Gets(n, Put(n, l, m), l, m)
    BY SentPut
  <2> QED BY <2>1
<1>12. Apt(x.pending, b, gv2, fe, m)
  BY <1>2, <1>4 DEF Apt, Owned
<1>13. Routed(e, px, l, m)
  BY DEF Routed
<1>14. Suits(x.pending, b, gv2, fe, q) /\ Routes(e, px, q)
  BY <1>1, <1>8, <1>11, <1>12, <1>13, GetsSuits
<1>15. Asked(b, gv2, fe, q, ls)
  <2> SUFFICES ASSUME NEW t \in SupplyIds, gv2[t] # {}, b.supply[t] = {}, fe[t] = {}
               PROVE  ls > 0 \/ Requests(q, t)
    BY DEF Asked
  <2>1. CASE t = s
    BY <1>11, <2>1 DEF Gets, Requests
  <2>2. CASE t # s
    <3>1. ls > 0 \/ Requests(n, t)
      BY <1>1, <1>4, <2>2 DEF Asked
    <3> QED BY <1>11, <3>1 DEF Gets, Requests
  <2> QED BY <2>1, <2>2
<1> QED BY <1>1, <1>5, <1>6, <1>7, <1>10, <1>14, <1>15 DEF Serves

LEMMA EncServe ==
  ASSUME Types, PadInv, NEW e \in Serving, WatchAt(e), ServeAt(e), NEW f \in End,
         NEW s \in SupplyIds, EncKeys(f, s)
  PROVE  ServeAt(e)'
<1>0. f = e /\ e \in End /\ Way(e) \in Link
  BY ServingEnds, WayLink DEF EncKeys
<1>1. PICK x, b, gv, fe :
        x = relay[e] /\ b = relay[Far(e)].buf /\ gv = served[e] /\ fe = fetched[Far(e)]
  OBVIOUS
<1>2. x.gen < MaxRelays /\ x \in EndState /\ Plain(x.buf) /\ Waiting(x) /\ Carried(e, x, net)
      /\ UNCHANGED <<halted, fetched, lost>>
  BY <1>0, <1>1 DEF EncKeys, Types, Ends, WatchAt
<1>3. PICK k \in Candidates(x.buf, 1) :
        /\ Finish(e, [x EXCEPT !.buf = TransformCandidate(@, k, 1)],
                  <<[type |-> "skey", src |-> e, key |-> k, supply |-> s]>>)
        /\ served' = [served EXCEPT ![e][s] = {<<k, 1>>}]
  BY <1>0, <1>1 DEF EncKeys
<1>4. k \in KeyIds /\ x.buf.st[k] = "READY"
  BY <1>3 DEF Candidates, Enough, ReadyKeys
<1>5. PICK c : c = TransformCandidate(x.buf, k, 1)
  OBVIOUS
<1>6. Source(x.buf)
  BY <1>2 DEF Waiting
<1>7. Source(c) /\ Reserved(c) = Reserved(x.buf) /\ Owned(c) \subseteq Owned(x.buf) \ {k}
  BY <1>4, <1>5, <1>6, TransformSource, TransformErases
<1>8. PICK y : y = [x EXCEPT !.buf = c]
  OBVIOUS
<1>9. /\ y \in EndState /\ y.buf = c /\ y.gen = x.gen /\ y.active = x.active
      /\ y.pending = x.pending /\ y.timers = x.timers
  <2>1. c \in Buffer
    BY <1>7 DEF Source, Plain
  <2> QED BY <1>2, <1>8, <2>1 DEF EndState
<1>10. Waiting(y)
  BY <1>2, <1>7, <1>9 DEF Waiting
<1>11. PICK m : m = [type |-> "skey", src |-> e, key |-> k, supply |-> s]
  OBVIOUS
<1>12. m \in Message /\ m.type = "skey" /\ m.src = e /\ m.key = k /\ m.supply = s
  BY <1>0, <1>4, <1>11 DEF Message
<1>13. PICK asks : asks = <<m>>
  OBVIOUS
<1>14. asks \in Seq(Message) /\ AsksRight(e, asks)
  BY <1>12, <1>13 DEF AsksRight, Tracked
<1>15. Finish(e, y, asks)
  BY <1>3, <1>5, <1>8, <1>11, <1>13
<1>16. PICK n : n = [net EXCEPT ![Way(e)] = @ \o asks]
  OBVIOUS
<1>17. n \in Nets /\ Carried(e, y, n)
  <2>1. net \in Nets /\ Sole(net)
    BY DEF Types, WatchAt
  <2>2. Carried(e, y, net)
    BY <1>2, <1>9, SameAttempt
  <2> QED BY <1>0, <1>14, <1>16, <2>1, <2>2, AsksWatch
<1>18. n = Put(net, Way(e), m)
  <2>1. net[Way(e)] \in Seq(Message)
    BY <1>0 DEF Types, Nets
  <2>2. net[Way(e)] \o asks = Append(net[Way(e)], m)
    BY <1>12, <1>13, <2>1
  <2> QED BY <1>16, <2>2 DEF Put
<1>19. Serves(e, x, b, gv, fe, enc, proxy, net, lost) /\ halted = {}
  BY <1>1, ServesAt
<1>20. PICK gv2 : gv2 = served'[e]
  OBVIOUS
<1>21. Gives(gv, gv2, s, k)
  <2>1. served \in [End -> [SupplyIds -> SUBSET Cell]]
    BY DEF Types, Given
  <2> QED BY <1>0, <1>1, <1>3, <1>20, <2>1 DEF Gives
<1>22. gv[s] = {}
  BY <1>0, <1>1 DEF EncKeys, Fresh
<1>23. \A l \in Link : k \notin enc[l]
  <2>1. k \in Owned(relay[e].buf)
    BY <1>1, <1>4 DEF Owned, Held
  <2> QED BY <1>0, <2>1 DEF PadInv, Stock
<1>24. Owned(y.buf) \subseteq Owned(x.buf) \ {k} /\ Reserved(y.buf) = Reserved(x.buf)
  BY <1>7, <1>9
<1>25. net \in Nets
  BY DEF Types
<1>26. Serves(e, y, b, gv2, fe, enc, proxy, n, lost)
  BY <1>0, <1>2, <1>4, <1>9, <1>12, <1>18, <1>19, <1>21, <1>22, <1>23, <1>24, <1>25, GivesServes
<1>27. Owned(y.buf) \subseteq Owned(relay[e].buf) /\ y.gen < MaxRelays
  BY <1>1, <1>2, <1>9, <1>24
<1>28. /\ Serves(e, relay'[e], b, gv2, fe, enc', proxy', net', lost)
       /\ relay'[Far(e)] = relay[Far(e)]
  BY <1>1, <1>9, <1>10, <1>14, <1>15, <1>16, <1>17, <1>26, <1>27, FinishServe
<1> QED BY <1>1, <1>2, <1>19, <1>20, <1>28 DEF Serves, ServeAt

(* The destination after dec_keys has given the supply key s.              *)
LEMMA TakesServes ==
  ASSUME NEW e, NEW x, NEW b, NEW gv, NEW fe, NEW en, NEW px, NEW n \in Nets, NEW ls,
         Serves(e, x, b, gv, fe, en, px, n, ls), Plain(b),
         NEW s \in SupplyIds, b.supply[s] # {}, NEW c, c = GetSupplyKey(b, s),
         NEW fe2, fe2[s] = b.supply[s], \A t \in SupplyIds : t # s => fe2[t] = fe[t]
  PROVE  Serves(e, x, c, gv, fe2, en, px, n, ls)
<1>1. /\ Agrees(Owned(x.buf), b, gv, fe) /\ Unused(gv, en) /\ Stocks(x.buf, b)
      /\ Suits(x.pending, b, gv, fe, n) /\ Keyed(n) /\ Asked(b, gv, fe, n, ls)
      /\ Routes(e, px, n) /\ Returns(e, px)
  BY DEF Serves
<1>2. b.supply[s] = gv[s] /\ gv[s] # {} /\ Whole(b)
  BY <1>1 DEF Agrees
<1>3. PICK k \in KeyIds : b.supply[s] = {<<k, 1>>}
  BY <1>1, <1>2 DEF Agrees
<1>4. Stocks(x.buf, c) /\ Whole(c) /\ c.st = b.st /\ c.supply = [b.supply EXCEPT ![s] = {}]
  BY <1>1, <1>2, <1>3, StockTakes
<1>5. c.supply[s] = {} /\ \A t \in SupplyIds : t # s => c.supply[t] = b.supply[t]
  BY <1>4, PlainFields
<1>6. Owned(c) = Owned(b) /\ \A j : Held(c, j) <=> Held(b, j)
  BY <1>4 DEF Owned, Held
<1>7. Agrees(Owned(x.buf), c, gv, fe2)
  <2>1. \A t \in SupplyIds : c.supply[t] \in {{}, gv[t]} /\ fe2[t] \in {{}, gv[t]}
    BY <1>1, <1>2, <1>5 DEF Agrees
  <2>2. KeysOf(c.supply) \subseteq KeysOf(b.supply)
    BY <1>5 DEF KeysOf
  <2>3. KeysOf(fe2) \subseteq KeysOf(fe) \cup KeysOf(b.supply)
    BY DEF KeysOf
  <2>4. KeysOf(b.supply) \cap Owned(b) = {} /\ KeysOf(fe) \cap Owned(b) = {}
    BY <1>1 DEF Agrees
  <2>5. KeysOf(c.supply) \cap Owned(c) = {} /\ KeysOf(fe2) \cap Owned(c) = {}
    BY <1>6, <2>2, <2>3, <2>4
  <2> QED BY <1>1, <1>4, <2>1, <2>5 DEF Agrees
<1>8. Suits(x.pending, c, gv, fe2, n)
  <2> SUFFICES ASSUME NEW j \in Link, NEW a, Sent(n, j, a) PROVE Apt(x.pending, c, gv, fe2, a)
    BY DEF Suits
  <2>1. Apt(x.pending, b, gv, fe, a) /\ a \in Message
    BY <1>1, SentTyped DEF Suits
  <2>2. a.type = "skey" => c.supply[a.supply] = {} /\ fe2[a.supply] = {}
    <3> SUFFICES ASSUME a.type = "skey" PROVE c.supply[a.supply] = {} /\ fe2[a.supply] = {}
      OBVIOUS
    <3>1. a.supply \in SupplyIds /\ b.supply[a.supply] = {} /\ fe[a.supply] = {}
      BY <2>1, MessageKinds DEF Apt
    <3> QED BY <1>5, <3>1
  <2> QED BY <1>6, <2>1, <2>2 DEF Apt
<1>9. Asked(c, gv, fe2, n, ls)
  <2> SUFFICES ASSUME NEW t \in SupplyIds, gv[t] # {}, c.supply[t] = {}, fe2[t] = {}
               PROVE  ls > 0 \/ Requests(n, t)
    BY DEF Asked
  <2>1. t # s
    OBVIOUS
  <2> QED BY <1>1, <1>5, <2>1 DEF Asked
<1> QED BY <1>1, <1>4, <1>7, <1>8, <1>9 DEF Serves

LEMMA DecServe ==
  ASSUME Types, NEW e \in Serving, WatchAt(e), ServeAt(e), NEW f \in End, NEW s \in SupplyIds,
         DecKeys(f, s)
  PROVE  ServeAt(e)'
<1>1. PICK c : c = GetSupplyKey(relay[f].buf, s)
  OBVIOUS
<1>2. Plain(relay[f].buf) /\ relay[f] \in EndState /\ e \in End /\ Far(e) \in End /\ Far(e) # e
  BY ServingEnds DEF Types, Ends
<1>3. PICK y : y = [relay[f] EXCEPT !.buf = c]
  OBVIOUS
<1>4. y.buf = c /\ y.pending = relay[f].pending /\ relay' = [relay EXCEPT ![f] = y]
  BY <1>1, <1>2, <1>3 DEF DecKeys, EndState
<1>5. UNCHANGED <<enc, dec, proxy, query, net, halted, served, lost>>
  BY DEF DecKeys
<1>6. PICK x, b, gv, fe, fe2 :
        /\ x = relay[e] /\ b = relay[Far(e)].buf /\ gv = served[e] /\ fe = fetched[Far(e)]
        /\ fe2 = fetched'[Far(e)]
  OBVIOUS
<1>7. Serves(e, x, b, gv, fe, enc, proxy, net, lost) /\ halted = {} /\ net \in Nets
  BY <1>6, ServesAt DEF Types
<1>8. PICK cells : cells = IF relay[f].buf.supply[s] = {} THEN fetched[f][s] ELSE relay[f].buf.supply[s]
  OBVIOUS
<1>9. fetched' = [fetched EXCEPT ![f][s] = cells]
  BY <1>8 DEF DecKeys, Types, Given
<1>10. fetched \in [End -> [SupplyIds -> SUBSET Cell]]
  BY DEF Types, Given
<1>11. CASE relay[f].buf.supply[s] = {}
  <2>1. c = relay[f].buf
    BY <1>1, <1>11 DEF GetSupplyKey
  <2>2. relay'[e].buf = x.buf /\ relay'[e].pending = x.pending /\ relay'[Far(e)].buf = b
    <3>1. \A g \in End : g # f => relay'[g] = relay[g]
      BY <1>2, <1>4 DEF Types, Ends
    <3>2. relay'[f] = y
      BY <1>2, <1>4 DEF Types, Ends
    <3>3. relay'[f].buf = relay[f].buf /\ relay'[f].pending = relay[f].pending
      BY <1>4, <2>1, <3>2
    <3> QED BY <1>2, <1>6, <3>1, <3>3
  <2>3. fe2 = fe
    <3>1. cells = fetched[f][s]
      BY <1>8, <1>11
    <3>2. fetched' = fetched
      BY <1>9, <1>10, <3>1
    <3> QED BY <1>6, <3>2
  <2> QED BY <1>5, <1>6, <1>7, <2>2, <2>3 DEF Serves, ServeAt
<1>12. CASE relay[f].buf.supply[s] # {}
  <2>1. f = Far(e)
    <3>1. f # e
      BY <1>12 DEF WatchAt, Waiting, Source
    <3> QED BY <3>1, ServingEnds
  <2>2. relay'[f] = y /\ relay'[e] = relay[e]
    BY <1>2, <1>4, <2>1 DEF Types, Ends
  <2>3. fe2[s] = b.supply[s] /\ \A t \in SupplyIds : t # s => fe2[t] = fe[t]
    <3>1. cells = relay[f].buf.supply[s]
      BY <1>8, <1>12
    <3> QED BY <1>2, <1>6, <1>9, <1>10, <2>1, <3>1
  <2>4. Plain(b) /\ b.supply[s] # {} /\ c = GetSupplyKey(b, s)
    BY <1>1, <1>2, <1>6, <1>12, <2>1
  <2>5. Serves(e, x, c, gv, fe2, enc, proxy, net, lost)
    BY <1>7, <2>3, <2>4, TakesServes
  <2>6. relay'[Far(e)].buf = c /\ relay'[e] = x
    BY <1>4, <1>6, <2>1, <2>2
  <2> QED BY <1>5, <1>6, <1>7, <2>5, <2>6 DEF Serves, ServeAt
<1> QED BY <1>11, <1>12

LEMMA LocalServe ==
  ASSUME Types, NEW e \in Serving, ServeAt(e), NEW l \in Link, NEW k \in KeyIds, LocalKey(l, k)
  PROVE  ServeAt(e)'
<1>1. /\ enc' = [enc EXCEPT ![l] = @ \cup {k}]
      /\ UNCHANGED <<relay, proxy, query, net, halted, served, fetched, lost>>
  BY DEF LocalKey
<1>2. k \notin KeysOf(served[e])
  <2> SUFFICES ASSUME NEW s \in SupplyIds, NEW c \in served[e][s], c[1] = k PROVE FALSE
    BY DEF KeysOf
  <2>1. PICK j \in KeyIds : served[e][s] = {<<j, 1>>}
    BY DEF ServeAt, Agrees
  <2>2. <<k, 1>> \in served[e][s]
    BY <2>1
  <2>3. e \in End
    BY ServingEnds
  <2> QED BY <2>2, <2>3 DEF LocalKey, Seen
<1>3. Unused(served[e], enc')
  <2>1. \A q \in Link : enc'[q] \subseteq enc[q] \cup {k}
    BY <1>1 DEF Types
  <2>2. Unused(served[e], enc)
    BY DEF ServeAt
  <2> QED BY <1>2, <2>1, <2>2 DEF Unused
<1> QED BY <1>1, <1>3 DEF ServeAt

LEMMA BreakServe ==
  ASSUME Types, NEW e \in Serving, ServeAt(e), NEW l \in Link, Break(l)
  PROVE  ServeAt(e)'
<1>1. lost' = lost + 1 /\ UNCHANGED <<relay, enc, dec, proxy, query, halted, served, fetched>>
  BY DEF Break
<1>2. PICK q : q = [net EXCEPT ![l] = <<>>]
  OBVIOUS
<1>3. net' = q
  BY <1>2 DEF Break
<1>4. net \in Nets
  BY DEF Types
<1>5. Fewer(net, q)
  <2>1. Fewer(net, [net EXCEPT ![l] = <<>>])
    BY <1>4, SentBreak
  <2> QED BY <1>2, <2>1
<1>6. Keyed(q)
  BY <1>2, <1>4, BreakKeyed DEF ServeAt
<1>7. PICK x, b, gv, fe :
        x = relay[e] /\ b = relay[Far(e)].buf /\ gv = served[e] /\ fe = fetched[Far(e)]
  OBVIOUS
<1>8. /\ Agrees(Owned(x.buf), b, gv, fe) /\ Unused(gv, enc) /\ Stocks(x.buf, b)
      /\ Suits(x.pending, b, gv, fe, net)
      /\ Routes(e, proxy, net) /\ Returns(e, proxy) /\ halted = {}
  BY <1>7 DEF ServeAt
<1>9. Suits(x.pending, b, gv, fe, q) /\ Routes(e, proxy, q)
  BY <1>5, <1>8, FewerSuits
<1>10. Asked(b, gv, fe, q, lost')
  <2>1. lost' > 0
    BY <1>1, RelayAssumption DEF Types
  <2> QED BY <2>1 DEF Asked
<1> QED BY <1>1, <1>3, <1>6, <1>7, <1>8, <1>9, <1>10 DEF ServeAt

LEMMA InitServe == Init => ServeInv
<1> SUFFICES ASSUME Init, NEW e \in Serving PROVE ServeAt(e)
  BY DEF ServeInv
<1>1. e \in End /\ e \in Node /\ Far(e) \in End
  BY ServingEnds
<1>2. PICK b : b = EmptyBuffer
  OBVIOUS
<1>3. relay[e].buf = b /\ relay[Far(e)].buf = b
  BY <1>1, <1>2 DEF Init, Idle
<1>4. Sound(b) /\ Plain(b)
  BY <1>3, InitWatch DEF WatchInv, WatchAt, Waiting, Source
<1>5. /\ \A k \in KeyIds : b.st[k] = "NONE"
      /\ b.bits = 0 /\ b.failed = FALSE /\ \A s \in SupplyIds : b.supply[s] = {}
  BY <1>2 DEF EmptyBuffer
<1>6. PICK gv, fe : gv = served[e] /\ fe = fetched[Far(e)]
  OBVIOUS
<1>7. \A s \in SupplyIds : gv[s] = {} /\ fe[s] = {}
  BY <1>1, <1>6 DEF Init
<1>8. Owned(b) = {} /\ KeysOf(gv) = {} /\ KeysOf(fe) = {} /\ KeysOf(b.supply) = {} /\ Whole(b)
  BY <1>5, <1>7 DEF Owned, Held, KeysOf, Whole
<1>9. Agrees(Owned(b), b, gv, fe) /\ Unused(gv, enc)
  BY <1>5, <1>7, <1>8 DEF Agrees, Unused
<1>10. Stocks(b, b)
  <2>1. b.bits <= Cardinality(Owned(b) \cup KeysOf(b.supply))
    <3>1. Owned(b) \cup KeysOf(b.supply) = {}
      BY <1>8
    <3>2. Cardinality(Owned(b) \cup KeysOf(b.supply)) = 0
      BY <3>1, FS_EmptySet
    <3> QED BY <1>5, <3>2
  <2> QED BY <1>4, <1>5, <1>8, <2>1 DEF Stocks
<1>11. \A l \in Link : Len(net[l]) = 0
  BY DEF Init
<1>12. \A l \in Link : \A m : ~Sent(net, l, m)
  BY <1>11 DEF Sent
<1>13. /\ Suits(relay[e].pending, b, gv, fe, net) /\ Keyed(net) /\ Routes(e, proxy, net)
  BY <1>11, <1>12 DEF Suits, Keyed, Routes
<1>14. Asked(b, gv, fe, net, lost)
  BY <1>7 DEF Asked
<1>15. Returns(e, proxy) /\ halted = {}
  BY DEF Init, Returns
<1> QED BY <1>3, <1>6, <1>9, <1>10, <1>13, <1>14, <1>15 DEF ServeAt

LEMMA NextServe ==
  ASSUME LateAnswers = FALSE, Types, PadInv, WatchInv, ServeInv, Roomy, [Next]_vars
  PROVE  ServeInv'
<1> SUFFICES ASSUME NEW e \in Serving PROVE ServeAt(e)'
  BY DEF ServeInv
<1>0. WatchAt(e) /\ ServeAt(e)
  BY DEF WatchInv, ServeInv
<1>1. CASE Deliver
  BY <1>0, <1>1, RequestServe, ResponseServe, CreateServe, CreatedServe DEF Deliver
<1>2. CASE Timeout
  BY <1>0, <1>2, TimeoutServe DEF Timeout
<1>3. CASE UNCHANGED vars
  BY <1>0, <1>3 DEF vars, ServeAt
<1> QED BY <1>0, <1>1, <1>2, <1>3, BreakServe, LocalServe, EncServe, RefusedServe, DecServe DEF Next

LEMMA ServeImplies == ServeInv => EndToEnd /\ (Types => Synchronised)
<1> SUFFICES ASSUME ServeInv PROVE EndToEnd /\ (Types => Synchronised)
  OBVIOUS
<1>1. EndToEnd
  <2> SUFFICES ASSUME NEW e \in Serving, NEW k \in KeyIds, relay[e].buf.st[k] = "READY"
               PROVE  Held(relay[Far(e)].buf, k)
    BY DEF EndToEnd
  <2>1. Stocks(relay[e].buf, relay[Far(e)].buf)
    BY DEF ServeInv, ServeAt
  <2>2. k \in Owned(relay[e].buf) \ Reserved(relay[e].buf)
    BY DEF Owned, Held, Reserved
  <2> QED BY <2>1, <2>2 DEF Stocks, Owned
<1>2. ASSUME Types PROVE Synchronised
  <2> SUFFICES ASSUME NEW e \in Serving, NEW s \in SupplyIds
               PROVE  LET given == served[e][s]
                          there == relay[Far(e)].buf.supply[s] \cup fetched[Far(e)][s]
                          asked == \E l \in Link : \E i \in DOMAIN net[l] :
                                     net[l][i].type = "skey" /\ net[l][i].supply = s
                      IN /\ there \in {{}, given}
                         /\ given # {} /\ there = {} => asked \/ lost > 0
                         /\ \A c \in there, x \in End : ~Held(relay[x].buf, c[1])
    BY DEF Synchronised
  <2>0. PICK given, there : /\ given = served[e][s]
                            /\ there = relay[Far(e)].buf.supply[s] \cup fetched[Far(e)][s]
    OBVIOUS
  <2>1. PICK b, gv, fe : b = relay[Far(e)].buf /\ gv = served[e] /\ fe = fetched[Far(e)]
    OBVIOUS
  <2>2. Agrees(Owned(relay[e].buf), b, gv, fe) /\ Asked(b, gv, fe, net, lost)
    BY <2>1 DEF ServeInv, ServeAt
  <2>3. b.supply[s] \in {{}, gv[s]} /\ fe[s] \in {{}, gv[s]}
    BY <2>2 DEF Agrees
  <2>4. there \in {{}, given}
    BY <2>0, <2>1, <2>3
  <2>5. ASSUME given # {}, there = {}
        PROVE  \/ \E l \in Link : \E i \in DOMAIN net[l] :
                    net[l][i].type = "skey" /\ net[l][i].supply = s
               \/ lost > 0
    <3>1. gv[s] # {} /\ b.supply[s] = {} /\ fe[s] = {}
      BY <2>0, <2>1, <2>5
    <3>2. lost > 0 \/ Requests(net, s)
      BY <2>2, <3>1 DEF Asked
    <3>3. \A l \in Link : 1 .. Len(net[l]) = DOMAIN net[l]
      BY <1>2 DEF Types, Nets
    <3> QED BY <3>2, <3>3 DEF Requests, Sent
  <2>6. ASSUME NEW c \in there, NEW x \in End PROVE ~Held(relay[x].buf, c[1])
    <3>1. c \in gv[s] /\ (c \in b.supply[s] \/ c \in fe[s])
      BY <2>0, <2>1, <2>3
    <3>2. PICK k \in KeyIds : gv[s] = {<<k, 1>>}
      BY <2>2, <3>1 DEF Agrees
    <3>3. c[1] = k
      BY <3>1, <3>2
    <3>4. k \in KeysOf(gv) /\ (k \in KeysOf(b.supply) \/ k \in KeysOf(fe))
      BY <3>1, <3>3 DEF KeysOf
    <3>5. k \notin Owned(relay[e].buf) /\ k \notin Owned(b)
      BY <2>2, <3>4 DEF Agrees
    <3>6. x = e \/ x = Far(e)
      BY ServingEnds
    <3> QED BY <2>1, <3>3, <3>5, <3>6 DEF Owned
  <2> QED BY <2>0, <2>4, <2>5, <2>6
<1> QED BY <1>1, <1>2

LEMMA ServeRuns == Types /\ WatchInv /\ ServeInv => NoFailure
<1> SUFFICES ASSUME Types, WatchInv, ServeInv PROVE NoFailure
  OBVIOUS
<1>1. PICK e \in Serving : TRUE
  BY RelayAssumption
<1>2. halted = {} /\ ~relay[Far(e)].buf.failed
  BY DEF ServeInv, ServeAt, Stocks
<1>3. ~relay[e].buf.failed
  BY DEF WatchInv, WatchAt, Waiting, Source
<1>4. \A i \in Node : Running(i)
  BY <1>2, <1>3, ServingEnds DEF Running
<1> QED BY <1>4, TypesImply DEF NoFailure

LEMMA ServeRoomy ==
  ASSUME Cardinality(KeyIds) <= Mmax, Types, WatchInv, ServeInv
  PROVE  Roomy
<1> SUFFICES ASSUME NEW l \in Link, NEW i \in 1 .. Len(net[l]), net[l][i].type = "relay"
             PROVE  relay[Far(net[l][i].req[1])].buf.bits + Cardinality(net[l][i].keys) <= Mmax
  BY DEF Roomy
<1>1. PICK e \in Serving : TRUE
  BY RelayAssumption
<1>2. PICK m : m = net[l][i]
  OBVIOUS
<1>3. m \in Message /\ m.type = "relay" /\ Sent(net, l, m)
  <2>1. Sent(net, l, m)
    BY <1>2 DEF Sent
  <2> QED BY <1>2, <2>1, SentTyped DEF Types
<1>4. Right(e, relay[e], l, m)
  BY <1>2 DEF WatchInv, WatchAt, Carried
<1>5. Far(m.req[1]) = Far(e)
  BY <1>3, <1>4 DEF Right, Tracked
<1>6. PICK b, gv, fe, ks : b = relay[Far(e)].buf /\ gv = served[e] /\ fe = fetched[Far(e)] /\ ks = m.keys
  OBVIOUS
<1>7. /\ Agrees(Owned(relay[e].buf), b, gv, fe) /\ Stocks(relay[e].buf, b)
      /\ Suits(relay[e].pending, b, gv, fe, net)
  BY <1>6 DEF ServeInv, ServeAt
<1>8. ks \cap KeysOf(gv) = {} /\ ks \cap Owned(b) = {} /\ ks \in SUBSET KeyIds
  <2>1. Apt(relay[e].pending, b, gv, fe, m)
    BY <1>3, <1>7 DEF Suits
  <2>2. ks \in SUBSET KeyIds
    BY <1>3, <1>6, MessageKinds
  <2> QED BY <1>3, <1>6, <2>1, <2>2 DEF Apt
<1>9. KeysOf(b.supply) \subseteq KeysOf(gv)
  <2>1. \A s \in SupplyIds : b.supply[s] \in {{}, gv[s]}
    BY <1>7 DEF Agrees
  <2> QED BY <2>1 DEF KeysOf
<1>10. PICK U \in SUBSET KeyIds : U = Owned(b) \cup KeysOf(b.supply)
  BY KeysTyped DEF Owned
<1>11. Cardinality(U \cup ks) = Cardinality(U) + Cardinality(ks)
  <2>1. U \cap ks = {}
    BY <1>8, <1>9, <1>10
  <2> QED BY <1>8, <2>1, OwnedFinite, SplitSize
<1>12. Cardinality(U \cup ks) <= Cardinality(KeyIds)
  BY <1>8, KeyIdsFinite, FS_Subset
<1>13. b.bits <= Cardinality(U) /\ b.bits \in Nat
  <2>1. Plain(b)
    BY <1>6, ServingEnds DEF Types, Ends
  <2> QED BY <1>7, <1>10, <2>1, PlainFields DEF Stocks
<1>14. Cardinality(U) \in Nat /\ Cardinality(ks) \in Nat /\ Cardinality(U \cup ks) \in Nat
       /\ Cardinality(KeyIds) \in Nat
  BY <1>8, OwnedFinite
<1>15. b.bits + Cardinality(ks) <= Mmax
  BY <1>11, <1>12, <1>13, <1>14, BoundsNat
<1> QED BY <1>2, <1>5, <1>6, <1>15

(* What every state of the path satisfies while the destination has room.  *)
PathInv == Types /\ PadInv /\ WatchInv /\ ServeInv

LEMMA InitPath == Init => PathInv
<1> QED BY InitTypes, InitPads, InitWatch, InitServe DEF PathInv

LEMMA NextPath ==
  ASSUME LateAnswers = FALSE
  PROVE  PathInv /\ Roomy /\ [Next]_vars => PathInv'
<1> SUFFICES ASSUME PathInv, Roomy, [Next]_vars PROVE PathInv'
  OBVIOUS
<1>1. Types /\ PadInv /\ WatchInv /\ ServeInv
  BY DEF PathInv
<1>2. Types' /\ PadInv' /\ WatchInv' /\ ServeInv'
  BY <1>1, NextTypes, NextPads, NextWatch, NextServe
<1> QED BY <1>2 DEF PathInv

LEMMA AlwaysPath ==
  ASSUME LateAnswers = FALSE
  PROVE  Spec /\ []Roomy => []PathInv
<1> QED BY InitPath, NextPath, PTL DEF Spec

(* The destination has room for every relay when its capacity is not below *)
(* the number of keys there are: the amount of its RELAY buffer is never   *)
(* more than the keys it has, and what is relayed to it is none of them.   *)
THEOREM RoomyHolds ==
  ASSUME LateAnswers = FALSE, Cardinality(KeyIds) <= Mmax
  PROVE  Spec => []Roomy
<1>1. PathInv => Roomy
  BY ServeRoomy DEF PathInv
<1> QED BY <1>1, InitPath, NextPath, PTL DEF Spec

(* While the destination has room for what is relayed to it and no answer  *)
(* is later than the watchdog, a key that enc_keys may serve at the source *)
(* is in the RELAY buffer of the destination, whatever hops refuse,        *)
(* connections lose or watchdogs give up: ProcessRelayResponse confirms    *)
(* what ProcessRelayRequest has stored, and enc_keys and SKEY_CREATE take  *)
(* it from both ends in that order.                                        *)
THEOREM EndToEndHolds ==
  ASSUME LateAnswers = FALSE
  PROVE  Spec /\ []Roomy => []EndToEnd
<1>1. PathInv => EndToEnd
  BY ServeImplies DEF PathInv
<1> QED BY <1>1, AlwaysPath, PTL

(* What dec_keys gives by a key_ID is what enc_keys gave for it, it can be *)
(* had unless the request that prepares it is on the way or a connection   *)
(* was lost, and neither end keeps the key it was made of.                 *)
THEOREM SynchronisedHolds ==
  ASSUME LateAnswers = FALSE
  PROVE  Spec /\ []Roomy => []Synchronised
<1>1. PathInv => Synchronised
  BY ServeImplies DEF PathInv
<1> QED BY <1>1, AlwaysPath, PTL

(* No KMS of the path stops: no assertion of a RELAY buffer fails at either*)
(* end, SKEY_CREATE finds the key it halves, and every node an answer      *)
(* comes back to has noted the request it answers.                         *)
THEOREM NoFailureHolds ==
  ASSUME LateAnswers = FALSE
  PROVE  Spec /\ []Roomy => []NoFailure
<1>1. PathInv => NoFailure
  BY ServeRuns DEF PathInv
<1> QED BY <1>1, AlwaysPath, PTL
=============================================================================
