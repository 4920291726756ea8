------------------------- MODULE SBufferCoreProofs -------------------------
(***************************************************************************)
(* Lemmas about the operations of SBufferCore, for any number of keys, any *)
(* lengths and any capacity, and about folds and recursion.  The measure   *)
(* of the accounting is the cardinality of sets of material units; a call  *)
(* disturbs one key only, so that the delta lemmas reduce every operation  *)
(* to arithmetic on that key.                                              *)
(***************************************************************************)
EXTENDS SBufferCore, FiniteSetTheorems, WellFoundedInduction, SequenceTheorems, TLAPS

(* The keys of a buffer are well formed: an interval per key, and no key   *)
(* is kept OBSOLETE, since only keys in INIT are ever marked so.           *)
Shaped(b) ==
  /\ b \in Buffer
  /\ \A k \in KeyIds : b.lo[k] <= b.hi[k] /\ b.st[k] # "OBSOLETE"

(* What a key adds to the READY and to the not-ready amounts.              *)
ReadyLen(b, k)    == IF b.st[k] = "READY" THEN KeyLen(b, k) ELSE 0
NotReadyLen(b, k) == IF b.st[k] = "INIT"  THEN KeyLen(b, k) ELSE 0
NotReadyOne(b, k) == IF b.st[k] = "INIT"  THEN 1 ELSE 0

(* Two buffers that agree on every key but k.                              *)
SameBut(b, c, k) ==
  \A j \in KeyIds \ {k} :
    b.st[j] = c.st[j] /\ b.lo[j] = c.lo[j] /\ b.hi[j] = c.hi[j]

-----------------------------------------------------------------------------
(* The sets that are counted are finite.                                   *)
LEMMA CellsFinite ==
  /\ IsFiniteSet(Cell)
  /\ IsFiniteSet(SupplyIds \X Cell)
<1>1. IsFiniteSet(1 .. MaxLen)
  BY BoundsNat, FS_Interval
<1>2. IsFiniteSet(Cell)
  BY <1>1, KeyIdsFinite, FS_Product DEF Cell
<1> QED
  BY <1>2, SupplyIdsFinite, FS_Product

(* What a buffer holds is finite, so that it can be counted.               *)
LEMMA CountsFinite ==
  ASSUME NEW b
  PROVE  /\ IsFiniteSet(ReadyCells(b))    /\ Cardinality(ReadyCells(b)) \in Nat
         /\ IsFiniteSet(NotReadyCells(b)) /\ Cardinality(NotReadyCells(b)) \in Nat
         /\ IsFiniteSet(SupplyCells(b))   /\ Cardinality(SupplyCells(b)) \in Nat
         /\ IsFiniteSet(NotReadyKeys(b))  /\ Cardinality(NotReadyKeys(b)) \in Nat
<1>1. /\ ReadyCells(b) \in SUBSET Cell
      /\ NotReadyCells(b) \in SUBSET Cell
      /\ SupplyCells(b) \in SUBSET (SupplyIds \X Cell)
      /\ NotReadyKeys(b) \in SUBSET KeyIds
  BY DEF ReadyCells, NotReadyCells, SupplyCells, NotReadyKeys
<1>2. /\ IsFiniteSet(ReadyCells(b)) /\ IsFiniteSet(NotReadyCells(b))
      /\ IsFiniteSet(SupplyCells(b)) /\ IsFiniteSet(NotReadyKeys(b))
  BY <1>1, CellsFinite, KeyIdsFinite, FS_Subset
<1> QED
  BY <1>2, FS_CardinalityType

(* An interval of one key counts as long as it is.                         *)
LEMMA IntervalSize ==
  ASSUME NEW k, NEW m \in Nat, NEW n \in Nat, m <= n
  PROVE  /\ IsFiniteSet({k} \X (m + 1 .. n))
         /\ Cardinality({k} \X (m + 1 .. n)) = n - m
<1> DEFINE a == m + 1
           I == a .. n
<1>1. a \in Int /\ n \in Int
  OBVIOUS
<1>2. IsFiniteSet(I) /\ Cardinality(I) = IF a > n THEN 0 ELSE n - a + 1
  <2> HIDE DEF a
  <2> QED BY <1>1, FS_Interval
<1>3. Cardinality(I) = n - m
  BY <1>2
<1>4. IsFiniteSet({k}) /\ Cardinality({k}) = 1
  BY FS_Singleton
<1>5. /\ IsFiniteSet({k} \X I)
      /\ Cardinality({k} \X I) = Cardinality({k}) * Cardinality(I)
  <2> HIDE DEF I
  <2> QED BY <1>2, <1>4, FS_Product
<1> QED
  BY <1>3, <1>4, <1>5

(* The size of a set split in two parts.                                   *)
LEMMA SplitSize ==
  ASSUME NEW S, NEW T, IsFiniteSet(S), IsFiniteSet(T), S \cap T = {}
  PROVE  Cardinality(S \cup T) = Cardinality(S) + Cardinality(T)
<1>1. Cardinality(S \cap T) = 0
  BY FS_EmptySet
<1>2. Cardinality(S) \in Nat /\ Cardinality(T) \in Nat
  BY FS_CardinalityType
<1>3. Cardinality(S \cup T) = Cardinality(S) + Cardinality(T) - Cardinality(S \cap T)
  BY FS_Union
<1> QED
  BY <1>1, <1>2, <1>3

-----------------------------------------------------------------------------
(* A change of one key moves each count by what that key adds.             *)
LEMMA ReadyDelta ==
  ASSUME NEW b, NEW c, NEW k \in KeyIds, Shaped(b), Shaped(c), SameBut(b, c, k)
  PROVE  Cardinality(ReadyCells(c)) + ReadyLen(b, k)
           = Cardinality(ReadyCells(b)) + ReadyLen(c, k)
<1> DEFINE Rest(d) == {x \in ReadyCells(d) : x[1] # k}
           Mine(d) == IF d.st[k] = "READY" THEN KeyCells(d, k) ELSE {}
<1>1. Rest(b) = Rest(c)
  BY DEF SameBut, ReadyCells, Cell
<1>2. ASSUME NEW d, Shaped(d)
      PROVE  Cardinality(ReadyCells(d)) = Cardinality(Rest(d)) + ReadyLen(d, k)
  <2>1. ReadyCells(d) = Rest(d) \cup Mine(d) /\ Rest(d) \cap Mine(d) = {}
    BY <1>2, BoundsNat DEF Shaped, Buffer, ReadyCells, KeyCells, Cell
  <2>2. IsFiniteSet(Mine(d)) /\ Cardinality(Mine(d)) = ReadyLen(d, k)
    <3>1. CASE d.st[k] = "READY"
      <4>1. d.lo[k] \in Nat /\ d.hi[k] \in Nat /\ d.lo[k] <= d.hi[k]
        BY <1>2, BoundsNat DEF Shaped, Buffer
      <4> QED BY <4>1, <3>1, IntervalSize DEF ReadyLen, KeyLen, KeyCells
    <3>2. CASE d.st[k] # "READY"
      BY <3>2, FS_EmptySet DEF ReadyLen
    <3> QED BY <3>1, <3>2
  <2>3. IsFiniteSet(Rest(d))
    BY CountsFinite, FS_Subset
  <2> QED BY <2>1, <2>2, <2>3, SplitSize
<1>3. Cardinality(Rest(b)) \in Nat
  <2>1. IsFiniteSet(Rest(b)) BY CountsFinite, FS_Subset
  <2> QED BY <2>1, FS_CardinalityType
<1>4. ReadyLen(b, k) \in Nat /\ ReadyLen(c, k) \in Nat
  BY BoundsNat DEF Shaped, Buffer, ReadyLen, KeyLen
<1> HIDE DEF Rest
<1> QED BY <1>1, <1>2, <1>3, <1>4

(* A change of key k moves the material that is not READY by what k        *)
(* contributes.                                                            *)
LEMMA NotReadyDelta ==
  ASSUME NEW b, NEW c, NEW k \in KeyIds, Shaped(b), Shaped(c), SameBut(b, c, k)
  PROVE  Cardinality(NotReadyCells(c)) + NotReadyLen(b, k)
           = Cardinality(NotReadyCells(b)) + NotReadyLen(c, k)
<1> DEFINE Rest(d) == {x \in NotReadyCells(d) : x[1] # k}
           Mine(d) == IF d.st[k] = "INIT" THEN KeyCells(d, k) ELSE {}
<1>1. Rest(b) = Rest(c)
  BY DEF SameBut, NotReadyCells, Held, Cell
<1>2. ASSUME NEW d, Shaped(d)
      PROVE  Cardinality(NotReadyCells(d)) = Cardinality(Rest(d)) + NotReadyLen(d, k)
  <2>1. NotReadyCells(d) = Rest(d) \cup Mine(d) /\ Rest(d) \cap Mine(d) = {}
    BY <1>2, BoundsNat
    DEF Shaped, Buffer, KeyState, NotReadyCells, Held, KeyCells, Cell
  <2>2. IsFiniteSet(Mine(d)) /\ Cardinality(Mine(d)) = NotReadyLen(d, k)
    <3>1. CASE d.st[k] = "INIT"
      <4>1. d.lo[k] \in Nat /\ d.hi[k] \in Nat /\ d.lo[k] <= d.hi[k]
        BY <1>2, BoundsNat DEF Shaped, Buffer
      <4> QED BY <4>1, <3>1, IntervalSize DEF NotReadyLen, KeyLen, KeyCells
    <3>2. CASE d.st[k] # "INIT"
      BY <3>2, FS_EmptySet DEF NotReadyLen
    <3> QED BY <3>1, <3>2
  <2>3. IsFiniteSet(Rest(d))
    BY CountsFinite, FS_Subset
  <2> QED BY <2>1, <2>2, <2>3, SplitSize
<1>3. Cardinality(Rest(b)) \in Nat
  <2>1. IsFiniteSet(Rest(b)) BY CountsFinite, FS_Subset
  <2> QED BY <2>1, FS_CardinalityType
<1>4. NotReadyLen(b, k) \in Nat /\ NotReadyLen(c, k) \in Nat
  BY BoundsNat DEF Shaped, Buffer, NotReadyLen, KeyLen
<1> HIDE DEF Rest
<1> QED BY <1>1, <1>2, <1>3, <1>4

(* A change of key k moves the number of keys that are not READY by k      *)
(* alone.                                                                  *)
LEMMA NotReadyKeysDelta ==
  ASSUME NEW b, NEW c, NEW k \in KeyIds, Shaped(b), Shaped(c), SameBut(b, c, k)
  PROVE  Cardinality(NotReadyKeys(c)) + NotReadyOne(b, k)
           = Cardinality(NotReadyKeys(b)) + NotReadyOne(c, k)
<1> DEFINE Rest(d) == NotReadyKeys(d) \ {k}
<1>1. Rest(b) = Rest(c)
  BY DEF SameBut, NotReadyKeys, Held
<1>2. ASSUME NEW d, Shaped(d)
      PROVE  Cardinality(NotReadyKeys(d)) = Cardinality(Rest(d)) + NotReadyOne(d, k)
  <2>1. k \in NotReadyKeys(d) <=> d.st[k] = "INIT"
    BY <1>2 DEF Shaped, Buffer, KeyState, NotReadyKeys, Held
  <2>2. Cardinality(Rest(d)) = IF k \in NotReadyKeys(d)
                                 THEN Cardinality(NotReadyKeys(d)) - 1
                                 ELSE Cardinality(NotReadyKeys(d))
    BY CountsFinite, FS_RemoveElement
  <2> QED BY <2>1, <2>2, CountsFinite DEF NotReadyOne
<1>3. Cardinality(Rest(b)) \in Nat
  <2>1. IsFiniteSet(Rest(b)) BY CountsFinite, FS_Subset
  <2> QED BY <2>1, FS_CardinalityType
<1> HIDE DEF Rest
<1> QED BY <1>1, <1>2, <1>3 DEF NotReadyOne

-----------------------------------------------------------------------------
(* What every operation keeps: the counters agree with the content.        *)
Sound(b) ==
  /\ Shaped(b)
  /\ b.bits = ReadyAmount(b)
  /\ b.nrKeys >= Cardinality(NotReadyKeys(b))
  /\ b.nrBits >= Cardinality(NotReadyCells(b))

(* A sound buffer covers each key that is not READY, so MarkKey's checks of*)
(* the not-ready counters succeed.                                         *)
LEMMA SoundCovers ==
  ASSUME NEW b, NEW k \in KeyIds, Sound(b), b.st[k] = "INIT"
  PROVE  CountersCover(b, k)
<1>1. KeyCells(b, k) \in SUBSET NotReadyCells(b)
  BY BoundsNat DEF Sound, Shaped, Buffer, KeyCells, NotReadyCells, Held, Cell
<1>2. KeyLen(b, k) = Cardinality(KeyCells(b, k))
  <2>1. b.lo[k] \in Nat /\ b.hi[k] \in Nat /\ b.lo[k] <= b.hi[k]
    BY BoundsNat DEF Sound, Shaped, Buffer
  <2> QED BY <2>1, IntervalSize DEF KeyCells, KeyLen
<1>3. KeyLen(b, k) <= Cardinality(NotReadyCells(b))
  BY <1>1, <1>2, CountsFinite, FS_Subset
<1>4. Cardinality(NotReadyKeys(b)) > 0
  <2>1. k \in NotReadyKeys(b)
    BY DEF NotReadyKeys, Held
  <2> QED BY <2>1, CountsFinite, FS_EmptySet
<1>5. b.nrBits \in Nat /\ b.nrKeys \in Nat /\ KeyLen(b, k) \in Nat
  BY BoundsNat DEF Sound, Shaped, Buffer, KeyLen
<1> QED
  BY <1>3, <1>4, <1>5, CountsFinite DEF Sound, CountersCover

(* A change of key k alone that moves the counters by what k adds leaves a *)
(* sound buffer sound.                                                     *)
LEMMA SoundDelta ==
  ASSUME NEW b, NEW c, NEW k \in KeyIds, Sound(b), Shaped(c), SameBut(b, c, k),
         c.supply = b.supply,
         c.bits + ReadyLen(b, k) = b.bits + ReadyLen(c, k),
         c.nrKeys + NotReadyOne(b, k) >= b.nrKeys + NotReadyOne(c, k),
         c.nrBits + NotReadyLen(b, k) >= b.nrBits + NotReadyLen(c, k)
  PROVE  Sound(c)
<1>1. Shaped(b)
  BY DEF Sound
<1>2. SupplyCells(c) = SupplyCells(b)
  BY DEF SupplyCells
<1>3. /\ c.bits \in Nat /\ c.nrKeys \in Nat /\ c.nrBits \in Nat
      /\ b.bits \in Nat /\ b.nrKeys \in Nat /\ b.nrBits \in Nat
  BY <1>1 DEF Shaped, Buffer
<1>4. /\ ReadyLen(b, k) \in Nat /\ ReadyLen(c, k) \in Nat
      /\ NotReadyLen(b, k) \in Nat /\ NotReadyLen(c, k) \in Nat
      /\ NotReadyOne(b, k) \in Nat /\ NotReadyOne(c, k) \in Nat
  BY <1>1, BoundsNat DEF Shaped, Buffer, ReadyLen, NotReadyLen, NotReadyOne, KeyLen
<1>5. c.bits = ReadyAmount(c)
  <2>1. Cardinality(ReadyCells(c)) + ReadyLen(b, k)
          = Cardinality(ReadyCells(b)) + ReadyLen(c, k)
    BY <1>1, ReadyDelta
  <2>2. b.bits = Cardinality(ReadyCells(b)) + Cardinality(SupplyCells(b))
    BY DEF Sound, ReadyAmount
  <2> QED BY <2>1, <2>2, <1>2, <1>3, <1>4, CountsFinite DEF ReadyAmount
<1>6. c.nrKeys >= Cardinality(NotReadyKeys(c))
  BY <1>1, <1>3, <1>4, NotReadyKeysDelta, CountsFinite DEF Sound
<1>7. c.nrBits >= Cardinality(NotReadyCells(c))
  BY <1>1, <1>3, <1>4, NotReadyDelta, CountsFinite DEF Sound
<1> QED
  BY <1>5, <1>6, <1>7 DEF Sound

-----------------------------------------------------------------------------
(* Each operation, under the conditions the KMS calls it in, stops nothing *)
(* and keeps the buffer sound.                                             *)

(* The account of a sound buffer covers each READY key: LogUpdate's guard  *)
(* against an underflow is not reached.                                    *)
LEMMA ReadyBound ==
  ASSUME NEW b, NEW k \in KeyIds, Sound(b), b.st[k] = "READY"
  PROVE  KeyLen(b, k) \in Nat /\ KeyLen(b, k) <= b.bits
<1>1. KeyCells(b, k) \in SUBSET ReadyCells(b)
  BY BoundsNat DEF Sound, Shaped, Buffer, KeyCells, ReadyCells, Cell
<1>2. KeyLen(b, k) \in Nat /\ KeyLen(b, k) = Cardinality(KeyCells(b, k))
  <2>1. b.lo[k] \in Nat /\ b.hi[k] \in Nat /\ b.lo[k] <= b.hi[k]
    BY BoundsNat DEF Sound, Shaped, Buffer
  <2>2. KeyLen(b, k) = Cardinality(KeyCells(b, k))
    BY <2>1, IntervalSize DEF KeyCells, KeyLen
  <2> QED BY <2>1, <2>2 DEF KeyLen
<1>3. Cardinality(KeyCells(b, k)) <= Cardinality(ReadyCells(b))
  BY <1>1, CountsFinite, FS_Subset
<1> QED
  BY <1>2, <1>3, CountsFinite DEF Sound, ReadyAmount

(* The buffer b with key k and the counters replaced: what the operations  *)
(* on one key come to.                                                     *)
Upd(b, k, s, l, h, bits, nk, nb) ==
  [ st     |-> [b.st EXCEPT ![k] = s],
    lo     |-> [b.lo EXCEPT ![k] = l],
    hi     |-> [b.hi EXCEPT ![k] = h],
    supply |-> b.supply,
    bits   |-> bits,
    nrKeys |-> nk,
    nrBits |-> nb,
    failed |-> b.failed ]

(* A change of one key and of the counters keeps a buffer well formed.     *)
LEMMA UpdShaped ==
  ASSUME NEW b, NEW k \in KeyIds, Shaped(b), NEW s \in {"NONE", "INIT", "READY"},
         NEW l \in 0 .. MaxLen, NEW h \in 0 .. MaxLen, l <= h,
         NEW bits \in Nat, NEW nk \in Nat, NEW nb \in Nat
  PROVE  /\ Shaped(Upd(b, k, s, l, h, bits, nk, nb))
         /\ SameBut(b, Upd(b, k, s, l, h, bits, nk, nb), k)
<1> DEFINE c == Upd(b, k, s, l, h, bits, nk, nb)
<1>1. /\ b.st \in [KeyIds -> KeyState]
      /\ b.lo \in [KeyIds -> 0 .. MaxLen]
      /\ b.hi \in [KeyIds -> 0 .. MaxLen]
      /\ b.supply \in [SupplyIds -> SUBSET Cell]
      /\ b.failed \in BOOLEAN
  BY DEF Shaped, Buffer
<1>2. /\ [b.st EXCEPT ![k] = s] \in [KeyIds -> KeyState]
      /\ [b.lo EXCEPT ![k] = l] \in [KeyIds -> 0 .. MaxLen]
      /\ [b.hi EXCEPT ![k] = h] \in [KeyIds -> 0 .. MaxLen]
  BY <1>1 DEF KeyState
<1>3. c \in Buffer
  BY <1>1, <1>2 DEF Upd, Buffer
<1>4. SameBut(b, c, k)
  BY <1>1 DEF Upd, SameBut
<1>5. c.st[k] = s /\ c.lo[k] = l /\ c.hi[k] = h
  BY <1>1 DEF Upd
<1>6. Shaped(c)
  <2> HIDE DEF c
  <2> QED BY <1>3, <1>4, <1>5 DEF Shaped, SameBut
<1> QED BY <1>4, <1>6

(* A change of one key keeps a buffer sound if the counters move with it.  *)
LEMMA UpdSound ==
  ASSUME NEW b, NEW k \in KeyIds, Sound(b), NEW s \in {"NONE", "INIT", "READY"},
         NEW l \in 0 .. MaxLen, NEW h \in 0 .. MaxLen, l <= h,
         NEW bits \in Nat, NEW nk \in Nat, NEW nb \in Nat,
         bits + ReadyLen(b, k) = b.bits + (IF s = "READY" THEN h - l ELSE 0),
         nk + NotReadyOne(b, k) >= b.nrKeys + (IF s = "INIT" THEN 1 ELSE 0),
         nb + NotReadyLen(b, k) >= b.nrBits + (IF s = "INIT" THEN h - l ELSE 0)
  PROVE  Sound(Upd(b, k, s, l, h, bits, nk, nb))
<1> DEFINE c == Upd(b, k, s, l, h, bits, nk, nb)
<1>1. Shaped(c) /\ SameBut(b, c, k)
  BY UpdShaped DEF Sound
<1>2. /\ b.st \in [KeyIds -> KeyState]
      /\ b.lo \in [KeyIds -> 0 .. MaxLen]
      /\ b.hi \in [KeyIds -> 0 .. MaxLen]
  BY DEF Sound, Shaped, Buffer
<1>3. /\ c.st[k] = s /\ c.lo[k] = l /\ c.hi[k] = h
      /\ c.supply = b.supply /\ c.bits = bits /\ c.nrKeys = nk /\ c.nrBits = nb
  BY <1>2 DEF Upd
<1> HIDE DEF c
<1>4. /\ ReadyLen(c, k) = IF s = "READY" THEN h - l ELSE 0
      /\ NotReadyLen(c, k) = IF s = "INIT" THEN h - l ELSE 0
      /\ NotReadyOne(c, k) = IF s = "INIT" THEN 1 ELSE 0
  BY <1>3 DEF ReadyLen, NotReadyLen, NotReadyOne, KeyLen
<1>5. Sound(c)
  BY <1>1, <1>3, <1>4, SoundDelta
<1> QED
  BY <1>5 DEF c

(* The type facts about one key that the steps below use.                  *)
LEMMA KeyFacts ==
  ASSUME NEW b, NEW k \in KeyIds, Shaped(b)
  PROVE  /\ b.lo[k] \in 0 .. MaxLen /\ b.hi[k] \in 0 .. MaxLen /\ b.lo[k] <= b.hi[k]
         /\ b.lo[k] \in Nat /\ b.hi[k] \in Nat /\ KeyLen(b, k) \in Nat
         /\ KeyLen(b, k) = b.hi[k] - b.lo[k]
         /\ b.st[k] \in {"NONE", "INIT", "READY"}
         /\ b.bits \in Nat /\ b.nrKeys \in Nat /\ b.nrBits \in Nat
         /\ b \in Buffer
  BY BoundsNat DEF Shaped, Buffer, KeyState, KeyLen

(* The record updates of SBufferCore on one key are Upds.                  *)
LEMMA SetUpd ==
  ASSUME NEW b, NEW k \in KeyIds, Shaped(b), NEW s, NEW l, NEW h
  PROVE  SetKey(b, k, s, l, h) = Upd(b, k, s, l, h, b.bits, b.nrKeys, b.nrBits)
<1> DEFINE A == [b.st EXCEPT ![k] = s]
           B == [b.lo EXCEPT ![k] = l]
           C == [b.hi EXCEPT ![k] = h]
           b1 == [b  EXCEPT !.st = A]
           b2 == [b1 EXCEPT !.lo = B]
           b3 == [b2 EXCEPT !.hi = C]
<1>1. b = [ st |-> b.st, lo |-> b.lo, hi |-> b.hi, supply |-> b.supply,
            bits |-> b.bits, nrKeys |-> b.nrKeys, nrBits |-> b.nrBits,
            failed |-> b.failed ]
  BY DEF Shaped, Buffer
<1>2. SetKey(b, k, s, l, h) = b3
  BY DEF SetKey, Shaped, Buffer
<1> HIDE DEF A, B, C
<1>3. b1 = [ st |-> A, lo |-> b.lo, hi |-> b.hi, supply |-> b.supply,
             bits |-> b.bits, nrKeys |-> b.nrKeys, nrBits |-> b.nrBits,
             failed |-> b.failed ]
  BY <1>1
<1> HIDE DEF b1
<1>4. b2 = [ st |-> A, lo |-> B, hi |-> b.hi, supply |-> b.supply,
             bits |-> b.bits, nrKeys |-> b.nrKeys, nrBits |-> b.nrBits,
             failed |-> b.failed ]
  BY <1>3
<1> HIDE DEF b2
<1>5. b3 = [ st |-> A, lo |-> B, hi |-> C, supply |-> b.supply,
             bits |-> b.bits, nrKeys |-> b.nrKeys, nrBits |-> b.nrBits,
             failed |-> b.failed ]
  BY <1>4
<1> HIDE DEF b3
<1> QED
  BY <1>2, <1>5 DEF A, B, C, Upd

(* Cutting a prefix is a change of one key.                                *)
LEMMA SetLo ==
  ASSUME NEW b, NEW k \in KeyIds, Shaped(b), NEW l
  PROVE  [b EXCEPT !.lo[k] = l]
           = Upd(b, k, b.st[k], l, b.hi[k], b.bits, b.nrKeys, b.nrBits)
<1>1. b = [ st |-> b.st, lo |-> b.lo, hi |-> b.hi, supply |-> b.supply,
            bits |-> b.bits, nrKeys |-> b.nrKeys, nrBits |-> b.nrBits,
            failed |-> b.failed ]
  BY DEF Shaped, Buffer
<1>2. [b.st EXCEPT ![k] = b.st[k]] = b.st /\ [b.hi EXCEPT ![k] = b.hi[k]] = b.hi
  BY DEF Shaped, Buffer
<1> QED
  BY <1>1, <1>2 DEF Upd

(* SwitchToState is a change of one key.                                   *)
LEMMA SetSt ==
  ASSUME NEW b, NEW k \in KeyIds, Shaped(b), NEW s
  PROVE  [b EXCEPT !.st[k] = s]
           = Upd(b, k, s, b.lo[k], b.hi[k], b.bits, b.nrKeys, b.nrBits)
<1>1. b = [ st |-> b.st, lo |-> b.lo, hi |-> b.hi, supply |-> b.supply,
            bits |-> b.bits, nrKeys |-> b.nrKeys, nrBits |-> b.nrBits,
            failed |-> b.failed ]
  BY DEF Shaped, Buffer
<1>2. [b.lo EXCEPT ![k] = b.lo[k]] = b.lo /\ [b.hi EXCEPT ![k] = b.hi[k]] = b.hi
  BY DEF Shaped, Buffer
<1> QED
  BY <1>1, <1>2 DEF Upd

(* Erasing a key is a change of one key.                                   *)
LEMMA EraseUpd ==
  ASSUME NEW b, NEW k \in KeyIds, Shaped(b)
  PROVE  Erase(b, k) = Upd(b, k, "NONE", 0, 0, b.bits, b.nrKeys, b.nrBits)
  BY SetUpd DEF Erase

(* A change of the not-ready counters only.                                *)
LEMMA CountersUpd ==
  ASSUME NEW b, NEW k \in KeyIds, Shaped(b), NEW x \in Nat, NEW y \in Nat
  PROVE  /\ [b EXCEPT !.nrKeys = x, !.nrBits = y]
              = Upd(b, k, b.st[k], b.lo[k], b.hi[k], b.bits, x, y)
         /\ Shaped([b EXCEPT !.nrKeys = x, !.nrBits = y])
<1> DEFINE b1 == [b EXCEPT !.nrKeys = x]
           b2 == [b1 EXCEPT !.nrBits = y]
           c == [b EXCEPT !.nrKeys = x, !.nrBits = y]
<1>1. /\ b = [ st |-> b.st, lo |-> b.lo, hi |-> b.hi, supply |-> b.supply,
               bits |-> b.bits, nrKeys |-> b.nrKeys, nrBits |-> b.nrBits,
               failed |-> b.failed ]
      /\ b.st \in [KeyIds -> KeyState]
      /\ b.lo \in [KeyIds -> 0 .. MaxLen]
      /\ b.hi \in [KeyIds -> 0 .. MaxLen]
  BY DEF Shaped, Buffer
<1>2. c = b2
  BY DEF Shaped, Buffer
<1>3. b1 = [ st |-> b.st, lo |-> b.lo, hi |-> b.hi, supply |-> b.supply,
             bits |-> b.bits, nrKeys |-> x, nrBits |-> b.nrBits,
             failed |-> b.failed ]
  BY <1>1
<1> HIDE DEF b1
<1>4. b2 = [ st |-> b.st, lo |-> b.lo, hi |-> b.hi, supply |-> b.supply,
             bits |-> b.bits, nrKeys |-> x, nrBits |-> y, failed |-> b.failed ]
  BY <1>3
<1> HIDE DEF b2
<1>5. /\ [b.st EXCEPT ![k] = b.st[k]] = b.st
      /\ [b.lo EXCEPT ![k] = b.lo[k]] = b.lo
      /\ [b.hi EXCEPT ![k] = b.hi[k]] = b.hi
  BY <1>1
<1>6. c = Upd(b, k, b.st[k], b.lo[k], b.hi[k], b.bits, x, y)
  <2> HIDE DEF c
  <2> QED BY <1>2, <1>4, <1>5 DEF Upd
<1>7. Shaped(Upd(b, k, b.st[k], b.lo[k], b.hi[k], b.bits, x, y))
  <2>1. /\ b.st[k] \in {"NONE", "INIT", "READY"} /\ b.bits \in Nat
        /\ b.lo[k] \in 0 .. MaxLen /\ b.hi[k] \in 0 .. MaxLen /\ b.lo[k] <= b.hi[k]
    BY KeyFacts
  <2> QED BY <2>1, UpdShaped
<1> QED
  BY <1>6, <1>7

(* The not-ready counters take key k in.                                   *)
LEMMA CountUpd ==
  ASSUME NEW b, NEW k \in KeyIds, Shaped(b)
  PROVE  /\ Count(b, k) = Upd(b, k, b.st[k], b.lo[k], b.hi[k], b.bits,
                              b.nrKeys + 1, b.nrBits + KeyLen(b, k))
         /\ Shaped(Count(b, k))
<1> DEFINE x == b.nrKeys + 1
           y == b.nrBits + KeyLen(b, k)
<1>1. Count(b, k) = [b EXCEPT !.nrKeys = x, !.nrBits = y]
  BY DEF Count
<1>2. x \in Nat /\ y \in Nat
  <2>1. b.nrKeys \in Nat /\ b.nrBits \in Nat /\ KeyLen(b, k) \in Nat
    BY KeyFacts
  <2> QED BY <2>1
<1>3. /\ [b EXCEPT !.nrKeys = x, !.nrBits = y]
           = Upd(b, k, b.st[k], b.lo[k], b.hi[k], b.bits, x, y)
      /\ Shaped([b EXCEPT !.nrKeys = x, !.nrBits = y])
  <2> HIDE DEF x, y
  <2> QED BY <1>2, CountersUpd
<1> QED
  BY <1>1, <1>3

(* The not-ready counters, which cover key k, let it go.                   *)
LEMMA UncountUpd ==
  ASSUME NEW b, NEW k \in KeyIds, Shaped(b), CountersCover(b, k)
  PROVE  /\ Uncount(b, k) = Upd(b, k, b.st[k], b.lo[k], b.hi[k], b.bits,
                                b.nrKeys - 1, b.nrBits - KeyLen(b, k))
         /\ Shaped(Uncount(b, k))
         /\ b.nrKeys - 1 \in Nat /\ b.nrBits - KeyLen(b, k) \in Nat
<1> DEFINE x == b.nrKeys - 1
           y == b.nrBits - KeyLen(b, k)
<1>1. Uncount(b, k) = [b EXCEPT !.nrKeys = x, !.nrBits = y]
  BY DEF Uncount
<1>2. x \in Nat /\ y \in Nat
  <2>1. b.nrKeys \in Nat /\ b.nrBits \in Nat /\ KeyLen(b, k) \in Nat
    BY KeyFacts
  <2> QED BY <2>1 DEF CountersCover
<1>3. /\ [b EXCEPT !.nrKeys = x, !.nrBits = y]
           = Upd(b, k, b.st[k], b.lo[k], b.hi[k], b.bits, x, y)
      /\ Shaped([b EXCEPT !.nrKeys = x, !.nrBits = y])
  <2> HIDE DEF x, y
  <2> QED BY <1>2, CountersUpd
<1> QED
  BY <1>1, <1>2, <1>3

(* Updates of the same key compose.                                        *)
LEMMA UpdUpd ==
  ASSUME NEW b, NEW k \in KeyIds, Shaped(b),
         NEW s, NEW l, NEW h, NEW x, NEW nk, NEW nb,
         NEW s2, NEW l2, NEW h2, NEW x2, NEW nk2, NEW nb2
  PROVE  LET c == Upd(b, k, s, l, h, x, nk, nb) IN
         /\ Upd(c, k, s2, l2, h2, x2, nk2, nb2) = Upd(b, k, s2, l2, h2, x2, nk2, nb2)
         /\ c.st[k] = s /\ c.lo[k] = l /\ c.hi[k] = h /\ KeyLen(c, k) = h - l
         /\ c.bits = x /\ c.nrKeys = nk /\ c.nrBits = nb /\ c.failed = b.failed
         /\ c.supply = b.supply
         /\ [c EXCEPT !.bits = x2] = Upd(b, k, s, l, h, x2, nk, nb)
<1>1. /\ b.st \in [KeyIds -> KeyState]
      /\ b.lo \in [KeyIds -> 0 .. MaxLen]
      /\ b.hi \in [KeyIds -> 0 .. MaxLen]
  BY DEF Shaped, Buffer
<1> QED
  BY <1>1 DEF Upd, KeyLen

(* LogUpdate after a change of one key: the NS_ASSERT holds when what is   *)
(* reached is sound.                                                       *)
LEMMA LogAddUpd ==
  ASSUME NEW b, NEW k \in KeyIds, Shaped(b),
         NEW s, NEW l, NEW h, NEW x \in Nat, NEW nk, NEW nb, NEW n \in Nat,
         Sound(Upd(b, k, s, l, h, x + n, nk, nb))
  PROVE  LogAdd(Upd(b, k, s, l, h, x, nk, nb), n) = Upd(b, k, s, l, h, x + n, nk, nb)
<1>1. [Upd(b, k, s, l, h, x, nk, nb) EXCEPT !.bits = @ + n]
        = Upd(b, k, s, l, h, x + n, nk, nb)
  BY DEF Upd
<1> QED
  BY <1>1 DEF LogAdd, Checked, Sound

(* LogUpdate with a decrement that leaves a sound buffer subtracts it and  *)
(* does not stop.                                                          *)
LEMMA LogSubUpd ==
  ASSUME NEW b, NEW k \in KeyIds, Shaped(b),
         NEW s, NEW l, NEW h, NEW x \in Nat, NEW nk, NEW nb, NEW n \in Nat, n <= x,
         Sound(Upd(b, k, s, l, h, x - n, nk, nb))
  PROVE  LogSub(Upd(b, k, s, l, h, x, nk, nb), n) = Upd(b, k, s, l, h, x - n, nk, nb)
<1>1. [Upd(b, k, s, l, h, x, nk, nb) EXCEPT !.bits = IF n > @ THEN @ ELSE @ - n]
        = Upd(b, k, s, l, h, x - n, nk, nb)
  BY DEF Upd
<1> QED
  BY <1>1 DEF LogSub, Checked, Sound

-----------------------------------------------------------------------------
(* What each operation on a sound buffer comes to.                         *)

(* StoreKey of a key that fits.                                            *)
LEMMA StoreSound ==
  ASSUME NEW b, NEW k \in KeyIds, NEW n \in 1 .. MaxLen,
         Sound(b), b.st[k] = "NONE", Fits(b, n)
  PROVE  /\ StoreKey(b, k, n) = Upd(b, k, "READY", 0, n, b.bits + n, b.nrKeys, b.nrBits)
         /\ Sound(StoreKey(b, k, n))
<1>1. /\ Shaped(b) /\ b.bits \in Nat /\ b.nrKeys \in Nat /\ b.nrBits \in Nat
      /\ n \in Nat /\ 0 \in 0 .. MaxLen /\ n \in 0 .. MaxLen
  BY KeyFacts, BoundsNat DEF Sound
<1>2. ReadyLen(b, k) = 0 /\ NotReadyLen(b, k) = 0 /\ NotReadyOne(b, k) = 0
  BY DEF ReadyLen, NotReadyLen, NotReadyOne
<1>3. Sound(Upd(b, k, "READY", 0, n, b.bits + n, b.nrKeys, b.nrBits))
  <2> DEFINE x == b.bits + n
  <2>1. /\ x \in Nat
        /\ x + ReadyLen(b, k) = b.bits + (n - 0)
        /\ b.nrKeys + NotReadyOne(b, k) >= b.nrKeys + 0
        /\ b.nrBits + NotReadyLen(b, k) >= b.nrBits + 0
    BY <1>1, <1>2
  <2> HIDE DEF x
  <2>2. Sound(Upd(b, k, "READY", 0, n, x, b.nrKeys, b.nrBits))
    BY <1>1, <2>1, UpdSound
  <2> QED BY <2>2 DEF x
<1>4. SetKey(b, k, "READY", 0, n) = Upd(b, k, "READY", 0, n, b.bits, b.nrKeys, b.nrBits)
  BY <1>1, SetUpd
<1>5. StoreKey(b, k, n) = LogAdd(SetKey(b, k, "READY", 0, n), n)
  BY DEF StoreKey, Insert, Held
<1> QED
  BY <1>1, <1>3, <1>4, <1>5, LogAddUpd

(* MarkKey(READY -> INIT).                                                 *)
LEMMA MarkInitSound ==
  ASSUME NEW b, NEW k \in KeyIds, Sound(b), b.st[k] = "READY"
  PROVE  /\ MarkKey(b, k, "INIT")
              = Upd(b, k, "INIT", b.lo[k], b.hi[k], b.bits - KeyLen(b, k),
                    b.nrKeys + 1, b.nrBits + KeyLen(b, k))
         /\ Sound(MarkKey(b, k, "INIT"))
<1> DEFINE n == KeyLen(b, k)
           c == Upd(b, k, "INIT", b.lo[k], b.hi[k], b.bits - n, b.nrKeys + 1, b.nrBits + n)
           d == Upd(b, k, "INIT", b.lo[k], b.hi[k], b.bits, b.nrKeys + 1, b.nrBits + n)
<1>1. /\ Shaped(b) /\ b.bits \in Nat /\ b.nrKeys \in Nat /\ b.nrBits \in Nat
      /\ n \in Nat /\ n <= b.bits /\ n = b.hi[k] - b.lo[k]
      /\ b.lo[k] \in 0 .. MaxLen /\ b.hi[k] \in 0 .. MaxLen /\ b.lo[k] <= b.hi[k]
  BY KeyFacts, ReadyBound DEF Sound
<1>2. ReadyLen(b, k) = n /\ NotReadyLen(b, k) = 0 /\ NotReadyOne(b, k) = 0
  BY DEF ReadyLen, NotReadyLen, NotReadyOne
<1>3. Sound(c)
  <2> DEFINE x == b.bits - n
             nk == b.nrKeys + 1
             nb == b.nrBits + n
  <2>1. /\ x \in Nat /\ nk \in Nat /\ nb \in Nat /\ x + n = b.bits
        /\ nk = b.nrKeys + 1 /\ nb = b.nrBits + (b.hi[k] - b.lo[k])
    BY <1>1
  <2> HIDE DEF n, x, nk, nb
  <2>2. /\ x + ReadyLen(b, k) = b.bits + 0
        /\ nk + NotReadyOne(b, k) >= b.nrKeys + 1
        /\ nb + NotReadyLen(b, k) >= b.nrBits + (b.hi[k] - b.lo[k])
    BY <1>1, <1>2, <2>1
  <2>3. Sound(Upd(b, k, "INIT", b.lo[k], b.hi[k], x, nk, nb))
    BY <1>1, <2>1, <2>2, UpdSound
  <2> QED BY <2>3 DEF x, nk, nb
<1>4. [Count(b, k) EXCEPT !.st[k] = "INIT"] = d
  <2> DEFINE e == Count(b, k)
  <2>1. /\ Shaped(e)
        /\ e = Upd(b, k, b.st[k], b.lo[k], b.hi[k], b.bits, b.nrKeys + 1, b.nrBits + n)
    BY <1>1, CountUpd
  <2> HIDE DEF e, n
  <2>2. Shaped(e)
    BY <2>1
  <2>3. [e EXCEPT !.st[k] = "INIT"]
          = Upd(e, k, "INIT", e.lo[k], e.hi[k], e.bits, e.nrKeys, e.nrBits)
    BY <2>2, SetSt, Zenon
  <2>4. /\ e.lo[k] = b.lo[k] /\ e.hi[k] = b.hi[k] /\ e.bits = b.bits
        /\ e.nrKeys = b.nrKeys + 1 /\ e.nrBits = b.nrBits + n
    BY <1>1, <2>1 DEF Upd, Shaped, Buffer
  <2>5. Upd(e, k, "INIT", b.lo[k], b.hi[k], b.bits, b.nrKeys + 1, b.nrBits + n) = d
    BY <1>1, <2>1, UpdUpd
  <2>6. [e EXCEPT !.st[k] = "INIT"] = d
    BY <2>3, <2>4, <2>5
  <2> QED BY <2>6 DEF e
<1>5. LogSub(d, n) = c
  <2> HIDE DEF n
  <2> QED BY <1>1, <1>3, LogSubUpd
<1> QED
  BY <1>3, <1>4, <1>5 DEF MarkKey, Held

(* MarkKey(INIT -> READY); marking a READY key READY changes nothing.      *)
LEMMA MarkReadySound ==
  ASSUME NEW b, NEW k \in KeyIds, Sound(b), b.st[k] = "INIT"
  PROVE  /\ MarkKey(b, k, "READY")
              = Upd(b, k, "READY", b.lo[k], b.hi[k], b.bits + KeyLen(b, k),
                    b.nrKeys - 1, b.nrBits - KeyLen(b, k))
         /\ Sound(MarkKey(b, k, "READY"))
<1> DEFINE n == KeyLen(b, k)
           c == Upd(b, k, "READY", b.lo[k], b.hi[k], b.bits + n, b.nrKeys - 1, b.nrBits - n)
           d == Upd(b, k, "READY", b.lo[k], b.hi[k], b.bits, b.nrKeys - 1, b.nrBits - n)
<1>0. CountersCover(b, k)
  BY SoundCovers
<1>1. /\ Shaped(b) /\ b.bits \in Nat /\ b.nrKeys \in Nat /\ b.nrBits \in Nat
      /\ n \in Nat /\ n = b.hi[k] - b.lo[k]
      /\ b.lo[k] \in 0 .. MaxLen /\ b.hi[k] \in 0 .. MaxLen /\ b.lo[k] <= b.hi[k]
      /\ b.nrKeys - 1 \in Nat /\ b.nrBits - n \in Nat
  BY <1>0, KeyFacts, UncountUpd DEF Sound
<1>2. ReadyLen(b, k) = 0 /\ NotReadyLen(b, k) = n /\ NotReadyOne(b, k) = 1
  BY DEF ReadyLen, NotReadyLen, NotReadyOne
<1>3. Sound(c)
  <2> DEFINE x == b.bits + n
             nk == b.nrKeys - 1
             nb == b.nrBits - n
  <2>1. /\ x \in Nat /\ nk \in Nat /\ nb \in Nat
        /\ x + 0 = b.bits + (b.hi[k] - b.lo[k])
        /\ nk + 1 = b.nrKeys /\ nb + n = b.nrBits
    BY <1>1
  <2> HIDE DEF n, x, nk, nb
  <2>2. /\ x + ReadyLen(b, k) = b.bits + (b.hi[k] - b.lo[k])
        /\ nk + NotReadyOne(b, k) >= b.nrKeys + 0
        /\ nb + NotReadyLen(b, k) >= b.nrBits + 0
    BY <1>1, <1>2, <2>1
  <2>3. Sound(Upd(b, k, "READY", b.lo[k], b.hi[k], x, nk, nb))
    BY <1>1, <2>1, <2>2, UpdSound
  <2> QED BY <2>3 DEF x, nk, nb
<1>4. [Uncount(b, k) EXCEPT !.st[k] = "READY"] = d
  <2> DEFINE e == Uncount(b, k)
  <2>1. /\ Shaped(e)
        /\ e = Upd(b, k, b.st[k], b.lo[k], b.hi[k], b.bits, b.nrKeys - 1, b.nrBits - n)
    BY <1>0, <1>1, UncountUpd
  <2> HIDE DEF e, n
  <2>2. Shaped(e)
    BY <2>1
  <2>3. [e EXCEPT !.st[k] = "READY"]
          = Upd(e, k, "READY", e.lo[k], e.hi[k], e.bits, e.nrKeys, e.nrBits)
    BY <2>2, SetSt, Zenon
  <2>4. /\ e.lo[k] = b.lo[k] /\ e.hi[k] = b.hi[k] /\ e.bits = b.bits
        /\ e.nrKeys = b.nrKeys - 1 /\ e.nrBits = b.nrBits - n
    BY <1>1, <2>1, UpdUpd
  <2>5. Upd(e, k, "READY", b.lo[k], b.hi[k], b.bits, b.nrKeys - 1, b.nrBits - n) = d
    BY <1>1, <2>1, UpdUpd
  <2>6. [e EXCEPT !.st[k] = "READY"] = d
    BY <2>3, <2>4, <2>5
  <2> QED BY <2>6 DEF e
<1>5. LogAdd(d, n) = c
  <2> HIDE DEF n
  <2> QED BY <1>1, <1>3, LogAddUpd
<1> QED
  BY <1>0, <1>3, <1>4, <1>5 DEF MarkKey, Held

(* MarkKey(READY) of a key that is READY changes nothing.                  *)
LEMMA MarkReadyIdle ==
  ASSUME NEW b, NEW k \in KeyIds, b.st[k] = "READY"
  PROVE  MarkKey(b, k, "READY") = b
  BY DEF MarkKey, Held

(* GetKey(id) of a READY key, with its traces.                             *)
LEMMA GetReadySound ==
  ASSUME NEW b, NEW k \in KeyIds, Sound(b), b.st[k] = "READY"
  PROVE  /\ GetKey(b, k, TRUE)
              = Upd(b, k, "NONE", 0, 0, b.bits - KeyLen(b, k), b.nrKeys, b.nrBits)
         /\ Sound(GetKey(b, k, TRUE))
<1> DEFINE n == KeyLen(b, k)
           c == Upd(b, k, "NONE", 0, 0, b.bits - n, b.nrKeys, b.nrBits)
<1>1. /\ Shaped(b) /\ b.bits \in Nat /\ b.nrKeys \in Nat /\ b.nrBits \in Nat
      /\ n \in Nat /\ n <= b.bits /\ 0 \in 0 .. MaxLen
  BY KeyFacts, ReadyBound, BoundsNat DEF Sound
<1>2. ReadyLen(b, k) = n /\ NotReadyLen(b, k) = 0 /\ NotReadyOne(b, k) = 0
  BY DEF ReadyLen, NotReadyLen, NotReadyOne
<1>3. Sound(c)
  <2> DEFINE x == b.bits - n
  <2>1. x \in Nat /\ x + n = b.bits
    BY <1>1
  <2> HIDE DEF n, x
  <2>2. /\ x + ReadyLen(b, k) = b.bits + 0
        /\ b.nrKeys + NotReadyOne(b, k) >= b.nrKeys + 0
        /\ b.nrBits + NotReadyLen(b, k) >= b.nrBits + 0
    BY <1>1, <1>2, <2>1
  <2>3. Sound(Upd(b, k, "NONE", 0, 0, x, b.nrKeys, b.nrBits))
    BY <1>1, <2>1, <2>2, UpdSound
  <2> QED BY <2>3 DEF x
<1>4. Erase(b, k) = Upd(b, k, "NONE", 0, 0, b.bits, b.nrKeys, b.nrBits)
  BY <1>1, EraseUpd
<1>5. LogSub(Erase(b, k), n) = c
  <2> HIDE DEF n
  <2> QED BY <1>1, <1>3, <1>4, LogSubUpd
<1> QED
  BY <1>3, <1>5 DEF GetKey

(* GetKey(id) of a key in INIT: no LogUpdate, the counters keep it.        *)
LEMMA GetInitSound ==
  ASSUME NEW b, NEW k \in KeyIds, NEW f \in BOOLEAN, Sound(b), b.st[k] = "INIT"
  PROVE  /\ GetKey(b, k, f) = Upd(b, k, "NONE", 0, 0, b.bits, b.nrKeys, b.nrBits)
         /\ Sound(GetKey(b, k, f))
<1>1. /\ Shaped(b) /\ b.bits \in Nat /\ b.nrKeys \in Nat /\ b.nrBits \in Nat
      /\ KeyLen(b, k) \in Nat /\ 0 \in 0 .. MaxLen
  BY KeyFacts, BoundsNat DEF Sound
<1>2. ReadyLen(b, k) = 0 /\ NotReadyLen(b, k) = KeyLen(b, k) /\ NotReadyOne(b, k) = 1
  BY DEF ReadyLen, NotReadyLen, NotReadyOne
<1>3. Sound(Upd(b, k, "NONE", 0, 0, b.bits, b.nrKeys, b.nrBits))
  <2>1. /\ b.bits + ReadyLen(b, k) = b.bits + 0
        /\ b.nrKeys + NotReadyOne(b, k) >= b.nrKeys + 0
        /\ b.nrBits + NotReadyLen(b, k) >= b.nrBits + 0
    BY <1>1, <1>2
  <2> QED BY <1>1, <2>1, UpdSound
<1>4. Erase(b, k) = Upd(b, k, "NONE", 0, 0, b.bits, b.nrKeys, b.nrBits)
  BY <1>1, EraseUpd
<1> QED
  BY <1>3, <1>4 DEF GetKey

(* MarkKey(INIT -> OBSOLETE) erases the key and uncounts it.               *)
LEMMA MarkObsoleteSound ==
  ASSUME NEW b, NEW k \in KeyIds, Sound(b), b.st[k] = "INIT"
  PROVE  /\ MarkKey(b, k, "OBSOLETE")
              = Upd(b, k, "NONE", 0, 0, b.bits, b.nrKeys - 1, b.nrBits - KeyLen(b, k))
         /\ Sound(MarkKey(b, k, "OBSOLETE"))
<1> DEFINE n == KeyLen(b, k)
           e == Uncount(b, k)
           c == Upd(b, k, "NONE", 0, 0, b.bits, b.nrKeys - 1, b.nrBits - n)
<1>0. CountersCover(b, k)
  BY SoundCovers
<1>1. /\ Shaped(b) /\ b.bits \in Nat /\ b.nrKeys \in Nat /\ b.nrBits \in Nat
      /\ n \in Nat /\ 0 \in 0 .. MaxLen
      /\ b.nrKeys - 1 \in Nat /\ b.nrBits - n \in Nat
  BY <1>0, KeyFacts, UncountUpd, BoundsNat DEF Sound
<1>2. ReadyLen(b, k) = 0 /\ NotReadyLen(b, k) = n /\ NotReadyOne(b, k) = 1
  BY DEF ReadyLen, NotReadyLen, NotReadyOne
<1>3. Sound(c)
  <2> DEFINE nk == b.nrKeys - 1
             nb == b.nrBits - n
  <2>1. nk \in Nat /\ nb \in Nat /\ nk + 1 = b.nrKeys /\ nb + n = b.nrBits
    BY <1>1
  <2> HIDE DEF n, nk, nb
  <2>2. /\ b.bits + ReadyLen(b, k) = b.bits + 0
        /\ nk + NotReadyOne(b, k) >= b.nrKeys + 0
        /\ nb + NotReadyLen(b, k) >= b.nrBits + 0
    BY <1>1, <1>2, <2>1
  <2>3. Sound(Upd(b, k, "NONE", 0, 0, b.bits, nk, nb))
    BY <1>1, <2>1, <2>2, UpdSound
  <2> QED BY <2>3 DEF nk, nb
<1>4. /\ Shaped(e)
      /\ e = Upd(b, k, "INIT", b.lo[k], b.hi[k], b.bits, b.nrKeys - 1, b.nrBits - n)
  BY <1>0, <1>1, UncountUpd
<1>5. GetKey(e, k, TRUE) = c
  <2> HIDE DEF e, n
  <2>1. e.st[k] = "INIT" /\ e.bits = b.bits /\ e.nrKeys = b.nrKeys - 1 /\ e.nrBits = b.nrBits - n
    BY <1>1, <1>4, UpdUpd
  <2>2. Erase(e, k) = Upd(e, k, "NONE", 0, 0, e.bits, e.nrKeys, e.nrBits)
    BY <1>4, EraseUpd
  <2>3. Erase(e, k) = c
    BY <1>1, <1>4, <2>1, <2>2, UpdUpd
  <2> QED BY <2>1, <2>3 DEF GetKey
<1> QED
  BY <1>0, <1>3, <1>5 DEF MarkKey, Held

(* A prefix cut off a READY key.                                           *)
LEMMA CutSound ==
  ASSUME NEW b, NEW k \in KeyIds, NEW size \in Nat, Sound(b), b.st[k] = "READY",
         size <= KeyLen(b, k)
  PROVE  /\ CutPrefix(b, k, size)
              = Upd(b, k, "READY", b.lo[k] + size, b.hi[k], b.bits - size, b.nrKeys, b.nrBits)
         /\ Sound(CutPrefix(b, k, size))
<1> DEFINE n == KeyLen(b, k)
           l == b.lo[k] + size
<1>1. /\ Shaped(b) /\ b.bits \in Nat /\ b.nrKeys \in Nat /\ b.nrBits \in Nat
      /\ n \in Nat /\ n <= b.bits /\ n = b.hi[k] - b.lo[k]
      /\ b.lo[k] \in 0 .. MaxLen /\ b.hi[k] \in 0 .. MaxLen /\ b.lo[k] <= b.hi[k]
  BY KeyFacts, ReadyBound DEF Sound
<1>2. ReadyLen(b, k) = n /\ NotReadyLen(b, k) = 0 /\ NotReadyOne(b, k) = 0
  BY DEF ReadyLen, NotReadyLen, NotReadyOne
<1>3. /\ l \in 0 .. MaxLen /\ l <= b.hi[k] /\ b.bits - size \in Nat
      /\ (b.bits - size) + n = b.bits + (b.hi[k] - l) /\ size <= b.bits
  BY <1>1, BoundsNat
<1>4. Sound(Upd(b, k, "READY", l, b.hi[k], b.bits - size, b.nrKeys, b.nrBits))
  <2> DEFINE x == b.bits - size
  <2>1. x \in Nat /\ x + n = b.bits + (b.hi[k] - l)
    BY <1>3
  <2> HIDE DEF n, l, x
  <2>2. /\ x + ReadyLen(b, k) = b.bits + (b.hi[k] - l)
        /\ b.nrKeys + NotReadyOne(b, k) >= b.nrKeys + 0
        /\ b.nrBits + NotReadyLen(b, k) >= b.nrBits + 0
    BY <1>1, <1>2, <2>1
  <2>3. Sound(Upd(b, k, "READY", l, b.hi[k], x, b.nrKeys, b.nrBits))
    BY <1>1, <1>3, <2>1, <2>2, UpdSound
  <2> QED BY <2>3 DEF x
<1>5. [b EXCEPT !.lo[k] = l] = Upd(b, k, "READY", l, b.hi[k], b.bits, b.nrKeys, b.nrBits)
  BY <1>1, SetLo, Zenon
<1>6. LogSub([b EXCEPT !.lo[k] = l], size)
        = Upd(b, k, "READY", l, b.hi[k], b.bits - size, b.nrKeys, b.nrBits)
  <2> HIDE DEF l
  <2> QED BY <1>1, <1>3, <1>4, <1>5, LogSubUpd
<1>7. CutPrefix(b, k, size) = LogSub([b EXCEPT !.lo[k] = l], size)
  BY DEF CutPrefix
<1> QED
  BY <1>4, <1>6, <1>7

-----------------------------------------------------------------------------
(* How the steps use these results: c is b with key k changed, whatever the*)
(* counters, and it is sound.                                              *)
Becomes(b, c, k, s, l, h) ==
  /\ Sound(c)
  /\ c.st = [b.st EXCEPT ![k] = s]
  /\ c.lo = [b.lo EXCEPT ![k] = l]
  /\ c.hi = [b.hi EXCEPT ![k] = h]
  /\ c.supply = b.supply
  /\ c.failed = b.failed

(* A sound change of one key is what the buffer becomes.                   *)
LEMMA UpdBecomes ==
  ASSUME NEW b, NEW k, NEW s, NEW l, NEW h, NEW x, NEW nk, NEW nb,
         Sound(Upd(b, k, s, l, h, x, nk, nb))
  PROVE  Becomes(b, Upd(b, k, s, l, h, x, nk, nb), k, s, l, h)
  BY DEF Becomes, Upd

(* Two changes of the same key are one.                                    *)
LEMMA BecomesTwice ==
  ASSUME NEW b, NEW c, NEW d, NEW k \in KeyIds, Shaped(b),
         NEW s, NEW l, NEW h, NEW s2, NEW l2, NEW h2,
         Becomes(b, c, k, s, l, h), Becomes(c, d, k, s2, l2, h2)
  PROVE  Becomes(b, d, k, s2, l2, h2)
  BY DEF Becomes, Shaped, Buffer

(* A failed check leaves the content as it is.                             *)
LEMMA StopSound ==
  ASSUME NEW b, Sound(b)
  PROVE  /\ Sound(Stop(b))
         /\ Stop(b).st = b.st /\ Stop(b).lo = b.lo /\ Stop(b).hi = b.hi
         /\ Stop(b).supply = b.supply /\ Stop(b).failed = TRUE
         /\ \A k : KeyLen(Stop(b), k) = KeyLen(b, k)
<1>1. Stop(b) = [ st |-> b.st, lo |-> b.lo, hi |-> b.hi, supply |-> b.supply,
                  bits |-> b.bits, nrKeys |-> b.nrKeys, nrBits |-> b.nrBits,
                  failed |-> TRUE ]
  <2>1. b = [ st |-> b.st, lo |-> b.lo, hi |-> b.hi, supply |-> b.supply,
              bits |-> b.bits, nrKeys |-> b.nrKeys, nrBits |-> b.nrBits,
              failed |-> b.failed ]
    BY DEF Sound, Shaped, Buffer
  <2> DEFINE v == TRUE
  <2>2. Stop(b) = [b EXCEPT !.failed = v]
    BY DEF Stop
  <2> HIDE DEF v
  <2>3. [b EXCEPT !.failed = v] =
          [ st |-> b.st, lo |-> b.lo, hi |-> b.hi, supply |-> b.supply,
            bits |-> b.bits, nrKeys |-> b.nrKeys, nrBits |-> b.nrBits,
            failed |-> v ]
    BY <2>1
  <2> QED BY <2>2, <2>3, Zenon DEF v
<1>2. Shaped(Stop(b))
  BY <1>1 DEF Sound, Shaped, Buffer
<1>3. /\ ReadyAmount(Stop(b)) = ReadyAmount(b)
      /\ NotReadyKeys(Stop(b)) = NotReadyKeys(b)
      /\ NotReadyCells(Stop(b)) = NotReadyCells(b)
  BY <1>1 DEF ReadyAmount, ReadyCells, SupplyCells, NotReadyKeys, NotReadyCells, Held
<1> QED
  BY <1>1, <1>2, <1>3 DEF Sound, KeyLen

(* The NS_ASSERT of GetTransformCandidate holds without supply keys.       *)
LEMMA CandidateCheckedSound ==
  ASSUME NEW b, Sound(b)
  PROVE  /\ Sound(CandidateChecked(b))
         /\ CandidateChecked(b).st = b.st /\ CandidateChecked(b).lo = b.lo
         /\ CandidateChecked(b).hi = b.hi /\ CandidateChecked(b).supply = b.supply
         /\ (\A t \in SupplyIds : b.supply[t] = {}) => CandidateChecked(b) = b
<1>1. ASSUME \A t \in SupplyIds : b.supply[t] = {}
      PROVE  CandidateChecked(b) = b
  <2>1. SupplyCells(b) = {}
    BY <1>1 DEF SupplyCells
  <2>2. Cardinality(SupplyCells(b)) = 0
    BY <2>1, FS_EmptySet
  <2>3. b.bits = Cardinality(ReadyCells(b))
    BY <2>2, CountsFinite DEF Sound, ReadyAmount
  <2> QED BY <2>3 DEF CandidateChecked
<1> QED
  BY <1>1, StopSound DEF CandidateChecked

(* GetTransformCandidate.                                                  *)
LEMMA TransformSound ==
  ASSUME NEW b, NEW k \in KeyIds, NEW size \in Nat, Sound(b), b.st[k] = "READY"
  PROVE  LET c == CandidateChecked(b)
             d == TransformCandidate(b, k, size)
         IN  IF Splits(b, k, size)
               THEN Becomes(c, d, k, "INIT", b.lo[k] + size, b.hi[k])
               ELSE Becomes(c, d, k, "NONE", 0, 0)
<1> DEFINE c == CandidateChecked(b)
           d == TransformCandidate(b, k, size)
           e == CutPrefix(c, k, size)
<1>1. /\ Sound(c) /\ c.st = b.st /\ c.lo = b.lo /\ c.hi = b.hi
      /\ c.st[k] = "READY" /\ KeyLen(c, k) = KeyLen(b, k)
      /\ Splits(c, k, size) <=> Splits(b, k, size)
  BY CandidateCheckedSound DEF KeyLen, Splits
<1>2. CASE Splits(b, k, size)
  <2>1. size <= KeyLen(c, k)
    <3>1. KeyLen(c, k) \in Nat
      BY <1>1, KeyFacts DEF Sound
    <3> QED BY <1>1, <1>2, <3>1 DEF Splits
  <2> HIDE DEF c
  <2>2. Becomes(c, e, k, "READY", c.lo[k] + size, c.hi[k])
    BY <1>1, <2>1, CutSound, UpdBecomes
  <2>3. Sound(e) /\ e.st[k] = "READY" /\ e.lo[k] = c.lo[k] + size /\ e.hi[k] = c.hi[k]
    BY <1>1, <2>2 DEF Becomes, Sound, Shaped, Buffer
  <2>4. Becomes(e, MarkKey(e, k, "INIT"), k, "INIT", e.lo[k], e.hi[k])
    <3> HIDE DEF e
    <3> QED BY <2>3, MarkInitSound, UpdBecomes
  <2>5. Becomes(c, MarkKey(e, k, "INIT"), k, "INIT", b.lo[k] + size, b.hi[k])
    <3> HIDE DEF e
    <3>1. Shaped(c) BY <1>1 DEF Sound
    <3> QED BY <1>1, <2>2, <2>3, <2>4, <3>1, BecomesTwice
  <2>6. d = MarkKey(e, k, "INIT")
    BY <1>2 DEF TransformCandidate, c
  <2> QED BY <1>2, <2>5, <2>6 DEF c
<1>3. CASE ~Splits(b, k, size)
  <2>1. d = GetKey(c, k, TRUE)
    BY <1>3 DEF TransformCandidate
  <2> HIDE DEF c
  <2>2. Becomes(c, GetKey(c, k, TRUE), k, "NONE", 0, 0)
    BY <1>1, GetReadySound, UpdBecomes
  <2> QED BY <1>3, <2>1, <2>2 DEF c
<1> QED
  BY <1>2, <1>3

(* GetHalfKey of a READY key that is long enough.                          *)
LEMMA HalfKeySound ==
  ASSUME NEW b, NEW k \in KeyIds, NEW size \in Nat, Sound(b), b.st[k] = "READY",
         size <= KeyLen(b, k)
  PROVE  IF KeyLen(b, k) > size
           THEN Becomes(b, HalfKey(b, k, size), k, "READY", b.lo[k] + size, b.hi[k])
           ELSE Becomes(b, HalfKey(b, k, size), k, "NONE", 0, 0)
<1>1. KeyLen(b, k) \in Nat /\ Held(b, k)
  BY KeyFacts DEF Sound, Held
<1>2. CASE KeyLen(b, k) > size
  <2>1. KeyLen(b, k) # size
    BY <1>1, <1>2
  <2>2. HalfKey(b, k, size) = CutPrefix(b, k, size)
    BY <1>1, <1>2, <2>1, Zenon DEF HalfKey
  <2> QED BY <1>2, <2>2, CutSound, UpdBecomes
<1>3. CASE ~(KeyLen(b, k) > size)
  <2>1. KeyLen(b, k) = size
    BY <1>1, <1>3
  <2>2. HalfKey(b, k, size) = GetKey(b, k, TRUE)
    BY <1>1, <1>3, <2>1 DEF HalfKey
  <2> QED BY <1>3, <2>2, GetReadySound, UpdBecomes
<1> QED
  BY <1>2, <1>3

-----------------------------------------------------------------------------
(* A change of one supply key: what StoreSupplyKey and GetSupplyKey do.    *)
UpdSupply(b, s, cells, bits) ==
  [ st     |-> b.st,
    lo     |-> b.lo,
    hi     |-> b.hi,
    supply |-> [b.supply EXCEPT ![s] = cells],
    bits   |-> bits,
    nrKeys |-> b.nrKeys,
    nrBits |-> b.nrBits,
    failed |-> b.failed ]

SupplyBecomes(b, c, s, cells) ==
  /\ Sound(c)
  /\ c.st = b.st /\ c.lo = b.lo /\ c.hi = b.hi /\ c.failed = b.failed
  /\ c.supply = [b.supply EXCEPT ![s] = cells]

(* Storing or taking a supply key is a change of that supply key alone.    *)
LEMMA SetSupply ==
  ASSUME NEW b, NEW s \in SupplyIds, NEW cells, Shaped(b)
  PROVE  [b EXCEPT !.supply[s] = cells] = UpdSupply(b, s, cells, b.bits)
<1>1. b = [ st |-> b.st, lo |-> b.lo, hi |-> b.hi, supply |-> b.supply,
            bits |-> b.bits, nrKeys |-> b.nrKeys, nrBits |-> b.nrBits,
            failed |-> b.failed ]
  BY DEF Shaped, Buffer
<1> QED
  BY <1>1 DEF UpdSupply

(* The amount of supply material moves by the size of that key.            *)
LEMMA SupplyDelta ==
  ASSUME NEW b, NEW s \in SupplyIds, NEW cells \in SUBSET Cell, Shaped(b), NEW x
  PROVE  /\ IsFiniteSet(cells) /\ IsFiniteSet(b.supply[s])
         /\ Cardinality(SupplyCells(UpdSupply(b, s, cells, x))) + Cardinality(b.supply[s])
              = Cardinality(SupplyCells(b)) + Cardinality(cells)
<1> DEFINE c == UpdSupply(b, s, cells, x)
           Rest(d) == {p \in SupplyCells(d) : p[1] # s}
           Mine(m) == {s} \X m
<1>1. b.supply[s] \in SUBSET Cell /\ b.supply \in [SupplyIds -> SUBSET Cell]
  BY DEF Shaped, Buffer
<1>2. IsFiniteSet(cells) /\ IsFiniteSet(b.supply[s])
  BY <1>1, CellsFinite, FS_Subset
<1>3. c.supply = [b.supply EXCEPT ![s] = cells]
  BY DEF UpdSupply
<1>4. /\ SupplyCells(b) = Rest(b) \cup Mine(b.supply[s]) /\ Rest(b) \cap Mine(b.supply[s]) = {}
      /\ SupplyCells(c) = Rest(b) \cup Mine(cells) /\ Rest(b) \cap Mine(cells) = {}
  <2> HIDE DEF c
  <2> QED BY <1>1, <1>3 DEF SupplyCells
<1>5. ASSUME NEW m, IsFiniteSet(m)
      PROVE  IsFiniteSet(Mine(m)) /\ Cardinality(Mine(m)) = Cardinality(m)
  <2>1. IsFiniteSet({s}) /\ Cardinality({s}) = 1
    BY FS_Singleton
  <2>2. /\ IsFiniteSet({s} \X m)
        /\ Cardinality({s} \X m) = Cardinality({s}) * Cardinality(m)
    BY <1>5, <2>1, FS_Product
  <2>3. Cardinality(m) \in Nat
    BY <1>5, FS_CardinalityType
  <2> QED BY <2>1, <2>2, <2>3
<1>6. IsFiniteSet(Rest(b))
  BY CountsFinite, FS_Subset
<1> HIDE DEF Rest, Mine
<1>7. /\ Cardinality(SupplyCells(b)) = Cardinality(Rest(b)) + Cardinality(Mine(b.supply[s]))
      /\ Cardinality(SupplyCells(c)) = Cardinality(Rest(b)) + Cardinality(Mine(cells))
  BY <1>2, <1>4, <1>5, <1>6, SplitSize
<1>8. Cardinality(Rest(b)) \in Nat /\ Cardinality(cells) \in Nat /\ Cardinality(b.supply[s]) \in Nat
  BY <1>2, <1>6, FS_CardinalityType
<1>9. Cardinality(Mine(cells)) = Cardinality(cells)
        /\ Cardinality(Mine(b.supply[s])) = Cardinality(b.supply[s])
  BY <1>2, <1>5
<1> QED
  BY <1>2, <1>7, <1>8, <1>9

(* A change of a supply key keeps a buffer sound if the account moves with *)
(* it.                                                                     *)
LEMMA UpdSupplySound ==
  ASSUME NEW b, NEW s \in SupplyIds, NEW cells \in SUBSET Cell, Sound(b), NEW x \in Nat,
         x + Cardinality(b.supply[s]) = b.bits + Cardinality(cells)
  PROVE  Sound(UpdSupply(b, s, cells, x))
<1> DEFINE c == UpdSupply(b, s, cells, x)
<1>1. Shaped(b) /\ Shaped(c)
  BY DEF Sound, Shaped, Buffer, UpdSupply
<1>2. /\ ReadyCells(c) = ReadyCells(b) /\ NotReadyKeys(c) = NotReadyKeys(b)
      /\ NotReadyCells(c) = NotReadyCells(b)
      /\ c.bits = x /\ c.nrKeys = b.nrKeys /\ c.nrBits = b.nrBits
  BY DEF UpdSupply, ReadyCells, NotReadyKeys, NotReadyCells, Held
<1>3. Cardinality(SupplyCells(c)) + Cardinality(b.supply[s])
        = Cardinality(SupplyCells(b)) + Cardinality(cells)
  BY <1>1, SupplyDelta
<1>4. /\ Cardinality(ReadyCells(b)) \in Nat /\ Cardinality(SupplyCells(b)) \in Nat
      /\ Cardinality(SupplyCells(c)) \in Nat
      /\ Cardinality(cells) \in Nat /\ Cardinality(b.supply[s]) \in Nat
  <2>1. IsFiniteSet(cells) /\ IsFiniteSet(b.supply[s])
    BY <1>1, SupplyDelta
  <2> QED BY <2>1, CountsFinite, FS_CardinalityType
<1>5. b.bits = Cardinality(ReadyCells(b)) + Cardinality(SupplyCells(b))
  BY DEF Sound, ReadyAmount
<1>6. x = Cardinality(ReadyCells(b)) + Cardinality(SupplyCells(c))
  <2> DEFINE rc == Cardinality(ReadyCells(b))
             sb == Cardinality(SupplyCells(b))
             sc == Cardinality(SupplyCells(c))
             old == Cardinality(b.supply[s])
             new == Cardinality(cells)
  <2>1. /\ rc \in Nat /\ sb \in Nat /\ sc \in Nat /\ old \in Nat /\ new \in Nat
        /\ sc + old = sb + new /\ x + old = b.bits + new /\ b.bits = rc + sb
    BY <1>3, <1>4, <1>5
  <2> HIDE DEF rc, sb, sc, old, new
  <2>2. x = rc + sc
    BY <2>1
  <2> QED BY <2>2 DEF rc, sc
<1> HIDE DEF c
<1>7. Sound(c)
  BY <1>1, <1>2, <1>6 DEF Sound, ReadyAmount
<1> QED
  BY <1>7 DEF c

(* StoreSupplyKey of a new supply key keeps the account.                   *)
LEMMA StoreSupplySound ==
  ASSUME NEW b, NEW s \in SupplyIds, NEW cells \in SUBSET Cell, Sound(b), b.supply[s] = {}
  PROVE  SupplyBecomes(b, StoreSupplyKey(b, s, cells), s, cells)
<1> DEFINE n == Cardinality(cells)
           c == UpdSupply(b, s, cells, b.bits + n)
<1>1. /\ Shaped(b) /\ b.bits \in Nat /\ n \in Nat /\ Cardinality(b.supply[s]) = 0
  <2>1. IsFiniteSet(cells)
    BY CellsFinite, FS_Subset
  <2> QED BY <2>1, FS_CardinalityType, FS_EmptySet DEF Sound, Shaped, Buffer
<1>2. Sound(c)
  <2> DEFINE x == b.bits + n
  <2>1. x \in Nat /\ x + Cardinality(b.supply[s]) = b.bits + n
    BY <1>1
  <2> HIDE DEF x
  <2>2. Sound(UpdSupply(b, s, cells, x))
    BY <2>1, UpdSupplySound
  <2> QED BY <2>2 DEF x
<1>3. [[b EXCEPT !.supply[s] = cells] EXCEPT !.bits = @ + n] = c
  <2> DEFINE e == [b EXCEPT !.supply[s] = cells]
  <2>1. e = UpdSupply(b, s, cells, b.bits)
    BY <1>1, SetSupply
  <2> HIDE DEF e, n
  <2>2. [e EXCEPT !.bits = @ + n] = c
    BY <2>1 DEF UpdSupply
  <2> QED BY <2>2 DEF e
<1>4. StoreSupplyKey(b, s, cells) = c
  <2> HIDE DEF c, n
  <2>1. Checked(c) = c
    BY <1>2 DEF Checked, Sound
  <2> QED BY <1>3, <2>1 DEF StoreSupplyKey, LogAdd, n
<1> QED
  BY <1>2, <1>4 DEF SupplyBecomes, UpdSupply

(* GetSupplyKey of a stored supply key keeps the account.                  *)
LEMMA TakeSupplySound ==
  ASSUME NEW b, NEW s \in SupplyIds, Sound(b), b.supply[s] # {}
  PROVE  SupplyBecomes(b, GetSupplyKey(b, s), s, {})
<1> DEFINE n == Cardinality(b.supply[s])
           c == UpdSupply(b, s, {}, b.bits - n)
<1>1. Shaped(b) /\ b.bits \in Nat /\ n \in Nat /\ n <= b.bits
  <2>1. Shaped(b) /\ b.bits \in Nat
    BY DEF Sound, Shaped, Buffer
  <2>2. IsFiniteSet(b.supply[s])
    BY <2>1, SupplyDelta
  <2>3. /\ Cardinality(SupplyCells(UpdSupply(b, s, {}, 0))) + n
              = Cardinality(SupplyCells(b)) + Cardinality({})
    BY <2>1, SupplyDelta
  <2>4. Cardinality({}) = 0 /\ n \in Nat
    BY <2>2, FS_CardinalityType, FS_EmptySet
  <2>5. b.bits = Cardinality(ReadyCells(b)) + Cardinality(SupplyCells(b))
    BY DEF Sound, ReadyAmount
  <2> HIDE DEF n
  <2> QED BY <2>1, <2>3, <2>4, <2>5, CountsFinite
<1>2. Sound(c)
  <2> DEFINE x == b.bits - n
  <2>1. x \in Nat /\ x + Cardinality(b.supply[s]) = b.bits + Cardinality({})
    BY <1>1, FS_EmptySet
  <2> HIDE DEF x
  <2>2. Sound(UpdSupply(b, s, {}, x))
    BY <2>1, UpdSupplySound
  <2> QED BY <2>2 DEF x
<1>3. [[b EXCEPT !.supply[s] = {}] EXCEPT !.bits = IF n > @ THEN @ ELSE @ - n] = c
  <2> DEFINE e == [b EXCEPT !.supply[s] = {}]
  <2>1. e = UpdSupply(b, s, {}, b.bits)
    BY <1>1, SetSupply
  <2> HIDE DEF e, n
  <2>2. e.bits = b.bits /\ ~(n > b.bits)
    BY <1>1, <2>1 DEF UpdSupply
  <2>3. [e EXCEPT !.bits = IF n > @ THEN @ ELSE @ - n] = c
    BY <2>1, <2>2 DEF UpdSupply
  <2> QED BY <2>3 DEF e
<1>4. GetSupplyKey(b, s) = c
  <2> HIDE DEF c, n
  <2>1. Checked(c) = c
    BY <1>2 DEF Checked, Sound
  <2> QED BY <1>3, <2>1 DEF GetSupplyKey, LogSub, n
<1> QED
  BY <1>2, <1>4 DEF SupplyBecomes, UpdSupply

-----------------------------------------------------------------------------
(* Folds over a finite set.                                                *)

(* Induction on the natural numbers, for a set of them.                    *)
LEMMA NatInd ==
  ASSUME NEW S, 0 \in S, \A n \in Nat : n \in S => n + 1 \in S
  PROVE  Nat \subseteq S
<1> DEFINE R == {p \in Nat \X Nat : p[1] < p[2]}
           T == Nat \ S
<1>1. IsWellFoundedOn(R, Nat)
  BY NatLessThanWellFounded, IsWellFoundedOnSubrelation DEF OpToRel
<1>2. SUFFICES ASSUME T # {} PROVE FALSE
  OBVIOUS
<1>3. PICK x \in T : \A y \in T : <<y, x>> \notin R
  <2> HIDE DEF R
  <2> QED BY <1>1, <1>2, WFMin
<1>4. x \in Nat /\ x # 0 /\ x - 1 \in Nat /\ x - 1 < x
  BY <1>3
<1>5. x - 1 \in S
  BY <1>3, <1>4
<1> QED BY <1>3, <1>4, <1>5

(* The element a fold takes out of a set next.                             *)
Pick(s) == CHOOSE x \in s : TRUE

(* The function f goes through S step by step, from base and by O.         *)
Folding(f, S, T, base, O) ==
  /\ f \in [SUBSET S -> T]
  /\ \A s \in SUBSET S :
       f[s] = IF s = {} THEN base ELSE O[<<Pick(s), f[s \ {Pick(s)}]>>]

(* There is such a function: the one FoldSet denotes is not an arbitrary   *)
(* value.                                                                  *)
LEMMA FoldExists ==
  ASSUME NEW S, IsFiniteSet(S), NEW T, NEW base \in T, NEW O \in [S \X T -> T]
  PROVE  \E f : Folding(f, S, T, base, O)
<1> DEFINE Step(f, s) == IF s = {} THEN base ELSE O[<<Pick(s), f[s \ {Pick(s)}]>>]
           N == {n \in Nat : \E f \in [SUBSET S -> T] : \A s \in SUBSET S :
                                Cardinality(s) <= n => f[s] = Step(f, s)}
<1>1. \A s \in SUBSET S : /\ IsFiniteSet(s) /\ Cardinality(s) \in Nat
                          /\ Cardinality(s) = 0 <=> s = {}
  BY FS_Subset, FS_CardinalityType, FS_EmptySet
<1>2. \A s \in SUBSET S : s # {} =>
        /\ Pick(s) \in s /\ s \ {Pick(s)} \in SUBSET S
        /\ Cardinality(s \ {Pick(s)}) = Cardinality(s) - 1
  BY <1>1, FS_RemoveElement DEF Pick
<1>3. 0 \in N
  <2> DEFINE f == [s \in SUBSET S |-> base]
  <2>1. f \in [SUBSET S -> T]
    OBVIOUS
  <2>2. \A s \in SUBSET S : Cardinality(s) <= 0 => f[s] = Step(f, s)
    BY <1>1
  <2> QED BY <2>1, <2>2
<1>4. ASSUME NEW n \in Nat, n \in N PROVE n + 1 \in N
  <2>1. PICK f \in [SUBSET S -> T] : \A s \in SUBSET S : Cardinality(s) <= n => f[s] = Step(f, s)
    BY <1>4
  <2> DEFINE g == [s \in SUBSET S |-> IF Cardinality(s) <= n THEN f[s] ELSE Step(f, s)]
  <2>2. \A s \in SUBSET S : Step(f, s) \in T
    <3>1. TAKE s \in SUBSET S
    <3>2. CASE s = {}
      BY <3>2
    <3>3. CASE s # {}
      <4>1. Pick(s) \in S /\ f[s \ {Pick(s)}] \in T
        BY <1>2, <3>3
      <4> QED BY <3>3, <4>1
    <3> QED BY <3>2, <3>3
  <2>3. g \in [SUBSET S -> T]
    <3> HIDE DEF Step
    <3> QED BY <2>2
  <2>4. \A s \in SUBSET S : Cardinality(s) <= n + 1 => g[s] = Step(g, s)
    <3>1. SUFFICES ASSUME NEW s \in SUBSET S, Cardinality(s) <= n + 1 PROVE g[s] = Step(g, s)
      OBVIOUS
    <3>2. CASE s = {}
      <4>0. Cardinality(s) <= n
        BY <1>1, <3>2
      <4>1. g[s] = f[s] /\ f[s] = Step(f, s)
        BY <2>1, <4>0
      <4> QED BY <3>2, <4>1
    <3>3. CASE s # {}
      <4>1. s \ {Pick(s)} \in SUBSET S /\ Cardinality(s \ {Pick(s)}) <= n
        BY <1>1, <1>2, <3>1, <3>3
      <4>2. g[s \ {Pick(s)}] = f[s \ {Pick(s)}]
        BY <4>1
      <4>3. g[s] = Step(f, s)
        BY <2>1
      <4> QED BY <3>3, <4>2, <4>3
    <3> QED BY <3>2, <3>3
  <2> HIDE DEF g, Step
  <2> QED BY <2>3, <2>4
<1>5. Cardinality(S) \in N
  <2> HIDE DEF N
  <2>1. \A n \in Nat : n \in N => n + 1 \in N
    BY <1>4
  <2>2. Nat \subseteq N
    BY <1>3, <2>1, NatInd
  <2> QED BY <2>2, FS_CardinalityType
<1>6. \A s \in SUBSET S : Cardinality(s) <= Cardinality(S)
  BY FS_Subset
<1>7. PICK f \in [SUBSET S -> T] : \A s \in SUBSET S : f[s] = Step(f, s)
  BY <1>5, <1>6
<1> QED
  BY <1>7 DEF Folding

(* What holds of the start and is kept by each step of a fold holds of its *)
(* result.                                                                 *)
LEMMA FoldRule ==
  ASSUME NEW S, IsFiniteSet(S), NEW f, NEW R, <<{}, f[{}]>> \in R,
         \A s \in SUBSET S : s # {} /\ <<s \ {Pick(s)}, f[s \ {Pick(s)}]>> \in R
                              => <<s, f[s]>> \in R
  PROVE  <<S, f[S]>> \in R
<1> DEFINE N == {n \in Nat : \A s \in SUBSET S : Cardinality(s) = n => <<s, f[s]>> \in R}
<1>1. \A s \in SUBSET S : /\ IsFiniteSet(s) /\ Cardinality(s) \in Nat
                          /\ Cardinality(s) = 0 <=> s = {}
  BY FS_Subset, FS_CardinalityType, FS_EmptySet
<1>2. 0 \in N
  BY <1>1
<1>3. ASSUME NEW n \in Nat, n \in N PROVE n + 1 \in N
  <2>1. SUFFICES ASSUME NEW s \in SUBSET S, Cardinality(s) = n + 1 PROVE <<s, f[s]>> \in R
    OBVIOUS
  <2>2. s # {}
    BY <1>1, <2>1
  <2>3. Pick(s) \in s
    BY <2>2 DEF Pick
  <2>4. s \ {Pick(s)} \in SUBSET S /\ Cardinality(s \ {Pick(s)}) = n
    <3>1. Cardinality(s \ {Pick(s)}) = Cardinality(s) - 1
      BY <1>1, <2>3, FS_RemoveElement
    <3> QED BY <2>1, <3>1
  <2>5. <<s \ {Pick(s)}, f[s \ {Pick(s)}]>> \in R
    BY <1>3, <2>4
  <2> QED BY <2>2, <2>5
<1>4. Cardinality(S) \in N
  <2> HIDE DEF N
  <2>1. \A n \in Nat : n \in N => n + 1 \in N
    BY <1>3
  <2>2. Nat \subseteq N
    BY <1>2, <2>1, NatInd
  <2> QED BY <2>2, FS_CardinalityType
<1> QED
  BY <1>4

-----------------------------------------------------------------------------
(* A recursive function over D whose value at w follows by O from its      *)
(* values at the arguments K[w], all of a smaller size, exists.            *)
Recurs(f, D, K, O) == f = [w \in D |-> O[<<w, [v \in K[w] |-> f[v]]>>]]

Solves(f, D, T, size, K, O, n) ==
  /\ f \in [{w \in D : size[w] < n} -> T]
  /\ \A w \in D : size[w] < n => f[w] = O[<<w, [v \in K[w] |-> f[v]]>>]

(* Two solutions agree where both are defined.                             *)
LEMMA SolvesOnce ==
  ASSUME NEW D, NEW T, NEW size \in [D -> Nat], NEW K \in [D -> SUBSET D], NEW O,
         \A w \in D : \A v \in K[w] : size[v] < size[w],
         NEW f, NEW g, NEW n \in Nat, NEW m \in Nat,
         Solves(f, D, T, size, K, O, n), Solves(g, D, T, size, K, O, m),
         NEW w \in D, size[w] < n, size[w] < m
  PROVE  f[w] = g[w]
<1> DEFINE N == {i \in Nat : \A v \in D : size[v] < i /\ size[v] < n /\ size[v] < m
                                            => f[v] = g[v]}
<1>1. 0 \in N
  <2>1. \A v \in D : ~(size[v] < 0)
    OBVIOUS
  <2> QED BY <2>1
<1>2. ASSUME NEW i \in Nat, i \in N
      PROVE  i + 1 \in N
  <2>1. ASSUME NEW v \in D, size[v] < i + 1, size[v] < n, size[v] < m
        PROVE  f[v] = g[v]
    <3>1. \A u \in K[v] : f[u] = g[u]
      <4>1. TAKE u \in K[v]
      <4>2. u \in D /\ size[u] < size[v]
        OBVIOUS
      <4>3. size[u] \in Nat /\ size[v] \in Nat
        BY <4>2
      <4>4. size[u] < i /\ size[u] < n /\ size[u] < m
        BY <2>1, <4>2, <4>3
      <4> QED BY <1>2, <4>2, <4>4
    <3>2. [u \in K[v] |-> f[u]] = [u \in K[v] |-> g[u]]
      BY <3>1
    <3> QED BY <2>1, <3>2 DEF Solves
  <2> QED BY <2>1
<1>3. Nat \subseteq N
  <2> HIDE DEF N
  <2> QED BY <1>1, <1>2, NatInd
<1>4. size[w] \in Nat /\ size[w] + 1 \in N /\ size[w] < size[w] + 1
  <2>1. size[w] \in Nat
    OBVIOUS
  <2> HIDE DEF N
  <2> QED BY <1>3, <2>1
<1> QED BY <1>4

(* There is a solution up to each size.                                    *)
LEMMA SolvesSome ==
  ASSUME NEW D, NEW T, NEW size \in [D -> Nat], NEW K \in [D -> SUBSET D], NEW O,
         \A w \in D : \A v \in K[w] : size[v] < size[w],
         \A w \in D : \A h \in [K[w] -> T] : O[<<w, h>>] \in T,
         NEW n \in Nat
  PROVE  \E f : Solves(f, D, T, size, K, O, n)
<1> DEFINE N == {i \in Nat : \E f : Solves(f, D, T, size, K, O, i)}
<1>1. 0 \in N
  <2>1. \A v \in D : ~(size[v] < 0)
    OBVIOUS
  <2>2. PICK f : f = [w \in {v \in D : size[v] < 0} |-> CHOOSE x \in T : TRUE]
    OBVIOUS
  <2>3. Solves(f, D, T, size, K, O, 0)
    BY <2>1, <2>2 DEF Solves
  <2> QED BY <2>3
<1>2. ASSUME NEW i \in Nat, i \in N
      PROVE  i + 1 \in N
  <2>1. PICK g : Solves(g, D, T, size, K, O, i)
    BY <1>2
  <2>2. PICK f : f = [w \in {v \in D : size[v] < i + 1} |-> O[<<w, [v \in K[w] |-> g[v]]>>]]
    OBVIOUS
  <2>3. ASSUME NEW w \in D, size[w] < i + 1
        PROVE  /\ [v \in K[w] |-> g[v]] \in [K[w] -> T]
               /\ \A v \in K[w] : f[v] = g[v]
    <3>1. \A v \in K[w] : v \in D /\ size[v] < i /\ size[v] < i + 1
      <4>1. TAKE v \in K[w]
      <4>2. v \in D /\ size[v] < size[w]
        OBVIOUS
      <4>3. size[v] \in Nat /\ size[w] \in Nat
        BY <4>2
      <4> QED BY <2>3, <4>2, <4>3
    <3>2. \A v \in K[w] : g[v] \in T
      BY <2>1, <3>1 DEF Solves
    <3>3. \A v \in K[w] : f[v] = O[<<v, [u \in K[v] |-> g[u]]>>]
      BY <2>2, <3>1
    <3>4. \A v \in K[w] : g[v] = O[<<v, [u \in K[v] |-> g[u]]>>]
      BY <2>1, <3>1 DEF Solves
    <3> QED BY <3>2, <3>3, <3>4
  <2>4. f \in [{v \in D : size[v] < i + 1} -> T]
    <3>1. \A w \in {v \in D : size[v] < i + 1} : O[<<w, [v \in K[w] |-> g[v]]>>] \in T
      BY <2>3
    <3> QED BY <2>2, <3>1
  <2>5. ASSUME NEW w \in D, size[w] < i + 1
        PROVE  f[w] = O[<<w, [v \in K[w] |-> f[v]]>>]
    <3>1. [v \in K[w] |-> f[v]] = [v \in K[w] |-> g[v]]
      BY <2>3, <2>5
    <3> QED BY <2>2, <2>5, <3>1
  <2>6. Solves(f, D, T, size, K, O, i + 1)
    BY <2>4, <2>5 DEF Solves
  <2> QED BY <2>6
<1>3. Nat \subseteq N
  <2> HIDE DEF N
  <2> QED BY <1>1, <1>2, NatInd
<1> QED BY <1>3

(* The function exists.                                                    *)
LEMMA RecursBuilt ==
  ASSUME NEW D, NEW T, NEW size \in [D -> Nat], NEW K \in [D -> SUBSET D], NEW O,
         \A w \in D : \A v \in K[w] : size[v] < size[w],
         \A w \in D : \A h \in [K[w] -> T] : O[<<w, h>>] \in T
  PROVE  \E f : f \in [D -> T] /\ Recurs(f, D, K, O)
<1> DEFINE F(w) == CHOOSE f : Solves(f, D, T, size, K, O, size[w] + 1)
<1>1. \A w \in D : Solves(F(w), D, T, size, K, O, size[w] + 1)
  <2>1. TAKE w \in D
  <2>2. size[w] + 1 \in Nat
    OBVIOUS
  <2>3. \E f : Solves(f, D, T, size, K, O, size[w] + 1)
    BY <2>2, SolvesSome
  <2> QED BY <2>3
<1> HIDE DEF F
<1>2. PICK g : g = [w \in D |-> F(w)[w]]
  OBVIOUS
<1>3. ASSUME NEW w \in D
      PROVE  /\ F(w)[w] \in T
             /\ F(w)[w] = O[<<w, [v \in K[w] |-> F(w)[v]]>>]
             /\ \A v \in K[w] : v \in D /\ F(v)[v] = F(w)[v]
  <2>1. size[w] \in Nat /\ size[w] < size[w] + 1 /\ size[w] + 1 \in Nat
    OBVIOUS
  <2>2. F(w)[w] \in T /\ F(w)[w] = O[<<w, [v \in K[w] |-> F(w)[v]]>>]
    BY <1>1, <2>1 DEF Solves
  <2>3. ASSUME NEW v \in K[w]
        PROVE  v \in D /\ F(v)[v] = F(w)[v]
    <3>1. v \in D /\ size[v] < size[w]
      OBVIOUS
    <3>2. size[v] \in Nat /\ size[v] < size[v] + 1 /\ size[v] + 1 \in Nat
          /\ size[v] < size[w] + 1
      BY <2>1, <3>1
    <3> QED BY <1>1, <2>1, <3>1, <3>2, SolvesOnce
  <2> QED BY <2>2, <2>3
<1>4. g \in [D -> T]
  BY <1>2, <1>3
<1>5. \A w \in D : g[w] = O[<<w, [v \in K[w] |-> g[v]]>>]
  <2>1. TAKE w \in D
  <2>2. [v \in K[w] |-> g[v]] = [v \in K[w] |-> F(w)[v]]
    BY <1>2, <1>3
  <2> QED BY <1>2, <1>3, <2>2
<1>6. g = [w \in D |-> O[<<w, [v \in K[w] |-> g[v]]>>]]
  BY <1>4, <1>5
<1> QED BY <1>4, <1>6 DEF Recurs

-----------------------------------------------------------------------------
(* Operations in steps: the function that they are the last value of.      *)

(* A function that is built from 0 to n, each value from the one before.   *)
Steps(f, n, b, O, R) ==
  /\ f = [i \in 0 .. n |-> IF i = 0 THEN b ELSE O[<<i, f[i - 1]>>]]
  /\ \A i \in 0 .. n : <<i, f[i]>> \in R

(* There is such a function, by induction on the steps.                    *)
LEMMA StepsBuilt ==
  ASSUME NEW n \in Nat, NEW b, NEW R, <<0, b>> \in R, NEW O,
         \A i \in 1 .. n : \A c : <<i - 1, c>> \in R => <<i, O[<<i, c>>]>> \in R
  PROVE  \E f : Steps(f, n, b, O, R)
<1> DEFINE Built(j, f) == /\ f = [i \in 0 .. j |-> IF i = 0 THEN b ELSE O[<<i, f[i - 1]>>]]
                          /\ \A i \in 0 .. j : <<i, f[i]>> \in R
           N == {j \in Nat : j <= n => \E f : Built(j, f)}
<1>1. 0 \in N
  <2>1. PICK f : f = [i \in 0 .. 0 |-> b]
    OBVIOUS
  <2>2. \A i \in 0 .. 0 : i = 0
    OBVIOUS
  <2>3. f = [i \in 0 .. 0 |-> IF i = 0 THEN b ELSE O[<<i, f[i - 1]>>]]
    BY <2>1, <2>2
  <2>4. \A i \in 0 .. 0 : <<i, f[i]>> \in R
    BY <2>1, <2>2
  <2> QED BY <2>3, <2>4
<1>2. ASSUME NEW j \in Nat, j \in N
      PROVE  j + 1 \in N
  <2>1. ASSUME j + 1 <= n
        PROVE  \E f : Built(j + 1, f)
    <3>1. PICK f : Built(j, f)
      <4> HIDE DEF Built
      <4> QED BY <1>2, <2>1
    <3>2. PICK g : g = [i \in 0 .. j + 1 |-> IF i = j + 1 THEN O[<<j + 1, f[j]>>] ELSE f[i]]
      OBVIOUS
    <3>3. /\ \A i \in 0 .. j + 1 : i = j + 1 \/ i \in 0 .. j
          /\ \A i \in 0 .. j : i \in 0 .. j + 1 /\ i # j + 1
          /\ \A i \in 0 .. j : i # 0 => i - 1 \in 0 .. j
          /\ j \in 0 .. j /\ j + 1 \in 0 .. j + 1 /\ j + 1 # 0 /\ j + 1 - 1 = j
          /\ j + 1 \in 1 .. n
      BY <2>1
    <3>4. g[j + 1] = O[<<j + 1, f[j]>>] /\ \A i \in 0 .. j : g[i] = f[i]
      BY <3>2, <3>3
    <3>5. <<j + 1, g[j + 1]>> \in R
      <4>1. PICK c : c = f[j]
        OBVIOUS
      <4>2. PICK i \in 1 .. n : i = j + 1 /\ i - 1 = j
        BY <3>3
      <4>3. <<i - 1, c>> \in R
        BY <3>1, <3>3, <4>1, <4>2
      <4>4. <<i, O[<<i, c>>]>> \in R
        BY <4>3
      <4> QED BY <3>4, <4>1, <4>2, <4>4
    <3>6. \A i \in 0 .. j + 1 : g[i] = IF i = 0 THEN b ELSE O[<<i, g[i - 1]>>]
      <4>1. TAKE i \in 0 .. j + 1
      <4>2. CASE i = j + 1
        BY <3>3, <3>4, <4>2
      <4>3. CASE i \in 0 .. j
        <5>1. f[i] = IF i = 0 THEN b ELSE O[<<i, f[i - 1]>>]
          BY <3>1, <4>3
        <5> QED BY <3>3, <3>4, <4>3, <5>1
      <4> QED BY <3>3, <4>2, <4>3
    <3>7. g = [i \in 0 .. j + 1 |-> g[i]]
      BY <3>2
    <3>8. g = [i \in 0 .. j + 1 |-> IF i = 0 THEN b ELSE O[<<i, g[i - 1]>>]]
      BY <3>6, <3>7
    <3>9. \A i \in 0 .. j + 1 : <<i, g[i]>> \in R
      BY <3>1, <3>3, <3>4, <3>5
    <3> QED BY <3>8, <3>9
  <2> HIDE DEF Built
  <2> QED BY <2>1
<1>3. Nat \subseteq N
  <2> HIDE DEF N
  <2> QED BY <1>1, <1>2, NatInd
<1>4. n \in N
  <2> HIDE DEF N
  <2> QED BY <1>3
<1>5. PICK f : Built(n, f)
  <2> HIDE DEF Built
  <2> QED BY <1>4
<1> QED BY <1>5 DEF Steps

-----------------------------------------------------------------------------
(* The sizes of sets, and the effect of an operation on a set of keys: they *)
(* are set to a state and an interval, marked, settled or taken.           *)

LEMMA SubsetOfSize ==
  ASSUME NEW S, IsFiniteSet(S), NEW n \in Nat, n <= Cardinality(S)
  PROVE  \E T \in SUBSET S : Cardinality(T) = n
<1> DEFINE N == {i \in Nat : i <= Cardinality(S) => \E T \in SUBSET S : Cardinality(T) = i}
<1>1. 0 \in N
  BY FS_EmptySet
<1>2. ASSUME NEW i \in Nat, i \in N
      PROVE  i + 1 \in N
  <2>1. ASSUME i + 1 <= Cardinality(S)
        PROVE  \E T \in SUBSET S : Cardinality(T) = i + 1
    <3>1. Cardinality(S) \in Nat
      BY FS_CardinalityType
    <3>2. PICK T \in SUBSET S : Cardinality(T) = i
      BY <1>2, <2>1, <3>1
    <3>3. IsFiniteSet(T)
      BY FS_Subset
    <3>4. T # S
      BY <2>1, <3>1, <3>2
    <3>5. PICK x \in S : x \notin T
      BY <3>4
    <3>6. Cardinality(T \cup {x}) = i + 1
      BY <3>2, <3>3, <3>5, FS_AddElement
    <3>7. T \cup {x} \in SUBSET S
      BY <3>5
    <3> QED BY <3>6, <3>7
  <2> QED BY <2>1
<1>3. Nat \subseteq N
  <2> HIDE DEF N
  <2> QED BY <1>1, <1>2, NatInd
<1> QED BY <1>3

(* A function to the numbers has a least value.                            *)
LEMMA LeastOf ==
  ASSUME NEW S, S # {}, NEW f \in [S -> Nat]
  PROVE  \E k \in S : \A j \in S : f[k] <= f[j]
<1> DEFINE N == {n \in Nat : (\E k \in S : f[k] < n) => \E k \in S : \A j \in S : f[k] <= f[j]}
<1>1. 0 \in N
  <2>1. \A k \in S : f[k] \in Nat /\ ~(f[k] < 0)
    OBVIOUS
  <2> QED BY <2>1
<1>2. ASSUME NEW n \in Nat, n \in N
      PROVE  n + 1 \in N
  <2>1. ASSUME NEW k \in S, f[k] < n + 1
        PROVE  \E i \in S : \A j \in S : f[i] <= f[j]
    <3>1. \A j \in S : f[j] \in Nat
      OBVIOUS
    <3>2. CASE \E j \in S : f[j] < n
      BY <1>2, <3>2
    <3>3. CASE \A j \in S : ~(f[j] < n)
      <4>1. \A j \in S : f[k] <= f[j]
        BY <2>1, <3>1, <3>3
      <4> QED BY <4>1
    <3> QED BY <3>2, <3>3
  <2> QED BY <2>1
<1>3. Nat \subseteq N
  <2> HIDE DEF N
  <2> QED BY <1>1, <1>2, NatInd
<1>4. PICK k \in S : TRUE
  OBVIOUS
<1>5. f[k] + 1 \in Nat /\ f[k] < f[k] + 1
  OBVIOUS
<1> QED BY <1>3, <1>4, <1>5

(* The arithmetic of whole keys.                                           *)
LEMMA Multiples ==
  ASSUME NEW i \in Nat, NEW j \in Nat
  PROVE  /\ MaxLen * i \in Nat
         /\ MaxLen * (i + 1) = MaxLen * i + MaxLen
         /\ MaxLen * (i + j) = MaxLen * i + MaxLen * j
         /\ i <= j => MaxLen * i <= MaxLen * j
<1>1. MaxLen \in Nat
  BY BoundsNat
<1>2. \A x, y \in Nat : MaxLen * (x + y) = MaxLen * x + MaxLen * y /\ MaxLen * x \in Nat
  BY <1>1
<1>3. MaxLen * (i + 1) = MaxLen * i + MaxLen
  BY <1>1
<1>4. ASSUME i <= j PROVE MaxLen * i <= MaxLen * j
  <2>1. PICK x \in Nat : j = i + x
    <3>1. j - i \in Nat /\ j = i + (j - i)
      BY <1>4
    <3> QED BY <3>1
  <2>2. MaxLen * j = MaxLen * i + MaxLen * x /\ MaxLen * i \in Nat /\ MaxLen * x \in Nat
    BY <1>2, <2>1
  <2> QED BY <2>2
<1> QED BY <1>2, <1>3, <1>4

Sets(b, c, ks, s, l, h) ==
  /\ Sound(c) /\ c.failed = b.failed /\ c.supply = b.supply
  /\ c.st = [k \in KeyIds |-> IF k \in ks THEN s ELSE b.st[k]]
  /\ c.lo = [k \in KeyIds |-> IF k \in ks THEN l ELSE b.lo[k]]
  /\ c.hi = [k \in KeyIds |-> IF k \in ks THEN h ELSE b.hi[k]]

Marks(b, c, ks, s) ==
  /\ Sound(c) /\ c.failed = b.failed /\ c.supply = b.supply
  /\ c.st = [k \in KeyIds |-> IF k \in ks THEN s ELSE b.st[k]]
  /\ c.lo = b.lo /\ c.hi = b.hi

(* The fields of a sound buffer are functions, as EXCEPT needs.            *)
LEMMA SoundMaps ==
  ASSUME NEW b, Sound(b)
  PROVE  /\ b.st = [k \in KeyIds |-> b.st[k]] /\ b.lo = [k \in KeyIds |-> b.lo[k]]
         /\ b.hi = [k \in KeyIds |-> b.hi[k]] /\ b \in Buffer /\ b.bits \in Nat
         /\ b.supply = [s \in SupplyIds |-> b.supply[s]]
         /\ \A s \in SupplyIds : b.supply[s] \in SUBSET Cell
         /\ b.failed \in BOOLEAN
  BY DEF Sound, Shaped, Buffer

(* A sound buffer counts bits.                                             *)
LEMMA SoundNat ==
  ASSUME NEW b, Sound(b)
  PROVE  b.bits \in Nat /\ b \in Buffer
  BY DEF Sound, Shaped, Buffer

(* One more key is set.                                                    *)
LEMMA SetsStep ==
  ASSUME NEW b, NEW c, NEW d, NEW ks \in SUBSET KeyIds, NEW k \in KeyIds,
         NEW s, NEW l, NEW h, Sound(b), Sets(b, c, ks, s, l, h), Becomes(c, d, k, s, l, h)
  PROVE  Sets(b, d, ks \cup {k}, s, l, h)
<1>1. \A f, g, x : g = [j \in KeyIds |-> IF j \in ks THEN x ELSE f[j]]
                 => [g EXCEPT ![k] = x] = [j \in KeyIds |-> IF j \in ks \cup {k} THEN x ELSE f[j]]
  OBVIOUS
<1>2. /\ d.st = [j \in KeyIds |-> IF j \in ks \cup {k} THEN s ELSE b.st[j]]
      /\ d.lo = [j \in KeyIds |-> IF j \in ks \cup {k} THEN l ELSE b.lo[j]]
      /\ d.hi = [j \in KeyIds |-> IF j \in ks \cup {k} THEN h ELSE b.hi[j]]
  <2>1. d.st = [j \in KeyIds |-> IF j \in ks \cup {k} THEN s ELSE b.st[j]]
    <3>1. c.st = [j \in KeyIds |-> IF j \in ks THEN s ELSE b.st[j]] /\ d.st = [c.st EXCEPT ![k] = s]
      BY DEF Sets, Becomes
    <3> QED BY <1>1, <3>1, Zenon
  <2>2. d.lo = [j \in KeyIds |-> IF j \in ks \cup {k} THEN l ELSE b.lo[j]]
    <3>1. c.lo = [j \in KeyIds |-> IF j \in ks THEN l ELSE b.lo[j]] /\ d.lo = [c.lo EXCEPT ![k] = l]
      BY DEF Sets, Becomes
    <3> QED BY <1>1, <3>1, Zenon
  <2>3. d.hi = [j \in KeyIds |-> IF j \in ks \cup {k} THEN h ELSE b.hi[j]]
    <3>1. c.hi = [j \in KeyIds |-> IF j \in ks THEN h ELSE b.hi[j]] /\ d.hi = [c.hi EXCEPT ![k] = h]
      BY DEF Sets, Becomes
    <3> QED BY <1>1, <3>1, Zenon
  <2> QED BY <2>1, <2>2, <2>3
<1> QED BY <1>2 DEF Sets, Becomes

(* What is left of the keys ks of a FILL when those of acc are accepted.   *)
SettlesAll(b, c, ks, acc) ==
  /\ Sound(c) /\ c.failed = b.failed /\ c.supply = b.supply
  /\ c.st = [k \in KeyIds |-> IF k \in acc THEN "READY"
                              ELSE IF k \in ks THEN "NONE" ELSE b.st[k]]
  /\ c.lo = [k \in KeyIds |-> IF k \in ks \ acc THEN 0 ELSE b.lo[k]]
  /\ c.hi = [k \in KeyIds |-> IF k \in ks \ acc THEN 0 ELSE b.hi[k]]

(* The supply keys ids are taken out of a buffer.                          *)
Empties(b, c, ids) ==
  /\ Sound(c) /\ c.failed = b.failed
  /\ c.st = b.st /\ c.lo = b.lo /\ c.hi = b.hi
  /\ c.supply = [s \in SupplyIds |-> IF s \in ids THEN {} ELSE b.supply[s]]

-----------------------------------------------------------------------------
(* Candidates: which there are, and what is left when one is taken.        *)

LEMMA LogSubPlain ==
  ASSUME NEW b \in Buffer, NEW n \in Int
  PROVE  LogSub(b, n) \in Buffer /\ LogSub(b, n).st = b.st
<1>1. PICK x \in Nat : x = IF n > b.bits THEN b.bits ELSE b.bits - n
  BY DEF Buffer
<1>2. PICK c : c = [b EXCEPT !.bits = x]
  OBVIOUS
<1>3. c \in Buffer /\ c.st = b.st
  BY <1>2 DEF Buffer
<1>4. LogSub(b, n) = Checked(c)
  BY <1>1, <1>2 DEF LogSub
<1>5. Stop(c) \in Buffer /\ Stop(c).st = c.st
  BY <1>3 DEF Stop, Buffer
<1> QED BY <1>3, <1>4, <1>5 DEF Checked

(* A key taken whole is READY no more.                                     *)
LEMMA TakenWhole ==
  ASSUME NEW b \in Buffer, NEW k \in ReadyKeys(b), NEW t \in Nat, ~Splits(b, k, t)
  PROVE  /\ TransformCandidate(b, k, t) \in Buffer
         /\ ReadyKeys(TransformCandidate(b, k, t)) = ReadyKeys(b) \ {k}
<1>1. k \in KeyIds /\ b.st[k] = "READY"
  BY DEF ReadyKeys
<1>2. PICK c : c = CandidateChecked(b)
  OBVIOUS
<1>3. c \in Buffer /\ c.st = b.st
  BY <1>2 DEF CandidateChecked, Stop, Buffer
<1>4. PICK d : d = Erase(c, k)
  OBVIOUS
<1>5. d \in Buffer /\ d.st = [b.st EXCEPT ![k] = "NONE"]
  <2> DEFINE A == [c.st EXCEPT ![k] = "NONE"]
             B == [c.lo EXCEPT ![k] = 0]
             C == [c.hi EXCEPT ![k] = 0]
             b1 == [c  EXCEPT !.st = A]
             b2 == [b1 EXCEPT !.lo = B]
             b3 == [b2 EXCEPT !.hi = C]
  <2>1. Erase(c, k) = b3
    BY <1>3 DEF Erase, SetKey, Buffer
  <2>2. A \in [KeyIds -> KeyState] /\ B \in [KeyIds -> 0 .. MaxLen] /\ C \in [KeyIds -> 0 .. MaxLen]
    BY <1>1, <1>3, BoundsNat DEF Buffer, KeyState
  <2> HIDE DEF A, B, C
  <2>3. b1 \in Buffer /\ b1.st = A
    BY <1>3, <2>2 DEF Buffer
  <2> HIDE DEF b1
  <2>4. b2 \in Buffer /\ b2.st = A
    BY <2>2, <2>3 DEF Buffer
  <2> HIDE DEF b2
  <2>5. b3 \in Buffer /\ b3.st = A
    BY <2>2, <2>4 DEF Buffer
  <2> HIDE DEF b3
  <2> QED BY <1>3, <1>4, <2>1, <2>5 DEF A
<1>6. KeyLen(c, k) \in Int
  BY <1>1, <1>3, BoundsNat DEF KeyLen, Buffer
<1>7. TransformCandidate(b, k, t) = LogSub(d, KeyLen(c, k))
  BY <1>1, <1>2, <1>3, <1>4 DEF TransformCandidate, GetKey
<1>8. PICK x : x = LogSub(d, KeyLen(c, k)) /\ x \in Buffer /\ x.st = d.st
  BY <1>5, <1>6, LogSubPlain
<1>9. b.st \in [KeyIds -> KeyState]
  BY DEF Buffer
<1>10. ReadyKeys(x) = ReadyKeys(b) \ {k}
  BY <1>1, <1>5, <1>8, <1>9 DEF ReadyKeys
<1> QED BY <1>7, <1>8, <1>10

(* Candidates are READY.                                                   *)
LEMMA CandidatesReady ==
  ASSUME NEW b, NEW t
  PROVE  Candidates(b, t) \subseteq ReadyKeys(b)
  BY DEF Candidates, Enough

(* There are finitely many of them.                                        *)
LEMMA ReadyKeysFinite ==
  ASSUME NEW b
  PROVE  /\ ReadyKeys(b) \in SUBSET KeyIds /\ IsFiniteSet(ReadyKeys(b))
         /\ Cardinality(ReadyKeys(b)) \in Nat
<1>1. ReadyKeys(b) \in SUBSET KeyIds
  BY DEF ReadyKeys
<1> QED BY <1>1, KeyIdsFinite, FS_Subset, FS_CardinalityType

(* A store that enc_keys draws from: no supply keys, and no empty key.     *)
Full(b) ==
  /\ Sound(b) /\ \A s \in SupplyIds : b.supply[s] = {}
  /\ \A k \in KeyIds : b.st[k] # "NONE" => b.lo[k] < b.hi[k]

(* The lengths of the keys of a full buffer.                               *)
LEMMA FullFacts ==
  ASSUME NEW b, Full(b)
  PROVE  /\ b \in Buffer /\ b.bits \in Nat
         /\ b.bits = Cardinality(ReadyCells(b))
         /\ \A k \in KeyIds : /\ b.lo[k] \in Nat /\ b.hi[k] \in Nat
                              /\ b.hi[k] <= MaxLen /\ KeyLen(b, k) \in Nat
                              /\ KeyLen(b, k) = b.hi[k] - b.lo[k]
                              /\ KeyLen(b, k) <= MaxLen
                              /\ b.st[k] = "READY" => KeyLen(b, k) # 0
<1>1. SupplyCells(b) = {}
  BY DEF Full, SupplyCells
<1>2. Cardinality(SupplyCells(b)) = 0 /\ Cardinality(ReadyCells(b)) \in Nat
  BY <1>1, FS_EmptySet, CountsFinite
<1>3. b.bits = Cardinality(ReadyCells(b)) /\ b.bits \in Nat
  BY <1>2 DEF Full, Sound, ReadyAmount
<1>4. ASSUME NEW k \in KeyIds
      PROVE  /\ b.lo[k] \in Nat /\ b.hi[k] \in Nat
             /\ b.hi[k] <= MaxLen /\ KeyLen(b, k) \in Nat
             /\ KeyLen(b, k) = b.hi[k] - b.lo[k]
             /\ KeyLen(b, k) <= MaxLen
             /\ b.st[k] = "READY" => KeyLen(b, k) # 0
  <2>1. b.lo[k] \in 0 .. MaxLen /\ b.hi[k] \in 0 .. MaxLen /\ b.lo[k] <= b.hi[k]
    BY DEF Full, Sound, Shaped, Buffer
  <2>2. b.st[k] = "READY" => b.lo[k] < b.hi[k]
    BY DEF Full
  <2> QED BY <2>1, <2>2, BoundsNat DEF KeyLen
<1> QED BY <1>3, <1>4, SoundNat DEF Full

(* As long as bits are counted, GetTransformCandidate finds a key, which   *)
(* is what the NS_ASSERT in enc_keys says.                                 *)
LEMMA CandidatesThere ==
  ASSUME NEW b, Full(b), b.bits # 0, NEW t \in Nat
  PROVE  /\ Candidates(b, t) # {}
         /\ \A k \in Candidates(b, t) : k \in KeyIds /\ b.st[k] = "READY"
<1>1. ReadyKeys(b) # {}
  <2>1. ReadyCells(b) # {}
    BY FullFacts, FS_EmptySet
  <2>2. PICK x \in Cell : b.st[x[1]] = "READY"
    BY <2>1 DEF ReadyCells
  <2>3. x[1] \in KeyIds
    BY <2>2 DEF Cell
  <2> QED BY <2>2, <2>3 DEF ReadyKeys
<1>2. ReadyKeys(b) \subseteq KeyIds /\ Enough(b, t) \subseteq KeyIds
  BY DEF ReadyKeys, Enough
<1>3. CASE t = 0
  BY <1>1, <1>3 DEF Candidates, ReadyKeys
<1>4. CASE t # 0 /\ Enough(b, t) # {}
  <2>1. PICK f : f = [k \in Enough(b, t) |-> KeyLen(b, k)]
    OBVIOUS
  <2>2. f \in [Enough(b, t) -> Nat]
    BY <1>2, <2>1, FullFacts
  <2>3. PICK k \in Enough(b, t) : \A j \in Enough(b, t) : f[k] <= f[j]
    BY <1>4, <2>2, LeastOf
  <2>4. \A j \in Enough(b, t) : KeyLen(b, k) <= KeyLen(b, j)
    BY <2>1, <2>3
  <2>5. k \in Candidates(b, t)
    BY <1>4, <2>3, <2>4 DEF Candidates
  <2> QED BY <2>5, CandidatesReady DEF ReadyKeys
<1>5. CASE t # 0 /\ Enough(b, t) = {}
  <2>1. PICK f : f = [k \in ReadyKeys(b) |-> MaxLen - KeyLen(b, k)]
    OBVIOUS
  <2>2. \A k \in ReadyKeys(b) : KeyLen(b, k) \in Nat /\ MaxLen - KeyLen(b, k) \in Nat
    BY <1>2, FullFacts, BoundsNat
  <2>3. f \in [ReadyKeys(b) -> Nat]
    BY <2>1, <2>2
  <2>4. PICK k \in ReadyKeys(b) : \A j \in ReadyKeys(b) : f[k] <= f[j]
    BY <1>1, <2>3, LeastOf
  <2>5. \A j \in ReadyKeys(b) : KeyLen(b, j) <= KeyLen(b, k)
    BY <2>1, <2>2, <2>4, BoundsNat
  <2>6. k \in Candidates(b, t)
    BY <1>5, <2>4, <2>5 DEF Candidates
  <2> QED BY <2>6, CandidatesReady DEF ReadyKeys
<1> QED BY <1>3, <1>4, <1>5

(* A buffer stays full when a key is taken whole.                          *)
LEMMA BecomesFull ==
  ASSUME NEW b, Full(b), NEW k \in KeyIds, NEW c, Becomes(b, c, k, "NONE", 0, 0)
  PROVE  Full(c)
<1>1. /\ \A j \in KeyIds : j # k => c.st[j] = b.st[j] /\ c.lo[j] = b.lo[j] /\ c.hi[j] = b.hi[j]
      /\ c.st[k] = "NONE" /\ c.supply = b.supply /\ Sound(c)
  BY FullFacts DEF Becomes, Buffer
<1> QED BY <1>1 DEF Full

-----------------------------------------------------------------------------
(* Sequences that grow at the end and shrink at the front, and pieces of  *)
(* equal size.                                                             *)

(* The places of a list and of the list with one more.                     *)
LEMMA AppendFacts ==
  ASSUME NEW S, NEW s \in Seq(S), NEW m \in S
  PROVE  /\ Append(s, m) \in Seq(S) /\ Len(s) \in Nat /\ Len(Append(s, m)) = Len(s) + 1
         /\ \A i \in 1 .. Len(s) : i \in 1 .. Len(s) + 1 /\ Append(s, m)[i] = s[i]
         /\ Append(s, m)[Len(s) + 1] = m /\ Len(s) + 1 \in 1 .. Len(s) + 1
         /\ \A i \in 1 .. Len(s) + 1 : i \in 1 .. Len(s) \/ i = Len(s) + 1
  OBVIOUS

(* The places of a list and of its tail.                                   *)
LEMMA TailFacts ==
  ASSUME NEW S, NEW s \in Seq(S), s # <<>>
  PROVE  /\ Tail(s) \in Seq(S) /\ Len(s) \in Nat /\ Len(Tail(s)) \in Nat
         /\ Len(Tail(s)) + 1 = Len(s)
         /\ Head(s) = s[1] /\ s[1] \in S /\ 1 \in 1 .. Len(s)
         /\ \A i \in 1 .. Len(Tail(s)) : i + 1 \in 1 .. Len(s) /\ Tail(s)[i] = s[i + 1]
         /\ \A i \in 1 .. Len(s) : i = 1 \/ (i - 1 \in 1 .. Len(Tail(s)) /\ Tail(s)[i - 1] = s[i])
  OBVIOUS

(* The pieces of a key of number * size units.                             *)
LEMMA PieceBounds ==
  ASSUME NEW number \in Nat, NEW size \in Nat \ {0}, NEW i \in 1 .. number,
         NEW j \in (i - 1) * size + 1 .. i * size
  PROVE  j \in 1 .. number * size
<1>1. PICK h \in Nat : h = i - 1 /\ i = h + 1 /\ h + 1 <= number
  OBVIOUS
<1>2. PICK g \in Nat : number = i + g
  <2>1. number - i \in Nat /\ number = i + (number - i)
    OBVIOUS
  <2> QED BY <2>1
<1>3. h * size \in Nat /\ i * size \in Nat /\ g * size \in Nat
  OBVIOUS
<1>4. number * size = i * size + g * size
  BY <1>2
<1> QED BY <1>1, <1>3, <1>4

(* No piece is empty.                                                      *)
LEMMA PieceThere ==
  ASSUME NEW size \in Nat \ {0}, NEW i \in Nat \ {0}
  PROVE  i * size \in (i - 1) * size + 1 .. i * size
<1>1. PICK h \in Nat : h = i - 1 /\ i = h + 1
  OBVIOUS
<1>2. h * size \in Nat /\ i * size = h * size + size /\ i * size \in Nat
  BY <1>1
<1> QED BY <1>1, <1>2

-----------------------------------------------------------------------------
(* Material drawn from several keys of a buffer: the keys ids give their   *)
(* units one after the other, at the places off, all of them whole but the *)
(* one that is split.                                                      *)

Cuts(b, ids, surplus, off, n) ==
  /\ ids \in Seq(KeyIds) /\ Len(ids) \in Nat \ {0}
  /\ off \in [0 .. Len(ids) -> Nat] /\ off[0] = 0 /\ off[Len(ids)] = n
  /\ \A i \in 1 .. Len(ids) :
       /\ off[i - 1] < off[i]
       /\ IF ids[i] \in surplus
            THEN i = Len(ids) /\ off[i] - off[i - 1] < KeyLen(b, ids[i])
            ELSE off[i] - off[i - 1] = KeyLen(b, ids[i])
       /\ \A j \in 1 .. Len(ids) : ids[i] = ids[j] => i = j
  /\ \A k \in surplus : \E i \in 1 .. Len(ids) : ids[i] = k

Fills(b, ids, off, cells, n) ==
  /\ cells \in Seq(KeyIds \X Nat) /\ Len(cells) = n
  /\ \A i \in 1 .. Len(ids) : \A j \in 1 .. off[i] - off[i - 1] :
       cells[off[i - 1] + j] = <<ids[i], b.lo[ids[i]] + j>>

Drains(b, c, ids, surplus, off, s) ==
  /\ Sound(c) /\ c.failed = b.failed /\ c.supply = b.supply
  /\ \A k \in KeyIds : (\A i \in 1 .. Len(ids) : ids[i] # k) =>
       c.st[k] = b.st[k] /\ c.lo[k] = b.lo[k] /\ c.hi[k] = b.hi[k]
  /\ \A i \in 1 .. Len(ids) :
       IF ids[i] \in surplus
         THEN /\ c.st[ids[i]] = s /\ c.hi[ids[i]] = b.hi[ids[i]]
              /\ c.lo[ids[i]] = b.lo[ids[i]] + (off[i] - off[i - 1])
         ELSE c.st[ids[i]] = "NONE"

Draws(b, m, off, n) ==
  /\ Cuts(b, m.ids, m.surplus, off, n)
  /\ Fills(b, m.ids, off, m.cells, n)
  /\ Drains(b, m.buf, m.ids, m.surplus, off, "INIT")
  /\ \A i \in 1 .. Len(m.ids) : b.st[m.ids[i]] = "READY"

(* The types of the ends of the candidates.                                *)
LEMMA CutsFacts ==
  ASSUME NEW b, NEW ids, NEW surplus, NEW off, NEW n, Cuts(b, ids, surplus, off, n)
  PROVE  /\ Len(ids) \in Nat \ {0} /\ n \in Nat
         /\ \A i \in 0 .. Len(ids) : off[i] \in Nat /\ off[i] <= n
         /\ \A i \in 1 .. Len(ids) : /\ ids[i] \in KeyIds /\ i \in 0 .. Len(ids)
                                     /\ i - 1 \in 0 .. Len(ids)
                                     /\ off[i] \in Nat /\ off[i - 1] \in Nat
                                     /\ off[i] - off[i - 1] \in Nat \ {0}
<1>1. PICK L \in Nat \ {0} : L = Len(ids)
  BY DEF Cuts
<1>2. ids \in Seq(KeyIds) /\ off \in [0 .. L -> Nat] /\ off[L] = n
      /\ \A i \in 1 .. L : off[i - 1] < off[i]
  BY <1>1 DEF Cuts
<1>3. \A i \in 1 .. L : ids[i] \in KeyIds
  BY <1>1, <1>2
<1>4. \A i \in 1 .. L : i \in 0 .. L /\ i - 1 \in 0 .. L
  OBVIOUS
<1>5. \A i \in 0 .. L : off[i] \in Nat
  BY <1>2
<1>6. \A i \in 1 .. L : off[i] - off[i - 1] \in Nat \ {0}
  BY <1>2, <1>4, <1>5
<1>7. n \in Nat
  BY <1>2, <1>5
<1> DEFINE N == {d \in Nat : d <= L => off[L - d] <= n}
<1>8. 0 \in N
  BY <1>2, <1>7
<1>9. ASSUME NEW d \in Nat, d \in N
      PROVE  d + 1 \in N
  <2>1. ASSUME d + 1 <= L
        PROVE  off[L - (d + 1)] <= n
    <3>1. PICK i \in 1 .. L : i = L - d /\ i - 1 = L - (d + 1)
      BY <2>1
    <3>2. off[i] <= n
      BY <1>9, <2>1, <3>1
    <3>3. off[i - 1] < off[i] /\ off[i] \in Nat /\ off[i - 1] \in Nat
      BY <1>2, <1>4, <1>5
    <3> QED BY <1>7, <3>1, <3>2, <3>3
  <2> QED BY <2>1
<1>10. Nat \subseteq N
  <2> HIDE DEF N
  <2> QED BY <1>8, <1>9, NatInd
<1>11. \A i \in 0 .. L : off[i] <= n
  <2>1. TAKE i \in 0 .. L
  <2>2. PICK d \in Nat : d = L - i /\ d <= L /\ L - d = i
    OBVIOUS
  <2> QED BY <1>10, <2>2
<1> QED BY <1>1, <1>3, <1>4, <1>5, <1>6, <1>7, <1>11

(* Every unit of a merged key is one of a candidate.                       *)
LEMMA UnitPlace ==
  ASSUME NEW b, NEW ids, NEW surplus, NEW off, NEW n, Cuts(b, ids, surplus, off, n),
         NEW j \in 1 .. n
  PROVE  \E i \in 1 .. Len(ids) : \E g \in 1 .. off[i] - off[i - 1] : j = off[i - 1] + g
<1>1. PICK L \in Nat \ {0} : L = Len(ids)
  BY CutsFacts
<1>2. /\ n \in Nat /\ \A i \in 1 .. L : off[i] \in Nat /\ off[i - 1] \in Nat
  BY <1>1, CutsFacts
<1>3. off[0] = 0 /\ off[L] = n
  BY <1>1 DEF Cuts
<1> DEFINE Placed(h) == \E i \in 1 .. L : \E g \in 1 .. off[i] - off[i - 1] : h = off[i - 1] + g
           N == {i \in Nat : i <= L => \A h \in 1 .. off[i] : Placed(h)}
<1>4. 0 \in N
  <2>1. \A h \in 1 .. 0 : FALSE
    OBVIOUS
  <2> HIDE DEF Placed
  <2> QED BY <1>3, <2>1
<1>5. ASSUME NEW i \in Nat, i \in N
      PROVE  i + 1 \in N
  <2>1. ASSUME i + 1 <= L, NEW h \in 1 .. off[i + 1]
        PROVE  Placed(h)
    <3>1. PICK k \in 1 .. L : k = i + 1 /\ k - 1 = i
      BY <2>1
    <3>2. PICK x \in Nat, y \in Nat : x = off[k - 1] /\ y = off[k]
      BY <1>2
    <3>3. CASE h <= x
      <4>1. h \in 1 .. off[i]
        BY <3>1, <3>2, <3>3
      <4> HIDE DEF Placed
      <4> QED BY <1>5, <2>1, <4>1
    <3>4. CASE ~(h <= x)
      <4>1. h - x \in 1 .. y - x /\ h = x + (h - x)
        BY <2>1, <3>1, <3>2, <3>4
      <4>2. h - x \in 1 .. off[k] - off[k - 1] /\ h = off[k - 1] + (h - x)
        BY <3>2, <4>1
      <4> QED BY <4>2
    <3> QED BY <3>3, <3>4
  <2> HIDE DEF Placed
  <2> QED BY <2>1
<1>6. Nat \subseteq N
  <2> HIDE DEF N
  <2> QED BY <1>4, <1>5, NatInd
<1>7. L \in N
  <2> HIDE DEF N
  <2> QED BY <1>6
<1>8. Placed(j)
  <2> HIDE DEF Placed
  <2> QED BY <1>3, <1>7
<1> QED BY <1>1, <1>8

(* The units of a merged key are units of keys.                            *)
LEMMA UnitsCells ==
  ASSUME NEW b, Sound(b), NEW ids, NEW surplus, NEW off, NEW cells, NEW n,
         Cuts(b, ids, surplus, off, n), Fills(b, ids, off, cells, n)
  PROVE  \A j \in 1 .. n : cells[j] \in Cell
<1>1. TAKE j \in 1 .. n
<1>2a. PICK i \in 1 .. Len(ids) : \E g \in 1 .. off[i] - off[i - 1] : j = off[i - 1] + g
  BY UnitPlace
<1>2. PICK g \in 1 .. off[i] - off[i - 1] : j = off[i - 1] + g
  BY <1>2a
<1>3. cells[j] = <<ids[i], b.lo[ids[i]] + g>>
  BY <1>2 DEF Fills
<1>4. PICK k \in KeyIds : k = ids[i]
  BY CutsFacts
<1>5. PICK m \in Nat : m = off[i] - off[i - 1] /\ g \in 1 .. m
  BY CutsFacts, <1>2
<1>6. m <= KeyLen(b, k)
  <2>1. IF ids[i] \in surplus THEN m < KeyLen(b, ids[i]) ELSE m = KeyLen(b, ids[i])
    BY <1>5 DEF Cuts
  <2>2. KeyLen(b, k) \in Nat
    BY KeyFacts DEF Sound
  <2> QED BY <1>4, <2>1, <2>2
<1>7. /\ b.lo[k] \in Nat /\ b.hi[k] \in Nat /\ KeyLen(b, k) = b.hi[k] - b.lo[k]
      /\ b.hi[k] \in 0 .. MaxLen
  BY KeyFacts DEF Sound
<1>8. b.lo[k] + g \in 1 .. MaxLen
  BY <1>5, <1>6, <1>7, BoundsNat, SMTT(30)
<1> QED BY <1>3, <1>4, <1>8 DEF Cell

(* A merge described by one store is described by any store that cuts its  *)
(* keys at the same places.                                                *)
LEMMA CutsSame ==
  ASSUME NEW b, NEW c, NEW ids, NEW surplus, NEW off, NEW cells, NEW n,
         Cuts(b, ids, surplus, off, n), Fills(b, ids, off, cells, n),
         \A i \in 1 .. Len(ids) : c.lo[ids[i]] = b.lo[ids[i]] /\ c.hi[ids[i]] = b.hi[ids[i]]
  PROVE  Cuts(c, ids, surplus, off, n) /\ Fills(c, ids, off, cells, n)
<1>1. \A i \in 1 .. Len(ids) : KeyLen(c, ids[i]) = KeyLen(b, ids[i])
  BY DEF KeyLen
<1>2. Cuts(c, ids, surplus, off, n)
  <2>1. \A i \in 1 .. Len(ids) :
          /\ off[i - 1] < off[i]
          /\ IF ids[i] \in surplus
               THEN i = Len(ids) /\ off[i] - off[i - 1] < KeyLen(c, ids[i])
               ELSE off[i] - off[i - 1] = KeyLen(c, ids[i])
          /\ \A j \in 1 .. Len(ids) : ids[i] = ids[j] => i = j
    BY <1>1 DEF Cuts
  <2> QED BY <2>1 DEF Cuts
<1>3. Fills(c, ids, off, cells, n)
  BY DEF Fills
<1> QED BY <1>2, <1>3

(* A buffer is sound, runs, and no key of it is empty.                     *)
Kept(b) == Sound(b) /\ ~b.failed /\ \A k \in KeyIds : b.st[k] # "NONE" => b.lo[k] < b.hi[k]

(* A buffer that gives its candidates stays as it should be.               *)
LEMMA DrainsKept ==
  ASSUME NEW b, Kept(b), NEW c, NEW ids, NEW surplus, NEW off, NEW n, NEW s,
         Cuts(b, ids, surplus, off, n), Drains(b, c, ids, surplus, off, s)
  PROVE  Kept(c)
<1>1. ASSUME NEW k \in KeyIds, c.st[k] # "NONE"
      PROVE  c.lo[k] < c.hi[k]
  <2>1. CASE \A i \in 1 .. Len(ids) : ids[i] # k
    BY <1>1, <2>1 DEF Drains, Kept
  <2>2. CASE \E i \in 1 .. Len(ids) : ids[i] = k
    <3>1. PICK i \in 1 .. Len(ids) : ids[i] = k
      BY <2>2
    <3>2. PICK m \in Nat : m = off[i] - off[i - 1]
      BY CutsFacts
    <3>3. k \in surplus /\ c.hi[k] = b.hi[k] /\ c.lo[k] = b.lo[k] + m /\ m < KeyLen(b, k)
      BY <1>1, <3>1, <3>2 DEF Drains, Cuts
    <3>4. b.lo[k] \in Nat /\ b.hi[k] \in Nat /\ KeyLen(b, k) = b.hi[k] - b.lo[k]
      BY KeyFacts DEF Kept, Sound
    <3> QED BY <3>3, <3>4
  <2> QED BY <2>1, <2>2
<1> QED BY <1>1 DEF Drains, Kept

(* What is drawn changes no other key, and no supply key.                  *)
LEMMA DrawsStates ==
  ASSUME NEW b, NEW m, NEW off, NEW n, Draws(b, m, off, n)
  PROVE  /\ \A k \in KeyIds :
              /\ m.buf.st[k] = "INIT" <=> (b.st[k] = "INIT" \/ k \in m.surplus)
              /\ k \in m.surplus => b.st[k] = "READY"
              /\ b.st[k] = "NONE" => m.buf.st[k] = "NONE"
              /\ b.st[k] = "INIT" => /\ m.buf.lo[k] = b.lo[k] /\ m.buf.hi[k] = b.hi[k]
         /\ m.buf.supply = b.supply
<1>1. m.buf.supply = b.supply
  BY DEF Draws, Drains
<1>2. ASSUME NEW k \in KeyIds
      PROVE  /\ m.buf.st[k] = "INIT" <=> (b.st[k] = "INIT" \/ k \in m.surplus)
             /\ k \in m.surplus => b.st[k] = "READY"
             /\ b.st[k] = "NONE" => m.buf.st[k] = "NONE"
             /\ b.st[k] = "INIT" => /\ m.buf.lo[k] = b.lo[k] /\ m.buf.hi[k] = b.hi[k]
  <2>1. k \in m.surplus => \E i \in 1 .. Len(m.ids) : m.ids[i] = k
    BY DEF Draws, Cuts
  <2>2. CASE \E i \in 1 .. Len(m.ids) : m.ids[i] = k
    <3>1. PICK i \in 1 .. Len(m.ids) : m.ids[i] = k
      BY <2>2
    <3>2. b.st[k] = "READY"
      BY <3>1 DEF Draws
    <3>3. IF k \in m.surplus THEN m.buf.st[k] = "INIT" ELSE m.buf.st[k] = "NONE"
      BY <3>1 DEF Draws, Drains
    <3> QED BY <3>2, <3>3
  <2>3. CASE \A i \in 1 .. Len(m.ids) : m.ids[i] # k
    <3>1. m.buf.st[k] = b.st[k] /\ m.buf.lo[k] = b.lo[k] /\ m.buf.hi[k] = b.hi[k]
      BY <2>3 DEF Draws, Drains
    <3> QED BY <2>1, <2>3, <3>1
  <2> QED BY <2>2, <2>3
<1> QED BY <1>1, <1>2

(* The units of k go before the others.                                    *)
Joins(b, k, g, m, z) ==
  /\ z.buf = m.buf /\ z.surplus = m.surplus /\ z.ids = <<k>> \o m.ids
  /\ z.cells = [i \in 1 .. g |-> <<k, b.lo[k] + i>>] \o m.cells

(* A merge that goes on after its first candidate.                         *)
LEMMA DrawsMore ==
  ASSUME NEW b, Full(b), NEW g \in Nat \ {0}, NEW p \in Nat \ {0}, NEW k \in KeyIds,
         b.st[k] = "READY", g = KeyLen(b, k),
         NEW c, Becomes(b, c, k, "NONE", 0, 0),
         NEW m, NEW off, Draws(c, m, off, p), NEW z, Joins(b, k, g, m, z)
  PROVE  \E f : Draws(b, z, f, g + p)
<1>1. PICK first : first = [i \in 1 .. g |-> <<k, b.lo[k] + i>>]
  OBVIOUS
<1>2. z.buf = m.buf /\ z.ids = <<k>> \o m.ids /\ z.cells = first \o m.cells
      /\ z.surplus = m.surplus
  BY <1>1 DEF Joins
<1>3. PICK L \in Nat : L = Len(m.ids) /\ L # 0 /\ m.ids \in Seq(KeyIds)
  BY DEF Draws, Cuts
<1>4. /\ z.ids \in Seq(KeyIds) /\ Len(z.ids) = L + 1 /\ z.ids[1] = k
      /\ \A i \in 1 .. L : z.ids[i + 1] = m.ids[i]
  <2>1. <<k>> \in Seq(KeyIds) /\ Len(<<k>>) = 1 /\ <<k>>[1] = k
    OBVIOUS
  <2> QED BY <1>2, <1>3, <2>1, ConcatProperties
<1>5. \A i \in 1 .. L + 1 : i = 1 \/ i - 1 \in 1 .. L
  OBVIOUS
<1>18. \A j \in 1 .. L + 1 : j - 1 \in 1 .. L => z.ids[j] = m.ids[j - 1]
  <2>1. TAKE j \in 1 .. L + 1
  <2>2. HAVE j - 1 \in 1 .. L
  <2>3. PICK i \in 1 .. L : i = j - 1 /\ i + 1 = j
    BY <2>2
  <2> QED BY <1>4, <2>3
<1>6. PICK f : f = [i \in 0 .. L + 1 |-> IF i = 0 THEN 0 ELSE g + off[i - 1]]
  OBVIOUS
<1>7. off \in [0 .. L -> Nat] /\ off[0] = 0 /\ off[L] = p
  BY <1>3 DEF Draws, Cuts
<1>8. /\ f \in [0 .. L + 1 -> Nat] /\ f[0] = 0 /\ f[L + 1] = g + p
      /\ f[1] = g /\ \A i \in 1 .. L : f[i + 1] = g + off[i] /\ f[i] = g + off[i - 1]
  <2>1. \A i \in 0 .. L : off[i] \in Nat
    BY <1>7
  <2>2. \A i \in 0 .. L + 1 : i # 0 => i - 1 \in 0 .. L
    OBVIOUS
  <2>3. \A i \in 0 .. L + 1 : f[i] = IF i = 0 THEN 0 ELSE g + off[i - 1]
    BY <1>6
  <2>4. \A i \in 0 .. L + 1 : f[i] \in Nat
    BY <2>1, <2>2, <2>3
  <2>5. f \in [0 .. L + 1 -> Nat]
    BY <1>6, <2>4
  <2>6. f[0] = 0 /\ f[L + 1] = g + p /\ f[1] = g
    <3>1. 0 \in 0 .. L + 1 /\ L + 1 \in 0 .. L + 1 /\ 1 \in 0 .. L + 1 /\ L + 1 # 0
          /\ L + 1 - 1 = L /\ 1 - 1 = 0 /\ 1 # 0
      OBVIOUS
    <3>2. f[0] = 0 /\ f[L + 1] = g + off[L] /\ f[1] = g + off[0]
      BY <2>3, <3>1
    <3> QED BY <1>7, <3>2
  <2>7. \A i \in 1 .. L : f[i + 1] = g + off[i] /\ f[i] = g + off[i - 1]
    <3>1. TAKE i \in 1 .. L
    <3>2. i \in 0 .. L + 1 /\ i + 1 \in 0 .. L + 1 /\ i # 0 /\ i + 1 # 0 /\ i + 1 - 1 = i
      OBVIOUS
    <3> QED BY <2>3, <3>2
  <2> QED BY <2>5, <2>6, <2>7
<1>9. /\ \A j \in KeyIds : j # k => c.st[j] = b.st[j] /\ c.lo[j] = b.lo[j] /\ c.hi[j] = b.hi[j]
      /\ c.st[k] = "NONE" /\ c.failed = b.failed /\ c.supply = b.supply
  BY FullFacts DEF Becomes, Buffer
<1>10. \A i \in 1 .. L : m.ids[i] \in KeyIds /\ m.ids[i] # k /\ c.st[m.ids[i]] = "READY"
  BY <1>3, <1>9 DEF Draws
<1>11. k \notin m.surplus
  BY <1>3, <1>10 DEF Draws, Cuts
<1>12. \A j \in KeyIds : j # k => KeyLen(c, j) = KeyLen(b, j)
  BY <1>9 DEF KeyLen
<1>13. Cuts(b, z.ids, z.surplus, f, g + p)
  <2>1. ASSUME NEW i \in 1 .. L + 1
        PROVE  /\ f[i - 1] < f[i]
               /\ IF z.ids[i] \in z.surplus
                    THEN i = L + 1 /\ f[i] - f[i - 1] < KeyLen(b, z.ids[i])
                    ELSE f[i] - f[i - 1] = KeyLen(b, z.ids[i])
               /\ \A j \in 1 .. L + 1 : z.ids[i] = z.ids[j] => i = j
    <3>1. CASE i = 1
      <4>1. f[i] = g /\ f[i - 1] = 0 /\ z.ids[i] = k
        BY <1>4, <1>8, <3>1
      <4>2. \A j \in 1 .. L + 1 : z.ids[j] = k => j = 1
        <5>1. TAKE j \in 1 .. L + 1
        <5>2. CASE j = 1
          BY <5>2
        <5>3. CASE j - 1 \in 1 .. L
          <6>1. z.ids[j] = m.ids[j - 1]
            BY <1>18, <5>3
          <6> QED BY <1>10, <5>3, <6>1
        <5> QED BY <1>5, <5>2, <5>3
      <4>3. f[i] - f[i - 1] = KeyLen(b, k) /\ f[i - 1] < f[i]
        BY <4>1
      <4>4. z.ids[i] \notin z.surplus
        BY <1>2, <1>11, <4>1
      <4> QED BY <3>1, <4>1, <4>2, <4>3, <4>4
    <3>2. CASE i - 1 \in 1 .. L
      <4>1. PICK h \in 1 .. L : h = i - 1 /\ i = h + 1
        BY <3>2
      <4>2. z.ids[i] = m.ids[h] /\ f[i] = g + off[h] /\ f[i - 1] = g + off[h - 1]
        BY <1>4, <1>8, <4>1
      <4>3. off[h] \in Nat /\ off[h - 1] \in Nat
        <5>1. h \in 0 .. L /\ h - 1 \in 0 .. L
          OBVIOUS
        <5> QED BY <1>7, <5>1
      <4>4. /\ off[h - 1] < off[h]
            /\ IF m.ids[h] \in m.surplus
                 THEN h = L /\ off[h] - off[h - 1] < KeyLen(c, m.ids[h])
                 ELSE off[h] - off[h - 1] = KeyLen(c, m.ids[h])
            /\ \A j \in 1 .. L : m.ids[h] = m.ids[j] => h = j
        BY <1>3 DEF Draws, Cuts
      <4>5. \A j \in 1 .. L + 1 : z.ids[i] = z.ids[j] => i = j
        <5>1. TAKE j \in 1 .. L + 1
        <5>2. CASE j = 1
          BY <1>4, <1>10, <4>2, <5>2
        <5>3. CASE j - 1 \in 1 .. L
          <6>1. z.ids[j] = m.ids[j - 1]
            BY <1>18, <5>3
          <6> QED BY <4>1, <4>2, <4>4, <5>3, <6>1
        <5> QED BY <1>5, <5>2, <5>3
      <4>6. KeyLen(c, m.ids[h]) = KeyLen(b, m.ids[h]) /\ f[i] - f[i - 1] = off[h] - off[h - 1]
        BY <1>10, <1>12, <4>2, <4>3
      <4>7. f[i - 1] < f[i]
        BY <4>2, <4>3, <4>4
      <4> QED BY <1>2, <4>1, <4>2, <4>4, <4>5, <4>6, <4>7
    <3> QED BY <1>5, <3>1, <3>2
  <2>2. \A j \in z.surplus : \E i \in 1 .. L + 1 : z.ids[i] = j
    <3>1. TAKE j \in z.surplus
    <3>2. PICK i \in 1 .. L : m.ids[i] = j
      BY <1>2, <1>3 DEF Draws, Cuts
    <3>3. i + 1 \in 1 .. L + 1 /\ z.ids[i + 1] = j
      BY <1>4, <3>2
    <3> QED BY <3>3
  <2>3. L + 1 \in Nat \ {0}
    OBVIOUS
  <2> QED BY <1>4, <1>8, <2>1, <2>2, <2>3 DEF Cuts
<1>14. Fills(b, z.ids, f, z.cells, g + p)
  <2>1. PICK y : y = first
    OBVIOUS
  <2>2. b.lo[k] \in Nat
    BY FullFacts
  <2>3. [i \in 1 .. g |-> <<k, b.lo[k] + i>>] \in [1 .. g -> KeyIds \X Nat]
    BY <2>2
  <2>4. y \in Seq(KeyIds \X Nat) /\ Len(y) = g /\ \A i \in 1 .. g : y[i] = <<k, b.lo[k] + i>>
    <3>1. y = [i \in 1 .. g |-> <<k, b.lo[k] + i>>]
      BY <1>1, <2>1
    <3>2. y \in [1 .. g -> KeyIds \X Nat]
      BY <2>3, <3>1
    <3>3. y \in Seq(KeyIds \X Nat) /\ Len(y) = g
      BY <3>2
    <3> QED BY <3>1, <3>3
  <2>5. m.cells \in Seq(KeyIds \X Nat) /\ Len(m.cells) = p
    BY DEF Draws, Fills
  <2>6. /\ z.cells \in Seq(KeyIds \X Nat) /\ Len(z.cells) = g + p
        /\ \A i \in 1 .. g + p : z.cells[i] = IF i <= g THEN y[i] ELSE m.cells[i - g]
    <3>1. z.cells = y \o m.cells
      BY <1>2, <2>1
    <3>2. PICK X : X = KeyIds \X Nat
      OBVIOUS
    <3>3. y \in Seq(X) /\ m.cells \in Seq(X)
      BY <2>4, <2>5, <3>2
    <3>4. /\ y \o m.cells \in Seq(X) /\ Len(y \o m.cells) = Len(y) + Len(m.cells)
          /\ \A i \in 1 .. Len(y) + Len(m.cells) :
               (y \o m.cells)[i] = IF i <= Len(y) THEN y[i] ELSE m.cells[i - Len(y)]
      BY <3>3, ConcatProperties
    <3> QED BY <2>4, <2>5, <3>1, <3>2, <3>4
  <2>7. ASSUME NEW i \in 1 .. L + 1, NEW j \in 1 .. f[i] - f[i - 1]
        PROVE  z.cells[f[i - 1] + j] = <<z.ids[i], b.lo[z.ids[i]] + j>>
    <3>1. CASE i = 1
      <4>1. f[i] = g /\ f[i - 1] = 0 /\ z.ids[i] = k
        BY <1>4, <1>8, <3>1
      <4>2. j \in 1 .. g /\ f[i - 1] + j = j /\ j \in 1 .. g + p /\ j <= g
        BY <4>1
      <4> QED BY <2>4, <2>6, <4>1, <4>2
    <3>2. CASE i - 1 \in 1 .. L
      <4>1. PICK h \in 1 .. L : h = i - 1 /\ i = h + 1
        BY <3>2
      <4>2. z.ids[i] = m.ids[h] /\ f[i] = g + off[h] /\ f[i - 1] = g + off[h - 1]
        BY <1>4, <1>8, <4>1
      <4>3. off[h] \in Nat /\ off[h - 1] \in Nat /\ off[h] <= p
        <5>1. h \in 0 .. L /\ h - 1 \in 0 .. L
          OBVIOUS
        <5>2. f[i] \in Nat /\ f[i - 1] \in Nat
          BY <1>8, <4>1
        <5>3. off[h] <= Len(m.cells)
          <6> DEFINE N == {d \in Nat : d <= L => off[L - d] <= p}
          <6>1. 0 \in N
            BY <1>7
          <6>2. ASSUME NEW d \in Nat, d \in N
                PROVE  d + 1 \in N
            <7>1. ASSUME d + 1 <= L
                  PROVE  off[L - (d + 1)] <= p
              <8>1. L - d \in 1 .. L /\ L - d - 1 = L - (d + 1) /\ L - d \in 0 .. L
                    /\ L - (d + 1) \in 0 .. L
                BY <7>1
              <8>2. off[L - d - 1] < off[L - d]
                BY <1>3, <8>1 DEF Draws, Cuts
              <8>3. off[L - d] <= p
                BY <6>2, <7>1
              <8> QED BY <1>7, <8>1, <8>2, <8>3
            <7> QED BY <7>1
          <6>3. Nat \subseteq N
            <7> HIDE DEF N
            <7> QED BY <6>1, <6>2, NatInd
          <6>4. L - h \in Nat /\ L - h <= L /\ L - (L - h) = h
            OBVIOUS
          <6> QED BY <2>5, <6>3, <6>4
        <5> QED BY <1>7, <2>5, <5>1, <5>3
      <4>4. j \in 1 .. off[h] - off[h - 1] /\ f[i - 1] + j \in 1 .. g + p
            /\ ~(f[i - 1] + j <= g) /\ f[i - 1] + j - g = off[h - 1] + j
        BY <4>2, <4>3
      <4>5. m.cells[off[h - 1] + j] = <<m.ids[h], c.lo[m.ids[h]] + j>>
        BY <1>3, <4>4 DEF Draws, Fills
      <4>6. c.lo[m.ids[h]] = b.lo[m.ids[h]]
        BY <1>9, <1>10
      <4>7. z.cells[f[i - 1] + j] = m.cells[off[h - 1] + j]
        <5>1. PICK x : x = f[i - 1] + j
          OBVIOUS
        <5>2. x \in 1 .. g + p /\ ~(x <= g) /\ x - g = off[h - 1] + j
          <6>1. x \in 1 .. g + p
            BY <4>4, <5>1
          <6>2. ~(x <= g)
            BY <4>4, <5>1
          <6>3. x - g = off[h - 1] + j
            BY <4>2, <4>3, <5>1
          <6> QED BY <6>1, <6>2, <6>3
        <5>3. z.cells[x] = m.cells[x - g]
          BY <2>6, <5>2
        <5> QED BY <5>1, <5>2, <5>3
      <4> QED BY <4>2, <4>5, <4>6, <4>7
    <3> QED BY <1>5, <3>1, <3>2
  <2> QED BY <1>4, <2>6, <2>7 DEF Fills
<1>15. Drains(b, z.buf, z.ids, z.surplus, f, "INIT")
  <2>1. Drains(c, m.buf, m.ids, m.surplus, off, "INIT")
    BY DEF Draws
  <2>2. Sound(z.buf) /\ z.buf.failed = b.failed /\ z.buf.supply = b.supply
    BY <1>2, <1>9, <2>1 DEF Drains
  <2>3. ASSUME NEW j \in KeyIds, \A i \in 1 .. L + 1 : z.ids[i] # j
        PROVE  z.buf.st[j] = b.st[j] /\ z.buf.lo[j] = b.lo[j] /\ z.buf.hi[j] = b.hi[j]
    <3>1. j # k /\ \A i \in 1 .. L : m.ids[i] # j
      <4>1. 1 \in 1 .. L + 1 /\ \A i \in 1 .. L : i + 1 \in 1 .. L + 1
        OBVIOUS
      <4> QED BY <1>4, <2>3, <4>1
    <3> QED BY <1>2, <1>3, <1>9, <2>1, <3>1 DEF Drains
  <2>4. ASSUME NEW i \in 1 .. L + 1
        PROVE  IF z.ids[i] \in z.surplus
                 THEN /\ z.buf.st[z.ids[i]] = "INIT" /\ z.buf.hi[z.ids[i]] = b.hi[z.ids[i]]
                      /\ z.buf.lo[z.ids[i]] = b.lo[z.ids[i]] + (f[i] - f[i - 1])
                 ELSE z.buf.st[z.ids[i]] = "NONE"
    <3>1. CASE i = 1
      <4>1. \A h \in 1 .. L : m.ids[h] # k
        BY <1>10
      <4>2. m.buf.st[k] = "NONE"
        BY <1>3, <1>9, <2>1, <4>1 DEF Drains
      <4> QED BY <1>2, <1>4, <1>11, <3>1, <4>2
    <3>2. CASE i - 1 \in 1 .. L
      <4>1. PICK h \in 1 .. L : h = i - 1 /\ i = h + 1
        BY <3>2
      <4>2. z.ids[i] = m.ids[h] /\ f[i] = g + off[h] /\ f[i - 1] = g + off[h - 1]
        BY <1>4, <1>8, <4>1
      <4>3. off[h] \in Nat /\ off[h - 1] \in Nat
        <5>1. h \in 0 .. L /\ h - 1 \in 0 .. L
          OBVIOUS
        <5> QED BY <1>7, <5>1
      <4>4. f[i] - f[i - 1] = off[h] - off[h - 1]
        BY <4>2, <4>3
      <4>5. IF m.ids[h] \in m.surplus
              THEN /\ m.buf.st[m.ids[h]] = "INIT" /\ m.buf.hi[m.ids[h]] = c.hi[m.ids[h]]
                   /\ m.buf.lo[m.ids[h]] = c.lo[m.ids[h]] + (off[h] - off[h - 1])
              ELSE m.buf.st[m.ids[h]] = "NONE"
        BY <1>3, <2>1 DEF Drains
      <4>6. c.lo[m.ids[h]] = b.lo[m.ids[h]] /\ c.hi[m.ids[h]] = b.hi[m.ids[h]]
        BY <1>9, <1>10
      <4> QED BY <1>2, <4>2, <4>4, <4>5, <4>6
    <3> QED BY <1>5, <3>1, <3>2
  <2> QED BY <1>4, <2>2, <2>3, <2>4 DEF Drains
<1>16. \A i \in 1 .. Len(z.ids) : b.st[z.ids[i]] = "READY"
  <2>1. TAKE i \in 1 .. Len(z.ids)
  <2>2. CASE i = 1
    BY <1>4, <2>2
  <2>3. CASE i - 1 \in 1 .. L
    <3>1. z.ids[i] = m.ids[i - 1]
      BY <1>4, <1>18, <2>3
    <3> QED BY <1>9, <1>10, <2>3, <3>1
  <2> QED BY <1>4, <1>5, <2>2, <2>3
<1>17. Draws(b, z, f, g + p)
  BY <1>13, <1>14, <1>15, <1>16 DEF Draws
<1> QED BY <1>17

(* The units merged are all different.                                     *)
LEMMA UnitsDiffer ==
  ASSUME NEW b, Sound(b), NEW ids, NEW surplus, NEW off, NEW cells, NEW n,
         Cuts(b, ids, surplus, off, n), Fills(b, ids, off, cells, n),
         NEW j1 \in 1 .. n, NEW j2 \in 1 .. n, cells[j1] = cells[j2]
  PROVE  j1 = j2
<1>1. PICK i1 \in 1 .. Len(ids) : \E g \in 1 .. off[i1] - off[i1 - 1] : j1 = off[i1 - 1] + g
  BY UnitPlace
<1>2. PICK i2 \in 1 .. Len(ids) : \E g \in 1 .. off[i2] - off[i2 - 1] : j2 = off[i2 - 1] + g
  BY UnitPlace
<1>3. PICK g1 \in 1 .. off[i1] - off[i1 - 1] : j1 = off[i1 - 1] + g1
  BY <1>1
<1>4. PICK g2 \in 1 .. off[i2] - off[i2 - 1] : j2 = off[i2 - 1] + g2
  BY <1>2
<1>5. /\ cells[j1] = <<ids[i1], b.lo[ids[i1]] + g1>>
      /\ cells[j2] = <<ids[i2], b.lo[ids[i2]] + g2>>
  BY <1>3, <1>4 DEF Fills
<1>6. ids[i1] = ids[i2] /\ b.lo[ids[i1]] + g1 = b.lo[ids[i2]] + g2
  <2>1. PICK u1, v1, u2, v2 : /\ u1 = ids[i1] /\ v1 = b.lo[ids[i1]] + g1
                              /\ u2 = ids[i2] /\ v2 = b.lo[ids[i2]] + g2
    OBVIOUS
  <2>2. <<u1, v1>> = <<u2, v2>>
    BY <1>5, <2>1
  <2>3. u1 = u2 /\ v1 = v2
    BY <2>2
  <2> QED BY <2>1, <2>3
<1>7. i1 = i2
  BY <1>6 DEF Cuts
<1>8. PICK k \in KeyIds, l \in Nat : k = ids[i1] /\ l = b.lo[k]
  <2>1. ids[i1] \in KeyIds
    BY CutsFacts
  <2> QED BY <2>1, KeyFacts DEF Sound
<1>9. g1 \in Int /\ g2 \in Int
  BY CutsFacts, <1>3, <1>4
<1>10. g1 = g2
  BY <1>6, <1>7, <1>8, <1>9
<1> QED BY <1>3, <1>4, <1>7, <1>10

(* They are of keys that may be served, above what was taken of them and   *)
(* below what is left.                                                     *)
LEMMA UnitsBelow ==
  ASSUME NEW e, Kept(e), NEW m, NEW off, NEW n, Draws(e, m, off, n), NEW j \in 1 .. n
  PROVE  \E k \in KeyIds, i \in Nat :
           /\ m.cells[j] = <<k, i>> /\ e.st[k] = "READY" /\ e.lo[k] < i /\ e.lo[k] \in Nat
           /\ m.buf.st[k] # "NONE" => i <= m.buf.lo[k]
<1>1. /\ Cuts(e, m.ids, m.surplus, off, n) /\ Fills(e, m.ids, off, m.cells, n)
      /\ Drains(e, m.buf, m.ids, m.surplus, off, "INIT") /\ Sound(e)
  BY DEF Draws, Kept
<1>2a. PICK a \in 1 .. Len(m.ids) : \E g \in 1 .. off[a] - off[a - 1] : j = off[a - 1] + g
  BY <1>1, UnitPlace
<1>2. PICK g \in 1 .. off[a] - off[a - 1] : j = off[a - 1] + g
  BY <1>2a
<1>3. m.cells[j] = <<m.ids[a], e.lo[m.ids[a]] + g>>
  BY <1>1, <1>2 DEF Fills
<1>4. PICK k \in KeyIds : k = m.ids[a]
  BY <1>1, CutsFacts
<1>5. PICK w \in Nat : w = off[a] - off[a - 1]
  BY <1>1, CutsFacts
<1>6. PICK l \in Nat : l = e.lo[k]
  BY <1>1, KeyFacts DEF Sound
<1>7. g \in Nat /\ 1 <= g /\ g <= w
  BY <1>2, <1>5
<1>8. e.st[k] = "READY"
  BY <1>4 DEF Draws
<1>9. m.buf.st[k] # "NONE" => m.buf.lo[k] = l + w
  BY <1>1, <1>4, <1>5, <1>6 DEF Drains
<1>10. PICK i \in Nat : i = l + g
  BY <1>7
<1>11. m.cells[j] = <<k, i>>
  BY <1>3, <1>4, <1>6, <1>10
<1>12. l < i /\ (m.buf.st[k] # "NONE" => i <= m.buf.lo[k])
  BY <1>7, <1>9, <1>10
<1> QED BY <1>6, <1>8, <1>11, <1>12

=============================================================================
