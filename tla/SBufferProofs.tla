--------------------------- MODULE SBufferProofs ---------------------------
(***************************************************************************)
(* Proofs about SBuffer, from the lemmas of SBufferCoreProofs about the    *)
(* operations: what each action makes of the buffer, the invariant that    *)
(* follows from it, and that no unit of material is served twice.          *)
(***************************************************************************)
EXTENDS SBuffer, SBufferCoreProofs

-----------------------------------------------------------------------------
(* The inductive invariant.  Beyond the types it says that the counters    *)
(* agree with the content (Sound), that the keys the KMS waits on are the  *)
(* ones it put in INIT, and that only buffers that follow a peer hold      *)
(* supply keys: without the last two neither MarkKey nor the assertion of  *)
(* GetTransformCandidate could be shown to succeed.                        *)
Inv ==
  /\ TypeOK
  /\ Sound(buf)
  /\ \A k \in pending : buf.st[k] = "INIT"
  /\ Kind = "enc" => \A s \in SupplyIds : buf.supply[s] = {}
  /\ NoFailure

(* What a step does to the buffer: key k becomes <<s, l, h>>.              *)
KeyStep(k, s, l, h) ==
  /\ Sound(buf')
  /\ buf'.st = [buf.st EXCEPT ![k] = s]
  /\ buf'.lo = [buf.lo EXCEPT ![k] = l]
  /\ buf'.hi = [buf.hi EXCEPT ![k] = h]
  /\ buf'.supply = buf.supply
  /\ NoFailure'

(* What an operation makes of the buffer, as a step of the machine.        *)
LEMMA BecomesKeyStep ==
  ASSUME Inv, NEW k, NEW s, NEW l, NEW h, Becomes(buf, buf', k, s, l, h)
  PROVE  KeyStep(k, s, l, h)
  BY DEF Inv, Becomes, KeyStep, NoFailure

(* Receive stores a whole READY key, or refuses it.                        *)
LEMMA ReceiveEffect ==
  ASSUME Inv, NEW k \in KeyIds, Receive(k)
  PROVE  UNCHANGED buf \/ KeyStep(k, "READY", 0, DefaultLen)
<1>1. CASE ~Fits(buf, DefaultLen)
  BY <1>1 DEF Receive
<1>2. CASE Fits(buf, DefaultLen)
  <2> DEFINE c == StoreKey(buf, k, DefaultLen)
  <2>1. Becomes(buf, c, k, "READY", 0, DefaultLen)
    BY <1>2, DefaultLenAssumption, StoreSound, UpdBecomes DEF Inv, Receive, Fresh
  <2>2. c.st[k] = "READY"
    BY <2>1 DEF Inv, Becomes, Sound, Shaped, Buffer
  <2>3. buf' = c
    BY <1>2, <2>2, MarkReadyIdle DEF Receive
  <2> HIDE DEF c
  <2> QED BY <2>1, <2>3, BecomesKeyStep
<1> QED
  BY <1>1, <1>2

(* Reserve stores a whole key and leaves it INIT.                          *)
LEMMA ReserveEffect ==
  ASSUME Inv, NEW k \in KeyIds, Reserve(k)
  PROVE  KeyStep(k, "INIT", 0, DefaultLen)
<1> DEFINE c == StoreKey(buf, k, DefaultLen)
           d == MarkKey(c, k, "INIT")
<1>1. Becomes(buf, c, k, "READY", 0, DefaultLen)
  BY DefaultLenAssumption, StoreSound, UpdBecomes DEF Inv, Reserve, Fresh
<1>2. Sound(c) /\ c.st[k] = "READY" /\ c.lo[k] = 0 /\ c.hi[k] = DefaultLen
  BY <1>1 DEF Inv, Becomes, Sound, Shaped, Buffer
<1>3. Becomes(c, d, k, "INIT", 0, DefaultLen)
  <2> HIDE DEF c
  <2>1. Becomes(c, d, k, "INIT", c.lo[k], c.hi[k])
    BY <1>2, MarkInitSound, UpdBecomes
  <2> QED BY <1>2, <2>1
<1>4. buf' = d
  BY DEF Reserve
<1> HIDE DEF c, d
<1> QED
  BY <1>1, <1>3, <1>4, BecomesTwice, BecomesKeyStep DEF Inv, Sound

(* Confirm makes a reserved key READY and leaves its material as it is.    *)
LEMMA ConfirmEffect ==
  ASSUME Inv, NEW k \in KeyIds, Confirm(k)
  PROVE  KeyStep(k, "READY", buf.lo[k], buf.hi[k])
<1>1. Becomes(buf, MarkKey(buf, k, "READY"), k, "READY", buf.lo[k], buf.hi[k])
  BY MarkReadySound, UpdBecomes DEF Inv, Confirm
<1> QED
  BY <1>1, BecomesKeyStep DEF Confirm

(* Discard removes a reserved key.                                         *)
LEMMA DiscardEffect ==
  ASSUME Inv, NEW k \in KeyIds, Discard(k)
  PROVE  KeyStep(k, "NONE", 0, 0)
<1>1. Becomes(buf, MarkKey(buf, k, "OBSOLETE"), k, "NONE", 0, 0)
  BY MarkObsoleteSound, UpdBecomes DEF Inv, Discard
<1> QED
  BY <1>1, BecomesKeyStep DEF Discard

(* Reject removes a reserved key.                                          *)
LEMMA RejectEffect ==
  ASSUME Inv, NEW k \in KeyIds, Reject(k)
  PROVE  KeyStep(k, "NONE", 0, 0)
<1> DEFINE f == FALSE
           c == GetKey(buf, k, f)
<1>1. f \in BOOLEAN /\ Sound(buf) /\ buf.st[k] = "INIT" /\ buf' = c
  BY DEF Inv, Reject
<1> HIDE DEF f
<1>2. /\ c = Upd(buf, k, "NONE", 0, 0, buf.bits, buf.nrKeys, buf.nrBits)
      /\ Sound(c)
  BY <1>1, GetInitSound
<1> HIDE DEF c
<1>3. Becomes(buf, c, k, "NONE", 0, 0)
  BY <1>2, UpdBecomes
<1> QED
  BY <1>1, <1>3, BecomesKeyStep

(* Taking a key by size or by id removes it.                               *)
LEMMA TakeEffect ==
  ASSUME Inv, NEW k \in KeyIds, TakeDefault(k) \/ TakeById(k)
  PROVE  KeyStep(k, "NONE", 0, 0)
<1>1. buf.st[k] = "READY" /\ buf' = GetKey(buf, k, TRUE)
  BY DEF TakeDefault, TakeById
<1>2. Becomes(buf, GetKey(buf, k, TRUE), k, "NONE", 0, 0)
  BY <1>1, GetReadySound, UpdBecomes DEF Inv
<1> QED
  BY <1>1, <1>2, BecomesKeyStep

(* Cut moves the start of a READY key, or removes the key when nothing is  *)
(* left.                                                                   *)
LEMMA CutEffect ==
  ASSUME Inv, NEW k \in KeyIds, NEW size \in 1 .. MaxLen, Cut(k, size)
  PROVE  \/ KeyStep(k, "READY", buf.lo[k] + size, buf.hi[k])
         \/ KeyStep(k, "NONE", 0, 0)
<1>1. size \in Nat /\ buf.st[k] = "READY" /\ size <= KeyLen(buf, k)
      /\ buf' = HalfKey(buf, k, size)
  BY BoundsNat DEF Cut
<1>2. \/ Becomes(buf, buf', k, "READY", buf.lo[k] + size, buf.hi[k])
      \/ Becomes(buf, buf', k, "NONE", 0, 0)
  BY <1>1, HalfKeySound DEF Inv
<1> QED
  BY <1>2, BecomesKeyStep

(* GetTransformCandidate selects a READY key.                              *)
LEMMA TransformEffect ==
  ASSUME Inv, NEW size \in 0 .. MaxLen, NEW k \in Candidates(buf, size), Serves,
         buf' = TransformCandidate(buf, k, size)
  PROVE  /\ k \in KeyIds /\ buf.st[k] = "READY"
         /\ IF Splits(buf, k, size)
              THEN KeyStep(k, "INIT", buf.lo[k] + size, buf.hi[k])
              ELSE KeyStep(k, "NONE", 0, 0)
<1>1. k \in KeyIds /\ buf.st[k] = "READY" /\ size \in Nat
  BY BoundsNat DEF Candidates, Enough, ReadyKeys
<1> DEFINE c == CandidateChecked(buf)
<1>2. /\ c.st = buf.st /\ c.lo = buf.lo /\ c.hi = buf.hi /\ c.supply = buf.supply
      /\ c.failed => Kind = "relay" /\ \E s \in SupplyIds : buf.supply[s] # {}
  BY CandidateCheckedSound, KindAssumption DEF Inv, Serves, NoFailure
<1>3. IF Splits(buf, k, size)
        THEN Becomes(c, buf', k, "INIT", buf.lo[k] + size, buf.hi[k])
        ELSE Becomes(c, buf', k, "NONE", 0, 0)
  BY <1>1, TransformSound DEF Inv
<1> HIDE DEF c
<1> QED
  BY <1>1, <1>2, <1>3 DEF Becomes, KeyStep, NoFailure

(* StoreSupply touches one supply key of a buffer that follows.            *)
LEMMA StoreSupplyEffect ==
  ASSUME Inv, NEW t \in SupplyIds, NEW cells \in SUBSET Cell, Running, Follows,
         buf.supply[t] = {}, buf' = StoreSupplyKey(buf, t, cells)
  PROVE  /\ Sound(buf')
         /\ buf'.st = buf.st /\ buf'.lo = buf.lo /\ buf'.hi = buf.hi
         /\ buf'.supply = [buf.supply EXCEPT ![t] = cells]
         /\ Kind # "enc" /\ ~buf'.failed
  BY StoreSupplySound DEF Inv, SupplyBecomes, Follows, Running

(* TakeSupply touches one supply key of a buffer that follows.             *)
LEMMA TakeSupplyEffect ==
  ASSUME Inv, NEW t \in SupplyIds, TakeSupply(t)
  PROVE  /\ Sound(buf')
         /\ buf'.st = buf.st /\ buf'.lo = buf.lo /\ buf'.hi = buf.hi
         /\ buf'.supply = [buf.supply EXCEPT ![t] = {}]
         /\ Kind # "enc" /\ ~buf'.failed
  BY TakeSupplySound DEF Inv, SupplyBecomes, TakeSupply, Follows, Running

(* The material of one key, or a prefix of it, is material.                *)
LEMMA CellsTyped ==
  ASSUME Inv, NEW k \in KeyIds, NEW size \in Nat, size <= KeyLen(buf, k)
  PROVE  /\ KeyCells(buf, k) \in SUBSET Cell
         /\ Prefix(buf, k, size) \in SUBSET Cell
<1>1. buf.lo[k] \in 0 .. MaxLen /\ buf.hi[k] \in 0 .. MaxLen /\ KeyLen(buf, k) = buf.hi[k] - buf.lo[k]
  BY KeyFacts DEF Inv, Sound
<1> QED
  BY <1>1, BoundsNat DEF KeyCells, Prefix, Cell

(* What GetTransformCandidate hands out is material.                       *)
LEMMA CandidateTyped ==
  ASSUME Inv, NEW k \in KeyIds, NEW size \in Nat
  PROVE  CandidateCells(buf, k, size) \in SUBSET Cell
<1>1. KeyLen(buf, k) \in Nat
  BY KeyFacts DEF Inv, Sound
<1>2. CASE Splits(buf, k, size)
  BY <1>1, <1>2, CellsTyped DEF Splits, CandidateCells
<1>3. CASE ~Splits(buf, k, size)
  BY <1>1, <1>3, CellsTyped DEF CandidateCells
<1> QED
  BY <1>2, <1>3

(* Sound buffers are well-typed: one conjunct of TypeOK is free.           *)
LEMMA SoundTyped ==
  ASSUME NEW b, Sound(b)
  PROVE  b \in Buffer
  BY DEF Sound, Shaped

(* The empty buffer satisfies the invariant.                               *)
LEMMA InitInv == Init => Inv
<1> SUFFICES ASSUME Init PROVE Inv
  OBVIOUS
<1>1. /\ buf.st = [k \in KeyIds |-> "NONE"]
      /\ buf.lo = [k \in KeyIds |-> 0] /\ buf.hi = [k \in KeyIds |-> 0]
      /\ buf.supply = [s \in SupplyIds |-> {}]
      /\ buf.bits = 0 /\ buf.nrKeys = 0 /\ buf.nrBits = 0 /\ buf.failed = FALSE
  BY DEF Init, EmptyBuffer
<1>2. buf \in Buffer
  BY BoundsNat DEF Init, EmptyBuffer, Buffer, KeyState
<1>3. Shaped(buf)
  BY <1>1, <1>2 DEF Shaped
<1>4. ReadyCells(buf) = {} /\ SupplyCells(buf) = {} /\ NotReadyKeys(buf) = {} /\ NotReadyCells(buf) = {}
  BY <1>1 DEF ReadyCells, SupplyCells, NotReadyKeys, NotReadyCells, Held, Cell
<1>5. Cardinality({}) = 0
  BY FS_EmptySet
<1>6. Sound(buf)
  BY <1>1, <1>3, <1>4, <1>5 DEF Sound, ReadyAmount
<1> QED
  BY <1>1, <1>2, <1>6 DEF Init, Inv, TypeOK, NoFailure

(* Every call of the KMS keeps the invariant.                              *)
LEMMA NextInv == Inv /\ [Next]_vars => Inv'
<1> SUFFICES ASSUME Inv, [Next]_vars PROVE Inv'
  OBVIOUS
<1> USE DEF TypeOK
<1>0. /\ buf.st \in [KeyIds -> KeyState] /\ buf.supply \in [SupplyIds -> SUBSET Cell]
      /\ pending \subseteq KeyIds /\ used \subseteq KeyIds
  BY DEF Inv, Buffer
<1>1. ASSUME NEW k \in KeyIds, Receive(k) PROVE Inv'
  BY <1>0, <1>1, ReceiveEffect, SoundTyped DEF Inv, KeyStep, Receive, Fresh, NoFailure
<1>2. ASSUME NEW k \in KeyIds, Reserve(k) PROVE Inv'
  <2>1. KeyStep(k, "INIT", 0, DefaultLen)
    BY <1>2, ReserveEffect
  <2>2. \A j \in pending' : buf'.st[j] = "INIT"
    BY <1>0, <1>2, <2>1 DEF Inv, KeyStep, Reserve
  <2> QED BY <1>0, <1>2, <2>1, <2>2, SoundTyped DEF Inv, KeyStep, Reserve
<1>3. ASSUME NEW k \in KeyIds, Confirm(k) PROVE Inv'
  BY <1>0, <1>3, ConfirmEffect, SoundTyped DEF Inv, KeyStep, Confirm
<1>4. ASSUME NEW k \in KeyIds, Discard(k) PROVE Inv'
  BY <1>0, <1>4, DiscardEffect, SoundTyped DEF Inv, KeyStep, Discard
<1>5. ASSUME NEW k \in KeyIds, Reject(k) PROVE Inv'
  BY <1>0, <1>5, RejectEffect, SoundTyped DEF Inv, KeyStep, Reject
<1>6. ASSUME NEW k \in KeyIds, TakeDefault(k) PROVE Inv'
  <2>1. KeyCells(buf, k) \in SUBSET Cell
    BY CellsTyped, KeyFacts DEF Inv, Sound
  <2> QED BY <1>0, <1>6, <2>1, TakeEffect, SoundTyped DEF Inv, KeyStep, TakeDefault
<1>7. ASSUME NEW k \in KeyIds, TakeById(k) PROVE Inv'
  <2>1. KeyCells(buf, k) \in SUBSET Cell
    BY CellsTyped, KeyFacts DEF Inv, Sound
  <2> QED BY <1>0, <1>7, <2>1, TakeEffect, SoundTyped DEF Inv, KeyStep, TakeById
<1>8. ASSUME NEW k \in KeyIds, NEW size \in 1 .. MaxLen, Cut(k, size) PROVE Inv'
  <2>1. Prefix(buf, k, size) \in SUBSET Cell
    BY <1>8, CellsTyped, BoundsNat DEF Cut
  <2> QED BY <1>0, <1>8, <2>1, CutEffect, SoundTyped DEF Inv, KeyStep, Cut
<1>9. ASSUME NEW size \in 0 .. MaxLen, Transform(size) PROVE Inv'
  <2>1. PICK k \in Candidates(buf, size) :
          /\ buf' = TransformCandidate(buf, k, size)
          /\ pending' = IF Splits(buf, k, size) THEN pending \cup {k} ELSE pending
          /\ used' = used \cup {k}
          /\ served' = served \cup CandidateCells(buf, k, size)
    BY <1>9 DEF Transform
  <2>2. Serves /\ UNCHANGED loose
    BY <1>9 DEF Transform
  <2>3. /\ k \in KeyIds /\ buf.st[k] = "READY"
        /\ IF Splits(buf, k, size)
             THEN KeyStep(k, "INIT", buf.lo[k] + size, buf.hi[k])
             ELSE KeyStep(k, "NONE", 0, 0)
    BY <2>1, <2>2, TransformEffect
  <2>4. CandidateCells(buf, k, size) \in SUBSET Cell
    BY <2>3, CandidateTyped, BoundsNat
  <2> QED BY <1>0, <2>1, <2>2, <2>3, <2>4, SoundTyped DEF Inv, KeyStep
<1>10. ASSUME NEW s \in SupplyIds, StoreSupply(s) PROVE Inv'
  <2>1. PICK cells \in SUBSET loose \ {{}} :
          buf' = StoreSupplyKey(buf, s, cells) /\ loose' = loose \ cells
    BY <1>10 DEF StoreSupply
  <2>2. cells \in SUBSET Cell
    BY <2>1 DEF Inv
  <2> QED BY <1>0, <1>10, <2>1, <2>2, StoreSupplyEffect, SoundTyped DEF Inv, StoreSupply, NoFailure
<1>11. ASSUME NEW s \in SupplyIds, TakeSupply(s) PROVE Inv'
  BY <1>0, <1>11, TakeSupplyEffect, SoundTyped DEF Inv, TakeSupply, NoFailure
<1>12. CASE UNCHANGED vars
  BY <1>12 DEF vars, Inv, NoFailure, Sound, Shaped, ReadyAmount, ReadyCells, SupplyCells,
               NotReadyKeys, NotReadyCells, Held
<1> QED
  BY <1>1, <1>2, <1>3, <1>4, <1>5, <1>6, <1>7, <1>8, <1>9, <1>10, <1>11, <1>12 DEF Next

(* TypeOK: the counters stay natural numbers (m_notReadyKeyCount and       *)
(* m_notReadyBitCount are decremented without ever wrapping), every split  *)
(* key stays an interval of its material.                                  *)
THEOREM TypeCorrect == Spec => []TypeOK
<1>1. Inv => TypeOK
  BY DEF Inv
<1> QED
  BY <1>1, InitInv, NextInv, PTL DEF Spec

(* SBuffer::LogUpdate's NS_ASSERT: m_currentKeyBit is the READY material   *)
(* of the stores, for any number and length of keys and any capacity.      *)
THEOREM AccountingHolds == Spec => []Accounting
<1>1. Inv => Accounting
  BY DEF Inv, Sound, Accounting
<1> QED
  BY <1>1, InitInv, NextInv, PTL DEF Spec

(* The not-ready counters cover the keys that are not READY, so MarkKey's  *)
(* two fatal errors about them cannot fire, although a rejected key leaves *)
(* them too high.                                                          *)
THEOREM NotReadyCoveredHolds == Spec => []NotReadyCovered
<1>1. Inv => NotReadyCovered
  BY DEF Inv, Sound, NotReadyCovered
<1> QED
  BY <1>1, InitInv, NextInv, PTL DEF Spec

(* No assertion and no fatal error of a buffer stops the program, but that *)
(* of GetTransformCandidate on a RELAY buffer that holds a supply key.     *)
THEOREM NoFailureHolds == Spec => []NoFailure
<1>1. Inv => NoFailure
  BY DEF Inv
<1> QED
  BY <1>1, InitInv, NextInv, PTL DEF Spec

-----------------------------------------------------------------------------
(* No reuse.  Material that left a key belongs to a used key and lies below*)
(* what the buffer still holds of it; it is in one place only.             *)
Spent ==
  /\ \A c \in served \cup loose \cup UNION {buf.supply[s] : s \in SupplyIds} :
       c[1] \in used /\ (Held(buf, c[1]) => c[2] <= buf.lo[c[1]])
  /\ loose \cap served = {}
  /\ \A s \in SupplyIds : buf.supply[s] \cap (loose \cup served) = {}
  /\ \A s, t \in SupplyIds : s # t => buf.supply[s] \cap buf.supply[t] = {}

(* At the start nothing has been handed out.                               *)
LEMMA InitSpent == Init => Spent
<1> SUFFICES ASSUME Init PROVE Spent
  OBVIOUS
<1>1. buf.supply = [s \in SupplyIds |-> {}] /\ served = {} /\ loose = {}
  BY DEF Init, EmptyBuffer
<1> QED
  BY <1>1 DEF Spent

(* The steps that hand out no material.                                    *)
LEMMA QuietSpent ==
  ASSUME Inv, Spent, NEW k \in KeyIds,
         NEW s \in KeyState, NEW l, NEW h, KeyStep(k, s, l, h),
         k \notin used \/ s = "NONE" \/ (l = buf.lo[k] /\ buf.st[k] # "NONE"),
         used \subseteq used', UNCHANGED <<loose, served>>
  PROVE  Spent'
<1>1. /\ buf.st \in [KeyIds -> KeyState] /\ buf.lo \in [KeyIds -> 0 .. MaxLen]
      /\ buf'.supply = buf.supply
      /\ buf'.st = [buf.st EXCEPT ![k] = s] /\ buf'.lo = [buf.lo EXCEPT ![k] = l]
  BY DEF Inv, TypeOK, Buffer, KeyStep
<1>2. ASSUME NEW c \in served \cup loose \cup UNION {buf.supply[t] : t \in SupplyIds}
      PROVE  c[1] \in used' /\ (Held(buf', c[1]) => c[2] <= buf'.lo[c[1]])
  <2>1. c[1] \in KeyIds /\ c[1] \in used /\ (Held(buf, c[1]) => c[2] <= buf.lo[c[1]])
    BY DEF Spent, Inv, TypeOK
  <2> QED BY <1>1, <2>1 DEF Held
<1> QED
  BY <1>1, <1>2 DEF Spent

(* The steps that take material of key k out: what leaves was held, and    *)
(* what stays of k lies above it.                                          *)
Taken(k, out) ==
  \A c \in out : /\ c[1] = k /\ Held(buf, k) /\ buf.lo[k] < c[2]
                 /\ Held(buf', k) => c[2] <= buf'.lo[k]

(* A step that hands out a prefix or all of key k keeps Spent.             *)
LEMMA TakenSpent ==
  ASSUME Inv, Spent, NEW k \in KeyIds, NEW out,
         NEW s \in KeyState, NEW l, NEW h, KeyStep(k, s, l, h), Taken(k, out),
         buf.lo[k] <= l \/ s = "NONE", l \in Nat, Held(buf, k),
         used' = used \cup {k},
         \/ loose' = loose \cup out /\ served' = served
         \/ served' = served \cup out /\ loose' = loose
  PROVE  Spent'
<1>1. /\ buf.st \in [KeyIds -> KeyState] /\ buf.lo \in [KeyIds -> 0 .. MaxLen]
      /\ buf'.supply = buf.supply
      /\ buf'.st = [buf.st EXCEPT ![k] = s] /\ buf'.lo = [buf.lo EXCEPT ![k] = l]
      /\ loose \subseteq Cell /\ served \subseteq Cell
      /\ buf.supply \in [SupplyIds -> SUBSET Cell]
      /\ MaxLen \in Nat
  BY BoundsNat DEF Inv, TypeOK, Buffer, KeyStep
<1> DEFINE Old == served \cup loose \cup UNION {buf.supply[t] : t \in SupplyIds}
<1>2. ASSUME NEW c \in Old
      PROVE  /\ c[1] \in used' /\ (Held(buf', c[1]) => c[2] <= buf'.lo[c[1]])
             /\ c \notin out
  <2>1. c \in Cell
    BY <1>1
  <2>2. c[1] \in KeyIds /\ c[1] \in used /\ (Held(buf, c[1]) => c[2] <= buf.lo[c[1]])
        /\ c[2] \in Nat
    BY <2>1, BoundsNat DEF Spent, Inv, TypeOK, Cell
  <2>3. c \notin out
    BY <1>1, <2>2 DEF Taken
  <2>4. Held(buf', c[1]) => c[2] <= buf'.lo[c[1]]
    BY <1>1, <2>2 DEF Held
  <2> QED BY <2>2, <2>3, <2>4
<1>3. ASSUME NEW c \in out
      PROVE  c[1] \in used' /\ (Held(buf', c[1]) => c[2] <= buf'.lo[c[1]])
  BY <1>3 DEF Taken
<1>4. \A c \in served' \cup loose' \cup UNION {buf'.supply[t] : t \in SupplyIds} :
        c[1] \in used' /\ (Held(buf', c[1]) => c[2] <= buf'.lo[c[1]])
  BY <1>1, <1>2, <1>3
<1>5. /\ loose' \cap served' = {}
      /\ \A t \in SupplyIds : buf'.supply[t] \cap (loose' \cup served') = {}
      /\ \A t, u \in SupplyIds : t # u => buf'.supply[t] \cap buf'.supply[u] = {}
  BY <1>1, <1>2 DEF Spent
<1> QED
  BY <1>4, <1>5 DEF Spent

(* Every call of the KMS keeps Spent.                                      *)
LEMMA NextSpent == Inv /\ Spent /\ [Next]_vars => Spent'
<1> SUFFICES ASSUME Inv, Spent, [Next]_vars PROVE Spent'
  OBVIOUS
<1>0. {"READY", "INIT", "NONE"} \subseteq KeyState
  BY DEF KeyState
<1>a. ASSUME NEW k \in KeyIds
      PROVE  /\ buf.lo[k] \in Nat /\ buf.hi[k] \in Nat /\ buf.lo[k] <= buf.hi[k]
             /\ KeyLen(buf, k) = buf.hi[k] - buf.lo[k]
             /\ buf.st \in [KeyIds -> KeyState] /\ buf.lo \in [KeyIds -> 0 .. MaxLen]
  BY KeyFacts DEF Inv, Sound, Shaped, Buffer
<1>1. ASSUME NEW k \in KeyIds, Receive(k) PROVE Spent'
  <2>1. k \notin used /\ UNCHANGED <<used, loose, served>>
    BY <1>1 DEF Receive, Fresh
  <2>2. CASE UNCHANGED buf
    BY <2>1, <2>2 DEF Spent, Held
  <2>3. CASE KeyStep(k, "READY", 0, DefaultLen)
    BY <1>0, <2>1, <2>3, QuietSpent
  <2> QED BY <1>1, <2>2, <2>3, ReceiveEffect
<1>2. ASSUME NEW k \in KeyIds, Reserve(k) PROVE Spent'
  <2>1. k \notin used /\ UNCHANGED <<used, loose, served>>
    BY <1>2 DEF Reserve, Fresh
  <2> QED BY <1>0, <1>2, <2>1, ReserveEffect, QuietSpent
<1>3. ASSUME NEW k \in KeyIds, Confirm(k) PROVE Spent'
  <2>1. buf.st[k] # "NONE" /\ UNCHANGED <<used, loose, served>>
    BY <1>3 DEF Confirm, Inv
  <2> QED BY <1>0, <1>3, <2>1, ConfirmEffect, QuietSpent
<1>4. ASSUME NEW k \in KeyIds, Discard(k) PROVE Spent'
  <2>1. used \subseteq used' /\ UNCHANGED <<loose, served>>
    BY <1>4 DEF Discard
  <2> QED BY <1>0, <1>4, <2>1, DiscardEffect, QuietSpent
<1>5. ASSUME NEW k \in KeyIds, Reject(k) PROVE Spent'
  <2>1. used \subseteq used' /\ UNCHANGED <<loose, served>>
    BY <1>5 DEF Reject
  <2> QED BY <1>0, <1>5, <2>1, RejectEffect, QuietSpent
<1>6. ASSUME NEW k \in KeyIds, TakeDefault(k) \/ TakeById(k) PROVE Spent'
  <2>1. KeyStep(k, "NONE", 0, 0)
    BY <1>6, TakeEffect
  <2>2. ~Held(buf', k) /\ Held(buf, k)
    BY <1>a, <1>6, <2>1 DEF KeyStep, Held, TakeDefault, TakeById
  <2>3. Taken(k, KeyCells(buf, k))
    BY <1>a, <2>2 DEF Taken, KeyCells
  <2>4. /\ used' = used \cup {k}
        /\ \/ loose' = loose \cup KeyCells(buf, k) /\ served' = served
           \/ served' = served \cup KeyCells(buf, k) /\ loose' = loose
    BY <1>6 DEF TakeDefault, TakeById
  <2> QED BY <1>0, <2>1, <2>2, <2>3, <2>4, TakenSpent
<1>7. ASSUME NEW k \in KeyIds, NEW size \in 1 .. MaxLen, Cut(k, size) PROVE Spent'
  <2>1. /\ size \in Nat /\ size <= KeyLen(buf, k) /\ Held(buf, k)
        /\ used' = used \cup {k} /\ loose' = loose \cup Prefix(buf, k, size)
        /\ served' = served
    BY <1>7, BoundsNat DEF Cut, Held
  <2>2. ASSUME NEW c \in Prefix(buf, k, size)
        PROVE  c[1] = k /\ buf.lo[k] < c[2] /\ c[2] <= buf.lo[k] + size
    BY <1>a, <2>1, <2>2 DEF Prefix
  <2>3. CASE KeyStep(k, "READY", buf.lo[k] + size, buf.hi[k])
    <3>1. buf'.lo[k] = buf.lo[k] + size
      BY <1>a, <2>3 DEF KeyStep
    <3>2. Taken(k, Prefix(buf, k, size))
      BY <2>1, <2>2, <3>1 DEF Taken
    <3>3. buf.lo[k] <= buf.lo[k] + size /\ buf.lo[k] + size \in Nat
      BY <1>a, <2>1
    <3> QED BY <1>0, <2>1, <2>3, <3>2, <3>3, TakenSpent
  <2>4. CASE KeyStep(k, "NONE", 0, 0)
    <3>1. ~Held(buf', k)
      BY <1>a, <2>4 DEF KeyStep, Held
    <3>2. Taken(k, Prefix(buf, k, size))
      BY <2>1, <2>2, <3>1 DEF Taken
    <3> QED BY <1>0, <2>1, <2>4, <3>2, TakenSpent
  <2> QED BY <1>7, <2>3, <2>4, CutEffect
<1>8. ASSUME NEW size \in 0 .. MaxLen, Transform(size) PROVE Spent'
  <2>1. PICK k \in Candidates(buf, size) :
          /\ buf' = TransformCandidate(buf, k, size)
          /\ used' = used \cup {k}
          /\ served' = served \cup CandidateCells(buf, k, size)
    BY <1>8 DEF Transform
  <2>2. Serves /\ UNCHANGED loose /\ size \in Nat
    BY <1>8, BoundsNat DEF Transform
  <2>3. /\ k \in KeyIds /\ buf.st[k] = "READY"
        /\ IF Splits(buf, k, size)
             THEN KeyStep(k, "INIT", buf.lo[k] + size, buf.hi[k])
             ELSE KeyStep(k, "NONE", 0, 0)
    BY <2>1, <2>2, TransformEffect
  <2>4. Held(buf, k)
    BY <2>3 DEF Held
  <2>5. CASE Splits(buf, k, size)
    <3>1. KeyStep(k, "INIT", buf.lo[k] + size, buf.hi[k])
      BY <2>3, <2>5
    <3>2. buf'.lo[k] = buf.lo[k] + size
      BY <1>a, <2>3, <3>1 DEF KeyStep
    <3>3. Taken(k, Prefix(buf, k, size))
      BY <1>a, <2>2, <2>3, <2>4, <3>2 DEF Taken, Prefix
    <3>4. served' = served \cup Prefix(buf, k, size)
      BY <2>1, <2>5 DEF CandidateCells
    <3>5. buf.lo[k] <= buf.lo[k] + size /\ buf.lo[k] + size \in Nat
      BY <1>a, <2>2, <2>3
    <3> QED BY <1>0, <2>1, <2>2, <2>3, <2>4, <3>1, <3>3, <3>4, <3>5, TakenSpent
  <2>6. CASE ~Splits(buf, k, size)
    <3>1. KeyStep(k, "NONE", 0, 0)
      BY <2>3, <2>6
    <3>2. ~Held(buf', k)
      BY <1>a, <2>3, <3>1 DEF KeyStep, Held
    <3>3. Taken(k, KeyCells(buf, k))
      BY <1>a, <2>3, <2>4, <3>2 DEF Taken, KeyCells
    <3>4. served' = served \cup KeyCells(buf, k)
      BY <2>1, <2>6 DEF CandidateCells
    <3> QED BY <1>0, <2>1, <2>2, <2>3, <2>4, <3>1, <3>3, <3>4, TakenSpent
  <2> QED BY <2>5, <2>6
<1>9. ASSUME NEW s \in SupplyIds, StoreSupply(s) PROVE Spent'
  <2>1. PICK cells \in SUBSET loose \ {{}} :
          buf' = StoreSupplyKey(buf, s, cells) /\ loose' = loose \ cells
    BY <1>9 DEF StoreSupply
  <2>2. /\ cells \in SUBSET Cell /\ Running /\ Follows /\ buf.supply[s] = {}
        /\ UNCHANGED <<used, served>>
    BY <1>9, <2>1 DEF Inv, TypeOK, StoreSupply
  <2>3. /\ buf'.st = buf.st /\ buf'.lo = buf.lo
        /\ buf'.supply = [buf.supply EXCEPT ![s] = cells]
    BY <2>1, <2>2, StoreSupplyEffect
  <2>4. buf.supply \in [SupplyIds -> SUBSET Cell]
    BY DEF Inv, TypeOK, Buffer
  <2>5. \A c \in served' \cup loose' \cup UNION {buf'.supply[t] : t \in SupplyIds} :
          c \in served \cup loose \cup UNION {buf.supply[t] : t \in SupplyIds}
    BY <2>1, <2>2, <2>3, <2>4
  <2>6. /\ loose' \cap served' = {}
        /\ \A t \in SupplyIds : buf'.supply[t] \cap (loose' \cup served') = {}
        /\ \A t, u \in SupplyIds : t # u => buf'.supply[t] \cap buf'.supply[u] = {}
    BY <2>1, <2>2, <2>3, <2>4 DEF Spent
  <2> QED BY <2>2, <2>3, <2>5, <2>6 DEF Spent, Held
<1>10. ASSUME NEW s \in SupplyIds, TakeSupply(s) PROVE Spent'
  <2>1. /\ buf'.st = buf.st /\ buf'.lo = buf.lo
        /\ buf'.supply = [buf.supply EXCEPT ![s] = {}]
    BY <1>10, TakeSupplyEffect
  <2>2. served' = served \cup buf.supply[s] /\ UNCHANGED <<used, loose>>
    BY <1>10 DEF TakeSupply
  <2>3. buf.supply \in [SupplyIds -> SUBSET Cell]
    BY DEF Inv, TypeOK, Buffer
  <2>4. \A c \in served' \cup loose' \cup UNION {buf'.supply[t] : t \in SupplyIds} :
          c \in served \cup loose \cup UNION {buf.supply[t] : t \in SupplyIds}
    BY <2>1, <2>2, <2>3
  <2>5. /\ loose' \cap served' = {}
        /\ \A t \in SupplyIds : buf'.supply[t] \cap (loose' \cup served') = {}
        /\ \A t, u \in SupplyIds : t # u => buf'.supply[t] \cap buf'.supply[u] = {}
    BY <2>1, <2>2, <2>3 DEF Spent
  <2> QED BY <2>1, <2>2, <2>4, <2>5 DEF Spent, Held
<1>11. CASE UNCHANGED vars
  BY <1>11 DEF vars, Spent, Held
<1> QED
  BY <1>1, <1>2, <1>3, <1>4, <1>5, <1>6, <1>7, <1>8, <1>9, <1>10, <1>11 DEF Next

(* No unit of key material is given out twice, whatever is split, merged,  *)
(* discarded or rejected in between: what the transform hands to           *)
(* applications and the relay to its next hop is used once.                *)
THEOREM NoReuseHolds == Spec => []NoReuse
<1>1. Inv /\ Spent => NoReuse
  BY DEF Inv, TypeOK, Spent, NoReuse, Cell, Buffer
<1>2. Init => Inv /\ Spent
  BY InitInv, InitSpent
<1>3. Inv /\ Spent /\ [Next]_vars => (Inv /\ Spent)'
  BY NextInv, NextSpent
<1> QED
  BY <1>1, <1>2, <1>3, PTL DEF Spec
=============================================================================
