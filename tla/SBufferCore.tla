---------------------------- MODULE SBufferCore ----------------------------
(***************************************************************************)
(* The operations of one SBuffer (model/s-buffer.cc over model/q-buffer.cc)*)
(* as operators from a buffer to a buffer.  SBuffer.tla turns them into a  *)
(* state machine; the KMS modules compose several buffers from them.       *)
(*                                                                         *)
(* Key material is counted in units (the code counts bits, always a        *)
(* multiple of 8).  The material of key k is the units 1..n of k; splitting*)
(* a key removes a prefix (value.substr(0, size/8)), so what the buffer    *)
(* still holds of k is the interval lo[k]+1 .. hi[k].                      *)
(***************************************************************************)
EXTENDS Naturals, FiniteSets

CONSTANTS
  KeyIds,      \* identifiers of the keys of m_keys
  SupplyIds,   \* identifiers of supply keys (fresh UUIDs in the code)
  MaxLen,      \* the longest key, in units
  Mmax         \* m_maxKeyBit, in units

ASSUME KeyIdsFinite    == IsFiniteSet(KeyIds)
ASSUME SupplyIdsFinite == IsFiniteSet(SupplyIds)
ASSUME BoundsNat       == MaxLen \in Nat \ {0} /\ Mmax \in Nat

(* A unit of key material: the i-th unit of key k.                         *)
Cell == KeyIds \X (1 .. MaxLen)

(* QKDKey states that a key of m_keys can show; "NONE" is an absent key.   *)
KeyState == {"NONE", "INIT", "READY", "OBSOLETE"}

(* One buffer.  `failed' is raised where the code stops the program: a     *)
(* failing NS_ASSERT or an NS_FATAL_ERROR.                                 *)
Buffer ==
  [ st     : [KeyIds -> KeyState],
    lo     : [KeyIds -> 0 .. MaxLen],
    hi     : [KeyIds -> 0 .. MaxLen],
    supply : [SupplyIds -> SUBSET Cell],   \* m_supply_keys; {} is absent
    bits   : Nat,                          \* m_currentKeyBit
    nrKeys : Nat,                          \* m_notReadyKeyCount
    nrBits : Nat,                          \* m_notReadyBitCount
    failed : BOOLEAN ]

EmptyBuffer ==
  [ st     |-> [k \in KeyIds |-> "NONE"],
    lo     |-> [k \in KeyIds |-> 0],
    hi     |-> [k \in KeyIds |-> 0],
    supply |-> [s \in SupplyIds |-> {}],
    bits   |-> 0,
    nrKeys |-> 0,
    nrBits |-> 0,
    failed |-> FALSE ]

-----------------------------------------------------------------------------
(* What the buffer holds.                                                  *)

Held(b, k) == b.st[k] # "NONE"

KeyLen(b, k) == b.hi[k] - b.lo[k]

KeyCells(b, k) == {k} \X (b.lo[k] + 1 .. b.hi[k])

ReadyCells(b) ==
  {c \in Cell : b.st[c[1]] = "READY" /\ b.lo[c[1]] < c[2] /\ c[2] <= b.hi[c[1]]}

NotReadyKeys(b) == {k \in KeyIds : Held(b, k) /\ b.st[k] # "READY"}

NotReadyCells(b) ==
  {c \in Cell : /\ Held(b, c[1]) /\ b.st[c[1]] # "READY"
                /\ b.lo[c[1]] < c[2] /\ c[2] <= b.hi[c[1]]}

(* Supply keys are created from their value and are READY from the start.  *)
SupplyCells(b) == {p \in SupplyIds \X Cell : p[2] \in b.supply[p[1]]}

(* The sum LogUpdate recomputes over the stores before its NS_ASSERT.      *)
ReadyAmount(b) == Cardinality(ReadyCells(b)) + Cardinality(SupplyCells(b))

(* GetSBitCount: the amount reported as servable.                          *)
GetSBitCount(b) == IF b.bits > b.nrBits THEN b.bits - b.nrBits ELSE b.bits

-----------------------------------------------------------------------------
(* LogUpdate: adjust m_currentKeyBit, ignoring a decrement larger than the *)
(* counter, then compare it with the READY material of the stores.         *)

Stop(b) == [b EXCEPT !.failed = TRUE]

Checked(b) == IF b.bits = ReadyAmount(b) THEN b ELSE Stop(b)

LogAdd(b, n) == Checked([b EXCEPT !.bits = @ + n])

LogSub(b, n) == Checked([b EXCEPT !.bits = IF n > @ THEN @ ELSE @ - n])

(* StoreKey(key, true) for a READY key of n units.  A key that does not    *)
(* fit is refused and the buffer keeps its content; std::map::insert leaves*)
(* a key of the same id alone, and the amount is counted all the same.     *)
Fits(b, n) == b.bits + n <= Mmax

SetKey(b, k, s, l, h) == [b EXCEPT !.st[k] = s, !.lo[k] = l, !.hi[k] = h]

Insert(b, k, n) == IF Held(b, k) THEN b ELSE SetKey(b, k, "READY", 0, n)

StoreKey(b, k, n) == IF Fits(b, n) THEN LogAdd(Insert(b, k, n), n) ELSE b

Erase(b, k) == SetKey(b, k, "NONE", 0, 0)

GetKey(b, k, fireTraces) ==
  IF b.st[k] = "READY" /\ fireTraces
    THEN LogSub(Erase(b, k), KeyLen(b, k))
    ELSE Erase(b, k)

(* MarkKey(keyId, state).  The not-ready counters move with the state; an  *)
(* obsolete key that was not READY leaves the store.                       *)
CountersCover(b, k) == b.nrBits >= KeyLen(b, k) /\ b.nrKeys > 0

Count(b, k) == [b EXCEPT !.nrKeys = @ + 1, !.nrBits = @ + KeyLen(b, k)]

(* Mutant: one key that turns READY clears the account of all the others.  *)
UncountAll(b, k) == [b EXCEPT !.nrKeys = @ - 1, !.nrBits = 0]

Uncount(b, k) == [b EXCEPT !.nrKeys = @ - 1, !.nrBits = @ - KeyLen(b, k)]

MarkKey(b, k, state) ==
  CASE ~Held(b, k) -> Stop(b)
    [] b.st[k] = "READY" /\ state # "READY" ->
         LogSub([Count(b, k) EXCEPT !.st[k] = state], KeyLen(b, k))
    [] Held(b, k) /\ b.st[k] # "READY" /\ state = "READY" ->
         IF CountersCover(b, k)
           THEN LogAdd([Uncount(b, k) EXCEPT !.st[k] = "READY"], KeyLen(b, k))
           ELSE Stop(b)
    [] Held(b, k) /\ b.st[k] # "READY" /\ state = "OBSOLETE" ->
         IF CountersCover(b, k) THEN GetKey(Uncount(b, k), k, TRUE) ELSE Stop(b)
    [] OTHER -> b

-----------------------------------------------------------------------------
(* The two halves of the ETSI 014 transform.                               *)

ReadyKeys(b) == {k \in KeyIds : b.st[k] = "READY"}

(* The keys GetTransformCandidate(size) may select: any READY key when no  *)
(* size is asked, else a shortest one that is long enough, else a longest. *)
Enough(b, size) == {k \in ReadyKeys(b) : KeyLen(b, k) >= size}

Candidates(b, size) ==
  IF size = 0 THEN ReadyKeys(b)
  ELSE IF Enough(b, size) # {}
    THEN {k \in Enough(b, size) : \A j \in Enough(b, size) : KeyLen(b, k) <= KeyLen(b, j)}
    ELSE {k \in ReadyKeys(b) : \A j \in ReadyKeys(b) : KeyLen(b, j) <= KeyLen(b, k)}

(* Its own NS_ASSERT counts the READY keys of m_keys only.                 *)
CandidateChecked(b) ==
  IF b.bits = Cardinality(ReadyCells(b)) THEN b ELSE Stop(b)

(* Mutant: a key shorter than the size asked is cut as well.               *)
SplitsAnyKey(b, k, size) == size # 0

Splits(b, k, size) == size # 0 /\ KeyLen(b, k) > size

Prefix(b, k, size) == {k} \X (b.lo[k] + 1 .. b.lo[k] + size)

(* The units GetTransformCandidate hands out when it selects k.            *)
CandidateCells(b, k, size) ==
  IF Splits(b, k, size) THEN Prefix(b, k, size) ELSE KeyCells(b, k)

(* Mutant: the cut is not reported to LogUpdate.                           *)
CutPrefixUnlogged(b, k, size) == [b EXCEPT !.lo[k] = @ + size]

CutPrefix(b, k, size) == LogSub([b EXCEPT !.lo[k] = @ + size], size)

(* Mutant: a key used whole stays in the store.                            *)
TransformCandidatePeeks(b, k, size) ==
  IF Splits(b, k, size) THEN MarkKey(CutPrefix(b, k, size), k, "INIT") ELSE b

(* GetTransformCandidate(size) selecting k: a longer key gives its prefix  *)
(* and its rest is set back to INIT until the peer has made the same cut.  *)
TransformCandidate(b, k, size) ==
  LET c == CandidateChecked(b)
  IN IF Splits(b, k, size)
       THEN MarkKey(CutPrefix(c, k, size), k, "INIT")
       ELSE GetKey(c, k, TRUE)

HalfKey(b, k, size) ==
  CASE ~Held(b, k)      -> Stop(b)
    [] Held(b, k) /\ KeyLen(b, k) > size -> CutPrefix(b, k, size)
    [] Held(b, k) /\ KeyLen(b, k) = size -> GetKey(b, k, TRUE)
    [] OTHER -> b

StoreSupplyKey(b, s, cells) ==
  LogAdd([b EXCEPT !.supply[s] = cells], Cardinality(cells))

(* Mutant: dec_keys hands the supply key out and leaves it in the store.   *)
GetSupplyKeyPeeks(b, s) == b

GetSupplyKey(b, s) ==
  IF b.supply[s] = {} THEN b
  ELSE LogSub([b EXCEPT !.supply[s] = {}], Cardinality(b.supply[s]))
=============================================================================
