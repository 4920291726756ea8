------------------------------ MODULE SBuffer ------------------------------
(***************************************************************************)
(* One SBuffer of a key management system, driven by the calls the KMS     *)
(* makes on it (model/qkd-key-manager-system-application.cc):              *)
(*                                                                         *)
(*   "enc"    LOCAL buffer that serves: filled by Fill or a FILL request,  *)
(*            emptied by GetTransformCandidate and, by size, by Relay      *)
(*   "dec"    LOCAL buffer that follows the peer's "enc": emptied by id,   *)
(*            by GetHalfKey, and through the supply keys                   *)
(*   "relay"  RELAY buffer: m_keys_enc and m_keys_dec hold the same object,*)
(*            so that both sets of calls reach it                          *)
(*                                                                         *)
(* `loose' is the material the KMS has taken out and is still merging,     *)
(* `served' what left for an application or a neighbour, `pending' the ids *)
(* the KMS put in INIT itself and still waits on.                          *)
(***************************************************************************)
EXTENDS SBufferCore

CONSTANTS
  Kind,        \* "enc", "dec" or "relay"
  DefaultLen,  \* GetKeySize(): every key that is stored has this length
  MaxLeak      \* bound on the rejected keys that stay in the counters

ASSUME KindAssumption       == Kind \in {"enc", "dec", "relay"}
ASSUME DefaultLenAssumption == DefaultLen \in 1 .. MaxLen
ASSUME MaxLeakAssumption    == MaxLeak \in Nat

VARIABLES
  buf,      \* the buffer
  pending,  \* keys reserved by Fill/Relay or split by a transform
  used,     \* ids that gave material away: they are not stored again
  loose,    \* material taken out, not yet part of a supply key
  served    \* material handed over

vars == <<buf, pending, used, loose, served>>

Serves  == Kind \in {"enc", "relay"}
Follows == Kind \in {"dec", "relay"}

Init ==
  /\ buf = EmptyBuffer
  /\ pending = {}
  /\ used = {}
  /\ loose = {}
  /\ served = {}

Running == ~buf.failed

Fresh(k) == buf.st[k] = "NONE" /\ k \notin used

-----------------------------------------------------------------------------
(* A FILL request at the peer, or the last hop of a relay, stores a key    *)
(* that is usable at once; a refused key goes back to the QBuffer.         *)
Receive(k) ==
  /\ Running /\ Fresh(k)
  /\ buf' = IF Fits(buf, DefaultLen)
              THEN MarkKey(StoreKey(buf, k, DefaultLen), k, "READY")
              ELSE buf
  /\ UNCHANGED <<pending, used, loose, served>>

(* Fill and Relay store a key and set it to INIT until the peer answers.   *)
(* They stop before a key that would not fit.                              *)
Reserve(k) ==
  /\ Running /\ Fresh(k)
  /\ Fits(buf, DefaultLen)
  /\ buf' = MarkKey(StoreKey(buf, k, DefaultLen), k, "INIT")
  /\ pending' = pending \cup {k}
  /\ UNCHANGED <<used, loose, served>>

(* The answer that accepts: FILL, RELAY or, for a split key, SKEY_CREATE.  *)
Confirm(k) ==
  /\ Running /\ k \in pending
  /\ buf' = MarkKey(buf, k, "READY")
  /\ pending' = pending \ {k}
  /\ UNCHANGED <<used, loose, served>>

(* A key the FILL answer does not list, a failed relay, or the watchdog.   *)
Discard(k) ==
  /\ Running /\ k \in pending \ used
  /\ buf' = MarkKey(buf, k, "OBSOLETE")
  /\ pending' = pending \ {k}
  /\ used' = used \cup {k}
  /\ UNCHANGED <<loose, served>>

(* A key the FILL answer rejects goes back to the QBuffer: the key leaves  *)
(* without its traces, and the not-ready counters keep counting it.        *)
Reject(k) ==
  /\ Running /\ k \in pending \ used
  /\ buf.nrKeys < Cardinality(NotReadyKeys(buf)) + MaxLeak
  /\ buf' = GetKey(buf, k, FALSE)
  /\ pending' = pending \ {k}
  /\ UNCHANGED <<used, loose, served>>

(* GetKey(size), first READY key of the default size: the one-time pad of  *)
(* a relay hop.                                                            *)
TakeDefault(k) ==
  /\ Running /\ Serves
  /\ buf.st[k] = "READY" /\ KeyLen(buf, k) = DefaultLen
  /\ buf' = GetKey(buf, k, TRUE)
  /\ used' = used \cup {k}
  /\ served' = served \cup KeyCells(buf, k)
  /\ UNCHANGED <<pending, loose>>

(* GetKey(id): a relay request or a SKEY_CREATE names a key the peer holds.*)
TakeById(k) ==
  /\ Running /\ Follows
  /\ buf.st[k] = "READY"
  /\ buf' = GetKey(buf, k, TRUE)
  /\ used' = used \cup {k}
  /\ loose' = loose \cup KeyCells(buf, k)
  /\ UNCHANGED <<pending, served>>

(* enc_keys: one candidate of the transform; it is served as it is merged. *)
Transform(size) ==
  /\ Running /\ Serves
  /\ \E k \in Candidates(buf, size) :
       /\ buf' = TransformCandidate(buf, k, size)
       /\ pending' = IF Splits(buf, k, size) THEN pending \cup {k} ELSE pending
       /\ used' = used \cup {k}
       /\ served' = served \cup CandidateCells(buf, k, size)
  /\ UNCHANGED loose

(* SKEY_CREATE: the last candidate is cut to the size that is missing.     *)
Cut(k, size) ==
  /\ Running /\ Follows
  /\ buf.st[k] = "READY" /\ size <= KeyLen(buf, k)
  /\ buf' = HalfKey(buf, k, size)
  /\ used' = used \cup {k}
  /\ loose' = loose \cup Prefix(buf, k, size)
  /\ UNCHANGED <<pending, served>>

(* SKEY_CREATE: a supply key made of the merged material.                  *)
StoreSupply(s) ==
  /\ Running /\ Follows
  /\ buf.supply[s] = {}
  /\ \E cells \in SUBSET loose \ {{}} :
       /\ buf' = StoreSupplyKey(buf, s, cells)
       /\ loose' = loose \ cells
  /\ UNCHANGED <<pending, used, served>>

(* dec_keys: the application fetches the supply key by its id.             *)
TakeSupply(s) ==
  /\ Running /\ Follows
  /\ buf.supply[s] # {}
  /\ buf' = GetSupplyKey(buf, s)
  /\ served' = served \cup buf.supply[s]
  /\ UNCHANGED <<pending, used, loose>>

Next ==
  \/ \E k \in KeyIds : \/ Receive(k) \/ Reserve(k) \/ Confirm(k)
                       \/ Discard(k) \/ Reject(k)
                       \/ TakeDefault(k) \/ TakeById(k)
                       \/ \E size \in 1 .. MaxLen : Cut(k, size)
  \/ \E size \in 0 .. MaxLen : Transform(size)
  \/ \E s \in SupplyIds : StoreSupply(s) \/ TakeSupply(s)

Spec == Init /\ [][Next]_vars

-----------------------------------------------------------------------------
(* Properties                                                              *)

(* The state of the buffer and of the KMS's bookkeeping is well formed.    *)
TypeOK ==
  /\ buf \in Buffer
  /\ pending \subseteq KeyIds
  /\ used \subseteq KeyIds
  /\ loose \subseteq Cell
  /\ served \subseteq Cell

(* m_currentKeyBit is the READY material of the stores after any sequence  *)
(* of calls: what SBuffer::LogUpdate asserts after every change.           *)
Accounting == buf.bits = ReadyAmount(buf)

(* The not-ready counters never fall below the keys that are not READY, so *)
(* the two NS_FATAL_ERRORs of MarkKey about them cannot fire.              *)
NotReadyCovered ==
  /\ buf.nrKeys >= Cardinality(NotReadyKeys(buf))
  /\ buf.nrBits >= Cardinality(NotReadyCells(buf))

(* No sequence of the KMS's calls stops the program, with one exception:   *)
(* the RELAY buffer, while it holds a supply key nobody has fetched (see   *)
(* CandidateAssertHolds).                                                  *)
NoFailure == buf.failed => Kind = "relay" /\ \E s \in SupplyIds : buf.supply[s] # {}

(* No unit of key material is used twice: what was served is no longer in  *)
(* a key or a supply key, whatever was split, merged or discarded between. *)
NoReuse ==
  LET inKeys   == {c \in Cell : /\ Held(buf, c[1])
                                /\ buf.lo[c[1]] < c[2] /\ c[2] <= buf.hi[c[1]]}
      inSupply == UNION {buf.supply[s] : s \in SupplyIds}
  IN /\ (inKeys \cup inSupply \cup loose) \cap served = {}
     /\ inKeys \cap (inSupply \cup loose) = {}
     /\ \A s, t \in SupplyIds : s # t => buf.supply[s] \cap buf.supply[t] = {}

(* The NS_ASSERT of GetTransformCandidate, for every buffer it is called   *)
(* on, whenever the call can come.  It fails on a RELAY buffer that holds a*)
(* supply key.                                                             *)
CandidateAssertHolds ==
  Serves /\ Running => buf.bits = Cardinality(ReadyCells(buf))
=============================================================================
