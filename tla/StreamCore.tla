----------------------------- MODULE StreamCore -----------------------------
(***************************************************************************)
(* The operations of a STREAM SBuffer (model/s-buffer.cc), the store of one*)
(* ETSI 004 key stream, as operators from a buffer to a buffer.  Keys that *)
(* a fill has reserved wait in m_keys; accepted keys are poured into       *)
(* m_stream_keys, which cuts them into numbered chunks of Chunk units.     *)
(***************************************************************************)
EXTENDS Naturals, Sequences, FiniteSets, FiniteSetsExt

CONSTANTS
  KeyIds,      \* identifiers of the keys of the link
  Units,       \* length of each key, in units
  Chunk        \* GetKeySize of the buffer: Key_chunk_size, in units

ASSUME StreamAssumption ==
  /\ IsFiniteSet(KeyIds)
  /\ Units \in [KeyIds -> Nat \ {0}]
  /\ Chunk \in Nat \ {0}

(* The material of a key, unit by unit.                                    *)
Material(k) == [i \in 1 .. Units[k] |-> <<k, i>>]

EmptyStream ==
  [ reserved |-> {},      \* m_keys: all INIT
    nrKeys   |-> 0,       \* m_notReadyKeyCount
    nrBits   |-> 0,       \* m_notReadyBitCount
    chunks   |-> <<>>,    \* m_stream_keys: a function from indexes to units
    last     |-> 0,       \* m_currentStreamIndex
    begun    |-> FALSE,   \* m_streamIndexInitialized
    bits     |-> 0,       \* m_currentKeyBit
    failed   |-> FALSE ]

Indexes(b)  == DOMAIN b.chunks
LastOf(b)   == CHOOSE i \in Indexes(b) : \A j \in Indexes(b) : j <= i
FirstOf(b)  == CHOOSE i \in Indexes(b) : \A j \in Indexes(b) : i <= j

(* The last chunk still waits for units.                                   *)
Short(b) == Indexes(b) # {} /\ Len(b.chunks[LastOf(b)]) # Chunk

(* The chunks that can be given out.                                       *)
GetStreamKeyCount(b) ==
  IF Short(b) THEN Cardinality(Indexes(b)) - 1 ELSE Cardinality(Indexes(b))

(* 0 stands for "no chunk" as well as for the first one.                   *)
GetNextIndex(b) == IF Indexes(b) = {} THEN 0 ELSE FirstOf(b)

-----------------------------------------------------------------------------
(* LogUpdate: move m_currentKeyBit and assert it is what the stores hold.  *)

(* The units of the chunks, each with the index of its chunk.              *)
ChunkUnits(b) == UNION {{i} \X DOMAIN b.chunks[i] : i \in Indexes(b)}

StreamAmount(b) == Cardinality(ChunkUnits(b))

StopStream(b) == [b EXCEPT !.failed = TRUE]

StreamAdd(b, n) ==
  [b EXCEPT !.bits = @ + n, !.failed = @ \/ b.bits + n # StreamAmount(b)]

StreamSub(b, n) ==
  LET left == IF n > b.bits THEN b.bits ELSE b.bits - n
  IN [b EXCEPT !.bits = left, !.failed = @ \/ left # StreamAmount(b)]

(* Fill: StoreKey and MarkKey(INIT); the account ends where it was.        *)
ReserveStreamKey(b, k) ==
  [b EXCEPT !.reserved = @ \cup {k}, !.nrKeys = @ + 1, !.nrBits = @ + Units[k]]

(* MarkKey(OBSOLETE) of a reserved key.                                    *)
DiscardStreamKey(b, k) ==
  IF k \in b.reserved /\ b.nrKeys > 0 /\ b.nrBits >= Units[k]
    THEN [b EXCEPT !.reserved = @ \ {k}, !.nrKeys = @ - 1, !.nrBits = @ - Units[k]]
    ELSE StopStream(b)

-----------------------------------------------------------------------------
(* InsertKeyToStreamSession: complete the short chunk first, then cut the  *)
(* rest of the key into chunks, the last of which may be short again.      *)

(* Mutant: an empty buffer starts at the last index it gave (the defect the*)
(* comment at s-buffer.cc:559 tells of).                                   *)
StartReused(b) ==
  CASE Indexes(b) = {} -> b.last
    [] Short(b)        -> LastOf(b)
    [] OTHER           -> LastOf(b) + 1

StartIndex(b) ==
  CASE Indexes(b) = {} -> IF b.begun THEN b.last + 1 ELSE 0
    [] Short(b)        -> LastOf(b)
    [] OTHER           -> LastOf(b) + 1

(* Mutant: the key is put in front of what the short chunk holds.          *)
TextBackwards(b, cells) == IF Short(b) THEN cells \o b.chunks[LastOf(b)] ELSE cells

Text(b, cells) == IF Short(b) THEN b.chunks[LastOf(b)] \o cells ELSE cells

PieceCount(n) == (n + Chunk - 1) \div Chunk

PieceAt(text, i) ==
  SubSeq(text, i * Chunk + 1,
         IF (i + 1) * Chunk < Len(text) THEN (i + 1) * Chunk ELSE Len(text))

InsertKeyToStreamSession(b, k) ==
  LET text  == Text(b, Material(k))
      start == StartIndex(b)
      end   == start + PieceCount(Len(text)) - 1
  IN StreamAdd(
       [b EXCEPT !.chunks = [i \in Indexes(b) \cup start .. end |->
                               IF i < start THEN b.chunks[i] ELSE PieceAt(text, i - start)],
                 !.last = end,
                 !.begun = TRUE],
       Units[k])

(* GetKey(keyId, false), READY, and into the stream.  The two not-ready    *)
(* counters keep the key.                                                  *)
AcceptStreamKey(b, k) ==
  IF k \in b.reserved THEN InsertKeyToStreamSession([b EXCEPT !.reserved = @ \ {k}], k)
                      ELSE StopStream(b)

(* GetStreamKey: the chunk of the lowest index leaves the buffer, a short  *)
(* one too.                                                                *)
DropChunk(b) ==
  StreamSub([b EXCEPT !.chunks = [i \in Indexes(b) \ {FirstOf(b)} |-> b.chunks[i]]],
            Len(b.chunks[FirstOf(b)]))

GetStreamKey(b) == IF Indexes(b) = {} THEN b ELSE DropChunk(b)
=============================================================================
