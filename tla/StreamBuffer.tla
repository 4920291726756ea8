---------------------------- MODULE StreamBuffer ----------------------------
(***************************************************************************)
(* The stream buffer of an ETSI 004 association at one KMS: fills reserve  *)
(* keys and pour them in when the peer has accepted them (the side that    *)
(* asks), or pour them in at once (the side that is asked), in any order;  *)
(* GET_KEY takes complete chunks.                                          *)
(***************************************************************************)
EXTENDS StreamCore

VARIABLES
  stream,   \* stre_buffer of the association
  used,     \* the keys that have entered it
  poured,   \* history: the units poured in, in order
  taken     \* history: the chunks given out with their index

streamVars == <<stream, used, poured, taken>>

StreamInit ==
  /\ stream = EmptyStream
  /\ used = {}
  /\ poured = <<>>
  /\ taken = <<>>

Working == ~stream.failed

(* Fill: the key is taken from the QBuffer and waits for the answer.       *)
FillReserves(k) ==
  /\ Working /\ k \notin used
  /\ stream' = ReserveStreamKey(stream, k)
  /\ used' = used \cup {k}
  /\ UNCHANGED <<poured, taken>>

(* ProcessFillResponse: the peer has accepted a reserved key.              *)
FillAccepted(k) ==
  /\ Working /\ k \in stream.reserved
  /\ stream' = AcceptStreamKey(stream, k)
  /\ poured' = poured \o Material(k)
  /\ UNCHANGED <<used, taken>>

(* ProcessFillResponse: the peer has not listed a reserved key.            *)
FillUnlisted(k) ==
  /\ Working /\ k \in stream.reserved
  /\ stream' = DiscardStreamKey(stream, k)
  /\ UNCHANGED <<used, poured, taken>>

(* ProcessFillRequest at the side that is asked.                           *)
FillAsked(k) ==
  /\ Working /\ k \notin used
  /\ stream' = InsertKeyToStreamSession(stream, k)
  /\ used' = used \cup {k}
  /\ poured' = poured \o Material(k)
  /\ UNCHANGED taken

HasStreamKey == GetStreamKeyCount(stream) > 0

(* GET_KEY is answered only from a buffer with a complete chunk.           *)
GetStreamKey004 ==
  /\ Working /\ HasStreamKey
  /\ taken' = Append(taken, [index |-> GetNextIndex(stream), key |-> stream.chunks[FirstOf(stream)]])
  /\ stream' = GetStreamKey(stream)
  /\ UNCHANGED <<used, poured>>

StreamNext ==
  \/ \E k \in KeyIds : FillReserves(k) \/ FillAccepted(k) \/ FillUnlisted(k) \/ FillAsked(k)
  \/ GetStreamKey004

StreamSpec == StreamInit /\ [][StreamNext]_streamVars

-----------------------------------------------------------------------------
(* Properties                                                              *)

(* Types, and LogUpdate's assertion never fails: the account is exactly the*)
(* material of the chunks whatever way it was cut (s-buffer.cc:281).       *)
StreamTypeOK ==
  /\ stream.reserved \in SUBSET KeyIds /\ used \in SUBSET KeyIds
  /\ stream.last \in Nat /\ stream.bits \in Nat /\ stream.nrKeys \in Nat /\ stream.nrBits \in Nat
  /\ Indexes(stream) \subseteq Nat
  /\ stream.begun \in BOOLEAN
  /\ ~stream.failed

(* No unit is lost or doubled between the fills and the chunks: what was   *)
(* given out, then what the buffer holds by index, are the pieces of what  *)
(* was poured in, in order, the last of which may be short.                *)
Cut(i) == IF i < Len(taken) THEN taken[i + 1].key ELSE stream.chunks[i]

NothingLost ==
  /\ StreamTypeOK
  /\ LET n == PieceCount(Len(poured))
     IN /\ Indexes(stream) = Len(taken) .. n - 1
        /\ \A i \in 0 .. n - 1 : Cut(i) = PieceAt(poured, i)

(* The buffer gives out the stream ChunkedStream describes, in particular  *)
(* "the next refill starts at last + 1" after the buffer ran empty         *)
(* (README.md:1000).                                                       *)
Abstract == INSTANCE ChunkedStream WITH Unit <- KeyIds \X Nat, tape <- poured, given <- taken

IsChunkedStream == Abstract!Spec
=============================================================================
