------------------------------ MODULE KmsLink ------------------------------
(***************************************************************************)
(* The two key management systems of one QKD link                          *)
(* (model/qkd-key-manager-system-application.cc): post-processing stores   *)
(* the same keys in the QBuffer of each; the master moves keys from the    *)
(* QBuffers to the LOCAL SBuffers with FILL; enc_keys at either side takes *)
(* material from "enc" and has the peer make the same cut in "dec" with    *)
(* SKEY_CREATE; dec_keys gives it out by id.                               *)
(*                                                                         *)
(* All KMS messages of one direction share one TCP connection, so that     *)
(* `net' is one FIFO per node, and a node maps an answer to its request by *)
(* position in m_httpRequestsQueryKMS.  Handlers run to the end: ns-3 is an*)
(* event loop.  Every key has the default size of the link, MaxLen units.  *)
(***************************************************************************)
EXTENDS SBufferCore, Sequences, FiniteSetsExt

CONSTANTS
  Mthr,        \* threshold of the SBuffers: READY at or above
  QMin, QMax,  \* m_minKeyBit and m_maxKeyBit of the QBuffers
  Requests,    \* the enc_keys requests: records of a number and a size
  MaxPending   \* bound: keys a buffer may count as not READY when a call comes

ASSUME LinkAssumption ==
  /\ Mthr \in 1 .. Mmax /\ QMin \in Nat /\ QMax \in Nat
  /\ Requests \subseteq [number : Nat \ {0}, size : Nat \ {0}]
  /\ MaxPending \in Nat

Node == {"A", "B"}
Master == "A"                      \* the higher node id
Peer(n) == IF n = "A" THEN "B" ELSE "A"
Dir == {"enc", "dec"}
Other(d) == IF d = "enc" THEN "dec" ELSE "enc"

VARIABLES
  stored,   \* keys the QKD module has pushed to each KMS
  q,        \* QBuffer of each KMS: its keys and m_currentKeyBit
  sb,       \* SBuffers of each KMS
  net,      \* messages on the way to each KMS
  query,    \* m_httpRequestsQueryKMS of each KMS, for its peer
  served,   \* material given by enc_keys, by key_ID
  fetched   \* material given by dec_keys, by key_ID

vars == <<stored, q, sb, net, query, served, fetched>>

Init ==
  /\ stored = [n \in Node |-> {}]
  /\ q = [n \in Node |-> [keys |-> {}, bits |-> 0]]
  /\ sb = [n \in Node |-> [d \in Dir |-> EmptyBuffer]]
  /\ net = [n \in Node |-> <<>>]
  /\ query = [n \in Node |-> <<>>]
  /\ served = [n \in Node |-> [s \in SupplyIds |-> {}]]
  /\ fetched = [n \in Node |-> [s \in SupplyIds |-> {}]]

Running(n) == \A d \in Dir : ~sb[n][d].failed

(* Bound on the calls from outside.                                        *)
Calm == \A n \in Node, d \in Dir : sb[n][d].nrKeys <= MaxPending

Few(a, b) == IF a < b THEN a ELSE b

-----------------------------------------------------------------------------
(* QBuffer: StoreKey and GetKey with and without LogUpdate.                *)

QFits(s) == s.bits + MaxLen <= QMax

QStore(s, k, logged) ==
  IF QFits(s) THEN [keys |-> s.keys \cup {k},
                    bits |-> IF logged THEN s.bits + MaxLen ELSE s.bits]
              ELSE s

(* Mutant: the key is copied and stays in the QBuffer.                     *)
QTakePeeks(s, ks) == [keys |-> s.keys, bits |-> s.bits - MaxLen * Cardinality(ks)]

QTake(s, ks) == [keys |-> s.keys \ ks, bits |-> s.bits - MaxLen * Cardinality(ks)]

(* A set of keys through one operation of a buffer.                        *)
Each(op(_, _), b, ks) == FoldSet(LAMBDA k, c : op(c, k), b, ks)

-----------------------------------------------------------------------------
(* The master: SBufferClientCheck and Fill.                                *)

Demand(b) == Mmax - b.bits

(* Both demands shrink by five per cent until they fit the QBuffer.        *)
Wants == [enc : Nat, dec : Nat, avail : Nat]

Shrunk[w \in Wants] ==
  IF w.enc + w.dec <= w.avail THEN w
  ELSE Shrunk[[enc |-> (19 * w.enc) \div 20, dec |-> (19 * w.dec) \div 20, avail |-> w.avail]]

(* Mutant: the QBuffer is not asked what it has.                           *)
DemandsUncapped(e, d, avail) ==
  [enc |-> IF e.bits < Mthr THEN Demand(e) ELSE 0,
   dec |-> IF d.bits < Mthr THEN Demand(d) ELSE 0]

Demands(e, d, avail) ==
  IF e.bits < Mthr /\ d.bits < Mthr THEN Shrunk[[enc |-> Demand(e), dec |-> Demand(d), avail |-> avail]]
  ELSE [enc |-> IF e.bits < Mthr THEN Few(Demand(e), avail) ELSE 0,
        dec |-> IF d.bits < Mthr THEN Few(Demand(d), avail) ELSE 0]

(* How many keys Fill takes for the amount: keys it reserves are INIT and  *)
(* do not count against the capacity.                                      *)
FillCount(b, amount) == IF Fits(b, MaxLen) THEN amount \div MaxLen ELSE 0

(* Mutant: the key can be served before the peer has answered.             *)
ReserveReadyKey(b, k) == StoreKey(b, k, MaxLen)

ReserveKey(b, k) == MarkKey(StoreKey(b, k, MaxLen), k, "INIT")

FillRequest(d, ks) == IF ks = {} THEN <<>> ELSE <<[type |-> "fill", dir |-> d, keys |-> ks]>>

(* The states SBufferClientCheck may leave: the keys are random ones.      *)
Checks(bufs, s) ==
  IF s.bits <= QMin THEN {[sb |-> bufs, q |-> s, asks |-> <<>>]}
  ELSE LET want == Demands(bufs["enc"], bufs["dec"], s.bits - QMin)
           picks == {p \in [Dir -> SUBSET s.keys] :
                       /\ p["enc"] \cap p["dec"] = {}
                       /\ \A d \in Dir : Cardinality(p[d]) = FillCount(bufs[d], want[d])}
       IN IF picks = {}
            THEN {[sb |-> [bufs EXCEPT !["enc"] = Stop(@)], q |-> s, asks |-> <<>>]}
            ELSE {[sb |-> [d \in Dir |-> Each(ReserveKey, bufs[d], p[d])],
                   q |-> QTake(s, p["enc"] \cup p["dec"]),
                   asks |-> FillRequest("enc", p["enc"]) \o FillRequest("dec", p["dec"])]
                  : p \in picks}

(* A step of node n that ends in `bufs' and `s', has sent `asks', and ends *)
(* in SBufferClientCheck if n is the master.                               *)
Finish(n, bufs, s, asks) ==
  \E r \in IF n = Master THEN Checks(bufs, s)
                         ELSE {[sb |-> bufs, q |-> s, asks |-> <<>>]} :
    /\ sb' = [sb EXCEPT ![n] = r.sb]
    /\ q' = [q EXCEPT ![n] = r.q]
    /\ net' = [net EXCEPT ![Peer(n)] = @ \o asks \o r.asks]
    /\ query' = [query EXCEPT ![n] = @ \o asks \o r.asks]

(* STORE_KEY: the QKD module of the link pushes a key to its KMS.          *)
StoreKeyRequest(n, k) ==
  /\ Running(n) /\ Calm /\ k \notin stored[n]
  /\ stored' = [stored EXCEPT ![n] = @ \cup {k}]
  /\ Finish(n, sb[n], QStore(q[n], k, TRUE), <<>>)
  /\ UNCHANGED <<served, fetched>>

-----------------------------------------------------------------------------
(* enc_keys: merge candidates until the size asked is there.               *)

Bytes(b, k, n) == [i \in 1 .. n |-> <<k, b.lo[k] + i>>]

Ask(t) == IF t <= MaxLen THEN t ELSE 0

(* The ways to merge w.need units out of buffer w.buf: what the buffer     *)
(* becomes, the candidates in order, the units in order, and the split key,*)
(* if any.                                                                 *)
Amounts == [need : Nat, buf : Buffer]

With(k, cells, m) ==
  [buf |-> m.buf, ids |-> <<k>> \o m.ids, cells |-> cells \o m.cells, surplus |-> m.surplus]

Merge[w \in Amounts] ==
  LET b == w.buf
      t == Ask(w.need)
  IN IF Candidates(b, t) = {}
       THEN {[buf |-> Stop(b), ids |-> <<>>, cells |-> <<>>, surplus |-> {}]}
       ELSE UNION {
         LET n == Cardinality(CandidateCells(b, k, t))
             c == TransformCandidate(b, k, t)
         IN IF n >= w.need
              THEN {[buf |-> c, ids |-> <<k>>, cells |-> Bytes(b, k, n),
                     surplus |-> IF Splits(b, k, t) THEN {k} ELSE {}]}
              ELSE {With(k, Bytes(b, k, n), m) : m \in Merge[[need |-> w.need - n, buf |-> c]]}
         : k \in Candidates(b, t)}

(* The piece of the merged key that supply key i gets.                     *)
Piece(cells, size, i) == {cells[j] : j \in (i - 1) * size + 1 .. i * size}

(* Distinct fresh identifiers, the result of GenerateUUID.                 *)
Uuids(number) ==
  {ids \in [1 .. number -> {s \in SupplyIds : \A n \in Node : served[n][s] = {}}] :
     \A i, j \in 1 .. number : ids[i] = ids[j] => i = j}

Servable(n, r) == r.number * r.size <= GetSBitCount(sb[n]["enc"])

EncKeys(n, r) ==
  /\ Running(n) /\ Calm /\ Servable(n, r)
  /\ \E m \in Merge[[need |-> r.number * r.size, buf |-> sb[n]["enc"]]], ids \in Uuids(r.number) :
       /\ served' = [served EXCEPT ![n] = [s \in SupplyIds |->
            IF \E i \in DOMAIN ids : ids[i] = s
              THEN Piece(m.cells, r.size, CHOOSE i \in DOMAIN ids : ids[i] = s)
              ELSE @[s]]]
       /\ Finish(n, [sb[n] EXCEPT !["enc"] = m.buf], q[n],
                 <<[type |-> "skey", ids |-> m.ids, supply |-> ids, size |-> r.size,
                    surplus |-> m.surplus]>>)
  /\ UNCHANGED <<stored, fetched>>

(* A request that cannot be served is answered 400; the master checks its  *)
(* buffers all the same.                                                   *)
EncKeysRefused(n, r) ==
  /\ Running(n) /\ Calm /\ ~Servable(n, r)
  /\ Finish(n, sb[n], q[n], <<>>)
  /\ UNCHANGED <<stored, served, fetched>>

(* dec_keys: all the keys, or 400 and the keys that were there are lost.   *)
DecKeys(n, ids) ==
  /\ Running(n)
  /\ LET d == sb[n]["dec"]
     IN /\ sb' = [sb EXCEPT ![n]["dec"] = Each(GetSupplyKey, d, ids)]
        /\ fetched' = [fetched EXCEPT ![n] = [s \in SupplyIds |->
             IF s \in ids /\ \A t \in ids : d.supply[t] # {} THEN d.supply[s] ELSE @[s]]]
  /\ UNCHANGED <<stored, q, net, query, served>>

-----------------------------------------------------------------------------
(* Messages between the two KMSs.                                          *)

Received(n, type) ==
  /\ Running(n) /\ net[n] # <<>> /\ Head(net[n]).type = type

(* Mutant: an answer is sent ahead of what was sent before.                *)
AnswerFirst(n, m) ==
  net' = [net EXCEPT ![n] = Tail(@), ![Peer(n)] = <<m>> \o @]

Answer(n, m) ==
  net' = [net EXCEPT ![n] = Tail(@), ![Peer(n)] = Append(@, m)]

(* ProcessFillRequest: keys this KMS does not hold are not listed; those   *)
(* that do not fit go back to the QBuffer and are rejected.                *)
AcceptKey(b, k) == MarkKey(StoreKey(b, k, MaxLen), k, "READY")

ProcessFillRequest(n) ==
  /\ Received(n, "fill")
  /\ LET r == Head(net[n])
         d == Other(r.dir)
         found == r.keys \cap q[n].keys
         room == IF Fits(sb[n][d], 0) THEN Demand(sb[n][d]) \div MaxLen ELSE 0
     IN \E taken \in kSubset(Few(Cardinality(found), room), found) :
          /\ sb' = [sb EXCEPT ![n][d] = Each(AcceptKey, @, taken)]
          /\ q' = [q EXCEPT ![n] = QTake(@, taken)]
          /\ Answer(n, [type |-> "filled", accepted |-> taken, rejected |-> found \ taken])
  /\ UNCHANGED <<stored, query, served, fetched>>

(* ProcessFillResponse: drop the queries before the first FILL, take it,   *)
(* and settle its keys: accepted, rejected, and those not listed.          *)
FillQueries(qs) == {i \in DOMAIN qs : qs[i].type = "fill"}

ConfirmKey(b, k) == MarkKey(b, k, "READY")
ReturnKey(b, k)  == GetKey(b, k, FALSE)
DiscardKey(b, k) == MarkKey(b, k, "OBSOLETE")

(* A rejected key returns to the QBuffer, if it fits, and is not counted.  *)
PutBack(s, k) == QStore(s, k, FALSE)

Settled(b, r, a) ==
  Each(DiscardKey,
       Each(ReturnKey, Each(ConfirmKey, b, a.accepted), a.rejected),
       r.keys \ (a.accepted \cup a.rejected))

ProcessFillResponse(n) ==
  /\ Received(n, "filled")
  /\ LET a == Head(net[n])
         first == Min(FillQueries(query[n]))
         r == query[n][first]
     IN IF FillQueries(query[n]) = {} \/ ~(a.accepted \cup a.rejected \subseteq r.keys)
          THEN /\ sb' = [sb EXCEPT ![n]["enc"] = Stop(@)]
               /\ UNCHANGED <<q, query>>
          ELSE /\ sb' = [sb EXCEPT ![n][r.dir] = Settled(@, r, a)]
               /\ q' = [q EXCEPT ![n] = Each(PutBack, @, a.rejected)]
               /\ query' = [query EXCEPT ![n] = SubSeq(@, first + 1, Len(@))]
  /\ net' = [net EXCEPT ![n] = Tail(@)]
  /\ UNCHANGED <<stored, served, fetched>>

(* ProcessSKeyCreateRequest: take the candidates out of "dec" in order, the*)
(* last one cut to what is missing.                                        *)
TakeWhole(p, k) ==
  [buf |-> IF Held(p.buf, k) THEN GetKey(p.buf, k, TRUE) ELSE Stop(p.buf),
   cells |-> p.cells \o Bytes(p.buf, k, KeyLen(p.buf, k))]

TakeHalf(p, k, n) ==
  [buf |-> IF n <= KeyLen(p.buf, k) THEN HalfKey(p.buf, k, n) ELSE Stop(p.buf),
   cells |-> p.cells \o Bytes(p.buf, k, n)]

Taken(b, ids, total) ==
  LET part[i \in 0 .. Len(ids)] ==
        IF i = 0 THEN [buf |-> b, cells |-> <<>>]
        ELSE IF i < Len(ids) THEN TakeWhole(part[i - 1], ids[i])
        ELSE TakeHalf(part[i - 1], ids[i], total - Len(part[i - 1].cells))
  IN part[Len(ids)]

(* Mutant: the pieces are given to the identifiers in the other order.     *)
WithSupplyBackwards(p, ids, size) ==
  LET part[i \in 0 .. Len(ids)] ==
        IF i = 0 THEN p.buf
        ELSE StoreSupplyKey(part[i - 1], ids[i], Piece(p.cells, size, Len(ids) + 1 - i))
  IN part[Len(ids)]

WithSupply(p, ids, size) ==
  LET part[i \in 0 .. Len(ids)] ==
        IF i = 0 THEN p.buf
        ELSE StoreSupplyKey(part[i - 1], ids[i], Piece(p.cells, size, i))
  IN part[Len(ids)]

ProcessSKeyCreateRequest(n) ==
  /\ Received(n, "skey")
  /\ LET r == Head(net[n])
         p == Taken(sb[n]["dec"], r.ids, r.size * Len(r.supply))
     IN sb' = [sb EXCEPT ![n]["dec"] =
                 IF p.buf.failed THEN p.buf ELSE WithSupply(p, r.supply, r.size)]
  /\ Answer(n, [type |-> "created"])
  /\ UNCHANGED <<stored, q, query, served, fetched>>

(* ProcessSKeyCreateResponse: the rest of the split key is READY again.    *)
ProcessSKeyCreateResponse(n) ==
  /\ Received(n, "created")
  /\ IF query[n] = <<>> THEN UNCHANGED <<sb, query>>
     ELSE /\ sb' = [sb EXCEPT ![n]["enc"] = Each(ConfirmKey, @, Head(query[n]).surplus)]
          /\ query' = [query EXCEPT ![n] = Tail(@)]
  /\ net' = [net EXCEPT ![n] = Tail(@)]
  /\ UNCHANGED <<stored, q, served, fetched>>

Deliver ==
  \E n \in Node : \/ ProcessFillRequest(n) \/ ProcessFillResponse(n)
                  \/ ProcessSKeyCreateRequest(n) \/ ProcessSKeyCreateResponse(n)

Call ==
  \E n \in Node :
    \/ \E k \in KeyIds : StoreKeyRequest(n, k)
    \/ \E r \in Requests : EncKeys(n, r) \/ EncKeysRefused(n, r)
    \/ \E ids \in SUBSET {s \in SupplyIds : served[Peer(n)][s] # {}} : DecKeys(n, ids)

Next == Deliver \/ Call

Spec == Init /\ [][Next]_vars

-----------------------------------------------------------------------------
(* Properties                                                              *)

Message ==
  [type : {"fill"}, dir : Dir, keys : SUBSET KeyIds]
    \cup [type : {"filled"}, accepted : SUBSET KeyIds, rejected : SUBSET KeyIds]
    \cup [type : {"skey"}, ids : Seq(KeyIds), supply : Seq(SupplyIds), size : Nat,
          surplus : SUBSET KeyIds]
    \cup [type : {"created"}]

(* Both KMSs keep well-formed stores, and the QBuffer's account, which has *)
(* no guard against a decrement below zero, stays a natural number.        *)
TypeOK ==
  /\ stored \in [Node -> SUBSET KeyIds]
  /\ q \in [Node -> [keys : SUBSET KeyIds, bits : 0 .. QMax]]
  /\ sb \in [Node -> [Dir -> Buffer]]
  /\ \A n \in Node : net[n] \in Seq(Message) /\ query[n] \in Seq(Message)
  /\ served \in [Node -> [SupplyIds -> SUBSET Cell]]
  /\ fetched \in [Node -> [SupplyIds -> SUBSET Cell]]

(* Neither KMS is stopped by an assertion, a fatal error or a missing key, *)
(* nor leaves the types above.                                             *)
NoFailure == TypeOK /\ \A n \in Node : Running(n)

(* A key that may be served is at the peer as well, cut at the same place, *)
(* before it can be served: otherwise SKEY_CREATE would name material the  *)
(* peer does not have.                                                     *)
Mirror ==
  \A n \in Node, k \in KeyIds :
    LET e == sb[n]["enc"]  d == sb[Peer(n)]["dec"]
    IN e.st[k] = "READY" => Held(d, k) /\ d.lo[k] = e.lo[k] /\ d.hi[k] = e.hi[k]

(* The application at the peer gets by a key_ID what enc_keys gave for it. *)
KeysAgree ==
  \A n \in Node, s \in SupplyIds :
    fetched[n][s] \in {{}, served[Peer(n)][s]}

(* No unit of key material is served twice on the link.                    *)
ServedOnce ==
  \A m, n \in Node, s, t \in SupplyIds :
    <<m, s>> # <<n, t>> => served[m][s] \cap served[n][t] = {}

(* A key is reserved, or the rest of a split key withheld, only while an   *)
(* answer that settles it is expected: none is stuck when all is delivered.*)
ReservedAsked ==
  \A n \in Node, d \in Dir, k \in KeyIds :
    sb[n][d].st[k] = "INIT" =>
      \E i \in DOMAIN query[n] :
        LET r == query[n][i]
        IN IF r.type = "fill" THEN r.dir = d /\ k \in r.keys
                              ELSE d = "enc" /\ k \in r.surplus

(* Answers carry no number: each is mapped to the first query in the list. *)
(* For every query exactly one request or answer is on the way, and the    *)
(* answers on the way are those of the first queries, in order.            *)
Request(m) == m.type \in {"fill", "skey"}

(* Places of the requests and of the answers among the messages s, and the *)
(* rank of the place i among those of S.                                   *)
Asks(s)    == {i \in DOMAIN s : Request(s[i])}
Replies(s) == {i \in DOMAIN s : ~Request(s[i])}
Rank(S, i) == Cardinality({j \in S : j <= i})

Answers(m, r) ==
  IF r.type = "fill" THEN m.type = "filled" /\ m.accepted \cup m.rejected \subseteq r.keys
                     ELSE m.type = "created"

AnswersMatch ==
  ReservedAsked /\ \A n \in Node :
    LET got == net[n]
        sent == net[Peer(n)]
        answered == Cardinality(Replies(got))
    IN /\ Len(query[n]) = answered + Cardinality(Asks(sent))
       /\ \A i \in Replies(got) : Answers(got[i], query[n][Rank(Replies(got), i)])
       /\ \A i \in Asks(sent) : query[n][answered + Rank(Asks(sent), i)] = sent[i]

(* What Fill means to ensure: "To be sure that we not exceed capacity of   *)
(* S-Buffer!" (qkd-key-manager-system-application.cc:621).  The code does  *)
(* not: fills that overlap go beyond it.                                   *)
Capacity == \A n \in Node, d \in Dir : sb[n][d].bits <= Mmax
=============================================================================
