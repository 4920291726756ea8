------------------------------ MODULE KmsRelay ------------------------------
(***************************************************************************)
(* Trusted-node relay between the two ends of a path of KMSs, and the      *)
(* supply of applications from the RELAY SBuffers it fills                 *)
(* (model/qkd-key-manager-system-application.cc).  Relay takes LOCAL keys  *)
(* of the first link, reserves them in the RELAY buffer of the source and  *)
(* sends them hop by hop, each hop under a one-time pad of its own link,   *)
(* to the RELAY buffer of the destination.  The answer comes back along the*)
(* chain of proxies; a watchdog gives the attempt up after five seconds.   *)
(*                                                                         *)
(* The nodes are the positions 0 .. Hops of the path.  Every key has the   *)
(* default size, one unit here, and an application asks for one such key,  *)
(* so that no key is split.  A RELAY buffer is one object for both         *)
(* directions.  The LOCAL buffers are KmsLink's: here a key that is READY  *)
(* in "enc" of a link is in "dec" of its peer (KmsLink!Mirror).            *)
(***************************************************************************)
EXTENDS SBufferCore, Sequences, FiniteSetsExt

CONSTANTS
  Hops,        \* length of the path
  Serving,     \* the end whose applications call enc_keys, as a set
  Mthr,        \* threshold of the RELAY buffers
  Batch,       \* a relay moves at most that many keys (20 in the code)
  LateAnswers, \* may an answer take longer than the watchdog?
  MaxRelays,   \* bound: attempts of each end
  MaxLost      \* bound: connections broken

ASSUME RelayAssumption ==
  /\ Hops \in Nat /\ Hops >= 2 /\ Serving \in {{0}, {Hops}}
  /\ MaxLen = 1 /\ Mthr \in 1 .. Mmax /\ Batch \in Nat \ {0}
  /\ LateAnswers \in BOOLEAN /\ MaxRelays \in Nat /\ MaxLost \in Nat

Node == 0 .. Hops
End == {0, Hops}
Far(e) == Hops - e
NextHop(i, dst) == IF dst > i THEN i + 1 ELSE i - 1
Link == {l \in Node \X Node : l[1] = l[2] + 1 \/ l[2] = l[1] + 1}

VARIABLES
  relay,    \* RELAY buffer of each end, with the attempt it waits on
  enc,      \* READY keys of the LOCAL "enc" buffer of each link
  dec,      \* keys of the LOCAL "dec" buffer at the other side of the link
  proxy,    \* m_httpProxyRequests of each node
  query,    \* SKEY_CREATE queries in m_httpRequestsQueryKMS, by next hop
  net,      \* messages on the way, by link
  halted,   \* nodes stopped by a fatal error outside a buffer
  served,   \* material given by enc_keys, by key_ID
  fetched,  \* material given by dec_keys, by key_ID
  lost      \* connections broken so far

vars == <<relay, enc, dec, proxy, query, net, halted, served, fetched, lost>>

(* m_relayActive, m_pendingRelayKeyIds, m_relayGeneration and the          *)
(* generations whose RelayTimeoutCheck is scheduled.                       *)
Idle == [buf |-> EmptyBuffer, active |-> FALSE, pending |-> {}, gen |-> 0, timers |-> {}]

Init ==
  /\ relay = [e \in End |-> Idle]
  /\ enc = [l \in Link |-> {}]
  /\ dec = [l \in Link |-> {}]
  /\ proxy = [i \in Node |-> {}]
  /\ query = [l \in Link |-> <<>>]
  /\ net = [l \in Link |-> <<>>]
  /\ halted = {}
  /\ served = [e \in End |-> [s \in SupplyIds |-> {}]]
  /\ fetched = [e \in End |-> [s \in SupplyIds |-> {}]]
  /\ lost = 0

(* Keys leave the "enc" buffer of a link.                                  *)
TakePeeks(l, ks) == enc

Take(l, ks) == [enc EXCEPT ![l] = @ \ ks]

Running(i) == i \notin halted /\ (i \in End => ~relay[i].buf.failed)

Each(op(_, _), b, ks) == FoldSet(LAMBDA k, c : op(c, k), b, ks)

(* A LOCAL key becomes available on a link the relays use.                 *)
Seen(k) ==
  \/ \E l \in Link : k \in enc[l] \cup dec[l]
  \/ \E e \in End : Held(relay[e].buf, k)
  \/ \E l \in Link : \E i \in DOMAIN net[l] : net[l][i].type = "relay" /\ k \in net[l][i].keys
  \/ \E e \in End, s \in SupplyIds : <<k, 1>> \in served[e][s]

(* Only the links that carry the relays are supplied.                      *)
Used(l) == \E e \in Serving : l[2] = NextHop(l[1], Far(e)) /\ l[1] # Far(e)

LocalKey(l, k) ==
  /\ Used(l) /\ ~Seen(k)
  /\ enc' = [enc EXCEPT ![l] = @ \cup {k}]
  /\ dec' = [dec EXCEPT ![l] = @ \cup {k}]
  /\ UNCHANGED <<relay, proxy, query, net, halted, served, fetched, lost>>

-----------------------------------------------------------------------------
(* SBufferClientCheck of a RELAY buffer, and Relay.                        *)

Low(b) == b.bits < Mthr \/ GetSBitCount(b) < Mthr

(* The demand is unsigned: beyond the capacity it is larger than any cap.  *)
Amount(b, available) ==
  Min({Batch, available} \cup IF b.bits > Mmax THEN {} ELSE {Mmax - b.bits})

(* Mutant: the relayed keys are not reserved.                              *)
ReserveReadyKey(b, k) == StoreKey(b, k, 1)

ReserveKey(b, k) == MarkKey(StoreKey(b, k, 1), k, "INIT")

(* ++m_relayGeneration and the schedule of its RelayTimeoutCheck.          *)
(* Mutant: the check is scheduled for the generation before.               *)
WatchedBefore(x) == [x EXCEPT !.gen = @ + 1, !.timers = @ \cup {x.gen}]

WatchNext(x) == [x EXCEPT !.gen = @ + 1, !.timers = @ \cup {x.gen + 1}]

(* What the check makes of the state x of end e: the keys it relays.       *)
Relays(e, x) ==
  LET local == enc[<<e, NextHop(e, Far(e))>>]
      n == Amount(x.buf, Cardinality(local))
  IN IF x.active \/ n = 0 \/ ~Low(x.buf) THEN {[end |-> x, keys |-> {}]}
     ELSE {[end |-> [WatchNext(x) EXCEPT !.buf = Each(ReserveKey, @, ks),
                                         !.active = TRUE, !.pending = ks],
            keys |-> ks] : ks \in kSubset(n, local)}

(* A step of end e that leaves it in x, has sent `asks', and then checks   *)
(* the RELAY buffer.                                                       *)
Finish(e, x, asks) ==
  LET l == <<e, NextHop(e, Far(e))>>
  IN \E r \in Relays(e, x) :
       LET req == <<e, r.end.gen>>
           begin == IF r.keys = {} THEN <<>>
                    ELSE <<[type |-> "relay", req |-> req, keys |-> r.keys, pads |-> {}]>>
       IN /\ relay' = [relay EXCEPT ![e] = r.end]
          /\ enc' = Take(l, r.keys)
          /\ net' = [net EXCEPT ![l] = @ \o asks \o begin]
          /\ proxy' = [proxy EXCEPT ![e] = IF r.keys = {} THEN @
                         ELSE @ \cup {[req |-> req, prev |-> e, keys |-> r.keys]}]

(* RelayTimeoutCheck(generation).                                          *)
OnTheWay(req) ==
  \E l \in Link : \E i \in DOMAIN net[l] :
    net[l][i].type \in {"relay", "relayed"} /\ net[l][i].req = req

(* Mutant: the check of an earlier attempt gives up the current one.       *)
CurrentAnyGeneration(e, g) == relay[e].active

Current(e, g) == relay[e].gen = g /\ relay[e].active

(* Mutant: the keys of a failed attempt stay reserved.                     *)
DiscardKeeps(b, k) == b

DiscardKey(b, k) == MarkKey(b, k, "OBSOLETE")
ConfirmKey(b, k) == MarkKey(b, k, "READY")

RelayTimeoutCheck(e, g) ==
  /\ Running(e) /\ g \in relay[e].timers
  /\ LateAnswers \/ ~Current(e, g) \/ ~OnTheWay(<<e, g>>)
  /\ LET x == relay[e]
         y == IF Current(e, g)
                THEN [buf |-> Each(DiscardKey, x.buf, x.pending), active |-> FALSE,
                      pending |-> {}, gen |-> g, timers |-> x.timers \ {g}]
                ELSE [x EXCEPT !.timers = @ \ {g}]
     IN relay' = [relay EXCEPT ![e] = y]
  /\ UNCHANGED <<enc, dec, proxy, query, net, halted, served, fetched, lost>>

-----------------------------------------------------------------------------
(* Messages.                                                               *)

Received(i, j, type) ==
  /\ Running(j) /\ net[<<i, j>>] # <<>> /\ Head(net[<<i, j>>]).type = type

(* Node j takes the message from i and sends m to k.                       *)
Passed(i, j, k, m) ==
  [net EXCEPT ![<<i, j>>] = Tail(@), ![<<j, k>>] = Append(@, m)]

Reply(r, ok) == [type |-> "relayed", req |-> r.req, ok |-> ok]

(* ProcessRelayRequest: the first hop takes the relayed keys from "dec",   *)
(* the others the pads that decrypt them.                                  *)
Opens(r) == IF r.pads = {} THEN r.keys ELSE r.pads

Opened(i, j, r) == Opens(r) \subseteq dec[<<i, j>>]

ProcessRelayRequest(i, j) ==
  /\ Received(i, j, "relay")
  /\ LET r == Head(net[<<i, j>>])
         dst == Far(r.req[1])
         out == <<j, NextHop(j, dst)>>
         n == Cardinality(r.keys)
     IN /\ dec' = [dec EXCEPT ![<<i, j>>] = @ \ Opens(r)]
        /\ \/ /\ ~Opened(i, j, r) \/ (j # dst /\ Cardinality(enc[out]) < n)
              /\ net' = Passed(i, j, i, Reply(r, FALSE))
              /\ UNCHANGED <<relay, enc, proxy>>
           \/ /\ Opened(i, j, r) /\ j # dst
              /\ \E pads \in kSubset(n, enc[out]) :
                   /\ enc' = Take(out, pads)
                   /\ net' = Passed(i, j, out[2], [r EXCEPT !.pads = pads])
              /\ proxy' = [proxy EXCEPT ![j] =
                             @ \cup {[req |-> r.req, prev |-> i, keys |-> {}]}]
              /\ UNCHANGED relay
           \/ /\ Opened(i, j, r) /\ j = dst
              /\ \E ks \in kSubset(Min({n, Max({0, Mmax - relay[j].buf.bits})}), r.keys) :
                   relay' = [relay EXCEPT ![j].buf =
                               Each(LAMBDA b, k : StoreKey(b, k, 1), @, ks)]
              /\ net' = Passed(i, j, i, Reply(r, TRUE))
              /\ UNCHANGED <<enc, proxy>>
  /\ UNCHANGED <<query, halted, served, fetched, lost>>

(* ProcessRelayResponse: hand it to the previous node, or settle the keys. *)
ProcessRelayResponse(i, j) ==
  /\ Received(i, j, "relayed")
  /\ LET a == Head(net[<<i, j>>])
         found == {p \in proxy[j] : p.req = a.req}
     IN IF found = {}
          THEN /\ halted' = halted \cup {j}
               /\ net' = [net EXCEPT ![<<i, j>>] = Tail(@)]
               /\ UNCHANGED <<relay, proxy>>
          ELSE \E p \in found :
               /\ proxy' = [proxy EXCEPT ![j] = @ \ {p}]
               /\ IF p.prev # j
                    THEN net' = Passed(i, j, p.prev, a) /\ UNCHANGED relay
                    ELSE /\ net' = [net EXCEPT ![<<i, j>>] = Tail(@)]
                         /\ relay' = [relay EXCEPT
                              ![j].buf = IF a.ok THEN Each(ConfirmKey, @, p.keys)
                                                 ELSE Each(DiscardKey, @, p.keys),
                              ![j].active = FALSE]
               /\ UNCHANGED halted
  /\ UNCHANGED <<enc, dec, query, served, fetched, lost>>

-----------------------------------------------------------------------------
(* Applications.                                                           *)

Fresh(s) == \A e \in End : served[e][s] = {}

(* enc_keys: one candidate, the request to the peer by way of the next hop,*)
(* and the check of the buffer.                                            *)
EncKeys(e, s) ==
  /\ Running(e) /\ e \in Serving /\ relay[e].gen < MaxRelays
  /\ GetSBitCount(relay[e].buf) >= 1 /\ Fresh(s)
  /\ \E k \in Candidates(relay[e].buf, 1) :
       /\ Finish(e, [relay[e] EXCEPT !.buf = TransformCandidate(@, k, 1)],
                 <<[type |-> "skey", src |-> e, key |-> k, supply |-> s]>>)
       /\ served' = [served EXCEPT ![e][s] = {<<k, 1>>}]
  /\ query' = [query EXCEPT ![<<e, NextHop(e, Far(e))>>] = Append(@, e)]
  /\ UNCHANGED <<dec, halted, fetched, lost>>

(* A request that cannot be served checks the buffer all the same.         *)
EncKeysRefused(e) ==
  /\ Running(e) /\ e \in Serving /\ relay[e].gen < MaxRelays
  /\ GetSBitCount(relay[e].buf) < 1
  /\ Finish(e, relay[e], <<>>)
  /\ UNCHANGED <<dec, query, halted, served, fetched, lost>>

(* GetHalfKey and StoreSupplyKey at the destination.                       *)
(* Mutant: the supply key is a copy of the relayed key.                    *)
SupplyCopied(b, m) == StoreSupplyKey(b, m.supply, {<<m.key, 1>>})

Supply(b, m) ==
  IF Held(b, m.key) THEN StoreSupplyKey(HalfKey(b, m.key, 1), m.supply, {<<m.key, 1>>})
  ELSE Stop(b)

(* ProcessSKeyCreateRequest: pass it on, or make the supply key.           *)
ProcessSKeyCreateRequest(i, j) ==
  /\ Received(i, j, "skey")
  /\ LET m == Head(net[<<i, j>>])
         dst == Far(m.src)
         out == <<j, NextHop(j, dst)>>
     IN IF j # dst
          THEN /\ net' = Passed(i, j, out[2], m)
               /\ query' = [query EXCEPT ![out] = Append(@, i)]
               /\ UNCHANGED relay
          ELSE /\ relay' = [relay EXCEPT ![j].buf = Supply(@, m)]
               /\ net' = Passed(i, j, i, [type |-> "created"])
               /\ UNCHANGED query
  /\ UNCHANGED <<enc, dec, proxy, halted, served, fetched, lost>>

(* ProcessSKeyCreateResponse: the first query of the peer says where it    *)
(* goes.                                                                   *)
ProcessSKeyCreateResponse(i, j) ==
  /\ Received(i, j, "created")
  /\ LET waiting == query[<<j, i>>]
         drop == [net EXCEPT ![<<i, j>>] = Tail(@)]
     IN IF waiting = <<>> THEN net' = drop /\ UNCHANGED query
        ELSE /\ query' = [query EXCEPT ![<<j, i>>] = Tail(@)]
             /\ net' = IF Head(waiting) = j THEN drop
                       ELSE Passed(i, j, Head(waiting), Head(net[<<i, j>>]))
  /\ UNCHANGED <<relay, enc, dec, proxy, halted, served, fetched, lost>>

(* dec_keys of one key, asked by the application at the other end.         *)
DecKeys(e, s) ==
  /\ Running(e) /\ served[Far(e)][s] # {}
  /\ relay' = [relay EXCEPT ![e].buf = GetSupplyKey(@, s)]
  /\ fetched' = [fetched EXCEPT ![e][s] =
                   IF relay[e].buf.supply[s] = {} THEN @ ELSE relay[e].buf.supply[s]]
  /\ UNCHANGED <<enc, dec, proxy, query, net, halted, served, lost>>

(* A connection breaks: what is on the way on it is lost.                  *)
Break(l) ==
  /\ lost < MaxLost /\ lost' = lost + 1
  /\ net[l] # <<>> /\ net' = [net EXCEPT ![l] = <<>>]
  /\ UNCHANGED <<relay, enc, dec, proxy, query, halted, served, fetched>>

Deliver ==
  \E l \in Link :
    \/ ProcessRelayRequest(l[1], l[2]) \/ ProcessRelayResponse(l[1], l[2])
    \/ ProcessSKeyCreateRequest(l[1], l[2]) \/ ProcessSKeyCreateResponse(l[1], l[2])

Timeout == \E e \in End : \E g \in relay[e].timers : RelayTimeoutCheck(e, g)

Next ==
  \/ Deliver \/ Timeout
  \/ \E l \in Link : Break(l) \/ \E k \in KeyIds : LocalKey(l, k)
  \/ \E e \in End : EncKeysRefused(e)
  \/ \E e \in End, s \in SupplyIds : EncKeys(e, s) \/ DecKeys(e, s)

Spec == Init /\ [][Next]_vars

(* TCP delivers what it does not lose, and the simulator runs what is      *)
(* scheduled.                                                              *)
FairSpec == Spec /\ WF_vars(Deliver) /\ WF_vars(Timeout)

-----------------------------------------------------------------------------
(* Properties                                                              *)

Request == End \X (1 .. MaxRelays)

Message ==
  [type : {"relay"}, req : Request, keys : SUBSET KeyIds, pads : SUBSET KeyIds]
    \cup [type : {"relayed"}, req : Request, ok : BOOLEAN]
    \cup [type : {"skey"}, src : End, key : KeyIds, supply : SupplyIds]
    \cup [type : {"created"}]

(* The state of every node is well formed.                                 *)
TypeOK ==
  /\ relay \in [End -> [buf : Buffer, active : BOOLEAN, pending : SUBSET KeyIds,
                        gen : 0 .. MaxRelays, timers : SUBSET (1 .. MaxRelays)]]
  /\ enc \in [Link -> SUBSET KeyIds] /\ dec \in [Link -> SUBSET KeyIds]
  /\ \A i \in Node : proxy[i] \subseteq [req : Request, prev : Node, keys : SUBSET KeyIds]
  /\ \A l \in Link : query[l] \in Seq(Node) /\ net[l] \in Seq(Message)
  /\ halted \subseteq Node
  /\ served \in [End -> [SupplyIds -> SUBSET Cell]]
  /\ fetched \in [End -> [SupplyIds -> SUBSET Cell]]
  /\ lost \in 0 .. MaxLost

(* No KMS of the path is stopped by an assertion, a missing key or an      *)
(* answer it cannot map to a request, whatever is lost or given up, nor    *)
(* leaves the types above.                                                 *)
NoFailure == TypeOK /\ \A i \in Node : Running(i)

(* "Relay() has already installed the same key IDs and material in the     *)
(* end-to-end RELAY_SBUFFER at both endpoint KMSs"                         *)
(* (qkd-key-manager-system-application.cc:1539): a key the source may serve*)
(* is at the destination.                                                  *)
EndToEnd ==
  \A e \in Serving, k \in KeyIds :
    relay[e].buf.st[k] = "READY" => Held(relay[Far(e)].buf, k)

(* A key is a pad of one message or a key of one relay, never both, and    *)
(* what has been used is not in the "enc" buffer of any link.              *)
PadOnce ==
  LET Pads(l) == UNION {net[l][i].pads : i \in {n \in DOMAIN net[l] : net[l][n].type = "relay"}}
  IN \A l \in Link :
       /\ \A m \in Link : Pads(l) \cap enc[m] = {}
       /\ \A e \in End, k \in Pads(l) : ~Held(relay[e].buf, k)
       /\ \A i, j \in DOMAIN net[l] :
            i # j /\ net[l][i].type = "relay" /\ net[l][j].type = "relay"
              => net[l][i].pads \cap net[l][j].pads = {}

(* An end waits on an attempt only while the watchdog of that attempt is   *)
(* scheduled, and a key stays reserved only while the end waits on it.     *)
Watched ==
  \A e \in End : LET x == relay[e] IN
    /\ x.active => x.gen \in x.timers
    /\ {k \in KeyIds : x.buf.st[k] = "INIT"} = IF x.active THEN x.pending ELSE {}

(* The application at the other end can get by a key_ID what enc_keys gave,*)
(* unless the request to prepare it is on the way or lost, and once it can *)
(* neither end may use the relayed key again.                              *)
Synchronised ==
  \A e \in Serving, s \in SupplyIds :
    LET given == served[e][s]
        there == relay[Far(e)].buf.supply[s] \cup fetched[Far(e)][s]
        asked == \E l \in Link : \E i \in DOMAIN net[l] :
                   net[l][i].type = "skey" /\ net[l][i].supply = s
    IN /\ there \in {{}, given}
       /\ given # {} /\ there = {} => asked \/ lost > 0
       /\ \A c \in there, x \in End : ~Held(relay[x].buf, c[1])

(* An attempt ends, however many hops refuse it or answers are lost.       *)
RelayEnds == \A e \in End : relay[e].active ~> ~relay[e].active
=============================================================================
