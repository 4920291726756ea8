---------------------------- MODULE Etsi004Relay ----------------------------
(***************************************************************************)
(* ETSI 004 sessions between the two ends of a path of KMSs                *)
(* (model/qkd-key-manager-system-application.cc).  The ends share no       *)
(* quantum link: a stream is filled from their RELAY buffers, which the    *)
(* relays of KmsRelay supply with the same keys, and new_app, register and *)
(* fill pass from hop to hop as relay004 requests.  A repeater remembers   *)
(* where each request came from (m_httpProxyRequests) and creates no       *)
(* session.                                                                *)
(*                                                                         *)
(* Each direction of a link is one TCP connection (net).  A KMS keeps one  *)
(* list of unanswered queries for each neighbour (m_httpRequestsQueryKMS), *)
(* which relay004 requests share with the FILL requests of the link.       *)
(***************************************************************************)
EXTENDS StreamCore

CONSTANTS
  Hops,        \* length of the path
  Ksids,       \* key stream identifiers
  Primary,     \* the end whose application opens each session
  Sources,     \* the ends that relay keys
  Mmax,        \* capacity of the RELAY buffers, in keys
  Batch,       \* a relay moves at most that many keys (20 in the code)
  SlaveAsks,   \* the application at the slave may ask while there is no chunk
  MaxFills,    \* bound: FILL requests of each link, by direction
  MaxLost      \* bound: connections broken

Node == 0 .. Hops
End == {0, Hops}
Master == 0                        \* the higher node id
Far(e) == Hops - e
NextHop(i, dst) == IF dst > i THEN i + 1 ELSE i - 1
Towards(e) == <<e, NextHop(e, Far(e))>>
Link == {<<i, j>> \in Node \X Node : i = j + 1 \/ j = i + 1}

ASSUME Relay004Assumption ==
  /\ Hops \in Nat /\ Hops >= 2
  /\ Primary \in [Ksids -> End] /\ Sources \subseteq End
  /\ Mmax \in Nat \ {0} /\ Batch \in Nat \ {0}
  /\ \A j, k \in KeyIds : Units[j] = Units[k]
  /\ SlaveAsks \in BOOLEAN /\ MaxFills \in [Link -> Nat] /\ MaxLost \in Nat

VARIABLES
  fresh,    \* LOCAL keys no end has relayed yet
  kms,      \* the state of the KMS of each end
  proxy,    \* m_httpProxyRequests of each node
  query,    \* m_httpRequestsQueryKMS of each node, by neighbour
  net,      \* messages on the way, by link
  halted,   \* nodes stopped by a fatal error
  app,      \* the applications, as they are answered
  given,    \* history: the chunks each application got
  filled,   \* FILL requests sent so far, by link
  lost      \* connections broken so far

vars == <<fresh, kms, proxy, query, net, halted, app, given, filled, lost>>

NoAssociation == [open |-> FALSE, peerRegistered |-> FALSE, buf |-> EmptyStream]

Init ==
  /\ fresh = KeyIds
  /\ kms = [e \in End |->
       [ready |-> {},         \* READY keys of the RELAY buffer
        init |-> {},          \* its INIT keys: those of the relay on its way
        arrived |-> FALSE,    \* the relay has reached the other end
        assoc |-> [s \in Ksids |-> NoAssociation],
        pending |-> {},       \* m_etsi004FillPending
        checks |-> {},        \* m_scheduledChecks
        looks |-> {}]]        \* sessions for which an event may be left
  /\ proxy = [i \in Node |-> {}]
  /\ query = [l \in Link |-> <<>>]
  /\ net = [l \in Link |-> <<>>]
  /\ halted = {}
  /\ app = [e \in End |-> [s \in Ksids |-> "none"]]
  /\ given = [e \in End |-> [s \in Ksids |-> <<>>]]
  /\ filled = [l \in Link |-> 0]
  /\ lost = 0

Running(i) == i \notin halted

Open(x, s) == x.assoc[s].open

KeysIn(ks) == {ks[i] : i \in DOMAIN ks}

-----------------------------------------------------------------------------
(* Relays, as KmsRelay has them: the source reserves keys (INIT), the      *)
(* destination stores what fits, and the answer makes them READY at the    *)
(* source or removes them.  When the threshold asks for a relay, and how   *)
(* much the LOCAL buffers hold, are left open.                             *)

(* SBufferClientCheck: the keys it may begin to relay.                     *)
Relays(e, x) ==
  {ks \in SUBSET fresh :
     /\ ks # {} => e \in Sources /\ x.init = {}
     /\ Cardinality(ks) <= Batch /\ Cardinality(ks) + Cardinality(x.ready) <= Mmax}

(* The check the testbed schedules every second.                           *)
PeriodicRelayCheck(e) ==
  /\ Running(e)
  /\ \E ks \in Relays(e, kms[e]) \ {{}} :
       /\ kms' = [kms EXCEPT ![e].init = ks]
       /\ fresh' = fresh \ ks
  /\ UNCHANGED <<proxy, query, net, halted, app, given, filled, lost>>

RelayArrives(e) ==
  /\ kms[e].init # {} /\ ~kms[e].arrived /\ Running(Far(e))
  /\ \E ks \in SUBSET kms[e].init :
       /\ Cardinality(ks) = Min({Cardinality(kms[e].init),
                                 Max({0, Mmax - Cardinality(kms[Far(e)].ready)})})
       /\ kms' = [kms EXCEPT ![e].arrived = TRUE, ![Far(e)].ready = @ \cup ks]
  /\ UNCHANGED <<fresh, proxy, query, net, halted, app, given, filled, lost>>

(* The answer, or the watchdog when it has been lost.                      *)
RelaySettles(e, ok) ==
  /\ kms[e].init # {} /\ Running(e)
  /\ ok => kms[e].arrived
  /\ ~ok /\ kms[e].arrived => lost < MaxLost
  /\ lost' = IF ~ok /\ kms[e].arrived THEN lost + 1 ELSE lost
  /\ kms' = [kms EXCEPT ![e].ready = IF ok THEN @ \cup kms[e].init ELSE @,
                        ![e].init = {}, ![e].arrived = FALSE]
  /\ UNCHANGED <<fresh, proxy, query, net, halted, app, given, filled>>

-----------------------------------------------------------------------------
(* What a handler at an end comes to: its new state, the relay004 requests *)
(* and answers it sends, and the keys it begins to relay.                  *)

Quiet(x) == [kms |-> x, sends |-> <<>>, takes |-> {}]

Requests(sends) == SelectSeq(sends, LAMBDA m : m.type = "request")

(* A request is one per operation, session and origin at a time; the code  *)
(* numbers them.                                                           *)
Request(op, e, s, ks) == [type |-> "request", req |-> <<op, e, s>>, keys |-> ks]

(* SendEtsi004RelayControl: the query and the proxy entry of each request. *)
Ends(e, outcomes, received) ==
  \E o \in outcomes :
    LET asked == Requests(o.sends)
        in    == <<Towards(e)[2], e>>
    IN /\ kms' = [kms EXCEPT ![e] = o.kms]
       /\ fresh' = fresh \ o.takes
       /\ query' = [query EXCEPT ![Towards(e)] = @ \o [i \in DOMAIN asked |-> "control"]]
       /\ proxy' = [proxy EXCEPT ![e] = @ \cup
                      {[req |-> m.req, prev |-> e, keys |-> m.keys] : m \in KeysIn(asked)}]
       /\ net' = [net EXCEPT ![Towards(e)] = @ \o o.sends,
                             ![in] = IF received THEN Tail(@) ELSE @]

-----------------------------------------------------------------------------
(* Filling a stream from the RELAY buffer.                                 *)

Size == Units[CHOOSE k \in KeyIds : TRUE]

(* GetSBitCount of the RELAY buffer.                                       *)
Available(x) ==
  LET bits == Size * Cardinality(x.ready)
      held == Size * Cardinality(x.init)
  IN IF bits > held THEN bits - held ELSE bits

(* The keys the loop may take for an amount, in their order.               *)
Picks(x, amount) ==
  LET n == Min({Cardinality(x.ready), (amount + Size - 1) \div Size})
  IN {p \in [1 .. n -> x.ready] : \A i, j \in 1 .. n : p[i] = p[j] => i = j}

(* StoreKey and MarkKey(INIT) in the stream buffer, whose counters of keys *)
(* that are not READY nobody reads.                                        *)
Reserve(x, s, ks) ==
  [x EXCEPT !.ready = @ \ KeysIn(ks), !.assoc[s].buf.reserved = @ \cup KeysIn(ks),
            !.pending = @ \cup {s}]

FillEtsi004Relay(e, x, s, amount) ==
  UNION {LET y == Reserve(x, s, ks)
         IN {[kms |-> [y EXCEPT !.init = IF r = {} THEN @ ELSE r],
              sends |-> <<Request("fill", e, s, ks)>>, takes |-> r] : r \in Relays(e, y)}
         : ks \in Picks(x, amount)}

Low(a) == a.peerRegistered /\ GetStreamKeyCount(a.buf) < 2

(* An entry is one for each session.  A look that comes sooner erases it,  *)
(* but not its event: once a look is scheduled, events may be left.        *)
ScheduleCheck(x, s) == [x EXCEPT !.checks = @ \cup {s}, !.looks = @ \cup {s}]

CheckEtsi004Association(e, x, s) ==
  LET y == [x EXCEPT !.checks = @ \ {s}]
      n == Available(y) \div Chunk
  IN IF ~Open(y, s) \/ ~Low(y.assoc[s]) \/ s \in y.pending THEN {Quiet(y)}
     ELSE IF n = 0 THEN {Quiet(ScheduleCheck(y, s))}
     ELSE FillEtsi004Relay(e, y, s, Chunk * (IF n >= 6 THEN 6 ELSE IF n >= 2 THEN n - 1 ELSE 1))

(* The timer of ScheduleCheckEtsi004Association.                           *)
ScheduledCheck(e, s) ==
  /\ Running(e) /\ s \in kms[e].looks
  /\ Ends(e, CheckEtsi004Association(e, kms[e], s), FALSE)
  /\ UNCHANGED <<halted, app, given, filled, lost>>

-----------------------------------------------------------------------------
(* Calls of the applications.                                              *)

CreateKeyStreamSession(x, s, registered) ==
  [x EXCEPT !.assoc[s] = [open |-> TRUE, peerRegistered |-> registered, buf |-> EmptyStream]]

Told(e, s, state) == app' = [app EXCEPT ![e][s] = state]

(* Mutant: the application has its ksid at once.                           *)
OpenConnectEarly(e, s) ==
  /\ Running(e) /\ e = Primary[s] /\ app[e][s] = "none"
  /\ Told(e, s, "open")
  /\ Ends(e, {[kms |-> CreateKeyStreamSession(kms[e], s, FALSE),
               sends |-> <<Request("new_app", e, s, <<>>)>>, takes |-> {}]}, FALSE)
  /\ UNCHANGED <<halted, given, filled, lost>>

(* OPEN_CONNECT of the primary application.  It is answered when the other *)
(* end has created its session.                                            *)
OpenConnect(e, s) ==
  /\ Running(e) /\ e = Primary[s] /\ app[e][s] = "none"
  /\ Told(e, s, "asked")
  /\ Ends(e, {[kms |-> CreateKeyStreamSession(kms[e], s, FALSE),
               sends |-> <<Request("new_app", e, s, <<>>)>>, takes |-> {}]}, FALSE)
  /\ UNCHANGED <<halted, given, filled, lost>>

(* OPEN_CONNECT of the replica, which has the ksid from the primary.       *)
Join(e, s) ==
  /\ Running(e) /\ e # Primary[s] /\ app[e][s] = "none" /\ app[Far(e)][s] = "open"
  /\ IF Open(kms[e], s)
       THEN /\ Told(e, s, "asked")
            /\ Ends(e, {[kms |-> [kms[e] EXCEPT !.assoc[s].peerRegistered = TRUE],
                         sends |-> <<Request("register", e, s, <<>>)>>, takes |-> {}]}, FALSE)
       ELSE Told(e, s, "ignored") /\ UNCHANGED <<fresh, kms, proxy, query, net>>
  /\ UNCHANGED <<halted, given, filled, lost>>

(* GET_KEY: the first complete chunk; the master then looks at the stream. *)
HasChunk(a) == a.open /\ a.peerRegistered /\ GetStreamKeyCount(a.buf) > 0

GetKey004(e, s) ==
  /\ Running(e) /\ app[e][s] = "open" /\ HasChunk(kms[e].assoc[s])
  /\ LET buf == kms[e].assoc[s].buf
         x   == [kms[e] EXCEPT !.assoc[s].buf = GetStreamKey(@)]
     IN /\ given' = [given EXCEPT ![e][s] =
                       Append(@, [index |-> GetNextIndex(buf), key |-> buf.chunks[FirstOf(buf)]])]
        /\ Ends(e, IF e = Master THEN CheckEtsi004Association(e, x, s) ELSE {Quiet(x)}, FALSE)
  /\ UNCHANGED <<halted, app, filled, lost>>

(* Otherwise 400, and a look at the stream unless one is scheduled, at     *)
(* either end.                                                             *)
GetKey004Refused(e, s) ==
  /\ Running(e) /\ app[e][s] = "open" /\ ~HasChunk(kms[e].assoc[s])
  /\ e = Master \/ SlaveAsks
  /\ Open(kms[e], s) /\ s \notin kms[e].checks
  /\ Ends(e, CheckEtsi004Association(e, kms[e], s), FALSE)
  /\ UNCHANGED <<halted, app, given, filled, lost>>

-----------------------------------------------------------------------------
(* relay004 requests.                                                      *)

Received(i, j, type) == Running(j) /\ net[<<i, j>>] # <<>> /\ Head(net[<<i, j>>]).type = type

(* Node j takes the message from i and sends m to k.                       *)
Passed(i, j, k, m) == [net EXCEPT ![<<i, j>>] = Tail(@), ![<<j, k>>] = Append(@, m)]

Answer(m, ok, ks) == [type |-> "answer", req |-> m.req, ok |-> ok, keys |-> ks]

(* A repeater passes the request on.                                       *)
ForwardRequest(i, j) ==
  /\ Received(i, j, "request") /\ j \notin End
  /\ LET m == Head(net[<<i, j>>])
         k == NextHop(j, Far(m.req[2]))
     IN /\ net' = Passed(i, j, k, m)
        /\ query' = [query EXCEPT ![<<j, k>>] = Append(@, "control")]
        /\ proxy' = [proxy EXCEPT ![j] = @ \cup {[req |-> m.req, prev |-> i, keys |-> <<>>]}]
  /\ UNCHANGED <<fresh, kms, halted, app, given, filled, lost>>

(* The destination sends its answer after what the handler itself sends.   *)
AnsweredBy(e, outcomes, answer) ==
  Ends(e, {[o EXCEPT !.sends = Append(@, answer)] : o \in outcomes}, TRUE)

ReceivedEnd(e, op) ==
  /\ Received(Towards(e)[2], e, "request")
  /\ Head(net[<<Towards(e)[2], e>>]).req[1] = op
  /\ UNCHANGED <<halted, app, given, filled, lost>>

Incoming(e) == Head(net[<<Towards(e)[2], e>>])

ProcessNewApp(e) ==
  /\ ReceivedEnd(e, "new_app")
  /\ LET m == Incoming(e)
         s == m.req[3]
         x == kms[e]
     IN AnsweredBy(e, {Quiet(IF Open(x, s) THEN x ELSE CreateKeyStreamSession(x, s, TRUE))},
                   Answer(m, TRUE, <<>>))

ProcessRegister(e) ==
  /\ ReceivedEnd(e, "register")
  /\ LET m == Incoming(e)
         s == m.req[3]
         x == [kms[e] EXCEPT !.assoc[s].peerRegistered = TRUE]
     IN IF ~Open(kms[e], s) THEN AnsweredBy(e, {Quiet(kms[e])}, Answer(m, FALSE, <<>>))
        ELSE AnsweredBy(e, IF e = Master THEN CheckEtsi004Association(e, x, s) ELSE {Quiet(x)},
                        Answer(m, TRUE, <<>>))

EachKey(op(_, _), b, ks) ==
  LET done[i \in 0 .. Len(ks)] == IF i = 0 THEN b ELSE op(done[i - 1], ks[i])
  IN done[Len(ks)]

(* The keys that are there are poured in at once, in the order asked.  A   *)
(* relay's answer takes the same way as a fill of the other end with its   *)
(* keys and is sent before it: no key asked for is still INIT.             *)
ProcessFill(e) ==
  /\ ReceivedEnd(e, "fill")
  /\ LET m == Incoming(e)
         s == m.req[3]
         x == kms[e]
         found == SelectSeq(m.keys, LAMBDA k : k \in x.ready)
     IN /\ KeysIn(m.keys) \cap x.init = {}
        /\ IF ~Open(x, s) THEN AnsweredBy(e, {Quiet(x)}, Answer(m, FALSE, <<>>))
           ELSE AnsweredBy(e, {Quiet([x EXCEPT
                                  !.ready = @ \ KeysIn(found),
                                  !.assoc[s].buf = EachKey(InsertKeyToStreamSession, @, found)])},
                           Answer(m, found = m.keys, found))

-----------------------------------------------------------------------------
(* relay004 answers.                                                       *)

Unreserved(x, s, k) == [x EXCEPT !.assoc[s].buf.reserved = @ \ {k}]

PourIn(x, s, k) ==
  [Unreserved(x, s, k) EXCEPT !.assoc[s].buf = InsertKeyToStreamSession(@, k)]

(* StoreKey, which refuses a key when the RELAY buffer is full.            *)
PutBack(x, s, k) ==
  [Unreserved(x, s, k) EXCEPT !.ready = IF Cardinality(@) < Mmax THEN @ \cup {k} ELSE @]

(* Mutant: the keys the other end has rejected are used all the same.      *)
SettledAll(x, s, k, a) == PourIn(x, s, k)

(* Mutant: a refusal returns every key.                                    *)
SettledWhole(x, s, k, a) == IF a.ok THEN PourIn(x, s, k) ELSE PutBack(x, s, k)

Settled(x, s, k, a) == IF k \in KeysIn(a.keys) THEN PourIn(x, s, k) ELSE PutBack(x, s, k)

CompleteEtsi004RelayFill(x, s, asked, a) ==
  LET z == [x EXCEPT !.pending = @ \ {s}]
      y == IF a.ok THEN z ELSE ScheduleCheck(z, s)
  IN EachKey(LAMBDA b, k : Settled(b, s, k, a), y, asked)

(* What the end that has sent the request makes of the answer.             *)
Completed(x, p, a) ==
  LET s == a.req[3]
  IN CASE a.req[1] = "fill" -> CompleteEtsi004RelayFill(x, s, p.keys, a)
       [] a.req[1] = "new_app" /\ ~a.ok -> [x EXCEPT !.assoc[s] = NoAssociation]
       [] OTHER -> x

(* The answer is found by its number, but the query it completes is the    *)
(* first one of the list of the neighbour.                                 *)
ProcessAnswer(i, j) ==
  /\ Received(i, j, "answer")
  /\ LET a == Head(net[<<i, j>>])
     IN \E p \in proxy[j] :
          /\ p.req = a.req
          /\ proxy' = [proxy EXCEPT ![j] = @ \ {p}]
          /\ IF p.prev # j
               THEN net' = Passed(i, j, p.prev, a) /\ UNCHANGED <<kms, app>>
               ELSE /\ net' = [net EXCEPT ![<<i, j>>] = Tail(@)]
                    /\ kms' = [kms EXCEPT ![j] = Completed(@, p, a)]
                    /\ IF a.req[1] = "fill" THEN UNCHANGED app
                       ELSE Told(j, a.req[3], IF a.ok THEN "open" ELSE "refused")
  /\ IF query[<<j, i>>] = <<>> THEN halted' = halted \cup {j} /\ UNCHANGED query
     ELSE query' = [query EXCEPT ![<<j, i>>] = Tail(@)] /\ UNCHANGED halted
  /\ UNCHANGED <<fresh, given, filled, lost>>

-----------------------------------------------------------------------------
(* FILL requests of the LOCAL buffers of a link (KmsLink), for what they do*)
(* to the lists.                                                           *)

LocalFill(i, j) ==
  /\ Running(i) /\ filled[<<i, j>>] < MaxFills[<<i, j>>]
  /\ filled' = [filled EXCEPT ![<<i, j>>] = @ + 1]
  /\ net' = [net EXCEPT ![<<i, j>>] = Append(@, [type |-> "fill"])]
  /\ query' = [query EXCEPT ![<<i, j>>] = Append(@, "fill")]
  /\ UNCHANGED <<fresh, kms, proxy, halted, app, given, lost>>

ProcessFillRequest(i, j) ==
  /\ Received(i, j, "fill")
  /\ net' = Passed(i, j, i, [type |-> "filled"])
  /\ UNCHANGED <<fresh, kms, proxy, query, halted, app, given, filled, lost>>

(* Queries before the first FILL are thrown away.                          *)
ProcessFillResponse(i, j) ==
  /\ Received(i, j, "filled")
  /\ net' = [net EXCEPT ![<<i, j>>] = Tail(@)]
  /\ LET q == query[<<j, i>>]
         fills == {n \in DOMAIN q : q[n] = "fill"}
     IN IF fills = {} THEN halted' = halted \cup {j} /\ UNCHANGED query
        ELSE query' = [query EXCEPT ![<<j, i>>] = SubSeq(q, Min(fills) + 1, Len(q))]
             /\ UNCHANGED halted
  /\ UNCHANGED <<fresh, kms, proxy, app, given, filled, lost>>

(* A connection breaks: what is on the way on it is lost.                  *)
Break(l) ==
  /\ lost < MaxLost /\ lost' = lost + 1
  /\ net[l] # <<>> /\ net' = [net EXCEPT ![l] = <<>>]
  /\ UNCHANGED <<fresh, kms, proxy, query, halted, app, given, filled>>

Deliver ==
  \/ \E l \in Link : \/ ForwardRequest(l[1], l[2]) \/ ProcessAnswer(l[1], l[2])
                     \/ ProcessFillRequest(l[1], l[2]) \/ ProcessFillResponse(l[1], l[2])
  \/ \E e \in End : ProcessNewApp(e) \/ ProcessRegister(e) \/ ProcessFill(e)

RelayStep ==
  \E e \in End : PeriodicRelayCheck(e) \/ RelayArrives(e) \/ \E ok \in BOOLEAN : RelaySettles(e, ok)

Call ==
  \E e \in End, s \in Ksids :
    OpenConnect(e, s) \/ Join(e, s) \/ GetKey004(e, s) \/ GetKey004Refused(e, s)

Next ==
  \/ Deliver \/ RelayStep \/ Call
  \/ \E e \in End, s \in Ksids : ScheduledCheck(e, s)
  \/ \E l \in Link : Break(l) \/ LocalFill(l[1], l[2])

Spec == Init /\ [][Next]_vars

-----------------------------------------------------------------------------
(* Properties                                                              *)

(* The state of every KMS is well formed: a key is READY, being relayed or *)
(* reserved, in one of them only, and the account of a stream never fails  *)
(* LogUpdate's assertion.                                                  *)
TypeOK ==
  /\ fresh \subseteq KeyIds /\ halted \subseteq Node /\ lost \in 0 .. MaxLost
  /\ \A e \in End :
       /\ kms[e].ready \cap kms[e].init = {}
       /\ kms[e].pending \cup kms[e].looks \subseteq Ksids /\ kms[e].checks \subseteq kms[e].looks
       /\ \A s \in Ksids :
            LET a == kms[e].assoc[s]
            IN /\ ~a.buf.failed
               /\ a.buf.reserved \cap (kms[e].ready \cup kms[e].init \cup fresh) = {}
  /\ \A l \in Link : filled[l] \in 0 .. MaxFills[l] /\ query[l] \in Seq({"control", "fill"})

Chunks(e, s) ==
  LET buf == kms[e].assoc[s].buf
  IN KeysIn(given[e][s])
       \cup {[index |-> i, key |-> buf.chunks[i]] :
               i \in {j \in Indexes(buf) : Len(buf.chunks[j]) = Chunk}}

(* The two applications find the same key material under the same index,   *)
(* whatever the far KMS has rejected and whatever is lost on the way.      *)
IndexAgree ==
  TypeOK /\ \A s \in Ksids : \A c \in Chunks(0, s), d \in Chunks(Hops, s) :
              c.index = d.index => c.key = d.key

(* "Alice receives the KSID only after that operation succeeds end to end" *)
(* (README.md:906), and Bob is answered only when his registration has     *)
(* reached Alice's KMS: an application that may ask for keys has a session *)
(* at both ends.                                                           *)
Exposed ==
  \A e \in End, s \in Ksids : app[e][s] = "open" =>
    /\ Open(kms[e], s) /\ Open(kms[Far(e)], s)
    /\ e # Primary[s] => \A n \in End : kms[n].assoc[s].peerRegistered

(* A key that an end has poured into a stream is in no RELAY buffer, from  *)
(* where an application could get it again, at either end.                 *)
PouredKeys(e, s) ==
  {u[1] : u \in UNION ({KeysIn(c.key) : c \in KeysIn(given[e][s])}
                       \cup {KeysIn(kms[e].assoc[s].buf.chunks[i]) :
                               i \in Indexes(kms[e].assoc[s].buf)})}

PouredOnce ==
  \A e, n \in End, s \in Ksids :
    PouredKeys(e, s) \cap (kms[n].ready \cup kms[n].init \cup fresh) = {}

(* "Requests carry origin, destination and previous-hop state so that      *)
(* responses are correlated end to end" (README.md:1138): no KMS stops     *)
(* because it cannot map an answer.  It fails: relay004 requests wait in   *)
(* the same list as the FILL requests of the link, whose answers come      *)
(* sooner and throw away the queries in front of theirs.                   *)
Correlated == halted = {}
=============================================================================
