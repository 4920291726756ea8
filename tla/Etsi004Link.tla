---------------------------- MODULE Etsi004Link ----------------------------
(***************************************************************************)
(* ETSI 004 sessions between the two KMSs of one link                      *)
(* (model/qkd-key-manager-system-application.cc): OPEN_CONNECT with its    *)
(* NEW_APP and REGISTER notifications, the fills that pour keys of the     *)
(* QBuffer into the stream buffers of both ends, GET_KEY, and CLOSE, which *)
(* returns what is left of the stream to the QBuffers.                     *)
(*                                                                         *)
(* As in KmsLink, each direction is one TCP connection (net), handlers run *)
(* to the end, and answers are mapped to requests by their position in     *)
(* m_httpRequestsQueryKMS (query).  The other users of the QBuffer are left*)
(* out, and keys returned by CLOSE (back) are not taken again.             *)
(***************************************************************************)
EXTENDS StreamCore, Functions

CONSTANTS
  Ksids,       \* key stream identifiers
  Primary,     \* where the application is that opens each session
  Block,       \* default key size of the QBuffer, in units
  SlaveAsks,   \* the application at the slave may ask while there is no chunk
  Orderly      \* one application closes, when both are connected; a timer of
               \* a session does not fire while its close or fill is unanswered

Node == {"A", "B"}
Master == "A"                      \* the higher node id
Peer(n) == IF n = "A" THEN "B" ELSE "A"

ASSUME Link004Assumption ==
  /\ Primary \in [Ksids -> Node]
  /\ Block \in Nat \ {0}
  /\ SlaveAsks \in BOOLEAN /\ Orderly \in BOOLEAN

VARIABLES
  stored,   \* keys the QKD module has pushed to each KMS
  kms,      \* the state of each KMS
  net,      \* messages on the way to each KMS
  app,      \* the applications, as their KMS knows them
  given     \* history: the chunks each application got

vars == <<stored, kms, net, app, given>>

(* One KMS.  `failed' tells an NS_FATAL_ERROR or a failing NS_ASSERT       *)
(* ("fatal") from what undefined behaviour may do ("undefined").           *)
NoAssociation == [open |-> FALSE, peerRegistered |-> FALSE, buf |-> EmptyStream]

Init ==
  /\ stored = [n \in Node |-> {}]
  /\ kms = [n \in Node |->
       [q |-> {}, assoc |-> [s \in Ksids |-> NoAssociation],
        checks |-> {},        \* m_scheduledChecks: sessions to look at again
        looks |-> {},         \* sessions for which an event may be left
        releases |-> {},      \* the releases the master has scheduled
        query |-> <<>>, back |-> {}, failed |-> "no"]]
  /\ net = [n \in Node |-> <<>>]
  /\ app = [n \in Node |-> [s \in Ksids |-> "none"]]
  /\ given = [n \in Node |-> [s \in Ksids |-> <<>>]]

Running(n) == kms[n].failed = "no"

Open(x, s) == x.assoc[s].open

(* A handler of a KMS ends in one of several outcomes: its new state and   *)
(* what it has sent.                                                       *)
Quiet(x) == [kms |-> x, sends |-> <<>>]

Fails(x) == [x EXCEPT !.failed = "fatal"]

Ends(n, outcomes, received) ==
  \E o \in outcomes :
    /\ kms' = [kms EXCEPT ![n] = o.kms]
    /\ net' = [net EXCEPT ![n] = IF received THEN Tail(@) ELSE @,
                          ![Peer(n)] = @ \o o.sends]

-----------------------------------------------------------------------------
(* Filling a stream.                                                       *)

KeysIn(ks) == {ks[i] : i \in DOMAIN ks}

(* Fill takes keys until less than a chunk is missing.                     *)
Enough(ks, amount) == MapThenSumSet(LAMBDA k : Units[k], KeysIn(ks)) + Chunk > amount

Picks(amount, from) ==
  {ks \in UNION {Injection(1 .. n, from) : n \in 0 .. Cardinality(from)} :
     Enough(ks, amount) /\ \A n \in 0 .. Len(ks) - 1 : ~Enough(SubSeq(ks, 1, n), amount)}

EachKey(op(_, _), b, ks) ==
  LET done[i \in 0 .. Len(ks)] == IF i = 0 THEN b ELSE op(done[i - 1], ks[i])
  IN done[Len(ks)]

(* Those keys of a list that are in a set, in their order.                 *)
Listed(ks, set) ==
  EachKey(LAMBDA kept, k : IF k \in set THEN Append(kept, k) ELSE kept, <<>>, ks)

Fill(x, s, amount) ==
  IF Picks(amount, x.q) = {} THEN {Quiet(Fails(x))}
  ELSE {LET m == [type |-> "fill", ksid |-> s, keys |-> ks]
        IN [kms |-> [x EXCEPT !.q = @ \ KeysIn(ks),
                              !.assoc[s].buf = EachKey(ReserveStreamKey, @, ks),
                              !.query = Append(@, m)],
            sends |-> <<m>>] : ks \in Picks(amount, x.q)}

AvailableChunks(x) == MapThenSumSet(LAMBDA k : Units[k], x.q) \div Chunk

(* Mutant: a fill is asked again for a session the peer has unregistered.  *)
LowAnyhow(a) == GetStreamKeyCount(a.buf) < 2

Low(a) == a.peerRegistered /\ GetStreamKeyCount(a.buf) < 2

(* An entry is one for each session.  A look that comes sooner erases it,  *)
(* but not its event: once a look is scheduled, events may be left.        *)
ScheduleCheck(x, s) == [x EXCEPT !.checks = @ \cup {s}, !.looks = @ \cup {s}]

CheckEtsi004Association(x, s) ==
  LET y == [x EXCEPT !.checks = @ \ {s}]
      n == AvailableChunks(y)
  IN IF ~Open(y, s) \/ ~Low(y.assoc[s]) THEN {Quiet(y)}
     ELSE IF n = 0 THEN {Quiet(ScheduleCheck(y, s))}
     ELSE Fill(y, s, Chunk * (IF n >= 6 THEN 6 ELSE IF n >= 2 THEN n - 1 ELSE 1))

(* The timer of ScheduleCheckEtsi004Association.                           *)
Unanswered(n, s) == \E i \in DOMAIN kms[n].query : kms[n].query[i].ksid = s

ScheduledCheck(n, s) ==
  /\ Running(n) /\ s \in kms[n].looks
  /\ Orderly => ~Unanswered(n, s)
  /\ Ends(n, CheckEtsi004Association(kms[n], s), FALSE)
  /\ UNCHANGED <<stored, app, given>>

(* STORE_KEY: the QKD module pushes a key.                                 *)
StoreKeyRequest(n, k) ==
  /\ Running(n) /\ k \notin stored[n]
  /\ stored' = [stored EXCEPT ![n] = @ \cup {k}]
  /\ Ends(n, {Quiet([kms[n] EXCEPT !.q = @ \cup {k}])}, FALSE)
  /\ UNCHANGED <<app, given>>

-----------------------------------------------------------------------------
(* Calls of the applications.                                              *)

(* OPEN_CONNECT of the primary application: a new session, and NEW_APP.    *)
Ask(type, s) == [type |-> type, ksid |-> s]

CreateKeyStreamSession(x, s, registered) ==
  [x EXCEPT !.assoc[s] = [open |-> TRUE, peerRegistered |-> registered, buf |-> EmptyStream]]

OpenConnect(n, s) ==
  /\ Running(n) /\ n = Primary[s] /\ app[n][s] = "none"
  /\ app' = [app EXCEPT ![n][s] = "open"]
  /\ Ends(n, {[kms |-> [CreateKeyStreamSession(kms[n], s, FALSE)
                          EXCEPT !.query = Append(@, Ask("new_app", s))],
               sends |-> <<Ask("new_app", s)>>]}, FALSE)
  /\ UNCHANGED <<stored, given>>

(* OPEN_CONNECT of the replica, which has the ksid from the primary.  A    *)
(* ksid the KMS does not know is not answered.                             *)
Join(n, s) ==
  /\ Running(n) /\ n # Primary[s] /\ app[n][s] = "none" /\ app[Peer(n)][s] # "none"
  /\ IF Open(kms[n], s)
       THEN /\ app' = [app EXCEPT ![n][s] = "open"]
            /\ Ends(n, {[kms |-> [kms[n] EXCEPT !.assoc[s].peerRegistered = TRUE,
                                                !.query = Append(@, Ask("register", s))],
                         sends |-> <<Ask("register", s)>>]}, FALSE)
       ELSE /\ app' = [app EXCEPT ![n][s] = "ignored"]
            /\ UNCHANGED <<kms, net>>
  /\ UNCHANGED <<stored, given>>

(* GET_KEY: the first complete chunk; the master then looks at the stream. *)
HasChunk(a) == a.open /\ a.peerRegistered /\ GetStreamKeyCount(a.buf) > 0

TakenFrom(x, s) == [x EXCEPT !.assoc[s].buf = GetStreamKey(@)]

GetKey004(n, s) ==
  /\ Running(n) /\ app[n][s] = "open" /\ HasChunk(kms[n].assoc[s])
  /\ LET buf == kms[n].assoc[s].buf
         x   == TakenFrom(kms[n], s)
     IN /\ given' = [given EXCEPT ![n][s] =
                       Append(@, [index |-> GetNextIndex(buf), key |-> buf.chunks[FirstOf(buf)]])]
        /\ Ends(n, IF n = Master THEN CheckEtsi004Association(x, s) ELSE {Quiet(x)}, FALSE)
  /\ UNCHANGED <<stored, app>>

(* Otherwise 400, and a look at the stream unless one is scheduled, at     *)
(* either end.                                                             *)
GetKey004Refused(n, s) ==
  /\ Running(n) /\ app[n][s] = "open" /\ ~HasChunk(kms[n].assoc[s])
  /\ n = Master \/ SlaveAsks
  /\ Open(kms[n], s) /\ s \notin kms[n].checks
  /\ Ends(n, CheckEtsi004Association(kms[n], s), FALSE)
  /\ UNCHANGED <<stored, app, given>>

(* CLOSE: the peer is told where this stream stands, if it has a chunk.    *)
(* `surplus' names the KMS whose identifier the returned keys get.         *)
CloseMessage(n, s, buf) ==
  IF GetStreamKeyCount(buf) > 0
    THEN [type |-> "close", ksid |-> s, surplus |-> n, sync |-> GetNextIndex(buf)]
    ELSE [type |-> "close", ksid |-> s, surplus |-> "none", sync |-> 0]

Settled(s) ==
  /\ \A m \in Node : app[m][s] = "open"
  /\ \A m \in Node : \A i \in DOMAIN kms[m].query :
       kms[m].query[i].ksid = s => kms[m].query[i].type \notin {"new_app", "register"}

Close(n, s) ==
  /\ Running(n) /\ app[n][s] = "open"
  /\ Orderly => Settled(s)
  /\ app' = [app EXCEPT ![n][s] = "closed"]
  /\ IF ~Open(kms[n], s) THEN UNCHANGED <<kms, net>>
     ELSE LET m == CloseMessage(n, s, kms[n].assoc[s].buf)
          IN Ends(n, {[kms |-> [kms[n] EXCEPT !.query = Append(@, m)], sends |-> <<m>>]}, FALSE)
  /\ UNCHANGED <<stored, given>>

-----------------------------------------------------------------------------
(* ReleaseAssociation                                                      *)

(* The chunks that are dropped as used by the peer.  The loop ends at index*)
(* 0, which also stands for an empty buffer.                               *)
Outdated(buf, sync) ==
  IF GetNextIndex(buf) = 0 THEN {} ELSE {i \in Indexes(buf) : i < sync}

Preserved(buf, sync) ==
  LET kept == Indexes(buf) \ Outdated(buf, sync)
      text[i \in 0 .. buf.last + 1] ==
        IF i = 0 THEN <<>>
        ELSE IF i - 1 \in kept THEN text[i - 1] \o buf.chunks[i - 1] ELSE text[i - 1]
  IN text[buf.last + 1]

(* What is left goes to the QBuffer in blocks with derived identifiers.    *)
Blocks(s, by, text) ==
  {[id |-> <<s, by, j>>, key |-> SubSeq(text, j * Block + 1,
       IF (j + 1) * Block < Len(text) THEN (j + 1) * Block ELSE Len(text))]
   : j \in 0 .. (Len(text) + Block - 1) \div Block - 1}

(* Mutant: the session is only marked as closed.                           *)
ForgetMarks(x, s) == [x EXCEPT !.assoc[s].peerRegistered = FALSE]

Forget(x, s) == [x EXCEPT !.assoc[s] = NoAssociation]

ReleaseAssociation(x, s, surplus, sync) ==
  IF ~Open(x, s) THEN x
  ELSE IF surplus = "none" THEN Forget(x, s)
  ELSE [Forget(x, s) EXCEPT !.back = @ \cup Blocks(s, surplus, Preserved(x.assoc[s].buf, sync))]

(* The timer of ScheduleReleaseAssociation, 20 ms after the close.         *)
ScheduledRelease(n) ==
  /\ Running(n)
  /\ \E r \in kms[n].releases :
       /\ Orderly => ~Unanswered(n, r.ksid)
       /\ Ends(n, {Quiet([ReleaseAssociation(kms[n], r.ksid, r.surplus, r.sync)
                            EXCEPT !.releases = @ \ {r}])}, FALSE)
  /\ UNCHANGED <<stored, app, given>>

-----------------------------------------------------------------------------
(* Messages between the KMSs.                                              *)

Received(n, type) ==
  /\ Running(n) /\ net[n] # <<>> /\ Head(net[n]).type = type
  /\ UNCHANGED <<stored, app, given>>

(* Mutant: the latest query is taken out.                                  *)
CompleteLast(x) == [x EXCEPT !.query = SubSeq(@, 1, Len(@) - 1)]

Complete(x) == [x EXCEPT !.query = Tail(@)]

(* What a handler ends in that has to take a query from an empty list.     *)
Unmapped(x) == {Quiet(Fails(x))}

ProcessNewAppRequest(n) ==
  /\ Received(n, "new_app")
  /\ LET s == Head(net[n]).ksid
     IN Ends(n, {[kms |-> CreateKeyStreamSession(kms[n], s, TRUE),
                  sends |-> <<Ask("new_app_ok", s)>>]}, TRUE)

ProcessNewAppResponse(n) ==
  /\ Received(n, "new_app_ok")
  /\ Ends(n, IF kms[n].query = <<>> THEN Unmapped(kms[n]) ELSE {Quiet(Complete(kms[n]))}, TRUE)

(* An unknown ksid is not answered.                                        *)
ProcessRegisterRequest(n) ==
  /\ Received(n, "register")
  /\ LET s == Head(net[n]).ksid
         x == [kms[n] EXCEPT !.assoc[s].peerRegistered = TRUE]
         ok == <<Ask("register_ok", s)>>
     IN Ends(n, IF ~Open(kms[n], s) THEN {Quiet(kms[n])}
                ELSE {[o EXCEPT !.sends = ok \o @] :
                        o \in IF n = Master THEN CheckEtsi004Association(x, s) ELSE {Quiet(x)}},
             TRUE)

(* The answer for a session that is gone leaves its query in the list.     *)
ProcessRegisterResponse(n) ==
  /\ Received(n, "register_ok")
  /\ LET s == Head(net[n]).ksid
         looked == IF n = Master THEN CheckEtsi004Association(kms[n], s) ELSE {Quiet(kms[n])}
     IN Ends(n, IF ~Open(kms[n], s) THEN {Quiet(kms[n])}
                ELSE IF kms[n].query = <<>> THEN Unmapped(kms[n])
                ELSE {[o EXCEPT !.kms = Complete(@)] : o \in looked}, TRUE)

(* The keys this KMS holds are poured in at once, in the order asked.      *)
Filled(found) == [type |-> "filled", keys |-> found]

ProcessFillRequest(n) ==
  /\ Received(n, "fill")
  /\ LET m == Head(net[n])
         found == Listed(m.keys, kms[n].q)
     IN Ends(n, IF ~Open(kms[n], m.ksid) THEN {Quiet(Fails(kms[n]))}
                ELSE {[kms |-> [kms[n] EXCEPT
                                  !.q = @ \ KeysIn(found),
                                  !.assoc[m.ksid].buf = EachKey(InsertKeyToStreamSession, @, found)],
                       sends |-> <<Filled(found)>>]}, TRUE)

(* Queries before the first FILL are thrown away; accepted keys follow into*)
(* the stream, those the peer did not list are obsolete.                   *)
FirstFill(qs) == Min({i \in DOMAIN qs : qs[i].type = "fill"})

(* Mutant: the keys the peer did not list are used all the same.           *)
PouredAll(buf, asked, keys) == EachKey(AcceptStreamKey, buf, asked)

Poured(buf, asked, keys) ==
  LET rest == Listed(asked, KeyIds \ KeysIn(keys))
  IN EachKey(DiscardStreamKey, EachKey(AcceptStreamKey, buf, keys), rest)

ProcessFillResponse(n) ==
  /\ Received(n, "filled")
  /\ LET x  == kms[n]
         a  == Head(net[n])
         first == FirstFill(x.query)
         r  == x.query[first]
     IN Ends(n, IF {i \in DOMAIN x.query : x.query[i].type = "fill"} = {} THEN Unmapped(x)
                ELSE IF ~Open(x, r.ksid) \/ ~(KeysIn(a.keys) \subseteq KeysIn(r.keys))
                  THEN {Quiet(Fails(x))}
                ELSE {Quiet([x EXCEPT !.assoc[r.ksid].buf = Poured(@, r.keys, a.keys),
                                      !.query = SubSeq(@, first + 1, Len(@))])}, TRUE)

(* ProcessKMSCloseRequest.  The two ends agree on the larger index; the    *)
(* slave releases at once and then reads the erased entry to find where to *)
(* answer, the master releases later; a session that is not known is looked*)
(* up behind the end of the map.                                           *)
Closed(s, surplus, sync, buf) ==
  [type |-> "closed", ksid |-> s, surplus |-> surplus,
   flag |-> surplus # "none" /\ GetStreamKeyCount(buf) = 0, sync |-> sync]

(* Mutant: the index of the caller is taken.                               *)
SyncCaller(m, buf) == m.sync

SyncIndex(m, buf) ==
  LET local == IF GetStreamKeyCount(buf) > 0 THEN GetNextIndex(buf) ELSE 0
  IN IF m.surplus # "none" /\ m.sync < local THEN local ELSE m.sync

(* ScheduleReleaseAssociation does nothing while a check of the session is *)
(* scheduled.                                                              *)
ScheduleRelease(x, r) == IF r.ksid \in x.checks THEN x ELSE [x EXCEPT !.releases = @ \cup {r}]

Undefined(x) == [x EXCEPT !.failed = "undefined"]

ProcessKMSCloseRequest(n) ==
  /\ Received(n, "close")
  /\ LET m == Head(net[n])
         s == m.ksid
         x == [kms[n] EXCEPT !.assoc[s].peerRegistered = FALSE]
         buf == x.assoc[s].buf
         sync == SyncIndex(m, buf)
         ok == <<Closed(s, m.surplus, sync, buf)>>
         released == ReleaseAssociation(x, s, m.surplus, sync)
     IN Ends(n, IF ~Open(kms[n], s) THEN {Quiet(Undefined(kms[n]))}
                ELSE IF n = Master
                  THEN {[kms |-> ScheduleRelease(x, [ksid |-> s, surplus |-> m.surplus,
                                                     sync |-> sync]),
                         sends |-> ok]}
                ELSE {[kms |-> released, sends |-> ok], Quiet(Undefined(released))}, TRUE)

(* ProcessKMSCloseResponse.  The session is found by its ksid, but what to *)
(* release is read from the first query of the list.                       *)
HasSurplus(r) == r.type = "close" /\ r.surplus # "none"

Release(x, r, a) ==
  IF r.type = "fill" THEN x            \* its ksid is empty: nothing is found
  ELSE ReleaseAssociation(x, r.ksid, IF r.type = "close" THEN r.surplus ELSE "none",
         IF HasSurplus(r) /\ r.sync > a.sync THEN r.sync ELSE a.sync)

ProcessKMSCloseResponse(n) ==
  /\ Received(n, "closed")
  /\ LET x == kms[n]
         a == Head(net[n])
     IN Ends(n, IF ~Open(x, a.ksid) THEN {Quiet(x)}
                ELSE IF x.query = <<>> THEN {Quiet(Undefined(x))}
                ELSE {Quiet(Complete(IF a.surplus # "none" /\ ~a.flag
                                       THEN Release(x, Head(x.query), a)
                                       ELSE Forget(x, a.ksid)))}, TRUE)

Deliver(n) ==
  \/ ProcessNewAppRequest(n) \/ ProcessNewAppResponse(n)
  \/ ProcessRegisterRequest(n) \/ ProcessRegisterResponse(n)
  \/ ProcessFillRequest(n) \/ ProcessFillResponse(n)
  \/ ProcessKMSCloseRequest(n) \/ ProcessKMSCloseResponse(n)

Timer == \E n \in Node : ScheduledRelease(n) \/ \E s \in Ksids : ScheduledCheck(n, s)

Call ==
  \E n \in Node :
    \/ \E k \in KeyIds : StoreKeyRequest(n, k)
    \/ \E s \in Ksids : OpenConnect(n, s) \/ Join(n, s) \/ GetKey004(n, s)
                        \/ GetKey004Refused(n, s) \/ Close(n, s)

Next == (\E n \in Node : Deliver(n)) \/ Timer \/ Call

Spec == Init /\ [][Next]_vars

(* TCP delivers what was sent, and timers fire.                            *)
Fairness == \A n \in Node : WF_vars(Deliver(n)) /\ WF_vars(ScheduledRelease(n))

FairSpec == Spec /\ Fairness

-----------------------------------------------------------------------------
(* Properties                                                              *)

(* The bookkeeping of one KMS is well formed: queries and messages name    *)
(* sessions, keys are in the QBuffer or reserved for one session, and the  *)
(* account of a stream never fails LogUpdate's assertion.                  *)
TypeOK ==
  /\ \A n \in Node :
       /\ stored[n] \subseteq KeyIds /\ kms[n].q \subseteq stored[n]
       /\ kms[n].checks \subseteq Ksids
       /\ kms[n].failed \in {"no", "fatal", "undefined"}
       /\ \A s \in Ksids :
            LET a == kms[n].assoc[s]
            IN /\ a.open \in BOOLEAN /\ a.peerRegistered \in BOOLEAN
               /\ ~a.buf.failed
               /\ a.buf.reserved \subseteq stored[n] \ kms[n].q
               /\ \A t \in Ksids \ {s} : a.buf.reserved \cap kms[n].assoc[t].buf.reserved = {}

(* The chunks of a session an end has given out or could give out.         *)
Chunks(n, s) ==
  LET buf == kms[n].assoc[s].buf
  IN KeysIn(given[n][s])
       \cup {[index |-> i, key |-> buf.chunks[i]] :
               i \in {j \in Indexes(buf) : Len(buf.chunks[j]) = Chunk}}

(* The two applications of a session find the same key material under the  *)
(* same index, whatever crossed on the way: an index is all they compare.  *)
IndexAgree ==
  \A s \in Ksids : \A c \in Chunks("A", s), d \in Chunks("B", s) :
    c.index = d.index => c.key = d.key

(* What CLOSE returns to the two QBuffers under one identifier is the same *)
(* material: later fills and relays use it by its identifier.  It holds    *)
(* where both ends have read from the stream or neither has (see           *)
(* ReturnAgree).                                                           *)
BothRead(s) == (given["A"][s] = <<>>) = (given["B"][s] = <<>>)

Returned(s) ==
  {p \in kms["A"].back \X kms["B"].back : p[1].id = p[2].id /\ p[1].id[1] = s}

ReturnAgreeBothRead ==
  \A s \in Ksids : BothRead(s) => \A p \in Returned(s) : p[1].key = p[2].key

(* "KMSs synchronize on largest index that exists at both peers!"          *)
(* (qkd-key-manager-system-application.cc:3834), for every session.  It    *)
(* fails where one end has read and the other has not.                     *)
ReturnAgree == \A s \in Ksids : \A p \in Returned(s) : p[1].key = p[2].key

(* Material an application of either end has got is not returned to a      *)
(* QBuffer, from where it would be used a second time.                     *)
UsedUnits(s) == UNION {UNION {KeysIn(c.key) : c \in KeysIn(given[n][s])} : n \in Node}

NoReuse ==
  \A s \in Ksids : BothRead(s) =>
    \A n \in Node : \A k \in kms[n].back : k.id[1] = s => KeysIn(k.key) \cap UsedUnits(s) = {}

(* A key is reserved only while the answer that settles it is expected.    *)
ReservedAsked ==
  \A n \in Node, s \in Ksids :
    \A k \in kms[n].assoc[s].buf.reserved :
      \E i \in DOMAIN kms[n].query :
        LET r == kms[n].query[i]
        IN r.type = "fill" /\ r.ksid = s /\ k \in KeysIn(r.keys)

(* Answers carry no number.  In an orderly session each one meets the query*)
(* it answers, at the head of the list.                                    *)
IsRequest(m) == m.type \in {"new_app", "register", "fill", "close"}

IsAnswer(m, r) ==
  CASE r.type = "fill"     -> m.type = "filled" /\ KeysIn(m.keys) \subseteq KeysIn(r.keys)
    [] r.type = "new_app"  -> m = Ask("new_app_ok", r.ksid)
    [] r.type = "register" -> m = Ask("register_ok", r.ksid)
    [] OTHER               -> m.type = "closed" /\ m.ksid = r.ksid

AnswersMatch ==
  ReservedAsked /\ \A n \in Node :
    LET asked    == SelectSeq(net[Peer(n)], LAMBDA m : IsRequest(m))
        answered == SelectSeq(net[n], LAMBDA m : ~IsRequest(m))
    IN Running(Peer(n)) =>
         /\ Len(kms[n].query) = Len(answered) + Len(asked)
         /\ \A i \in DOMAIN answered : IsAnswer(answered[i], kms[n].query[i])
         /\ \A i \in DOMAIN asked : kms[n].query[Len(answered) + i] = asked[i]

(* No KMS stops at an NS_FATAL_ERROR in an orderly session, nor leaves the *)
(* types above.                                                            *)
NoFatal == TypeOK /\ \A n \in Node : kms[n].failed # "fatal"

(* Once an application has closed, its KMS lets the session go (unless the *)
(* erased entry the slave reads stops it).                                 *)
Over(n, s) == ~Open(kms[n], s) \/ \E m \in Node : ~Running(m)

CloserEnds == \A n \in Node, s \in Ksids : app[n][s] = "closed" ~> Over(n, s)

(* ... and so does the KMS of the other: "Is master? If master schedule!"  *)
(* (qkd-key-manager-system-application.cc:3840).  It fails where the master*)
(* waits for key material when the slave closes.                           *)
PeerEnds == \A n \in Node, s \in Ksids : app[n][s] = "closed" ~> Over(Peer(n), s)
=============================================================================
