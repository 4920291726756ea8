# Verification of the QKD key management and VPN rekeying of qkdnetsim-testbed

These modules model the parts of the repository that decide whether two places
far apart end up with the same secret key material: the key management systems
(KMS) of the ns-3 module in `src/model/`, and the rekeying daemon of the VPN
testbed in `src/docker/vpn/qkd-vpn.py`, and the two applications that use the
keys. TLC checks small instances of them and TLAPS proves the main invariants
of some of them for every instance (section 4).

`PROJECT.json` lists the components, the runs with their configurations, the
mutated definitions that show that each property can fail, the source lines of
every definition, the hazards and the theorems. `K` below stands for
`src/model/qkd-key-manager-system-application.cc`, `S` for `src/model/s-buffer.cc`,
`Q` for `src/model/q-buffer.cc`, `V` for `src/docker/vpn/qkd-vpn.py`, `A14` and
`A4` for `src/model/qkd-app-014.cc` and `qkd-app-004.cc`.

## 1. The system

### 1.1 Components

| component | state it keeps | operations | modelled in |
|---|---|---|---|
| Q-buffer, S-buffer (`Q`, `S`) | keys by id with a state, supply keys, stream keys, `m_currentKeyBit`, the not-ready counters, READY/WARNING/CHARGING/EMPTY status | StoreKey, GetKey, MarkKey, GetTransformCandidate, GetHalfKey, StoreSupplyKey, GetSupplyKey, the stream operations | `SBufferCore`, `SBuffer` (no streams, no status) |
| KMS: key supply on a link (`K`) | a Q-buffer and two LOCAL S-buffers (enc, dec) per neighbour, the queries it waits on | STORE_KEY, SBufferClientCheck, Fill and its request/response, enc_keys, SKEY_CREATE request/response, dec_keys | `KmsLink` |
| KMS: trusted-node relay (`K`) | a RELAY S-buffer per far end, `m_relayActive`, pending ids, generation, the proxy map | Relay, ProcessRelayRequest/Response, RelayTimeoutCheck, proxied SKEY_CREATE | `KmsRelay` |
| KMS: ETSI 004 (`K`, `S`) | associations by KSID, a stream S-buffer each, scheduled checks and releases | OPEN_CONNECT, GET_KEY, CLOSE, NEW_APP, REGISTER, stream fill, close between KMSs; relay004 requests of these | `StreamCore`, `StreamBuffer`, `Etsi004Link` (one hop), `Etsi004Relay` (over repeaters) |
| KMS: dispatch (`K`) | one query list per peer address, requests of applications, sockets | routing of HTTP messages to handlers | the lists in `KmsLink`, `KmsRelay`, `Etsi004Link`, each for its protocol; the list relay004 and FILL share in `Etsi004Relay` |
| VPN endpoints (`V`) | committed and pending generation, the strongSwan files, the IKE_SA | rotate, prepare, activate, initiate, status, commit, rollback, retries | `VpnRekey` |
| ETSI 014 application (`A14`) | stores of proposed, encryption and authentication keys, queues of requests and proposals, a watchdog | look at the stores, enc_keys, proposal, dec_keys, send, receive, timeout | `App014` |
| ETSI 004 application (`A4`, `app-key-stream.cc`) | association, key stream, establishment flags, timers | open_connect, send_ksid, establish_queues, get_key and its retry, send, receive | `App004` (encryption stream) |
| post-processing (`qkd-postprocessing-application.cc`) | key in the making | the exchange that ends in two STORE_KEY calls | environment of `KmsLink` |
| controllers, location register (`qkd-control.cc`, ...) | routes, link states | lookups filled at configuration | routes are the constant path of `KmsRelay` |
| encryptor, HTTP header, graphs, statistics, helpers, examples, vendored `json.h` | - | pure functions, output, construction | not modelled |
| CORE topologies, regression driver (`src/core`, `src/automation`) | - | configuration and supervision of containers | not modelled |

### 1.2 How the parts interact

* Post-processing pushes each new key to the KMSs of both ends of a quantum
  link (STORE_KEY). The KMS with the higher node id, the *master* of the link,
  then moves keys from the Q-buffers to the S-buffers by FILL requests: it
  reserves them (INIT), the peer stores its copies, and the answer says which
  are accepted.
* enc_keys takes material out of "enc", cutting the last key to size, and sends
  SKEY_CREATE: the peer repeats the takes and the cut in its "dec" and keeps
  the result as *supply keys* until an application asks for them (dec_keys).
  The rest of a cut key is withheld until the answer.
* Between ends that share no quantum link, Relay sends keys hop by hop under
  one-time pads of each link; enc_keys and dec_keys then work on RELAY buffers,
  and SKEY_CREATE passes through proxies.
* A KMS handles one message at a time (ns-3 is an event loop). Answers between
  KMSs carry no identifier, except relay answers: they are matched to the first
  query for that peer.
* An ETSI 004 session is a stream buffer at each KMS of a link. Keys of the
  Q-buffers are poured into both by FILL requests of the session; applications
  take numbered chunks with GET_KEY and compare nothing but the index. CLOSE
  makes the ends agree on an index and returns what is behind it to the Q-buffers.
  Where the ends share no link, NEW_APP, REGISTER and FILL pass the repeaters as
  relay004 requests, and the keys come from the RELAY buffers of both ends.
* The applications come in pairs. ETSI 014: the primary fetches keys, proposes
  their identifiers and uses them when the replica has fetched them too. ETSI
  004: both fill a local stream and each packet names the index of its key.
* The VPN daemon is a client of two KMSs and talks to its peer by HTTP. Alice
  drives; Bob runs a thread per request under a lock, so a request Alice has
  given up may still run after her later ones.

### 1.3 What is hard

Two parties repeat each other's operation on material they must hold in the
same state; requests of both directions, fills and cuts interleave; messages
are matched by position; counters are adjusted in one place and asserted in
another; a watchdog races an answer; requests are retried, lost, or executed
late; a rotation may fail at each of ten steps and must leave both endpoints
usable. `PROJECT.json` lists each of these as a hazard at its line.

## 2. Modules

| module | what it is |
|---|---|
| `SBufferCore` | the S-buffer operations as operators from a buffer record to a buffer record; EXTENDed by all KMS modules |
| `SBuffer` | state machine: one S-buffer under the calls a KMS makes on it, as "enc", "dec" or "relay" |
| `SBufferCoreProofs` | lemmas on the operators of `SBufferCore`, on the material a merge takes, and on folds and recursive functions |
| `SBufferProofs` | the theorems of `SBuffer` |
| `KmsLink` | the two KMSs of one link, composed of two Q-buffers and four S-buffers, and their two message queues |
| `KmsLinkProofs` | its theorems |
| `KmsRelay` | a path of KMSs: RELAY buffers at the ends, link stores in between, proxies, watchdogs, losses |
| `KmsRelayProofs` | its theorems |
| `StreamCore` | the operations of a stream S-buffer as operators |
| `StreamBuffer` | state machine: one stream buffer under fills and GET_KEY |
| `ChunkedStream` | abstract specification that `StreamBuffer` implements: a sequence of units given out in numbered chunks |
| `Etsi004Link` | the sessions between the two KMSs of a link, over two stream buffers each |
| `StreamProofs` | the theorems of `StreamBuffer` and of `Etsi004Link` |
| `Etsi004Relay` | the sessions between the ends of a path: relay004 requests over repeaters, streams filled from RELAY buffers |
| `App014`, `App004` | a pair of applications each, their connections and their KMSs as they use them |
| `App014Proofs`, `App004Proofs` | their theorems |
| `VpnRekey` | both VPN endpoints, their messages, the KMSs and strongSwan as they use them |
| `OrderedCommit` | abstract specification that `VpnRekey` implements |
| `VpnRekeyProofs` | its theorems |
| `MC*` | instances for TLC, with their `.cfg` files |

### 2.1 SBufferCore and SBuffer

Material is counted in units; unit *i* of key *k* is the pair `<<k, i>>`, so that
it can be followed through splits and merges. A buffer is a record: `st`, `lo`,
`hi` give each key its state and the interval of it that is left, `supply` the
supply keys, `bits`, `nrKeys`, `nrBits` the three counters, and `failed` is
raised wherever the code stops (NS_ASSERT, NS_FATAL_ERROR). `LogAdd`/`LogSub`
are LogUpdate with its assertion; `MarkKey`, `TransformCandidate`, `HalfKey`,
`GetKey` follow the functions of these names branch by branch.

`SBuffer` calls them in every order a KMS can. `Kind` says which calls reach the
buffer: "enc" serves, "dec" follows, and a RELAY buffer does both, because
`m_keys_enc` and `m_keys_dec` hold the same object (K:2221).

### 2.2 KmsLink

State per KMS: `stored` (pushed by post-processing), `q` (Q-buffer), `sb` (two
buffers of `SBufferCore`), `net` (its incoming queue: one TCP connection per
direction), `query` (`m_httpRequestsQueryKMS`). `served` and `fetched` record
what applications obtained. Actions are the handlers: `StoreKeyRequest`,
`EncKeys`, `EncKeysRefused`, `DecKeys`, `ProcessFillRequest`,
`ProcessFillResponse`, `ProcessSKeyCreateRequest`, `ProcessSKeyCreateResponse`.
The check of the buffers and the FILL requests it sends are part of the action
of the handler that ends with it. Keys pushed at one end may arrive at the
other much later, so that a FILL can name a key the peer does not have yet.
Which keys the `std::map` yields first is left open.

### 2.3 KmsRelay

The nodes are the positions of a path, the ends have a RELAY buffer. Per link
there are the READY keys of "enc" and of the "dec" at its other side (a READY
key of "enc" is in "dec": `KmsLink!Mirror`), a message queue, and the SKEY_CREATE
queries. `Finish` is the check that ends enc_keys, with the Relay it may start:
reservation, proxy query, request, generation and watchdog. `ProcessRelayRequest`
has the code's three outcomes: refused (a key is missing, or too few pads),
passed on under pads of the next link, or stored at the destination.
`Break` loses what is on the way on one connection. `LateAnswers` says
whether an answer may take longer than the five seconds of the watchdog. All
keys have the default size, which the code requires of a relay (K:458).
One end serves; both together already stop the program (section 5).

### 2.4 VpnRekey

`alice.phase` is the place in `rotate_alice`/`rollback_alice` where she stands
and `alice.tries` the attempts of the retry she is in. `call` is the request she
waits on. `Handle` dispatches to the handlers of Bob, each of which runs under
`STATE.lock`. `Answered` runs the current request, `LateRequest` one that Alice
has given up. `ipsec` is what is written for strongSwan (connections and one
secret per endpoint), `sa` the IKE_SA each endpoint reports. External and
modelled from their use: what a get_key, enc_keys or dec_keys consumes at the
KMSs even when its answer is lost, and what `ipsec up`, `down` and `statusall` do.

### 2.5 StreamCore, StreamBuffer and Etsi004Link

Units are numbered as in `SBufferCore`; `chunks` is `m_stream_keys`, a function
from indices to sequences of units, of which the last may be short.
`InsertKeyToStreamSession` completes it and goes on in new chunks.
`StreamBuffer` is one buffer under both kinds of fill (reserved and poured when
accepted, or poured at once). In `Etsi004Link` a handler ends in one of several
outcomes, a new state of the KMS and what it sends (`Ends`), because the choice
of keys by Fill is open; `failed` tells an NS_FATAL_ERROR from behaviour the
language leaves undefined (an erased entry that is read, `end()` dereferenced).
The session's look at its stream (`checks`) and its release (`releases`) are
the two uses of `m_scheduledChecks`. A look erases the entry of its session but
not the event, so `looks` keeps that one may still fire. `Orderly` restricts the applications: one
of them closes, when both are connected and no fill is unanswered.

### 2.6 Etsi004Relay

The nodes are the positions of a path, as in `KmsRelay`; `kms[e]` is the state
of an end: the READY and INIT keys of its RELAY buffer, its sessions over
`StreamCore`, the sessions with a fill pending and the scheduled looks. The
relays that supply both RELAY buffers are environment: which keys are moved,
whether they are refused, arrive, or lose their answer (`RelaySettles`), is
open, within what `KmsRelay` can do. `proxy` is `m_httpProxyRequests`, by which
an answer finds its way back, and `query` the lists of unanswered queries, in
which `LocalFill` puts the FILL requests of `KmsLink`: `ProcessFillResponse`
throws away what is in front of its query, as the code does. An
NS_FATAL_ERROR puts the node into `halted`, and the other nodes go on.
`Ends` is how each handler at an end finishes: state, messages, queries and
proxy entries, and the relay that SBufferClientCheck may begin. Request numbers
are abstracted to operation, origin and session, of which there is one at a time.

### 2.7 App014

`alice` and `bob` are the two applications, `sig` and `data` what is on its way
between them, `kms.made` the kind each key was made for, and `kms.kept` what
dec_keys can still deliver. `queue` and `proposed` are the two request queues by
which answers are mapped. A connection to a KMS may fall silent (`up`) until the
watchdog replaces it; every request restarts the watchdog, so that it fires
only if packets are rare (`slow`) or the stores full.

### 2.8 App004

`app[n]` is an application with its encryption stream `keys` (index to uses
left). `CheckQueues`, `SendPacket` and `GoesOn` are operators that give the new
state, the packet and the message of a handler, because the code calls them from
several handlers. Lifetimes are counted in packets: GetKey takes one use, and
SendPacket another (A4:1110). `seen` records what has gone wrong so far: a
packet lost, one that arrived before its key, another key used in its place, a
get_key of Bob refused, an open_connect ignored.

## 3. Runs

Passing runs (each finishes in less than three minutes):

| run | instance | what it shows |
|---|---|---|
| `relay` | `SBuffer`, 3 keys of 3 units, 2 supply keys, capacity 8, the calls of a RELAY buffer | `TypeOK`; `Accounting`: LogUpdate's assertion; `NoFailure`: no call stops the program, except while a supply key is unfetched; `NoReuse`: no unit is in two places or handed out twice |
| `link` | `KmsLink`, 5 keys of 2 units, 2 supply keys, S-buffers of 4, Q-buffer of 9 | `NoFailure` (with `TypeOK`), `Mirror`, `KeysAgree`, `ServedOnce`; `AnswersMatch`: answers meet their queries, and what is reserved waits for one (`ReservedAsked`) |
| `relayhop` | `KmsRelay`, one repeater, 3 keys, 2 supply keys, 3 attempts, 1 broken connection | `NoFailure` (with `TypeOK`), `EndToEnd`, `PadOnce`, `Watched`, `Synchronised`; `RelayEnds` under fairness |
| `chunks` | `StreamBuffer`, 5 keys shorter and longer than a chunk of 3 | `NothingLost` (with `TypeOK`): the account, and the units poured are the units given and held, in order; `IsChunkedStream`: implements `ChunkedStream` |
| `orderly` | `Etsi004Link`, 2 keys, 2 sessions opened from both ends | `NoFatal` (with `TypeOK`), `AnswersMatch` (with `ReservedAsked`), `ReturnAgreeBothRead`: CLOSE returns the same material at both ends, if both have read or neither |
| `timers` | `Etsi004Link`, 1 session, closed at any time by either or both, timers at any time | `IndexAgree`: an index names the same material at both ends; `NoReuse`: nothing used is returned; `CloserEnds` under fairness |
| `routed` | `Etsi004Relay`, one repeater, 4 keys, RELAY buffers of 2, 1 session, 1 loss, a LOCAL FILL on each link | `IndexAgree` (with `TypeOK`): an index names the same material at both ends, whatever the far RELAY buffer misses; `Exposed`: an application has its ksid only when both ends have the session; `PouredOnce`: what was poured is in no RELAY buffer |
| `pair` | `App014`, 3 keys, AES, one-time pad and authentication, 2 faults | `PacketFindsKeys` (with `TypeOK`): Bob has the keys of every packet and at least the uses left that Alice counts on; `KindsAgree`; `WaitEnds` under fairness |
| `stream` | `App004`, queue of 2, 5 chunks, lifetimes 1 to 3, TCP and UDP | `SendsOn` (with `TypeOK`): the sender's timer never stops; `InStep`: the windows keep their size and Bob gives up no key a packet on the way needs; `BecomesReady` under fairness |
| `late` | `VpnRekey`, ETSI 004, 2 generations, 4 faults, late requests | `TypeOK`, `GenerationsInStep`, `BobConnections`, `AliceInstalled` |
| `live` | `VpnRekey`, ETSI 014, 3 generations, 4 faults, none late, fairness | `BobInstalled`; `KeepsContract`: implements `OrderedCommit`; `RekeyProgress`, `RotationEnds` |

One run ends in a violation, a disagreement between the code and what the
repository says of it:

| run | property | disagreement |
|---|---|---|
| `mapped` | `Correlated` | "Requests carry origin, destination and previous-hop state so that responses are correlated end to end" (`src/README.md:1138`): relay004 requests wait in the same list as the FILL requests of the link. A FILL sent later is answered sooner, its answer erases the relay004 query in front of its own (K:3446), and the relay004 answer then finds the list empty: NS_FATAL_ERROR (K:4060) |

### 3.1 Bounds

* *Keys.* Three keys let one be split, one merged and one withheld at a time.
  `link` needs five: two for each buffer and one that arrives while fills are
  on the way. Fills that overlap, that are rejected or that name unknown keys, merges
  of several candidates, splits with a surplus and requests at both ends at once
  all occur within it. `relayhop` needs a relayed key, its pad and one more of a
  second attempt; refusals for want of pads, losses on either side, a watchdog
  of an old attempt while another is active, and supply keys fetched or lost all occur.
* *Sessions.* Two keys of three units and chunks of two make a short chunk, one
  that a second key completes, and fills that overlap; a session can be opened,
  filled, read, closed and released within them, and a second session shares
  the query lists. `chunks` has five keys of one to four units: a key within a
  chunk, one that ends it and one that spans two.
  In `routed` keys have three units, chunks two and RELAY buffers hold two keys,
  so that a fill asks for one or two keys of which the far end has both, one or
  none, keys that are put back meet a full buffer, and a third and fourth key
  go on in a stream that ends in a short chunk. The loss may be a message, an
  answer on either link or the answer of a relay.
* *Applications.* `pair`: two keys in use or proposed and one more to ask for;
  two requests on a connection, two packets on the way and two faults let a
  refusal meet a silent connection. Its KMS faults are tried with one kind of
  key (`Faulty`), and Bob's connection falls silent with one proposal open
  (`Overlap` FALSE): section 5 says what happens beyond that. `stream`: a queue
  of two is refilled twice from five chunks; three packets on the way outrun the
  queue, so that packets are late, dropped and lost several times over.
* *Lengths.* 3 units (`SBuffer`) have a proper prefix that can be cut again, 2
  units (`KmsLink`) a proper prefix.
* *Capacities* are between one and two requests above the threshold, so that
  buffers are empty, below the threshold and full. In `relayhop` the capacity
  exceeds what the supply keys can take; section 5 has the case where it does not.
* *MaxPending*, *MaxLeak* bound the not-ready counters, which a rejected key
  leaves raised (K:3523) and which therefore grow for ever.
* *MaxGen* 2 or 3: the first generation has no predecessor, the second has, the
  third follows a generation that itself replaced one. *MaxFaults* exceeds
  RETRY_LIMIT, so that a retry can be exhausted and the rollback after it fail too.
* *MaxRelays*, *MaxLost*, *MaxKeys*, *MaxFills* bound attempts, broken connections,
  the keys the KMSs of the VPN deliver, and the LOCAL FILLs of a link.
* Deadlock is not checked: each instance stops when its bounds are used up.

### 3.2 Fairness

`VpnRekey!FairSpec`: weak fairness of Alice's steps (the rekey loop runs for as
long as the process does, each wait has a timeout), of `Answered` and of
`LateRequest` (a thread of Bob's server runs in the end). Faults are never
obliged to happen and never forbidden up to their bound.
`KmsRelay!FairSpec`: weak fairness of delivery (TCP delivers what it does not
lose) and of the watchdogs (the simulator runs every scheduled event).
`Etsi004Link!FairSpec`: delivery, and the release timer. `App014!FairSpec` and
`App004!FairSpec`: a KMS answers on a connection that is up, TCP delivers,
timers and watchdogs fire; in `App004` the KMSs fill the session up to its bound.
`Etsi004Relay` states safety only: no watchdog ends a relay004 request.
No fault is obliged to happen, and no application or key generation is obliged
to do anything, except that the simulator runs what an application has scheduled.

## 4. Proofs

`SBufferProofs` proves of `SBuffer`, for every set of keys and supply keys,
length, capacity, kind and leak bound: `TypeCorrect`, `AccountingHolds`,
`NotReadyCoveredHolds` (MarkKey's two fatal errors about the counters cannot
fire; no run repeats it), `NoFailureHolds` and `NoReuseHolds`.

* Assumptions: the sets of identifiers are finite (`KeyIdsFinite`,
  `SupplyIdsFinite`), lengths and bounds are natural numbers (`BoundsNat`,
  `DefaultLenAssumption`, `MaxLeakAssumption`), and `KindAssumption`.
* The invariant `Inv` is `Sound(buf)` - the account is the number of READY
  units, the not-ready counters cover what is not READY, intervals are proper -
  with the facts that keys the KMS waits on are INIT, that an "enc" buffer holds
  no supply key, and that LOCAL buffers have not failed. `Accounting` alone is
  not inductive: whether MarkKey fails depends on the counters, and the
  assertion of GetTransformCandidate on the absence of supply keys.
* Each operation is first shown to change one key and the counters in step
  (lemmas ending in `Sound`, in `SBufferCoreProofs`), by cardinality lemmas on the
  cells of that key; then each action is shown to have that effect (`...Effect`); `NextInv`
  collects them. `NoReuse` needs `Spent`: what has left a key lies below its
  `lo`, and material on its way, in supply keys and served is disjoint.

`VpnRekeyProofs` proves of `VpnRekey`, for every number of generations, keys,
retries and faults, both interfaces, with and without late requests:
`TypeCorrect`, `GenerationsHold`, `BobConnectionsHold`, `AliceInstalledHolds`.

* Assumptions: `InterfaceAssumption`, `BoundsAssumption`, `LateAssumption`.
* `IInv` adds to them what Alice's phase says of the generation in her hand
  (`InHand`), that no late request is about a generation beyond it
  (`LateBehind`), that a pending generation is Bob's next one (`PendingNext`),
  that a commit answered 200 means Bob is there (`CommitTold`) and what Alice
  has installed in each phase (`AliceHolds`). `LateBehind` is why late requests
  are harmless to the generations: Bob commits only what is pending, and
  nothing beyond Alice's next generation was ever asked for.

* `BobInstalledHolds` and `ContractKept` assume that no request is executed
  late (`LateRequests` = FALSE; with late ones `BobInstalled` fails, section 5).
  `InTime` says what Bob holds while Alice is in each phase; from it each step of
  the two endpoints is a step of `OrderedCommit` or leaves its state alone.

`StreamProofs` proves of `StreamBuffer`, for any keys, lengths and chunk
size: `StreamTypeCorrect`, `NothingLostHolds` and `StreamImplemented`, the
refinement of `ChunkedStream`; and of `Etsi004Link`, for any keys, lengths, chunk
size, sessions and roles: `IndexAgreeHolds`.

* The invariant of `StreamBuffer` views the stream as one tape: `Follows` says that
  the chunks are consecutive pieces of what was poured in, of which only the last may
  be short, and `Covered` that no unit of the tape is left out. The lemmas about
  the amount of a stream (`AmountIs`) count those pieces.
* `IndexAgreeHolds` assumes `SlaveAsks` = FALSE, as the run `timers` has it: only the
  master asks for fills. Section 5 has the trace in which both do, so the hypothesis
  cannot be dropped. Nothing is assumed of the applications (`Orderly` is open) or
  of when timers fire, and a KMS may stop.
* `IndexAgree` speaks of chunks that were given out and is far from inductive.
  `Streaming` says that there is a tape for each session at each end (`Tapes`): what
  an end has given out and what its stream holds are the pieces of its tape
  (`Told`), and the tape of the master is a beginning of the slave's, which it
  becomes by pouring in what the answers on the way list, in their order (`Linked`).
  The slave pours at the request and the master at the answer, so this needs FIFO
  delivery, and that no two fills name the same key: a key on its way has left the
  Q-buffer of the master, is reserved there, and is in one message (`Waiting`); its
  session is fixed (`Claimed`), because an answer does not name one. `Creation`
  says that a session begins empty at both ends: NEW_APP is sent once, and until it is
  read nothing of the session is on the way or at the replica (`Untouched`).
* The parts are stated of a record of the variables (`World`), since a handler makes
  several changes one after the other: each change keeps `Streaming` (`SlavePours`,
  `MasterFills`, `MasterPours`, `TakeKeeps`, `HandleKeeps`), and each action is a
  sequence of them (lemmas named for the action). A fill handles a list of keys,
  a fold whose induction is stated once (`RunExists`) and instantiated per operation.

`App004Proofs` proves of `App004`, for any queue size, lifetimes, chunks and
bounds: `TypeCorrect`, `SendsOnHolds` and `InStepHolds`.

* `Handshake` says where the two applications stand: joining the association,
  filling their queues one request at a time, or sending. `SendsOn` and the
  windows follow from it, but its step for a packet that arrives needs to know
  how many keys leave Bob's stream.
* `Chain` is that knowledge: the indices of both streams and of the packets on
  the way run from Bob's first key to Alice's without a gap, as long as nothing
  was lost or late, and Bob has for each key at least as many uses left as
  there are packets on the way with it and packets Alice can still send with
  it. She takes a key twice for a packet and he takes it once, which is why he
  never gives up a key too soon.

`App014Proofs` proves of `App014`, for any keys, batch, lifetimes and settings:
`TypeCorrect`, `PacketFindsKeysHolds` and `KindsAgreeHolds`.

* Assumptions: `App014Assumption`; `Overlap` is FALSE, since Bob's watchdog gives
  one answer for all his open proposals; and for `KindsAgreeHolds` no faults
  where keys of both kinds are asked for. Section 5 has what happens otherwise.
* `Answering` is the heart of `IInv`: Alice's proposals are those that are
  answered, those Bob asks for and those on the way to him, in this order, and
  behind an "Ok" Bob has the keys. `Uses` counts what Bob has to expect of a key,
  in Alice's stores and in packets: a key that is proposed has none
  (`Waiting`), and of a key in use he has enough (`Holding`), because a packet
  that is sent, lost or received only moves uses from one place to another.
* `Queued` says that the queue of kinds is what is asked for on the connection.

`KmsRelayProofs` proves of `KmsRelay`, for a path of any length and any keys,
thresholds and bounds: `TypeCorrect`, `PadOnceHolds`, `WatchedHolds`,
`SourceRunsHolds`, `RoomyHolds`, `EndToEndHolds`, `SynchronisedHolds` and
`NoFailureHolds`.

* `PadOnceHolds` assumes nothing beyond `RelayAssumption`: losses and late answers
  are allowed. `PadOnce` looks at the pads of messages and at the stores, but a
  pad can only be protected from a second use by knowing where its key is not:
  `Stock` (a key is in "enc" of one link at most, and then in "dec" of its peer and in no
  RELAY buffer), `Flying` (the pads of a message are still in the "dec" of the link it
  travels on, which keeps post-processing from offering the same key again) and
  `Distinct` (no pad is a pad or a key of another message).
* `WatchedHolds` and `SourceRunsHolds` assume that no answer is later than its
  watchdog (`LateAnswers` = FALSE); section 5 has what happens otherwise. The
  invariant is `WatchInv`: the attempt the source waits on is the only one on the
  path (`Sole`, `Carried`), what is noted of it at the source are the keys it has
  reserved (`Recalled`), and its buffer has room for them (`Room`), so that MarkKey
  finds every key and LogUpdate's sums agree.
* `EndToEndHolds`, `SynchronisedHolds` and `NoFailureHolds` assume the same, and
  `[]Roomy`: the destination of a relay on its way has room for its keys. Without
  room the destination refuses a key and answers 200, and `EndToEnd` fails (section
  5), so the hypothesis cannot be dropped. `RoomyHolds` discharges it wherever the
  capacity is not below the number of keys, as in the run `relayhop` (3 keys, `Mmax`
  = 4); the theorems also cover smaller capacities that happen to suffice. None
  of the three is inductive. `PathInv` adds `ServeInv` to the invariants above, and
  that has the parts:
  `Agrees` (what the other end has under a key_ID, or gave for it, is what the
  source gave or nothing; a key that was given is no longer at the source, and one
  made under a key_ID no longer among the relayed keys of the destination);
  `Unused` (nor is a key that was given in an "enc" buffer); `Stocks` (what the source
  may serve is at the destination, whose amount is never more than its keys, relayed
  or under a key_ID); `Suits` (a relay on its way carries the pending keys, none of
  them at the destination; an answer "ok" finds them there; a SKEY_CREATE finds its
  key there and its key_ID free); `Keyed` (no two SKEY_CREATE take the same key);
  `Asked` (a key_ID the other end does not know is asked for, unless something was
  lost); and `Routes` with `Returns` (each node behind a message has noted the request,
  so that an answer finds a proxy at every hop and cannot stop a repeater).
* Handlers apply an operation to a set of keys (FoldSet). `FoldRule` states the
  induction over such a set once, for a relation between the keys that are done
  and the buffer; each operation instantiates it.

`KmsLinkProofs` proves of `KmsLink`, for any keys, lengths, capacities, thresholds and
requests: `NoFailureHolds`, `MirrorHolds`, `KeysAgreeHolds`, `AnswersMatchHolds` and
`ServedOnceHolds`.

* Assumptions: those of `SBufferCore` and `LinkAssumption` (the threshold is
  within the capacity, requests ask for at least one key of at least one unit).
  `MaxPending`, which bounds the calls from outside, may be any number.
* None of them is inductive, and the first four need one another:
  whether MarkKey finds the key of an answer depends on which query the answer is
  mapped to, and whether the units cut at the peer are those that were served on
  where both ends have cut the key before. `Invariant` has the parts: `Listed`
  (messages and queries correspond one to one), `Stocked` and `Banked` (stores and
  Q-buffers hold what they count), `Claimed` (a key is INIT if and only if exactly
  one query claims it), `Located` (no key is in two stores of a KMS, and none at the
  slave before the master has it), `Filling` (a key of a FILL is whole, and absent at
  the slave until the answer that accepts it is on its way), and a `Direction` for
  each node: what it may serve is mirrored at its peer, each SKEY_CREATE on its way
  stands for the units that were served (`Cut`), no two name the same key (`Apart`),
  none arrives before the answer that accepts its keys (`Waiting`), and the rest of a
  split key is withheld until it is cut at the peer (`Cutting`).
* `ServedOnce` needs to know why served material does not come back. `Spent` says it:
  the key of a served unit is never `Free` again - not yet stored at the master, in its
  QBuffer, or asked for by a FILL whose acceptance is not on its way - what is left of
  it where it was served lies above the unit, and the peer cannot serve from it.
  `Located`, `Filling` and `Direction` give that what a KMS may serve is not free and
  is absent at the peer's "enc" store (`ReadySpent`), `UnitsBelow` that a merge takes
  from below (`ServedFresh`), and each change has a lemma ending in `Spends`.
* `ReachedNow` is `Invariant`, `Spent` and `Distinct` (`ServedOnce`) of the variables.
  The parts are stated of values because one step at the master makes up to three
  changes: the handler's, FILL for "enc", and FILL for "dec" out of what that left.
  Each change keeps `Invariant`
  (lemmas ending in `Keeps`); each action is a sequence of them (`...Reached`).
* enc_keys merges candidates recursively. `MergeDraws` says what comes out without
  the recursion: candidates whose intervals lie one behind the other in the merged
  key, each whole but the one that is split. `TakenEffect` says the same of the loop at
  the peer, which knows the list of ids alone; `KeysAgree` is that the two agree.
  The loops of the code end (`MergeRule`, `ShrunkRule`).

Model-checked only: liveness (`RekeyProgress`, `RotationEnds`, `RelayEnds`,
`CloserEnds`, `WaitEnds`, `BecomesReady`), which is out of the prover's reach; of
`Etsi004Link` what concerns the answers and the end of a session (`AnswersMatch`,
`NoFatal`, `ReturnAgreeBothRead`, `NoReuse`); all of `Etsi004Relay`; and the violation.

## 5. Known divergences without a run

Most have a definition in their module, with a comment that says it fails; TLC
finds the trace when it is put in place of the properties of a run.

Stores and KMSs:

* `CandidateAssertHolds` (`SBuffer`): the assertion of GetTransformCandidate
  (S:351) sums `m_keys` only, while `m_currentKeyBit` counts supply keys too: a
  RELAY buffer that holds one stops the next enc_keys.
* `Capacity` (`KmsLink`): "To be sure that we not exceed capacity of S-Buffer!"
  (K:621); reserved keys do not count, so overlapping fills take the buffer above it.
* GetSBitCount (S:187) subtracts the not-ready bits from an amount that does not
  contain them, and so reports less READY material than there is.
* With `LateAnswers = TRUE` a relay answer that arrives after its watchdog stops
  the KMS in MarkKey: the keys it names have been removed. A relay whose answer
  is lost leaves its keys READY at the destination for ever.
* `ReturnAgree` (`Etsi004Link`): "KMSs synchronize on largest index that exists
  at both peers!" (K:3834); index 0 also stands for an empty stream (K:3897), so
  that an end nobody has read from returns the whole stream.
* `PeerEnds` (`Etsi004Link`): the release shares `m_scheduledChecks` with the look
  at the stream (K:1314); a master that waits for key material when its peer
  closes keeps the session for ever.
* `EndToEnd` (`KmsRelay` with `Mmax` = 2 and two supply keys): "Relay() has already
  installed the same key IDs and material in the end-to-end RELAY_SBUFFER at both
  endpoint KMSs" (K:1539). A destination full of supply keys nobody has fetched
  refuses the relayed key and answers 200 (K:2492): the source serves a key the
  destination does not have.
* `IndexAgree` with `SlaveAsks` = TRUE, in `Etsi004Link` and in `Etsi004Relay`: "If
  master KMS monitor association. If slave do nothing!" (K:2861) and "overlapping
  fills are rejected" (`src/README.md:1139`). A GET_KEY at the slave that finds no
  chunk fills the stream too (K:2098), `m_etsi004FillPending` knows the fills of
  its own end only, and fills that cross put the keys into the two streams in
  different orders.
* A relay004 request that is lost, or whose answer is, leaves its session in
  `m_etsi004FillPending` for ever: it gets no further key (K:3207).
* The query list of a KMS is shared by all protocols (K:4060): an answer that
  meets a query of another kind is an NS_FATAL_ERROR. `mapped` shows it of relay004
  and FILL requests; the other modules have the queries of their own protocol only.

VPN:

* `BothRestore` (`VpnRekey`): "both endpoints restore the previous PSK"
  (`src/README.md:822`); when Bob has committed and his answers were lost, Alice
  rolls back alone (V:479). Bob answers the next /prepare for that number with
  the key he committed, which differs from the one Alice just took, so each
  further rotation ends in a mismatch.
* `CommitsNewSa` (`VpnRekey`): "new IKE_SA authenticated with the QKD PSK" (V:748);
  the IKE_SA of a rolled-back attempt at the same number is taken for it (V:603).
* A get_key of ETSI 004 whose answer is lost takes a chunk at one end only, and
  the streams are apart from then on: every later /prepare reports another index
  and no generation is committed. `src/README.md:811` says that "a lost response
  cannot consume an extra key on only one side".
* A late /rollback installs Bob's current secret while a newer generation is
  pending (V:488): `BobInstalled` holds only when no request is executed late,
  although `src/README.md:867` calls the protocol idempotent.

Applications:

* A refused enc_keys, or a timeout, leaves its kind in `m_kmsHttpReqQueue`
  (A14:1370): with authentication keys the next answers get the wrong kind, and
  `KindsAgree` fails (`Faulty` = `BothKinds`), although `qkd-app-014.h:483` says that
  the queue is there "to properly map response later".
* Bob's one watchdog answers for several proposals (A14:1325): with `Overlap`
  TRUE Alice maps the answers to the wrong proposals, and `PacketFindsKeys` fails.
* Each request restarts the watchdog (A14:1276): frequent packets keep it from
  firing while the connection is silent. `AESLifetime` is said to count packets
  (A14:63) but is compared with bytes. A one-time-pad key is never removed from
  the store (A14:859).
* `NamedKeyUsed` (`App004`): a packet that arrives before its key is decrypted with
  an older key that is left, where the comment says that it is dropped (A4:1233).
* Alice takes the lifetime of a key twice (A4:1110): an even lifetime makes her ask
  for two keys in place of one, and her stream grows beyond
  `LengthOfKeyBufferForEncryption`.
* get_key is queued with the default kind ENCRYPTION (A4:1378): with VMAC the keys
  of the authentication stream go to the encryption stream, and the queues are
  never established. An open_connect that Bob's KMS ignores is not repeated.

## 6. Not modelled

* CLOSE of an ETSI 004 session over repeaters: the code sends it to the address
  of the far KMS directly (K:2128), where the peers of a testbed KMS are its
  neighbours. The one query list of a KMS under all protocols at once, and the
  delay of answers.
* In `A14` and `A4`: StopApplication, the set-up of sockets, ciphers; in `A4` the
  authentication stream.
* Post-processing: a timed exchange of random traffic whose effect on the KMSs,
  keys that arrive at both ends at different times, is the environment of
  `KmsLink` and `Etsi004Link`.
* Key lifetimes: `SetKeyLifetime` is empty in the code (S). The charging
  statistics of the Q-buffer (READY/WARNING/CHARGING/EMPTY).
* The KMS queue logic: no code path calls it.
* The values of keys, ciphers, hashes, HTTP and JSON formats (`json.h`, `http.h`):
  keys are identifiers, and material is compared by origin.
* Routing changes: routes are static tables once the controller is configured.
* Restarts: neither the KMS nor the VPN daemon persists anything; a restart of
  one VPN endpoint resets its generation and is not handled by the code.

## 7. Plan

Built so far: the stores and their proofs, `VpnRekey` with `OrderedCommit` and
proofs, `KmsLink`, `KmsRelay`, the stream modules, `Etsi004Link` and `Etsi004Relay`,
`App014` and `App004`. Next:

1. Proofs: `Exposed` of `Etsi004Relay`.
2. One list of queries per peer for FILL, SKEY_CREATE, proxied SKEY_CREATE, NEW_APP,
   REGISTER and CLOSE, at a repeater that is also master of a link.
3. The authentication stream and CLOSE of `App004`; the status of the Q-buffer with
   `m_isRisingCurve`; link states reported to the controller.
