# A TLA+ verification of zenoh-go-client

This directory holds TLA+ models of the zenoh Go client, the TLC
configurations that check them on small instances, and TLAPS proofs of the
properties that matter most. Paths below are relative to the repository root.

## 1. Inventory of the system

The client speaks the zenoh protocol to a router (client mode) or to other
peers (peer mode, multicast). Two packages carry its logic: `internal/session`
(links, goroutines, registries) and `zenoh` (the public API).

| Component | State | Operations | Hard behaviour | Correct when |
|---|---|---|---|---|
| Session state machine and reconnect orchestrator (`zenoh/session.go`, `internal/session/run.go`, `session.go`) | state atom, `userClose`, `closed`, `done`, runtime registry, `curRuntime` | Open, reconnect loop, Close | every CAS may lose to Close; Close walks a registry the loop fills | one live Runtime; nothing left after Close; Close returns; a lost link is replaced |
| Runtime (`run.go`, `reader.go`, `writer.go`, `keepalive.go`, `watchdog.go`, `zenoh/put.go`) | OutQ, the FRAME under construction of each lane, stopOnce, five channels, four goroutines | Put, writes, Shutdown, GracefulShutdown | full queue, stalled peer, drain timer, failed write in a burst | the wire carries each lane in the order OutQ accepted it, without gaps; Done means quiet; stop leads to Done |
| Entity registries and replay (`replayToTarget`, Declare and Drop) | one locked map per kind | Declare, Drop, replay | snapshot taken, sent later | no declaration lost, no dropped entity left |
| Matching (`internal/session/matching.go`, `zenoh/matching.go`) | entry: declarations, snapshot flag, listeners | deltas, snapshot, reset, attach, detach | reset after the link is in use, two drops racing | status converges, listeners current, handlers closed once |
| Gets and liveliness queries (`zenoh/get.go`, `get_collector.go`) | collectors by request id, canceller, translator | Get, deliver, final, cancel | timeout against late reply, cancelAll against registration | the reply channel is closed exactly once, and in the end |
| Queryables (`internal/session/queryable.go`, `zenoh/queryable.go`) | shared completion counter | dispatch, reply, finish | several handlers finish one query | exactly one RESPONSE_FINAL, after every reply |
| Peer mode (`zenoh/session_peer.go`) | runtime registry by peer id, `peerInstallMu`, `peerWG` | accept, dial loops, dial after a HELLO, tiebreak, Close | both sides dial, and decide alone and in their own order | both keep the same link; one Runtime per peer, and it is registered |
| Handshake (`handshake.go`, `handshake_responder.go`) | what each side offered, cookie, negotiated parameters | INIT, OPEN, refusals | another implementation's answers; no deadline | both ends agree on batch size, resolution, QoS and sequence numbers |
| Batcher, fragmenter, reassembler (`internal/transport`) | lanes, sequence numbers, the batch and the message under construction | enqueue, flush, fragment, push | wrap, gap, overtaking | batches fit the receiver; a message is put together from its own fragments |
| Multicast group (`multicast_peer.go`) | table of members by ZenohID and by address, leases | JOIN, datagrams, eviction | loss, moves, addresses that change hands | a datagram is attributed to its sender; the table repairs itself |
| Inbound dispatch, aliases, tokens (`dispatch.go`, `aliases.go`, `liveliness.go`, `subscriber.go`) | tables by id, registries under an RWMutex | declare, undeclare, push, reset | ids reused by a new link or another peer | an event has the key its sender meant |
| Handlers (`zenoh/handler.go`) | a channel, Closure's goroutine, RingChannel's mutex | deliver, drop | full channels, Drop during a delivery | no send on a closed channel; the ring keeps the newest; Drop returns if its send does |
| Scouting (`internal/scout`, `internal/multicast/socket.go`, `zenoh/scout.go`) | sockets, seen ids, the user's handler | send, read, dispatch, end | the end races readers inside a callback | every node once, no callback after the drop, Run returns |
| Wire messages and codec (`internal/wire`, `internal/codec`) | none | encode, decode | no message says where it ends | what is sent is what is read |
| Key expressions (`internal/keyexpr`) | none | canonize, join, intersects, includes | `**` | agrees with the sets of keys |
| Configuration (`zenoh/config.go`) | the Config under construction | parse, InsertJSON5 | maps are walked in random order | the result does not depend on the order |
| Transports, value types | | | | not modelled |

How they interact: `Open` dials, handshakes and starts a Runtime
(`dialAndRun`), registers it and starts the orchestrator. API calls look up the
registered Runtimes and send to OutQ. The reader goroutine dispatches inbound
messages into the registries, and sends RESPONSE_FINAL itself when no queryable
matches. When the Runtime's `Done()` closes, the orchestrator uninstalls it,
reconnects with backoff and replays the registries. `Close` says farewell,
closes the state atom, drains the registered Runtimes and waits for the
orchestrator.

## 2. Layout

Modules, from the outside of a session inwards:

| Module | Models | Proofs | Run |
|---|---|---|---|
| `SessionLifecycle` | Open, reconnect loop, Close (client mode) | `SessionLifecycleProofs` | `MCSessionLifecycle` |
| `PeerLinks` | accept, dial, tiebreak, Close (peer mode) | `PeerLinksProofs` | `MCPeerLinks` |
| `RuntimeContract`, `Runtime` | one link's goroutines; the second implements the first | `RuntimeProofs` | `MCRuntime` |
| `Handshake`, `Reassembly`, `Frames`, `Link` | a link from INIT to fragments; `Link` composes the others | `LinkProofs` | `MCLink` |
| `Multicast` (uses `Reassembly`), `Scouting` | the group and the discovery of nodes | `DiscoveryProofs` | `MCDiscovery` |
| `Replay`, `Matching` | what survives a reconnect | `DeclarationsProofs` | `MCDeclarations` |
| `Delivery`, `Queries` | inbound samples, tokens and queries | `DispatchProofs` | `MCDispatch` |
| `Gets` | the querying end | `GetsProofs` | `MCGets` |
| `Consolidation`, `Config` | how replies are consolidated; what a document means | `GetsProofs`; `SessionLifecycleProofs` | `MCAlgorithms` |
| `Vle`, `Codec`, `Wire`, `KeyExpr` | pure algorithms | | `MCAlgorithms` |

An `MC` module gives TLC its model values. `MCDeclarations`, `MCDispatch` and
`MCDiscovery` hold two machines that share no state, `MCAlgorithms` four: a
variable `which`, chosen in the initial state, says whose behaviour it is. The
proof modules of those pairs extend the same two modules. `Consolidation` and `Config`
are proved about beside the component that uses them, a Get and a session's Open.

Still worth doing, the most valuable first: more than two nodes in `PeerLinks` and
`Queries`, with `Gets` on several links at once; the rest of the multicast runtime
(section 8).

## 3. The modules

Data is reduced to what the properties tell apart: a message is its number, an
entity a model value, a payload nothing at all; only `Codec` and `Wire` have
bytes.

### SessionLifecycle

Client mode, `zenoh/session.go` and `internal/session/run.go`, `session.go`.
`state` is the atom, `pc` the place of Open and then of `runReconnectLoop`,
`cpc[c]` the place of each goroutine inside `Session.Close`, `rts` the phase of
every Runtime ever made, `registry` the runtime registry, `rlock` its lock while
Close iterates. One action per step between two points where another goroutine
may act: every CAS, every lock, every channel wait. `BeginHandshake` and
`BeginHandshakeCAS` are two steps because the code makes two CASes.
`HandshakeFail`, `DialFail` and a failed CAS all end in `AttemptFailed`.
`RouterSilent` is the router that accepts the connection and does not answer,
`ReaderStuck` the Runtime whose reader waits for ever in its own OutQ send
(`Runtime!ReaderStuck`), so that Done never comes.

### RuntimeContract and Runtime

`RuntimeContract` is what the layers above assume of a Runtime: a phase, the lanes
of the items that were accepted, and the items delivered. An item is of a lane (its
priority and reliability) or raw, which KEEPALIVE and CLOSE are; items of one lane
stay in order, raw ones stay in order with all, and what is lost is a tail of a
lane. `Runtime` is
`internal/session/run.go`, `reader.go`, `writer.go`, `keepalive.go`,
`watchdog.go` and `deliverEncoded` of `zenoh/put.go`: a program counter for each
of the goroutines (`rpc` reader, `wpc` writer, `kpc` keepalive, `dpc` watchdog,
`opc` orchestrator, `spc` senders, `cpc` Close), the channels as Booleans that
become true when closed, `stopOnce` in three phases because a second caller
waits for the first. The peer may stall, resume or reset the link.

`batch[l]` is the FRAME under construction on lane l. Lanes are numbered in the
order in which FlushAll walks them. A message that is express, oversized or does
not fit flushes its own lane only, so other lanes overtake it; a raw item flushes all
lanes, one after the other, before it is written. A failed write latches
`writeDead` and empties its own lane; the writer's deferred FlushAll still comes to
the other lanes, which is why a failure loses tails of lanes. `Refused` is a priority
that Enqueue refuses, which Put does not check. The refinement
maps `stop` and `done` to the phase and the wire to `delivered`.
`SessionLifecycle` uses the same three phases, and a fourth for the reader that is stuck, so it rests on this refinement.
Abstraction: a FRAME is the sequence of items in it, and whether the next item fits
is a free choice.

### Replay

`replayToTarget` and the Declare and Drop methods of all entity kinds. `reg` is
the union of the registries (`KindOf` says which), `plan` the copies that the
orchestrator has yet to send, `router` what the router holds of the newest link.
A user looks up the Runtime and sends to it in two steps, so it may send to a
link that is already lost (`Stale`): the message is then accepted by a dead
OutQ, or refused.

### Matching

`internal/session/matching.go` and `zenoh/matching.go` for one publisher or
querier, with a router (external, modelled from the messages the code expects:
the current declarations in any order and then a Final in answer to an INTEREST,
and after that the changes).
Methods of the registry hold its mutex and are one step. The hooks that run
after the unlock (`onEntryRemoved`) are steps of their own, as are the three
steps of `MatchingListener.Drop`.

### Gets and Consolidation

`zenoh/get.go`, `zenoh/liveliness.go` and `internal/session/get_collector.go`.
Every Get has its own caller, `budgetLimit`, translator and cancel watcher, and
three channels between them; `opt` is what it was called with. The reader's
delivery is two steps with the read lock held between them (`holding`).
`Consolidation` has the two translators that keep state per key, fed with the
same replies; `Gets` needs only whether a reply is passed on at once or buffered.

### Queries

`internal/session/queryable.go`, `zenoh/queryable.go`, `query.go` and the
dispatch of REQUEST. Nodes are sessions; `chan[<<a, b>>]` is the link from a to
b. `remaining` is the shared completion counter, `todo` what a reader still has
to hand the query to. A Get's channel holds `Buffer` replies (`held`), from which
the caller takes them; `deliverReply` drops a reply that finds it full (`dropped`).
A broadcast (`enqueueNetwork`) to several peers is one
step: the order among different links is not observed by any property.

### PeerLinks

`zenoh/session_peer.go` with the registry and `Run` of `internal/session`, for two
nodes. A link is a slot with two ends, each in a phase from `hs` to `shut`; dialers are
`runOutboundLoop` or, when `setup.oneShot` says so, `dialDiscoveredPeer` after a HELLO.
`startRuntimeForPeer` is four actions because others see its steps: the tiebreak with
the Shutdown of the loser, `Run` (or its refusal by a closed session), and
`RegisterRuntime` with the unlock; `lock` is `peerInstallMu`. A Runtime has the phases
of `RuntimeContract`, and its watcher (`Uninstall`) acts some time after its Done. The
network may lose a link, a peer may fall silent in the middle of a handshake
(`LinkSilent`), which has no deadline, and a Runtime's reader may be stuck
(`ReaderStuck`); `setup.faults` bounds these. `Close` is three steps; `raced` is history
for the property. Slots are forgotten when both ends are shut, so a few stand for any
number of links in sequence.

### Handshake, Reassembly, Frames and Link

`Handshake` is both roles message by message: what is offered, `min` of batch
sizes and resolutions, QoS, cookie, lease in seconds or milliseconds, the initial
sequence numbers derived from both ids, and every refusal. A side in `foreign` is
another implementation: it may send any message the sets allow. `Frames` is
`batcher.go`, `fragmenter.go` and the receiving side: per-lane sequence numbers
modulo the resolution, a batch that is flushed when the next message does not
fit, fragments, express messages, and a network that on a datagram link loses and
reorders. `Reassembly` is the reassembler's one rule, shared with `Multicast`.
`Link` starts a Batcher and a Reassembler from what the handshake left at each
side, so an error in the negotiation shows as a batch the receiver cannot take.

### Multicast and Scouting

`Multicast` is one member of a group: JOINs, `bySource`, the datagrams of members that
come, go and take over each other's addresses, reassembly per member, and
`EvictExpired`. A datagram goes to whoever the table has at its source address, also
when its sender's JOIN was lost or is still on its way. The successive entries of a
member are named by `Gens`, where the code has pointers: more names than addresses, so
that a new entry always has a name no address points to any more. Time is a tick per
JOIN period. `Scouting` is `scout.Run` with the sockets of `multicast.Open`: senders, a
reader per socket, the dispatcher with its mutex and `seen` map, the user's channel or
callback, and the end by timeout or by context.

### Delivery

`dispatch.go`, `aliases.go`, `liveliness.go`, `subscriber.go` and
`zenoh/handler.go`. A face is the router or a unicast peer; it speaks the protocol
properly, and uses only ids it has declared on its current link; several foreign
tokens may share the id 0, as `liveliness.go:87-92` says zenohd forwards them. An
event carries, as history, what its sender can have meant (`meant`): one key, or for a
U_TOKEN the keys of the tokens alive under its id. `dispatch[g]` is the event a
goroutine is serving and who is left to serve, which is also the read lock on the
registry. RingChannel's deliver is three steps (find it full, evict, send again)
under its mutex, while the user receives. Drop is Unregister, the undeclaration, which
waits for room in OutQ (`SendUndeclare`), and only then the close of the handler; a
face may stop reading with OutQ full (`FaceStalls`). The client's resets of `replayEntities`
run after the new link's reader has started, as in the code; `wiped` remembers that
one met entries of the new link.

### The algorithms

`Vle`, `Codec` and `Wire` have an encoder and a decoder for every message and
extension, over sequences of bytes, and the readers that take a batch apart: the
session's for a stream (`processBatch`, to which a JOIN is an error) and for a
datagram, the handshake's and the scouting one.
In messages integers have the code's seven bits per byte; full-width values are
checked with two bits per byte and three bytes (the last one of three bits), which
keeps every case of `vle.go`. `KeyExpr` has `validate`, `canonize`,
`Join`, `Intersects` and `Includes` beside the set of keys an expression stands
for. `Config` is the walk over a parsed document, one leaf at a time in any order,
and `InsertJSON5`; numbers may be fractions, which `asUint` refuses. What a document
should mean (`WellShaped`, `Value`) is defined from its documentation, apart from what
the handlers do (`Coerce`).

## 4. The runs

| Run | Instance | Shows |
|---|---|---|
| `lifecycle` | two closers, four Runtimes | OneLiveRuntime; DoneMeansQuiet; NoRuntimeAfterClosed; ReconnectCompletes; CloseReturnsUnlessRacingInstall |
| `lifecycle_close` | three Runtimes | CloseReturns is violated: finding 1 |
| `runtime_safety` | two senders, two lanes, OutQ of 2, one keepalive | WireInOrder; DrainFlushes; Runtime implements RuntimeContract |
| `runtime_live` | one sender, two lanes, OutQ of 1, one inbound query | StopReachesDone and PutReturns, both up to the stuck reader |
| `declarations` | three entities in two registries, three links; one publisher, two remote declarations, two listeners, two links | NoLostDeclaration; GhostOnlyByRace; MatchingConverges; ListenersCurrent; HandlersEndWell |
| `gets` | one Get with any of 20 combinations of options, three replies, two links | NoSendOnClosed; RepliesAccounted; GetsEnd |
| `dispatch` | a client, two alias ids, the token id 0, each handler with a channel of 1, three messages, two links, a face that may stop reading; two sessions with two Gets with a buffer of 1 and two queryables | RightKey; NoSendOnClosedHandler; RingKeepsNewest; DropReturns; QueriesSound; GetComplete; GetEnds |
| `dispatch_peers` | two unicast peers, one token id | LivelinessReported is violated: finding 2 |
| `peerlinks` | two dial loops that cross; or a loop, a HELLO and one fault (a lost connection, a silent handshake, a stuck reader); the larger node may close | RegistryExact; PeersConverge; PeerCloseReturns |
| `link` | two batch sizes and three resolutions at each side, one- and three-bit sequence numbers, another implementation at either side, stream and datagrams, three messages, two faults | HandshakeAgreement; FitsReceiver; SNsConsecutiveWithQoS; BodiesGenuine |
| `discovery` | two members, two addresses, three moves, one loss; two nodes, two sockets | Attributed; TableRepairs; ScoutSafe; ScoutEnds |
| `algorithms` | five replies over two keys; every message with options present and absent; expressions of up to three chunks against keys of up to five; documents | Consolidates; SentIsReceived; KeySets; DocumentMeans |

**Why these bounds.** The second closer meets a Close that is already running.
The fourth Runtime gives a session that was replaced, failed to be replaced and
was replaced again. An OutQ of one or two is full as soon as one goroutine is
blocked, with more than one item in a FRAME in the larger run; two lanes are enough
for one to overtake the other, and with raw items, which all lanes keep in order with,
for every case of `Flush`. The third link in
`declarations` lets a message be sent to a link two generations old. Two listeners
and two declarations separate "one left" from "none left". A Get is alone in its
run because Gets share nothing but the registry lock and `cancelAllGets`, which
closes them independently of each other; the budget of two is smaller than the
three replies, and a buffer of one makes every hand-over block. In `dispatch` two
alias ids allow one alias on top of another, three messages an alias, its use and
its reuse after the reconnect, and a channel of one overflows at the second event.
Two link slots in `peerlinks` are the old link and the one that replaces it; a
third dial waits for a slot, which only delays it. In `link` five bytes against
batches of four and six give one message that is fragmented and one that is not,
and one-bit sequence numbers wrap within two batches, three-bit ones after several
fragmented messages. The receiver takes messages of up to three times the larger size,
so that one joined from parts of others would be accepted and seen, and two faults lose
or overtake both ends of a message. Two members are enough for an
address to change hands, three generations of entries for one that is evicted and
comes back twice. Five replies over two keys allow three of one key with an error
and another key in between.

**Fairness.** Weak fairness of a goroutine says only that the Go scheduler runs
it. No fairness is put on what users, networks and routers may or may not do: a
call of Close, Put, Get or Drop, a HELLO, a lost link, an answer, an expired lease.
The exceptions are named in the modules:

- `SessionLifecycle`: strong fairness of `DialOK` and `HandshakeOK` says that a
  router dialled again and again answers in the end; without it no reconnect can be
  promised. The router that falls silent inside a handshake, and the Runtime whose
  reader is stuck, are behaviours of the model and exceptions of the properties
  (`silent`, `Stuck`).
- `PeerLinks` and `Scouting`: strong fairness for who waits for a `sync.Mutex`
  (`InstallStep`, `DispatchStep`), which Go's starvation mode serves in order. In
  `PeerLinks` a handshake that has not gone silent ends.
- `MCDispatch`: strong fairness of `Unregister`, because a writer that waits for a
  `sync.RWMutex` keeps new readers out.
- `Scouting`: strong fairness of `SenderStops`, because `select` chooses at random
  among what is ready.
- `Multicast`: members that are present send their JOINs, which is their protocol;
  losses are bounded by `MaxLosses`, and `TableRepairs` speaks of what follows.
- `Gets`: the caller ranges over its channel, as the API demands, and after Close
  the link goes down, which `SessionLifecycle` and `Runtime` are about, exceptions
  included.
- `Queries`: handlers return. `Delivery`: callbacks return, unless they wait in
  their own subscriber's Drop; a face need never read again.

**What the properties except.** Each exception is a behaviour the model has, so the
property shows that it is the only one (section 7 has the behaviours):

| Property | holds except |
|---|---|
| ReconnectCompletes | a handshake stays unanswered |
| CloseReturnsUnlessRacingInstall | the race of finding 1; an unanswered handshake; a stuck reader |
| StopReachesDone, PutReturns | a stuck reader |
| GhostOnlyByRace | a Drop or a failed Declare between snapshot and replay |
| RightKey | a Delete may go to any of the live tokens that share its id; after a reset that wiped entries of the new link |
| DropReturns | Drop from the subscriber's own callback; a face that no longer reads holds Drop's own send |
| GetComplete | replies that found the Get's channel full |
| PeersConverge | a silent handshake; a stuck reader; watchers that lose for ever against redials |
| PeerCloseReturns | the race of finding 1; a silent handshake; a stuck reader |
| SNsConsecutiveWithQoS | without QoS |
| BodiesGenuine | after a fault, tails of messages; joined messages once enough was sent for sequence numbers to come round |
| Attributed | data from an address whose last JOIN received is another member's |
| Consolidates | keys with stamped and unstamped replies |
| DocumentMeans | `scouting/multicast/listen` that is not a bool |

**Deadlock** is not checked in these runs: a closed session, a Runtime that is
done and users with nothing left to do are ends the program really has. That
nobody is stuck is stated by the liveness properties.

## 5. What is proved

The theorems hold for every number of closers, Runtimes, links, dialers, losses,
entities, registries, declarations, listeners, senders, lanes, faces, subscribers,
queryables, Gets, replies, members, addresses, sockets and nodes, and for every
capacity of a queue or channel, batch size, resolution and sequence of messages.
Where a theorem needs more than the module's assumption about its constants (one
face, two sessions, messages within the receiver's limit), its statement says so.
Every invariant that a run checks is proved but two, SentIsReceived and KeySets.

`SessionLifecycleProofs`, from `LifecycleAssumption`: TypeCorrect,
OneLiveRuntimeHolds, DoneMeansQuietHolds, ExitOnlyWhenClosedHolds and
NoRuntimeAfterClosedHolds. None of these is inductive alone. The invariant
`IndInv` adds: Runtimes are numbered in order and those not made yet are in no
phase; only the newest may be live, and only while the loop is between Run and
the end of its wait; `cur` and the registry name at most the newest; the state
follows the loop's place unless it is Closed; the user-close signal comes after
Closed; `done` comes with the loop's exit. OneLiveRuntime follows because a new
Runtime is made only where the newest is known to be done, and DoneMeansQuiet
because the loop exits only from places where nothing is registered.

About `Config`: DocumentMeansHolds, for every document there is, without an assumption
about it. `Walk` relates the items that the walk has left to the whole document: they
are items of the document; every leaf has its meaning already or is still ahead, itself
or an object around it; every subtree is an object or is still ahead; the mode has its
meaning, or is the one item that comes first. The last part is what makes the order of
the others irrelevant: only `autoconnect` is coerced with what was walked before, and
only with the mode. What a leaf should hold and what its handler makes of it are defined
independently and brought together by `AutoconnectShaped`, `ModeShaped`, `CoerceShaped`
and `MeaningShaped`, with the exception of `listen`. Paths have at most three keys, so
`At` looks them up without recursion.

`DeclarationsProofs`, about `Replay` from `ReplayAssumption`: TypeCorrect,
NoLostDeclarationHolds and GhostOnlyByRaceHolds. The invariant adds: no user targets a
link that does not exist; registered is exactly what a user's place says; a plan is
pending only during a replay; a link that is down, or not installed yet, has no
declarations of users; and (`Replayed`) a live entity is at the router, or pending, or
in a registry still to be visited, or sent to a link that is lost and then covered by
the coming replay.

About `Matching`, for any set of declarations and listeners: ListenersStayCurrent,
HandlersAlwaysEndWell and StatusConverges. The first two rest on `EntryInv` (the
place of the publisher's user decides whether there is an entry, and hooks are left
only when it is gone) and `HandlersInv`: for each listener, who may be about to close
its handler, the `Drop` that won the `detached` flag or the hook of the removed
entry, and that the other one finds the flag taken. StatusConverges needs a view of
the messages on the link: `Settles(chan, declarations, k)` says that k is declared
once they are all read. `NothingStale` says what the router has not got does not
settle, from the entry's reset on; `NothingMissed` that what it has does settle, once
neither the user nor the replay has an INTEREST left to send; `OnlyByInterest` that
nothing comes before the router holds one. A reset that falls between two answers is
covered because the replayed INTEREST comes after it and is answered again.

`RuntimeProofs`, from `RuntimeAssumption`: TypeCorrect, WireInOrderHolds,
DrainFlushesHolds, DoneMeansExitedHolds and RuntimeImplementsContract. Two
invariants are used. `ItemInv` follows the items: OutQ and the writer's hand hold
the last of those accepted (`QueueNumbered`); the wire has an item once and only after
all that precede it (`WireOrdered`); the FRAME of a lane continues what the wire has of
that lane (`BatchOrdered`); and until a write fails, what was taken is on the wire or in
its lane's FRAME (`NothingMissing`). Each action is first reduced to one of six
kinds of change (send, take, append, flush, write, fail). A raw item is written when no
lane has a FRAME left; that FlushAll comes to each of them is `LeastPending`.
`ControlInv` follows the goroutines: one of them at a time is inside `stopOnce`; once it
is done, stop and the link are closed; the orchestrator joins after that; the writer
leaves its loops for stop or for drain, and when it left for drain all that was accepted
before is written (`WroteAll`). The last fact needs both: where the last FlushAll ends,
no lane has a FRAME and `NothingMissing` says that all is on the wire. The refinement
maps a flush and a direct write to `Deliver`, a send to `Accept`, the end of `stopOnce`
to `Stop`, the join to `Finish`, and every other step to a stutter.

`PeerLinksProofs`, from `PeerAssumption`: TypeCorrect and RegistryExactHolds. The
invariant is what `peerInstallMu` protects: a link whose Runtime has not started is
not registered; the link that won its tiebreak is the one the mutex is held for;
between `Run` and `RegisterRuntime` the holder's link is not the registered one; and
while the mutex is held, the Runtime that still is registered has been told to stop.
A watcher removes only its own entry, so the late teardown of a replaced Runtime
keeps all of this.

`DispatchProofs`, about `Delivery` from `DeliveryAssumption`:

- NoSendOnClosedHandlerHolds. The invariant is the registries' lock: whoever is being
  served is registered, because Unregister waits for the dispatches under way, and a
  channel is closed only after its subscriber has left the registry.
- RingKeepsNewestHolds. `RingInv`: RingChannel's mutex is held for a subscriber that
  is still to be served, and only while its holder is about to send again may the
  newest event be neither the channel's last nor, with an empty channel, the last one
  received.
- RightKeyHolds, for one face (`OneFace`: the client's router; finding 2 shows that it
  fails with two), until `wiped`; tokens may share the id 0, and a Delete for it goes to
  one that is alive. `KeysInv` follows the face along a path of views: one
  for each message on its way, from what the session's tables hold to what the face
  has declared, each message leading from one view to the next. Reading a message
  takes the first view off, sending one adds the last, and a new link starts a path of
  its own.

About `Queries`, from `QueriesAssumption`: FinalsAreLast for any number of sessions,
and ClosedGetsComplete for two (`TwoSessions`; in a mesh of three it is false, see
section 7). `CounterInv` says that the completion counter is the number of
queryables that have a copy of the request (to be handed over, queued or in the
handler), so the step that brings it to zero is the one that sends the final. It
needs `SingleCopies` (nobody has two copies), and that one `ArrivalInv`: a request
still on its way is unknown where it is going, and is on the link once. `AnswerInv`
adds that on a link no reply follows the final of its request, and that a reply is
collected, dropped at a full channel or on its way to a Get that is open; `ChannelInv`
that replies are dropped only once `Buffer` of them were collected.

`GetsProofs`, from `GetsAssumption`: GetsNeverPanic and RepliesAlwaysAccounted.
`RegistryInv` says that the channel of a registered Get is open and that the reader
holds the lock only for a registered Get. `PipelineOf` relates the places of
`budgetLimit` and the translator to what their channels hold. `Chain` is every reply
between the reader and the caller, the oldest first: its numbers increase, and
unless a reply found its channel full or the context was cancelled its length is the
number of replies the reader delivered. Every hand-over inside the pipeline leaves
the chain as it is.

About `Consolidation`: ConsolidatesHolds. `ConsolidationInv` says what the translators'
state is of the replies that have arrived: the mark of a key is its newest timestamp,
the buffer has a reply of every key that was answered and the newest if all or none
are stamped, `order` lists the answered keys once each by their first replies, `errs`
the errors as they came. That Latest emits as many replies as there are answered keys
is an argument about cardinalities, one key or error at a time.

`LinkProofs`, from `HandshakeAssumption` and `FramesAssumption`: HandshakeAgrees,
BatchesFit, SequenceNumbersConsecutive and BodiesGenuineHolds.
`SideInv` is what one side has of its own,
whoever is at the other end; `Lockstep`, between two sides of this code, lists the
places the two can be in together with the message on its way. Agreement follows from
`Lockstep`, and the bounds against another implementation from `SideInv`. `FramesInv`
adds that the Batcher was made from what the handshake left, that what is in a lane
and on the network fits, and, until a batch is lost or overtaken, that the batches of
a lane follow each other up to the lane's counter. The number of fragments is a
quotient, so this proof has lemmas about division; where one argues by induction over
numbers it uses `LeastNumber` (a set of numbers has a least one).

BodiesGenuineHolds is for messages that the receiver accepts (`SizesFit`: of a message
above MaxMessageSize the reassembler drops the beginning and dispatches the rest).
`BodiesInv` says that every open FRAME, every batch on
the link and every reassembly holds runs of cells of one message each. Without faults
(`Tiled`, `Opened`, `Ordered`), so on every stream and however often the sequence
numbers wrap, what is on the link continues the run that is being put
together, and on each lane the messages dispatched, on the link and in the open FRAME
come in this order. With faults (`Numbered`, `Expecting`), whatever carries the sequence
number after that of a fragment, or the one that a reassembly expects, is the next
fragment of the same message: `Gap` then throws away everything else. This lasts while
fewer batches were sent than there are sequence numbers (`Lasting`, the negation of the
property's `CameRound`); that a lane has then not used a number twice is `Bounded`.

`DiscoveryProofs`. About `Scouting`, from `ScoutAssumption`: ScoutSafeHolds. It rests on
the dispatcher's mutex (who delivers holds it, and what it delivers is not yet in
`seen`), and on Run waiting for all readers before it returns. About `Multicast`, from
`MulticastAssumption`: AttributedHolds. `LatestJoin` says that an address names the
member whose JOIN was received from it last, `OwnFragments` that an entry's reassembly
holds fragments of its own member only. A new entry begins with an empty reassembly
under a name that no address points to; that there is one is the pigeonhole lemma
`FreshName`.

**Only model-checked:** everything about liveness (fairness and `ENABLED` are beyond
this prover), and the two invariants about what recursive operators compute:
SentIsReceived (`Vle`, `Codec`, `Wire`: an integer is as many bytes as it needs, a
message as many fields as it has) and KeySets (`KeyExpr`: canonize, intersects and
includes go through the chunks). They would need induction over data, which the
prover's library offers only through theorems that its backends cannot instantiate.

## 6. Findings

Each is shown by a run whose property TLC refutes.

1. *Close may hang* (`zenoh/session.go:215`). If Close visits the registered
   Runtimes after the reconnect loop's `Run` and before its `RegisterRuntime`,
   that Runtime is never told to stop, and Close waits for the orchestrator as
   long as the link lives. `CloseReturnsUnlessRacingInstall` shows that it is
   the only way with a router that answers its handshakes and no reader stuck in its
   own send. `startRuntimeForPeer` has the same gap
   (`zenoh/session_peer.go:400`), which `PeerCloseReturns` names.
2. *A peer's token is reported gone under another peer's key*
   (`internal/session/liveliness.go:93`). Tokens are kept by id alone, and every
   session counts its ids from 1. With two unicast peers the D_TOKEN of one
   overwrites the other's entry, and the U_TOKEN of one is delivered as a Delete on
   the key of the other. In client mode `RightKey` holds, up to the limitation that
   `liveliness.go:87-92` states itself: of foreign tokens that zenohd forwards under the
   id 0, the Delete goes to the one declared last.

## 7. Observations

Met while modelling. No run is kept for these; where a module has the property that
fails (`Runtime!ShutdownCompletes`, `Replay!NoGhost`, `Frames!SNsConsecutive`), adding it
to that module's configuration shows the behaviour.

Sessions and links:

- The reader sends RESPONSE_FINAL through a select on OutQ and LinkClosed, and
  LinkClosed is its own to close (`zenoh/put.go:304`). With OutQ full and the writer
  gone, Done never comes, where `run.go:90-92` speaks of a bounded shutdown, and
  Close waits with it, in client and in peer mode. `StopReachesDone` shows that this is
  the only obstacle to Done.
- A message with a priority that is none makes Enqueue fail (`batcher.go:110`), which
  the writer takes for a failed write (`writer.go:66-68`): it drops everything from then
  on, while the link stays up.
- Lanes overtake each other in the Batcher (`batcher.go:187-202`), as
  `query.go:92-95` says; callers that need an order must use one lane.
- A Drop between the snapshot and the replay is undone at the router
  (`zenoh/session.go:516`): the dropped entity stays declared. `GhostOnlyByRace`,
  which is proved, says that this is the only way.
- The handshake has no deadline (`handshake.go:68`): a silent router holds Open,
  the reconnect loop and with it Close, although `zenoh/session.go:381-383` says
  that an attempt is cancelled at once by Close. In peer mode a client that connects
  and stays silent holds `handleAccepted`, which peerWG counts, and Close with it. Both
  models have the behaviour (`RouterSilent`, `LinkSilent`) and the properties name it.
- On the fast-stop path Done closes with items left in OutQ, where
  `run.go:105-107` says that the queue has drained.
- In peer mode the tiebreak is decided against the registered Runtime even if it is
  dead and only waits for its watcher (`session_peer.go:375`). A schedule in which the
  watchers always come last makes two peers refuse each other's good links round
  after round; `PeersConverge` excludes exactly it.
- Two dial loops of the smaller node to one peer both count as canonical: each new
  link shuts the other's down, whose loop redials (`session_peer.go:387`).
- A peer discovered by scouting is dialled once; when that link is lost nobody
  redials it.
- A multicast group has no reconnect: after one failed write its writer drops
  everything (`writer.go:66`), and Enqueue on a group that was torn down still says
  true.

Frames and messages:

- Without QoS the batcher keeps lanes per priority while the writer sends all of
  them without a priority (`batcher.go:27-29`, `writer.go:162-166`), so the sequence
  numbers at the receiver are not consecutive; hence `SNsConsecutiveWithQoS`.
- After a gap the tail of a fragmented message opens a new reassembly and may be
  dispatched as a message, where `reassembler.go:32` says that a gap drops the message.
  `BodiesGenuine` allows the tail and says that parts of two messages are not joined.
- On datagrams they can be, once the sequence numbers come round: FRAMEs never touch the
  reassembler (`reader.go:136`), so if the last fragment of a message is
  lost and FRAMEs complete the round on its lane, the next fragment has the
  number that is expected (`reassembler.go:86`). This takes as many batches as there
  are numbers. The model has it: without `CameRound` in `BodiesGenuine` the `link` run
  shows a message joined from two.
- A query or an OAM on a multicast group makes `multicast_dispatch.go:41-44` skip the
  rest of the datagram, where its comment says that the reader advances to the next
  message of the FRAME.
- The mandatory flag of an unknown extension is never looked at on receive
  (`internal/codec/ext.go:17`), and a network OAM makes the reader skip the rest of
  its batch.
- `**` and `*/**` stand for the same keys, are both canonical and are not Equal,
  where `keyexpr.go:51` says that canonical forms are equal when the sets are.

Gets and queries:

- A Get without timeout that is registered after `cancelAllGets` and accepted by
  the dead Runtime's OutQ never ends (`run.go:297`). `GetsEnd` speaks of the Gets that
  were running.
- `runCancelWatcher` may see `translatorExited` before the context and leave the
  collector registered (`get.go:493-494`).
- A reply that finds the Get's channel full is dropped (`get_collector.go:80-85`), as
  `GetOptions.Buffer` documents; the Get still ends with its RESPONSE_FINAL.
- Latest consolidation of timestamps 2, none, 1 of one key keeps 1
  (`get.go:411`); `Consolidates` therefore speaks of keys whose replies are all
  stamped or all unstamped.
- In a mesh responses are broadcast and carry a request id that every session
  counts from 1 (`zenoh/query.go:87`), so replies reach strangers; every peer
  sends its own RESPONSE_FINAL and the Get ends with the first
  (`get_collector.go:96`); and the end of one Runtime cancels every Get of the
  session (`run.go:297`). `Queries` is checked between two sessions.

Inbound data and configuration:

- `ResetMatching` and the resets of aliases and tokens run after the fresh link is in
  use (`session.go:440`) and may wipe what the new link has already declared. The
  matching status still converges; an alias that was wiped is unknown, and its samples
  are dropped or, for an alias on top of it, delivered under a wrong key.
- The tokens of a lost link are forgotten, and no Delete is reported for those that
  do not come back (`liveliness.go:131`).
- Drop from the subscriber's own callback waits for that callback (`handler.go:54`).
- Drop of a subscriber sends U_SUBSCRIBER before it closes the handler
  (`zenoh/subscriber.go:79-85`), without a context: with OutQ full and a peer that keeps
  its link up and reads no more, it waits, and so does who reads from the handler.
- Multicast data that comes from an address before its sender's JOIN, because that was
  lost or overtaken, is dispatched under the member that used the address before
  (`multicast_peer.go:142`, `464`), where `466` speaks of "dropping until JOIN seen" and
  `151-153` of the ZenohID of the originating peer.
- `scouting/multicast/listen` silently ignores a value that is not a bool
  (`config.go:408-416`), where `171-173` and `234-235` say that a wrong-shaped value at a
  recognised key is always an error.
- `handler.go:27` speaks of an unbounded buffer; it holds 1024.
- `InsertJSON5` of an object with one bad leaf leaves those visited before it applied
  (`config.go:514`), and an empty `autoconnect` array means "none" in the parser
  (`config.go:440`) and the default where it is used (`session_peer.go:160-163`).

## 8. What is not modelled

- *Transports* (`internal/transport` links, TLS and QUIC set-up, `framing.go`): I/O.
  A link is modelled by how its users see it.
- *The rest of the multicast runtime*: Enqueue, Close and the sockets of a group; its
  Batcher is `StartGroup` of `Link`.
- *The JSON5 parser, the syntax of locators, the text of key expressions* (Concat
  included): text without state.
- *Truncated or corrupt input*: left to the repository's fuzz tests. The bits of the
  QoS extension other than the priority, and value types (ZBytes, Encoding, options),
  which are immutable.
- *More than two nodes* in `PeerLinks` and `Queries`.
- *Durations.* Except for the ticks of `Multicast`, a timer may fire at any moment, so
  every property holds whatever the durations are.
- Logging, examples and the interoperability tests.
