# A TLA+ verification of campello_net

campello_net is a C++ networking library for games: a UDP transport with
reliable and unreliable channels, other transports and decorators, a manager for
servers, hosts and clients, and on top of it entities, remote calls, state
replication, time synchronisation and prediction.  This directory holds
TLA+ modules of its protocols, the TLC configurations that check them on small
instances and the TLAPS proofs that cover every instance.  All paths below are
those of the repository, with its root called `src/`.

    tlc -workers 2 -config UdpOrdered.cfg MCUdpLink     # a run
    tlapm UdpLink_proofs.tla                            # a proof module

`PROJECT.json` lists the components, the runs, the mutants (a faulty variant of
a definition for each property, under which TLC must find it violated), the
source lines each definition stands for, the hazards, and the theorems.

## 1. The system

The program is single threaded.  The application calls `NetworkManager::update`
once a frame; that polls the transport, which drains the socket and then runs
its timers, and pops the messages it received.  Concurrency is between
processes: every peer runs the same code, and between them is a network that
loses, repeats, delays and reorders datagrams.

| component | state | operations | used by |
|---|---|---|---|
| `UdpTransport` | `connections_` by address: state, four channels (`local_seq`, `remote_seq`, `ack_bits`, `pending`); `fragment_assemblies_`; `receive_queue_` | bind, connect, disconnect, send, poll, pop_receive | `NetworkManager`, decorators |
| `EncryptedTransport` | per peer: outbound counter, `highest_inbound`, `seen_bitmap` | send, pop_receive; the rest is passed on | `NetworkManager` |
| `NetworkSimulator` | `delay_queue_`, `ready_recv_`, settings | as ITransport, around another | tests |
| `LoopbackTransport` and its hub | servers and clients by address, next port; delayed, pending and ready packets | as ITransport, within a process | tests, hosts |
| `EmscriptenWebSocketTransport` | the browser's queue, `recv_queue_` and a reading index | as ITransport, client only | `NetworkManager` |
| `NetworkManager` | mode, `clients`, `local_client_id`, `message_queue`, `awaiting_accept`, callbacks | start, stop, poll/update, send, broadcast, disconnect_client, add_local_client, pop_message | application |
| `NetworkReplicationManager` | `snapshot_history_`, `client_states_` (last ack, visible entities), `dirty_entities_`, `last_received_snapshot_` | server_tick, client_tick, on_snapshot_ack, on_receive_delta, client connected/disconnected | `NetworkManager` (callbacks, system messages) |
| `NetworkEntityManager`, `RpcManager` | spawned entities, owners, `max_entities_`; handlers, a bucket per call | spawn, destroy, set_owner, send_full_state_to_client; invoke, receive | `NetworkManager`, replication |
| `RateLimiter`, `ConnectionToken` | token buckets; none | allow; issue, validate | `NetworkManager` |
| `NetworkClock`, `NetworkTime` | tick and accumulator; smoothed offset and round trip | advance, align_to_server_tick; record_sample | application |
| `InputBuffer`, `LagCompensator`, `SpatialInterestManager` | rings by tick; grid of cells | store, retrieve, prune; rewind; register, update, query | application, replication |
| `LanDiscovery` | one socket for both roles, time since the last beacon | advertise, listen, poll | application |
| `BitStream` and the serializers | bits, writing and reading position | write, read, align, reset | all |
| crypto, logging | none | pure functions | all |

How they interact: the manager hands the transport payloads with a
reliability and pops payloads with the sender's address; a system message
starts with a magic prefix and is dispatched to the manager itself, the entity
manager, the replication manager or the RPC manager.  The replication manager
is told of clients by `on_client_connected/_disconnected` calls from every
place that adds or removes one.

What is hard in it, and what therefore has to be right:

* **Reliable delivery over UDP.** Sequence numbers, acknowledgements in the
  headers of packets going the other way, a bit mask of earlier ones,
  retransmission with a retry limit, connections that either end may lose
  without the other noticing.  Right means: in order, once, nothing forgotten
  that was not received, and an end to retransmission.
* **Fragments**, which share a sequence number and arrive in any order.
* **The replay window** of the encrypted transport, a shifting bit mask driven
  by whatever counters arrive.
* **Deltas against acknowledged snapshots**, with ids that wrap, a bounded
  history and messages that are lost: a client must not be left with a stale
  entity because the server believes it has the new one.
* **The client list**, which changes through requests, replays, refusals,
  oversized packets, notifications, local clients and restarts, and which the
  callbacks, the replication manager and the client's own idea of its id have
  to agree with.

* **Entities and calls**, whose messages race with the full state sent to a
  client that joins, and whose addressees come from tables that change.
* **The rings and wrapping counters** of snapshots, inputs and history, which are
  looked up by the distance of 16-bit numbers.
* **Quantities that are smoothed or refilled**: clocks that chase each other,
  offsets, buckets.  Right means that they settle, and within known bounds.
* **Shared things behind a small interface**: the hub with its raw pointers, the
  socket of discovery, the queue the browser fills between two calls.

`PROJECT.json` lists these hazards one by one with their lines.

## 2. Modules

| module | models | composes |
|---|---|---|
| `UdpChannel` | one channel of a connection: numbering, acknowledging, accepting, counting retries, as operators on a record | |
| `UdpLink` | the transports of a client and a server and the network between them | `UdpChannel` for both ends |
| `OrderedStream` | abstract: what a ReliableOrdered channel promises | implemented by `UdpLink` |
| `UdpFragments` | fragmentation and reassembly in one direction, with the acknowledgements that come back | `UdpChannel` at both ends |
| `EncryptedTransport` | nonce counters, replay window and the receive loop, over an inner transport with the two behaviours of `UdpLink`: ordered, and arbitrary | |
| `Replication` | the server's and the clients' replication managers over the Unreliable channel | |
| `NetworkSession` | the server's or host's manager and the clients' managers over the ReliableOrdered channel | what `UdpLink` shows of it |
| `NetworkEntities` | the entity and RPC managers of a server and its clients | the ordered stream of `UdpLink`, one per direction |
| `QueueFilter` | what a loop leaves of a queue from which it erases some elements, by their positions | |
| `LoopbackTransport`, `NetworkSimulator`, `WebSocketTransport` | the component of that name | `QueueFilter`; in `MCTransports` with `EncryptedTransport` |
| `LanDiscovery` | the component of that name | `MCTransports` |
| `RateLimits`, `NetworkTime`, `ConnectionToken`, `NetworkClock` | the component of that name, with the part of `NetworkManager` or `RpcManager` that drives it | `MCServices` |
| `InputBuffer`, `LagCompensator`, `SnapshotInterpolation`, `SpatialInterest`, `BitStream` | the component of that name | `MCServices` |
| `MC...` | values of constants for TLC, symmetry, suites | |
| `UdpChannel_proofs`, `UdpLink_proofs`, `UdpFragments_proofs`, `Replication_proofs`, `NetworkSession_proofs`, `NetworkEntities_proofs` | theorems about the module of that name | the module they extend |
| `Services_proofs` | theorems about the services and their suite | `MCServices` |
| `Transports_proofs` | theorems about the encrypted and the other transports, discovery and their suite | `MCTransports` |

### UdpChannel and UdpLink

`conn[e]` is the entry side `e` has in `connections_` for the other side.  Its
`channels` are the four of the code.  A message is named by the incarnation of
the connection that sent it and its index in it, which is all that delivery can
be about; `got` and `sent` are histories of what was handed up and submitted.
`ack_bits` is the set of its set bits.  `remote_seq` starts at the largest
sequence number, `SeqMod - 1`, as in the code (0xFFFF).

`net` is the set of all datagrams ever sent; receiving does not remove one.  So
loss, duplication, delay and reordering are all there without an action for
each.  A poll is a `process_packet` step for every packet and a `poll_end` step
for the timers (`resend_pending`, keep-alive, `cleanup_connections`);
`receiving[e]` keeps the application's
calls out of the middle of it.  Time is left out: `poll_end` chooses which of
the pending packets are due and whether the peer has been silent too long, and
`resend_pending` gives the connection up exactly where the code does.  Bandwidth
limits drop or delay packets, which the network does anyway.  `connect()` binds
a new port and so makes a new link; the server may restart on its address, and
a packet from an unknown address makes a connection, at either side.

The actions are `bind`, `connect`, `disconnect`, `send`, `pop_receive`,
`process_packet` (header handling, then one of Handshake, Disconnect, Ack,
User) and `poll_end`.

### UdpFragments

The sender's and receiver's `UdpChannel`s for the channels in use, the fragments
in flight, and `fragment_assemblies_`.  A fragment is (message, index), so that
a property can say of a payload whose fragments it is made of.
`received_mask` has `MaskBits` bits (8 in the code).

### EncryptedTransport

The server seals packets with a counter, the inner transport delivers them, and
`NetworkManager`'s receive loop pops until `pop_receive` returns false.  A packet is its counter, its
reliability and whether it is intact: the cipher is an opaque seal that a
damaged packet fails.  The bit mask is the set of distances from
`highest_inbound`.  As in the code the window moves before the seal is checked.

### Replication

Bytes of an entity are a value.  `server_tick` is one turn of the tick loop
with everything `build_and_send_snapshot` does: build the full or the dirty
snapshot, store it, and for each client choose between all of it and what
differs from its baseline.  `history` is the ring buffer, oldest first, and
`retrieve` computes a slot from the distance of ids as the code does.
Messages live for `MaxDelay` ticks.  Whether an interest filter is set
(`filtered`) is chosen at the start, and what it accepts changes with the game.

### NetworkSession

A peer is one life of a client's manager from `start()` to `stop()`, because
each start makes a new transport with a new address, which is what the server
knows it by.  Each direction is a stream of numbered messages from which the
receiver takes the next position: this is `ConsecutivePositions` of `UdpLink`.
A connection that one end loses starts again at position 1 there, and old
messages may still arrive, which is what `UdpLink` shows of reconnection
(`ConsecutivePositions`, and `QueueInOrder` in section 4).  The history variable `lost`
names the peers whose connection one end has lost, or whose server stopped.  Approval callback, token and rate limiter may answer anything.  A
`Disconnect` packet of the transport (`bye`) may overtake messages.  `poll()`
contains code that sends a connect request again; no state reaches it, so it is
not an action.

### NetworkEntities

The server's `entities_`, the clients' copies of it (`mirror`) and the handles
their bridges have alive.  Spawns, destroys and calls share one stream to each
client, and `join` and `leave` happen between any two of them.  A join is the
whole of the manager's reaction, the full state included.  The receiving
handlers are an action each, which returns early as the code does: an entity
that is known already, a manager that is full, a call whose arguments are larger than
the client's limit (`ClientPayload`, as `ServerPayload` is the server's), a call without
a handler or without a token of its bucket.  So a call that arrives may be refused:
`due` are the calls made for a client and not yet handed to its `RpcManager`, `missed` the
clients at which one ran and did not find its entity.

### The suites

Small components that share no state are checked together in two suites,
`MCTransports` and `MCServices`.  Each has a variable `focus`, chosen at the
start, that says which component a behaviour is about; the others keep their
initial state.  So the states of a suite are the sum, not the product, of those
of its components, and each property is that of its component.  Definitions of these
modules have a prefix (`lb_`, `Rl`, ...) since a suite extends all of them.  Loops are
recursive functions inside the operator that needs them, and erasing loops are `Kept` of
`QueueFilter`, so that the provers can reach both.

* `LoopbackTransport`: the hub's tables by port and the three queues of each
  transport.  `lb_poll` flushes what is due and takes what is pending, in that
  order.  `LbDisciplined` keeps applications from binding an address that is
  taken and from lowering a latency under packets that are delayed; without
  that `LbRegistered` and `LbInOrder` fail (section 4).
* `NetworkSimulator`: the settings may change at any time within `SimSettings`;
  random choices are nondeterministic.
* `WebSocketTransport`: the browser opens, closes and receives between any two
  calls.  An empty message is told apart because the drain stops at it.
* `LanDiscovery`: `lan_tick` is the time between polls, the buffer of a socket
  may be full (`LanBuffered`), foreign programs send datagrams, and each beacon is lost
  for each listener or not.
* `RateLimits`: whole units of time and tokens.  `rl_log` is what arrived, with
  what each bucket answered, and the properties are about every window of it.
* `NetworkTime`: smoothed values are integers, multiplied so that the factors
  0.1 and 0.2 are exact for the first three samples; beyond, the model would round to
  one part in a thousand where the code keeps a double.  The theorem is about any number.  The host's own time exchange with
  itself is left out: its offset is 0.
* `ConnectionToken`: times and widths are scaled; the MAC is the secret.
* `NetworkClock`: ticks are relative to the server's, so that the clock runs for
  ever and settling is a real liveness property.  A frame aligns the clock once, with the
  newest snapshot, and the latency does not change.
* `InputBuffer`, `LagCompensator`: ticks are naturals of which the code sees a
  remainder, so that a property can say which lap a value is from.  The history is
  what the replication manager stores: every entity on a full tick, only the dirty ones
  on another, nothing without clients although the id is used up.
* `SnapshotInterpolation`: the position of an entity grows, so that moving
  backwards is visible; blending is exact.
* `SpatialInterest`: points in two dimensions.
* `BitStream`: bytes of three bits, words of two bytes, and every kind of value
  in any sequence, strings and vectors among them that may be written but are longer
  than the reader takes; floats are sign, exponent and mantissa of a scaled format,
  which `write_half` needs to be told apart from a copy.

## 3. Runs

Passing runs:

| run | instance | shows |
|---|---|---|
| `udp_ordered` | 2 messages one way and 1 back, one connection, 8 sequence numbers, 2 ack bits, 1 retry | `OrderedDelivery`, `AckedWasDelivered`, `ReportedIsReleased` (a header releases all that its mask covers), `ImplementsStream` (refinement of `OrderedStream`) |
| `udp_reconnect` | 2 messages one way, 2 incarnations at each side, restarts | the inductive invariant `OrderedInv`, `LifecycleForward` |
| `udp_liveness` | 1 message each way, fair polling | `RetransmissionEnds`: `RetriesBounded` and `DeliveredOrClosed` |
| `frag_reassembly` | 2 messages of 2 or 3 fragments on the unordered channel, a mask of 2 bits | `AssembledIntact`, `ReassembledWhenArrived`, `AssembliesInv`: `AssemblyOfOneMessage` and `NoStuckAssembly` |
| `repl_baseline` | 2 entities, 1 client that connects twice, 8 ids that wrap, history of 3 | `BaselineInv`: `BaselineIsAcked`; `BaselineNeverBack`, `JoinerComplete` |
| `repl_converge` | 2 entities, 2 changes, 4 ids, history of 2, fair | `Converges` |
| `session_clients` | 2 clients, 2 slots, data both ways | `CallbacksTrackClients`, `ReplicationTracksClients`, `ClientCallbackOrder`, `TypeOK` |
| `session_host` | host with its own, a local and a remote client, a lost connection, a restart | `EntriesDistinct`, `IdentityAgrees` |
| `session_live` | 2 clients for 1 slot, fair | `ConnectAttemptEnds`, `RemovedIsTold`, `SlotsBounded` |
| `entities` | 2 clients, 2 entities, 2 calls with arguments of 3 sizes, two joins | `MirrorConverges` (late joiners end with the server's entities), `BridgesInv`: `HandlesMatch`; `CallsInv`: `CallFindsEntity`, `CallsAddressed` |
| `transports` | see `Transports.cfg` | encrypted: `NoReplay`, `FreshAccepted` (nothing new inside the window is refused); `TransportsInOrder`: `LbHearsItsServer`, `LbInOrder`, `SimInOrder`, `SimAccounted`, `WsStream`; `SharedStateInv`: `LbRegistered`, `LanSocket`, `LanRate`; under fairness `WsDelivered` and `LanFound` |
| `services` | see `Services.cfg` | `RateLimitsInv`: `RlWithinLimits`, `RlRefusedForALimit`; `ConnectionTokenInv`: `TokValidity`; `ClocksInv`: `TsErrorBounded`; `RingsInv`: `IbOwnInput`, `IbKept`, `LagRewinds`, `SbBrackets`; `SbForward`; `SpatialInterestInv`: `SpIndex`, `SpQueryComplete`; `BitStreamInv`: `BsInStep`, `BsRoundTrip`; under fairness `ClkSettles` |

An invariant whose name ends in `Inv` is a conjunction of the parts named after it
and of type invariants; each part has its own comment in its module, and at least one
mutant that breaks it.  The type invariant of `UdpLink`, `ConsecutivePositions` and
`ReplayInv` are not repeated in a run since they are proved (section 5).

### Bounds

* `SeqMod`, `AckBits`, `MaxRetries`, `Window`, `MaxSnapshots`, `SnapMod` are
  parameters of the algorithms; the values of the code (2^16, 32, 10, 64, 128,
  2^16) are out of reach and the small ones keep the relations that matter:
  more sequence numbers than messages in `udp_*` (the proofs need just that and
  it is the hypothesis `NoWrap`), a window smaller than the number of packets, a
  history shorter than the id range.
* Two messages are the least for which order, the mask and a gap mean anything,
  one message back the least for acknowledgements to travel in headers.  The
  proofs have no such bound.
* `MaxInc` = 2 has a stale connection meet a new one.
* Replication: the transport's keep-alives may hold a connection open while no snapshot
  gets through, so nothing bounds how long a client goes without one.  A client for
  which it was more than `MaxSilence` ticks is in the history variable `stale` from then on,
  and `BaselineNeverBack` is about the others: beyond half the range, ids cannot be
  ordered at all.  All other properties are about every client.
* Sessions: each peer is one start(), `MaxData`, `MaxQueue`, `MaxLosses`,
  `MaxLocals` and `MaxStops` count what the application and the network do.
  `session_clients` has no lost connections and no server restarts since some of its
  invariants fail with them (section 4); `session_host` has both.
* Fragments: a message of two fragments fits the mask and one of three does not, so
  both sides of that boundary are reached.
* Entities: two clients so that one is sent what the other is not, two calls so that they
  have an order, arguments that fit both limits, the server's only, or none, two joins so
  that both clients are there or one comes back.  The limit on entities is not reached by two
  ids; the theorems have no bound.
* Encrypted: a window of 2 under 3 counters and two sessions, so that packets get
  too old, repeat and meet the window of the session before.  The theorems have
  no bounds.
* Loopback: two transports and two server ports are enough for every role; 8 ports
  with the clients' first at the end make the ports wrap.
* Simulator, WebSocket, discovery: two or three packets show order and loss; a
  buffer of one datagram is the hardest for discovery.
* Rate limits: four events in three instants fill and empty a bucket with a burst
  of two.  Time: three samples.  Tokens: two issued, a restart of the machine, and
  all seconds around the expiry.  Clock: latencies of no, less than one and more than
  one tick, and frames shorter and longer than a tick.
* The rings (`IbRing`, `LagRing`, `SbRing`) are shorter than what is stored in
  them, and `IbMaxTick` passes `IbTickMod` and `LagMaxTick` `LagTickMod`.
* Bit stream: sequences of three values of all kinds, so that each kind follows
  each other one on aligned and unaligned positions; `BsMaxString` and `BsMaxVector` are
  shorter than the longest values.
* Deadlock is checked except in the runs of sessions and entities and in the suites,
  in which a bound ends what the application does: peers live once, counters are
  used up.

### Fairness

* `UdpLink!FairSpec`: the application polls regularly, so polls end (WF), and a
  poll in which a retransmission is due happens again and again while the packet
  is pending (SF).  Nothing is assumed of the network.  With the retry limit
  this is enough: either a retransmission arrives, or the retries run out.
* `Replication!FairSpec`: the server ticks (WF), and of the full snapshots sent to a
  client infinitely many arrive (SF): a link on which none ever does is one
  the transport closes.
* `NetworkSession!FairSpec`: the server's application pops its messages, and a message
  reaches the other side while the sender's connection lasts: this is
  `DeliveredOrClosed` of `UdpLink`.  Nothing is assumed of messages sent on
  connections that are lost.

* `MCTransports`: a poll happens again and again and the browser opens a socket
  (WF on `ws_open`, `ws_poll`, `ws_pop_receive`); discovery is polled and time
  passes (WF).  Of a server's beacons those that reach the listeners' buffers, as far as
  these have room, are sent again and again (SF on `LanGetsThrough`): a network that loses
  all of them is one without that server.
* `MCServices`: frames go on (WF) and of the snapshots that are there again and again
  some are taken (SF): a clock whose every snapshot is lost is one without a server.

## 4. Disagreements between the code and what is said of it

Each row is a property that quotes what a comment, a document or a test says, and an
instance on which TLC shows a behaviour of the code that violates it: a
specification and the constants, most of them as in the configuration named (of
which a smaller module takes those it declares).  They are not among the regular
runs.  The gravest may be `UnorderedAckedWasDelivered` (a lost message is
acknowledged and never sent again), `ReassembledWhenArrived` (a fragmented
ReliableOrdered message never arrives), `MirrorConverges` and `IdentityAgreesAlways`
(clients that connect again).

| property | module | instance | at | the code |
|---|---|---|---|---|
| `UnorderedAckedWasDelivered` | `MCUdpLink` | `Spec`, constants of `UdpOrdered.cfg` with `Channels = {"ReliableUnordered"}, MaxSend <- Send31` | `transport/udp_transport.cpp:629` | The code shifts a 1 into ack_bits for every ReliableUnordered packet it receives, whatever the distance to the previous one, so the sender takes a message that was lost for acknowledged and drops it from its pending list; src/include/campello_net/transport/packet.hpp:13 says "ReliableUnordered,   ///< Guaranteed delivery, any order." |
| `FreshIsDelivered` | `MCUdpLink` | `Spec`, constants of `UdpLiveness.cfg` with `Channels = {"UnreliableSequenced"}` | `transport/udp_transport.cpp:632` | remote_seq starts at 0xFFFF and an UnreliableSequenced packet is dropped if seq <= remote_seq, which every 16 bit sequence number satisfies, so no packet is ever delivered; src/include/campello_net/transport/packet.hpp:14 says "UnreliableSequenced, ///< Unreliable, but stale packets are dropped." |
| `ReportedIsReleased` | `MCUdpLink` | `Spec`, constants of `UdpOrdered.cfg` with `SeqMod = 3, AckBits = 1, MaxSend <- Send41` | `transport/udp_transport.cpp:422` | The distance ack - seq is taken between ints and not reduced modulo 2^16, so after the wrap the bits for the sequences before it are ignored and those messages stay pending until the connection is given up; src/include/campello_net/transport/packet.hpp:39 says "std::uint32_t ack_bits = 0;              ///< Bitmask of prior 32 sequences." |
| `KeepAliveAcknowledges` | `MCUdpLink` | `Spec`, constants of `UdpOrdered.cfg` with `MaxSend <- Send20` | `transport/udp_transport.cpp:399` | The Ack packet carries the acknowledgement state of channel 0 only, which process_acks ignores, so with reliable traffic in one direction nothing is ever acknowledged and the sender gives the connection up after 10 retries; src/include/campello_net/transport/packet.hpp:22 says "Ack,        ///< Acknowledgment of received sequences." |
| `QueueInOrder` | `MCUdpLink` | `Spec`, constants of `UdpReconnect.cfg` | `transport/udp_transport.cpp:575` | Any packet from an unknown address makes a connection that expects sequence 0, so a retransmission that arrives after the 5 s silence timeout has erased the connection is delivered to the application a second time, after its successors; src/include/campello_net/transport/packet.hpp:12 says "ReliableOrdered,     ///< Guaranteed delivery, in-order." |
| `FlushBeforeClose` | `MCUdpLink` | `Spec`, constants of `UdpLiveness.cfg` | `transport/udp_transport.cpp:703` | disconnect() closes the socket and clears connections_ at once, so reliable messages that were not acknowledged are never sent again; src/todo.md:81 says "[x] Graceful disconnection (flush reliable queue before close) and timeout detection" |
| `ReliableHandedUp` | `EncryptedTransport` | `EncryptedSpec`, constants of `Transports.cfg` with `MaxCounter = 4, MaxSession = 1` | `transport/encrypted_transport.cpp:211` | A packet whose counter is 64 or more behind the highest one received is dropped, also when it is a ReliableOrdered packet that the inner transport has retransmitted and acknowledged, so it is never seen again; src/include/campello_net/transport/packet.hpp:12 says "ReliableOrdered,     ///< Guaranteed delivery, in-order." |
| `LoopDrainsQueue` | `EncryptedTransport` | `EncryptedSpec`, constants of `Transports.cfg` with `MaxSession = 1` | `transport/encrypted_transport.cpp:212` | pop_receive returns false when it drops a packet, with others still queued, and NetworkManager's receive loop then stops until the next update; src/include/campello_net/transport/i_transport.hpp:49 says "Pop one received user payload. Returns false when queue is empty." |
| `NewestHandedUp` | `EncryptedTransport` | `EncryptedSpec`, constants of `Transports.cfg` | `transport/encrypted_transport.cpp:110` | disconnect() reaches only the inner transport and leaves highest_inbound and seen_bitmap of client_state as they are, so the first packets of the next connection, whose server counts from 0 again, are dropped as too old or duplicates; src/include/campello_net/transport/i_transport.hpp:25 says "Close the socket and reset all state." |
| `ReassembledWhenArrived` | `MCUdpFragments` | `Spec`, constants of `UdpFragReassembly.cfg` with `Channels = {"ReliableOrdered"}, Counts <- Two, MaskBits = 8, MaxSend = 1` | `transport/udp_transport.cpp:606` | All fragments of a message carry its sequence number; the first one advances remote_seq past it and the others are then dropped as old, so a fragmented ReliableOrdered message is never delivered, and it is acknowledged all the same; src/include/campello_net/transport/udp_transport.hpp:16 says "Automatic packet fragmentation & reassembly" |
| `NoStuckAssemblyOfAnySize` | `MCUdpFragments` | `Spec`, constants of `UdpFragReassembly.cfg` with `Channels = {"Unreliable"}, Counts <- Three, MaxSend = 1` | `transport/udp_transport.cpp:553` | received_mask is a uint8_t and is compared with (1 << frag_count) - 1, so an assembly of more than 8 fragments holds all of them and is never complete; src/todo.md:31 says "automatic packet fragmentation & reassembly" |
| `AssembledIntact` | `MCUdpFragments` | `Spec`, constants of `UdpFragReassembly.cfg` with `Channels = {"Unreliable", "ReliableUnordered"}, Counts <- Two, MaskBits = 8, MaxSend = 1` | `transport/udp_transport.cpp:510` | Assemblies are found by sender and sequence number, but every channel numbers its messages for itself, so fragments of messages with the same number on two channels are put together into one payload; src/include/campello_net/transport/udp_transport.hpp:16 says "Automatic packet fragmentation & reassembly" |
| `AckedWasReassembled` | `MCUdpFragments` | `Spec`, constants of `UdpFragReassembly.cfg` with `Counts <- Two, MaskBits = 8, MaxSend = 1` | `transport/udp_transport.cpp:628` | The first fragment of a ReliableUnordered message to arrive sets remote_seq to its sequence number, so the next header acknowledges the whole message and its other fragments, if lost, are never sent again; src/include/campello_net/transport/packet.hpp:13 says "ReliableUnordered,   ///< Guaranteed delivery, any order." |
| `BaselineIsAcked` | `Replication` | `Spec`, constants of `ReplBaseline.cfg` with `FullSyncInterval = 4, FreshManagers = FALSE, MaxSilence = 8` | `network_replication.cpp:146` | Without clients build_and_send_snapshot returns before it stores a snapshot although its id is used up, so after that retrieve(), which counts slots back from the head by the difference of the ids, returns an older snapshot than the one a returning client acknowledges; src/src/network_replication.cpp:55 says "O(1) lookup: snapshot IDs are contiguous (increment by 1 per tick)." |
| `FallbackIsFull` | `Replication` | `Spec`, constants of `ReplBaseline.cfg` with `FullSyncInterval = 0, MaxSilence = 8, MaxJoins = 1` | `network_replication.cpp:213` | Whether a full snapshot is built is decided without looking at baselines, so when a client's baseline turns out too old it is sent scratch_snap_ with the dirty entities only, or nothing if there are none; src/todo.md:115 says "Automatic full-sync fallback when baseline is too old or client has no ack" |
| `ReceivedIsAcknowledged` | `Replication` | `Spec`, constants of `ReplBaseline.cfg` with `FullSyncInterval = 4, MaxSilence = 8, MaxJoins = 1` | `network_replication.cpp:332` | A client's last_received_snapshot_ starts at 0 and an id of 32768 or more is not newer than 0 in int16_t, so a client that joins then records no snapshot and sends no acknowledgement until the ids wrap; src/include/campello_net/network_replication.hpp:207 says "Per-client ack tracking: clients ack received snapshots" |
| `CallbacksTrackClients` | `MCNetworkSession` | `Spec`, constants of `SessionLive.cfg` with `MaxQueue = 2, MaxStops = 1` | `network_manager.cpp:744` | stop() clears the client list and calls neither on_disconnected nor the replication manager; src/include/campello_net/network_manager.hpp:130 says "Register a callback invoked when a client disconnects (Server/Host only)." and :73 that stop() is to "Stop all transports, disconnect all clients, and release resources." |
| `AttributedToSender` | `MCNetworkSession` | `Spec`, constants of `SessionLive.cfg` with `MaxQueue = 2` | `network_manager.cpp:159` | The least free id goes to the next client while messages of the client that had it are still in message_queue, so they are popped under the id of another client; src/include/campello_net/network_manager.hpp:114 says "ClientId client = 0; ///< Sender (or 0 for server-to-client messages)" |
| `UserDataOnly` | `MCNetworkSession` | `Spec`, constants of `SessionLive.cfg` with `Peers = {p1}, MaxQueue = 2` | `network_manager.cpp:994` | disconnect() sends the one byte of the message type without the magic prefix, which the server takes for user data and queues; src/include/campello_net/network_manager.hpp:118 says "Pop the next user message from the inbound queue." |
| `IdentityAgreesAlways` | `MCNetworkSession` | `Spec`, constants of `SessionClients.cfg` with `MaxQueue = 2, MaxLosses = 1` | `network_manager.cpp:288` | A client that the server removed when the transport had lost the connection is not told, and when its connect request arrives again it gets an entry with a new id while it goes on under the old one; src/include/campello_net/network_manager.hpp:180 says "the local ClientId assigned by the server during handshake." |
| `GoneIsRemoved` | `MCNetworkSession` | `FairSpec`, constants of `SessionLive.cfg` with `Peers = {p1}, MaxQueue = 2` | `network_manager.cpp:723` | A client that stops before its acceptance has arrived sends no notification, and the transport's own Disconnect packet and timeouts are not reported to NetworkManager, so the entry keeps its slot and is_client_connected stays true; src/todo.md:81 says "[x] Graceful disconnection (flush reliable queue before close) and timeout detection" |
| `ConnectAttemptEnds` | `MCNetworkSession` | `FairSpec`, constants of `SessionLive.cfg` with `Peers = {p1}, MaxQueue = 2, MaxLosses = 1` | `network_manager.cpp:792` | poll() sends the request again only if awaiting_accept is false, which nothing resets when the transport loses the connection; connection_timeout_sec is read nowhere, although src/include/campello_net/network_manager.hpp:39 says "float connection_timeout_sec = 10.0f; ///< Transport-level timeout" |
| `InitDataReachesJoiner` | `MCNetworkEntities` | `Spec`, constants of `Entities.cfg` with `InitData = {TRUE}` | `network_entity.cpp:157` | send_full_state_to_client sends every entity without the data it was spawned with; src/include/campello_net/network_entity.hpp:74 says "Send the full entity state to a specific client (late-joiner catch-up)." |
| `OwnerReachesClients` | `MCNetworkEntities` | `Spec`, constants of `Entities.cfg` | `network_entity.cpp:109` | set_owner changes the server's table only and no message carries the owner, so owner() of a client is always 0; network_entity.hpp:41 says "Track which entities exist and who owns them" |
| `MirrorConverges` | `MCNetworkEntities` | `Spec`, constants of `Entities.cfg` with `FreshManagers = FALSE` | `network_entity.cpp:150` | The full state only adds entities, so a client that connects again with the manager it had keeps those that were destroyed meanwhile; network_entity.hpp:43 says "Provide late-joiner catch-up" |
| `LbFromItsServer` | `LoopbackTransport` | `LoopbackSpec`, constants of `Transports.cfg` with `LbServerPorts = {2}, LbMaxSends = 3` | `transport/loopback_transport.cpp:214` | Delayed packets survive disconnect() and a later connect(), and reach a server they were not sent to; src/include/campello_net/transport/i_transport.hpp:30 says "Send data to the remote peer (client mode) or to all connected peers (server mode)." |
| `LbResetOnDisconnect` | `LoopbackTransport` | `LoopbackSpec`, constants of `Transports.cfg` with `LbServerPorts = {2}, LbMaxSends = 3` | `transport/loopback_transport.cpp:214` | disconnect() leaves delayed_outbound as it is; i_transport.hpp:25 says "Close the socket and reset all state." |
| `LbRegistered` | `LoopbackTransport` | `LoopbackSpec`, constants of `Transports.cfg` with `LbServerPorts = {2}, LbDisciplined = FALSE, LbMaxSends = 3` | `transport/loopback_transport.cpp:192` | A second bind() of an address, or one of a connected transport, is accepted and takes over the entry of the hub while the first still thinks it is bound; i_transport.hpp:25 as above |
| `LbRegistered` | `LoopbackTransport` | `LoopbackSpec`, constants of `Transports.cfg` with `LbFirstPort = 4, LbServerPorts = {4}, LbMaxSends = 3` | `transport/loopback_transport.cpp:87` | Client ports are taken without looking at bound servers, so a client can get the port of a server, which then gets no packet any more: clients are looked up first; i_transport.hpp:30 as above |
| `LbInOrder` | `LoopbackTransport` | `LoopbackSpec`, constants of `Transports.cfg` with `LbServerPorts = {2}, LbDisciplined = FALSE, LbMaxSends = 3` | `transport/loopback_transport.cpp:340` | A smaller latency lets later packets overtake those already delayed, also ReliableOrdered ones; src/include/campello_net/transport/packet.hpp:12 says "ReliableOrdered,     ///< Guaranteed delivery, in-order." |
| `SimInboundKept` | `MCTransports` | `Spec`, constants of `Transports.cfg` | `transport/network_simulator.cpp:148` | packet_loss is applied to packets that arrive as well, so what crosses the simulator twice is lost at twice the rate; src/include/campello_net/transport/network_simulator.hpp:58 says "Set the probability that an outbound packet is dropped." |
| `WsReliable` | `WebSocketTransport` | `WebSocketFairSpec`, constants of `Transports.cfg` | `transport/emscripten_websocket_transport.cpp:161` | poll() sees the closed socket before it drains the queue and returns, so messages that arrived between the last poll and the close are never delivered; src/include/campello_net/transport/emscripten_websocket_transport.hpp:19 says "all WebSocket messages are reliable and ordered" |
| `LanListensOnPort` | `LanDiscovery` | `LanFairSpec`, constants of `Transports.cfg` | `discovery/lan_discovery.cpp:122` | start_advertising of an instance that listens replaces its socket by one on an ephemeral port, and start_listening of one that advertises keeps that socket, so beacons sent to the discovery port are not heard; src/include/campello_net/discovery/lan_discovery.hpp:85 says "Start listening for beacons on @p discovery_port." |
| `RlExceedsALimit` | `MCRateLimits` | `RateLimitsSpec`, constants of `Services.cfg` with `RlClients = {c1}` | `rate_limiter.cpp:63` | A message refused for its bytes has used up a message token, so a later one is refused although no limit is exceeded; src/include/campello_net/rate_limiter.hpp:33 says "Returns true if allowed, false if any limit is exceeded." |
| `RlZeroIsUnlimited` | `MCRateLimits` | `RateLimitsSpec`, constants of `Services.cfg` with `RlClients = {c1}, RlMessages <- NoRateBurstTwo` | `rate_limiter.cpp:28` | A rate of 0 with the default burst leaves a bucket that is never refilled: after the burst everything is refused; src/include/campello_net/network_manager.hpp:43 says "///< 0 = unlimited" |
| `TokValidity` | `ConnectionToken` | `ConnectionTokenSpec`, constants of `Services.cfg` with `TokMaxExpiry = 5, TokMaxTime = 5` | `connection_token.cpp:82` | An expiry of up to 86400 seconds is accepted and stored in 16 bits, so a token for 65536 seconds or more lasts 65536 seconds less; src/include/campello_net/connection_token.hpp:29 says "How many seconds the token remains valid." |
| `TokValidityAcrossBoots` | `ConnectionToken` | `ConnectionTokenSpec`, constants of `Services.cfg` with `TokMaxTime = 5` | `network_manager.cpp:253` | Issue time and validation time come from steady_clock, which starts again with the machine: after a restart tokens in time are refused and expired ones can become valid again; src/include/campello_net/connection_token.hpp:17 says "timestamp    uint32_t  LE  (Unix seconds when created)" |
| `ClkFraction` | `NetworkClock` | `NetworkClockFairSpec`, constants of `Services.cfg` | `network_clock.cpp:55` | Slowing down takes half a tick from the accumulator, which may become negative; src/include/campello_net/network_clock.hpp:47 says "Fraction from 0.0 (start of current tick) to 1.0 (start of next tick)." |
| `ClkMonotonic` | `NetworkClock` | `NetworkClockFairSpec`, constants of `Services.cfg` | `network_clock.cpp:44` | Snapping sets the tick back when the clock was ahead; network_clock.hpp:44 says "Current local simulation tick (monotonically increasing)." |
| `ClkTickDue` | `NetworkClock` | `NetworkClockFairSpec`, constants of `Services.cfg` | `network_clock.cpp:20` | advance() takes every whole tick out of the accumulator, so time_until_next_tick() is above 0 after it and the loop of the documentation never runs a tick; network_clock.hpp:21 says "if (clock.time_until_next_tick() <= 0.0f) {" |
| `IbHas` | `InputBuffer` | `InputBufferSpec`, constants of `Services.cfg` | `prediction/input_buffer.cpp:38` | Tick 0 marks an empty entry and is also a tick, so has() of tick 0 is true for a client that never sent one; src/include/campello_net/prediction/input_buffer.hpp:32 says "Check whether input for @p client at @p tick exists." |
| `IbLastReceived` | `InputBuffer` | `InputBufferSpec`, constants of `Services.cfg` | `prediction/input_buffer.cpp:63` | The newest tick is looked for from 0 on with a signed difference, so in the second half of the 16-bit range nothing is newer than 0; input_buffer.hpp:41 says "The newest tick stored for @p client (0 if none)." |
| `IbKept` | `InputBuffer` | `InputBufferSpec`, constants of `Services.cfg` with `IbDelay = 6` | `prediction/input_buffer.cpp:12` | An input that is a lap of the ring late replaces a newer one in its entry; input_buffer.hpp:26 says "Older entries are overwritten once the ring buffer wraps." |
| `LagRewindsWrapped` | `LagCompensator` | `LagSpec`, constants of `Services.cfg` | `prediction/lag_compensator.cpp:23` | A tick that would be below 0 is set to 0, so in the first ticks after the 16-bit counter has wrapped the rewind misses the states before it; src/include/campello_net/prediction/lag_compensator.hpp:15 says "rewinds the relevant entities to the positions they had when the" |
| `LagContiguous` | `LagCompensator` | `LagSpec`, constants of `Services.cfg` | `network_replication.cpp:146` | A tick without clients uses up an id and stores nothing, so while the ring still holds older ticks a look-up by distance finds the snapshot of another tick and the rewind gives its states; src/src/network_replication.cpp:55 says "O(1) lookup: snapshot IDs are contiguous (increment by 1 per tick)." |
| `LagOldest` | `LagCompensator` | `LagSpec`, constants of `Services.cfg` | `prediction/lag_compensator.cpp:26` | get_rewind_tick never looks at the history: a tick that has left it is returned as it is; lag_compensator.hpp:41 says "If the history doesn't go back far" enough it returns the oldest tick |
| `SbSmooth` | `SnapshotInterpolation` | `SnapshotInterpolationSpec`, constants of `Services.cfg` | `network_replication.cpp:377` | on_receive_delta stores or applies a snapshot without asking whether a newer one has come, so what is shown moves back when the unreliable channel reorders; src/todo.md:179 says "200ms simulated jitter; remote entities move smoothly" |
| `SbSnapOnlyNew` | `SnapshotInterpolation` | `SnapshotInterpolationSpec`, constants of `Services.cfg` | `network_replication.cpp:489` | An entity that did not change is missing from a delta snapshot, and the frame between that one and the next that has it snaps it to the newer state; the comment there says "Entity only exists in newer snapshot (newly visible) — snap to latest." |
| `SpQueryComplete` | `MCSpatialInterest` | `SpatialInterestSpec`, constants of `Services.cfg` with `SpDisciplined = FALSE` | `replication/spatial_interest_manager.cpp:21` | set_cell_size leaves the entities in the cells of the old size, and queries look in those of the new one; the header says "Return all entities within @p radius of the given point." |
| `SpAgree` | `MCSpatialInterest` | `SpatialInterestSpec`, constants of `Services.cfg` | `replication/spatial_interest_manager.cpp:173` | query_visible looks with the client's or the default radius and never with the entity's, which is_relevant uses; the header calls the one "Return all entities visible to @p client" and the other "Check whether @p entity should be replicated to @p client." |
| `SpCapped` | `MCSpatialInterest` | `SpatialInterestSpec`, constants of `Services.cfg` | `replication/spatial_interest_manager.cpp:207` | get_filter hands out is_relevant, which knows no cap, so the replication manager sends everything that is near; the header says "Hard cap on how many entities a single client may receive (0 = unlimited)." |
| `BsNetworkOrder` | `MCBitStream` | `BitStreamSpec`, constants of `Services.cfg` | `src/include/campello_net/serialization/bit_stream.hpp:288` | Integers are swapped on little endian machines and then written with the most significant bit first, which makes them little endian in the buffer; bit_stream.hpp:17 says "Multi-byte values written at byte boundaries are stored in network (big-endian)" |
| `BsRoundTrip` | `MCBitStream` | `BitStreamSpec`, constants of `Services.cfg` with `BsItems <- WideItems` | `src/include/campello_net/serialization/quantization.hpp:28` | With 32 bits 1u << 32 is undefined and gives 1 in practice, so every value becomes 0; quantization.hpp:22 says "Number of bits to use (1–32)." |
| `BsRoundTrip` | `MCBitStream` | `BitStreamSpec`, constants of `Services.cfg` with `BsItems <- NegativeItems` | `src/include/campello_net/serialization/quantization.hpp:99` | The largest component is always read back positive and the others are not negated for it, so a quaternion whose largest component is negative comes back as another rotation; quantization.hpp:55 says "with minimal visual error" |

Where a property of a passing run appears here, the run leaves out what
breaks it: `CallbacksTrackClients` and `ConnectAttemptEnds` need
connections that are not lost and a server that is not stopped,
`ImplementsStream` a single connection, `ReportedIsReleased`
sequence numbers that have not wrapped, `AssembledIntact` one channel in use,
`ReassembledWhenArrived` the unordered channel and `BaselineIsAcked` clients
that start with a new manager each time.  In the same way `MirrorConverges` needs
a new entity manager for each connection (`FreshManagers`) and limits that agree
(`LimitsAgree`), the loopback
properties `LbDisciplined`, and `SpIndex` a cell size that is set before there
are entities (`SpDisciplined`).

Four rows are the unrestricted forms of properties that a run checks with the case left
out in the property itself, where it can be read: `IdentityAgreesAlways` (of `IdentityAgrees`,
which is about connections not lost), `NoStuckAssemblyOfAnySize` (of `NoStuckAssembly`, which
says that more fragments than the mask has bits are the only reason),
`LagRewindsWrapped` and `LagContiguous` (of `LagRewinds`, which is about ticks the subtraction does
not take below 0 and after the last one without clients).

## 5. Proofs

The theorems hold for every value of the constants that the named assumptions of the
modules and the hypotheses of the theorem admit.  A hypothesis leaves out what the
property does not survive (a row of section 4), what exceeds the width of a field, or what
lies beyond a bound of the model.

| module | theorem | states | hypotheses |
|---|---|---|---|
| `UdpLink_proofs` | `TypeCorrect` | `[]TypeOK` | |
| | `OrderedInvariant`, `OrderedDeliveryHolds`, `AckedWasDeliveredHolds`, `ConsecutivePositionsHold` | the invariant of that name | `NoWrap` |
| | `ImplementsStreamHolds` | `ImplementsStream`: refinement of `OrderedStream` | `NoWrap`, one connection (`MaxInc = 1`) |
| | `ReportedIsReleasedHolds` | the action property of that name | `NoWrap` |
| | `LifecycleForwardHolds` | the action property of that name | |
| | `RetriesBoundedHolds` | `[]RetriesBounded`, the safety half of `RetransmissionEnds` | |
| `UdpFragments_proofs` | `AssembledIntactHolds` | `[]AssembledIntact` | `OneChannel` |
| | `AssembliesInvHolds` | `[]AssembliesInv` | `OneChannel` |
| | `ReassembledWhenArrivedHolds` | `[]ReassembledWhenArrived` | `OneChannel`, `Unsequenced` |
| `Transports_proofs` | `TypeCorrect`, `ReplayInvariant`, `NoReplayHolds` | `[]EncTypeOK`, `[]ReplayInv`, `[]NoReplay` | |
| | `FreshAcceptedHolds` | `FreshAccepted` | |
| | `LoopbackHolds` | `LoopbackTypeOK`, `LbRegistered`, `LbHearsItsServer`, `LbInOrder` | `LbDisciplined`, `LbPortsApart` |
| | `SimulatorHolds` | `SimulatorTypeOK`, `SimAccounted` | |
| | `SimulatorOrderHolds` | `SimInOrder` | `SimOneDelay` |
| | `WsStreamHolds` | `WebSocketTypeOK`, `WsStream` | |
| | `LanSharedHolds` | `LanTypeOK`, `LanSocket`, `LanRate` | |
| | `TransportsCompose` | a behaviour of the suite is one of each component | |
| | `SharedStateInvHolds` | `[]SharedStateInv` of the suite | `LbDisciplined`, `LbPortsApart` |
| | `TransportsInOrderHolds` | `[]TransportsInOrder` of the suite | the same and `SimOneDelay` |
| `Replication_proofs` | `BaselineInvHolds` | `[]BaselineInv` | `FreshManagers` |
| | `BaselineNeverBackHolds` | `BaselineNeverBack` | `FreshManagers`, `WindowFits` |
| | `JoinerCompleteHolds` | `[]JoinerComplete` | `FreshManagers` |
| `NetworkSession_proofs` | `TypeCorrect`, `EntriesDistinctHolds`, `SlotsBoundedHolds` | the invariant of that name | |
| | `IdentityAgreesHolds`, `ClientCallbackOrderHolds` | the invariant of that name, with lost connections and restarts | |
| | `CallbacksTrackClientsHold`, `ReplicationTracksClientsHolds` | the invariant of that name | `MaxStops = 0` |
| `NetworkEntities_proofs` | `BridgesInvHolds`, `CallsAddressedHolds` | `[]BridgesInv`, `[]CallsAddressed` | |
| | `MirrorConvergesHolds`, `CallsInvHolds` | `[]MirrorConverges`, `[]CallsInv` | `FreshManagers`, `LimitsAgree` |
| `Services_proofs` | `ConnectionTokenInvHolds` | `[]ConnectionTokenInv` | `TokFits` |
| | `SpatialInterestInvHolds` | `[]SpatialInterestInv` | `SpDisciplined` |
| | `LagRewindsHolds`, `InputBufferInvHolds`, `SbBracketsHolds` | the parts of `RingsInv` | none; `IbFits`; none |
| | `SbForwardHolds` | the action property `SbForward` | |
| | `ClkTypeCorrect`, `TsErrorBoundedHolds` | the parts of `ClocksInv` | `ClkNear`; none |
| | `RateLimitsInvHolds` | `[]RateLimitsInv` | |
| | `ServicesCompose` | a behaviour of the suite is one of each component but `BitStream` | |
| | `RingsInvHolds`, `ClocksInvHolds` | `[]RingsInv`, `[]ClocksInv` of the suite | `IbFits`; `ClkNear` |

`UdpChannel_proofs` has the lemmas on the operators of a channel: what keeps
its type, and what receiving on an ordered channel does.

What the hypotheses say, and why the code meets them:

* `NoWrap`: each side sends fewer than `SeqMod` messages in a connection.  With
  wrapping, a datagram may be delayed until its number is current again.
* `OneChannel`, `Unsequenced`: fragments use one channel, and the channel does not drop by
  number.  `fragment_assemblies_` mixes channels, and an
  ordered channel drops all fragments but the first (section 4).
* `FreshManagers`: the application makes a new manager for a new connection.  The
  old one keeps ids and entities of the old server state.
* `WindowFits`: `MaxSilence` and the delay are within half the range of ids, so that a client
  that is not `stale` has ids that can be ordered.
* `MaxStops = 0`: the server is not stopped, which clears the list without a callback.
* `LimitsAgree`: a client has no smaller `max_entities_` than the server, and the
  server has one if the client does.  Otherwise the client drops a spawn for lack of
  room and is not sent it again.
* `TokFits`: times and expiries fit their fields.  `IbFits`: the
  ring is no shorter than the lead of the client and the delay of its inputs, and both
  together are within half the range of a tick.
* `LbDisciplined`: applications bind free addresses with transports that are not
  connected, and do not lower a latency under packets that are delayed (section 4).
* `LbPortsApart`: the hub has not given out all its ports, and gives none that an application
  binds.  The code counts up from 50000 and skips only the ports of clients that are
  there, so after 65536 connections the port of one that has left comes back under packets
  that are still delayed for it, and a server's port can be given to a client (section 4).
* `SimOneDelay`: all settings have the same delay and no jitter.  Jitter is there to reorder,
  and a shorter delay overtakes a longer one.
* `SpDisciplined`: the cell size is set while there are no entities.
* `ClkNear`: the bound of the model on the distance of clocks exceeds the latency; it
  is a bound of the model, not of the code.

**The ordered channel.** `OrderedDelivery` is not inductive: it says nothing of
packets in flight or of
`remote_seq`.  `OrderedInv` adds, in four named parts: a side that has had no
connection has initial channels (`FreshInv`); `remote_seq` is the number of
messages handed up less one, and only what was sent is pending (`ChannelInv`);
the sequence number of an ordered packet is the position of its message
(`PacketInv`); and, while neither side has made its connection twice, every
packet in flight carries a message that was sent and acknowledges only what its sender had
received, and what is neither pending nor received does not exist (`LinkInv`).  The invariant
is stated for any connections and any network, so that the proof can follow a handler
through its stages: `process_packet` creates a connection (`CreateInv`), applies
the acknowledgements (`AcksInv`, whose heart is `AckedIsReceived`: a bit that is
set stands for a message that was received), receives (`ReceiveInv`) and
changes the state (`StateInv`), each a lemma; `send`, `resend_pending` and the
adding of packets have theirs.  The refinement maps every step from this invariant and
`IncInv` (no side makes more than `MaxInc` connections); `ReportedIsReleased` needs the converse of
`AckedIsReceived`, that every message received in the window has its bit in the header
(`ReportInv`).

**Fragments.** `FragInv` says that packets on their way are fragments of sent messages
(`NetHonest`), that every assembly is of one sent message (`AssembliesKnown`), one for a
sequence number (`AssembliesApart`), and that the counters match (`CountsMatch`).  `NoStuckAssembly` and `ReassembledWhenArrived` follow from it and from
the invariant that every fragment that arrived is in an assembly, was pushed, or was given
up.

**The replay window.** `NoReplay` alone is not inductive: `WindowInv` adds that every counter
popped in this session that is still inside the window has its bit set, and
`OpenedInv` that what was handed up was popped.  The step that matters is
`WindowStep`, that shifting the mask keeps each distance with its counter.
`FreshAccepted` needs the other direction (`MarkInv`): while the client has connected only
once, a bit stands for a packet that was popped.

**Replication.** The ids wrap, so nothing can be said by comparing them: `RingInv` says
that only connected clients are known (`OnlyConnected`) and that from every id known of a
client, acknowledged, received or on its way, the snapshots up to the newest follow each other
in the history as far as the ring reaches (`KnownContiguous`).  `BaselineNeverBack` adds that
no id of a client that is not `stale` is older than silence and delay allow (`AgesBounded`).  `JoinerComplete` needs in addition that what
is on its way to a client without an acknowledgement is everything (`AllOrNothing`).

**The client list.** `ClientsStep` reduces every step to what it does to the
list: nothing, a removal, a local client, an accepted request, `stop` or
`start`.  `EntriesDistinct` needs the list to be finite as well
(`FiniteClients`), because `GeneratedIsFree` counts: of the first `n + 1`
ids one is free if there are `n` clients, and the least of them is the one
`generate_client_id()` returns.  `IdentityAgrees` and the order of callbacks follow from
`PeersInv`, which goes through the life of a peer: what may be on its way in either
direction, in which order, while the peer asks, waits, is connected and has left.  It is
about every peer whose connection was not lost; for the others nothing is known of what is
on its way.  `HostListed` says that the id of a host is that of a local client, so that removing
it is no removal of a peer.

**Entities and calls.** `TablesInv` ties every table to the handles of its bridge and
to the ids given so far.  `MirrorConverges` is about what a queue will lead to, so the
invariant `ClientOK` is too: `After(has, q, k)` is what a table holds after k messages,
the lemmas `AfterNext`, `AfterTail` and `AfterSpawns` say what one message more, the first
message and a full state do to it, and `QueueOK` says that each message will find the room
or the entity it needs when its turn comes, whatever was sent after it.  `NamesInv` says
that ids name the same prefab everywhere.  Calls are `Addressed`: those waiting
are, in order, those made for the client in this connection and not yet handed to it.

**Services.** Each ring has an invariant that says which tick, id or time each slot
holds (`LagInv`, `IbInv`, `SbInv`); the rest is arithmetic of remainders.  `LagInv` says of each tick after the last idle one that the
slot at its distance from the head holds its id and, of each entity, its state then or nothing, and
not nothing if it had just changed; `LagDelta` that the distance of wrapped ids is that of the ticks.  `SbForward` compares
two frames between which the ring may have moved on, so its invariant `SbOnTrack` is about
every frame that may come: what is shown is behind each snapshot in the ring that is later
than the last frame and holds the entity, and behind the blend at the time of the last frame
(`SbPassed`); `FrameForward` says that a frame keeps this, `StoreForward` that a snapshot does.  `SpInv` says
that the grid lists each entity in the cell of its position.  `TokHonest` says that a token
holds the times it was issued with.  `ClkInv` rests on `ClkPaid`, that an alignment takes half
a tick and is never taken twice from the same tick; `TsInv` bounds every sample on its way.

**Rate limits.** `RlWithinLimits` speaks of every window of the past and of what passed in
it, a bucket only of its level now.  `RlMeter` ties them: for every instant i of the log, what
passed since i and the level are together no more than burst and rate times the time since i,
with equality for some i unless the bucket is full.  So a request that finds too few tokens
finds a window that it would exceed (`RlExact`), and one that passes exceeds none.  A tick adds
the rate to both sides, and where the burst cuts the level, the bucket is full.  Bytes are
a sum over the log; `IsSum` characterises it by its steps, and `SumMonotone` compares two
sums at the least place where they would differ.  `RlInv` says it of each bucket of each
client, of the bucket of the call, and that what runs was let pass by all (`RlHonest`).

**Queues with holes.** `Kept` is defined by counting positions.  `KeptOrder` says that it takes each position
once and in order, `KeptConcat` that it distributes over concatenation, `NthCount` that it
keeps the number of elements of a kind: the lemmas on which all of the queues below rest.

**The browser and discovery.** `WsStream` is inductive with the types: each step moves a
message from one of three queues to the next or drops an empty one.  `LanRate` is not:
`LanInv` says that the credit of a server that advertises is exactly the time accumulated and
not yet spent.

**The loopback hub.** `LbInv` has four parts.  `LbHub`: both tables name transports that are
in the role and at the address the table says, and every client's port was given by the hub
(`LbGiven`).  `LbDelays`: the delayed packets of a transport wait in the order they were sent
in, none longer than the latency, and each is for someone who may have it: a
port that was given never gets another meaning, which is where `LbPortsApart` is needed.
`LbMail`: what has arrived belongs to its transport's connection (`LbBelongs`) and is, sender by sender,
increasing, after what was heard and before what waits (`LbOrdered`).  The loop of `poll()` is
followed round by round: `LbUnflushed` is what waits after k rounds.

**The simulator.** `SimInv` follows each packet number: how many copies are in each
queue of its direction, how many may still come of it, and that a number that is nowhere was dropped.
The receive loop of `poll()` has a set of outcomes after each round (`SimTook`).  Under one
delay `SimOrderInv` adds that the time left never decreases along the queue, so that what
is due is always a prefix, and that passed, delayed and arriving numbers follow each other.

**Only model-checked.**

* Liveness and anything with ENABLED: out of the prover's reach.
* Behaviours in which sequence numbers or ticks wrap beyond the hypotheses above.
* `BitStreamInv`: what is written is what is read, for values of every width.  It is about
  what recursion over bits and powers of two computes, which takes induction over data.

The liveness properties are `RetransmissionEnds`, `Converges`, `ConnectAttemptEnds`,
`RemovedIsTold`, `WsDelivered`, `LanFound` and `ClkSettles`; all other properties of the runs but
`BitStreamInv` are theorems.

## 6. Not modelled

* The cryptography (ChaCha20-Poly1305, HMAC-SHA256) is arithmetic on bytes with
  published test vectors, and TLC cannot enumerate 256-bit keys.  It appears as an
  opaque seal in `EncryptedTransport` and an opaque MAC in `ConnectionToken`.
* Logging and the version have no state that anything reads.  The examples and the
  tests are users of the library.
* Of `UdpTransport`: bandwidth budgets and priorities (they drop or delay packets,
  which the network does anyway), RTT, jitter and loss statistics, sockets and their
  errors.  `connect()` sends one handshake that no timer repeats, so a liveness property
  of connecting would need a network that does not lose it.
* Of `NetworkManager`: statistics, several transports at once, the queue of a host to
  itself, and callbacks that call back into the manager: an `on_connected` callback
  that removes its client leaves the replication manager told of a client that
  is gone (`network_manager.cpp:308`).
* Of `NetworkReplicationManager`: two clients in one history, and entities that
  are destroyed, whose ids `visible_entities` keeps (`network_replication.cpp:228`).
* Of `RpcManager`: the registration of handlers and the encoding of parameters.
* `NetworkClock::set_tick_rate`: a rate of 0 makes the interval 0 and the loop of `advance()`
  endless, a matter of one call.
* Rounding of floats: time, tokens, positions and blend factors are whole numbers or
  exact fractions.
* The JavaScript inside `emscripten_websocket_transport.cpp`: three of its comparisons
  (lines 55, 64 and 71) are written `!= =` and `== =`, which is no JavaScript.  The
  model takes them as the `!==` and `===` that are meant.

## 7. Plan

1. Done: the UDP link, fragments, the encrypted transport, replication, sessions,
   entities and calls, the other transports, discovery and the services, each checked;
   the proofs of section 5.
2. To come: two clients and destroyed entities in `Replication`, several transports of one
   `NetworkManager`, callbacks that call back into the manager.
