----------------------------- MODULE Replication -----------------------------
(***************************************************************************)
(* State replication (src/src/network_replication.cpp): the                *)
(* NetworkReplicationManager of a server, which snapshots the entities on  *)
(* every tick and sends each client what differs from the last snapshot it *)
(* acknowledged, and the managers of its clients.                          *)
(*                                                                         *)
(* An entity's serialized bytes are a value.  Snapshots and                *)
(* acknowledgements go over the Unreliable channel: what is in `deltas' or *)
(* `acks' may arrive any number of times, or never, in any order, within   *)
(* MaxDelay ticks of being sent.  The bridge and the entity manager are    *)
(* set, and a client's NetworkManager entry exists as long as its          *)
(* replication state, as NetworkManager arranges.                          *)
(***************************************************************************)
EXTENDS Integers, Sequences

CONSTANTS
  Entities,          \* the entities of the entity manager
  Clients,           \* client ids
  Values,            \* serialized states of an entity
  NoValue,           \* what a client shows for an entity it was never sent
  SnapMod,           \* number of snapshot ids (2^16: they are uint16_t)
  MaxSnapshots,      \* MAX_SNAPSHOTS of SnapshotHistory (128)
  FullSyncInterval,  \* full_sync_interval_ (10; 0 for never)
  MaxBaselineAge,    \* max_baseline_age_ (64)
  FreshManagers,     \* a client that connects again has a new manager
  MaxDelay,          \* bound: ticks a datagram spends on its way
  MaxSilence,        \* ticks without a snapshot after which a client is stale
  MaxWrites,         \* bound: changes the game makes
  MaxJoins           \* bound: connections made

ASSUME IdAssumption == SnapMod \in Nat \ {0} /\ MaxSnapshots \in Nat \ {0}
ASSUME ConfigAssumption ==
  /\ FullSyncInterval \in Nat /\ MaxBaselineAge \in Nat
  /\ FreshManagers \in BOOLEAN
ASSUME BoundAssumption ==
  /\ MaxDelay \in Nat /\ MaxSilence \in Nat
  /\ MaxWrites \in Nat /\ MaxJoins \in Nat
ASSUME ValueAssumption == NoValue \notin Values

VARIABLES
  world,          \* the state of each entity on the server
  dirty,          \* dirty_entities_
  filtered,       \* is interest_filter_ set?
  interest,       \* the pairs the interest filter accepts
  snapshot_id,    \* snapshot_id_
  history,        \* snapshot_history_, oldest first
  client_states,  \* client_states_
  deltas,         \* DeltaState messages on their way
  acks,           \* SnapshotAck messages on their way
  view,           \* the state of each entity at each client
  last_received,  \* last_received_snapshot_ of each client
  stale,          \* history variable: clients that were silent in their connection
  writes, joins   \* counters of the bounds

server == <<snapshot_id, history, client_states, dirty>>
game == <<world, filtered, interest, writes>>
client == <<view, last_received>>
vars == <<game, server, client, deltas, acks, joins, stale>>

SnapId == 0 .. SnapMod - 1
Snapshot == UNION {[E -> Values] : E \in SUBSET Entities}

ClientState ==
  [connected : BOOLEAN, has_ack : BOOLEAN, last_acked : SnapId,
   visible : SUBSET Entities]

NewState(connected) ==
  [connected |-> connected, has_ack |-> FALSE, last_acked |-> 0, visible |-> {}]

TypeOK ==
  /\ world \in [Entities -> Values]
  /\ dirty \subseteq Entities
  /\ filtered \in BOOLEAN
  /\ interest \subseteq Entities \X Clients
  /\ snapshot_id \in SnapId
  /\ history \in Seq([id : SnapId, ents : Snapshot])
  /\ Len(history) <= MaxSnapshots
  /\ client_states \in [Clients -> ClientState]
  /\ deltas \subseteq [client : Clients, id : SnapId, ents : Snapshot]
  /\ acks \subseteq [client : Clients, id : SnapId, at : SnapId]
  /\ view \in [Clients -> [Entities -> Values \cup {NoValue}]]
  /\ last_received \in [Clients -> SnapId]
  /\ stale \subseteq Clients
  /\ writes \in 0 .. MaxWrites
  /\ joins \in 0 .. MaxJoins

Unseen == [e \in Entities |-> NoValue]

Init ==
  /\ world \in [Entities -> Values]
  /\ dirty = {}
  /\ filtered \in BOOLEAN
  /\ interest = IF filtered THEN {} ELSE Entities \X Clients
  /\ snapshot_id = 0
  /\ history = << >>
  /\ client_states = [c \in Clients |-> NewState(FALSE)]
  /\ deltas = {}
  /\ acks = {}
  /\ view = [c \in Clients |-> Unseen]
  /\ last_received = [c \in Clients |-> 0]
  /\ stale = {}
  /\ writes = 0
  /\ joins = 0

-----------------------------------------------------------------------------
(* Snapshot ids.                                                           *)

\* a - b in uint16_t.
minus(a, b) == (a - b) % SnapMod

\* static_cast<int16_t>(a - b) > 0
newer(a, b) == 2 * minus(a, b) < SnapMod /\ a # b

-----------------------------------------------------------------------------
(* SnapshotHistory.                                                        *)

\* Faulty variant: the oldest snapshot is not overwritten.
store_Keep(h, id, ents) == Append(h, [id |-> id, ents |-> ents])

\* A ring buffer: the oldest snapshot makes room for the new one.
store(h, id, ents) ==
  LET new == Append(h, [id |-> id, ents |-> ents])
  IN IF Len(new) > MaxSnapshots THEN Tail(new) ELSE new

retrievable(h, id) == h # << >> /\ minus(h[Len(h)].id, id) < Len(h)

\* Faulty variant: the distance is counted from the slot after the head.
retrieve_Next(h, id) ==
  h[IF h[Len(h)].id = id THEN Len(h) ELSE Len(h) - minus(h[Len(h)].id, id) + 1]

\* The slot is computed from the distance of the ids; its own id is not read.
retrieve(h, id) == h[Len(h) - minus(h[Len(h)].id, id)]

-----------------------------------------------------------------------------
(* The game.                                                               *)

\* An entity changes and is marked dirty.
mark_dirty(e, v) ==
  /\ writes < MaxWrites
  /\ v # world[e]
  /\ world' = [world EXCEPT ![e] = v]
  /\ dirty' = dirty \cup {e}
  /\ writes' = writes + 1
  /\ UNCHANGED <<filtered, interest, snapshot_id, history, client_states, client,
                 deltas, acks, joins, stale>>

\* An entity moves into or out of a client's interest.
move_interest(e, c) ==
  /\ filtered
  /\ writes < MaxWrites
  /\ interest' = IF <<e, c>> \in interest THEN interest \ {<<e, c>>}
                                          ELSE interest \cup {<<e, c>>}
  /\ writes' = writes + 1
  /\ UNCHANGED <<world, filtered, server, client, deltas, acks, joins, stale>>

-----------------------------------------------------------------------------
(* The server.                                                             *)

Connected == {c \in Clients : client_states[c].connected}

\* The connection is new, and so is the client's socket.
on_client_connected(c) ==
  /\ ~ client_states[c].connected
  /\ joins < MaxJoins
  /\ joins' = joins + 1
  /\ client_states' = [client_states EXCEPT ![c] = NewState(TRUE)]
  /\ IF FreshManagers
       THEN /\ view' = [view EXCEPT ![c] = Unseen]
            /\ last_received' = [last_received EXCEPT ![c] = 0]
       ELSE UNCHANGED client
  /\ stale' = stale \ {c}
  /\ UNCHANGED <<game, snapshot_id, history, dirty, deltas, acks>>

on_client_disconnected(c) ==
  /\ client_states[c].connected
  /\ client_states' = [client_states EXCEPT ![c] = NewState(FALSE)]
  /\ deltas' = {p \in deltas : p.client # c}
  /\ acks' = {a \in acks : a.client # c}
  /\ UNCHANGED <<game, snapshot_id, history, dirty, client, joins, stale>>

\* Faulty variant: the last acknowledgement to arrive is taken.
accept_Last(s, id) == TRUE

\* Only a newer acknowledgement is taken.
accept(s, id) == ~ s.has_ack \/ newer(id, s.last_acked)

on_snapshot_ack(a) ==
  /\ a \in acks
  /\ client_states' = [client_states EXCEPT
                         ![a.client].last_acked =
                            IF accept(client_states[a.client], a.id) THEN a.id ELSE @,
                         ![a.client].has_ack = TRUE]
  /\ UNCHANGED <<game, snapshot_id, history, dirty, client, deltas, acks, joins, stale>>

\* Faulty variant: no snapshot is a full one.
force_full_sync_Never(id) == FALSE

force_full_sync(id) == FullSyncInterval > 0 /\ id % FullSyncInterval = 0

\* Faulty variant: clients that have acknowledged nothing are forgotten.
any_needs_full_Forced(id) == force_full_sync(id)

any_needs_full(id) ==
  force_full_sync(id) \/ \E c \in Connected : ~ client_states[c].has_ack

\* scratch_snap_: every entity, or only the dirty ones.
built(id) ==
  [e \in (IF filtered \/ any_needs_full(id) THEN Entities ELSE dirty) |-> world[e]]

\* Is the whole of scratch_snap_ sent to c?  h is the history with the new
\* snapshot in it.
send_full(c, id, h) ==
  LET s == client_states[c] IN
  \/ force_full_sync(id)
  \/ ~ s.has_ack
  \/ ~ retrievable(h, s.last_acked)
  \/ minus(id, s.last_acked) > MaxBaselineAge

Relevant(snap, c) ==
  {e \in DOMAIN snap : filtered => <<e, c>> \in interest}

\* An entity is left out only if the baseline has it with the same bytes.
changed(e, snap, base) == e \in DOMAIN base => base[e] # snap[e]

entities_to_send(c, id, h) ==
  LET snap == h[Len(h)].ents IN
  IF send_full(c, id, h)
    THEN Relevant(snap, c)
    ELSE {e \in Relevant(snap, c) :
            \/ filtered /\ e \notin client_states[c].visible
            \/ changed(e, snap, retrieve(h, client_states[c].last_acked).ents)}

\* visible_entities of c after the tick.
now_visible(c, snap) ==
  IF filtered
    THEN (client_states[c].visible \ DOMAIN snap) \cup Relevant(snap, c)
    ELSE client_states[c].visible

\* send_snapshot_to_client; an empty packet is not sent.
packets(id, h) ==
  {p \in {[client |-> c, id |-> id,
           ents |-> [e \in entities_to_send(c, id, h) |-> world[e]]] : c \in Connected} :
     DOMAIN p.ents # {}}

\* What is too old to arrive after tick id.
InTime(sent, id) == minus(id, sent) <= MaxDelay

\* The clients whose last snapshot, or whose last acknowledgement, is old at tick id:
\* keep-alives may hold a connection open while no snapshot gets through.
Silent(id) ==
  {c \in Connected :
     \/ last_received[c] # 0 /\ minus(id, last_received[c]) > MaxSilence
     \/ client_states[c].has_ack /\ minus(id, client_states[c].last_acked) > MaxSilence}

\* One turn of the loop of server_tick: build_and_send_snapshot.
server_tick_send(id) ==
  LET h == store(history, id, built(id)) IN
  /\ Connected # {}
  /\ history' = h
  /\ client_states' = [c \in Clients |->
       IF c \in Connected
         THEN [client_states[c] EXCEPT !.visible = now_visible(c, built(id))]
         ELSE client_states[c]]
  /\ deltas' = {p \in deltas : InTime(p.id, id)} \cup packets(id, h)

\* Without clients nothing is stored, and the id is used up all the same.
server_tick_idle ==
  /\ Connected = {}
  /\ UNCHANGED <<history, client_states, deltas>>

server_tick ==
  LET id == (snapshot_id + 1) % SnapMod IN
  /\ snapshot_id' = id
  /\ server_tick_send(id) \/ server_tick_idle
  /\ dirty' = {}
  /\ acks' = {a \in acks : InTime(a.at, id)}
  /\ stale' = stale \cup Silent(id)
  /\ UNCHANGED <<game, client, joins>>

-----------------------------------------------------------------------------
(* A client.                                                               *)

\* An older snapshot is applied like any other.
on_receive_delta(p) ==
  LET c == p.client IN
  /\ p \in deltas
  /\ last_received' = [last_received EXCEPT ![c] = IF newer(p.id, @) THEN p.id ELSE @]
  /\ view' = [view EXCEPT ![c] =
                [e \in Entities |-> IF e \in DOMAIN p.ents THEN p.ents[e] ELSE @[e]]]
  /\ UNCHANGED <<game, server, deltas, acks, joins, stale>>

client_tick(c) ==
  /\ client_states[c].connected
  /\ last_received[c] # 0
  /\ acks' = acks \cup {[client |-> c, id |-> last_received[c], at |-> snapshot_id]}
  /\ UNCHANGED <<game, server, client, deltas, joins, stale>>

-----------------------------------------------------------------------------
Next ==
  \/ \E e \in Entities, v \in Values : mark_dirty(e, v)
  \/ \E e \in Entities, c \in Clients : move_interest(e, c)
  \/ \E c \in Clients : on_client_connected(c)
  \/ \E c \in Clients : on_client_disconnected(c)
  \/ \E a \in acks : on_snapshot_ack(a)
  \/ server_tick
  \/ \E p \in deltas : on_receive_delta(p)
  \/ \E c \in Clients : client_tick(c)

Spec == Init /\ [][Next]_vars

\* The application keeps ticking, and of the snapshots in which everything is
\* sent infinitely many get through.
full_sync_arrives(c) ==
  \E p \in deltas : p.client = c /\ force_full_sync(p.id) /\ on_receive_delta(p)

FairSpec ==
  Spec /\ WF_vars(server_tick) /\ \A c \in Clients : SF_vars(full_sync_arrives(c))

-----------------------------------------------------------------------------
(* Properties.                                                             *)

\* What is received in the first message of a connection is everything: until
\* a client has acknowledged a snapshot all it is sent is full, and it
\* acknowledges none before it has received one.
JoinerComplete ==
  \A c \in Clients :
    client_states[c].connected /\ last_received[c] # 0 /\ ~ filtered =>
      \A e \in Entities : view[c][e] # NoValue

\* "snapshot IDs are contiguous (increment by 1 per tick)": the baseline that
\* retrieve finds for a client is the snapshot that the client acknowledged.
BaselineIsAcked ==
  \A c \in Clients :
    LET s == client_states[c] IN
    s.has_ack /\ retrievable(history, s.last_acked) =>
      retrieve(history, s.last_acked).id = s.last_acked

\* The ring of the server in every state: no more than MaxSnapshots snapshots, and
\* what retrieve() finds for a client is what the client has acknowledged.
BaselineInv == TypeOK /\ BaselineIsAcked

\* Whatever the order in which acknowledgements arrive, a client's baseline never goes
\* back to an older snapshot, unless it was without one for so long that ids come round.
BaselineNeverBack ==
  [][\A c \in Clients \ stale :
       client_states[c].has_ack /\ client_states'[c].has_ack =>
         minus(snapshot_id', client_states'[c].last_acked)
           <= minus(snapshot_id', client_states[c].last_acked)]_vars

\* "Automatic full-sync fallback when baseline is too old or client has no
\* ack": a client that has no usable baseline is sent every entity.
FallbackIsFull ==
  [][\A c \in Connected :
       snapshot_id' # snapshot_id /\ history' # << >>
         /\ send_full(c, snapshot_id', history') =>
         \E p \in deltas' : p.client = c /\ p.id = snapshot_id'
                              /\ DOMAIN p.ents = Entities]_vars

\* "clients ack received snapshots": a client that has received one has an id
\* to acknowledge.
ReceivedIsAcknowledged ==
  \A c \in Clients :
    (\A e \in Entities : view[c][e] # NoValue) => last_received[c] # 0

\* "state sync tolerates loss, full sync recovers": when the game has stopped
\* changing things, every client comes to show and to keep the state of the
\* entities it is interested in, whatever was lost, repeated or reordered.
InSync(c) ==
  \A e \in Entities : <<e, c>> \in interest => view[c][e] = world[e]

Converges == \A c \in Clients : <>[](client_states[c].connected => InSync(c))
=============================================================================
