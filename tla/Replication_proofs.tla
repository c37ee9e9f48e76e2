-------------------------- MODULE Replication_proofs --------------------------
(***************************************************************************)
(* The ring of snapshots and the baselines of the clients, for every number *)
(* of entities, clients and snapshot ids: what retrieve() finds for a       *)
(* client is the snapshot that it acknowledged, a baseline never goes back, *)
(* and a client that has acknowledged something has been sent everything.   *)
(***************************************************************************)
EXTENDS Replication, SequenceTheorems, TLAPS

-----------------------------------------------------------------------------
(* Arithmetic on uint16_t ids.                                             *)

LEMMA MinusCases ==
  ASSUME NEW a \in SnapId, NEW b \in SnapId
  PROVE  /\ minus(a, b) = IF a >= b THEN a - b ELSE (a - b) + SnapMod
         /\ minus(a, b) \in SnapId
<1>1. SnapMod \in Nat \ {0} /\ a \in 0 .. SnapMod - 1 /\ b \in 0 .. SnapMod - 1
  BY IdAssumption DEF SnapId
<1>2. CASE a >= b
  <2>1. a - b \in 0 .. SnapMod - 1
    BY <1>1, <1>2
  <2>2. (a - b) % SnapMod = a - b
    BY <1>1, <2>1
  <2> QED
    BY <1>1, <1>2, <2>1, <2>2 DEF minus, SnapId
<1>3. CASE a < b
  <2> DEFINE r == (a - b) + SnapMod
  <2>1. r \in 0 .. SnapMod - 1 /\ a - b = r + (0 - 1) * SnapMod
    BY <1>1, <1>3
  <2>2. (a - b) % SnapMod = r
    BY <1>1, <2>1
  <2> QED
    BY <1>1, <1>3, <2>1, <2>2 DEF minus, SnapId
<1> QED
  BY <1>1, <1>2, <1>3

LEMMA NextId ==
  ASSUME NEW a \in SnapId
  PROVE  /\ (a + 1) % SnapMod = IF a + 1 < SnapMod THEN a + 1 ELSE 0
         /\ (a + 1) % SnapMod \in SnapId
<1>1. SnapMod \in Nat \ {0} /\ a \in 0 .. SnapMod - 1
  BY IdAssumption DEF SnapId
<1>2. CASE a + 1 < SnapMod
  BY <1>1, <1>2 DEF SnapId
<1>3. CASE a + 1 = SnapMod
  BY <1>1, <1>3 DEF SnapId
<1> QED
  BY <1>1, <1>2, <1>3

-----------------------------------------------------------------------------
(* The inductive invariants.                                               *)

\* The ids by which a client may yet be known: what it shows, what is on its way
\* to it, what it has acknowledged.
Known(c) ==
  {x \in SnapId :
     \/ x = last_received[c] /\ x # 0
     \/ \E p \in deltas : p.client = c /\ p.id = x
     \/ \E a \in acks : a.client = c /\ a.id = x
     \/ x = client_states[c].last_acked /\ client_states[c].has_ack}

\* From snapshot x on, an id was stored on every tick.
ContiguousFrom(x) ==
  \A i \in 0 .. minus(snapshot_id, x) :
    i < Len(history) => history[Len(history) - i].id = minus(snapshot_id, i)

\* A client that is not connected has neither state nor messages.
OnlyConnected ==
  \A c \in Clients : ~ client_states[c].connected =>
    /\ ~ client_states[c].has_ack
    /\ \A p \in deltas : p.client # c
    /\ \A a \in acks : a.client # c

KnownContiguous ==
  \A c \in Clients : client_states[c].connected =>
    \A x \in Known(c) : ContiguousFrom(x)

RingInv == TypeOK /\ OnlyConnected /\ KnownContiguous

\* The bounds that time sets on the age of the ids.
Longest == IF MaxSilence >= MaxDelay THEN MaxSilence ELSE MaxDelay

AgesBounded ==
  /\ \A p \in deltas : minus(snapshot_id, p.id) <= MaxDelay
  /\ \A a \in acks : /\ minus(snapshot_id, a.at) <= MaxDelay
                     /\ a.client \in stale \/ minus(a.at, a.id) <= Longest
  /\ \A c \in Clients \ stale : client_states[c].connected /\ last_received[c] # 0 =>
       minus(snapshot_id, last_received[c]) <= Longest

\* Until a client shows everything it has acknowledged nothing, and all that is
\* on its way to it is everything.
AllOrNothing ==
  \A c \in Clients : client_states[c].connected /\ ~ filtered =>
    \/ \A e \in Entities : view[c][e] # NoValue
    \/ /\ last_received[c] = 0 /\ ~ client_states[c].has_ack
       /\ \A a \in acks : a.client # c
       /\ \A p \in deltas : p.client = c => DOMAIN p.ents = Entities

-----------------------------------------------------------------------------
(* SnapshotHistory.                                                        *)

Entry == [id : SnapId, ents : Snapshot]

\* The ring keeps its bound, the new snapshot is its last, and the ones before it
\* keep their distance from it.
LEMMA StoreFacts ==
  ASSUME NEW h \in Seq(Entry), Len(h) <= MaxSnapshots, NEW id \in SnapId,
         NEW ents \in Snapshot
  PROVE  LET n == store(h, id, ents) IN
         /\ n \in Seq(Entry) /\ Len(n) <= MaxSnapshots /\ Len(n) >= 1 /\ Len(n) \in Nat
         /\ n[Len(n)] = [id |-> id, ents |-> ents]
         /\ \A i \in Nat : 1 <= i /\ i < Len(n) =>
              i - 1 < Len(h) /\ n[Len(n) - i] = h[Len(h) - (i - 1)]
<1> DEFINE e == [id |-> id, ents |-> ents]
           a == Append(h, e)
           t == Tail(a)
           n == store(h, id, ents)
<1>1. e \in Entry
  BY DEF Entry
<1>2. n = IF Len(a) > MaxSnapshots THEN t ELSE a
  BY DEF store
<1> HIDE DEF e
<1>3. /\ a \in Seq(Entry) /\ Len(a) = Len(h) + 1 /\ Len(h) \in Nat
      /\ a[Len(h) + 1] = e /\ \A i \in 1 .. Len(h) : a[i] = h[i]
  BY <1>1
<1> HIDE DEF a, n
<1>4. /\ t \in Seq(Entry) /\ Len(t) = Len(h)
      /\ \A i \in 1 .. Len(h) : t[i] = a[i + 1]
  BY <1>3
<1> HIDE DEF t
<1>5. CASE Len(a) > MaxSnapshots
  <2>1. n = t /\ Len(h) >= 1
    BY <1>2, <1>3, <1>5, IdAssumption
  <2>2. n[Len(n)] = e
    BY <1>3, <1>4, <2>1
  <2>3. ASSUME NEW i \in Nat, 1 <= i, i < Len(n)
        PROVE  i - 1 < Len(h) /\ n[Len(n) - i] = h[Len(h) - (i - 1)]
    <3>1. PICK j : j = Len(h) - i
      OBVIOUS
    <3>2. /\ j \in 1 .. Len(h) /\ j + 1 \in 1 .. Len(h) /\ i - 1 < Len(h)
          /\ Len(n) - i = j /\ Len(h) - (i - 1) = j + 1
      BY <1>3, <1>4, <2>1, <2>3, <3>1
    <3>3. t[j] = a[j + 1] /\ a[j + 1] = h[j + 1]
      BY <1>3, <1>4, <3>2
    <3> QED
      BY <2>1, <3>2, <3>3
  <2> QED
    BY <1>3, <1>4, <2>1, <2>2, <2>3 DEF n, e
<1>6. CASE ~ (Len(a) > MaxSnapshots)
  <2>1. n = a /\ Len(n) = Len(h) + 1
    BY <1>2, <1>3, <1>6
  <2>2. ASSUME NEW i \in Nat, 1 <= i, i < Len(n)
        PROVE  i - 1 < Len(h) /\ n[Len(n) - i] = h[Len(h) - (i - 1)]
    <3>1. Len(n) - i \in 1 .. Len(h) /\ Len(n) - i = Len(h) - (i - 1)
      BY <1>3, <2>1, <2>2
    <3> QED
      BY <1>3, <2>1, <2>2, <3>1
  <2> QED
    BY <1>3, <1>6, <2>1, <2>2, IdAssumption DEF n, e
<1> QED
  BY <1>5, <1>6

-----------------------------------------------------------------------------
(* Types.                                                                  *)

LEMMA BuiltType ==
  ASSUME TypeOK, NEW id
  PROVE  built(id) \in Snapshot /\ DOMAIN built(id) \subseteq Entities
<1> DEFINE E == IF filtered \/ any_needs_full(id) THEN Entities ELSE dirty
<1>1. E \in SUBSET Entities
  BY DEF TypeOK
<1>2. built(id) = [e \in E |-> world[e]]
  BY DEF built
<1> HIDE DEF E
<1>3. built(id) \in [E -> Values]
  BY <1>1, <1>2 DEF TypeOK
<1> QED
  BY <1>1, <1>3 DEF Snapshot

\* server_tick sends what it has just stored, to connected clients.
LEMMA PacketsType ==
  ASSUME TypeOK, NEW id \in SnapId, NEW h, h[Len(h)].ents = built(id),
         NEW p \in packets(id, h)
  PROVE  /\ p \in [client : Clients, id : SnapId, ents : Snapshot]
         /\ p.client \in Connected /\ p.id = id
         /\ DOMAIN p.ents = entities_to_send(p.client, id, h)
<1>1. PICK c \in Connected :
        p = [client |-> c, id |-> id,
             ents |-> [e \in entities_to_send(c, id, h) |-> world[e]]]
  BY DEF packets
<1> DEFINE E == entities_to_send(c, id, h)
           s == [e \in E |-> world[e]]
<1>2. E \in SUBSET Entities
  BY BuiltType DEF entities_to_send, Relevant
<1> HIDE DEF E
<1>3. s \in Snapshot /\ DOMAIN s = E
  <2>1. s \in [E -> Values]
    BY <1>2 DEF TypeOK
  <2> QED
    BY <1>2, <2>1 DEF Snapshot
<1>4. c \in Clients
  BY DEF Connected
<1>5. p = [client |-> c, id |-> id, ents |-> s]
  BY <1>1 DEF E
<1> HIDE DEF s
<1> QED
  BY <1>3, <1>4, <1>5 DEF E

LEMMA NewStateType == \A b \in BOOLEAN : NewState(b) \in ClientState
<1>1. 0 \in SnapId
  BY IdAssumption DEF SnapId
<1> QED
  BY <1>1 DEF NewState, ClientState

\* A tick with clients, put together.
LEMMA TickSend ==
  ASSUME TypeOK, NEW id \in SnapId, server_tick_send(id)
  PROVE  /\ history' = store(history, id, built(id))
         /\ history' \in Seq(Entry) /\ Len(history') <= MaxSnapshots
         /\ client_states' \in [Clients -> ClientState]
         /\ \A c \in Clients :
              /\ client_states'[c].connected = client_states[c].connected
              /\ client_states'[c].has_ack = client_states[c].has_ack
              /\ client_states'[c].last_acked = client_states[c].last_acked
         /\ deltas' = {p \in deltas : InTime(p.id, id)} \cup packets(id, history')
         /\ history'[Len(history')].ents = built(id)
         /\ deltas' \subseteq [client : Clients, id : SnapId, ents : Snapshot]
<1>1. history' = store(history, id, built(id))
  BY DEF server_tick_send
<1>2. history \in Seq(Entry) /\ Len(history) <= MaxSnapshots
  BY DEF TypeOK, Entry
<1>3. /\ history' \in Seq(Entry) /\ Len(history') <= MaxSnapshots
      /\ history'[Len(history')] = [id |-> id, ents |-> built(id)]
  BY <1>1, <1>2, BuiltType, StoreFacts
<1>4. deltas' = {p \in deltas : InTime(p.id, id)} \cup packets(id, history')
  BY <1>1 DEF server_tick_send
<1>5. deltas' \subseteq [client : Clients, id : SnapId, ents : Snapshot]
  BY <1>3, <1>4, PacketsType DEF TypeOK
<1>6. ASSUME NEW c \in Clients
      PROVE  /\ client_states'[c] \in ClientState
             /\ client_states'[c].connected = client_states[c].connected
             /\ client_states'[c].has_ack = client_states[c].has_ack
             /\ client_states'[c].last_acked = client_states[c].last_acked
  <2>1. now_visible(c, built(id)) \subseteq Entities
    BY <1>6, BuiltType DEF now_visible, TypeOK, ClientState, Relevant
  <2>2. client_states[c] \in ClientState
    BY <1>6 DEF TypeOK
  <2>3. \/ client_states'[c] = client_states[c]
        \/ client_states'[c] = [client_states[c] EXCEPT !.visible = now_visible(c, built(id))]
    BY <1>6 DEF server_tick_send
  <2> QED
    BY <2>1, <2>2, <2>3 DEF ClientState
<1>7. client_states' \in [Clients -> ClientState]
  BY <1>6 DEF server_tick_send
<1> QED
  BY <1>1, <1>3, <1>4, <1>5, <1>6, <1>7

-----------------------------------------------------------------------------
(* The ring.                                                               *)

LEMMA RingConnect ==
  ASSUME RingInv, FreshManagers, NEW c \in Clients, on_client_connected(c)
  PROVE  RingInv'
<1>1. /\ ~ client_states[c].connected /\ joins < MaxJoins /\ joins' = joins + 1
      /\ client_states' = [client_states EXCEPT ![c] = NewState(TRUE)]
      /\ view' = [view EXCEPT ![c] = Unseen]
      /\ last_received' = [last_received EXCEPT ![c] = 0]
      /\ UNCHANGED <<world, filtered, interest, writes, snapshot_id, history, dirty,
                     deltas, acks>>
      /\ stale' = stale \ {c}
  BY DEF on_client_connected, game
<1>2. /\ NewState(TRUE) \in ClientState
      /\ Unseen \in [Entities -> Values \cup {NoValue}]
      /\ 0 \in SnapId
  <2>1. NewState(TRUE) \in ClientState
    BY NewStateType
  <2>2. Unseen \in [Entities -> Values \cup {NoValue}]
    BY DEF Unseen
  <2>3. 0 \in SnapId
    BY IdAssumption DEF SnapId
  <2> QED
    BY <2>1, <2>2, <2>3
<1>3. TypeOK'
  <2>1. /\ client_states' \in [Clients -> ClientState]
        /\ view' \in [Clients -> [Entities -> Values \cup {NoValue}]]
        /\ last_received' \in [Clients -> SnapId]
    BY <1>1, <1>2 DEF RingInv, TypeOK
  <2>2. joins' \in 0 .. MaxJoins /\ stale' \subseteq Clients
    BY <1>1, BoundAssumption DEF RingInv, TypeOK
  <2> QED
    BY <1>1, <2>1, <2>2 DEF RingInv, TypeOK
<1>4. \A d \in Clients : d # c => client_states'[d] = client_states[d]
                                    /\ last_received'[d] = last_received[d]
  BY <1>1 DEF RingInv, TypeOK
<1>5. /\ client_states'[c].connected /\ ~ client_states'[c].has_ack
      /\ last_received'[c] = 0
  BY <1>1 DEF RingInv, TypeOK, NewState
<1>6. OnlyConnected'
  BY <1>1, <1>4, <1>5 DEF RingInv, OnlyConnected
<1>7. KnownContiguous'
  <2> SUFFICES ASSUME NEW d \in Clients, client_states'[d].connected, NEW x \in Known(d)'
               PROVE  ContiguousFrom(x)'
    BY DEF KnownContiguous
  <2>1. d # c
    BY <1>1, <1>5 DEF Known, RingInv, OnlyConnected
  <2>2. x \in Known(d) /\ client_states[d].connected
    BY <1>1, <1>4, <2>1 DEF Known
  <2>3. ContiguousFrom(x)
    BY <2>2 DEF RingInv, KnownContiguous
  <2> QED
    BY <1>1, <2>3 DEF ContiguousFrom
<1> QED
  BY <1>3, <1>6, <1>7 DEF RingInv

LEMMA RingDisconnect ==
  ASSUME RingInv, NEW c \in Clients, on_client_disconnected(c)
  PROVE  RingInv'
<1>1. /\ client_states' = [client_states EXCEPT ![c] = NewState(FALSE)]
      /\ deltas' = {p \in deltas : p.client # c}
      /\ acks' = {a \in acks : a.client # c}
      /\ UNCHANGED <<world, filtered, interest, writes, snapshot_id, history, dirty,
                     view, last_received, joins, stale>>
  BY DEF on_client_disconnected, game, client
<1>2. NewState(FALSE) \in ClientState
  BY NewStateType
<1>3. TypeOK'
  BY <1>1, <1>2 DEF RingInv, TypeOK
<1>4. \A d \in Clients : d # c => client_states'[d] = client_states[d]
  BY <1>1 DEF RingInv, TypeOK
<1>5. ~ client_states'[c].connected /\ ~ client_states'[c].has_ack
  BY <1>1 DEF RingInv, TypeOK, NewState
<1>6. OnlyConnected'
  BY <1>1, <1>4, <1>5 DEF RingInv, OnlyConnected
<1>7. KnownContiguous'
  <2> SUFFICES ASSUME NEW d \in Clients, client_states'[d].connected, NEW x \in Known(d)'
               PROVE  ContiguousFrom(x)'
    BY DEF KnownContiguous
  <2>1. x \in Known(d) /\ client_states[d].connected
    BY <1>1, <1>4, <1>5 DEF Known
  <2>2. ContiguousFrom(x)
    BY <2>1 DEF RingInv, KnownContiguous
  <2> QED
    BY <1>1, <2>2 DEF ContiguousFrom
<1> QED
  BY <1>3, <1>6, <1>7 DEF RingInv

\* What on_snapshot_ack does to the state of the client.
LEMMA AckEffect ==
  ASSUME TypeOK, NEW a \in acks, on_snapshot_ack(a)
  PROVE  /\ a.client \in Clients /\ a.id \in SnapId /\ a.at \in SnapId
         /\ client_states' \in [Clients -> ClientState]
         /\ \A d \in Clients : d # a.client => client_states'[d] = client_states[d]
         /\ LET s == client_states[a.client]
                t == client_states'[a.client]
            IN /\ t.has_ack /\ t.connected = s.connected /\ t.visible = s.visible
               /\ t.last_acked = IF accept(s, a.id) THEN a.id ELSE s.last_acked
         /\ UNCHANGED <<world, filtered, interest, writes, snapshot_id, history, dirty,
                        view, last_received, deltas, acks, joins, stale>>
<1>1. a.client \in Clients /\ a.id \in SnapId /\ a.at \in SnapId
  BY DEF TypeOK
<1> DEFINE s == client_states[a.client]
           la == IF accept(s, a.id) THEN a.id ELSE s.last_acked
           t == [s EXCEPT !.last_acked = la, !.has_ack = TRUE]
<1>2. client_states' = [client_states EXCEPT ![a.client] = t]
  <2>1. client_states \in [Clients -> ClientState]
    BY DEF TypeOK
  <2> QED
    BY <1>1, <2>1 DEF on_snapshot_ack
<1>3. s \in ClientState /\ la \in SnapId
  BY <1>1 DEF TypeOK, ClientState
<1> HIDE DEF s, la
<1>4. /\ t \in ClientState /\ t.has_ack /\ t.connected = s.connected
      /\ t.visible = s.visible /\ t.last_acked = la
  BY <1>3 DEF ClientState
<1> HIDE DEF t
<1>5. client_states'[a.client] = t /\ client_states' \in [Clients -> ClientState]
        /\ \A d \in Clients : d # a.client => client_states'[d] = client_states[d]
  BY <1>1, <1>2, <1>4 DEF TypeOK
<1>6. UNCHANGED <<world, filtered, interest, writes, snapshot_id, history, dirty,
                  view, last_received, deltas, acks, joins, stale>>
  BY DEF on_snapshot_ack, game, client
<1> QED
  BY <1>1, <1>4, <1>5, <1>6 DEF s, la

LEMMA RingAck ==
  ASSUME RingInv, NEW a \in acks, on_snapshot_ack(a)
  PROVE  RingInv'
<1>1. TypeOK
  BY DEF RingInv
<1> DEFINE s == client_states[a.client]
<1>2. /\ a.client \in Clients /\ a.id \in SnapId
      /\ client_states' \in [Clients -> ClientState]
      /\ \A d \in Clients : d # a.client => client_states'[d] = client_states[d]
      /\ client_states'[a.client].connected = s.connected
      /\ \/ client_states'[a.client].last_acked = a.id
         \/ client_states'[a.client].last_acked = s.last_acked /\ s.has_ack
      /\ UNCHANGED <<world, filtered, interest, writes, snapshot_id, history, dirty,
                     view, last_received, deltas, acks, joins, stale>>
  BY <1>1, AckEffect DEF accept
<1>3. TypeOK'
  BY <1>1, <1>2 DEF TypeOK
<1>4. s.connected
  BY <1>2 DEF RingInv, OnlyConnected
<1>5. OnlyConnected'
  BY <1>2, <1>4 DEF RingInv, OnlyConnected
<1>6. KnownContiguous'
  <2> SUFFICES ASSUME NEW d \in Clients, client_states'[d].connected, NEW x \in Known(d)'
               PROVE  ContiguousFrom(x)'
    BY DEF KnownContiguous
  <2>1. x \in Known(d) /\ client_states[d].connected
    BY <1>2 DEF Known
  <2>2. ContiguousFrom(x)
    BY <2>1 DEF RingInv, KnownContiguous
  <2> QED
    BY <1>2, <2>2 DEF ContiguousFrom
<1> QED
  BY <1>3, <1>5, <1>6 DEF RingInv

\* What arrives at a client: the values of a snapshot.
LEMMA DeltaEffect ==
  ASSUME TypeOK, NEW p \in deltas, on_receive_delta(p)
  PROVE  /\ p.client \in Clients /\ p.id \in SnapId /\ p.ents \in Snapshot
         /\ last_received' \in [Clients -> SnapId]
         /\ view' \in [Clients -> [Entities -> Values \cup {NoValue}]]
         /\ \A d \in Clients : d # p.client => /\ last_received'[d] = last_received[d]
                                               /\ view'[d] = view[d]
         /\ last_received'[p.client] = IF newer(p.id, last_received[p.client])
                                         THEN p.id ELSE last_received[p.client]
         /\ \A e \in Entities :
              \/ e \in DOMAIN p.ents /\ view'[p.client][e] \in Values
              \/ e \notin DOMAIN p.ents /\ view'[p.client][e] = view[p.client][e]
         /\ UNCHANGED <<world, filtered, interest, writes, snapshot_id, history, dirty,
                        client_states, deltas, acks, joins, stale>>
<1> DEFINE c == p.client
           lr == IF newer(p.id, last_received[c]) THEN p.id ELSE last_received[c]
           v == [e \in Entities |-> IF e \in DOMAIN p.ents THEN p.ents[e] ELSE view[c][e]]
<1>1. c \in Clients /\ p.id \in SnapId /\ p.ents \in Snapshot
  BY DEF TypeOK
<1>2. last_received' = [last_received EXCEPT ![c] = lr] /\ view' = [view EXCEPT ![c] = v]
  BY <1>1 DEF on_receive_delta, TypeOK
<1>3. PICK E \in SUBSET Entities : p.ents \in [E -> Values]
  BY <1>1 DEF Snapshot
<1>4. lr \in SnapId /\ view[c] \in [Entities -> Values \cup {NoValue}]
  BY <1>1 DEF TypeOK
<1>5. v \in [Entities -> Values \cup {NoValue}]
  BY <1>3, <1>4
<1>6. \A e \in Entities : \/ e \in DOMAIN p.ents /\ v[e] \in Values
                          \/ e \notin DOMAIN p.ents /\ v[e] = view[c][e]
  BY <1>3
<1> HIDE DEF lr, v
<1>7. /\ last_received' \in [Clients -> SnapId]
      /\ view' \in [Clients -> [Entities -> Values \cup {NoValue}]]
      /\ \A d \in Clients : d # c => /\ last_received'[d] = last_received[d]
                                     /\ view'[d] = view[d]
      /\ last_received'[c] = lr /\ view'[c] = v
  BY <1>1, <1>2, <1>4, <1>5 DEF TypeOK
<1>8. UNCHANGED <<world, filtered, interest, writes, snapshot_id, history, dirty,
                  client_states, deltas, acks, joins, stale>>
  BY DEF on_receive_delta, game, server
<1> QED
  BY <1>1, <1>6, <1>7, <1>8 DEF lr

LEMMA RingDelta ==
  ASSUME RingInv, NEW p \in deltas, on_receive_delta(p)
  PROVE  RingInv'
<1>1. TypeOK
  BY DEF RingInv
<1>2. /\ p.client \in Clients /\ p.id \in SnapId
      /\ last_received' \in [Clients -> SnapId]
      /\ view' \in [Clients -> [Entities -> Values \cup {NoValue}]]
      /\ \A d \in Clients : d # p.client => last_received'[d] = last_received[d]
      /\ \/ last_received'[p.client] = p.id
         \/ last_received'[p.client] = last_received[p.client]
      /\ UNCHANGED <<world, filtered, interest, writes, snapshot_id, history, dirty,
                     client_states, deltas, acks, joins, stale>>
  BY <1>1, DeltaEffect
<1>3. TypeOK'
  BY <1>1, <1>2 DEF TypeOK
<1>4. OnlyConnected'
  BY <1>2 DEF RingInv, OnlyConnected
<1>5. KnownContiguous'
  <2> SUFFICES ASSUME NEW d \in Clients, client_states'[d].connected, NEW x \in Known(d)'
               PROVE  ContiguousFrom(x)'
    BY DEF KnownContiguous
  <2>1. x \in Known(d) /\ client_states[d].connected
    BY <1>2 DEF Known
  <2>2. ContiguousFrom(x)
    BY <2>1 DEF RingInv, KnownContiguous
  <2> QED
    BY <1>2, <2>2 DEF ContiguousFrom
<1> QED
  BY <1>3, <1>4, <1>5 DEF RingInv

LEMMA RingClientTick ==
  ASSUME RingInv, NEW c \in Clients, client_tick(c)
  PROVE  RingInv'
<1>1. /\ client_states[c].connected /\ last_received[c] # 0
      /\ acks' = acks \cup {[client |-> c, id |-> last_received[c], at |-> snapshot_id]}
      /\ UNCHANGED <<world, filtered, interest, writes, snapshot_id, history, dirty,
                     client_states, view, last_received, deltas, joins, stale>>
  BY DEF client_tick, game, server, client
<1>2. TypeOK'
  BY <1>1 DEF RingInv, TypeOK
<1>3. OnlyConnected'
  BY <1>1 DEF RingInv, OnlyConnected
<1>4. KnownContiguous'
  <2> SUFFICES ASSUME NEW d \in Clients, client_states'[d].connected, NEW x \in Known(d)'
               PROVE  ContiguousFrom(x)'
    BY DEF KnownContiguous
  <2>1. x \in Known(d) /\ client_states[d].connected
    BY <1>1 DEF Known
  <2>2. ContiguousFrom(x)
    BY <2>1 DEF RingInv, KnownContiguous
  <2> QED
    BY <1>1, <2>2 DEF ContiguousFrom
<1> QED
  BY <1>2, <1>3, <1>4 DEF RingInv

\* The game changes nothing of the ring.
LEMMA RingGame ==
  ASSUME RingInv,
         \/ \E e \in Entities, v \in Values : mark_dirty(e, v)
         \/ \E e \in Entities, c \in Clients : move_interest(e, c)
         \/ UNCHANGED vars
  PROVE  RingInv'
<1>1. /\ UNCHANGED <<snapshot_id, history, client_states, view, last_received, deltas,
                     acks>>
  BY DEF mark_dirty, move_interest, vars, server, client, game
<1>2. TypeOK'
  <2>1. ASSUME NEW e \in Entities, NEW v \in Values, mark_dirty(e, v)
        PROVE  TypeOK'
    BY <1>1, <2>1, BoundAssumption DEF mark_dirty, RingInv, TypeOK
  <2>2. ASSUME NEW e \in Entities, NEW c \in Clients, move_interest(e, c)
        PROVE  TypeOK'
    BY <1>1, <2>2, BoundAssumption DEF move_interest, server, RingInv, TypeOK
  <2>3. CASE UNCHANGED vars
    BY <2>3 DEF vars, game, server, client, RingInv, TypeOK
  <2> QED
    BY <2>1, <2>2, <2>3
<1>3. OnlyConnected'
  BY <1>1 DEF RingInv, OnlyConnected
<1>4. KnownContiguous'
  BY <1>1 DEF RingInv, KnownContiguous, ContiguousFrom, Known
<1> QED
  BY <1>2, <1>3, <1>4 DEF RingInv

\* A tick takes the ring one id further: what was contiguous from x on still is,
\* and so is the new snapshot.
LEMMA TickContiguous ==
  ASSUME TypeOK, NEW id, id = (snapshot_id + 1) % SnapMod, snapshot_id' = id,
         server_tick_send(id), NEW x \in SnapId, ContiguousFrom(x) \/ x = id
  PROVE  ContiguousFrom(x)'
<1>1. snapshot_id \in SnapId /\ id \in SnapId
        /\ id = IF snapshot_id + 1 < SnapMod THEN snapshot_id + 1 ELSE 0
  BY NextId DEF TypeOK
<1>2. /\ history \in Seq(Entry) /\ Len(history) <= MaxSnapshots /\ Len(history) \in Nat
      /\ built(id) \in Snapshot
  BY BuiltType DEF TypeOK, Entry
<1> DEFINE h == history
<1>n. PICK n : n = history'
  OBVIOUS
<1>m. n = store(h, id, built(id))
  BY <1>n, <1>1, TickSend
<1>3. /\ Len(n) >= 1 /\ Len(n) \in Nat /\ n[Len(n)].id = id
      /\ \A i \in Nat : 1 <= i /\ i < Len(n) =>
           i - 1 < Len(h) /\ n[Len(n) - i] = h[Len(h) - (i - 1)]
  <2> DEFINE b == built(id)
             q == store(h, id, b)
  <2>1. h \in Seq(Entry) /\ Len(h) <= MaxSnapshots /\ b \in Snapshot
    BY <1>2
  <2> HIDE DEF b, h
  <2>2. /\ Len(q) >= 1 /\ Len(q) \in Nat /\ q[Len(q)] = [id |-> id, ents |-> b]
        /\ \A i \in Nat : 1 <= i /\ i < Len(q) =>
             i - 1 < Len(h) /\ q[Len(q) - i] = h[Len(h) - (i - 1)]
    BY <1>1, <2>1, StoreFacts
  <2>3. n = q
    BY <1>m DEF b
  <2> HIDE DEF q
  <2> QED
    BY <2>2, <2>3
<1>4. /\ SnapMod \in Nat \ {0} /\ x \in 0 .. SnapMod - 1
      /\ snapshot_id \in 0 .. SnapMod - 1 /\ id \in 0 .. SnapMod - 1
  BY <1>1, IdAssumption DEF SnapId
<1>5. /\ minus(id, x) = (IF id >= x THEN id - x ELSE (id - x) + SnapMod)
      /\ minus(snapshot_id, x) = (IF snapshot_id >= x THEN snapshot_id - x
                                                    ELSE (snapshot_id - x) + SnapMod)
  BY <1>1, MinusCases
<1> HIDE DEF h
<1>6. ASSUME NEW i \in 0 .. minus(id, x), i < Len(n)
      PROVE  n[Len(n) - i].id = minus(id, i)
  <2>0. i \in Nat /\ i \in SnapId /\ i < SnapMod
    BY <1>1, <1>4, <1>5, <1>6 DEF SnapId
  <2>1. minus(id, i) = (IF id >= i THEN id - i ELSE (id - i) + SnapMod)
    BY <1>1, <2>0, MinusCases
  <2>2. CASE i = 0
    BY <1>3, <1>4, <2>1, <2>2
  <2>3. CASE i # 0
    <3>1. x # id
      BY <1>4, <1>5, <1>6, <2>3
    <3>2. PICK j \in Nat : j = i - 1
      BY <2>0, <2>3
    <3>3. j \in SnapId /\ j \in 0 .. minus(snapshot_id, x)
      BY <1>1, <1>4, <1>5, <1>6, <2>0, <3>1, <3>2 DEF SnapId
    <3>4. minus(snapshot_id, j) = (IF snapshot_id >= j THEN snapshot_id - j
                                                       ELSE (snapshot_id - j) + SnapMod)
      BY <1>1, <3>3, MinusCases
    <3>5. j < Len(h) /\ n[Len(n) - i] = h[Len(h) - j]
      BY <1>3, <1>6, <2>0, <2>3, <3>2
    <3>6. h[Len(h) - j].id = minus(snapshot_id, j)
      BY <3>1, <3>3, <3>5 DEF ContiguousFrom, h
    <3>7. minus(snapshot_id, j) = minus(id, i)
      BY <1>1, <1>4, <2>0, <2>1, <3>2, <3>4
    <3> QED
      BY <3>5, <3>6, <3>7
  <2> QED
    BY <2>2, <2>3
<1>7. ContiguousFrom(x)' <=> \A i \in 0 .. minus(id, x) :
                              i < Len(n) => n[Len(n) - i].id = minus(id, i)
  BY <1>n DEF ContiguousFrom, minus
<1> QED
  BY <1>6, <1>7

LEMMA RingTick ==
  ASSUME RingInv, server_tick
  PROVE  RingInv'
<1>t. TypeOK
  BY DEF RingInv
<1>1. PICK id : id = (snapshot_id + 1) % SnapMod
  OBVIOUS
<1>2. /\ snapshot_id' = id
      /\ server_tick_send(id) \/ server_tick_idle
      /\ dirty' = {} /\ acks' = {a \in acks : InTime(a.at, id)}
      /\ UNCHANGED <<world, filtered, interest, writes, view, last_received, joins>>
      /\ stale' = stale \cup Silent(id)
  BY <1>1 DEF server_tick, game, client
<1>3. id \in SnapId /\ stale' \subseteq Clients
  BY <1>1, <1>2, <1>t, NextId DEF TypeOK, Silent, Connected
<1>4. CASE server_tick_send(id)
  <2>1. /\ history' \in Seq(Entry) /\ Len(history') <= MaxSnapshots
        /\ client_states' \in [Clients -> ClientState]
        /\ \A c \in Clients :
             /\ client_states'[c].connected = client_states[c].connected
             /\ client_states'[c].has_ack = client_states[c].has_ack
             /\ client_states'[c].last_acked = client_states[c].last_acked
        /\ deltas' = {p \in deltas : InTime(p.id, id)} \cup packets(id, history')
        /\ history'[Len(history')].ents = built(id)
        /\ deltas' \subseteq [client : Clients, id : SnapId, ents : Snapshot]
    BY <1>t, <1>3, <1>4, TickSend
  <2>2. TypeOK'
    BY <1>t, <1>2, <1>3, <2>1 DEF TypeOK, Entry
  <2>3. \A p \in packets(id, history') : p.client \in Connected /\ p.id = id
    <3>1. PICK h : h = history'
      OBVIOUS
    <3> QED
      BY <1>t, <1>3, <2>1, <3>1, PacketsType
  <2>4. OnlyConnected'
    BY <1>2, <2>1, <2>3 DEF RingInv, OnlyConnected, Connected
  <2>5. KnownContiguous'
    <3> SUFFICES ASSUME NEW d \in Clients, client_states'[d].connected, NEW x \in Known(d)'
                 PROVE  ContiguousFrom(x)'
      BY DEF KnownContiguous
    <3>1. x \in SnapId /\ (x \in Known(d) \/ x = id) /\ client_states[d].connected
      BY <1>2, <2>1, <2>3 DEF Known
    <3>2. ContiguousFrom(x) \/ x = id
      BY <3>1 DEF RingInv, KnownContiguous
    <3> QED
      BY <1>t, <1>1, <1>2, <1>4, <3>1, <3>2, TickContiguous
  <2> QED
    BY <2>2, <2>4, <2>5 DEF RingInv
<1>5. CASE server_tick_idle
  <2>1. /\ \A c \in Clients : ~ client_states[c].connected
        /\ UNCHANGED <<history, client_states, deltas>>
    BY <1>5 DEF server_tick_idle, Connected
  <2>2. TypeOK'
    BY <1>t, <1>2, <1>3, <2>1 DEF TypeOK
  <2>3. OnlyConnected'
    BY <1>2, <2>1 DEF RingInv, OnlyConnected
  <2>4. KnownContiguous'
    BY <2>1 DEF KnownContiguous
  <2> QED
    BY <2>2, <2>3, <2>4 DEF RingInv
<1> QED
  BY <1>2, <1>4, <1>5

LEMMA InitTypes == Init => TypeOK
<1> SUFFICES ASSUME Init
             PROVE  TypeOK
  OBVIOUS
<1>1. 0 \in SnapId
  BY IdAssumption DEF SnapId
<1>2. client_states \in [Clients -> ClientState]
  BY NewStateType DEF Init
<1>3. view \in [Clients -> [Entities -> Values \cup {NoValue}]]
  <2>1. Unseen \in [Entities -> Values \cup {NoValue}]
    BY DEF Unseen
  <2> QED
    BY <2>1 DEF Init
<1>4. history \in Seq([id : SnapId, ents : Snapshot]) /\ Len(history) <= MaxSnapshots
  <2>1. \A S : << >> \in Seq(S)
    OBVIOUS
  <2>2. history \in Seq([id : SnapId, ents : Snapshot]) /\ Len(history) = 0
    BY <2>1 DEF Init
  <2> QED
    BY <2>2, IdAssumption
<1>5. interest \subseteq Entities \X Clients
  BY DEF Init
<1>6. writes \in 0 .. MaxWrites /\ joins \in 0 .. MaxJoins
  BY BoundAssumption DEF Init
<1>7. last_received \in [Clients -> SnapId]
  BY <1>1 DEF Init
<1> QED
  BY <1>1, <1>2, <1>3, <1>4, <1>5, <1>6, <1>7 DEF Init, TypeOK

LEMMA RingInductive ==
  ASSUME FreshManagers
  PROVE  Spec => []RingInv
<1>1. Init => RingInv
  <2> SUFFICES ASSUME Init
               PROVE  RingInv
    OBVIOUS
  <2>1. \A c \in Clients : ~ client_states[c].connected /\ ~ client_states[c].has_ack
    BY DEF Init, NewState
  <2>2. OnlyConnected /\ KnownContiguous
    BY <2>1 DEF Init, OnlyConnected, KnownContiguous
  <2> QED
    BY <2>2, InitTypes DEF RingInv
<1>2. RingInv /\ [Next]_vars => RingInv'
  BY RingConnect, RingDisconnect, RingAck, RingDelta, RingClientTick, RingGame, RingTick
  DEF Next
<1> QED
  BY <1>1, <1>2, PTL DEF Spec

\* "snapshot IDs are contiguous (increment by 1 per tick)": whatever ticks passed
\* without a client, in whatever order acknowledgements arrived, and after the ids
\* have wrapped, the snapshot that retrieve() finds by the distance of the ids is
\* the one the client acknowledged, as long as a client that comes back has a new
\* manager.
THEOREM BaselineInvHolds ==
  ASSUME FreshManagers
  PROVE  Spec => []BaselineInv
<1>1. RingInv => BaselineInv
  <2> SUFFICES ASSUME RingInv, NEW c \in Clients, client_states[c].has_ack,
                      retrievable(history, client_states[c].last_acked)
               PROVE  retrieve(history, client_states[c].last_acked).id
                        = client_states[c].last_acked
    BY DEF RingInv, BaselineInv, BaselineIsAcked
  <2> DEFINE x == client_states[c].last_acked
  <2>1. client_states[c].connected /\ x \in SnapId /\ snapshot_id \in SnapId
    BY DEF RingInv, OnlyConnected, TypeOK, ClientState
  <2>2. ContiguousFrom(x)
    BY <2>1 DEF RingInv, KnownContiguous, Known
  <2>3. history \in Seq(Entry) /\ history # << >> /\ Len(history) \in Nat
          /\ Len(history) > 0
    BY DEF RingInv, TypeOK, retrievable, Entry
  <2>4. SnapMod \in Nat \ {0} /\ x \in 0 .. SnapMod - 1 /\ snapshot_id \in 0 .. SnapMod - 1
    BY <2>1, IdAssumption DEF SnapId
  <2> HIDE DEF x
  <2>5. 0 \in SnapId /\ minus(snapshot_id, 0) = snapshot_id
    BY <2>1, <2>4, MinusCases DEF SnapId
  <2>6. minus(snapshot_id, x) \in SnapId /\ minus(snapshot_id, x) \in Nat
          /\ minus(snapshot_id, x)
               = IF snapshot_id >= x THEN snapshot_id - x ELSE (snapshot_id - x) + SnapMod
    BY <2>1, MinusCases DEF SnapId
  <2>7. 0 \in 0 .. minus(snapshot_id, x) /\ Len(history) - 0 = Len(history)
    BY <2>3, <2>6
  <2>8. history[Len(history)].id = snapshot_id
    BY <2>2, <2>3, <2>5, <2>7 DEF ContiguousFrom
  <2> DEFINE k == minus(snapshot_id, x)
  <2>9. k < Len(history) /\ retrieve(history, x) = history[Len(history) - k]
    BY <2>8 DEF retrievable, retrieve, x
  <2>10. history[Len(history) - k].id = minus(snapshot_id, k)
    BY <2>2, <2>6, <2>9 DEF ContiguousFrom
  <2>11. minus(snapshot_id, k)
           = IF snapshot_id >= k THEN snapshot_id - k ELSE (snapshot_id - k) + SnapMod
    BY <2>1, <2>6, MinusCases
  <2>12. minus(snapshot_id, k) = x
    BY <2>4, <2>6, <2>11
  <2> QED
    BY <2>9, <2>10, <2>12 DEF x
<1> QED
  BY <1>1, RingInductive, PTL

-----------------------------------------------------------------------------
(* Baselines do not go back.                                               *)

\* The ids are so many that half of them are not used up while a client is silent
\* and its acknowledgement on its way (2^15 ticks are nine minutes at 60 a second).
WindowFits == 2 * (Longest + MaxDelay) <= SnapMod

LEMMA LongestBound ==
  /\ Longest \in Nat /\ MaxDelay \in Nat
  /\ Longest >= MaxSilence /\ Longest >= MaxDelay
BY BoundAssumption DEF Longest

LEMMA MinusNat == \A a, b \in SnapId : minus(a, b) \in Nat
<1> SUFFICES ASSUME NEW a \in SnapId, NEW b \in SnapId
             PROVE  minus(a, b) \in Nat
  OBVIOUS
<1>1. minus(a, b) \in SnapId
  BY MinusCases
<1> QED
  BY <1>1, IdAssumption DEF SnapId

LEMMA MinusSelf == \A a \in SnapId : minus(a, a) = 0
BY MinusCases, IdAssumption DEF SnapId

LEMMA AgesStep ==
  ASSUME RingInv, FreshManagers, AgesBounded, [Next]_vars
  PROVE  AgesBounded'
<1>t. TypeOK /\ snapshot_id \in SnapId
  BY DEF RingInv, TypeOK
<1>l. Longest \in Nat /\ MaxDelay \in Nat /\ Longest >= MaxSilence /\ Longest >= MaxDelay
        /\ MaxSilence \in Nat
  BY LongestBound, BoundAssumption
<1> USE DEF minus
<1>1. ASSUME UNCHANGED <<snapshot_id, client_states, last_received, deltas, acks, stale>>
      PROVE  AgesBounded'
  BY <1>1 DEF AgesBounded
<1>2. ASSUME NEW c \in Clients, on_client_connected(c)
      PROVE  AgesBounded'
  <2>1. /\ client_states' = [client_states EXCEPT ![c] = NewState(TRUE)]
        /\ last_received' = [last_received EXCEPT ![c] = 0]
        /\ UNCHANGED <<snapshot_id, deltas, acks>> /\ stale' = stale \ {c}
    BY <1>2 DEF on_client_connected
  <2>2. /\ last_received'[c] = 0
        /\ \A d \in Clients : d # c => client_states'[d] = client_states[d]
                                         /\ last_received'[d] = last_received[d]
    BY <1>t, <2>1 DEF TypeOK
  <2>3. \A a \in acks : a.client # c
    BY <1>2 DEF on_client_connected, RingInv, OnlyConnected
  <2> QED
    BY <2>1, <2>2, <2>3 DEF AgesBounded
<1>3. ASSUME NEW c \in Clients, on_client_disconnected(c)
      PROVE  AgesBounded'
  <2>1. /\ client_states' = [client_states EXCEPT ![c] = NewState(FALSE)]
        /\ deltas' \subseteq deltas /\ acks' \subseteq acks
        /\ UNCHANGED <<snapshot_id, last_received, stale>>
    BY <1>3 DEF on_client_disconnected, client
  <2>2. /\ ~ client_states'[c].connected
        /\ \A d \in Clients : d # c => client_states'[d] = client_states[d]
    BY <1>t, <2>1 DEF TypeOK, NewState
  <2> QED
    BY <2>1, <2>2 DEF AgesBounded
<1>4. ASSUME NEW a \in acks, on_snapshot_ack(a)
      PROVE  AgesBounded'
  <2>1. /\ \A d \in Clients : client_states'[d].connected = client_states[d].connected
        /\ UNCHANGED <<snapshot_id, last_received, deltas, acks, stale>>
    BY <1>t, <1>4, AckEffect DEF on_snapshot_ack
  <2> QED
    BY <2>1 DEF AgesBounded
<1>5. ASSUME NEW p \in deltas, on_receive_delta(p)
      PROVE  AgesBounded'
  <2>1. /\ \A d \in Clients : \/ last_received'[d] = last_received[d]
                              \/ d = p.client /\ last_received'[d] = p.id
        /\ p.id \in SnapId
        /\ UNCHANGED <<snapshot_id, client_states, deltas, acks, stale>>
    BY <1>t, <1>5, DeltaEffect DEF on_receive_delta
  <2>2. minus(snapshot_id, p.id) <= MaxDelay /\ minus(snapshot_id, p.id) \in Nat
    BY <1>t, <2>1, MinusNat DEF AgesBounded
  <2>3. minus(snapshot_id, p.id) <= Longest
    BY <1>l, <2>2
  <2> QED
    BY <2>1, <2>3 DEF AgesBounded
<1>6. ASSUME NEW c \in Clients, client_tick(c)
      PROVE  AgesBounded'
  <2>1. /\ client_states[c].connected /\ last_received[c] # 0
        /\ acks' = acks \cup {[client |-> c, id |-> last_received[c], at |-> snapshot_id]}
        /\ UNCHANGED <<snapshot_id, client_states, last_received, deltas, stale>>
    BY <1>6 DEF client_tick, server, client
  <2>2. minus(snapshot_id, snapshot_id) = 0
    BY <1>t, MinusSelf
  <2>3. c \in stale \/ minus(snapshot_id, last_received[c]) <= Longest
    BY <2>1 DEF AgesBounded
  <2> QED
    BY <1>l, <2>1, <2>2, <2>3 DEF AgesBounded
<1>7. ASSUME server_tick
      PROVE  AgesBounded'
  <2>1. PICK id : id = (snapshot_id + 1) % SnapMod
    OBVIOUS
  <2>2. /\ snapshot_id' = id
        /\ server_tick_send(id) \/ server_tick_idle
        /\ acks' = {a \in acks : InTime(a.at, id)}
        /\ last_received' = last_received /\ stale' = stale \cup Silent(id)
    BY <1>7, <2>1 DEF server_tick, client
  <2>3. id \in SnapId
    BY <1>t, <2>1, NextId
  <2>4. \A a \in acks' : /\ minus(snapshot_id', a.at) <= MaxDelay
                         /\ a.client \in stale' \/ minus(a.at, a.id) <= Longest
    BY <2>2 DEF AgesBounded, InTime
  <2>5. CASE server_tick_send(id)
    <3>1. /\ \A c \in Clients : client_states'[c].connected = client_states[c].connected
          /\ deltas' = {p \in deltas : InTime(p.id, id)} \cup packets(id, history')
          /\ history'[Len(history')].ents = built(id)
      BY <1>t, <2>3, <2>5, TickSend
    <3>2. \A p \in packets(id, history') : p.id = id
      <4>1. PICK h : h = history'
        OBVIOUS
      <4> QED
        BY <1>t, <2>3, <3>1, <4>1, PacketsType
    <3>3. minus(id, id) = 0
      BY <2>3, MinusSelf
    <3>4. \A p \in deltas' : minus(id, p.id) <= MaxDelay
      BY <1>l, <3>1, <3>2, <3>3 DEF InTime
    <3>5. ASSUME NEW c \in Clients, c \notin stale', client_states[c].connected,
                 last_received[c] # 0
          PROVE  minus(id, last_received[c]) <= Longest
      <4>1. ~ (minus(id, last_received[c]) > MaxSilence)
        BY <2>2, <3>5 DEF Silent, Connected
      <4>2. last_received[c] \in SnapId
        BY <1>t, <3>5 DEF TypeOK
      <4>3. minus(id, last_received[c]) \in Nat
        BY <2>3, <4>2, MinusNat
      <4> QED
        BY <1>l, <4>1, <4>3
    <3>6. \A c \in Clients \ stale' : client_states'[c].connected /\ last_received'[c] # 0 =>
            minus(id, last_received'[c]) <= Longest
      BY <2>2, <3>1, <3>5
    <3>7. \A p \in deltas' : minus(snapshot_id', p.id) <= MaxDelay
      BY <2>2, <3>4
    <3>8. \A c \in Clients \ stale' :
            client_states'[c].connected /\ last_received'[c] # 0 =>
              minus(snapshot_id', last_received'[c]) <= Longest
      BY <2>2, <3>6
    <3> QED
      BY <2>4, <3>7, <3>8 DEF AgesBounded
  <2>6. CASE server_tick_idle
    <3>1. /\ \A c \in Clients : ~ client_states[c].connected
          /\ UNCHANGED <<history, client_states, deltas>>
      BY <2>6 DEF server_tick_idle, Connected
    <3>2. deltas = {}
      BY <1>t, <3>1 DEF RingInv, OnlyConnected, TypeOK
    <3>3. \A p \in deltas' : minus(snapshot_id', p.id) <= MaxDelay
      BY <3>1, <3>2
    <3>4. \A a \in acks' : /\ minus(snapshot_id', a.at) <= MaxDelay
                           /\ a.client \in stale' \/ minus(a.at, a.id) <= Longest
      BY <2>4
    <3>5. \A c \in Clients : ~ client_states'[c].connected
      BY <3>1
    <3> QED
      BY <3>3, <3>4, <3>5 DEF AgesBounded
  <2> QED
    BY <2>2, <2>5, <2>6
<1>8. ASSUME \/ \E e \in Entities, v \in Values : mark_dirty(e, v)
             \/ \E e \in Entities, c \in Clients : move_interest(e, c)
             \/ UNCHANGED vars
      PROVE  UNCHANGED <<snapshot_id, client_states, last_received, deltas, acks, stale>>
  BY <1>8 DEF mark_dirty, move_interest, vars, server, client, game
<1> QED
  BY <1>1, <1>2, <1>3, <1>4, <1>5, <1>6, <1>7, <1>8 DEF Next

LEMMA AgesInductive ==
  ASSUME FreshManagers
  PROVE  Spec => []AgesBounded
<1>1. Init => AgesBounded
  BY DEF Init, AgesBounded, NewState
<1>2. RingInv /\ AgesBounded /\ [Next]_vars => AgesBounded'
  BY AgesStep
<1> QED
  BY <1>1, <1>2, RingInductive, PTL DEF Spec

\* A newer id, of an age below half of the ids, is of a smaller age.
LEMMA NewerIsYounger ==
  ASSUME NEW s \in SnapId, NEW at \in SnapId, NEW a \in SnapId, NEW b \in SnapId,
         WindowFits, minus(s, at) <= MaxDelay, minus(at, a) <= Longest, newer(a, b)
  PROVE  minus(s, a) <= minus(s, b)
<1>1. /\ SnapMod \in Nat \ {0} /\ s \in 0 .. SnapMod - 1 /\ at \in 0 .. SnapMod - 1
      /\ a \in 0 .. SnapMod - 1 /\ b \in 0 .. SnapMod - 1
      /\ Longest \in Nat /\ MaxDelay \in Nat
  BY IdAssumption, LongestBound DEF SnapId
<1>2. /\ minus(s, at) = (IF s >= at THEN s - at ELSE (s - at) + SnapMod)
      /\ minus(at, a) = (IF at >= a THEN at - a ELSE (at - a) + SnapMod)
      /\ minus(s, a) = (IF s >= a THEN s - a ELSE (s - a) + SnapMod)
      /\ minus(s, b) = (IF s >= b THEN s - b ELSE (s - b) + SnapMod)
      /\ minus(a, b) = (IF a >= b THEN a - b ELSE (a - b) + SnapMod)
  BY MinusCases
<1>3. 2 * minus(a, b) < SnapMod /\ 2 * (Longest + MaxDelay) <= SnapMod
  BY DEF newer, WindowFits
<1> DEFINE x == minus(s, at)
           y == minus(at, a)
           z == minus(a, b)
           u == minus(s, a)
           w == minus(s, b)
<1> HIDE DEF x, y, z, u, w
<1>4. /\ x \in 0 .. SnapMod - 1 /\ y \in 0 .. SnapMod - 1 /\ z \in 0 .. SnapMod - 1
      /\ u \in 0 .. SnapMod - 1 /\ w \in 0 .. SnapMod - 1
  BY <1>1, <1>2 DEF x, y, z, u, w
<1>5. x <= MaxDelay /\ y <= Longest /\ 2 * z < SnapMod
  BY <1>3 DEF x, y, z
<1>6. u = (IF x + y < SnapMod THEN x + y ELSE (x + y) - SnapMod)
  BY <1>1, <1>2 DEF x, y, u
<1>7. w = (IF u + z < SnapMod THEN u + z ELSE (u + z) - SnapMod)
  BY <1>1, <1>2 DEF u, z, w
<1>8. 2 * u <= SnapMod
  BY <1>1, <1>3, <1>4, <1>5, <1>6
<1>9. u <= w
  BY <1>1, <1>4, <1>5, <1>7, <1>8
<1> QED
  BY <1>9 DEF u, w

\* Whatever the order in which acknowledgements arrive, a client's baseline never
\* goes back to an older snapshot, across every wrap of the ids, in a connection in
\* which the client was never without a snapshot for MaxSilence ticks.
THEOREM BaselineNeverBackHolds ==
  ASSUME FreshManagers, WindowFits
  PROVE  Spec => BaselineNeverBack
<1> DEFINE A == \A c \in Clients \ stale :
                  client_states[c].has_ack /\ client_states'[c].has_ack =>
                    minus(snapshot_id', client_states'[c].last_acked)
                      <= minus(snapshot_id', client_states[c].last_acked)
<1>1. ASSUME RingInv, AgesBounded, [Next]_vars
      PROVE  A
  <2> SUFFICES ASSUME NEW c \in Clients, c \notin stale, client_states[c].has_ack,
                      client_states'[c].has_ack
               PROVE  minus(snapshot_id', client_states'[c].last_acked)
                        <= minus(snapshot_id', client_states[c].last_acked)
    OBVIOUS
  <2>t. TypeOK /\ TypeOK'
    BY <1>1, RingConnect, RingDisconnect, RingAck, RingDelta, RingClientTick, RingGame,
       RingTick DEF Next, RingInv
  <2>0. /\ snapshot_id \in SnapId /\ snapshot_id' \in SnapId
        /\ client_states[c].last_acked \in SnapId
        /\ minus(snapshot_id', client_states[c].last_acked) \in Int
    <3>1. /\ snapshot_id \in SnapId /\ snapshot_id' \in SnapId
          /\ client_states[c].last_acked \in SnapId
      BY <2>t DEF TypeOK, ClientState
    <3> QED
      BY <3>1, MinusNat
  <2>1. ASSUME client_states'[c].last_acked = client_states[c].last_acked
        PROVE  minus(snapshot_id', client_states'[c].last_acked)
                 <= minus(snapshot_id', client_states[c].last_acked)
    BY <2>0, <2>1
  <2>2. ASSUME NEW a \in acks, on_snapshot_ack(a)
        PROVE  minus(snapshot_id', client_states'[c].last_acked)
                 <= minus(snapshot_id', client_states[c].last_acked)
    <3>1. /\ a.client \in Clients /\ a.id \in SnapId /\ a.at \in SnapId
          /\ snapshot_id' = snapshot_id
          /\ c # a.client => client_states'[c] = client_states[c]
          /\ c = a.client =>
               client_states'[c].last_acked =
                 IF accept(client_states[c], a.id) THEN a.id ELSE client_states[c].last_acked
      BY <2>t, <2>2, AckEffect
    <3>2. CASE c = a.client /\ accept(client_states[c], a.id)
      <4>1. newer(a.id, client_states[c].last_acked)
        BY <3>2 DEF accept
      <4>2. minus(snapshot_id, a.at) <= MaxDelay /\ minus(a.at, a.id) <= Longest
        BY <1>1, <3>2 DEF AgesBounded
      <4>3. minus(snapshot_id, a.id) <= minus(snapshot_id, client_states[c].last_acked)
        BY <2>0, <3>1, <4>1, <4>2, NewerIsYounger
      <4> QED
        BY <3>1, <3>2, <4>3
    <3> QED
      BY <2>1, <3>1, <3>2
  <2>3. ASSUME NEW d \in Clients, on_client_connected(d) \/ on_client_disconnected(d)
        PROVE  client_states'[c].last_acked = client_states[c].last_acked
    <3>1. d # c
      <4>1. CASE on_client_connected(d)
        BY <1>1, <4>1 DEF on_client_connected, RingInv, OnlyConnected
      <4>2. CASE on_client_disconnected(d)
        BY <2>t, <4>2 DEF on_client_disconnected, NewState, TypeOK
      <4> QED
        BY <2>3, <4>1, <4>2
    <3> QED
      BY <2>t, <2>3, <3>1 DEF on_client_connected, on_client_disconnected, TypeOK
  <2>4. ASSUME server_tick
        PROVE  client_states'[c].last_acked = client_states[c].last_acked
    <3>1. PICK id : id = (snapshot_id + 1) % SnapMod
      OBVIOUS
    <3>2. id \in SnapId
      BY <2>0, <3>1, NextId
    <3>3. server_tick_send(id) \/ server_tick_idle
      BY <2>4, <3>1 DEF server_tick
    <3> QED
      BY <2>t, <3>2, <3>3, TickSend DEF server_tick_idle
  <2>5. ASSUME \/ \E e \in Entities, v \in Values : mark_dirty(e, v)
               \/ \E e \in Entities, d \in Clients : move_interest(e, d)
               \/ \E p \in deltas : on_receive_delta(p)
               \/ \E d \in Clients : client_tick(d)
               \/ UNCHANGED vars
        PROVE  UNCHANGED client_states
    BY <2>5 DEF mark_dirty, move_interest, on_receive_delta, client_tick, vars, server
  <2> QED
    BY <1>1, <2>1, <2>2, <2>3, <2>4, <2>5 DEF Next
<1>2. RingInv /\ AgesBounded /\ [Next]_vars => [A]_vars
  BY <1>1
<1> HIDE DEF A
<1>3. Spec => [][A]_vars
  BY <1>2, RingInductive, AgesInductive, PTL DEF Spec
<1> QED
  BY <1>3 DEF BaselineNeverBack, A

-----------------------------------------------------------------------------
(* A client that joins is sent everything.                                 *)

\* What server_tick sends to a client without an acknowledgement.
LEMMA FirstIsFull ==
  ASSUME TypeOK, NEW id \in SnapId, NEW h, h[Len(h)].ents = built(id), ~ filtered,
         NEW p \in packets(id, h), ~ client_states[p.client].has_ack
  PROVE  DOMAIN p.ents = Entities
<1>1. p.client \in Connected /\ DOMAIN p.ents = entities_to_send(p.client, id, h)
  BY PacketsType
<1>2. send_full(p.client, id, h) /\ any_needs_full(id)
  BY <1>1 DEF send_full, any_needs_full
<1>3. DOMAIN built(id) = Entities
  BY <1>2 DEF built
<1> QED
  BY <1>1, <1>2, <1>3 DEF entities_to_send, Relevant

LEMMA AllStep ==
  ASSUME RingInv, FreshManagers, AllOrNothing, [Next]_vars
  PROVE  AllOrNothing'
<1> DEFINE Shown(c) == \A e \in Entities : view[c][e] # NoValue
           Waiting(c) == /\ last_received[c] = 0 /\ ~ client_states[c].has_ack
                         /\ \A a \in acks : a.client # c
                         /\ \A p \in deltas : p.client = c => DOMAIN p.ents = Entities
<1>t. TypeOK
  BY DEF RingInv
<1> SUFFICES ASSUME NEW c \in Clients, client_states'[c].connected, ~ filtered'
             PROVE  Shown(c)' \/ Waiting(c)'
  BY DEF AllOrNothing
<1>1. filtered' = filtered
  BY DEF Next, vars, mark_dirty, move_interest, on_client_connected,
         on_client_disconnected, on_snapshot_ack, server_tick, on_receive_delta,
         client_tick, game
<1>2. ASSUME client_states[c].connected
      PROVE  Shown(c) \/ Waiting(c)
  BY <1>1, <1>2 DEF AllOrNothing
<1>3. ASSUME UNCHANGED <<client_states, view, last_received, deltas, acks>>
      PROVE  Shown(c)' \/ Waiting(c)'
  BY <1>2, <1>3
<1>4. ASSUME NEW d \in Clients, on_client_connected(d)
      PROVE  Shown(c)' \/ Waiting(c)'
  <2>1. /\ ~ client_states[d].connected
        /\ client_states' = [client_states EXCEPT ![d] = NewState(TRUE)]
        /\ view' = [view EXCEPT ![d] = Unseen]
        /\ last_received' = [last_received EXCEPT ![d] = 0]
        /\ UNCHANGED <<deltas, acks>>
    BY <1>4 DEF on_client_connected
  <2>2. CASE c = d
    <3>1. last_received'[c] = 0 /\ ~ client_states'[c].has_ack
      BY <1>t, <2>1, <2>2 DEF TypeOK, NewState
    <3>2. (\A a \in acks : a.client # c) /\ \A p \in deltas : p.client # c
      BY <2>1, <2>2 DEF RingInv, OnlyConnected
    <3> QED
      BY <2>1, <3>1, <3>2
  <2>3. CASE c # d
    <3>1. /\ client_states'[c] = client_states[c] /\ view'[c] = view[c]
          /\ last_received'[c] = last_received[c]
      BY <1>t, <2>1, <2>3 DEF TypeOK
    <3> QED
      BY <1>2, <2>1, <3>1
  <2> QED
    BY <2>2, <2>3
<1>5. ASSUME NEW d \in Clients, on_client_disconnected(d)
      PROVE  Shown(c)' \/ Waiting(c)'
  <2>1. /\ client_states' = [client_states EXCEPT ![d] = NewState(FALSE)]
        /\ deltas' \subseteq deltas /\ acks' \subseteq acks
        /\ UNCHANGED <<view, last_received>>
    BY <1>5 DEF on_client_disconnected, client
  <2>2. c # d /\ client_states'[c] = client_states[c]
    BY <1>t, <2>1 DEF TypeOK, NewState
  <2> QED
    BY <1>2, <2>1, <2>2
<1>6. ASSUME NEW a \in acks, on_snapshot_ack(a)
      PROVE  Shown(c)' \/ Waiting(c)'
  <2>1. /\ a.client \in Clients
        /\ \A d \in Clients : d # a.client => client_states'[d] = client_states[d]
        /\ client_states'[a.client].connected = client_states[a.client].connected
        /\ UNCHANGED <<view, last_received, deltas, acks>>
    BY <1>t, <1>6, AckEffect
  <2>2. client_states[c].connected
    BY <2>1
  <2>3. Shown(c) \/ c # a.client
    BY <1>2, <2>2
  <2> QED
    BY <1>2, <2>1, <2>2, <2>3
<1>7. ASSUME NEW p \in deltas, on_receive_delta(p)
      PROVE  Shown(c)' \/ Waiting(c)'
  <2>1. /\ \A d \in Clients : d # p.client => /\ last_received'[d] = last_received[d]
                                              /\ view'[d] = view[d]
        /\ \A e \in Entities :
             \/ e \in DOMAIN p.ents /\ view'[p.client][e] \in Values
             \/ e \notin DOMAIN p.ents /\ view'[p.client][e] = view[p.client][e]
        /\ UNCHANGED <<client_states, deltas, acks>>
    BY <1>t, <1>7, DeltaEffect
  <2>2. CASE c # p.client
    BY <1>2, <2>1, <2>2
  <2>3. CASE c = p.client
    <3>1. Shown(c) \/ DOMAIN p.ents = Entities
      BY <1>2, <1>7, <2>1, <2>3
    <3>2. Shown(c)'
      BY <2>1, <2>3, <3>1, ValueAssumption
    <3> QED
      BY <3>2
  <2> QED
    BY <2>2, <2>3
<1>8. ASSUME NEW d \in Clients, client_tick(d)
      PROVE  Shown(c)' \/ Waiting(c)'
  <2>1. /\ last_received[d] # 0
        /\ acks' = acks \cup {[client |-> d, id |-> last_received[d], at |-> snapshot_id]}
        /\ UNCHANGED <<client_states, view, last_received, deltas>>
    BY <1>8 DEF client_tick, server, client
  <2> QED
    BY <1>2, <2>1
<1>9. ASSUME server_tick
      PROVE  Shown(c)' \/ Waiting(c)'
  <2>1. PICK id : id = (snapshot_id + 1) % SnapMod
    OBVIOUS
  <2>2. /\ server_tick_send(id) \/ server_tick_idle
        /\ acks' \subseteq acks /\ last_received' = last_received /\ view' = view
    BY <1>9, <2>1 DEF server_tick, client
  <2>3. id \in SnapId
    BY <1>t, <2>1, NextId DEF TypeOK
  <2>4. CASE server_tick_send(id)
    <3>1. /\ client_states'[c].connected = client_states[c].connected
          /\ client_states'[c].has_ack = client_states[c].has_ack
          /\ deltas' = {p \in deltas : InTime(p.id, id)} \cup packets(id, history')
          /\ history'[Len(history')].ents = built(id)
      BY <1>t, <2>3, <2>4, TickSend
    <3>2. \A p \in packets(id, history') :
            p.client = c /\ ~ client_states[c].has_ack => DOMAIN p.ents = Entities
      <4>1. PICK h : h = history'
        OBVIOUS
      <4> QED
        BY <1>t, <1>1, <2>3, <3>1, <4>1, FirstIsFull
    <3>3. Shown(c) \/ Waiting(c)
      BY <1>2, <3>1
    <3> QED
      BY <2>2, <3>1, <3>2, <3>3
  <2>5. CASE server_tick_idle
    BY <1>2, <2>2, <2>5 DEF server_tick_idle
  <2> QED
    BY <2>2, <2>4, <2>5
<1>10. ASSUME \/ \E e \in Entities, v \in Values : mark_dirty(e, v)
              \/ \E e \in Entities, d \in Clients : move_interest(e, d)
              \/ UNCHANGED vars
       PROVE  UNCHANGED <<client_states, view, last_received, deltas, acks>>
  BY <1>10 DEF mark_dirty, move_interest, vars, server, client
<1> QED
  BY <1>3, <1>4, <1>5, <1>6, <1>7, <1>8, <1>9, <1>10 DEF Next

\* What is received in the first message of a connection is everything: without a
\* filter a client that has an id to acknowledge shows every entity, whatever was
\* lost, repeated or reordered and however often the ids wrapped.
THEOREM JoinerCompleteHolds ==
  ASSUME FreshManagers
  PROVE  Spec => []JoinerComplete
<1>1. Init => AllOrNothing
  BY DEF Init, AllOrNothing, NewState
<1>2. RingInv /\ AllOrNothing /\ [Next]_vars => AllOrNothing'
  BY AllStep
<1>3. AllOrNothing => JoinerComplete
  BY DEF AllOrNothing, JoinerComplete
<1> QED
  BY <1>1, <1>2, <1>3, RingInductive, PTL DEF Spec
=============================================================================
