--------------------------- MODULE NetworkEntities --------------------------
(***************************************************************************)
(* NetworkEntityManager (src/src/network_entity.cpp) and RpcManager        *)
(* (src/src/rpc_manager.cpp) of a server and of its clients, joined by the *)
(* dispatch of system messages in NetworkManager.  Spawns, destroys and    *)
(* calls all go over the ReliableOrdered channel, which UdpLink shows to   *)
(* be a stream while the connection lasts: here a sequence per direction.  *)
(*                                                                         *)
(* The entity manager of a client belongs to the application and is not    *)
(* told when its connection ends; FreshManagers says whether the           *)
(* application makes a new one for each connection.                        *)
(***************************************************************************)
EXTENDS Integers, Sequences, FiniteSets, Functions, SequencesExt

CONSTANTS
  Clients,        \* the managers of the clients
  Prefabs,        \* prefab identifiers
  InitData,       \* may spawn() be given data for the entity?
  ServerMax,      \* max_entities_ of the server's manager, 0 for no limit
  ClientMax,      \* max_entities_ of the clients' managers
  Payloads,       \* sizes of the arguments of a call
  ServerPayload,  \* max_payload_size_ of the server's RpcManager, 0 for no limit
  ClientPayload,  \* max_payload_size_ of the clients' RpcManagers
  FreshManagers,  \* does a client connect with a new entity manager?
  MaxSpawns,      \* bound: ids the server assigns
  MaxCalls,       \* bound: calls of the server's RpcManager
  MaxJoins,       \* bound: connections made
  MaxQueue        \* bound: messages on their way to a client

ASSUME BoundAssumption ==
  /\ MaxSpawns \in Nat /\ MaxCalls \in Nat /\ MaxJoins \in Nat /\ MaxQueue \in Nat
ASSUME ClientsAssumption == IsFiniteSet(Clients) /\ "server" \notin Clients
ASSUME LimitAssumption == ServerMax \in Nat /\ ClientMax \in Nat
ASSUME PayloadAssumption ==
  Payloads \subseteq Nat /\ ServerPayload \in Nat /\ ClientPayload \in Nat
ASSUME InputAssumption == FreshManagers \in BOOLEAN /\ InitData \subseteq BOOLEAN

VARIABLES
  entities,   \* entities_ of the server
  next_id,    \* next_id_
  mirror,     \* entities_ of each client
  alive,      \* handles that each bridge made and has not destroyed
  ids,        \* the id the server's NetworkManager gave each client, 0 for none
  down,       \* messages on their way to each client
  caught_up,  \* was the full state sent to the client in this connection?
  calls,      \* the calls the server made, counted
  due,        \* calls made for each client and not yet handed to its RpcManager
  missed,     \* clients at which a call ran and did not find what it is about
  joins       \* counter of the bound

vars == <<entities, next_id, mirror, alive, ids, down, caught_up, calls, due, missed, joins>>

CallVars == <<calls, due, missed>>

Managers == Clients \cup {"server"}
NetworkId == 1 .. MaxSpawns
Entity == [prefab_id : Prefabs, owner_id : Nat, local_handle : Nat, init : BOOLEAN]
IsTable(t) == DOMAIN t \subseteq NetworkId /\ \A i \in DOMAIN t : t[i] \in Entity

\* A call is about an entity; `knows' are the clients to which the server had sent
\* what it takes to know that entity.
Message ==
  [type : {"EntitySpawn"}, id : NetworkId, prefab_id : Prefabs, init : BOOLEAN]
    \cup [type : {"EntityDestroy"}, id : NetworkId]
    \cup [type : {"Rpc"}, call : Nat, size : Nat, id : NetworkId, knows : SUBSET Clients]
    \cup [type : {"Empty"}]

TypeOK ==
  /\ IsTable(entities)
  /\ next_id \in Nat \ {0}
  /\ DOMAIN mirror = Clients /\ \A c \in Clients : IsTable(mirror[c])
  /\ alive \in [Managers -> SUBSET Nat]
  /\ ids \in [Clients -> Nat]
  /\ down \in [Clients -> Seq(Message)]
  /\ caught_up \in [Clients -> BOOLEAN]
  /\ calls \in Nat
  /\ due \in [Clients -> SUBSET Nat]
  /\ missed \subseteq Clients
  /\ joins \in 0 .. MaxJoins

NoEntities == [i \in {} |-> 0]

Init ==
  /\ entities = NoEntities
  /\ next_id = 1
  /\ mirror = [c \in Clients |-> NoEntities]
  /\ alive = [m \in Managers |-> {}]
  /\ ids = [c \in Clients |-> 0]
  /\ down = [c \in Clients |-> << >>]
  /\ caught_up = [c \in Clients |-> FALSE]
  /\ calls = 0
  /\ due = [c \in Clients |-> {}]
  /\ missed = {}
  /\ joins = 0

-----------------------------------------------------------------------------
(* What the managers do.                                                   *)

Approved == {c \in Clients : ids[c] # 0}

\* The smallest id that no client has.
generate_client_id ==
  CHOOSE i \in 1 .. Cardinality(Clients) :
    /\ \A c \in Clients : ids[c] # i
    /\ \A j \in 1 .. i - 1 : \E c \in Clients : ids[c] = j

Receivers_All(exclude) == Approved

\* broadcast(): to all clients but the one with the id exclude.
Receivers(exclude) == {c \in Approved : ids[c] # exclude}

Sent(to, msgs) == [c \in Clients |-> IF c \in to THEN down[c] \o msgs ELSE down[c]]

Room(to, n) == \A c \in to : Len(down[c]) + n <= MaxQueue

Full(max, table) == max > 0 /\ Cardinality(DOMAIN table) >= max

Without_Marked(table, i) == [table EXCEPT ![i].local_handle = -1]

Without(table, i) == Restrict(table, DOMAIN table \ {i})

With(table, i, e) == [j \in DOMAIN table \cup {i} |-> IF j = i THEN e ELSE table[j]]

\* The application's bridge makes an entity: the handle is one it does not use.
NewHandle(m) == CHOOSE h \in 1 .. Cardinality(alive[m]) + 1 : h \notin alive[m]

BridgeSpawn(m) == alive' = [alive EXCEPT ![m] = @ \cup {NewHandle(m)}]

BridgeDestroy(m, handle) == alive' = [alive EXCEPT ![m] = @ \ {handle}]

-----------------------------------------------------------------------------
(* The server's application.                                               *)

SpawnMessage(i, e, init) ==
  [type |-> "EntitySpawn", id |-> i, prefab_id |-> e.prefab_id, init |-> init]

broadcast_spawn(i, e) == down' = Sent(Approved, <<SpawnMessage(i, e, e.init)>>)

\* Ids count up and are never given again; the loop stops at the limit.
spawn(prefab, init) ==
  LET e == [prefab_id |-> prefab, owner_id |-> 0,
            local_handle |-> NewHandle("server"), init |-> init] IN
  /\ next_id <= MaxSpawns
  /\ ~Full(ServerMax, entities)
  /\ Room(Approved, 1)
  /\ next_id' = next_id + 1
  /\ BridgeSpawn("server")
  /\ entities' = With(entities, next_id, e)
  /\ broadcast_spawn(next_id, e)
  /\ UNCHANGED <<mirror, ids, caught_up, CallVars, joins>>

broadcast_destroy_Others(i) ==
  down' = Sent(Receivers(entities[i].owner_id), <<[type |-> "EntityDestroy", id |-> i]>>)

broadcast_destroy(i) == down' = Sent(Approved, <<[type |-> "EntityDestroy", id |-> i]>>)

destroy(i) ==
  /\ i \in DOMAIN entities
  /\ Room(Approved, 1)
  /\ BridgeDestroy("server", entities[i].local_handle)
  /\ entities' = Without(entities, i)
  /\ broadcast_destroy(i)
  /\ UNCHANGED <<next_id, mirror, ids, caught_up, CallVars, joins>>

\* The clients are not told.
set_owner(i, owner) ==
  /\ i \in DOMAIN entities
  /\ entities' = [entities EXCEPT ![i].owner_id = owner]
  /\ UNCHANGED <<next_id, mirror, alive, ids, down, caught_up, CallVars, joins>>

\* One spawn message for each entity, in the order of an unordered_map and
\* without the data it was spawned with.
send_full_state_to_client(c) ==
  /\ c \in Approved
  /\ Room({c}, Cardinality(DOMAIN entities))
  /\ \E order \in SetToSeqs(DOMAIN entities) :
       down' = Sent({c}, [k \in DOMAIN order |->
                            SpawnMessage(order[k], entities[order[k]], FALSE)])
  /\ caught_up' = [caught_up EXCEPT ![c] = TRUE]
  /\ UNCHANGED <<entities, next_id, mirror, alive, ids, CallVars, joins>>

-----------------------------------------------------------------------------
(* Calls of the server.                                                    *)

\* The owner of an entity, 0 for the server and for an entity that is gone.
owner(i) == IF i \in DOMAIN entities THEN entities[i].owner_id ELSE 0

Oversized(max, size) == max > 0 /\ size > max

RpcMessage(i, size) ==
  [type |-> "Rpc", call |-> calls + 1, size |-> size, id |-> i,
   knows |-> {c \in Clients : caught_up[c] /\ i \in DOMAIN entities}]

send_rpc_Urgent(to, i, size) ==
  /\ calls < MaxCalls
  /\ ~Oversized(ServerPayload, size)
  /\ Room(to, 1)
  /\ calls' = calls + 1
  /\ down' = [c \in Clients |->
               IF c \in to THEN <<RpcMessage(i, size)>> \o down[c] ELSE down[c]]
  /\ UNCHANGED <<entities, next_id, mirror, alive, ids, caught_up, missed, joins>>

\* The packet with the call goes to the clients in `to'.  build_rpc_packet makes none
\* for arguments above max_payload_size_, and then nothing is done.
send_rpc(to, i, size) ==
  /\ calls < MaxCalls
  /\ ~Oversized(ServerPayload, size)
  /\ Room(to, 1)
  /\ calls' = calls + 1
  /\ down' = Sent(to, <<RpcMessage(i, size)>>)
  /\ UNCHANGED <<entities, next_id, mirror, alive, ids, caught_up, missed, joins>>

\* The call is due at those whom the documentation of each of these names.
DueAt(to) == due' = [c \in Clients |-> IF c \in to THEN due[c] \cup {calls + 1} ELSE due[c]]

invoke_client(c, i, size) ==
  /\ c \in Approved
  /\ send_rpc({c}, i, size)
  /\ DueAt({c})

invoke_broadcast(i, size) ==
  /\ send_rpc(Receivers(0), i, size)
  /\ DueAt(Approved)

invoke_owner(i, size) ==
  /\ owner(i) # 0
  /\ send_rpc({c \in Approved : ids[c] = owner(i)}, i, size)
  /\ DueAt({c \in Approved : ids[c] = owner(i)})

invoke_not_owner(i, size) ==
  /\ send_rpc(Receivers(owner(i)), i, size)
  /\ DueAt({c \in Approved : ids[c] # owner(i)})

\* The overload that takes a BitStream does not look whether there is a packet.
invoke_broadcast_oversized(size) ==
  /\ Oversized(ServerPayload, size)
  /\ Approved # {}
  /\ Room(Approved, 1)
  /\ down' = Sent(Receivers(0), <<[type |-> "Empty"]>>)
  /\ UNCHANGED <<entities, next_id, mirror, alive, ids, caught_up, CallVars, joins>>

-----------------------------------------------------------------------------
(* The clients.                                                            *)

\* The server accepts c; a manager kept from an earlier connection stays as it is.
join(c) ==
  /\ ids[c] = 0
  /\ joins < MaxJoins
  /\ joins' = joins + 1
  /\ ids' = [ids EXCEPT ![c] = generate_client_id]
  /\ IF FreshManagers
     THEN /\ mirror' = [mirror EXCEPT ![c] = NoEntities]
          /\ alive' = [alive EXCEPT ![c] = {}]
     ELSE UNCHANGED <<mirror, alive>>
  /\ UNCHANGED <<entities, next_id, down, caught_up, CallVars>>

\* The connection ends: what is on its way does not arrive any more.
leave(c) ==
  /\ ids[c] # 0
  /\ ids' = [ids EXCEPT ![c] = 0]
  /\ down' = [down EXCEPT ![c] = << >>]
  /\ due' = [due EXCEPT ![c] = {}]
  /\ caught_up' = [caught_up EXCEPT ![c] = FALSE]
  /\ UNCHANGED <<entities, next_id, mirror, alive, calls, missed, joins>>

NextMessage(c, type) == down[c] # << >> /\ Head(down[c]).type = type

Taken(c) == down' = [down EXCEPT ![c] = Tail(@)]

on_receive_spawn_Twice(c) ==
  LET m == Head(down[c]) IN
  /\ NextMessage(c, "EntitySpawn")
  /\ Taken(c)
  /\ IF Full(ClientMax, mirror[c])
     THEN UNCHANGED <<mirror, alive>>
     ELSE /\ BridgeSpawn(c)
          /\ mirror' = [mirror EXCEPT ![c] = With(@, m.id,
               [prefab_id |-> m.prefab_id, owner_id |-> 0,
                local_handle |-> NewHandle(c), init |-> m.init])]
  /\ UNCHANGED <<entities, next_id, ids, caught_up, CallVars, joins>>

\* A spawn of an entity the client has, or has no room for, is ignored.
on_receive_spawn(c) ==
  LET m == Head(down[c]) IN
  /\ NextMessage(c, "EntitySpawn")
  /\ Taken(c)
  /\ IF m.id \in DOMAIN mirror[c] \/ Full(ClientMax, mirror[c])
     THEN UNCHANGED <<mirror, alive>>
     ELSE /\ BridgeSpawn(c)
          /\ mirror' = [mirror EXCEPT ![c] = With(@, m.id,
               [prefab_id |-> m.prefab_id, owner_id |-> 0,
                local_handle |-> NewHandle(c), init |-> m.init])]
  /\ UNCHANGED <<entities, next_id, ids, caught_up, CallVars, joins>>

on_receive_destroy(c) ==
  LET m == Head(down[c]) IN
  /\ NextMessage(c, "EntityDestroy")
  /\ Taken(c)
  /\ IF m.id \in DOMAIN mirror[c]
     THEN /\ BridgeDestroy(c, mirror[c][m.id].local_handle)
          /\ mirror' = [mirror EXCEPT ![c] = Without(@, m.id)]
     ELSE UNCHANGED <<mirror, alive>>
  /\ UNCHANGED <<entities, next_id, ids, caught_up, CallVars, joins>>

\* on_receive of the client's RpcManager, which may drop a call without a word: for its
\* arguments, because the application has no handler registered for it at this moment,
\* or because the bucket of the call (in RateLimits) has no token.  The sender is 0, so
\* authority allows it.
on_receive_call(c) ==
  LET m == Head(down[c]) IN
  /\ NextMessage(c, "Rpc")
  /\ Taken(c)
  /\ due' = [due EXCEPT ![c] = @ \ {m.call}]
  /\ \E runs \in BOOLEAN :
       /\ Oversized(ClientPayload, m.size) => ~runs
       /\ missed' = IF runs /\ c \in m.knows /\ m.id \notin DOMAIN mirror[c]
                    THEN missed \cup {c} ELSE missed
  /\ UNCHANGED <<entities, next_id, mirror, alive, ids, caught_up, calls, joins>>

\* poll_transport_receives_for skips a packet without bytes.
receive_empty(c) ==
  /\ NextMessage(c, "Empty")
  /\ Taken(c)
  /\ UNCHANGED <<entities, next_id, mirror, alive, ids, caught_up, CallVars, joins>>

Next ==
  \/ \E p \in Prefabs, b \in InitData : spawn(p, b)
  \/ \E i \in NetworkId : destroy(i)
  \/ \E i \in NetworkId : \E c \in Clients : ids[c] # 0 /\ set_owner(i, ids[c])
  \/ \E i \in NetworkId, size \in Payloads :
       invoke_broadcast(i, size) \/ invoke_owner(i, size) \/ invoke_not_owner(i, size)
  \/ \E size \in Payloads : invoke_broadcast_oversized(size)
  \/ \E c \in Clients :
       \/ send_full_state_to_client(c)
       \/ \E i \in NetworkId, size \in Payloads : invoke_client(c, i, size)
       \/ join(c)
       \/ leave(c)
       \/ on_receive_spawn(c)
       \/ on_receive_destroy(c)
       \/ on_receive_call(c)
       \/ receive_empty(c)

Spec == Init /\ [][Next]_vars

-----------------------------------------------------------------------------
(* Properties.                                                             *)

Spawns(m, i) == m.type = "EntitySpawn" /\ m.id = i
Destroys(m, i) == m.type = "EntityDestroy" /\ m.id = i

\* What a table with the ids in `has' holds after the first k messages of q: what it
\* had or what one of them spawns, and no later one destroys.
After(has, q, k) ==
  {i \in NetworkId :
     \/ i \in has /\ \A l \in 1 .. k : ~Destroys(q[l], i)
     \/ \E j \in 1 .. k : Spawns(q[j], i) /\ \A l \in j + 1 .. k : ~Destroys(q[l], i)}

\* The entities a client will have when it has taken the messages on their way.
Pending(c) == After(DOMAIN mirror[c], down[c], Len(down[c]))

\* Late-joiner catch-up of send_full_state_to_client with the broadcasts that
\* race with it: once the full state was sent, a client ends with the server's
\* entities, and with the prefab of each.
MirrorConverges ==
  \A c \in Clients : caught_up[c] =>
    /\ Pending(c) = DOMAIN entities
    /\ \A i \in DOMAIN mirror[c] \cap DOMAIN entities :
         mirror[c][i].prefab_id = entities[i].prefab_id

\* Each bridge has exactly one live handle for each entity of its manager: no
\* duplicate spawn leaks one, no destroy takes another's.
HandlesMatch ==
  \A m \in Managers :
    LET table == IF m = "server" THEN entities ELSE mirror[m] IN
    /\ alive[m] = {table[i].local_handle : i \in DOMAIN table}
    /\ IsInjective([i \in DOMAIN table |-> table[i].local_handle])

\* The tables in every state, with the handles of the bridges that belong to them.
BridgesInv == TypeOK /\ HandlesMatch

\* Calls share the ordered channel with spawns and destroys: a client with the
\* full state that runs a call about an entity the server had when it made the
\* call finds the entity, however late it runs the call.
CallFindsEntity == missed = {}

\* "Server -> Owner", "Server -> All except Owner": what is on its way to a client are the
\* calls made for it in this connection and not yet handed to its RpcManager, and no
\* others, each once and in the order they were made.
CallsAddressed ==
  \A c \in Approved :
    LET Waiting == {k \in DOMAIN down[c] : down[c][k].type = "Rpc"} IN
    /\ {down[c][k].call : k \in Waiting} = due[c]
    /\ \A j, k \in Waiting : j < k => down[c][j].call < down[c][k].call

\* Calls reach those they are for, once, in order, and find their entity.
CallsInv == CallFindsEntity /\ CallsAddressed

\* "Send the full entity state to a specific client (late-joiner catch-up)".
InitDataReachesJoiner ==
  \A c \in Clients : caught_up[c] => \A i \in DOMAIN mirror[c] \cap DOMAIN entities :
    mirror[c][i].init = entities[i].init

\* "Track which entities exist and who owns them".
OwnerReachesClients ==
  \A c \in Clients : caught_up[c] /\ down[c] = << >> =>
    \A i \in DOMAIN mirror[c] \cap DOMAIN entities :
      mirror[c][i].owner_id = entities[i].owner_id
=============================================================================
