------------------------ MODULE NetworkEntities_proofs ------------------------
(***************************************************************************)
(* The entity managers and the calls, for every number of clients, entities *)
(* and messages on their way: the tables belong to their bridges' handles, *)
(* a client that was caught up comes to hold the server's entities, and    *)
(* calls find the entities they are about.                                 *)
(***************************************************************************)
EXTENDS NetworkEntities, FiniteSetTheorems, SequenceTheorems, NaturalsInduction,
        WellFoundedInduction, TLAPS

-----------------------------------------------------------------------------
(* Ids and handles.                                                        *)

\* A set of natural numbers that is not empty has a least member.
LEMMA LeastMember ==
  ASSUME NEW T, T \subseteq Nat, T # {}
  PROVE  \E x \in T : \A y \in T : x <= y
<1> DEFINE R == OpToRel(<, Nat)
<1>1. IsWellFoundedOn(R, Nat)
  BY NatLessThanWellFounded
<1>2. \E x \in T : \A y \in T : ~ (<<y, x>> \in R)
  <2> HIDE DEF R
  <2> QED BY <1>1, WFMin
<1>3. PICK x \in T : \A y \in T : ~ (<<y, x>> \in R)
  BY <1>2
<1>4. \A y \in T : ~ (y < x)
  BY <1>3 DEF OpToRel
<1>5. \A y \in T : x \in Nat /\ y \in Nat
  OBVIOUS
<1> HIDE DEF R
<1>6. \A y \in T : x <= y
  BY <1>4, <1>5
<1> QED
  BY <1>6

\* One of n + 1 numbers is not in a set of at most n.
LEMMA OneIsFree ==
  ASSUME NEW S, IsFiniteSet(S), NEW n \in Nat, Cardinality(S) <= n
  PROVE  \E i \in 1 .. n + 1 : i \notin S /\ \A j \in 1 .. i - 1 : j \in S
<1> DEFINE C == 1 .. n + 1
           T == {i \in C : i \notin S}
<1>1. Cardinality(C) = n + 1
  BY FS_Interval
<1>2. T # {}
  <2> SUFFICES ASSUME T = {} PROVE FALSE
    OBVIOUS
  <2>1. C \in SUBSET S
    OBVIOUS
  <2>2. Cardinality(C) <= Cardinality(S)
    <3> HIDE DEF C
    <3> QED BY <2>1, FS_Subset
  <2>3. Cardinality(S) \in Nat
    BY FS_CardinalityType
  <2> QED
    BY <2>2, <2>3, <1>1
<1>3. PICK i \in T : \A j \in T : i <= j
  <2>1. T \subseteq Nat
    OBVIOUS
  <2> HIDE DEF T
  <2> QED BY <1>2, <2>1, LeastMember
<1>4. i \in C /\ i \notin S
  BY <1>3
<1>5. ASSUME NEW j \in 1 .. i - 1, j \notin S PROVE FALSE
  <2>1. j \in C /\ ~ (i <= j)
    BY <1>4
  <2> QED
    BY <1>3, <1>5, <2>1
<1> QED BY <1>4, <1>5

\* The smallest id that no client has is found: a client that has none leaves one free.
LEMMA GeneratedId ==
  ASSUME TypeOK, NEW c \in Clients, ids[c] = 0
  PROVE  /\ generate_client_id \in Nat /\ generate_client_id # 0
         /\ \A d \in Clients : ids[d] # generate_client_id
<1> DEFINE others == Clients \ {c}
           S == {ids[d] : d \in others}
<1>1. IsFiniteSet(Clients) /\ IsFiniteSet(others)
      /\ Cardinality(others) = Cardinality(Clients) - 1
      /\ Cardinality(Clients) \in Nat /\ Cardinality(others) \in Nat
  BY ClientsAssumption, FS_RemoveElement, FS_CardinalityType
<1>2. IsFiniteSet(S) /\ Cardinality(S) <= Cardinality(others)
  <2> DEFINE f == [d \in others |-> ids[d]]
  <2>1. f \in Surjection(others, S)
    BY DEF Surjection
  <2> HIDE DEF others, S, f
  <2> QED BY <1>1, <2>1, FS_Surjection
<1>3. PICK n \in Nat : n = Cardinality(others) /\ n + 1 = Cardinality(Clients)
  BY <1>1
<1> HIDE DEF S, others
<1>4. PICK i \in 1 .. n + 1 : i \notin S /\ \A j \in 1 .. i - 1 : j \in S
  BY <1>2, <1>3, OneIsFree
<1>5. \A d \in Clients : ids[d] # i
  BY <1>4 DEF S, others
<1>6. \A j \in 1 .. i - 1 : \E d \in Clients : ids[d] = j
  BY <1>4 DEF S, others
<1>7. i \in 1 .. Cardinality(Clients)
  BY <1>3
<1>8. /\ generate_client_id \in 1 .. Cardinality(Clients)
      /\ \A d \in Clients : ids[d] # generate_client_id
  BY <1>5, <1>6, <1>7 DEF generate_client_id
<1> QED BY <1>1, <1>8

\* The bridge finds a handle that is not in use.
LEMMA NewHandleFree ==
  ASSUME NEW m, IsFiniteSet(alive[m])
  PROVE  NewHandle(m) \in Nat /\ NewHandle(m) \notin alive[m]
<1>1. PICK n \in Nat : n = Cardinality(alive[m])
  BY FS_CardinalityType
<1>2. n <= n
  BY <1>1
<1>3. \E h \in 1 .. n + 1 : h \notin alive[m]
  BY <1>1, <1>2, OneIsFree
<1>4. NewHandle(m) \in 1 .. n + 1 /\ NewHandle(m) \notin alive[m]
  BY <1>1, <1>3 DEF NewHandle
<1> QED BY <1>4

-----------------------------------------------------------------------------
(* Tables and the handles of their bridges.                                *)

\* A table and the handles that its bridge has alive.
Matches(t, a) ==
  /\ a = {t[i].local_handle : i \in DOMAIN t}
  /\ \A i, j \in DOMAIN t : t[i].local_handle = t[j].local_handle => i = j

\* What HandlesMatch says, table by table.
LEMMA MatchesIsHandlesMatch ==
  HandlesMatch <=> /\ Matches(entities, alive["server"])
                   /\ \A c \in Clients : Matches(mirror[c], alive[c])
<1>1. ASSUME NEW t, NEW a
      PROVE  Matches(t, a) <=>
               /\ a = {t[i].local_handle : i \in DOMAIN t}
               /\ IsInjective([i \in DOMAIN t |-> t[i].local_handle])
  BY DEF Matches, IsInjective
<1>2. HandlesMatch <=>
        \A m \in Managers :
          Matches(IF m = "server" THEN entities ELSE mirror[m], alive[m])
  BY <1>1 DEF HandlesMatch
<1> QED BY <1>2, ClientsAssumption DEF Managers

\* The handles of a table are finitely many.
LEMMA HandlesFinite ==
  ASSUME NEW t, IsTable(t), NEW a, Matches(t, a)
  PROVE  IsFiniteSet(a) /\ IsFiniteSet(DOMAIN t) /\ Cardinality(DOMAIN t) \in Nat
<1>1. IsFiniteSet(NetworkId)
  BY FS_Interval, BoundAssumption DEF NetworkId
<1>2. IsFiniteSet(DOMAIN t)
  BY <1>1, FS_Subset DEF IsTable
<1>3. IsFiniteSet({t[i].local_handle : i \in DOMAIN t})
  <2> DEFINE S == {t[i].local_handle : i \in DOMAIN t}
             f == [i \in DOMAIN t |-> t[i].local_handle]
  <2>1. f \in Surjection(DOMAIN t, S)
    BY DEF Surjection
  <2>2. IsFiniteSet(S)
    <3> HIDE DEF f, S
    <3> QED BY <1>2, <2>1, FS_Surjection
  <2> QED BY <2>2
<1> QED BY <1>2, <1>3, FS_CardinalityType DEF Matches

\* Adding an entry, and taking one out.
LEMMA WithFacts ==
  ASSUME NEW t, IsTable(t), NEW i \in NetworkId, NEW e \in Entity
  PROVE  /\ IsTable(With(t, i, e)) /\ DOMAIN With(t, i, e) = DOMAIN t \cup {i}
         /\ With(t, i, e)[i] = e
         /\ \A j \in DOMAIN t : j # i => With(t, i, e)[j] = t[j]
BY DEF With, IsTable

\* Taking an entry out leaves the others.
LEMMA WithoutFacts ==
  ASSUME NEW t, IsTable(t), NEW i
  PROVE  /\ IsTable(Without(t, i)) /\ DOMAIN Without(t, i) = DOMAIN t \ {i}
         /\ \A j \in DOMAIN t : j # i => Without(t, i)[j] = t[j]
BY DEF Without, Restrict, IsTable

\* An entry with a handle that is not in use.
LEMMA WithMatches ==
  ASSUME NEW t, IsTable(t), NEW a, Matches(t, a), NEW i \in NetworkId, i \notin DOMAIN t,
         NEW e \in Entity, e.local_handle \notin a
  PROVE  Matches(With(t, i, e), a \cup {e.local_handle})
<1>1. PICK u : u = With(t, i, e)
  OBVIOUS
<1>2. /\ DOMAIN u = DOMAIN t \cup {i} /\ u[i] = e
      /\ \A j \in DOMAIN t : u[j] = t[j]
  BY <1>1 DEF With
<1>3. a \cup {e.local_handle} = {u[j].local_handle : j \in DOMAIN u}
  BY <1>2 DEF Matches
<1>4. \A j, k \in DOMAIN u : u[j].local_handle = u[k].local_handle => j = k
  BY <1>2 DEF Matches
<1>5. Matches(u, a \cup {e.local_handle})
  BY <1>3, <1>4 DEF Matches
<1> QED BY <1>1, <1>5

\* Its handle goes with an entry, and no other.
LEMMA WithoutMatches ==
  ASSUME NEW t, IsTable(t), NEW a, Matches(t, a), NEW i \in DOMAIN t
  PROVE  Matches(Without(t, i), a \ {t[i].local_handle})
<1>1. PICK u : u = Without(t, i)
  OBVIOUS
<1>2. DOMAIN u = DOMAIN t \ {i} /\ \A j \in DOMAIN u : u[j] = t[j]
  BY <1>1, WithoutFacts, ZenonT(30)
<1>3. a \ {t[i].local_handle} = {u[j].local_handle : j \in DOMAIN u}
  BY <1>2 DEF Matches
<1>4. \A j, k \in DOMAIN u : u[j].local_handle = u[k].local_handle => j = k
  BY <1>2 DEF Matches
<1>5. Matches(u, a \ {t[i].local_handle})
  BY <1>3, <1>4 DEF Matches
<1> QED BY <1>1, <1>5

-----------------------------------------------------------------------------
(* Types, and the handles of the bridges.                                  *)

\* What a step keeps of the tables: ids are given once.
TablesInv == TypeOK /\ HandlesMatch /\ \A i \in DOMAIN entities : i < next_id

\* A spawn message of an entity.
LEMMA SpawnMessageType ==
  ASSUME NEW i \in NetworkId, NEW e \in Entity, NEW b \in BOOLEAN
  PROVE  SpawnMessage(i, e, b) \in Message
BY DEF SpawnMessage, Message, Entity

\* Sending adds the messages to the queues of the addressees.
LEMMA SentFacts ==
  ASSUME down \in [Clients -> Seq(Message)], NEW to, NEW msgs \in Seq(Message)
  PROVE  /\ Sent(to, msgs) \in [Clients -> Seq(Message)]
         /\ \A c \in Clients : Sent(to, msgs)[c] = IF c \in to THEN down[c] \o msgs ELSE down[c]
<1>1. \A c \in Clients : down[c] \o msgs \in Seq(Message) /\ down[c] \in Seq(Message)
  BY ConcatProperties
<1> QED BY <1>1 DEF Sent

\* The message that is taken, and the queue without it.
LEMMA TakenFacts ==
  ASSUME down \in [Clients -> Seq(Message)], NEW c \in Clients, down[c] # << >>, Taken(c)
  PROVE  /\ down' \in [Clients -> Seq(Message)]
         /\ down'[c] = Tail(down[c]) /\ \A d \in Clients \ {c} : down'[d] = down[d]
         /\ Head(down[c]) = down[c][1] /\ Head(down[c]) \in Message
         /\ Len(down[c]) \in Nat \ {0} /\ Len(down'[c]) = Len(down[c]) - 1
         /\ \A k \in 1 .. Len(down'[c]) : down'[c][k] = down[c][k + 1]
<1>1. down[c] \in Seq(Message)
  OBVIOUS
<1>2. PICK q \in Seq(Message) : q = down[c] /\ q # << >>
  BY <1>1
<1>3. Len(q) \in Nat \ {0} /\ Head(q) = q[1]
  BY <1>2
<1>4. 1 \in 1 .. Len(q)
  BY <1>3
<1>5. Head(q) \in Message
  BY <1>3, <1>4, ElementOfSeq
<1>6. Tail(q) \in Seq(Message) /\ Len(Tail(q)) = Len(q) - 1
      /\ \A k \in 1 .. Len(Tail(q)) : Tail(q)[k] = q[k + 1]
  BY <1>2
<1>7. /\ down' \in [Clients -> Seq(Message)]
      /\ down'[c] = Tail(q) /\ \A d \in Clients \ {c} : down'[d] = down[d]
  BY <1>2, <1>6 DEF Taken
<1> QED BY <1>2, <1>3, <1>5, <1>6, <1>7

\* A call's message.
LEMMA RpcMessageType ==
  ASSUME TypeOK, NEW i \in NetworkId, NEW size \in Payloads
  PROVE  /\ RpcMessage(i, size) \in Message /\ RpcMessage(i, size).type = "Rpc"
         /\ RpcMessage(i, size).call = calls + 1 /\ RpcMessage(i, size).id = i
         /\ RpcMessage(i, size).knows = {c \in Clients : caught_up[c] /\ i \in DOMAIN entities}
<1>1. calls + 1 \in Nat /\ size \in Nat
  BY PayloadAssumption DEF TypeOK
<1> QED BY <1>1 DEF RpcMessage, Message

\* What every call does: the addressees get its message, and it is recorded for them.
LEMMA CallFacts ==
  ASSUME TypeOK, NEW i \in NetworkId, NEW size \in Payloads,
         \/ \E c \in Clients : invoke_client(c, i, size)
         \/ invoke_broadcast(i, size) \/ invoke_owner(i, size) \/ invoke_not_owner(i, size)
  PROVE  \E to \in SUBSET Approved :
           /\ down' = Sent(to, <<RpcMessage(i, size)>>)
           /\ calls' = calls + 1 /\ DueAt(to)
           /\ UNCHANGED <<entities, next_id, mirror, alive, ids, caught_up, missed, joins>>
<1>1. ASSUME NEW c \in Clients, invoke_client(c, i, size)
      PROVE  {c} \in SUBSET Approved /\ down' = Sent({c}, <<RpcMessage(i, size)>>)
             /\ calls' = calls + 1 /\ DueAt({c})
             /\ UNCHANGED <<entities, next_id, mirror, alive, ids, caught_up, missed, joins>>
  BY <1>1 DEF invoke_client, send_rpc
<1>2. Receivers(0) = Approved
  BY DEF Receivers, Approved
<1>3. CASE invoke_broadcast(i, size)
  <2>1. /\ Approved \in SUBSET Approved /\ down' = Sent(Approved, <<RpcMessage(i, size)>>)
        /\ calls' = calls + 1 /\ DueAt(Approved)
        /\ UNCHANGED <<entities, next_id, mirror, alive, ids, caught_up, missed, joins>>
    BY <1>2, <1>3 DEF invoke_broadcast, send_rpc
  <2> QED BY <2>1
<1>4. CASE invoke_owner(i, size)
  <2> DEFINE to == {c \in Approved : ids[c] = owner(i)}
  <2>1. /\ to \in SUBSET Approved /\ down' = Sent(to, <<RpcMessage(i, size)>>)
        /\ calls' = calls + 1 /\ DueAt(to)
        /\ UNCHANGED <<entities, next_id, mirror, alive, ids, caught_up, missed, joins>>
    BY <1>4 DEF invoke_owner, send_rpc
  <2> QED BY <2>1
<1>5. CASE invoke_not_owner(i, size)
  <2> DEFINE to == {c \in Approved : ids[c] # owner(i)}
  <2>1. /\ to \in SUBSET Approved /\ down' = Sent(to, <<RpcMessage(i, size)>>)
        /\ calls' = calls + 1 /\ DueAt(to)
        /\ UNCHANGED <<entities, next_id, mirror, alive, ids, caught_up, missed, joins>>
    BY <1>5 DEF invoke_not_owner, send_rpc, Receivers
  <2> QED BY <2>1
<1> QED BY <1>1, <1>3, <1>4, <1>5

\* The tables are empty at first.
LEMMA TablesInit == Init => TablesInv
<1> SUFFICES ASSUME Init PROVE TablesInv
  OBVIOUS
<1>1. DOMAIN NoEntities = {}
  BY DEF NoEntities
<1>2. IsTable(NoEntities) /\ Matches(NoEntities, {})
  BY <1>1 DEF IsTable, Matches
<1>3. << >> \in Seq(Message) /\ << >> \in Seq([to : SUBSET Clients])
      /\ << >> \in Seq([call : Nat, found : BOOLEAN])
  OBVIOUS
<1>4. 0 \in 0 .. MaxJoins
  BY BoundAssumption
<1>5. caught_up \in [Clients -> BOOLEAN]
  BY DEF Init
<1>6. TypeOK
  BY <1>2, <1>3, <1>4, <1>5 DEF Init, TypeOK
<1>7. \A m \in Managers : alive[m] = {}
  BY DEF Init
<1>8. HandlesMatch
  BY <1>2, <1>7, MatchesIsHandlesMatch DEF Init, Managers
<1> QED BY <1>1, <1>6, <1>8 DEF TablesInv, Init

\* A table and the handles of its bridge, from one state to the next.
LEMMA MatchesOf ==
  ASSUME TablesInv
  PROVE  /\ IsTable(entities) /\ Matches(entities, alive["server"])
         /\ \A c \in Clients : IsTable(mirror[c]) /\ Matches(mirror[c], alive[c])
         /\ \A m \in Managers : IsFiniteSet(alive[m])
<1>1. /\ IsTable(entities) /\ Matches(entities, alive["server"])
      /\ \A c \in Clients : IsTable(mirror[c]) /\ Matches(mirror[c], alive[c])
  BY MatchesIsHandlesMatch DEF TablesInv, TypeOK
<1> QED BY <1>1, HandlesFinite DEF Managers

\* spawn: the entity, its handle and its message.
LEMMA SpawnFacts ==
  ASSUME TablesInv, NEW p \in Prefabs, NEW b \in InitData, spawn(p, b)
  PROVE  \E e \in Entity :
           /\ e.prefab_id = p /\ e.local_handle \notin alive["server"]
           /\ next_id \in NetworkId /\ next_id \notin DOMAIN entities /\ next_id' = next_id + 1
           /\ ~Full(ServerMax, entities)
           /\ entities' = With(entities, next_id, e)
           /\ alive' = [alive EXCEPT !["server"] = @ \cup {e.local_handle}]
           /\ SpawnMessage(next_id, e, e.init) \in Message
           /\ down' = Sent(Approved, <<SpawnMessage(next_id, e, e.init)>>)
           /\ UNCHANGED <<mirror, ids, caught_up, CallVars, joins>>
<1>1. b \in BOOLEAN
  BY InputAssumption
<1>2. NewHandle("server") \in Nat /\ NewHandle("server") \notin alive["server"]
  BY MatchesOf, NewHandleFree DEF Managers
<1>3. PICK e : e = [prefab_id |-> p, owner_id |-> 0, local_handle |-> NewHandle("server"),
                    init |-> b]
  OBVIOUS
<1>4. e \in Entity /\ e.prefab_id = p /\ e.local_handle = NewHandle("server")
      /\ e.init \in BOOLEAN
  BY <1>1, <1>2, <1>3 DEF Entity
<1>5. next_id \in NetworkId /\ next_id \notin DOMAIN entities
  BY BoundAssumption DEF TablesInv, TypeOK, spawn, NetworkId
<1>6. SpawnMessage(next_id, e, e.init) \in Message
  BY <1>4, <1>5, SpawnMessageType
<1>7. /\ next_id' = next_id + 1 /\ ~Full(ServerMax, entities)
      /\ entities' = With(entities, next_id, e)
      /\ alive' = [alive EXCEPT !["server"] = @ \cup {e.local_handle}]
      /\ down' = Sent(Approved, <<SpawnMessage(next_id, e, e.init)>>)
      /\ UNCHANGED <<mirror, ids, caught_up, CallVars, joins>>
  BY <1>3, <1>4 DEF spawn, BridgeSpawn, broadcast_spawn
<1> QED BY <1>2, <1>4, <1>5, <1>6, <1>7

\* The full state is a spawn message for each entity, each once.
LEMMA FullStateFacts ==
  ASSUME TablesInv, NEW c \in Clients, send_full_state_to_client(c)
  PROVE  \E msgs \in Seq(Message) :
           /\ down' = Sent({c}, msgs)
           /\ \A k \in 1 .. Len(msgs) :
                /\ msgs[k].type = "EntitySpawn" /\ msgs[k].id \in DOMAIN entities
                /\ msgs[k].prefab_id = entities[msgs[k].id].prefab_id
           /\ \A i \in DOMAIN entities : \E k \in 1 .. Len(msgs) : msgs[k].id = i
           /\ c \in Approved
           /\ caught_up' = [caught_up EXCEPT ![c] = TRUE]
           /\ UNCHANGED <<entities, next_id, mirror, alive, ids, CallVars, joins>>
<1>1. PICK order \in SetToSeqs(DOMAIN entities) :
        down' = Sent({c}, [k \in DOMAIN order |->
                             SpawnMessage(order[k], entities[order[k]], FALSE)])
  BY DEF send_full_state_to_client
<1>2. IsTable(entities) /\ IsFiniteSet(DOMAIN entities) /\ Cardinality(DOMAIN entities) \in Nat
  BY MatchesOf, HandlesFinite
<1>3. PICK n \in Nat : n = Cardinality(DOMAIN entities)
  BY <1>2
<1>4. order \in [1 .. n -> DOMAIN entities]
      /\ \A j, k \in 1 .. n : j # k => order[j] # order[k]
  BY <1>3 DEF SetToSeqs
<1>5. \A i \in DOMAIN entities : \E k \in 1 .. n : order[k] = i
  <2>1. order \in Injection(1 .. n, DOMAIN entities)
    BY <1>4 DEF Injection, IsInjective
  <2>2. Cardinality(1 .. n) = n /\ IsFiniteSet(1 .. n)
    BY FS_Interval
  <2>3. order \in Surjection(1 .. n, DOMAIN entities)
    BY <2>1, <2>2, <1>2, <1>3, FS_Injection
  <2> QED BY <2>3 DEF Surjection
<1>6. PICK msgs : msgs = [k \in 1 .. n |-> SpawnMessage(order[k], entities[order[k]], FALSE)]
  OBVIOUS
<1>7. \A k \in 1 .. n :
        /\ order[k] \in DOMAIN entities /\ order[k] \in NetworkId
        /\ entities[order[k]] \in Entity
  BY <1>2, <1>4 DEF IsTable
<1>8. \A k \in 1 .. n : msgs[k] = SpawnMessage(order[k], entities[order[k]], FALSE)
                        /\ msgs[k] \in Message
  BY <1>6, <1>7, SpawnMessageType
<1>9. msgs \in Seq(Message) /\ Len(msgs) = n
  <2>1. msgs \in [1 .. n -> Message]
    BY <1>6, <1>8
  <2> QED BY <2>1, SeqDef
<1>10. \A k \in 1 .. n :
         /\ msgs[k].type = "EntitySpawn" /\ msgs[k].id = order[k]
         /\ msgs[k].prefab_id = entities[order[k]].prefab_id
  <2> SUFFICES ASSUME NEW k \in 1 .. n
               PROVE  /\ msgs[k].type = "EntitySpawn" /\ msgs[k].id = order[k]
                      /\ msgs[k].prefab_id = entities[order[k]].prefab_id
    OBVIOUS
  <2>1. msgs[k] = [type |-> "EntitySpawn", id |-> order[k],
                   prefab_id |-> entities[order[k]].prefab_id, init |-> FALSE]
    BY <1>8 DEF SpawnMessage
  <2> QED BY <2>1
<1>11. down' = Sent({c}, msgs)
  BY <1>1, <1>4, <1>6
<1>12. /\ \A k \in 1 .. Len(msgs) :
            /\ msgs[k].type = "EntitySpawn" /\ msgs[k].id \in DOMAIN entities
            /\ msgs[k].prefab_id = entities[msgs[k].id].prefab_id
       /\ \A i \in DOMAIN entities : \E k \in 1 .. Len(msgs) : msgs[k].id = i
  <2>1. Len(msgs) = n
    BY <1>9
  <2>2. \A k \in 1 .. n :
            /\ msgs[k].type = "EntitySpawn" /\ msgs[k].id \in DOMAIN entities
            /\ msgs[k].prefab_id = entities[msgs[k].id].prefab_id
    BY <1>7, <1>10
  <2>3. \A i \in DOMAIN entities : \E k \in 1 .. n : msgs[k].id = i
    BY <1>5, <1>10
  <2> QED BY <2>1, <2>2, <2>3
<1> QED
  BY <1>9, <1>11, <1>12 DEF send_full_state_to_client

\* join: the id, the empty queue and, with a new manager, the empty table.
LEMMA JoinFacts ==
  ASSUME TablesInv, NEW c \in Clients, join(c)
  PROVE  /\ ids[c] = 0
         /\ ids' \in [Clients -> Nat] /\ ids'[c] # 0
         /\ \A d \in Clients \ {c} : ids'[d] = ids[d]
         /\ joins' \in 0 .. MaxJoins
         /\ IF FreshManagers
            THEN /\ mirror' = [mirror EXCEPT ![c] = NoEntities]
                 /\ alive' = [alive EXCEPT ![c] = {}]
            ELSE UNCHANGED <<mirror, alive>>
         /\ UNCHANGED <<entities, next_id, down, caught_up, CallVars>>
<1>1. /\ ids[c] = 0 /\ joins < MaxJoins /\ joins' = joins + 1
      /\ ids' = [ids EXCEPT ![c] = generate_client_id]
      /\ IF FreshManagers
         THEN /\ mirror' = [mirror EXCEPT ![c] = NoEntities]
              /\ alive' = [alive EXCEPT ![c] = {}]
         ELSE UNCHANGED <<mirror, alive>>
      /\ UNCHANGED <<entities, next_id, down, caught_up, CallVars>>
  BY DEF join
<1>2. generate_client_id \in Nat /\ generate_client_id # 0
  BY <1>1, GeneratedId DEF TablesInv
<1>3. /\ ids' \in [Clients -> Nat] /\ ids'[c] # 0
      /\ \A d \in Clients \ {c} : ids'[d] = ids[d]
  BY <1>1, <1>2 DEF TablesInv, TypeOK
<1>4. joins' \in 0 .. MaxJoins
  BY <1>1, BoundAssumption DEF TablesInv, TypeOK
<1> QED BY <1>1, <1>3, <1>4

\* on_receive_spawn: a known or unwelcome entity changes nothing, another one is made.
LEMMA ReceiveSpawnFacts ==
  ASSUME TablesInv, NEW c \in Clients, on_receive_spawn(c)
  PROVE  LET m == Head(down[c]) IN
         /\ down[c] # << >> /\ Taken(c) /\ m.type = "EntitySpawn"
         /\ m.id \in NetworkId /\ m.prefab_id \in Prefabs
         /\ UNCHANGED <<entities, next_id, ids, caught_up, CallVars, joins>>
         /\ \/ /\ m.id \in DOMAIN mirror[c] \/ Full(ClientMax, mirror[c])
               /\ UNCHANGED <<mirror, alive>>
            \/ /\ m.id \notin DOMAIN mirror[c] /\ ~Full(ClientMax, mirror[c])
               /\ \E e \in Entity :
                    /\ e.prefab_id = m.prefab_id /\ e.local_handle \notin alive[c]
                    /\ mirror' = [mirror EXCEPT ![c] = With(mirror[c], m.id, e)]
                    /\ alive' = [alive EXCEPT ![c] = alive[c] \cup {e.local_handle}]
<1>1. PICK m : m = Head(down[c])
  OBVIOUS
<1>2. down[c] # << >> /\ Taken(c) /\ m.type = "EntitySpawn"
  BY <1>1 DEF on_receive_spawn, NextMessage
<1>3. m \in Message
  BY <1>1, <1>2, TakenFacts DEF TablesInv, TypeOK
<1>4. m.id \in NetworkId /\ m.prefab_id \in Prefabs /\ m.init \in BOOLEAN
  BY <1>2, <1>3 DEF Message
<1>5. NewHandle(c) \in Nat /\ NewHandle(c) \notin alive[c]
  BY MatchesOf, NewHandleFree DEF Managers
<1>6. PICK e : e = [prefab_id |-> m.prefab_id, owner_id |-> 0,
                    local_handle |-> NewHandle(c), init |-> m.init]
  OBVIOUS
<1>7. e \in Entity /\ e.prefab_id = m.prefab_id /\ e.local_handle = NewHandle(c)
  BY <1>4, <1>5, <1>6 DEF Entity
<1>8. UNCHANGED <<entities, next_id, ids, caught_up, CallVars, joins>>
  BY DEF on_receive_spawn
<1>9. CASE m.id \in DOMAIN mirror[c] \/ Full(ClientMax, mirror[c])
  <2>1. UNCHANGED <<mirror, alive>>
    BY <1>1, <1>9 DEF on_receive_spawn
  <2> QED BY <1>1, <1>2, <1>4, <1>8, <1>9, <2>1
<1>10. CASE ~(m.id \in DOMAIN mirror[c] \/ Full(ClientMax, mirror[c]))
  <2>1. /\ mirror' = [mirror EXCEPT ![c] = With(mirror[c], m.id, e)]
        /\ alive' = [alive EXCEPT ![c] = alive[c] \cup {e.local_handle}]
    BY <1>1, <1>6, <1>7, <1>10 DEF on_receive_spawn, BridgeSpawn
  <2> QED BY <1>1, <1>2, <1>4, <1>5, <1>7, <1>8, <1>10, <2>1
<1> QED BY <1>9, <1>10

\* on_receive_destroy: an unknown entity changes nothing, a known one is taken out.
LEMMA ReceiveDestroyFacts ==
  ASSUME TablesInv, NEW c \in Clients, on_receive_destroy(c)
  PROVE  LET m == Head(down[c]) IN
         /\ down[c] # << >> /\ Taken(c) /\ m.type = "EntityDestroy" /\ m.id \in NetworkId
         /\ UNCHANGED <<entities, next_id, ids, caught_up, CallVars, joins>>
         /\ \/ m.id \notin DOMAIN mirror[c] /\ UNCHANGED <<mirror, alive>>
            \/ /\ m.id \in DOMAIN mirror[c]
               /\ mirror' = [mirror EXCEPT ![c] = Without(mirror[c], m.id)]
               /\ alive' = [alive EXCEPT ![c] = alive[c] \ {mirror[c][m.id].local_handle}]
<1>1. PICK m : m = Head(down[c])
  OBVIOUS
<1>2. down[c] # << >> /\ Taken(c) /\ m.type = "EntityDestroy"
  BY <1>1 DEF on_receive_destroy, NextMessage
<1>3. m \in Message
  BY <1>1, <1>2, TakenFacts DEF TablesInv, TypeOK
<1>4. m.id \in NetworkId
  BY <1>2, <1>3 DEF Message
<1>5. UNCHANGED <<entities, next_id, ids, caught_up, CallVars, joins>>
  BY DEF on_receive_destroy
<1>6. CASE m.id \notin DOMAIN mirror[c]
  <2>1. UNCHANGED <<mirror, alive>>
    BY <1>1, <1>6 DEF on_receive_destroy
  <2> QED BY <1>1, <1>2, <1>4, <1>5, <1>6, <2>1
<1>7. CASE m.id \in DOMAIN mirror[c]
  <2>1. /\ mirror' = [mirror EXCEPT ![c] = Without(mirror[c], m.id)]
        /\ alive' = [alive EXCEPT ![c] = alive[c] \ {mirror[c][m.id].local_handle}]
    BY <1>1, <1>7 DEF on_receive_destroy, BridgeDestroy
  <2> QED BY <1>1, <1>2, <1>4, <1>5, <1>7, <2>1
<1> QED BY <1>6, <1>7

\* A step that changes the table of one manager, and keeps the other types.
LEMMA MatchesNext ==
  ASSUME IsTable(entities)', DOMAIN mirror' = Clients, \A c \in Clients : IsTable(mirror'[c]),
         Matches(entities', alive'["server"]),
         \A c \in Clients : Matches(mirror'[c], alive'[c])
  PROVE  HandlesMatch'
<1>1. ASSUME NEW t, NEW a
      PROVE  Matches(t, a) <=>
               /\ a = {t[i].local_handle : i \in DOMAIN t}
               /\ IsInjective([i \in DOMAIN t |-> t[i].local_handle])
  BY DEF Matches, IsInjective
<1>2. \A m \in Managers : Matches(IF m = "server" THEN entities' ELSE mirror'[m], alive'[m])
  BY ClientsAssumption DEF Managers
<1> QED BY <1>1, <1>2 DEF HandlesMatch

\* The handles of every table, in any state: natural numbers.
LEMMA HandlesNat ==
  ASSUME NEW t, IsTable(t), NEW a, Matches(t, a)
  PROVE  a \in SUBSET Nat
BY DEF IsTable, Matches, Entity

\* Ids, tables and handles after every step.
LEMMA TablesStep == TablesInv /\ [Next]_vars => TablesInv'
<1> SUFFICES ASSUME TablesInv, [Next]_vars PROVE TablesInv'
  OBVIOUS
<1>0. /\ IsTable(entities) /\ Matches(entities, alive["server"])
      /\ DOMAIN mirror = Clients
      /\ \A c \in Clients : IsTable(mirror[c]) /\ Matches(mirror[c], alive[c])
      /\ alive \in [Managers -> SUBSET Nat] /\ next_id \in Nat \ {0}
      /\ down \in [Clients -> Seq(Message)] /\ ids \in [Clients -> Nat]
      /\ \A i \in DOMAIN entities : i < next_id
      /\ "server" \in Managers /\ Clients \subseteq Managers /\ "server" \notin Clients
  BY MatchesOf, ClientsAssumption DEF TablesInv, TypeOK, Managers
<1>1. ASSUME NEW p \in Prefabs, NEW b \in InitData, spawn(p, b) PROVE TablesInv'
  <2>1. PICK e \in Entity :
           /\ e.prefab_id = p /\ e.local_handle \notin alive["server"]
           /\ next_id \in NetworkId /\ next_id \notin DOMAIN entities /\ next_id' = next_id + 1
           /\ entities' = With(entities, next_id, e)
           /\ alive' = [alive EXCEPT !["server"] = @ \cup {e.local_handle}]
           /\ SpawnMessage(next_id, e, e.init) \in Message
           /\ down' = Sent(Approved, <<SpawnMessage(next_id, e, e.init)>>)
           /\ UNCHANGED <<mirror, ids, caught_up, CallVars, joins>>
    BY <1>1, SpawnFacts
  <2>2. IsTable(entities') /\ DOMAIN entities' = DOMAIN entities \cup {next_id}
    BY <2>1, <1>0, WithFacts, ZenonT(30)
  <2>3. Matches(entities', alive["server"] \cup {e.local_handle})
    BY <2>1, <1>0, WithMatches
  <2>4. /\ alive'["server"] = alive["server"] \cup {e.local_handle}
        /\ \A c \in Clients : alive'[c] = alive[c]
    BY <2>1, <1>0
  <2>5. alive["server"] \cup {e.local_handle} \in SUBSET Nat
    BY <2>2, <2>3, HandlesNat
  <2>6. alive' \in [Managers -> SUBSET Nat]
    BY <2>1, <2>5, <1>0
  <2>7. HandlesMatch'
    BY <2>1, <2>2, <2>3, <2>4, <1>0, MatchesNext
  <2>8. down' \in [Clients -> Seq(Message)]
    <3>1. <<SpawnMessage(next_id, e, e.init)>> \in Seq(Message)
      BY <2>1
    <3> QED BY <2>1, <3>1, <1>0, SentFacts
  <2>9. TypeOK'
    <3>1. next_id' \in Nat \ {0}
      BY <2>1, <1>0
    <3> QED BY <2>1, <2>2, <2>6, <2>8, <3>1 DEF TablesInv, TypeOK, CallVars
  <2>10. \A i \in DOMAIN entities' : i < next_id'
    BY <2>1, <2>2, <1>0 DEF IsTable, NetworkId
  <2> QED BY <2>7, <2>9, <2>10 DEF TablesInv
<1>2. ASSUME NEW i \in NetworkId, destroy(i) PROVE TablesInv'
  <2>1. /\ i \in DOMAIN entities
        /\ alive' = [alive EXCEPT !["server"] = @ \ {entities[i].local_handle}]
        /\ entities' = Without(entities, i)
        /\ down' = Sent(Approved, <<[type |-> "EntityDestroy", id |-> i]>>)
        /\ UNCHANGED <<next_id, mirror, ids, caught_up, CallVars, joins>>
    BY <1>2 DEF destroy, BridgeDestroy, broadcast_destroy
  <2>2. IsTable(entities') /\ DOMAIN entities' = DOMAIN entities \ {i}
    BY <2>1, <1>0, WithoutFacts
  <2>3. Matches(entities', alive["server"] \ {entities[i].local_handle})
    BY <2>1, <1>0, WithoutMatches
  <2>4. /\ alive'["server"] = alive["server"] \ {entities[i].local_handle}
        /\ \A c \in Clients : alive'[c] = alive[c]
        /\ alive' \in [Managers -> SUBSET Nat]
    BY <2>1, <1>0
  <2>5. HandlesMatch'
    BY <2>1, <2>2, <2>3, <2>4, <1>0, MatchesNext
  <2>6. down' \in [Clients -> Seq(Message)]
    <3>1. [type |-> "EntityDestroy", id |-> i] \in Message
      BY DEF Message
    <3>2. <<[type |-> "EntityDestroy", id |-> i]>> \in Seq(Message)
      BY <3>1
    <3> QED BY <2>1, <3>2, <1>0, SentFacts
  <2>7. TypeOK'
    BY <2>1, <2>2, <2>4, <2>6 DEF TablesInv, TypeOK, CallVars
  <2> QED BY <2>1, <2>2, <2>5, <2>7, <1>0 DEF TablesInv
<1>3. ASSUME NEW i \in NetworkId, NEW c \in Clients, set_owner(i, ids[c]) PROVE TablesInv'
  <2>1. /\ i \in DOMAIN entities
        /\ entities' = [entities EXCEPT ![i].owner_id = ids[c]]
        /\ UNCHANGED <<next_id, mirror, alive, ids, down, caught_up, CallVars, joins>>
    BY <1>3 DEF set_owner
  <2>2. entities[i] \in Entity /\ ids[c] \in Nat
    BY <2>1, <1>0 DEF IsTable
  <2>3. PICK e : e = [entities[i] EXCEPT !.owner_id = ids[c]]
    OBVIOUS
  <2>4. e \in Entity /\ e.local_handle = entities[i].local_handle
    BY <2>2, <2>3 DEF Entity
  <2>5. /\ DOMAIN entities' = DOMAIN entities /\ entities'[i] = e
        /\ \A j \in DOMAIN entities : j # i => entities'[j] = entities[j]
    BY <2>1, <2>3
  <2>6. IsTable(entities')
    BY <2>4, <2>5, <1>0 DEF IsTable
  <2>7. \A j \in DOMAIN entities : entities'[j].local_handle = entities[j].local_handle
    BY <2>4, <2>5
  <2>8. Matches(entities', alive["server"])
    <3>1. PICK u : u = entities'
      OBVIOUS
    <3>2. /\ DOMAIN u = DOMAIN entities
          /\ \A j \in DOMAIN entities : u[j].local_handle = entities[j].local_handle
      BY <3>1, <2>5, <2>7
    <3>3. {u[j].local_handle : j \in DOMAIN u}
            = {entities[j].local_handle : j \in DOMAIN entities}
      BY <3>2
    <3>4. Matches(u, alive["server"])
      BY <3>2, <3>3, <1>0 DEF Matches
    <3> QED BY <3>1, <3>4
  <2>9. HandlesMatch'
    BY <2>1, <2>6, <2>8, <1>0, MatchesNext
  <2>10. TypeOK'
    BY <2>1, <2>6 DEF TablesInv, TypeOK, CallVars
  <2> QED BY <2>1, <2>5, <2>9, <2>10, <1>0 DEF TablesInv
<1>4. ASSUME NEW i \in NetworkId, NEW size \in Payloads,
             \/ \E c \in Clients : invoke_client(c, i, size)
             \/ invoke_broadcast(i, size) \/ invoke_owner(i, size) \/ invoke_not_owner(i, size)
      PROVE  TablesInv'
  <2>1. PICK to \in SUBSET Approved :
           /\ down' = Sent(to, <<RpcMessage(i, size)>>)
           /\ calls' = calls + 1 /\ DueAt(to)
           /\ UNCHANGED <<entities, next_id, mirror, alive, ids, caught_up, missed, joins>>
    BY <1>4, CallFacts DEF TablesInv
  <2>2. down' \in [Clients -> Seq(Message)]
    <3>1. RpcMessage(i, size) \in Message
      BY RpcMessageType DEF TablesInv
    <3>2. <<RpcMessage(i, size)>> \in Seq(Message)
      BY <3>1
    <3> QED BY <2>1, <3>2, <1>0, SentFacts
  <2>3. calls' \in Nat /\ due' \in [Clients -> SUBSET Nat]
    BY <2>1 DEF DueAt, TablesInv, TypeOK
  <2>4. TypeOK'
    BY <2>1, <2>2, <2>3 DEF TablesInv, TypeOK, CallVars
  <2> QED BY <2>1, <2>4 DEF TablesInv, HandlesMatch
<1>5. ASSUME NEW size \in Payloads, invoke_broadcast_oversized(size)
      PROVE  TablesInv'
  <2>1. /\ down' = Sent(Receivers(0), <<[type |-> "Empty"]>>)
        /\ UNCHANGED <<entities, next_id, mirror, alive, ids, caught_up, CallVars, joins>>
    BY <1>5 DEF invoke_broadcast_oversized
  <2>2. down' \in [Clients -> Seq(Message)]
    <3>1. [type |-> "Empty"] \in Message
      BY DEF Message
    <3>2. <<[type |-> "Empty"]>> \in Seq(Message)
      BY <3>1
    <3> QED BY <2>1, <3>2, <1>0, SentFacts
  <2>3. TypeOK'
    BY <2>1, <2>2 DEF TablesInv, TypeOK, CallVars
  <2> QED BY <2>1, <2>3 DEF TablesInv, HandlesMatch
<1>6. ASSUME NEW c \in Clients, send_full_state_to_client(c) PROVE TablesInv'
  <2>1. PICK msgs \in Seq(Message) :
           /\ down' = Sent({c}, msgs) /\ caught_up' = [caught_up EXCEPT ![c] = TRUE]
           /\ UNCHANGED <<entities, next_id, mirror, alive, ids, CallVars, joins>>
    BY <1>6, FullStateFacts
  <2>2. down' \in [Clients -> Seq(Message)]
    BY <2>1, <1>0, SentFacts
  <2>3. caught_up' \in [Clients -> BOOLEAN]
    BY <2>1 DEF TablesInv, TypeOK, CallVars
  <2>4. TypeOK'
    BY <2>1, <2>2, <2>3 DEF TablesInv, TypeOK, CallVars
  <2> QED BY <2>1, <2>4 DEF TablesInv, HandlesMatch
<1>7. ASSUME NEW c \in Clients, join(c) PROVE TablesInv'
  <2>1. /\ ids' \in [Clients -> Nat]
        /\ joins' \in 0 .. MaxJoins
        /\ IF FreshManagers
           THEN /\ mirror' = [mirror EXCEPT ![c] = NoEntities]
                /\ alive' = [alive EXCEPT ![c] = {}]
           ELSE UNCHANGED <<mirror, alive>>
        /\ UNCHANGED <<entities, next_id, down, caught_up, CallVars>>
    BY <1>7, JoinFacts
  <2>3. IsTable(NoEntities) /\ Matches(NoEntities, {})
    BY DEF NoEntities, IsTable, Matches
  <2>4. /\ DOMAIN mirror' = Clients /\ alive' \in [Managers -> SUBSET Nat]
        /\ \A d \in Clients : IsTable(mirror'[d]) /\ Matches(mirror'[d], alive'[d])
        /\ alive'["server"] = alive["server"]
    <3>1. CASE FreshManagers
      BY <3>1, <2>1, <2>3, <1>0
    <3>2. CASE ~FreshManagers
      BY <3>2, <2>1, <1>0
    <3> QED BY <3>1, <3>2
  <2>5. HandlesMatch'
    BY <2>1, <2>4, <1>0, MatchesNext
  <2>6. TypeOK'
    BY <2>1, <2>4 DEF TablesInv, TypeOK, CallVars
  <2> QED BY <2>1, <2>5, <2>6 DEF TablesInv
<1>8. ASSUME NEW c \in Clients, leave(c) PROVE TablesInv'
  <2>1. /\ ids' = [ids EXCEPT ![c] = 0] /\ down' = [down EXCEPT ![c] = << >>]
        /\ due' = [due EXCEPT ![c] = {}] /\ caught_up' = [caught_up EXCEPT ![c] = FALSE]
        /\ UNCHANGED <<entities, next_id, mirror, alive, calls, missed, joins>>
    BY <1>8 DEF leave
  <2>2. << >> \in Seq(Message)
    OBVIOUS
  <2>3. down' \in [Clients -> Seq(Message)] /\ ids' \in [Clients -> Nat]
    BY <2>1, <2>2, <1>0
  <2>4. caught_up' \in [Clients -> BOOLEAN] /\ due' \in [Clients -> SUBSET Nat]
    BY <2>1 DEF TablesInv, TypeOK, CallVars
  <2>5. TypeOK'
    BY <2>1, <2>3, <2>4 DEF TablesInv, TypeOK, CallVars
  <2> QED BY <2>1, <2>5 DEF TablesInv, HandlesMatch
<1>9. ASSUME NEW c \in Clients, on_receive_spawn(c) PROVE TablesInv'
  <2>1. PICK m : m = Head(down[c])
    OBVIOUS
  <2>2. /\ down[c] # << >> /\ Taken(c) /\ m.id \in NetworkId
        /\ UNCHANGED <<entities, next_id, ids, caught_up, CallVars, joins>>
        /\ \/ UNCHANGED <<mirror, alive>>
           \/ /\ m.id \notin DOMAIN mirror[c]
              /\ \E e \in Entity :
                   /\ e.local_handle \notin alive[c]
                   /\ mirror' = [mirror EXCEPT ![c] = With(mirror[c], m.id, e)]
                   /\ alive' = [alive EXCEPT ![c] = alive[c] \cup {e.local_handle}]
    BY <1>9, <2>1, ReceiveSpawnFacts
  <2>3. down' \in [Clients -> Seq(Message)]
    BY <2>2, <1>0, TakenFacts
  <2>4. CASE UNCHANGED <<mirror, alive>>
    <3>1. TypeOK'
      BY <2>2, <2>3, <2>4 DEF TablesInv, TypeOK, CallVars
    <3> QED BY <2>2, <2>4, <3>1 DEF TablesInv, HandlesMatch
  <2>5. ASSUME m.id \notin DOMAIN mirror[c], NEW e \in Entity, e.local_handle \notin alive[c],
               mirror' = [mirror EXCEPT ![c] = With(mirror[c], m.id, e)],
               alive' = [alive EXCEPT ![c] = alive[c] \cup {e.local_handle}]
        PROVE  TablesInv'
    <3>1. /\ DOMAIN mirror' = Clients /\ mirror'[c] = With(mirror[c], m.id, e)
          /\ \A d \in Clients \ {c} : mirror'[d] = mirror[d]
          /\ alive'[c] = alive[c] \cup {e.local_handle}
          /\ \A d \in Managers \ {c} : alive'[d] = alive[d]
      BY <2>5, <1>0
    <3>2. IsTable(mirror'[c]) /\ Matches(mirror'[c], alive'[c])
      BY <3>1, <2>2, <2>5, <1>0, WithFacts, WithMatches
    <3>3. alive'[c] \in SUBSET Nat
      BY <3>2, HandlesNat
    <3>4. alive' \in [Managers -> SUBSET Nat]
      BY <2>5, <3>1, <3>3, <1>0
    <3>5. \A d \in Clients : IsTable(mirror'[d]) /\ Matches(mirror'[d], alive'[d])
      BY <3>1, <3>2, <1>0
    <3>6. HandlesMatch'
      BY <3>1, <3>5, <2>2, <1>0, MatchesNext
    <3>7. TypeOK'
      BY <3>1, <3>4, <3>5, <2>2, <2>3 DEF TablesInv, TypeOK, CallVars
    <3> QED BY <2>2, <3>6, <3>7 DEF TablesInv
  <2> QED BY <2>2, <2>4, <2>5
<1>10. ASSUME NEW c \in Clients, on_receive_destroy(c) PROVE TablesInv'
  <2>1. PICK m : m = Head(down[c])
    OBVIOUS
  <2>2. /\ down[c] # << >> /\ Taken(c)
        /\ UNCHANGED <<entities, next_id, ids, caught_up, CallVars, joins>>
        /\ \/ UNCHANGED <<mirror, alive>>
           \/ /\ m.id \in DOMAIN mirror[c]
              /\ mirror' = [mirror EXCEPT ![c] = Without(mirror[c], m.id)]
              /\ alive' = [alive EXCEPT ![c] = alive[c] \ {mirror[c][m.id].local_handle}]
    BY <1>10, <2>1, ReceiveDestroyFacts
  <2>3. down' \in [Clients -> Seq(Message)]
    BY <2>2, <1>0, TakenFacts
  <2>4. CASE UNCHANGED <<mirror, alive>>
    <3>1. TypeOK'
      BY <2>2, <2>3, <2>4 DEF TablesInv, TypeOK, CallVars
    <3> QED BY <2>2, <2>4, <3>1 DEF TablesInv, HandlesMatch
  <2>5. ASSUME m.id \in DOMAIN mirror[c],
               mirror' = [mirror EXCEPT ![c] = Without(mirror[c], m.id)],
               alive' = [alive EXCEPT ![c] = alive[c] \ {mirror[c][m.id].local_handle}]
        PROVE  TablesInv'
    <3>1. /\ DOMAIN mirror' = Clients /\ mirror'[c] = Without(mirror[c], m.id)
          /\ \A d \in Clients \ {c} : mirror'[d] = mirror[d]
          /\ alive'[c] = alive[c] \ {mirror[c][m.id].local_handle}
          /\ \A d \in Managers \ {c} : alive'[d] = alive[d]
          /\ alive' \in [Managers -> SUBSET Nat]
      BY <2>5, <1>0
    <3>2. IsTable(mirror'[c]) /\ Matches(mirror'[c], alive'[c])
      BY <3>1, <2>5, <1>0, WithoutFacts, WithoutMatches
    <3>3. \A d \in Clients : IsTable(mirror'[d]) /\ Matches(mirror'[d], alive'[d])
      BY <3>1, <3>2, <1>0
    <3>4. HandlesMatch'
      BY <3>1, <3>3, <2>2, <1>0, MatchesNext
    <3>5. TypeOK'
      BY <3>1, <3>3, <2>2, <2>3 DEF TablesInv, TypeOK, CallVars
    <3> QED BY <2>2, <3>4, <3>5 DEF TablesInv
  <2> QED BY <2>2, <2>4, <2>5
<1>11. ASSUME NEW c \in Clients, on_receive_call(c) PROVE TablesInv'
  <2>1. /\ down[c] # << >> /\ Taken(c)
        /\ due' = [due EXCEPT ![c] = @ \ {Head(down[c]).call}]
        /\ missed' = missed \/ missed' = missed \cup {c}
        /\ UNCHANGED <<entities, next_id, mirror, alive, ids, caught_up, calls, joins>>
    BY <1>11 DEF on_receive_call, NextMessage
  <2>2. down' \in [Clients -> Seq(Message)]
    BY <2>1, <1>0, TakenFacts
  <2>3. due' \in [Clients -> SUBSET Nat] /\ missed' \subseteq Clients
    BY <2>1 DEF TablesInv, TypeOK, CallVars
  <2>4. TypeOK'
    BY <2>1, <2>2, <2>3 DEF TablesInv, TypeOK, CallVars
  <2> QED BY <2>1, <2>4 DEF TablesInv, HandlesMatch
<1>12. ASSUME NEW c \in Clients, receive_empty(c) PROVE TablesInv'
  <2>1. /\ down[c] # << >> /\ Taken(c)
        /\ UNCHANGED <<entities, next_id, mirror, alive, ids, caught_up, CallVars, joins>>
    BY <1>12 DEF receive_empty, NextMessage
  <2>2. down' \in [Clients -> Seq(Message)]
    BY <2>1, <1>0, TakenFacts
  <2>3. TypeOK'
    BY <2>1, <2>2 DEF TablesInv, TypeOK, CallVars
  <2> QED BY <2>1, <2>3 DEF TablesInv, HandlesMatch
<1>13. CASE UNCHANGED vars
  <2>1. TypeOK'
    BY <1>13 DEF vars, TablesInv, TypeOK, CallVars
  <2> QED BY <1>13, <2>1 DEF vars, TablesInv, HandlesMatch
<1> QED
  BY <1>1, <1>2, <1>3, <1>4, <1>5, <1>6, <1>7, <1>8, <1>9, <1>10, <1>11, <1>12, <1>13 DEF Next

\* Each bridge has exactly one live handle for each entity of its manager, and the
\* tables, queues and ids keep their types: however spawns, full states, destroys,
\* joins and leaves of network_entity.cpp interleave, for any limits of the managers.
THEOREM BridgesInvHolds == Spec => []BridgesInv
<1>1. TablesInv => BridgesInv
  BY DEF TablesInv, BridgesInv
<1> QED BY <1>1, TablesInit, TablesStep, PTL DEF Spec

-----------------------------------------------------------------------------
(* What a client will make of the messages on their way.                   *)

\* What one message does to the ids of a table, if there is room for it.
Effect(S, m) ==
  {i \in NetworkId : (i \in S /\ ~Destroys(m, i)) \/ Spawns(m, i)}

\* Before any message a table is what it is.
LEMMA AfterNone ==
  ASSUME NEW has \in SUBSET NetworkId, NEW q
  PROVE  After(has, q, 0) = has
BY DEF After

\* One message more.
LEMMA AfterNext ==
  ASSUME NEW has, NEW q, NEW k \in Nat
  PROVE  After(has, q, k + 1) = Effect(After(has, q, k), q[k + 1])
<1> DEFINE Kept(i, j, n) == \A l \in j .. n : ~Destroys(q[l], i)
<1>1. ASSUME NEW i, NEW j \in Nat, j <= k + 1
      PROVE  Kept(i, j, k + 1) <=> Kept(i, j, k) /\ ~Destroys(q[k + 1], i)
  <2>1. j .. k + 1 = (j .. k) \cup {k + 1}
    BY <1>1
  <2> QED BY <2>1
<1>2. ASSUME NEW i PROVE Kept(i, k + 2, k + 1)
  OBVIOUS
<1> HIDE DEF Kept
<1>3. \A i \in NetworkId, n \in Nat :
        i \in After(has, q, n) <=>
          \/ i \in has /\ Kept(i, 1, n)
          \/ \E j \in 1 .. n : Spawns(q[j], i) /\ Kept(i, j + 1, n)
  BY DEF After, Kept
<1>4. ASSUME NEW i \in NetworkId
      PROVE  (\E j \in 1 .. k + 1 : Spawns(q[j], i) /\ Kept(i, j + 1, k + 1)) <=>
               \/ Spawns(q[k + 1], i)
               \/ (\E j \in 1 .. k : Spawns(q[j], i) /\ Kept(i, j + 1, k))
                    /\ ~Destroys(q[k + 1], i)
  <2>1. 1 .. k + 1 = (1 .. k) \cup {k + 1} /\ (k + 1) + 1 = k + 2
    OBVIOUS
  <2>2. \A j \in 1 .. k :
          Kept(i, j + 1, k + 1) <=> Kept(i, j + 1, k) /\ ~Destroys(q[k + 1], i)
    <3> SUFFICES ASSUME NEW j \in 1 .. k
                 PROVE  Kept(i, j + 1, k + 1) <=> Kept(i, j + 1, k) /\ ~Destroys(q[k + 1], i)
      OBVIOUS
    <3>1. j + 1 \in Nat /\ j + 1 <= k + 1
      OBVIOUS
    <3> QED BY <3>1, <1>1
  <2> QED BY <2>1, <2>2, <1>2
<1>5. ASSUME NEW i \in NetworkId
      PROVE  Kept(i, 1, k + 1) <=> Kept(i, 1, k) /\ ~Destroys(q[k + 1], i)
  <2>1. 1 \in Nat /\ 1 <= k + 1
    OBVIOUS
  <2> QED BY <2>1, <1>1
<1>6. ASSUME NEW i \in NetworkId
      PROVE  i \in After(has, q, k + 1) <=> i \in Effect(After(has, q, k), q[k + 1])
  <2>1. k + 1 \in Nat
    OBVIOUS
  <2> QED BY <2>1, <1>3, <1>4, <1>5 DEF Effect
<1>7. After(has, q, k + 1) \subseteq NetworkId
      /\ Effect(After(has, q, k), q[k + 1]) \subseteq NetworkId
  BY DEF After, Effect
<1> QED BY <1>6, <1>7

\* Only the messages up to there matter.
LEMMA AfterSame ==
  ASSUME NEW has, NEW q, NEW r, NEW k \in Nat, \A l \in 1 .. k : q[l] = r[l]
  PROVE  After(has, q, k) = After(has, r, k)
<1>1. ASSUME NEW i, NEW j \in 1 .. k PROVE \A l \in j + 1 .. k : q[l] = r[l]
  OBVIOUS
<1>2. \A i \in NetworkId :
        (\E j \in 1 .. k : Spawns(q[j], i) /\ \A l \in j + 1 .. k : ~Destroys(q[l], i))
        <=> (\E j \in 1 .. k : Spawns(r[j], i) /\ \A l \in j + 1 .. k : ~Destroys(r[l], i))
  BY <1>1
<1>3. \A i \in NetworkId : (\A l \in 1 .. k : ~Destroys(q[l], i))
                             <=> (\A l \in 1 .. k : ~Destroys(r[l], i))
  OBVIOUS
<1> QED BY <1>2, <1>3 DEF After

\* The first message may be taken first.
LEMMA AfterTail ==
  ASSUME NEW has \in SUBSET NetworkId, NEW q, NEW r, NEW k \in Nat,
         \A l \in 1 .. k : r[l] = q[l + 1]
  PROVE  After(Effect(has, q[1]), r, k) = After(has, q, k + 1)
<1> DEFINE Kept(i, s, j, n) == \A l \in j .. n : ~Destroys(s[l], i)
<1>1. ASSUME NEW i, NEW j \in Nat, j >= 1
      PROVE  Kept(i, r, j, k) <=> Kept(i, q, j + 1, k + 1)
  <2>1. ASSUME Kept(i, r, j, k), NEW l \in j + 1 .. k + 1 PROVE ~Destroys(q[l], i)
    <3>1. PICK n \in Int : n = l - 1 /\ l = n + 1 /\ n \in j .. k /\ n \in 1 .. k
      BY <1>1
    <3>2. r[n] = q[l]
      BY <3>1
    <3> QED BY <2>1, <3>1, <3>2
  <2>2. ASSUME Kept(i, q, j + 1, k + 1), NEW l \in j .. k PROVE ~Destroys(r[l], i)
    <3>1. l \in 1 .. k /\ l + 1 \in j + 1 .. k + 1
      BY <1>1
    <3> QED BY <2>2, <3>1
  <2> QED BY <2>1, <2>2
<1>2. ASSUME NEW i PROVE Kept(i, q, 1, k + 1) <=> ~Destroys(q[1], i) /\ Kept(i, q, 2, k + 1)
  <2>1. 1 .. k + 1 = {1} \cup (2 .. k + 1)
    OBVIOUS
  <2> QED BY <2>1
<1> HIDE DEF Kept
<1>3. \A i \in NetworkId :
        /\ i \in After(has, q, k + 1) <=>
             \/ i \in has /\ Kept(i, q, 1, k + 1)
             \/ \E j \in 1 .. k + 1 : Spawns(q[j], i) /\ Kept(i, q, j + 1, k + 1)
        /\ i \in After(Effect(has, q[1]), r, k) <=>
             \/ i \in Effect(has, q[1]) /\ Kept(i, r, 1, k)
             \/ \E j \in 1 .. k : Spawns(r[j], i) /\ Kept(i, r, j + 1, k)
  BY DEF After, Kept
<1>4. ASSUME NEW i \in NetworkId
      PROVE  (\E j \in 1 .. k + 1 : Spawns(q[j], i) /\ Kept(i, q, j + 1, k + 1)) <=>
               \/ Spawns(q[1], i) /\ Kept(i, q, 2, k + 1)
               \/ \E j \in 1 .. k : Spawns(r[j], i) /\ Kept(i, r, j + 1, k)
  <2>1. ASSUME NEW j \in 1 .. k + 1, Spawns(q[j], i), Kept(i, q, j + 1, k + 1), j # 1
        PROVE  \E n \in 1 .. k : Spawns(r[n], i) /\ Kept(i, r, n + 1, k)
    <3>1. PICK n \in 1 .. k : j = n + 1
      <4>1. j - 1 \in 1 .. k /\ j = (j - 1) + 1
        BY <2>1
      <4> QED BY <4>1
    <3>2. r[n] = q[j] /\ n + 1 \in Nat /\ n + 1 >= 1 /\ (n + 1) + 1 = j + 1
      BY <3>1
    <3>3. Kept(i, r, n + 1, k)
      BY <2>1, <3>2, <1>1
    <3> QED BY <2>1, <3>2, <3>3
  <2>2. ASSUME NEW j \in 1 .. k, Spawns(r[j], i), Kept(i, r, j + 1, k)
        PROVE  \E n \in 1 .. k + 1 : Spawns(q[n], i) /\ Kept(i, q, n + 1, k + 1)
    <3>1. j + 1 \in 1 .. k + 1 /\ j + 1 \in Nat /\ j + 1 >= 1 /\ r[j] = q[j + 1]
      OBVIOUS
    <3>2. Kept(i, q, (j + 1) + 1, k + 1)
      BY <2>2, <3>1, <1>1
    <3> QED BY <2>2, <3>1, <3>2
  <2>3. 1 \in 1 .. k + 1 /\ 1 + 1 = 2
    OBVIOUS
  <2> QED BY <2>1, <2>2, <2>3
<1>5. ASSUME NEW i \in NetworkId PROVE Kept(i, r, 1, k) <=> Kept(i, q, 2, k + 1)
  <2>1. 1 \in Nat /\ 1 >= 1 /\ 1 + 1 = 2
    OBVIOUS
  <2> QED BY <2>1, <1>1
<1>6. ASSUME NEW i \in NetworkId
      PROVE  i \in After(Effect(has, q[1]), r, k) <=> i \in After(has, q, k + 1)
  BY <1>2, <1>3, <1>4, <1>5 DEF Effect
<1>7. /\ After(Effect(has, q[1]), r, k) \subseteq NetworkId
      /\ After(has, q, k + 1) \subseteq NetworkId
  BY DEF After
<1> QED BY <1>6, <1>7

\* Spawns of the entities in E, added to a queue, lead to no more than E.
LEMMA AfterSpawns ==
  ASSUME NEW has, NEW q, NEW n \in Nat, NEW j \in Nat, NEW E,
         After(has, q, n) \subseteq E,
         \A l \in n + 1 .. n + j : q[l].type = "EntitySpawn" /\ q[l].id \in E
  PROVE  /\ After(has, q, n + j) \subseteq E
         /\ \A i \in NetworkId : (\E l \in n + 1 .. n + j : q[l].id = i) => i \in After(has, q, n + j)
<1>1. ASSUME NEW i \in After(has, q, n + j) PROVE i \in E
  <2>0. i \in NetworkId
    BY DEF After
  <2>1. CASE i \in has /\ \A l \in 1 .. n + j : ~Destroys(q[l], i)
    <3>1. \A l \in 1 .. n : l \in 1 .. n + j
      OBVIOUS
    <3>2. \A l \in 1 .. n : ~Destroys(q[l], i)
      BY <2>1, <3>1
    <3>3. i \in After(has, q, n)
      BY <2>0, <2>1, <3>2 DEF After
    <3> QED BY <3>3
  <2>2. ASSUME NEW k \in 1 .. n + j, Spawns(q[k], i),
               \A l \in k + 1 .. n + j : ~Destroys(q[l], i)
        PROVE  i \in E
    <3>1. CASE k <= n
      <4>1. k \in 1 .. n /\ \A l \in k + 1 .. n : l \in k + 1 .. n + j
        BY <3>1
      <4>2. \A l \in k + 1 .. n : ~Destroys(q[l], i)
        BY <2>2, <4>1
      <4>3. i \in After(has, q, n)
        BY <2>0, <2>2, <4>1, <4>2 DEF After
      <4> QED BY <4>3
    <3>2. CASE ~(k <= n)
      <4>1. k \in n + 1 .. n + j
        BY <3>2
      <4> QED BY <2>2, <4>1 DEF Spawns
    <3> QED BY <3>1, <3>2
  <2> QED BY <2>1, <2>2 DEF After
<1>2. ASSUME NEW i \in NetworkId, NEW k \in n + 1 .. n + j, q[k].id = i
      PROVE  i \in After(has, q, n + j)
  <2>1. k \in 1 .. n + j /\ \A l \in k + 1 .. n + j : l \in n + 1 .. n + j
    OBVIOUS
  <2>2. \A l \in k + 1 .. n + j : ~Destroys(q[l], i)
    BY <2>1 DEF Destroys
  <2>3. Spawns(q[k], i)
    BY <1>2 DEF Spawns
  <2> QED BY <2>1, <2>2, <2>3 DEF After
<1> QED BY <1>1, <1>2

-----------------------------------------------------------------------------
(* The entities of a client.                                               *)

\* A client's limit is no smaller than the server's.
LimitsAgree == ClientMax = 0 \/ (ServerMax > 0 /\ ServerMax <= ClientMax)

\* There is room for one more entity.
HasRoom(S) == ClientMax > 0 => Cardinality(S) < ClientMax

\* What c takes with S in its table, if m is next.
TakesWell(S, m, c) ==
  /\ m.type = "EntitySpawn" => m.id \in S \/ HasRoom(S)
  /\ m.type = "Rpc" /\ c \in m.knows => m.id \in S

\* Every message on its way to c is taken well when its turn comes.
QueueOK(has, q, c) == \A k \in 1 .. Len(q) : TakesWell(After(has, q, k - 1), q[k], c)

\* The limit of the server.
ServerLimit == ServerMax > 0 => Cardinality(DOMAIN entities) <= ServerMax

\* The queue of a client: nothing while it is not connected, and messages that lead to
\* the server's entities, all of them once the full state was sent.
ClientOK(c) ==
  /\ ids[c] = 0 => down[c] = << >> /\ ~caught_up[c]
  /\ ids[c] # 0 =>
       /\ QueueOK(DOMAIN mirror[c], down[c], c)
       /\ Pending(c) \subseteq DOMAIN entities
       /\ caught_up[c] => DOMAIN entities \subseteq Pending(c)

\* Messages added to a queue change nothing of what comes before them.
LEMMA QueueLonger ==
  ASSUME NEW has, NEW q \in Seq(Message), NEW msgs \in Seq(Message), NEW c,
         QueueOK(has, q, c),
         \A j \in 1 .. Len(msgs) :
           TakesWell(After(has, q \o msgs, Len(q) + (j - 1)), msgs[j], c)
  PROVE  /\ QueueOK(has, q \o msgs, c)
         /\ After(has, q \o msgs, Len(q)) = After(has, q, Len(q))
<1>a. PICK n \in Nat : n = Len(q)
  OBVIOUS
<1>b. PICK l \in Nat : l = Len(msgs)
  OBVIOUS
<1>c. PICK r : r = q \o msgs
  OBVIOUS
<1>1. n = Len(q) /\ l = Len(msgs) /\ r = q \o msgs
  BY <1>a, <1>b, <1>c
<1>2. /\ Len(r) = n + l /\ \A k \in 1 .. n : r[k] = q[k]
      /\ \A k \in 1 .. l : r[n + k] = msgs[k]
  BY <1>1, ConcatProperties
<1>3. ASSUME NEW k \in 0 .. n PROVE After(has, r, k) = After(has, q, k)
  <2>1. k \in Nat /\ \A j \in 1 .. k : r[j] = q[j]
    BY <1>2
  <2> QED BY <2>1, AfterSame
<1>4. ASSUME NEW k \in 1 .. n + l PROVE TakesWell(After(has, r, k - 1), r[k], c)
  <2>1. CASE k <= n
    <3>1. k \in 1 .. n /\ k - 1 \in 0 .. n
      BY <2>1
    <3>2. After(has, r, k - 1) = After(has, q, k - 1) /\ r[k] = q[k]
      BY <3>1, <1>2, <1>3
    <3> QED BY <3>1, <3>2, <1>1 DEF QueueOK
  <2>2. CASE ~(k <= n)
    <3>1. PICK j \in 1 .. l : k = n + j
      <4>1. k - n \in 1 .. l /\ k = n + (k - n)
        BY <2>2
      <4> QED BY <4>1
    <3>2. k - 1 = n + (j - 1) /\ r[k] = msgs[j]
      BY <3>1, <1>2
    <3> QED BY <3>1, <3>2, <1>1
  <2> QED BY <2>1, <2>2
<1>5. QueueOK(has, r, c)
  BY <1>2, <1>4 DEF QueueOK
<1>6. n \in 0 .. n
  OBVIOUS
<1> QED BY <1>1, <1>3, <1>5, <1>6

\* One message more at the end of a queue.
LEMMA QueueAppend ==
  ASSUME NEW has, NEW q \in Seq(Message), NEW m \in Message, NEW c, QueueOK(has, q, c),
         TakesWell(After(has, q, Len(q)), m, c)
  PROVE  /\ QueueOK(has, q \o <<m>>, c)
         /\ Len(q \o <<m>>) = Len(q) + 1
         /\ After(has, q \o <<m>>, Len(q \o <<m>>)) = Effect(After(has, q, Len(q)), m)
<1>1. <<m>> \in Seq(Message) /\ Len(<<m>>) = 1 /\ <<m>>[1] = m
  OBVIOUS
<1>a. PICK n \in Nat : n = Len(q)
  OBVIOUS
<1>b. PICK r : r = q \o <<m>>
  OBVIOUS
<1>2. n = Len(q) /\ r = q \o <<m>>
  BY <1>a, <1>b
<1>3. Len(r) = n + 1 /\ r[n + 1] = m /\ \A k \in 1 .. n : r[k] = q[k]
  BY <1>1, <1>2, ConcatProperties
<1>4. After(has, r, n) = After(has, q, n)
  BY <1>3, AfterSame
<1>5. \A j \in 1 .. Len(<<m>>) : TakesWell(After(has, r, n + (j - 1)), <<m>>[j], c)
  <2>1. n + (1 - 1) = n
    OBVIOUS
  <2>2. TakesWell(After(has, r, n + (1 - 1)), <<m>>[1], c)
    BY <1>1, <1>2, <1>4, <2>1
  <2>3. \A j \in 1 .. Len(<<m>>) : j = 1
    BY <1>1
  <2> QED BY <2>2, <2>3
<1>6. QueueOK(has, r, c)
  BY <1>1, <1>2, <1>5, QueueLonger
<1>7. After(has, r, n + 1) = Effect(After(has, q, n), m)
  BY <1>3, <1>4, AfterNext
<1> QED BY <1>2, <1>3, <1>6, <1>7

\* Taking the first message.
LEMMA QueueTail ==
  ASSUME NEW has \in SUBSET NetworkId, NEW q \in Seq(Message), q # << >>, NEW c,
         QueueOK(has, q, c)
  PROVE  /\ TakesWell(has, Head(q), c)
         /\ QueueOK(Effect(has, Head(q)), Tail(q), c)
         /\ After(Effect(has, Head(q)), Tail(q), Len(Tail(q))) = After(has, q, Len(q))
<1>a. PICK n \in Nat \ {0} : n = Len(q)
  OBVIOUS
<1>b. PICK r : r = Tail(q)
  OBVIOUS
<1>1. n = Len(q) /\ r = Tail(q)
  BY <1>a, <1>b
<1>2. Len(r) = n - 1 /\ Head(q) = q[1] /\ \A l \in 1 .. n - 1 : r[l] = q[l + 1]
  BY <1>1
<1>3. TakesWell(has, q[1], c)
  <2>1. 1 \in 1 .. Len(q) /\ 1 - 1 = 0
    BY <1>1
  <2>2. TakesWell(After(has, q, 1 - 1), q[1], c)
    BY <2>1 DEF QueueOK
  <2> QED BY <2>1, <2>2, AfterNone
<1>4. ASSUME NEW k \in 0 .. n - 1
      PROVE  After(Effect(has, q[1]), r, k) = After(has, q, k + 1)
  <2>1. k \in Nat /\ \A l \in 1 .. k : r[l] = q[l + 1]
    BY <1>2
  <2> QED BY <2>1, AfterTail
<1>5. ASSUME NEW k \in 1 .. n - 1
      PROVE  TakesWell(After(Effect(has, q[1]), r, k - 1), r[k], c)
  <2>1. k - 1 \in 0 .. n - 1 /\ (k - 1) + 1 = k /\ k + 1 \in 1 .. n /\ (k + 1) - 1 = k
    OBVIOUS
  <2>2. After(Effect(has, q[1]), r, k - 1) = After(has, q, k)
    BY <2>1, <1>4
  <2>3. TakesWell(After(has, q, (k + 1) - 1), q[k + 1], c)
    BY <2>1, <1>1 DEF QueueOK
  <2> QED BY <2>1, <2>2, <2>3, <1>2
<1>6. QueueOK(Effect(has, q[1]), r, c)
  BY <1>2, <1>5 DEF QueueOK
<1>7. n - 1 \in 0 .. n - 1 /\ (n - 1) + 1 = n
  OBVIOUS
<1>8. After(Effect(has, q[1]), r, n - 1) = After(has, q, n)
  BY <1>4, <1>7
<1> QED BY <1>1, <1>2, <1>3, <1>6, <1>8

-----------------------------------------------------------------------------
(* The queue of one client, step by step.                                  *)

\* Nothing of what ClientOK is about changes.
LEMMA ClientSame ==
  ASSUME NEW c, ClientOK(c), DOMAIN entities' = DOMAIN entities, mirror'[c] = mirror[c],
         down'[c] = down[c], ids'[c] = ids[c], caught_up'[c] = caught_up[c]
  PROVE  ClientOK(c)'
BY DEF ClientOK, Pending

\* A message is sent to a client.
LEMMA ClientAppend ==
  ASSUME TablesInv, NEW c \in Clients, QueueOK(DOMAIN mirror[c], down[c], c),
         NEW m \in Message, TakesWell(Pending(c), m, c),
         down'[c] = down[c] \o <<m>>, mirror'[c] = mirror[c]
  PROVE  /\ QueueOK(DOMAIN mirror'[c], down'[c], c)
         /\ Pending(c)' = Effect(Pending(c), m)
<1>1. down[c] \in Seq(Message)
  BY DEF TablesInv, TypeOK
<1>2. PICK q \in Seq(Message) : q = down[c]
  BY <1>1
<1>3. PICK has : has = DOMAIN mirror[c]
  OBVIOUS
<1>4. QueueOK(has, q, c) /\ TakesWell(After(has, q, Len(q)), m, c)
  BY <1>2, <1>3 DEF Pending
<1>5. /\ QueueOK(has, q \o <<m>>, c)
      /\ After(has, q \o <<m>>, Len(q \o <<m>>)) = Effect(After(has, q, Len(q)), m)
  BY <1>4, QueueAppend
<1> QED BY <1>2, <1>3, <1>5 DEF Pending

\* A client takes a message from its queue.
LEMMA ClientTake ==
  ASSUME TablesInv, NEW c \in Clients, QueueOK(DOMAIN mirror[c], down[c], c),
         down[c] # << >>, Taken(c), 
         TakesWell(DOMAIN mirror[c], Head(down[c]), c) =>
           DOMAIN mirror'[c] = Effect(DOMAIN mirror[c], Head(down[c]))
  PROVE  /\ TakesWell(DOMAIN mirror[c], Head(down[c]), c)
         /\ QueueOK(DOMAIN mirror'[c], down'[c], c)
         /\ Pending(c)' = Pending(c)
<1>1. down[c] \in Seq(Message) /\ DOMAIN mirror[c] \in SUBSET NetworkId
  BY DEF TablesInv, TypeOK, IsTable
<1>2. PICK q \in Seq(Message) : q = down[c]
  BY <1>1
<1>3. PICK has \in SUBSET NetworkId : has = DOMAIN mirror[c]
  BY <1>1
<1>4. QueueOK(has, q, c) /\ q # << >>
  BY <1>2, <1>3
<1>5. /\ TakesWell(has, Head(q), c)
      /\ QueueOK(Effect(has, Head(q)), Tail(q), c)
      /\ After(Effect(has, Head(q)), Tail(q), Len(Tail(q))) = After(has, q, Len(q))
  BY <1>4, QueueTail
<1>6. down'[c] = Tail(q) /\ DOMAIN mirror'[c] = Effect(has, Head(q))
  BY <1>2, <1>3, <1>5, TakenFacts DEF TablesInv, TypeOK
<1> QED BY <1>2, <1>3, <1>5, <1>6 DEF Pending

\* Fewer entities than the server may have leave room at a client.
LEMMA RoomLeft ==
  ASSUME LimitsAgree, TablesInv, ServerLimit, NEW S \in SUBSET DOMAIN entities,
         ServerMax > 0 => (Cardinality(DOMAIN entities) < ServerMax \/ S # DOMAIN entities)
  PROVE  HasRoom(S)
<1>1. IsFiniteSet(DOMAIN entities) /\ Cardinality(DOMAIN entities) \in Nat
  BY MatchesOf, HandlesFinite
<1>2. /\ IsFiniteSet(S) /\ Cardinality(S) \in Nat
      /\ Cardinality(S) <= Cardinality(DOMAIN entities)
      /\ Cardinality(S) = Cardinality(DOMAIN entities) => S = DOMAIN entities
  BY <1>1, FS_Subset, FS_CardinalityType
<1>3. PICK s \in Nat : s = Cardinality(S)
  BY <1>2
<1>4. PICK n \in Nat : n = Cardinality(DOMAIN entities)
  BY <1>1
<1> QED
  BY <1>2, <1>3, <1>4, LimitAssumption DEF LimitsAgree, HasRoom, ServerLimit

-----------------------------------------------------------------------------
(* The server's limit, and the queue of every client, in every step.       *)

\* spawn stops at the server's limit.
LEMMA ServerLimitStep == TablesInv /\ ServerLimit /\ [Next]_vars => ServerLimit'
<1> SUFFICES ASSUME TablesInv, ServerLimit, [Next]_vars, ServerMax > 0
             PROVE  Cardinality(DOMAIN entities') <= ServerMax
  BY DEF ServerLimit
<1>1. IsFiniteSet(DOMAIN entities) /\ Cardinality(DOMAIN entities) \in Nat
      /\ IsTable(entities)
  BY MatchesOf, HandlesFinite
<1>2. Cardinality(DOMAIN entities) <= ServerMax
  BY DEF ServerLimit
<1>3. ASSUME NEW p \in Prefabs, NEW b \in InitData, spawn(p, b)
      PROVE  Cardinality(DOMAIN entities') <= ServerMax
  <2>1. /\ next_id \notin DOMAIN entities /\ ~Full(ServerMax, entities)
        /\ DOMAIN entities' = DOMAIN entities \cup {next_id}
    BY <1>1, <1>3, SpawnFacts, WithFacts, ZenonT(30)
  <2>2. Cardinality(DOMAIN entities \cup {next_id}) = Cardinality(DOMAIN entities) + 1
    BY <1>1, <2>1, FS_AddElement
  <2>3. Cardinality(DOMAIN entities) < ServerMax
    BY <1>1, <2>1, LimitAssumption DEF Full
  <2> QED BY <1>1, <2>1, <2>2, <2>3, LimitAssumption
<1>4. ASSUME NEW i, destroy(i) PROVE Cardinality(DOMAIN entities') <= ServerMax
  <2>1. DOMAIN entities' \subseteq DOMAIN entities
    BY <1>1, <1>4, WithoutFacts DEF destroy
  <2>2. Cardinality(DOMAIN entities') <= Cardinality(DOMAIN entities)
        /\ Cardinality(DOMAIN entities') \in Nat
    BY <1>1, <2>1, FS_Subset, FS_CardinalityType
  <2> QED BY <1>1, <1>2, <2>2, LimitAssumption
<1>5. ASSUME NEW i, NEW o, set_owner(i, o) PROVE DOMAIN entities' = DOMAIN entities
  BY <1>5 DEF set_owner
<1>6. ASSUME NEW to, NEW i, NEW size, send_rpc(to, i, size) PROVE entities' = entities
  BY <1>6 DEF send_rpc
<1>7. ASSUME NEW i, NEW size,
             invoke_broadcast(i, size) \/ invoke_owner(i, size) \/ invoke_not_owner(i, size)
               \/ \E c \in Clients : invoke_client(c, i, size)
      PROVE  entities' = entities
  BY <1>6, <1>7 DEF invoke_broadcast, invoke_owner, invoke_not_owner, invoke_client
<1>8. ASSUME (\E size \in Payloads : invoke_broadcast_oversized(size)) \/ UNCHANGED vars
      PROVE  entities' = entities
  BY <1>8 DEF invoke_broadcast_oversized, vars
<1>9. ASSUME NEW c,
             \/ send_full_state_to_client(c) \/ join(c) \/ leave(c) \/ on_receive_spawn(c)
             \/ on_receive_destroy(c) \/ on_receive_call(c) \/ receive_empty(c)
      PROVE  entities' = entities
  BY <1>9 DEF send_full_state_to_client, join, leave, on_receive_spawn, on_receive_destroy,
              on_receive_call, receive_empty
<1> QED BY <1>2, <1>3, <1>4, <1>5, <1>7, <1>8, <1>9 DEF Next

\* What every client's queue leads to.
ClientsOK == \A c \in Clients : ClientOK(c)

\* One message is sent to some clients.
LEMMA SentOne ==
  ASSUME down \in [Clients -> Seq(Message)], NEW to, NEW m, <<m>> \in Seq(Message),
         down' = Sent(to, <<m>>), NEW c \in Clients
  PROVE  down'[c] = IF c \in to THEN down[c] \o <<m>> ELSE down[c]
<1>1. PICK msgs \in Seq(Message) : msgs = <<m>>
  OBVIOUS
<1>2. Sent(to, msgs)[c] = IF c \in to THEN down[c] \o msgs ELSE down[c]
  BY SentFacts
<1> QED BY <1>1, <1>2

\* A message that leaves the entities as they are is sent to some clients.
LEMMA ClientsOther ==
  ASSUME TablesInv, ClientsOK, NEW to \in SUBSET Approved, NEW m \in Message,
         m.type \notin {"EntitySpawn", "EntityDestroy"},
         m.type = "Rpc" => \A c \in m.knows : caught_up[c] /\ m.id \in DOMAIN entities,
         down' = Sent(to, <<m>>), UNCHANGED <<entities, mirror, ids, caught_up>>
  PROVE  ClientsOK'
<1> SUFFICES ASSUME NEW c \in Clients PROVE ClientOK(c)'
  BY DEF ClientsOK
<1>0. ClientOK(c) /\ (c \in to => ids[c] # 0)
  BY DEF ClientsOK, Approved
<1>1. <<m>> \in Seq(Message)
  OBVIOUS
<1>2. down'[c] = IF c \in to THEN down[c] \o <<m>> ELSE down[c]
  BY <1>1, SentOne DEF TablesInv, TypeOK
<1>3. CASE c \notin to
  BY <1>0, <1>2, <1>3, ClientSame
<1>4. CASE c \in to
  <2>1. /\ QueueOK(DOMAIN mirror[c], down[c], c) /\ Pending(c) \subseteq DOMAIN entities
        /\ caught_up[c] => DOMAIN entities \subseteq Pending(c)
        /\ ids[c] # 0
    BY <1>0, <1>4 DEF ClientOK
  <2>2. TakesWell(Pending(c), m, c)
    BY <2>1 DEF TakesWell
  <2>3. down'[c] = down[c] \o <<m>> /\ mirror'[c] = mirror[c]
    BY <1>2, <1>4
  <2>4. /\ QueueOK(DOMAIN mirror'[c], down'[c], c)
        /\ Pending(c)' = Effect(Pending(c), m)
    BY <2>1, <2>2, <2>3, ClientAppend
  <2>5. Effect(Pending(c), m) = Pending(c)
    BY DEF Effect, Spawns, Destroys, Pending, After
  <2> QED BY <2>1, <2>4, <2>5 DEF ClientOK
<1> QED BY <1>3, <1>4

\* spawn: every connected client will have the entity, and has room for it.
LEMMA ClientsSpawn ==
  ASSUME LimitsAgree, TablesInv, ServerLimit, ClientsOK,
         NEW p \in Prefabs, NEW b \in InitData, spawn(p, b)
  PROVE  ClientsOK'
<1>1. PICK e \in Entity :
         /\ next_id \in NetworkId /\ ~Full(ServerMax, entities)
         /\ entities' = With(entities, next_id, e)
         /\ SpawnMessage(next_id, e, e.init) \in Message
         /\ down' = Sent(Approved, <<SpawnMessage(next_id, e, e.init)>>)
         /\ UNCHANGED <<mirror, ids, caught_up, CallVars, joins>>
  BY SpawnFacts
<1>2. PICK m \in Message : m = SpawnMessage(next_id, e, e.init)
  BY <1>1
<1>3. m.type = "EntitySpawn" /\ m.id = next_id
  BY <1>2 DEF SpawnMessage
<1>4. DOMAIN entities' = DOMAIN entities \cup {next_id}
  BY <1>1, MatchesOf, WithFacts
<1>5. Cardinality(DOMAIN entities) \in Nat
  BY MatchesOf, HandlesFinite
<1>6. ServerMax > 0 => Cardinality(DOMAIN entities) < ServerMax
  BY <1>1, <1>5, LimitAssumption DEF Full
<1>7. SUFFICES ASSUME NEW c \in Clients PROVE ClientOK(c)'
  BY DEF ClientsOK
<1>8. ClientOK(c)
  BY DEF ClientsOK
<1>9. <<m>> \in Seq(Message)
  OBVIOUS
<1>10. down'[c] = IF c \in Approved THEN down[c] \o <<m>> ELSE down[c]
  <2>1. down' = Sent(Approved, <<m>>) /\ down \in [Clients -> Seq(Message)]
    BY <1>1, <1>2 DEF TablesInv, TypeOK
  <2> QED BY <1>9, <2>1, SentOne
<1>11. CASE ids[c] = 0
  <2>1. down'[c] = down[c]
    BY <1>10, <1>11 DEF Approved
  <2> QED BY <1>1, <1>8, <1>11, <2>1 DEF ClientOK
<1>12. CASE ids[c] # 0
  <2>1. /\ QueueOK(DOMAIN mirror[c], down[c], c) /\ Pending(c) \subseteq DOMAIN entities
        /\ caught_up[c] => DOMAIN entities \subseteq Pending(c)
    BY <1>8, <1>12 DEF ClientOK
  <2>2. HasRoom(Pending(c))
    BY <2>1, <1>6, RoomLeft
  <2>3. TakesWell(Pending(c), m, c)
    BY <2>2, <1>3 DEF TakesWell
  <2>4. down'[c] = down[c] \o <<m>> /\ mirror'[c] = mirror[c]
    BY <1>1, <1>10, <1>12 DEF Approved
  <2>5. /\ QueueOK(DOMAIN mirror'[c], down'[c], c)
        /\ Pending(c)' = Effect(Pending(c), m)
    BY <2>1, <2>3, <2>4, ClientAppend
  <2>6. Effect(Pending(c), m) = Pending(c) \cup {next_id}
    BY <1>1, <1>3 DEF Effect, Spawns, Destroys, Pending, After
  <2> QED BY <2>1, <2>5, <2>6, <1>1, <1>4, <1>12 DEF ClientOK
<1> QED BY <1>11, <1>12

\* destroy: no connected client will have the entity.
LEMMA ClientsDestroy ==
  ASSUME TablesInv, ClientsOK, NEW i \in NetworkId, destroy(i)
  PROVE  ClientsOK'
<1>1. /\ i \in DOMAIN entities /\ entities' = Without(entities, i)
      /\ down' = Sent(Approved, <<[type |-> "EntityDestroy", id |-> i]>>)
      /\ UNCHANGED <<next_id, mirror, ids, caught_up, CallVars, joins>>
  BY DEF destroy, broadcast_destroy
<1>2. PICK m : m = [type |-> "EntityDestroy", id |-> i]
  OBVIOUS
<1>3. m \in Message /\ m.type = "EntityDestroy" /\ m.id = i
  BY <1>2 DEF Message
<1>4. DOMAIN entities' = DOMAIN entities \ {i}
  BY <1>1, MatchesOf, WithoutFacts
<1>7. SUFFICES ASSUME NEW c \in Clients PROVE ClientOK(c)'
  BY DEF ClientsOK
<1>8. ClientOK(c)
  BY DEF ClientsOK
<1>9. <<m>> \in Seq(Message)
  BY <1>3
<1>10. down'[c] = IF c \in Approved THEN down[c] \o <<m>> ELSE down[c]
  <2>1. down' = Sent(Approved, <<m>>) /\ down \in [Clients -> Seq(Message)]
    BY <1>1, <1>2 DEF TablesInv, TypeOK
  <2> QED BY <1>9, <2>1, SentOne
<1>11. CASE ids[c] = 0
  <2>1. down'[c] = down[c]
    BY <1>10, <1>11 DEF Approved
  <2> QED BY <1>1, <1>8, <1>11, <2>1 DEF ClientOK
<1>12. CASE ids[c] # 0
  <2>1. /\ QueueOK(DOMAIN mirror[c], down[c], c) /\ Pending(c) \subseteq DOMAIN entities
        /\ caught_up[c] => DOMAIN entities \subseteq Pending(c)
    BY <1>8, <1>12 DEF ClientOK
  <2>3. TakesWell(Pending(c), m, c)
    BY <1>3 DEF TakesWell
  <2>4. down'[c] = down[c] \o <<m>> /\ mirror'[c] = mirror[c]
    BY <1>1, <1>10, <1>12 DEF Approved
  <2>5. /\ QueueOK(DOMAIN mirror'[c], down'[c], c)
        /\ Pending(c)' = Effect(Pending(c), m)
    BY <1>3, <2>1, <2>3, <2>4, ClientAppend
  <2>6. Effect(Pending(c), m) = Pending(c) \ {i}
    BY <1>3 DEF Effect, Spawns, Destroys, Pending, After
  <2> QED BY <2>1, <2>5, <2>6, <1>1, <1>4, <1>12 DEF ClientOK
<1> QED BY <1>11, <1>12

\* The full state: whatever is on its way before it, the client will have the server's
\* entities, and has room for each of them when its message is taken.
LEMMA ClientsFullState ==
  ASSUME LimitsAgree, TablesInv, ServerLimit, ClientsOK,
         NEW c \in Clients, send_full_state_to_client(c)
  PROVE  ClientsOK'
<1>1. PICK msgs \in Seq(Message) :
         /\ down' = Sent({c}, msgs)
         /\ \A k \in 1 .. Len(msgs) :
              msgs[k].type = "EntitySpawn" /\ msgs[k].id \in DOMAIN entities
         /\ \A i \in DOMAIN entities : \E k \in 1 .. Len(msgs) : msgs[k].id = i
         /\ c \in Approved
         /\ caught_up' = [caught_up EXCEPT ![c] = TRUE]
         /\ UNCHANGED <<entities, next_id, mirror, alive, ids, CallVars, joins>>
  BY FullStateFacts, ZenonT(30)
<1>2. ASSUME NEW d \in Clients \ {c} PROVE ClientOK(d)'
  <2>1. ClientOK(d) /\ down'[d] = down[d]
    BY <1>1, SentFacts DEF ClientsOK, TablesInv, TypeOK
  <2>2. caught_up'[d] = caught_up[d]
    BY <1>1 DEF TablesInv, TypeOK
  <2> QED BY <1>1, <2>1, <2>2, ClientSame
<1>3. ClientOK(c)'
  <2>1. ids[c] # 0 /\ ids'[c] = ids[c] /\ mirror' = mirror /\ entities' = entities
    BY <1>1 DEF Approved
  <2>2. QueueOK(DOMAIN mirror[c], down[c], c) /\ Pending(c) \subseteq DOMAIN entities
    BY <2>1 DEF ClientOK, ClientsOK
  <2>3. down[c] \in Seq(Message) /\ down'[c] = down[c] \o msgs
    BY <1>1, SentFacts DEF TablesInv, TypeOK
  <2>4. PICK q \in Seq(Message) : q = down[c]
    BY <2>3
  <2>5. PICK has : has = DOMAIN mirror[c]
    OBVIOUS
  <2>6. PICK E : E = DOMAIN entities
    OBVIOUS
  <2>7. PICK n \in Nat : n = Len(q)
    OBVIOUS
  <2>8. PICK l \in Nat : l = Len(msgs)
    OBVIOUS
  <2>9. PICK r : r = q \o msgs
    OBVIOUS
  <2>10. /\ Len(r) = n + l /\ \A k \in 1 .. n : r[k] = q[k]
         /\ \A k \in 1 .. l : r[n + k] = msgs[k]
    BY <2>7, <2>8, <2>9, ConcatProperties
  <2>11. After(has, r, n) \subseteq E
    <3>1. After(has, r, n) = After(has, q, n)
      BY <2>10, AfterSame
    <3> QED BY <3>1, <2>2, <2>4, <2>5, <2>6, <2>7 DEF Pending
  <2>12. ASSUME NEW k \in n + 1 .. n + l PROVE r[k].type = "EntitySpawn" /\ r[k].id \in E
    <3>1. k - n \in 1 .. l /\ n + (k - n) = k
      OBVIOUS
    <3>2. r[k] = msgs[k - n]
      BY <3>1, <2>10
    <3> QED BY <3>1, <3>2, <1>1, <2>6, <2>8
  <2>13. ASSUME NEW j \in 0 .. l PROVE After(has, r, n + j) \subseteq E
    <3>1. j \in Nat /\ \A k \in n + 1 .. n + j : k \in n + 1 .. n + l
      OBVIOUS
    <3>2. \A k \in n + 1 .. n + j : r[k].type = "EntitySpawn" /\ r[k].id \in E
      BY <3>1, <2>12
    <3> QED BY <3>1, <3>2, <2>11, AfterSpawns
  <2>14. ASSUME NEW j \in 1 .. l PROVE TakesWell(After(has, r, n + (j - 1)), msgs[j], c)
    <3>1. PICK S : S = After(has, r, n + (j - 1))
      OBVIOUS
    <3>2. j - 1 \in 0 .. l
      OBVIOUS
    <3>3. S \subseteq DOMAIN entities
      BY <3>1, <3>2, <2>13, <2>6
    <3>4. msgs[j].type = "EntitySpawn" /\ msgs[j].id \in DOMAIN entities
      BY <1>1, <2>8
    <3>5. msgs[j].id \in S \/ HasRoom(S)
      <4>1. CASE S # DOMAIN entities
        BY <3>3, <4>1, RoomLeft
      <4> QED BY <3>4, <4>1
    <3>6. TakesWell(S, msgs[j], c)
      BY <3>4, <3>5 DEF TakesWell
    <3> QED BY <3>1, <3>6
  <2>15. QueueOK(has, r, c)
    <3>1. QueueOK(has, q, c)
      BY <2>2, <2>4, <2>5
    <3>2. \A j \in 1 .. Len(msgs) : TakesWell(After(has, q \o msgs, Len(q) + (j - 1)), msgs[j], c)
      BY <2>7, <2>8, <2>9, <2>14
    <3>3. QueueOK(has, q \o msgs, c)
      BY <3>1, <3>2, QueueLonger
    <3> QED BY <3>3, <2>9
  <2>16. E \subseteq After(has, r, n + l)
    <3>1. \A i \in NetworkId : (\E k \in n + 1 .. n + l : r[k].id = i) => i \in After(has, r, n + l)
      BY <2>11, <2>12, AfterSpawns
    <3>2. ASSUME NEW i \in E PROVE i \in NetworkId /\ \E k \in n + 1 .. n + l : r[k].id = i
      <4>1. i \in NetworkId
        BY <2>6, MatchesOf DEF IsTable
      <4>2. PICK k \in 1 .. l : msgs[k].id = i
        BY <1>1, <2>6, <2>8
      <4>3. n + k \in n + 1 .. n + l /\ r[n + k].id = i
        BY <4>2, <2>10
      <4> QED BY <4>1, <4>3
    <3> QED BY <3>1, <3>2
  <2>17. After(has, r, n + l) \subseteq E
    <3>1. l \in 0 .. l
      OBVIOUS
    <3> QED BY <3>1, <2>13
  <2>18. down'[c] = r /\ DOMAIN mirror'[c] = has /\ DOMAIN entities' = E
    BY <2>1, <2>3, <2>4, <2>5, <2>6, <2>9
  <2>19. Pending(c)' = After(has, r, n + l)
    BY <2>10, <2>18 DEF Pending
  <2> QED BY <2>1, <2>15, <2>16, <2>17, <2>18, <2>19 DEF ClientOK
<1> QED BY <1>2, <1>3 DEF ClientsOK

\* A client takes a message and leaves the others alone.
LEMMA ClientsTake ==
  ASSUME TablesInv, ClientsOK, NEW c \in Clients, down[c] # << >>, Taken(c),
         UNCHANGED <<entities, ids, caught_up>>,
         \A d \in Clients \ {c} : mirror'[d] = mirror[d],
         TakesWell(DOMAIN mirror[c], Head(down[c]), c) =>
           DOMAIN mirror'[c] = Effect(DOMAIN mirror[c], Head(down[c]))
  PROVE  ClientsOK' /\ TakesWell(DOMAIN mirror[c], Head(down[c]), c)
<1>1. ids[c] # 0 /\ ClientOK(c)
  BY DEF ClientsOK, ClientOK
<1>2. /\ QueueOK(DOMAIN mirror[c], down[c], c) /\ Pending(c) \subseteq DOMAIN entities
      /\ caught_up[c] => DOMAIN entities \subseteq Pending(c)
  BY <1>1 DEF ClientOK
<1>3. /\ TakesWell(DOMAIN mirror[c], Head(down[c]), c)
      /\ QueueOK(DOMAIN mirror'[c], down'[c], c)
      /\ Pending(c)' = Pending(c)
  BY <1>2, ClientTake
<1>4. ClientOK(c)'
  BY <1>1, <1>2, <1>3 DEF ClientOK
<1>5. ASSUME NEW d \in Clients \ {c} PROVE ClientOK(d)'
  <2>1. ClientOK(d) /\ down'[d] = down[d]
    BY TakenFacts DEF ClientsOK, TablesInv, TypeOK
  <2> QED BY <2>1, ClientSame
<1> QED BY <1>3, <1>4, <1>5 DEF ClientsOK

\* on_receive_spawn: a spawn that is taken well makes the entity known.
LEMMA ClientsReceiveSpawn ==
  ASSUME TablesInv, ClientsOK, NEW c \in Clients, on_receive_spawn(c)
  PROVE  ClientsOK'
<1>1. PICK m : m = Head(down[c])
  OBVIOUS
<1>2. /\ down[c] # << >> /\ Taken(c) /\ m.type = "EntitySpawn" /\ m.id \in NetworkId
      /\ UNCHANGED <<entities, next_id, ids, caught_up, CallVars, joins>>
      /\ \/ /\ m.id \in DOMAIN mirror[c] \/ Full(ClientMax, mirror[c])
            /\ UNCHANGED <<mirror, alive>>
         \/ /\ m.id \notin DOMAIN mirror[c] /\ ~Full(ClientMax, mirror[c])
            /\ \E e \in Entity :
                 /\ mirror' = [mirror EXCEPT ![c] = With(mirror[c], m.id, e)]
  BY <1>1, ReceiveSpawnFacts
<1>3. IsTable(mirror[c]) /\ DOMAIN mirror[c] \subseteq NetworkId /\ DOMAIN mirror = Clients
      /\ Cardinality(DOMAIN mirror[c]) \in Nat
  BY MatchesOf, HandlesFinite DEF IsTable, TablesInv, TypeOK
<1>4. Effect(DOMAIN mirror[c], m) = DOMAIN mirror[c] \cup {m.id}
  BY <1>2, <1>3 DEF Effect, Spawns, Destroys
<1>5. \A d \in Clients \ {c} : mirror'[d] = mirror[d]
  BY <1>2, <1>3
<1>6. ASSUME TakesWell(DOMAIN mirror[c], m, c)
      PROVE  DOMAIN mirror'[c] = DOMAIN mirror[c] \cup {m.id}
  <2>1. m.id \in DOMAIN mirror[c] \/ ~Full(ClientMax, mirror[c])
    BY <1>2, <1>3, <1>6, LimitAssumption DEF TakesWell, HasRoom, Full
  <2>2. CASE m.id \in DOMAIN mirror[c]
    BY <1>2, <2>2
  <2>3. CASE m.id \notin DOMAIN mirror[c]
    <3>1. PICK e \in Entity : mirror' = [mirror EXCEPT ![c] = With(mirror[c], m.id, e)]
      BY <1>2, <2>1, <2>3
    <3>2. mirror'[c] = With(mirror[c], m.id, e)
      BY <3>1, <1>3
    <3>3. DOMAIN With(mirror[c], m.id, e) = DOMAIN mirror[c] \cup {m.id}
      BY DEF With
    <3> QED BY <3>2, <3>3
  <2> QED BY <2>2, <2>3
<1>7. TakesWell(DOMAIN mirror[c], Head(down[c]), c) =>
        DOMAIN mirror'[c] = Effect(DOMAIN mirror[c], Head(down[c]))
  BY <1>1, <1>4, <1>6
<1> QED BY <1>2, <1>5, <1>7, ClientsTake

\* on_receive_destroy: the entity is not known afterwards.
LEMMA ClientsReceiveDestroy ==
  ASSUME TablesInv, ClientsOK, NEW c \in Clients, on_receive_destroy(c)
  PROVE  ClientsOK'
<1>1. PICK m : m = Head(down[c])
  OBVIOUS
<1>2. /\ down[c] # << >> /\ Taken(c) /\ m.type = "EntityDestroy" /\ m.id \in NetworkId
      /\ UNCHANGED <<entities, next_id, ids, caught_up, CallVars, joins>>
      /\ \/ m.id \notin DOMAIN mirror[c] /\ UNCHANGED <<mirror, alive>>
         \/ /\ m.id \in DOMAIN mirror[c]
            /\ mirror' = [mirror EXCEPT ![c] = Without(mirror[c], m.id)]
  BY <1>1, ReceiveDestroyFacts
<1>3. IsTable(mirror[c]) /\ DOMAIN mirror[c] \subseteq NetworkId /\ DOMAIN mirror = Clients
  BY MatchesOf DEF IsTable, TablesInv, TypeOK
<1>4. Effect(DOMAIN mirror[c], m) = DOMAIN mirror[c] \ {m.id}
  BY <1>2, <1>3 DEF Effect, Spawns, Destroys
<1>5. \A d \in Clients \ {c} : mirror'[d] = mirror[d]
  BY <1>2, <1>3
<1>6. DOMAIN mirror'[c] = DOMAIN mirror[c] \ {m.id}
  <2>1. CASE m.id \notin DOMAIN mirror[c]
    BY <1>2, <2>1
  <2>2. CASE m.id \in DOMAIN mirror[c]
    <3>1. mirror'[c] = Without(mirror[c], m.id)
      BY <1>2, <1>3, <2>2
    <3>2. DOMAIN Without(mirror[c], m.id) = DOMAIN mirror[c] \ {m.id}
      BY <1>3, WithoutFacts
    <3> QED BY <3>1, <3>2
  <2> QED BY <2>1, <2>2
<1> QED BY <1>1, <1>2, <1>4, <1>5, <1>6, ClientsTake

\* on_receive_call: a call about an entity the client was to know finds it.
LEMMA ClientsReceiveCall ==
  ASSUME TablesInv, ClientsOK, NEW c \in Clients, on_receive_call(c)
  PROVE  /\ ClientsOK'
         /\ Head(down[c]).knows \subseteq Clients
         /\ c \in Head(down[c]).knows => Head(down[c]).id \in DOMAIN mirror[c]
<1>1. PICK m : m = Head(down[c])
  OBVIOUS
<1>2. /\ down[c] # << >> /\ Taken(c) /\ m.type = "Rpc"
      /\ UNCHANGED <<entities, next_id, mirror, alive, ids, caught_up, joins>>
  BY <1>1 DEF on_receive_call, NextMessage
<1>3. DOMAIN mirror[c] \subseteq NetworkId
  BY MatchesOf DEF IsTable
<1>4. Effect(DOMAIN mirror[c], m) = DOMAIN mirror[c]
  BY <1>2, <1>3 DEF Effect, Spawns, Destroys
<1>5. DOMAIN mirror'[c] = Effect(DOMAIN mirror[c], Head(down[c]))
      /\ \A d \in Clients \ {c} : mirror'[d] = mirror[d]
  BY <1>1, <1>2, <1>4
<1>6. ClientsOK' /\ TakesWell(DOMAIN mirror[c], Head(down[c]), c)
  BY <1>2, <1>5, ClientsTake
<1>7. m \in Message
  BY <1>1, <1>2, TakenFacts DEF TablesInv, TypeOK
<1>8. m.knows \subseteq Clients
  BY <1>2, <1>7 DEF Message
<1> QED BY <1>1, <1>2, <1>6, <1>8 DEF TakesWell

\* A packet without bytes.
LEMMA ClientsReceiveEmpty ==
  ASSUME TablesInv, ClientsOK, NEW c \in Clients, receive_empty(c)
  PROVE  ClientsOK'
<1>1. PICK m : m = Head(down[c])
  OBVIOUS
<1>2. /\ down[c] # << >> /\ Taken(c) /\ m.type = "Empty"
      /\ UNCHANGED <<entities, next_id, mirror, alive, ids, caught_up, joins>>
  BY <1>1 DEF receive_empty, NextMessage
<1>3. DOMAIN mirror[c] \subseteq NetworkId
  BY MatchesOf DEF IsTable
<1>4. Effect(DOMAIN mirror[c], m) = DOMAIN mirror[c]
  BY <1>2, <1>3 DEF Effect, Spawns, Destroys
<1>5. DOMAIN mirror'[c] = Effect(DOMAIN mirror[c], Head(down[c]))
      /\ \A d \in Clients \ {c} : mirror'[d] = mirror[d]
  BY <1>1, <1>2, <1>4
<1> QED BY <1>2, <1>5, ClientsTake

\* join with a new manager: nothing known, nothing on its way.
LEMMA ClientsJoin ==
  ASSUME FreshManagers, TablesInv, ClientsOK, NEW c \in Clients, join(c)
  PROVE  ClientsOK'
<1>1. /\ ids[c] = 0 /\ ids'[c] # 0 /\ \A d \in Clients \ {c} : ids'[d] = ids[d]
      /\ mirror' = [mirror EXCEPT ![c] = NoEntities]
      /\ UNCHANGED <<entities, next_id, down, caught_up>>
  BY JoinFacts
<1>2. DOMAIN mirror = Clients
  BY DEF TablesInv, TypeOK
<1>3. mirror'[c] = NoEntities /\ \A d \in Clients \ {c} : mirror'[d] = mirror[d]
  BY <1>1, <1>2
<1>4. ASSUME NEW d \in Clients \ {c} PROVE ClientOK(d)'
  BY <1>1, <1>3, ClientSame DEF ClientsOK
<1>5. ClientOK(c)'
  <2>1. down'[c] = << >> /\ ~caught_up'[c] /\ DOMAIN mirror'[c] = {}
    BY <1>1, <1>3 DEF ClientsOK, ClientOK, NoEntities
  <2>2. QueueOK(DOMAIN mirror'[c], down'[c], c)
    BY <2>1 DEF QueueOK
  <2>3. Pending(c)' = {}
    <3>1. {} \in SUBSET NetworkId
      OBVIOUS
    <3>2. After({}, << >>, 0) = {}
      BY <3>1, AfterNone
    <3> QED BY <2>1, <3>2 DEF Pending
  <2> QED BY <1>1, <2>1, <2>2, <2>3 DEF ClientOK
<1> QED BY <1>4, <1>5 DEF ClientsOK

\* leave: nothing stays on its way.
LEMMA ClientsLeave ==
  ASSUME TablesInv, ClientsOK, NEW c \in Clients, leave(c)
  PROVE  ClientsOK'
<1>1. /\ ids' = [ids EXCEPT ![c] = 0] /\ down' = [down EXCEPT ![c] = << >>]
      /\ caught_up' = [caught_up EXCEPT ![c] = FALSE]
      /\ UNCHANGED <<entities, next_id, mirror, alive>>
  BY DEF leave
<1>2. ids'[c] = 0 /\ down'[c] = << >>
  BY <1>1 DEF TablesInv, TypeOK
<1>3. ~caught_up'[c]
  BY <1>1 DEF TablesInv, TypeOK
<1>4. \A d \in Clients \ {c} :
        ids'[d] = ids[d] /\ down'[d] = down[d] /\ caught_up'[d] = caught_up[d]
  BY <1>1 DEF TablesInv, TypeOK
<1>5. ASSUME NEW d \in Clients \ {c} PROVE ClientOK(d)'
  BY <1>1, <1>4, ClientSame DEF ClientsOK
<1>6. ClientOK(c)'
  BY <1>2, <1>3 DEF ClientOK
<1> QED BY <1>5, <1>6 DEF ClientsOK

\* What every client's queue leads to, in every step.
LEMMA ClientsStep ==
  ASSUME FreshManagers, LimitsAgree, TablesInv, ServerLimit, ClientsOK, [Next]_vars
  PROVE  ClientsOK'
<1>1. ASSUME NEW p \in Prefabs, NEW b \in InitData, spawn(p, b) PROVE ClientsOK'
  BY <1>1, ClientsSpawn
<1>2. ASSUME NEW i \in NetworkId, destroy(i) PROVE ClientsOK'
  BY <1>2, ClientsDestroy
<1>3. ASSUME NEW i \in NetworkId, NEW c \in Clients, set_owner(i, ids[c]) PROVE ClientsOK'
  <2>1. /\ DOMAIN entities' = DOMAIN entities
        /\ UNCHANGED <<next_id, mirror, alive, ids, down, caught_up, CallVars, joins>>
    BY <1>3 DEF set_owner
  <2> QED BY <2>1, ClientSame DEF ClientsOK
<1>4. ASSUME NEW i \in NetworkId, NEW size \in Payloads,
             \/ \E c \in Clients : invoke_client(c, i, size)
             \/ invoke_broadcast(i, size) \/ invoke_owner(i, size) \/ invoke_not_owner(i, size)
      PROVE  ClientsOK'
  <2>1. PICK to \in SUBSET Approved :
           /\ down' = Sent(to, <<RpcMessage(i, size)>>)
           /\ UNCHANGED <<entities, next_id, mirror, alive, ids, caught_up, missed, joins>>
    BY <1>4, CallFacts DEF TablesInv
  <2>2. PICK m : m = RpcMessage(i, size)
    OBVIOUS
  <2>3. /\ m \in Message /\ m.type = "Rpc" /\ m.id = i
        /\ m.knows = {c \in Clients : caught_up[c] /\ i \in DOMAIN entities}
    BY <2>2, RpcMessageType DEF TablesInv
  <2>4. /\ m.type \notin {"EntitySpawn", "EntityDestroy"}
        /\ m.type = "Rpc" => \A c \in m.knows : caught_up[c] /\ m.id \in DOMAIN entities
    BY <2>3
  <2>5. down' = Sent(to, <<m>>) /\ UNCHANGED <<entities, mirror, ids, caught_up>>
    BY <2>1, <2>2
  <2> QED BY <2>3, <2>4, <2>5, ClientsOther
<1>5. ASSUME NEW size \in Payloads, invoke_broadcast_oversized(size)
      PROVE  ClientsOK'
  <2>1. PICK m : m = [type |-> "Empty"]
    OBVIOUS
  <2>2. m \in Message /\ m.type = "Empty"
    BY <2>1 DEF Message
  <2>3. Receivers(0) \in SUBSET Approved
    BY DEF Receivers
  <2>4. down' = Sent(Receivers(0), <<m>>) /\ UNCHANGED <<entities, mirror, ids, caught_up>>
    BY <1>5, <2>1 DEF invoke_broadcast_oversized
  <2> QED BY <2>2, <2>3, <2>4, ClientsOther
<1>6. ASSUME NEW c \in Clients,
             \/ send_full_state_to_client(c) \/ join(c) \/ leave(c) \/ on_receive_spawn(c)
             \/ on_receive_destroy(c) \/ on_receive_call(c) \/ receive_empty(c)
      PROVE  ClientsOK'
  BY <1>6, ClientsFullState, ClientsJoin, ClientsLeave, ClientsReceiveSpawn,
     ClientsReceiveDestroy, ClientsReceiveCall, ClientsReceiveEmpty
<1>7. CASE UNCHANGED vars
  BY <1>7, ClientSame DEF ClientsOK, vars
<1> QED BY <1>1, <1>2, <1>3, <1>4, <1>5, <1>6, <1>7 DEF Next

-----------------------------------------------------------------------------
(* Ids name the same entity everywhere.                                    *)

\* The spawn messages of a queue, and what they name.
NamesMessage(m, E, n) ==
  m.type = "EntitySpawn" =>
    m.id < n /\ (m.id \in DOMAIN E => m.prefab_id = E[m.id].prefab_id)

NamesQueue(q, E, n) == \A k \in 1 .. Len(q) : NamesMessage(q[k], E, n)

\* A table of a client, and what it names.
NamesTable(t, E, n) ==
  \A i \in DOMAIN t :
    i < n /\ (i \in DOMAIN E => t[i].prefab_id = E[i].prefab_id)

NamesInv ==
  \A c \in Clients :
    NamesTable(mirror[c], entities, next_id) /\ NamesQueue(down[c], entities, next_id)

\* An id keeps its entity while there is one, and is given to no other.
KeepsNames ==
  /\ next_id' >= next_id
  /\ \A i \in DOMAIN entities' :
       \/ i \in DOMAIN entities /\ entities'[i].prefab_id = entities[i].prefab_id
       \/ i >= next_id

\* Then tables and messages go on naming the same entities.
LEMMA NamesKept ==
  ASSUME TablesInv, TablesInv', KeepsNames
  PROVE  /\ \A t : IsTable(t) /\ NamesTable(t, entities, next_id)
                     => NamesTable(t, entities', next_id')
         /\ \A q \in Seq(Message) : NamesQueue(q, entities, next_id)
                                      => NamesQueue(q, entities', next_id')
<1>1. next_id \in Nat /\ next_id' \in Nat /\ next_id' >= next_id
  BY DEF TablesInv, TypeOK, KeepsNames
<1>2. ASSUME NEW t, IsTable(t), NamesTable(t, entities, next_id)
      PROVE  NamesTable(t, entities', next_id')
  <2>1. \A i \in DOMAIN t : i \in Nat
    BY <1>2 DEF IsTable, NetworkId
  <2>2. \A i \in DOMAIN t : i < next_id /\ i < next_id' /\ ~ (i >= next_id)
    BY <1>1, <1>2, <2>1 DEF NamesTable
  <2> QED BY <1>2, <2>2 DEF NamesTable, KeepsNames
<1>3. ASSUME NEW q \in Seq(Message), NamesQueue(q, entities, next_id)
      PROVE  NamesQueue(q, entities', next_id')
  <2> SUFFICES ASSUME NEW k \in 1 .. Len(q), q[k].type = "EntitySpawn"
               PROVE  NamesMessage(q[k], entities', next_id')
    BY DEF NamesQueue, NamesMessage
  <2>1. q[k] \in Message
    BY ElementOfSeq
  <2>2. q[k].id \in Nat
    BY <2>1 DEF Message, NetworkId
  <2>3. q[k].id < next_id /\ q[k].id < next_id' /\ ~ (q[k].id >= next_id)
    BY <1>1, <1>3, <2>2 DEF NamesQueue, NamesMessage
  <2> QED BY <1>3, <2>3 DEF NamesQueue, NamesMessage, KeepsNames
<1> QED BY <1>2, <1>3

\* Messages are added to a queue.
LEMMA NamesAppend ==
  ASSUME NEW q \in Seq(Message), NEW msgs \in Seq(Message), NEW E, NEW i,
         NamesQueue(q, E, i), NamesQueue(msgs, E, i)
  PROVE  NamesQueue(q \o msgs, E, i)
<1>a. PICK n \in Nat : n = Len(q)
  OBVIOUS
<1>b. PICK l \in Nat : l = Len(msgs)
  OBVIOUS
<1>c. PICK r : r = q \o msgs
  OBVIOUS
<1>2. /\ Len(r) = n + l /\ \A k \in 1 .. n : r[k] = q[k]
      /\ \A k \in 1 .. l : r[n + k] = msgs[k]
  BY <1>a, <1>b, <1>c, ConcatProperties
<1>3. ASSUME NEW k \in 1 .. n + l
      PROVE  (\E j \in 1 .. n : r[k] = q[j]) \/ (\E j \in 1 .. l : r[k] = msgs[j])
  <2>1. CASE k <= n
    <3>1. k \in 1 .. n
      BY <2>1
    <3> QED BY <3>1, <1>2
  <2>2. CASE ~(k <= n)
    <3>1. k - n \in 1 .. l /\ k = n + (k - n)
      BY <2>2
    <3>2. r[k] = msgs[k - n]
      BY <3>1, <1>2
    <3> QED BY <3>1, <3>2
  <2> QED BY <2>1, <2>2
<1>4. NamesQueue(r, E, i)
  BY <1>2, <1>3, <1>a, <1>b DEF NamesQueue
<1> QED BY <1>4, <1>c

\* Messages are sent, and no client's table changes.
LEMMA NamesSent ==
  ASSUME TablesInv, TablesInv', KeepsNames, NamesInv, NEW to, NEW msgs \in Seq(Message),
         NamesQueue(msgs, entities', next_id'), down' = Sent(to, msgs), mirror' = mirror
  PROVE  NamesInv'
<1> SUFFICES ASSUME NEW c \in Clients
             PROVE  /\ NamesTable(mirror'[c], entities', next_id')
                    /\ NamesQueue(down'[c], entities', next_id')
  BY DEF NamesInv
<1>1. NamesTable(mirror[c], entities, next_id) /\ NamesQueue(down[c], entities, next_id)
  BY DEF NamesInv
<1>2. IsTable(mirror[c]) /\ down[c] \in Seq(Message)
  BY DEF TablesInv, TypeOK
<1>3. PICK t : t = mirror[c]
  OBVIOUS
<1>4. PICK q \in Seq(Message) : q = down[c]
  BY <1>2
<1>5. NamesTable(t, entities', next_id') /\ NamesQueue(q, entities', next_id')
  BY <1>1, <1>2, <1>3, <1>4, NamesKept
<1>6. NamesQueue(q \o msgs, entities', next_id')
  BY <1>5, NamesAppend
<1>7. down'[c] = q \/ down'[c] = q \o msgs
  <2>0. down \in [Clients -> Seq(Message)]
    BY DEF TablesInv, TypeOK
  <2>1. Sent(to, msgs)[c] = IF c \in to THEN down[c] \o msgs ELSE down[c]
    BY <2>0, SentFacts
  <2> QED BY <1>4, <2>1
<1>8. mirror'[c] = t
  BY <1>3
<1> QED BY <1>5, <1>6, <1>7, <1>8

\* A client takes a message, and its table afterwards names what it should.
LEMMA NamesTaken ==
  ASSUME TablesInv, NamesInv, NEW c \in Clients, down[c] # << >>, Taken(c),
         UNCHANGED <<entities, next_id>>, \A d \in Clients \ {c} : mirror'[d] = mirror[d],
         NamesMessage(Head(down[c]), entities, next_id) =>
           NamesTable(mirror'[c], entities, next_id)
  PROVE  NamesInv'
<1>1. /\ \A d \in Clients \ {c} : down'[d] = down[d]
      /\ Head(down[c]) = down[c][1] /\ Len(down[c]) \in Nat \ {0}
      /\ Len(down'[c]) = Len(down[c]) - 1
      /\ \A k \in 1 .. Len(down'[c]) : down'[c][k] = down[c][k + 1]
  BY TakenFacts DEF TablesInv, TypeOK
<1>2. NamesQueue(down[c], entities, next_id)
  BY DEF NamesInv
<1>3. NamesMessage(Head(down[c]), entities, next_id)
  <2>1. 1 \in 1 .. Len(down[c])
    BY <1>1
  <2> QED BY <1>1, <1>2, <2>1 DEF NamesQueue
<1>4. NamesQueue(down'[c], entities, next_id)
  <2> SUFFICES ASSUME NEW k \in 1 .. Len(down'[c])
               PROVE  NamesMessage(down'[c][k], entities, next_id)
    BY DEF NamesQueue
  <2>1. k + 1 \in 1 .. Len(down[c]) /\ down'[c][k] = down[c][k + 1]
    BY <1>1
  <2> QED BY <1>2, <2>1 DEF NamesQueue
<1>5. ASSUME NEW d \in Clients
      PROVE  NamesTable(mirror'[d], entities, next_id) /\ NamesQueue(down'[d], entities, next_id)
  <2>1. CASE d = c
    BY <1>3, <1>4, <2>1
  <2>2. CASE d # c
    BY <1>1, <2>2 DEF NamesInv
  <2> QED BY <2>1, <2>2
<1> QED BY <1>5 DEF NamesInv

\* Ids name the same entity everywhere, in every step.
LEMMA NamesStep == TablesInv /\ TablesInv' /\ NamesInv /\ [Next]_vars => NamesInv'
<1> SUFFICES ASSUME TablesInv, TablesInv', NamesInv, [Next]_vars PROVE NamesInv'
  OBVIOUS
<1>0. next_id \in Nat \ {0} /\ IsTable(entities) /\ DOMAIN mirror = Clients
      /\ down \in [Clients -> Seq(Message)] /\ \A c \in Clients : IsTable(mirror[c])
  BY DEF TablesInv, TypeOK
<1>a. ASSUME UNCHANGED <<entities, next_id>> PROVE KeepsNames
  BY <1>0, <1>a DEF KeepsNames
<1>b. ASSUME NEW m \in Message, m.type # "EntitySpawn"
      PROVE  <<m>> \in Seq(Message) /\ NamesQueue(<<m>>, entities', next_id')
  BY <1>b DEF NamesQueue, NamesMessage
<1>1. ASSUME NEW p \in Prefabs, NEW b \in InitData, spawn(p, b) PROVE NamesInv'
  <2>1. PICK e \in Entity :
           /\ e.prefab_id = p
           /\ next_id \in NetworkId /\ next_id \notin DOMAIN entities /\ next_id' = next_id + 1
           /\ entities' = With(entities, next_id, e)
           /\ SpawnMessage(next_id, e, e.init) \in Message
           /\ down' = Sent(Approved, <<SpawnMessage(next_id, e, e.init)>>)
           /\ mirror' = mirror
    BY <1>1, SpawnFacts
  <2>2. /\ DOMAIN entities' = DOMAIN entities \cup {next_id} /\ entities'[next_id] = e
        /\ \A j \in DOMAIN entities : j # next_id => entities'[j] = entities[j]
    BY <2>1 DEF With
  <2>3. KeepsNames
    BY <1>0, <2>1, <2>2 DEF KeepsNames
  <2>4. PICK m \in Message : m = SpawnMessage(next_id, e, e.init)
    BY <2>1
  <2>5. m.id = next_id /\ m.prefab_id = p
    BY <2>1, <2>4 DEF SpawnMessage
  <2>6. NamesMessage(m, entities', next_id')
    BY <1>0, <2>1, <2>2, <2>5 DEF NamesMessage
  <2>7. <<m>> \in Seq(Message) /\ NamesQueue(<<m>>, entities', next_id')
    BY <2>6 DEF NamesQueue
  <2>8. down' = Sent(Approved, <<m>>)
    BY <2>1, <2>4
  <2> QED BY <2>1, <2>3, <2>7, <2>8, NamesSent
<1>2. ASSUME NEW i \in NetworkId, destroy(i) PROVE NamesInv'
  <2>1. /\ i \in DOMAIN entities /\ entities' = Without(entities, i)
        /\ down' = Sent(Approved, <<[type |-> "EntityDestroy", id |-> i]>>)
        /\ next_id' = next_id /\ mirror' = mirror
    BY <1>2 DEF destroy, broadcast_destroy
  <2>2. /\ DOMAIN entities' = DOMAIN entities \ {i}
        /\ \A j \in DOMAIN entities : j # i => entities'[j] = entities[j]
    BY <1>0, <2>1, WithoutFacts
  <2>3. KeepsNames
    BY <1>0, <2>1, <2>2 DEF KeepsNames
  <2>4. [type |-> "EntityDestroy", id |-> i] \in Message
    BY DEF Message
  <2> QED BY <1>b, <2>1, <2>3, <2>4, NamesSent
<1>3. ASSUME NEW i \in NetworkId, NEW c \in Clients, set_owner(i, ids[c]) PROVE NamesInv'
  <2>1. /\ i \in DOMAIN entities /\ entities' = [entities EXCEPT ![i].owner_id = ids[c]]
        /\ UNCHANGED <<next_id, mirror, down>>
    BY <1>3 DEF set_owner
  <2>2. entities[i] \in Entity
    BY <1>0, <2>1 DEF IsTable
  <2>3. DOMAIN entities' = DOMAIN entities
        /\ \A j \in DOMAIN entities : entities'[j].prefab_id = entities[j].prefab_id
    BY <2>1, <2>2 DEF Entity
  <2>4. KeepsNames
    BY <1>0, <2>1, <2>3 DEF KeepsNames
  <2> QED BY <1>0, <2>1, <2>4, NamesKept DEF NamesInv
<1>4. ASSUME NEW i \in NetworkId, NEW size \in Payloads,
             \/ \E c \in Clients : invoke_client(c, i, size)
             \/ invoke_broadcast(i, size) \/ invoke_owner(i, size) \/ invoke_not_owner(i, size)
      PROVE  NamesInv'
  <2>1. PICK to \in SUBSET Approved :
           /\ down' = Sent(to, <<RpcMessage(i, size)>>)
           /\ UNCHANGED <<entities, next_id, mirror, alive, ids, caught_up, missed, joins>>
    BY <1>4, CallFacts DEF TablesInv
  <2>2. RpcMessage(i, size) \in Message /\ RpcMessage(i, size).type = "Rpc"
    BY RpcMessageType DEF TablesInv
  <2>3. PICK m \in Message : m = RpcMessage(i, size) /\ m.type # "EntitySpawn"
    BY <2>2
  <2>4. down' = Sent(to, <<m>>)
    BY <2>1, <2>3
  <2> QED BY <1>a, <1>b, <2>1, <2>3, <2>4, NamesSent
<1>5. ASSUME NEW size \in Payloads, invoke_broadcast_oversized(size)
      PROVE  NamesInv'
  <2>1. PICK m : m = [type |-> "Empty"]
    OBVIOUS
  <2>2. m \in Message /\ m.type # "EntitySpawn"
    BY <2>1 DEF Message
  <2>3. down' = Sent(Receivers(0), <<m>>) /\ UNCHANGED <<entities, next_id, mirror>>
    BY <1>5, <2>1 DEF invoke_broadcast_oversized
  <2> QED BY <1>a, <1>b, <2>2, <2>3, NamesSent
<1>6. ASSUME NEW c \in Clients, send_full_state_to_client(c) PROVE NamesInv'
  <2>1. PICK msgs \in Seq(Message) :
           /\ down' = Sent({c}, msgs)
           /\ \A k \in 1 .. Len(msgs) :
                /\ msgs[k].type = "EntitySpawn" /\ msgs[k].id \in DOMAIN entities
                /\ msgs[k].prefab_id = entities[msgs[k].id].prefab_id
           /\ UNCHANGED <<entities, next_id, mirror>>
    BY <1>6, FullStateFacts
  <2>2. \A i \in DOMAIN entities : i < next_id
    BY DEF TablesInv
  <2>3. NamesQueue(msgs, entities', next_id')
    BY <2>1, <2>2 DEF NamesQueue, NamesMessage
  <2> QED BY <1>a, <2>1, <2>3, NamesSent
<1>7. ASSUME NEW c \in Clients, join(c) PROVE NamesInv'
  <2>1. UNCHANGED <<entities, next_id, down>>
    BY <1>7, JoinFacts
  <2>2. \A d \in Clients : mirror'[d] = mirror[d] \/ mirror'[d] = NoEntities
    BY <1>0, <1>7, JoinFacts
  <2>3. NamesTable(NoEntities, entities, next_id)
    BY DEF NamesTable, NoEntities
  <2> QED BY <2>1, <2>2, <2>3 DEF NamesInv
<1>8. ASSUME NEW c \in Clients, leave(c) PROVE NamesInv'
  <2>1. /\ down' = [down EXCEPT ![c] = << >>] /\ UNCHANGED <<entities, next_id, mirror>>
    BY <1>8 DEF leave
  <2>2. \A d \in Clients : down'[d] = down[d] \/ down'[d] = << >>
    BY <1>0, <2>1
  <2>3. NamesQueue(<< >>, entities, next_id)
    BY DEF NamesQueue
  <2> QED BY <2>1, <2>2, <2>3 DEF NamesInv
<1>9. ASSUME NEW c \in Clients, on_receive_spawn(c) PROVE NamesInv'
  <2>1. PICK m : m = Head(down[c])
    OBVIOUS
  <2>2. /\ down[c] # << >> /\ Taken(c) /\ m.type = "EntitySpawn" /\ m.id \in NetworkId
        /\ UNCHANGED <<entities, next_id>>
        /\ \/ mirror' = mirror
           \/ \E e \in Entity :
                /\ e.prefab_id = m.prefab_id
                /\ mirror' = [mirror EXCEPT ![c] = With(mirror[c], m.id, e)]
    BY <1>9, <2>1, ReceiveSpawnFacts
  <2>3. \A d \in Clients \ {c} : mirror'[d] = mirror[d]
    BY <1>0, <2>2
  <2>4. NamesTable(mirror[c], entities, next_id)
    BY DEF NamesInv
  <2>5. ASSUME NamesMessage(m, entities, next_id)
        PROVE  NamesTable(mirror'[c], entities, next_id)
    <3>1. CASE mirror' = mirror
      BY <2>4, <3>1
    <3>2. ASSUME NEW e \in Entity, e.prefab_id = m.prefab_id,
                 mirror' = [mirror EXCEPT ![c] = With(mirror[c], m.id, e)]
          PROVE  NamesTable(mirror'[c], entities, next_id)
      <4>1. PICK t : t = mirror'[c]
        OBVIOUS
      <4>2. t = With(mirror[c], m.id, e)
        BY <1>0, <3>2, <4>1
      <4>3. /\ DOMAIN t = DOMAIN mirror[c] \cup {m.id} /\ t[m.id] = e
            /\ \A j \in DOMAIN mirror[c] : j # m.id => t[j] = mirror[c][j]
        BY <4>2 DEF With
      <4>4. NamesTable(t, entities, next_id)
        BY <2>2, <2>4, <2>5, <3>2, <4>3 DEF NamesTable, NamesMessage
      <4> QED BY <4>1, <4>4
    <3> QED BY <2>2, <3>1, <3>2
  <2> QED BY <2>1, <2>2, <2>3, <2>5, NamesTaken
<1>10. ASSUME NEW c \in Clients, on_receive_destroy(c) PROVE NamesInv'
  <2>1. PICK m : m = Head(down[c])
    OBVIOUS
  <2>2. /\ down[c] # << >> /\ Taken(c) /\ UNCHANGED <<entities, next_id>>
        /\ mirror' = mirror \/ mirror' = [mirror EXCEPT ![c] = Without(mirror[c], m.id)]
    BY <1>10, <2>1, ReceiveDestroyFacts
  <2>3. \A d \in Clients \ {c} : mirror'[d] = mirror[d]
    BY <1>0, <2>2
  <2>4. mirror'[c] = mirror[c] \/ mirror'[c] = Without(mirror[c], m.id)
    BY <1>0, <2>2
  <2>5. NamesTable(mirror[c], entities, next_id)
    BY DEF NamesInv
  <2>6. NamesTable(Without(mirror[c], m.id), entities, next_id)
    <3>1. PICK t : t = Without(mirror[c], m.id)
      OBVIOUS
    <3>2. DOMAIN t = DOMAIN mirror[c] \ {m.id}
          /\ \A j \in DOMAIN mirror[c] : j # m.id => t[j] = mirror[c][j]
      BY <1>0, <3>1, WithoutFacts, ZenonT(30)
    <3>3. NamesTable(t, entities, next_id)
      BY <2>5, <3>2 DEF NamesTable
    <3> QED BY <3>1, <3>3
  <2> QED BY <2>2, <2>3, <2>4, <2>5, <2>6, NamesTaken
<1>11. ASSUME NEW c \in Clients, on_receive_call(c) \/ receive_empty(c) PROVE NamesInv'
  <2>1. down[c] # << >> /\ Taken(c) /\ UNCHANGED <<entities, next_id, mirror>>
    BY <1>11 DEF on_receive_call, receive_empty, NextMessage
  <2>2. NamesTable(mirror[c], entities, next_id)
    BY DEF NamesInv
  <2> QED BY <2>1, <2>2, NamesTaken
<1>12. CASE UNCHANGED vars
  BY <1>12 DEF vars, NamesInv
<1> QED
  BY <1>1, <1>2, <1>3, <1>4, <1>5, <1>6, <1>7, <1>8, <1>9, <1>10, <1>11, <1>12 DEF Next

-----------------------------------------------------------------------------
(* Late joiners.                                                           *)

\* The inductive invariant behind MirrorConverges.
EntInv == TablesInv /\ ServerLimit /\ ClientsOK /\ NamesInv

\* Nothing is known and nothing is on its way at first.
LEMMA EntInit == Init => EntInv
<1> SUFFICES ASSUME Init PROVE EntInv
  OBVIOUS
<1>1. TablesInv
  BY TablesInit
<1>2. DOMAIN entities = {} /\ \A c \in Clients : DOMAIN mirror[c] = {} /\ down[c] = << >>
  BY DEF Init, NoEntities
<1>3. \A c \in Clients : ids[c] = 0
  BY DEF Init
<1>4. \A c \in Clients : ~caught_up[c]
  BY DEF Init
<1>5. ServerLimit
  BY <1>2, FS_EmptySet, LimitAssumption DEF ServerLimit
<1>6. ClientsOK
  BY <1>2, <1>3, <1>4 DEF ClientsOK, ClientOK
<1>7. NamesInv
  BY <1>2 DEF NamesInv, NamesTable, NamesQueue
<1> QED BY <1>1, <1>5, <1>6, <1>7 DEF EntInv

\* Late-joiner catch-up of send_full_state_to_client, with the broadcasts of spawns and
\* destroys that race with it: a client to which the full state was sent comes to hold
\* the server's entities, and their prefabs.  It takes a new manager for each connection,
\* and a limit that is not below the server's.
THEOREM MirrorConvergesHolds ==
  FreshManagers /\ LimitsAgree => (Spec => []MirrorConverges)
<1> SUFFICES ASSUME FreshManagers, LimitsAgree PROVE Spec => []MirrorConverges
  OBVIOUS
<1>1. EntInv /\ [Next]_vars => EntInv'
  BY TablesStep, ServerLimitStep, ClientsStep, NamesStep DEF EntInv
<1>2. EntInv => MirrorConverges
  <2> SUFFICES ASSUME EntInv, NEW c \in Clients, caught_up[c]
               PROVE  /\ Pending(c) = DOMAIN entities
                      /\ \A i \in DOMAIN mirror[c] \cap DOMAIN entities :
                           mirror[c][i].prefab_id = entities[i].prefab_id
    BY DEF MirrorConverges
  <2>1. ClientOK(c) /\ NamesTable(mirror[c], entities, next_id)
    BY DEF EntInv, ClientsOK, NamesInv
  <2>2. Pending(c) = DOMAIN entities
    BY <2>1 DEF ClientOK
  <2> QED BY <2>1, <2>2 DEF NamesTable
<1> QED BY <1>1, <1>2, EntInit, PTL DEF Spec

-----------------------------------------------------------------------------
(* Calls.                                                                  *)

\* The calls on their way are those in S, in order.
Waits(q, x) == \E k \in 1 .. Len(q) : q[k].type = "Rpc" /\ q[k].call = x
WaitInOrder(q) ==
  \A j, k \in 1 .. Len(q) :
    q[j].type = "Rpc" /\ q[k].type = "Rpc" /\ j < k => q[j].call < q[k].call
Addressed(q, S) == (\A x : x \in S <=> Waits(q, x)) /\ WaitInOrder(q)

\* What CallsAddressed says, client by client.
LEMMA AddressedIsCallsAddressed ==
  ASSUME TypeOK
  PROVE  CallsAddressed <=> \A c \in Approved : Addressed(down[c], due[c])
<1>1. ASSUME NEW c \in Approved
      PROVE  LET Waiting == {k \in DOMAIN down[c] : down[c][k].type = "Rpc"} IN
             ( /\ {down[c][k].call : k \in Waiting} = due[c]
               /\ \A j, k \in Waiting : j < k => down[c][j].call < down[c][k].call )
             <=> Addressed(down[c], due[c])
  <2>1. PICK q \in Seq(Message) : q = down[c]
    BY DEF Approved, TypeOK
  <2>2. PICK S : S = due[c]
    OBVIOUS
  <2>3. DOMAIN q = 1 .. Len(q)
    BY <2>1
  <2> DEFINE Waiting == {k \in DOMAIN q : q[k].type = "Rpc"}
  <2>4. ({q[k].call : k \in Waiting} = S) <=> \A x : x \in S <=> Waits(q, x)
    <3>1. \A x : Waits(q, x) <=> x \in {q[k].call : k \in Waiting}
      BY <2>3 DEF Waits
    <3> HIDE DEF Waiting
    <3> QED BY <3>1
  <2>5. (\A j, k \in Waiting : j < k => q[j].call < q[k].call) <=> WaitInOrder(q)
    BY <2>3 DEF WaitInOrder
  <2>6. ( /\ {q[k].call : k \in Waiting} = S
          /\ \A j, k \in Waiting : j < k => q[j].call < q[k].call )
        <=> Addressed(q, S)
    <3> HIDE DEF Waiting
    <3> QED BY <2>4, <2>5 DEF Addressed
  <2> QED BY <2>1, <2>2, <2>6
<1> QED BY <1>1 DEF CallsAddressed

\* Messages that are no calls are added to a queue.
LEMMA AddressedOther ==
  ASSUME NEW q \in Seq(Message), NEW S, Addressed(q, S),
         NEW msgs \in Seq(Message), \A k \in 1 .. Len(msgs) : msgs[k].type # "Rpc"
  PROVE  Addressed(q \o msgs, S)
<1>a. PICK n \in Nat : n = Len(q)
  OBVIOUS
<1>b. PICK l \in Nat : l = Len(msgs)
  OBVIOUS
<1>c. PICK u : u = q \o msgs
  OBVIOUS
<1>1. /\ Len(u) = n + l /\ \A k \in 1 .. n : u[k] = q[k]
      /\ \A k \in 1 .. l : u[n + k] = msgs[k]
  BY <1>a, <1>b, <1>c, ConcatProperties
<1>2. ASSUME NEW k \in 1 .. n + l, u[k].type = "Rpc" PROVE k \in 1 .. n
  <2> SUFFICES ASSUME ~(k <= n) PROVE FALSE
    OBVIOUS
  <2>1. k - n \in 1 .. l /\ k = n + (k - n)
    OBVIOUS
  <2>2. u[k] = msgs[k - n]
    BY <1>1, <2>1
  <2> QED BY <1>2, <1>b, <2>1, <2>2
<1>3. \A k \in 1 .. n : k \in 1 .. n + l
  OBVIOUS
<1>4. \A x : Waits(u, x) <=> Waits(q, x)
  BY <1>1, <1>2, <1>3, <1>a DEF Waits
<1>5. WaitInOrder(u)
  <2>1. WaitInOrder(q)
    BY DEF Addressed
  <2> QED BY <1>1, <1>2, <1>a, <2>1 DEF WaitInOrder
<1>6. Addressed(u, S)
  BY <1>4, <1>5 DEF Addressed
<1> QED BY <1>6, <1>c

\* A call is added to a queue.
LEMMA AddressedCall ==
  ASSUME NEW q \in Seq(Message), NEW l \in Nat, NEW S \in SUBSET (1 .. l),
         Addressed(q, S), NEW m \in Message, m.type = "Rpc", m.call = l + 1
  PROVE  Addressed(q \o <<m>>, S \cup {l + 1})
<1>a. PICK n \in Nat : n = Len(q)
  OBVIOUS
<1>b. <<m>> \in Seq(Message) /\ Len(<<m>>) = 1 /\ <<m>>[1] = m
  OBVIOUS
<1>c. PICK u : u = q \o <<m>>
  OBVIOUS
<1>1. Len(u) = n + 1 /\ u[n + 1] = m /\ \A k \in 1 .. n : u[k] = q[k]
  BY <1>a, <1>b, <1>c, ConcatProperties
<1>2. 1 .. n + 1 = (1 .. n) \cup {n + 1}
  OBVIOUS
<1>3. \A x : Waits(u, x) <=> Waits(q, x) \/ x = l + 1
  BY <1>1, <1>2, <1>a DEF Waits
<1>4. \A x : x \in S <=> Waits(q, x)
  BY DEF Addressed
<1>5. \A x : Waits(q, x) => x \in Nat /\ x < l + 1
  <2>1. \A x \in S : x \in 1 .. l
    OBVIOUS
  <2>2. \A x \in S : x \in Nat /\ x < l + 1
    BY <2>1
  <2> QED BY <1>4, <2>2
<1>6. WaitInOrder(u)
  <2> SUFFICES ASSUME NEW j \in 1 .. n + 1, NEW k \in 1 .. n + 1, u[j].type = "Rpc",
                      u[k].type = "Rpc", j < k
               PROVE  u[j].call < u[k].call
    BY <1>1 DEF WaitInOrder
  <2>1. j \in 1 .. n
    OBVIOUS
  <2>2. CASE k \in 1 .. n
    BY <1>1, <1>a, <2>1, <2>2 DEF Addressed, WaitInOrder
  <2>3. CASE k = n + 1
    <3>1. Waits(q, u[j].call)
      BY <1>1, <1>a, <2>1 DEF Waits
    <3> QED BY <1>1, <1>5, <2>3, <3>1
  <2> QED BY <2>2, <2>3
<1>7. \A x : x \in S \cup {l + 1} <=> Waits(u, x)
  BY <1>3, <1>4
<1>8. Addressed(u, S \cup {l + 1})
  BY <1>6, <1>7 DEF Addressed
<1> QED BY <1>8, <1>c

\* The first message of a queue is taken: what waits, and in which order.
LEMMA AddressedTake ==
  ASSUME NEW q \in Seq(Message), q # << >>, NEW S, Addressed(q, S)
  PROVE  /\ WaitInOrder(Tail(q))
         /\ \A x : Waits(Tail(q), x) => Waits(q, x)
         /\ \A x : Waits(q, x) =>
              Waits(Tail(q), x) \/ (Head(q).type = "Rpc" /\ Head(q).call = x)
         /\ Head(q).type = "Rpc" =>
              /\ Waits(q, Head(q).call)
              /\ \A x : Waits(Tail(q), x) => Head(q).call < x
<1>a. PICK n \in Nat \ {0} : n = Len(q)
  OBVIOUS
<1>b. PICK u : u = Tail(q)
  OBVIOUS
<1>1. Len(u) = n - 1 /\ Head(q) = q[1] /\ \A k \in 1 .. n - 1 : u[k] = q[k + 1]
  BY <1>a, <1>b
<1>2. WaitInOrder(q)
  BY DEF Addressed
<1>3. \A k \in 1 .. n - 1 : k + 1 \in 1 .. n /\ 1 < k + 1
  OBVIOUS
<1>4. WaitInOrder(u)
  <2> SUFFICES ASSUME NEW j \in 1 .. n - 1, NEW k \in 1 .. n - 1, u[j].type = "Rpc",
                      u[k].type = "Rpc", j < k
               PROVE  u[j].call < u[k].call
    BY <1>1 DEF WaitInOrder
  <2>1. j + 1 < k + 1 /\ u[j] = q[j + 1] /\ u[k] = q[k + 1]
    BY <1>1
  <2> QED BY <1>2, <1>3, <1>a, <2>1 DEF WaitInOrder
<1>5. \A x : Waits(u, x) => Waits(q, x)
  BY <1>1, <1>3, <1>a DEF Waits
<1>6. ASSUME NEW x, Waits(q, x) PROVE Waits(u, x) \/ (q[1].type = "Rpc" /\ q[1].call = x)
  <2>1. PICK k \in 1 .. n : q[k].type = "Rpc" /\ q[k].call = x
    BY <1>6, <1>a DEF Waits
  <2>2. CASE k = 1
    BY <2>1, <2>2
  <2>3. CASE k # 1
    <3>1. k - 1 \in 1 .. n - 1 /\ (k - 1) + 1 = k
      BY <2>3
    <3>2. u[k - 1] = q[k]
      BY <1>1, <3>1
    <3> QED BY <1>1, <2>1, <3>1, <3>2 DEF Waits
  <2> QED BY <2>2, <2>3
<1>7. 1 \in 1 .. n
  OBVIOUS
<1>8. ASSUME q[1].type = "Rpc"
      PROVE  Waits(q, q[1].call) /\ \A x : Waits(u, x) => q[1].call < x
  <2>1. Waits(q, q[1].call)
    BY <1>7, <1>8, <1>a DEF Waits
  <2>2. ASSUME NEW x, Waits(u, x) PROVE q[1].call < x
    <3>1. PICK k \in 1 .. n - 1 : u[k].type = "Rpc" /\ u[k].call = x
      BY <1>1, <2>2 DEF Waits
    <3>2. u[k] = q[k + 1] /\ k + 1 \in 1 .. n /\ 1 < k + 1
      BY <1>1, <1>3
    <3> QED BY <1>2, <1>7, <1>8, <1>a, <3>1, <3>2 DEF WaitInOrder
  <2> QED BY <2>1, <2>2
<1> QED BY <1>1, <1>4, <1>5, <1>6, <1>8, <1>b

\* It is no call: the others stay in order.
LEMMA AddressedTakeOther ==
  ASSUME NEW q \in Seq(Message), q # << >>, NEW S, Addressed(q, S),
         Head(q).type # "Rpc"
  PROVE  Addressed(Tail(q), S)
<1>1. PICK u : u = Tail(q)
  OBVIOUS
<1>2. WaitInOrder(u) /\ \A x : Waits(u, x) <=> Waits(q, x)
  BY <1>1, AddressedTake
<1>3. Addressed(u, S)
  BY <1>2 DEF Addressed
<1> QED BY <1>1, <1>3

\* A call is taken.
LEMMA AddressedTakeCall ==
  ASSUME NEW q \in Seq(Message), q # << >>, NEW S, Addressed(q, S), Head(q).type = "Rpc"
  PROVE  Addressed(Tail(q), S \ {Head(q).call})
<1>1. PICK u : u = Tail(q)
  OBVIOUS
<1>2. PICK n : n = Head(q).call
  OBVIOUS
<1>3. /\ WaitInOrder(u) /\ \A x : Waits(u, x) => Waits(q, x)
      /\ \A x : Waits(q, x) => Waits(u, x) \/ n = x
      /\ \A x : Waits(u, x) => n < x
  BY <1>1, <1>2, AddressedTake
<1>4. Head(q) = q[1] /\ 1 \in 1 .. Len(q)
  OBVIOUS
<1>5. n \in Nat
  <2>1. Head(q) \in Message
    BY <1>4, ElementOfSeq
  <2> QED BY <1>2, <2>1 DEF Message
<1>6. ~Waits(u, n)
  BY <1>3, <1>5
<1>7. \A x : x \in S \ {n} <=> Waits(u, x)
  BY <1>3, <1>6 DEF Addressed
<1>8. Addressed(u, S \ {n})
  BY <1>3, <1>7 DEF Addressed
<1> QED BY <1>1, <1>2, <1>8

\* What is due at a client waits on its way, nothing does without a connection.
CallsOK ==
  /\ \A c \in Clients : ids[c] = 0 => down[c] = << >>
  /\ \A c \in Clients : due[c] \subseteq 1 .. calls /\ Addressed(down[c], due[c])

\* Messages that are no calls are sent.
LEMMA CallsSent ==
  ASSUME TablesInv, CallsOK, NEW to, NEW msgs \in Seq(Message), to \subseteq Approved,
         \A k \in 1 .. Len(msgs) : msgs[k].type # "Rpc",
         down' = Sent(to, msgs), UNCHANGED <<ids, calls, due>>
  PROVE  CallsOK'
<1>0. down \in [Clients -> Seq(Message)] /\ Approved \subseteq Clients
  BY DEF TablesInv, TypeOK, Approved
<1>1. \A c \in Clients : down'[c] = IF c \in to THEN down[c] \o msgs ELSE down[c]
  BY <1>0, SentFacts
<1>2. \A c \in Clients : ids'[c] = 0 => down'[c] = << >>
  BY <1>1 DEF CallsOK, Approved
<1>3. ASSUME NEW c \in Clients PROVE Addressed(down'[c], due[c])
  <2>1. Addressed(down[c], due[c]) /\ down[c] \in Seq(Message)
    BY <1>0 DEF CallsOK
  <2>2. PICK q \in Seq(Message) : q = down[c]
    BY <2>1
  <2>3. PICK S : S = due[c]
    OBVIOUS
  <2>4. Addressed(q \o msgs, S)
    BY <2>1, <2>2, <2>3, AddressedOther
  <2> QED BY <1>1, <2>1, <2>2, <2>3, <2>4
<1> QED BY <1>2, <1>3 DEF CallsOK

\* A call is made: it is due at those to whom it is sent.
LEMMA CallsMade ==
  ASSUME TablesInv, CallsOK, NEW to \in SUBSET Approved, NEW m \in Message,
         m.type = "Rpc", m.call = calls + 1, down' = Sent(to, <<m>>),
         calls' = calls + 1, DueAt(to), ids' = ids
  PROVE  CallsOK'
<1>0. /\ down \in [Clients -> Seq(Message)] /\ Approved \subseteq Clients /\ calls \in Nat
  BY DEF TablesInv, TypeOK, Approved
<1>a. <<m>> \in Seq(Message)
  OBVIOUS
<1>1. \A c \in Clients : down'[c] = IF c \in to THEN down[c] \o <<m>> ELSE down[c]
  BY <1>0, <1>a, SentOne
<1>2. \A c \in Clients : ids'[c] = 0 => down'[c] = << >>
  BY <1>1 DEF CallsOK, Approved
<1>3. PICK l \in Nat : l = calls
  BY <1>0
<1>4. \A c \in Clients : due'[c] = IF c \in to THEN due[c] \cup {l + 1} ELSE due[c]
  BY <1>3 DEF DueAt
<1>5. ASSUME NEW c \in Clients
      PROVE  due'[c] \subseteq 1 .. l + 1 /\ Addressed(down'[c], due'[c])
  <2>1. /\ Addressed(down[c], due[c]) /\ down[c] \in Seq(Message) /\ due[c] \subseteq 1 .. l
    BY <1>0, <1>3 DEF CallsOK
  <2>2. PICK q \in Seq(Message) : q = down[c]
    BY <2>1
  <2>3. PICK S \in SUBSET (1 .. l) : S = due[c]
    BY <2>1
  <2>4. Addressed(q, S) /\ m.call = l + 1
    BY <1>3, <2>1, <2>2, <2>3
  <2>5. Addressed(q \o <<m>>, S \cup {l + 1})
    BY <2>4, AddressedCall
  <2>6. S \cup {l + 1} \subseteq 1 .. l + 1 /\ S \subseteq 1 .. l + 1
    OBVIOUS
  <2> QED BY <1>1, <1>4, <2>2, <2>3, <2>4, <2>5, <2>6
<1> QED BY <1>2, <1>3, <1>5 DEF CallsOK

\* A client takes a message; a call is no longer due.
LEMMA CallsTaken ==
  ASSUME TablesInv, CallsOK, NEW c \in Clients, down[c] # << >>, Taken(c),
         UNCHANGED <<ids, calls>>,
         \/ Head(down[c]).type # "Rpc" /\ due' = due
         \/ /\ Head(down[c]).type = "Rpc"
            /\ due' = [due EXCEPT ![c] = @ \ {Head(down[c]).call}]
  PROVE  CallsOK'
<1>0. /\ down[c] \in Seq(Message) /\ due \in [Clients -> SUBSET Nat] /\ ids[c] # 0
  BY DEF CallsOK, TablesInv, TypeOK
<1>1. down'[c] = Tail(down[c]) /\ \A d \in Clients \ {c} : down'[d] = down[d]
  BY TakenFacts DEF TablesInv, TypeOK
<1>2. \A d \in Clients \ {c} : due'[d] = due[d]
  BY <1>0
<1>3. PICK q \in Seq(Message) : q = down[c]
  BY <1>0
<1>4. PICK S : S = due[c]
  OBVIOUS
<1>5. Addressed(q, S) /\ q # << >> /\ S \subseteq 1 .. calls
  BY <1>3, <1>4 DEF CallsOK
<1>6. due'[c] \subseteq 1 .. calls /\ Addressed(Tail(q), due'[c])
  <2>1. CASE Head(down[c]).type # "Rpc" /\ due' = due
    BY <1>3, <1>4, <1>5, <2>1, AddressedTakeOther
  <2>2. CASE /\ Head(down[c]).type = "Rpc"
             /\ due' = [due EXCEPT ![c] = @ \ {Head(down[c]).call}]
    <3>1. Addressed(Tail(q), S \ {Head(q).call})
      BY <1>3, <1>5, <2>2, AddressedTakeCall
    <3>2. due'[c] = S \ {Head(q).call}
      BY <1>0, <1>3, <1>4, <2>2
    <3> QED BY <1>5, <3>1, <3>2
  <2> QED BY <2>1, <2>2
<1>7. \A d \in Clients : due'[d] \subseteq 1 .. calls /\ Addressed(down'[d], due'[d])
  BY <1>1, <1>2, <1>3, <1>6 DEF CallsOK
<1>8. \A d \in Clients : ids'[d] = 0 => down'[d] = << >>
  BY <1>0, <1>1 DEF CallsOK
<1> QED BY <1>7, <1>8 DEF CallsOK

\* A client joins or leaves: nothing is on its way to it, nothing due.
LEMMA CallsJoin ==
  ASSUME TablesInv, CallsOK, NEW c \in Clients, join(c)
  PROVE  CallsOK'
<1>1. /\ ids[c] = 0 /\ \A d \in Clients \ {c} : ids'[d] = ids[d]
      /\ UNCHANGED <<down, calls, due>>
  BY JoinFacts DEF CallVars
<1>2. \A d \in Clients : ids'[d] = 0 => down'[d] = << >>
  BY <1>1 DEF CallsOK
<1> QED BY <1>1, <1>2 DEF CallsOK

LEMMA CallsLeave ==
  ASSUME TablesInv, CallsOK, NEW c \in Clients, leave(c)
  PROVE  CallsOK'
<1>1. /\ ids' = [ids EXCEPT ![c] = 0] /\ down' = [down EXCEPT ![c] = << >>]
      /\ due' = [due EXCEPT ![c] = {}] /\ calls' = calls
  BY DEF leave
<1>2. /\ down'[c] = << >> /\ due'[c] = {}
      /\ \A d \in Clients \ {c} : ids'[d] = ids[d] /\ down'[d] = down[d] /\ due'[d] = due[d]
  BY <1>1 DEF TablesInv, TypeOK
<1>3. Addressed(<< >>, {})
  BY DEF Addressed, Waits, WaitInOrder
<1>4. \A d \in Clients : due'[d] \subseteq 1 .. calls /\ Addressed(down'[d], due'[d])
  BY <1>2, <1>3 DEF CallsOK
<1> QED BY <1>1, <1>2, <1>4 DEF CallsOK

\* Calls in every step.
LEMMA CallsStep == TablesInv /\ CallsOK /\ [Next]_vars => CallsOK'
<1> SUFFICES ASSUME TablesInv, CallsOK, [Next]_vars PROVE CallsOK'
  OBVIOUS
<1>a. ASSUME NEW m \in Message, m.type # "Rpc"
      PROVE  <<m>> \in Seq(Message) /\ \A k \in 1 .. Len(<<m>>) : <<m>>[k].type # "Rpc"
  BY <1>a
<1>b. Approved \subseteq Approved /\ Receivers(0) \subseteq Approved
  BY DEF Receivers
<1>1. ASSUME NEW p \in Prefabs, NEW b \in InitData, spawn(p, b) PROVE CallsOK'
  <2>1. PICK e \in Entity :
           /\ SpawnMessage(next_id, e, e.init) \in Message
           /\ down' = Sent(Approved, <<SpawnMessage(next_id, e, e.init)>>)
           /\ UNCHANGED <<ids, CallVars>>
    BY <1>1, SpawnFacts
  <2>2. PICK m \in Message : m = SpawnMessage(next_id, e, e.init)
    BY <2>1
  <2>3. m.type # "Rpc"
    BY <2>2 DEF SpawnMessage
  <2>4. down' = Sent(Approved, <<m>>)
    BY <2>1, <2>2
  <2> QED BY <1>a, <1>b, <2>1, <2>3, <2>4, CallsSent DEF CallVars
<1>2. ASSUME NEW i \in NetworkId, destroy(i) PROVE CallsOK'
  <2>1. PICK m : m = [type |-> "EntityDestroy", id |-> i]
    OBVIOUS
  <2>2. m \in Message /\ m.type # "Rpc"
    BY <2>1 DEF Message
  <2>3. down' = Sent(Approved, <<m>>) /\ UNCHANGED <<ids, calls, due>>
    BY <1>2, <2>1 DEF destroy, broadcast_destroy, CallVars
  <2> QED BY <1>a, <1>b, <2>2, <2>3, CallsSent
<1>3. ASSUME UNCHANGED <<ids, down, calls, due>> PROVE CallsOK'
  BY <1>3 DEF CallsOK
<1>4. ASSUME NEW i \in NetworkId, NEW o, set_owner(i, o) PROVE CallsOK'
  BY <1>3, <1>4 DEF set_owner, CallVars
<1>5. ASSUME NEW i \in NetworkId, NEW size \in Payloads,
             \/ \E c \in Clients : invoke_client(c, i, size)
             \/ invoke_broadcast(i, size) \/ invoke_owner(i, size) \/ invoke_not_owner(i, size)
      PROVE  CallsOK'
  <2>1. PICK to \in SUBSET Approved :
           /\ down' = Sent(to, <<RpcMessage(i, size)>>)
           /\ calls' = calls + 1 /\ DueAt(to)
           /\ UNCHANGED <<entities, next_id, mirror, alive, ids, caught_up, missed, joins>>
    BY <1>5, CallFacts DEF TablesInv
  <2>2. PICK m : m = RpcMessage(i, size)
    OBVIOUS
  <2>3. m \in Message /\ m.type = "Rpc" /\ m.call = calls + 1
    BY <2>2, RpcMessageType DEF TablesInv
  <2>4. down' = Sent(to, <<m>>)
    BY <2>1, <2>2
  <2> QED BY <2>1, <2>3, <2>4, CallsMade
<1>6. ASSUME NEW size \in Payloads, invoke_broadcast_oversized(size) PROVE CallsOK'
  <2>1. PICK m : m = [type |-> "Empty"]
    OBVIOUS
  <2>2. m \in Message /\ m.type # "Rpc"
    BY <2>1 DEF Message
  <2>3. down' = Sent(Receivers(0), <<m>>) /\ UNCHANGED <<ids, calls, due>>
    BY <1>6, <2>1 DEF invoke_broadcast_oversized, CallVars
  <2> QED BY <1>a, <1>b, <2>2, <2>3, CallsSent
<1>7. ASSUME NEW c \in Clients, send_full_state_to_client(c) PROVE CallsOK'
  <2>1. PICK msgs \in Seq(Message) :
           /\ down' = Sent({c}, msgs) /\ c \in Approved
           /\ \A k \in 1 .. Len(msgs) : msgs[k].type = "EntitySpawn"
           /\ UNCHANGED <<ids, CallVars>>
    BY <1>7, FullStateFacts
  <2>2. \A k \in 1 .. Len(msgs) : msgs[k].type # "Rpc"
    BY <2>1
  <2>3. {c} \subseteq Approved
    BY <2>1
  <2> QED BY <2>1, <2>2, <2>3, CallsSent DEF CallVars
<1>8. ASSUME NEW c \in Clients, join(c) PROVE CallsOK'
  BY <1>8, CallsJoin
<1>9. ASSUME NEW c \in Clients, leave(c) PROVE CallsOK'
  BY <1>9, CallsLeave
<1>10. ASSUME NEW c \in Clients, on_receive_spawn(c) PROVE CallsOK'
  <2>1. down[c] # << >> /\ Taken(c) /\ Head(down[c]).type # "Rpc"
        /\ UNCHANGED <<ids, calls, due>>
    BY <1>10 DEF on_receive_spawn, NextMessage, CallVars
  <2> QED BY <2>1, CallsTaken
<1>11. ASSUME NEW c \in Clients, on_receive_destroy(c) \/ receive_empty(c) PROVE CallsOK'
  <2>1. down[c] # << >> /\ Taken(c) /\ Head(down[c]).type # "Rpc"
        /\ UNCHANGED <<ids, calls, due>>
    BY <1>11 DEF on_receive_destroy, receive_empty, NextMessage, CallVars
  <2> QED BY <2>1, CallsTaken
<1>12. ASSUME NEW c \in Clients, on_receive_call(c) PROVE CallsOK'
  <2>1. /\ down[c] # << >> /\ Taken(c) /\ Head(down[c]).type = "Rpc"
        /\ due' = [due EXCEPT ![c] = @ \ {Head(down[c]).call}] /\ UNCHANGED <<ids, calls>>
    BY <1>12 DEF on_receive_call, NextMessage
  <2> QED BY <2>1, CallsTaken
<1>13. CASE UNCHANGED vars
  BY <1>3, <1>13 DEF vars, CallVars
<1> QED
  BY <1>1, <1>2, <1>4, <1>5, <1>6, <1>7, <1>8, <1>9, <1>10, <1>11, <1>12, <1>13 DEF Next

\* A call that is run finds its entity, in every step.
LEMMA FindsStep ==
  ASSUME TablesInv, ClientsOK, CallFindsEntity, [Next]_vars
  PROVE  CallFindsEntity'
<1>1. ASSUME missed' = missed PROVE CallFindsEntity'
  BY <1>1 DEF CallFindsEntity
<1>2. ASSUME NEW c \in Clients, on_receive_call(c) PROVE missed' = missed
  <2>1. c \in Head(down[c]).knows => Head(down[c]).id \in DOMAIN mirror[c]
    BY <1>2, ClientsReceiveCall
  <2> QED BY <1>2, <2>1 DEF on_receive_call
<1>3. ASSUME NEW i, NEW size,
             invoke_broadcast(i, size) \/ invoke_owner(i, size) \/ invoke_not_owner(i, size)
               \/ \E c \in Clients : invoke_client(c, i, size)
      PROVE  missed' = missed
  BY <1>3 DEF invoke_broadcast, invoke_owner, invoke_not_owner, invoke_client, send_rpc
<1>4. ASSUME NEW i, NEW p, NEW b, NEW o, NEW size,
             destroy(i) \/ spawn(p, b) \/ set_owner(i, o) \/ invoke_broadcast_oversized(size)
      PROVE  missed' = missed
  BY <1>4 DEF destroy, spawn, set_owner, invoke_broadcast_oversized, CallVars
<1>5. ASSUME NEW c,
             \/ send_full_state_to_client(c) \/ join(c) \/ leave(c) \/ on_receive_spawn(c)
             \/ on_receive_destroy(c) \/ receive_empty(c)
      PROVE  missed' = missed
  BY <1>5 DEF send_full_state_to_client, join, leave, on_receive_spawn, on_receive_destroy,
              receive_empty, CallVars
<1>6. ASSUME UNCHANGED vars PROVE missed' = missed
  BY <1>6 DEF vars
<1> QED BY <1>1, <1>2, <1>3, <1>4, <1>5, <1>6 DEF Next

\* No call is made at first.
LEMMA CallsInit == Init => CallsOK /\ CallFindsEntity
BY DEF Init, CallsOK, Addressed, Waits, WaitInOrder, CallFindsEntity

\* What is on its way to a client are the calls that invoke_client, invoke_broadcast,
\* invoke_owner and invoke_not_owner of rpc_manager.cpp made for it in its connection and
\* that its RpcManager was not handed yet, each once and in order, whatever spawns, joins
\* and leaves happen in between and whatever the client refuses of what it was handed.
THEOREM CallsAddressedHolds == Spec => []CallsAddressed
<1>1. Init => TablesInv /\ CallsOK
  BY TablesInit, CallsInit
<1>2. TablesInv /\ CallsOK /\ [Next]_vars => TablesInv' /\ CallsOK'
  BY TablesStep, CallsStep
<1>3. TablesInv /\ CallsOK => CallsAddressed
  BY AddressedIsCallsAddressed DEF TablesInv, CallsOK, Approved
<1> QED BY <1>1, <1>2, <1>3, PTL DEF Spec

\* Calls are handed to those they are for, once and in order, and a client to which the server had
\* sent what it takes to know an entity finds it when it runs a call about it, however
\* late: with a new manager for each connection and limits that agree.
THEOREM CallsInvHolds ==
  FreshManagers /\ LimitsAgree => (Spec => []CallsInv)
<1> SUFFICES ASSUME FreshManagers, LimitsAgree PROVE Spec => []CallsInv
  OBVIOUS
<1>1. EntInv /\ CallsOK /\ CallFindsEntity /\ [Next]_vars
        => EntInv' /\ CallsOK' /\ CallFindsEntity'
  BY TablesStep, ServerLimitStep, ClientsStep, NamesStep, CallsStep, FindsStep DEF EntInv
<1>2. EntInv /\ CallsOK /\ CallFindsEntity => CallsInv
  BY AddressedIsCallsAddressed DEF EntInv, TablesInv, CallsOK, CallsInv, Approved
<1> QED BY <1>1, <1>2, EntInit, CallsInit, PTL DEF Spec
=============================================================================
