----------------------- MODULE NetworkSession_proofs -----------------------
(***************************************************************************)
(* What the server's client list never becomes, for every number of peers, *)
(* slots and messages and every loss, restart and replay.                  *)
(***************************************************************************)
EXTENDS NetworkSession, FiniteSetTheorems, SequenceTheorems, WellFoundedInduction, TLAPS

FiniteClients == IsFiniteSet(clients)

\* Every set of naturals that is not empty has a least member.
LEMMA LeastMember ==
  ASSUME NEW T, T \subseteq Nat, T # {}
  PROVE  \E x \in T : \A y \in T : x <= y
<1> DEFINE R == OpToRel(<, Nat)
<1>1. IsWellFoundedOn(R, Nat)
  BY NatLessThanWellFounded
<1>2. \E x \in T : \A y \in T : ~ (<<y, x>> \in R)
  <2> HIDE DEF R
  <2> QED BY <1>1, WFMin
<1>3. PICK x \in T : \A y \in T : ~ (<<y, x>> \in R)
  BY <1>2
<1>4. \A y \in T : ~ (y < x)
  BY <1>3 DEF OpToRel
<1>5. \A y \in T : x \in Nat /\ y \in Nat
  OBVIOUS
<1> HIDE DEF R
<1>6. \A y \in T : x <= y
  BY <1>4, <1>5
<1> QED
  BY <1>6

\* As many ids are in use as there are clients, at most.
LEMMA IdsBounded ==
  ASSUME FiniteClients
  PROVE  IsFiniteSet(Ids) /\ Cardinality(Ids) <= Cardinality(clients)
<1> DEFINE f == [e \in clients |-> e.id]
<1>1. f \in Surjection(clients, Ids)
  BY DEF Surjection, Ids
<1> HIDE DEF f
<1> QED
  BY <1>1, FS_Surjection DEF FiniteClients

\* generate_client_id() finds an id that no client has: there is one more
\* candidate than there are clients.
LEMMA GeneratedIsFree ==
  ASSUME FiniteClients
  PROVE  generate_client_id \in ClientId /\ generate_client_id \notin Ids
<1> DEFINE n == Cardinality(clients)
           C == 1 .. n + 1
           T == {i \in C : i \notin Ids}
<1>1. n \in Nat
  BY FS_CardinalityType DEF FiniteClients
<1>2. IsFiniteSet(Ids) /\ Cardinality(Ids) <= n /\ Cardinality(Ids) \in Nat
  BY IdsBounded, FS_CardinalityType
<1>3. Cardinality(C) = n + 1
  BY <1>1, FS_Interval
<1>4. T # {}
  <2> SUFFICES ASSUME T = {} PROVE FALSE
    OBVIOUS
  <2>1. C \in SUBSET Ids
    OBVIOUS
  <2>2. Cardinality(C) <= Cardinality(Ids)
    <3> HIDE DEF C
    <3> QED BY <2>1, <1>2, FS_Subset
  <2> QED
    BY <2>2, <1>1, <1>2, <1>3
<1>5. PICK i \in T : \A j \in T : i <= j
  <2>1. T \subseteq Nat
    BY <1>1
  <2> HIDE DEF T
  <2> QED BY <1>4, <2>1, LeastMember
<1>6. i \in C /\ i \notin Ids /\ \A j \in 1 .. i - 1 : j \in Ids
  <2>1. ASSUME NEW j \in 1 .. i - 1 PROVE j \in C /\ ~ (i <= j)
    BY <1>1, <1>5
  <2> QED
    BY <1>5, <2>1
<1>7. generate_client_id \in C /\ generate_client_id \notin Ids
  BY <1>6 DEF generate_client_id
<1> QED
  BY <1>1, <1>7 DEF ClientId
-----------------------------------------------------------------------------
(* The steps, by what they do to the client list.                          *)

Unlisted == UNCHANGED <<clients, announced, active, stops>>
Removes(id) == remove_client(id) /\ UNCHANGED <<active, stops>>
Adds(p) ==
  add_client([id |-> generate_client_id, peer |-> p]) /\ UNCHANGED <<active, stops>>
Accepts(p) == ~ known(p) /\ ~ full /\ Adds(p)

\* Handling a received message accepts its sender, removes it, or leaves the
\* list alone.
LEMMA ReceiveStep ==
  ASSUME NEW p \in Peers, NEW d \in up[p].net, NEW ok \in BOOLEAN,
         server_receive(p, d, ok)
  PROVE  Unlisted \/ Removes(IdOf(p)) \/ Accepts(p)
<1>0. UNCHANGED <<active, stops>>
  BY DEF server_receive, bounds, on_connect_request, on_disconnect_notify, on_oversized,
         on_user_data, ignore_unknown, server
<1>1. CASE on_connect_request(p, ok)
  BY <1>0, <1>1 DEF on_connect_request, Unlisted, Accepts, Adds
<1>2. CASE on_disconnect_notify(p) \/ on_oversized(p)
  BY <1>0, <1>2 DEF on_disconnect_notify, on_oversized, Removes
<1>3. CASE ignore_unknown(p) \/ on_user_data(p, d.msg, ok)
  BY <1>0, <1>3 DEF ignore_unknown, on_user_data, server, Unlisted
<1> QED
  BY <1>1, <1>2, <1>3 DEF server_receive

LEMMA ClientsStep ==
  ASSUME [Next]_vars
  PROVE  \/ Unlisted
         \/ \E id : Removes(id)
         \/ Adds(Local)
         \/ \E p \in Peers : Accepts(p)
         \/ stop
         \/ start
<1>1. CASE \/ \E p \in Peers : lose_at_server(p) \/ lose_at_peer(p)
           \/ \E p \in Peers : bye_at_server(p) \/ bye_at_peer(p)
           \/ pop_message
           \/ \E e \in clients : send_to_client(e)
  BY <1>1 DEF lose_at_server, lose_at_peer, bye_at_server, bye_at_peer, pop_message,
              send_to_client, server, bounds, Unlisted
<1>2. CASE \/ \E p \in Peers : ClientReceives(p)
           \/ \E p \in Peers : start_client(p)
           \/ \E p \in Peers, msg \in {"data", "big"} : send(p, msg)
           \/ \E p \in Peers, first \in {<< >>, <<"notify_byte">>} : stop_client(p, first)
           \/ UNCHANGED vars
  BY <1>2, ZenonT(30) DEF ClientReceives, client_receive, start_client, send, stop_client, vars,
              server, bounds, Unlisted
<1>3. CASE \E p \in Peers : ServerReceives(p)
  BY <1>3, ReceiveStep DEF ServerReceives
<1>4. CASE add_local_client
  BY <1>4 DEF add_local_client, Adds
<1>5. CASE \E e \in clients : disconnect_client(e)
  BY <1>5 DEF disconnect_client, bounds, Removes
<1> QED
  BY <1>1, <1>2, <1>3, <1>4, <1>5 DEF Next

LEMMA HostFinite == IsFiniteSet(HostClients)
BY FS_EmptySet, FS_Singleton DEF HostClients

\* The list stays finite.
LEMMA FiniteStep ==
  ASSUME FiniteClients, [Next]_vars
  PROVE  FiniteClients'
<1>2. ASSUME NEW e PROVE IsFiniteSet(clients \cup {e})
  BY FS_AddElement DEF FiniteClients
<1>3. ASSUME clients' \in SUBSET clients PROVE FiniteClients'
  BY <1>3, FS_Subset DEF FiniteClients
<1>4. CASE Unlisted \/ (\E id : Removes(id)) \/ stop
  BY <1>3, <1>4 DEF Unlisted, Removes, remove_client, stop
<1>5. CASE Adds(Local) \/ (\E p \in Peers : Accepts(p))
  BY <1>2, <1>5 DEF Adds, Accepts, add_client, FiniteClients
<1>6. CASE start
  BY <1>6, HostFinite DEF start, FiniteClients
<1> QED
  BY <1>4, <1>5, <1>6, ClientsStep

LEMMA FiniteInit == Init => FiniteClients
BY HostFinite DEF Init, FiniteClients

-----------------------------------------------------------------------------
(* Properties.                                                             *)

\* An id names one client and a remote address has one entry: whatever
\* requests are replayed and whoever leaves, generate_client_id() and
\* find_client_by_address() keep the entries of the list apart.
THEOREM EntriesDistinctHolds == Spec => []EntriesDistinct
<1>1. Init => EntriesDistinct
  BY DEF Init, EntriesDistinct, HostClients
<1>2. ASSUME FiniteClients, EntriesDistinct, [Next]_vars
      PROVE  EntriesDistinct'
  <2>1. CASE Unlisted \/ (\E id : Removes(id)) \/ stop
    BY <1>2, <2>1 DEF Unlisted, Removes, remove_client, stop, EntriesDistinct
  <2>2. CASE Adds(Local)
    BY <1>2, <2>2, GeneratedIsFree DEF Adds, add_client, Ids, EntriesDistinct
  <2>3. ASSUME NEW p \in Peers, Accepts(p)
        PROVE  EntriesDistinct'
    BY <1>2, <2>3, GeneratedIsFree
       DEF Accepts, known, EntriesOf, Adds, add_client, Ids, EntriesDistinct
  <2>4. CASE start
    BY <2>4 DEF start, HostClients, EntriesDistinct
  <2> QED
    BY <1>2, <2>1, <2>2, <2>3, <2>4, ClientsStep
<1> QED
  BY <1>1, <1>2, FiniteInit, FiniteStep, PTL DEF Spec

\* Remote clients never exceed max_clients, however requests compete with each
\* other and with local clients.
THEOREM SlotsBoundedHolds == Spec => []SlotsBounded
<1> DEFINE Remote == {e \in clients : e.peer # Local}
<1>1. Init => SlotsBounded
  <2> SUFFICES ASSUME Init PROVE SlotsBounded
    OBVIOUS
  <2>1. Remote = {}
    BY DEF Init, HostClients, HostEntry
  <2> QED
    BY <2>1, FS_EmptySet, BoundAssumption DEF SlotsBounded
<1>2. ASSUME FiniteClients, SlotsBounded, [Next]_vars
      PROVE  SlotsBounded'
  <2>0. /\ IsFiniteSet(Remote) /\ Cardinality(Remote) \in Nat
        /\ Cardinality(Remote) <= Cardinality(clients) /\ Cardinality(clients) \in Nat
    <3>1. Remote \in SUBSET clients
      OBVIOUS
    <3> HIDE DEF Remote
    <3> QED BY <1>2, <3>1, FS_Subset, FS_CardinalityType DEF FiniteClients
  <2>1. ASSUME Remote' \in SUBSET Remote PROVE SlotsBounded'
    <3>1. Cardinality(Remote') <= Cardinality(Remote) /\ Cardinality(Remote') \in Nat
      <4>1. ASSUME NEW T \in SUBSET Remote
            PROVE  Cardinality(T) <= Cardinality(Remote) /\ Cardinality(T) \in Nat
        <5> HIDE DEF Remote
        <5> QED BY <2>0, FS_Subset, FS_CardinalityType
      <4> QED BY <2>1, <4>1
    <3> QED
      BY <1>2, <2>0, <3>1, BoundAssumption DEF SlotsBounded
  <2>2. CASE Unlisted \/ (\E id : Removes(id)) \/ stop \/ start \/ Adds(Local)
    <3>1. \A e \in clients' : e \in clients \/ e.peer = Local
      <4>1. CASE Unlisted \/ (\E id : Removes(id)) \/ stop
        BY <4>1 DEF Unlisted, Removes, remove_client, stop
      <4>2. CASE start
        BY <4>2 DEF start, HostClients, HostEntry
      <4>3. CASE Adds(Local)
        BY <4>3 DEF Adds, add_client
      <4> QED
        BY <2>2, <4>1, <4>2, <4>3
    <3>2. Remote' \in SUBSET Remote
      BY <3>1
    <3> HIDE DEF Remote
    <3> QED BY <2>1, <3>2
  <2>3. ASSUME NEW p \in Peers, Accepts(p)
        PROVE  SlotsBounded'
    <3> DEFINE e == [id |-> generate_client_id, peer |-> p]
    <3>1. Cardinality(clients) < MaxClients
      BY <2>0, <2>3, BoundAssumption DEF Accepts, full
    <3>2. Remote' = Remote \cup {e}
      BY <2>3, LocalAssumption DEF Accepts, Adds, add_client
    <3>3. Cardinality(Remote \cup {e}) <= Cardinality(Remote) + 1
      <4> HIDE DEF Remote, e
      <4> QED BY <2>0, FS_AddElement
    <3>4. Cardinality(Remote \cup {e}) \in Nat
      <4> HIDE DEF Remote, e
      <4> QED BY <2>0, FS_AddElement
    <3>5. Cardinality(Remote \cup {e}) <= MaxClients
      <4> HIDE DEF Remote, e
      <4> QED BY <2>0, <3>1, <3>3, <3>4, BoundAssumption
    <3> QED
      BY <3>2, <3>5 DEF SlotsBounded
  <2> QED
    BY <1>2, <2>2, <2>3, ClientsStep
<1> QED
  BY <1>1, <1>2, FiniteInit, FiniteStep, PTL DEF Spec

\* While the server is not stopped, the application has been told of exactly
\* the clients there are: each place that adds or removes one calls back.
THEOREM CallbacksTrackClientsHold ==
  ASSUME MaxStops = 0
  PROVE  Spec => []CallbacksTrackClients
<1> DEFINE Inv == CallbacksTrackClients /\ active /\ stops = 0
<1>1. Init => Inv
  <2>1. HostEntry.id = 1
    BY DEF HostEntry
  <2>2. {e.id : e \in HostClients} = HostIds
    <3>1. CASE Host
      BY <2>1, <3>1 DEF HostClients, HostIds
    <3>2. CASE ~ Host
      BY <3>2 DEF HostClients, HostIds
    <3> QED
      BY <3>1, <3>2
  <2> QED
    BY <2>2 DEF Init, CallbacksTrackClients, Ids
<1>2. ASSUME Inv, [Next]_vars
      PROVE  Inv'
  <2>1. CASE Unlisted
    BY <1>2, <2>1 DEF Unlisted, CallbacksTrackClients, Ids
  <2>2. CASE \E id : Removes(id)
    BY <1>2, <2>2 DEF Removes, remove_client, CallbacksTrackClients, Ids
  <2>3. CASE Adds(Local) \/ (\E p \in Peers : Accepts(p))
    BY <1>2, <2>3, ZenonT(30) DEF Accepts, Adds, add_client, CallbacksTrackClients, Ids
  <2>4. CASE stop \/ start
    BY <1>2, <2>4 DEF stop, start
  <2> QED
    BY <1>2, <2>1, <2>2, <2>3, <2>4, ClientsStep
<1> QED
  BY <1>1, <1>2, PTL DEF Spec

-----------------------------------------------------------------------------
(* Type correctness.                                                       *)

\* What sending does to one direction of a connection.
LEMMA SentType ==
  ASSUME NEW M, NEW s \in Stream(M), NEW ms \in Seq(M)
  PROVE  /\ Sent(s, ms) \in Stream(M)
         /\ Sent(s, ms).net = s.net \cup {[pos |-> s.sent + i, msg |-> ms[i]] :
                                            i \in DOMAIN ms}
         /\ Sent(s, ms).sent = s.sent + Len(ms)
         /\ Sent(s, ms).rcvd = s.rcvd
         /\ Sent(s, ms).bye = s.bye
  <1>1. s.sent \in Nat /\ Len(ms) \in Nat /\ DOMAIN ms = 1 .. Len(ms)
    BY DEF Stream
  <1>2. \A i \in DOMAIN ms : [pos |-> s.sent + i, msg |-> ms[i]] \in [pos : Nat, msg : M]
    BY <1>1
  <1> DEFINE N == {[pos |-> s.sent + i, msg |-> ms[i]] : i \in DOMAIN ms}
  <1>3. N \subseteq [pos : Nat, msg : M]
    BY <1>2
  <1> HIDE DEF N
  <1>4. Sent(s, ms) = [s EXCEPT !.net = @ \cup N, !.sent = @ + Len(ms)]
    BY DEF Sent, N
  <1>5. /\ Sent(s, ms) \in Stream(M)
        /\ Sent(s, ms).net = s.net \cup N
        /\ Sent(s, ms).sent = s.sent + Len(ms)
        /\ Sent(s, ms).rcvd = s.rcvd
        /\ Sent(s, ms).bye = s.bye
    <2>1. /\ s = [net |-> s.net, sent |-> s.sent, rcvd |-> s.rcvd, bye |-> s.bye]
          /\ s.net \subseteq [pos : Nat, msg : M]
          /\ s.rcvd \in Nat /\ s.bye \in BOOLEAN
      BY DEF Stream
    <2>2. Sent(s, ms) = [net |-> s.net \cup N, sent |-> s.sent + Len(ms),
                         rcvd |-> s.rcvd, bye |-> s.bye]
      BY <1>4, <2>1
    <2>3. s.sent + Len(ms) \in Nat /\ s.net \cup N \in SUBSET [pos : Nat, msg : M]
      BY <1>1, <1>3, <2>1
    <2>4. Sent(s, ms) \in Stream(M)
      BY <2>1, <2>2, <2>3 DEF Stream
    <2> QED
      BY <2>2, <2>4
  <1> QED
    BY <1>5 DEF N

\* The literal messages are messages.
LEMMA Literals ==
  /\ \A t \in {"ConnectReject", "DisconnectNotify", "data"} :
       /\ sys(t) \in DownMessage
       /\ <<sys(t)>> \in Seq(DownMessage)
       /\ Len(<<sys(t)>>) = 1
  /\ reject \in Seq(DownMessage) /\ Len(reject) = 2
  /\ \A i \in Nat : /\ accept(i) \in DownMessage
                    /\ <<accept(i)>> \in Seq(DownMessage)
                    /\ Len(<<accept(i)>>) = 1
  /\ \A m \in UpMessage : <<m>> \in Seq(UpMessage) /\ Len(<<m>>) = 1
  <1>1. \A t \in {"ConnectReject", "DisconnectNotify", "data"} : sys(t) \in DownMessage
    BY DEF sys, DownMessage
  <1>2. \A i \in Nat : accept(i) \in DownMessage
    BY DEF accept, DownMessage
  <1>3. reject \in Seq(DownMessage) /\ Len(reject) = 2
    BY <1>1 DEF reject
  <1> QED
    BY <1>1, <1>2, <1>3

\* A known address has an entry, and IdOf names it.
LEMMA KnownEntry ==
  ASSUME NEW p, known(p)
  PROVE  \E e \in clients : e.peer = p /\ e.id = IdOf(p)
  BY DEF known, EntriesOf, IdOf

LEMMA SentDownType ==
  ASSUME TypeOK, NEW p \in Peers, NEW ms \in Seq(DownMessage)
  PROVE  SentDown(p, ms) \in [Peers -> Stream(DownMessage)]
  <1>1. Sent(down[p], ms) \in Stream(DownMessage)
    BY SentType DEF TypeOK
  <1> QED
    BY <1>1 DEF SentDown, TypeOK

\* Adding and removing an entry.
LEMMA ListTypes ==
  ASSUME TypeOK, FiniteClients
  PROVE  /\ \A p \in Peers \cup {Local} :
              add_client([id |-> generate_client_id, peer |-> p]) =>
                /\ clients' \subseteq ClientEntry
                /\ announced' \subseteq ClientId
                /\ replicated' \subseteq ClientId
         /\ \A id : remove_client(id) => /\ clients' \subseteq ClientEntry
                                         /\ announced' \subseteq ClientId
                                         /\ replicated' \subseteq ClientId
  <1>1. generate_client_id \in ClientId
    BY GeneratedIsFree
  <1>2. \A p \in Peers \cup {Local} : [id |-> generate_client_id, peer |-> p] \in ClientEntry
    BY <1>1 DEF ClientEntry
  <1>3. /\ clients \subseteq ClientEntry /\ announced \subseteq ClientId
        /\ replicated \subseteq ClientId
    BY DEF TypeOK
  <1> QED
    BY <1>1, <1>2, <1>3 DEF add_client, remove_client

\* What the server does with a message keeps the types.
LEMMA ReceiveType ==
  ASSUME TypeOK, FiniteClients, NEW p \in Peers, NEW d \in up[p].net, NEW ok \in BOOLEAN,
         server_receive(p, d, ok)
  PROVE  TypeOK'
<1>1. d.pos \in Nat /\ d.msg \in UpMessage /\ up[p] \in Stream(UpMessage)
        /\ down[p] \in Stream(DownMessage)
  BY SMTT(30) DEF TypeOK, Stream
<1>2. up' \in [Peers -> Stream(UpMessage)]
  <2>1. [up[p] EXCEPT !.rcvd = d.pos] \in Stream(UpMessage)
    BY <1>1 DEF Stream
  <2> QED
    BY <2>1 DEF server_receive, TypeOK
<1>3. conn' \in [Peers -> BOOLEAN]
  BY DEF server_receive, TypeOK
<1>4. /\ peer' \in [Peers -> Peer] /\ losses' \in 0 .. MaxLosses
      /\ locals' \in 0 .. MaxLocals /\ stops' \in 0 .. MaxStops /\ lost' \subseteq Peers
  BY DEF server_receive, TypeOK, bounds
<1> DEFINE Rest == /\ active' \in BOOLEAN
                   /\ clients' \subseteq ClientEntry
                   /\ host_id' \in Nat
                   /\ message_queue' \in
                        Seq([client : ClientId, payload : UpMessage, from : Peers])
                   /\ announced' \subseteq ClientId
                   /\ replicated' \subseteq ClientId
                   /\ down' \in [Peers -> Stream(DownMessage)]
<1>5. \A ms \in Seq(DownMessage) :
         [down EXCEPT ![p] = Sent(@, ms)] \in [Peers -> Stream(DownMessage)]
  BY <1>1, SentType DEF TypeOK
<1>k. known(p) => IdOf(p) \in ClientId
  BY KnownEntry DEF TypeOK, ClientEntry
<1>g. generate_client_id \in ClientId
  BY GeneratedIsFree
<1>i. \A i \in ClientId : i \in Nat
  BY DEF ClientId
<1>6. CASE on_connect_request(p, ok)
  <2>1. ASSUME known(p) PROVE Rest
    <3>1. <<accept(IdOf(p))>> \in Seq(DownMessage)
      BY <1>i, <1>k, <2>1, Literals
    <3>2. down' \in [Peers -> Stream(DownMessage)]
      BY <1>5, <1>6, <2>1, <3>1 DEF on_connect_request
    <3> QED
      BY <1>6, <2>1, <3>2 DEF on_connect_request, TypeOK
  <2>2. ASSUME ~ known(p) /\ ok /\ ~ full PROVE Rest
    <3>1. <<accept(generate_client_id)>> \in Seq(DownMessage)
      BY <1>g, <1>i, Literals
    <3>2. down' \in [Peers -> Stream(DownMessage)]
      BY <1>5, <1>6, <2>2, <3>1 DEF on_connect_request
    <3>3. add_client([id |-> generate_client_id, peer |-> p])
      BY <1>6, <2>2 DEF on_connect_request
    <3> QED
      BY <1>6, <3>2, <3>3, ListTypes DEF on_connect_request, TypeOK
  <2>3. ASSUME ~ known(p) /\ ~ (ok /\ ~ full) PROVE Rest
    <3>1. down' \in [Peers -> Stream(DownMessage)]
      BY <1>5, <1>6, <2>3, Literals DEF on_connect_request
    <3> QED
      BY <1>6, <2>3, <3>1 DEF on_connect_request, TypeOK
  <2>4. Rest
    BY <2>1, <2>2, <2>3
  <2> QED
    BY <1>2, <1>3, <1>4, <2>4 DEF TypeOK
<1>7. CASE on_disconnect_notify(p)
  <2>1. Rest
    BY <1>7, ListTypes DEF on_disconnect_notify, TypeOK
  <2> QED
    BY <1>2, <1>3, <1>4, <2>1 DEF TypeOK
<1>8. CASE on_oversized(p)
  <2>1. down' \in [Peers -> Stream(DownMessage)]
    BY <1>5, <1>8, Literals DEF on_oversized
  <2>2. Rest
    BY <1>8, <2>1, ListTypes DEF on_oversized, TypeOK
  <2> QED
    BY <1>2, <1>3, <1>4, <2>2 DEF TypeOK
<1>9. CASE on_user_data(p, d.msg, ok)
  <2> DEFINE m == [client |-> IdOf(p), payload |-> d.msg, from |-> p]
             M == [client : ClientId, payload : UpMessage, from : Peers]
  <2>1. m \in M
    BY <1>1, <1>9, <1>k DEF on_user_data
  <2>2. message_queue' = Append(message_queue, m) \/ message_queue' = message_queue
    BY <1>9 DEF on_user_data
  <2>3. message_queue \in Seq(M)
    BY DEF TypeOK
  <2>4. message_queue' \in Seq(M)
    <3> HIDE DEF m, M
    <3> QED BY <2>1, <2>2, <2>3, AppendProperties
  <2>5. Rest
    BY <1>9, <2>4 DEF on_user_data, TypeOK
  <2> QED
    BY <1>2, <1>3, <1>4, <2>5 DEF TypeOK
<1>10. CASE ignore_unknown(p)
  <2>1. Rest
    BY <1>10 DEF ignore_unknown, server, TypeOK
  <2> QED
    BY <1>2, <1>3, <1>4, <2>1 DEF TypeOK
<1> QED
  BY <1>6, <1>7, <1>8, <1>9, <1>10 DEF server_receive

\* Only the peer changes and the two directions of its connection.
LEMMA PeerTypes ==
  ASSUME TypeOK, NEW p \in Peers, NEW x \in Peer,
         NEW u \in Stream(UpMessage), NEW d \in Stream(DownMessage),
         peer' = [peer EXCEPT ![p] = x], up' = [up EXCEPT ![p] = u],
         down' = [down EXCEPT ![p] = d],
         conn' \in [Peers -> BOOLEAN], losses' \in 0 .. MaxLosses,
         lost' \subseteq Peers, UNCHANGED <<server, locals, stops>>
  PROVE  TypeOK'
  BY DEF TypeOK, server

\* Setting the fields of one direction keeps its type.
LEMMA StreamTypes ==
  ASSUME NEW M, NEW s \in Stream(M)
  PROVE  /\ [s EXCEPT !.sent = 0] \in Stream(M)
         /\ \A n \in Nat : [s EXCEPT !.rcvd = n] \in Stream(M)
         /\ \A b \in BOOLEAN : [s EXCEPT !.bye = b] \in Stream(M)
         /\ \A l : Closed(s, l) \in Stream(M)
         /\ \A b \in BOOLEAN : /\ [s EXCEPT !.rcvd = 0, !.bye = b] \in Stream(M)
                               /\ [s EXCEPT !.sent = 0, !.bye = b] \in Stream(M)
  <1>1. s.bye \in BOOLEAN
    BY DEF Stream
  <1>2. \A l : (s.bye \/ l = "Open") \in BOOLEAN
    BY <1>1
  <1>3. \A b \in BOOLEAN : [s EXCEPT !.bye = b] \in Stream(M)
    BY DEF Stream
  <1>4. \A l : Closed(s, l) \in Stream(M)
    BY <1>2, <1>3 DEF Closed
  <1> QED
    BY <1>3, <1>4 DEF Stream

\* A client's handler keeps the types.
LEMMA ClientReceiveType ==
  ASSUME TypeOK, NEW p \in Peers, NEW d \in down[p].net, client_receive(p, d)
  PROVE  TypeOK'
<1>1. d.pos \in Nat /\ d.msg \in DownMessage /\ d.msg.id \in Nat
        /\ up[p] \in Stream(UpMessage) /\ down[p] \in Stream(DownMessage)
        /\ peer[p] \in Peer
  BY DEF TypeOK, Stream, DownMessage
<1>2. [down[p] EXCEPT !.rcvd = d.pos] \in Stream(DownMessage)
  BY <1>1, StreamTypes
<1>3. down' = [down EXCEPT ![p] = [down[p] EXCEPT !.rcvd = d.pos]]
  BY DEF client_receive
<1>4. Closed(up[p], "Open") \in Stream(UpMessage)
  BY <1>1, StreamTypes
<1>5. UNCHANGED <<server, locals, stops, lost>> /\ conn' = conn /\ losses' = losses
  BY DEF client_receive, bounds
<1>6. conn' \in [Peers -> BOOLEAN] /\ losses' \in 0 .. MaxLosses /\ lost' \subseteq Peers
  BY <1>5 DEF TypeOK
<1>7. /\ Append(peer[p].callbacks, "connected") \in Seq({"connected", "disconnected"})
      /\ Append(peer[p].callbacks, "disconnected") \in Seq({"connected", "disconnected"})
  <2>1. peer[p].callbacks \in Seq({"connected", "disconnected"})
    BY <1>1 DEF Peer
  <2> DEFINE S == {"connected", "disconnected"}
  <2>2. "connected" \in S /\ "disconnected" \in S
    OBVIOUS
  <2>3. \A c \in Seq(S), e \in S : Append(c, e) \in Seq(S)
    <3> HIDE DEF S
    <3> QED
      BY AppendProperties
  <2> QED
    BY <2>1, <2>2, <2>3
<1>u. UNCHANGED up => up' = [up EXCEPT ![p] = up[p]]
  BY DEF TypeOK
<1>8. CASE on_connect_accept(p, d.msg.id)
  <2> DEFINE x == [peer[p] EXCEPT !.link = "Open", !.local_client_id = d.msg.id,
                     !.client_connected = TRUE, !.awaiting_accept = FALSE,
                     !.callbacks = Append(@, "connected")]
  <2>1. x \in Peer
    BY <1>1, <1>7 DEF Peer
  <2>2. peer' = [peer EXCEPT ![p] = x] /\ up' = [up EXCEPT ![p] = up[p]]
    BY <1>8, <1>u DEF on_connect_accept
  <2> HIDE DEF x
  <2> QED
    BY <1>1, <1>2, <1>3, <1>5, <1>6, <2>1, <2>2, PeerTypes
<1>9. CASE on_connect_reject(p)
  <2> DEFINE x == [peer[p] EXCEPT !.link = "None", !.awaiting_accept = FALSE,
                     !.client_connected = FALSE]
  <2>1. x \in Peer
    BY <1>1 DEF Peer
  <2>2. peer' = [peer EXCEPT ![p] = x] /\ up' = [up EXCEPT ![p] = Closed(up[p], "Open")]
    BY <1>9 DEF on_connect_reject
  <2> HIDE DEF x
  <2> QED
    BY <1>2, <1>3, <1>4, <1>5, <1>6, <2>1, <2>2, PeerTypes
<1>10. CASE on_server_disconnect(p)
  <2> DEFINE x == [peer[p] EXCEPT !.link = "None", !.client_connected = FALSE,
                     !.local_client_id = 0, !.callbacks = Append(@, "disconnected")]
  <2>1. x \in Peer
    BY <1>1, <1>7 DEF Peer
  <2>2. peer' = [peer EXCEPT ![p] = x] /\ up' = [up EXCEPT ![p] = Closed(up[p], "Open")]
    BY <1>10 DEF on_server_disconnect
  <2> HIDE DEF x
  <2> QED
    BY <1>2, <1>3, <1>4, <1>5, <1>6, <2>1, <2>2, PeerTypes
<1>11. CASE on_server_data(p)
  <2> DEFINE n == peer[p].data + 1
             x == [peer[p] EXCEPT !.link = "Open", !.data = n]
  <2>0. n \in Nat
    BY <1>1 DEF Peer
  <2> HIDE DEF n
  <2>1. x \in Peer
    BY <1>1, <2>0 DEF Peer
  <2> USE DEF n
  <2>2. peer' = [peer EXCEPT ![p] = x] /\ up' = [up EXCEPT ![p] = up[p]]
    BY <1>11, <1>u DEF on_server_data
  <2> HIDE DEF x
  <2> QED
    BY <1>1, <1>2, <1>3, <1>5, <1>6, <2>1, <2>2, PeerTypes
<1> QED
  BY <1>1, <1>8, <1>9, <1>10, <1>11 DEF client_receive, DownMessage

\* Losing a connection, at either end.
LEMMA LoseTypes ==
  ASSUME TypeOK, NEW p \in Peers,
         lose_at_server(p) \/ bye_at_server(p) \/ lose_at_peer(p) \/ bye_at_peer(p)
  PROVE  TypeOK'
<1>1. up[p] \in Stream(UpMessage) /\ down[p] \in Stream(DownMessage) /\ peer[p] \in Peer
  BY DEF TypeOK
<1>2. /\ losses' \in 0 .. MaxLosses /\ lost' \subseteq Peers
      /\ UNCHANGED <<server, locals, stops>>
  BY BoundAssumption
  DEF TypeOK, lose_at_server, bye_at_server, lose_at_peer, bye_at_peer, bounds
<1>3. CASE ServerForgets(p) /\ UNCHANGED peer
  <2>1. /\ [up[p] EXCEPT !.rcvd = 0, !.bye = FALSE] \in Stream(UpMessage)
        /\ [down[p] EXCEPT !.sent = 0] \in Stream(DownMessage)
    BY <1>1, StreamTypes
  <2>2. /\ up' = [up EXCEPT ![p] = [up[p] EXCEPT !.rcvd = 0, !.bye = FALSE]]
        /\ down' = [down EXCEPT ![p] = [down[p] EXCEPT !.sent = 0]]
        /\ peer' = [peer EXCEPT ![p] = peer[p]]
    BY <1>1, <1>3 DEF ServerForgets, TypeOK
  <2>3. conn' \in [Peers -> BOOLEAN]
    BY <1>3 DEF ServerForgets, TypeOK
  <2> QED
    BY <1>1, <1>2, <2>1, <2>2, <2>3, PeerTypes
<1>4. CASE /\ peer' = [peer EXCEPT ![p].link = "Lost"]
           /\ up' = [up EXCEPT ![p].sent = 0]
           /\ down' = [down EXCEPT ![p].rcvd = 0, ![p].bye = FALSE]
           /\ UNCHANGED conn
  <2>1. /\ [up[p] EXCEPT !.sent = 0] \in Stream(UpMessage)
        /\ [down[p] EXCEPT !.rcvd = 0, !.bye = FALSE] \in Stream(DownMessage)
    BY <1>1, StreamTypes
  <2>2. [peer[p] EXCEPT !.link = "Lost"] \in Peer
    BY <1>1 DEF Peer
  <2>3. /\ up' = [up EXCEPT ![p] = [up[p] EXCEPT !.sent = 0]]
        /\ down' = [down EXCEPT ![p] = [down[p] EXCEPT !.rcvd = 0, !.bye = FALSE]]
        /\ peer' = [peer EXCEPT ![p] = [peer[p] EXCEPT !.link = "Lost"]]
        /\ conn' \in [Peers -> BOOLEAN]
    BY <1>4 DEF TypeOK
  <2> QED
    BY <1>2, <2>1, <2>2, <2>3, PeerTypes
<1> QED
  BY <1>3, <1>4 DEF lose_at_server, bye_at_server, lose_at_peer, bye_at_peer

\* start(), send() and stop() of a client.
LEMMA ClientCallTypes ==
  ASSUME TypeOK, NEW p \in Peers,
         \/ start_client(p)
         \/ \E msg \in {"data", "big"} : send(p, msg)
         \/ \E first \in {<< >>, <<"notify_byte">>} : stop_client(p, first)
  PROVE  TypeOK'
<1>1. up[p] \in Stream(UpMessage) /\ down[p] \in Stream(DownMessage) /\ peer[p] \in Peer
  BY DEF TypeOK
<1>2. \A ms \in Seq(UpMessage) : Sent(up[p], ms) \in Stream(UpMessage)
  BY <1>1, SentType
<1>d. UNCHANGED down => down' = [down EXCEPT ![p] = down[p]]
  BY DEF TypeOK
<1>m. /\ <<"ConnectRequest">> \in Seq(UpMessage) /\ <<"data">> \in Seq(UpMessage)
      /\ <<"big">> \in Seq(UpMessage) /\ <<"DisconnectNotify">> \in Seq(UpMessage)
      /\ <<"notify_byte">> \in Seq(UpMessage) /\ << >> \in Seq(UpMessage)
  BY Literals DEF UpMessage
<1>3. CASE start_client(p)
  <2> DEFINE x == [peer[p] EXCEPT !.mode = "Client", !.link = "Open",
                     !.awaiting_accept = TRUE]
  <2>1. x \in Peer
    BY <1>1 DEF Peer
  <2>2. Sent(up[p], <<"ConnectRequest">>) \in Stream(UpMessage)
    BY <1>2, <1>m
  <2>3. /\ peer' = [peer EXCEPT ![p] = x]
        /\ up' = [up EXCEPT ![p] = Sent(up[p], <<"ConnectRequest">>)]
        /\ down' = [down EXCEPT ![p] = down[p]]
    BY <1>3, <1>d DEF start_client
  <2>4. /\ conn' \in [Peers -> BOOLEAN] /\ losses' \in 0 .. MaxLosses
        /\ UNCHANGED <<server, locals, stops>> /\ lost' \subseteq Peers
    BY <1>3 DEF start_client, TypeOK, bounds
  <2> HIDE DEF x
  <2> QED
    BY <1>1, <2>1, <2>2, <2>3, <2>4, PeerTypes
<1>4. ASSUME NEW msg \in {"data", "big"}, send(p, msg)
      PROVE  TypeOK'
  <2>1. Sent(up[p], <<msg>>) \in Stream(UpMessage)
    BY <1>2, <1>m
  <2>2. /\ peer' = [peer EXCEPT ![p] = peer[p]]
        /\ up' = [up EXCEPT ![p] = Sent(up[p], <<msg>>)]
        /\ down' = [down EXCEPT ![p] = down[p]]
    BY <1>4, <1>d DEF send, TypeOK
  <2>3. /\ conn' \in [Peers -> BOOLEAN] /\ losses' \in 0 .. MaxLosses
        /\ UNCHANGED <<server, locals, stops>> /\ lost' \subseteq Peers
    BY <1>4 DEF send, TypeOK, bounds
  <2> QED
    BY <1>1, <2>1, <2>2, <2>3, PeerTypes
<1>5. ASSUME NEW first \in {<< >>, <<"notify_byte">>}, stop_client(p, first)
      PROVE  TypeOK'
  <2> DEFINE x == [peer[p] EXCEPT !.mode = "None", !.client_connected = FALSE,
                     !.local_client_id = 0, !.awaiting_accept = FALSE, !.link = "None"]
             u == IF CanSend(p) THEN Sent(up[p], first \o <<"DisconnectNotify">>)
                                ELSE up[p]
  <2>1. x \in Peer
    BY <1>1 DEF Peer
  <2>2. first \o <<"DisconnectNotify">> \in Seq(UpMessage)
    BY <1>m, ConcatProperties
  <2>3. u \in Stream(UpMessage)
    BY <1>1, <1>2, <2>2
  <2>4. /\ peer' = [peer EXCEPT ![p] = x]
        /\ up' = [up EXCEPT ![p] = Closed(u, peer[p].link)]
        /\ down' = [down EXCEPT ![p] = down[p]]
    BY <1>5, <1>d DEF stop_client
  <2>5. /\ conn' \in [Peers -> BOOLEAN] /\ losses' \in 0 .. MaxLosses
        /\ UNCHANGED <<server, locals, stops>> /\ lost' \subseteq Peers
    BY <1>5 DEF stop_client, TypeOK, bounds
  <2> HIDE DEF x, u
  <2>6. Closed(u, peer[p].link) \in Stream(UpMessage)
    BY <2>3, StreamTypes
  <2> QED
    BY <1>1, <2>1, <2>4, <2>5, <2>6, PeerTypes
<1> QED
  BY <1>3, <1>4, <1>5

\* The calls of the server's application.
LEMMA ServerCallTypes ==
  ASSUME TypeOK, FiniteClients,
         \/ pop_message \/ add_local_client \/ stop \/ start
         \/ \E e \in clients : disconnect_client(e) \/ send_to_client(e)
  PROVE  TypeOK'
<1>1. CASE pop_message
  <2>1. message_queue' \in Seq([client : ClientId, payload : UpMessage, from : Peers])
    BY <1>1, HeadTailProperties DEF pop_message, TypeOK
  <2> QED
    BY <1>1, <2>1 DEF pop_message, TypeOK, bounds
<1>2. CASE add_local_client
  <2>1. /\ clients' \subseteq ClientEntry /\ announced' \subseteq ClientId
        /\ replicated' \subseteq ClientId
    BY <1>2, ListTypes DEF add_local_client
  <2>2. locals' \in 0 .. MaxLocals
    BY <1>2, BoundAssumption DEF add_local_client, TypeOK
  <2> QED
    BY <1>2, <2>1, <2>2 DEF add_local_client, TypeOK
<1>3. ASSUME NEW e \in clients, disconnect_client(e)
      PROVE  TypeOK'
  <2>1. /\ clients' \subseteq ClientEntry /\ announced' \subseteq ClientId
        /\ replicated' \subseteq ClientId
    BY <1>3, ListTypes DEF disconnect_client
  <2>2. e.peer \in Peers \cup {Local}
    BY DEF TypeOK, ClientEntry
  <2>3. <<sys("DisconnectNotify")>> \in Seq(DownMessage)
    BY Literals
  <2>4. down' \in [Peers -> Stream(DownMessage)]
    <3>1. CASE e.peer \in Peers
      <4>1. SentDown(e.peer, <<sys("DisconnectNotify")>>) \in [Peers -> Stream(DownMessage)]
        BY <2>3, <3>1, SentDownType
      <4>2. down \in [Peers -> Stream(DownMessage)]
        BY DEF TypeOK
      <4> QED
        BY <1>3, <4>1, <4>2 DEF disconnect_client
    <3>2. CASE e.peer = Local
      BY <1>3, <3>2 DEF disconnect_client, TypeOK
    <3> QED
      BY <2>2, <3>1, <3>2
  <2>5. host_id' \in Nat
    BY <1>3 DEF disconnect_client, TypeOK
  <2> QED
    BY <1>3, <2>1, <2>4, <2>5 DEF disconnect_client, TypeOK, bounds
<1>4. ASSUME NEW e \in clients, send_to_client(e)
      PROVE  TypeOK'
  <2>1. e.peer \in Peers
    BY <1>4 DEF TypeOK, ClientEntry, send_to_client
  <2>2. <<sys("data")>> \in Seq(DownMessage)
    BY Literals
  <2>3. down' \in [Peers -> Stream(DownMessage)]
    BY <1>4, <2>1, <2>2, SentDownType DEF send_to_client
  <2> QED
    BY <1>4, <2>3 DEF send_to_client, TypeOK, server, bounds
<1>5. CASE stop
  <2> DEFINE s(p) == IF conn[p] /\ known(p)
                       THEN Sent(down[p], <<sys("DisconnectNotify")>>) ELSE down[p]
  <2>1. ASSUME NEW p \in Peers
        PROVE  [s(p) EXCEPT !.sent = 0, !.bye = @ \/ conn[p]] \in Stream(DownMessage)
    <3>1. s(p) \in Stream(DownMessage)
      BY SentType, Literals DEF TypeOK
    <3>2. s(p).bye \in BOOLEAN /\ (s(p).bye \/ conn[p]) \in BOOLEAN
      BY <3>1 DEF Stream
    <3> HIDE DEF s
    <3> QED
      BY <3>1, <3>2, StreamTypes
  <2>2. ASSUME NEW p \in Peers
        PROVE  [up[p] EXCEPT !.rcvd = 0] \in Stream(UpMessage)
    BY StreamTypes DEF TypeOK
  <2>3. down' = [p \in Peers |-> [s(p) EXCEPT !.sent = 0, !.bye = @ \/ conn[p]]]
    BY <1>5 DEF stop
  <2> HIDE DEF s
  <2>4. down' \in [Peers -> Stream(DownMessage)]
    BY <2>1, <2>3
  <2>5. up' \in [Peers -> Stream(UpMessage)]
    BY <1>5, <2>2 DEF stop
  <2>6. conn' \in [Peers -> BOOLEAN]
    BY <1>5 DEF stop
  <2>7. stops' \in 0 .. MaxStops
    <3>1. stops \in 0 .. MaxStops /\ MaxStops \in Nat
      BY BoundAssumption DEF TypeOK
    <3>2. stops < MaxStops /\ stops' = stops + 1
      BY <1>5 DEF stop
    <3> QED
      BY <3>1, <3>2
  <2>8. \A S : << >> \in Seq(S)
    OBVIOUS
  <2>9. message_queue' \in Seq([client : ClientId, payload : UpMessage, from : Peers])
    BY <1>5, <2>8 DEF stop
  <2>10. /\ clients' \subseteq ClientEntry /\ host_id' \in Nat /\ active' \in BOOLEAN
         /\ lost' \subseteq Peers /\ UNCHANGED <<announced, replicated, peer, losses, locals>>
    BY <1>5 DEF stop, TypeOK
  <2> QED
    BY <2>4, <2>5, <2>6, <2>7, <2>9, <2>10 DEF TypeOK
<1>6. CASE start
  <2>1. HostClients \subseteq ClientEntry /\ HostIds \subseteq ClientId /\ HostId \in Nat
    BY DEF HostClients, HostIds, HostId, HostEntry, ClientEntry, ClientId
  <2> QED
    BY <1>6, <2>1 DEF start, TypeOK, bounds
<1> QED
  BY <1>1, <1>2, <1>3, <1>4, <1>5, <1>6

\* Every state the managers can reach is well formed, however requests, losses,
\* stops and restarts come together: ids are never 0, every queued message and
\* every entry names a peer, and the bounds are kept.
THEOREM TypeCorrect == Spec => []TypeOK
<1>1. Init => TypeOK
  <2> SUFFICES ASSUME Init
               PROVE  TypeOK
    OBVIOUS
  <2>1. HostClients \subseteq ClientEntry /\ HostIds \subseteq ClientId /\ HostId \in Nat
    BY DEF HostClients, HostIds, HostId, HostEntry, ClientEntry, ClientId
  <2>2. \A M : NewStream \in Stream(M)
    BY DEF NewStream, Stream
  <2>3. [mode |-> "Unstarted", client_connected |-> FALSE, local_client_id |-> 0,
         awaiting_accept |-> FALSE, link |-> "None", data |-> 0, callbacks |-> << >>]
           \in Peer
    BY DEF Peer
  <2>4. peer \in [Peers -> Peer] /\ up \in [Peers -> Stream(UpMessage)]
          /\ down \in [Peers -> Stream(DownMessage)] /\ conn \in [Peers -> BOOLEAN]
    BY <2>2, <2>3 DEF Init
  <2> QED
    BY <2>1, <2>4, BoundAssumption DEF Init, TypeOK
<1>2. ASSUME TypeOK, FiniteClients, [Next]_vars
      PROVE  TypeOK'
  <2>1. CASE UNCHANGED vars
    BY <1>2, <2>1 DEF TypeOK, vars, server, bounds
  <2>2. CASE \E p \in Peers : ServerReceives(p)
    BY <1>2, <2>2, ReceiveType DEF ServerReceives
  <2>3. CASE \E p \in Peers : ClientReceives(p)
    BY <1>2, <2>3, ClientReceiveType DEF ClientReceives
  <2> QED
    BY <1>2, <2>1, <2>2, <2>3, LoseTypes, ClientCallTypes, ServerCallTypes DEF Next
<1> QED
  BY <1>1, <1>2, FiniteInit, FiniteStep, PTL DEF Spec

-----------------------------------------------------------------------------
(* The replication manager.                                                *)

\* A host has the id of a local client, until that client is disconnected.
HostListed == host_id # 0 => \E e \in clients : e.id = host_id /\ e.peer = Local

\* The steps again, with what they do to the replicated ids and to host_id.
LEMMA ServingStep ==
  ASSUME [Next]_vars
  PROVE  \/ Unlisted /\ UNCHANGED <<replicated, host_id>>
         \/ \E p \in Peers : known(p) /\ Removes(IdOf(p)) /\ UNCHANGED host_id
         \/ \E e \in clients : disconnect_client(e)
         \/ \E q : Adds(q) /\ UNCHANGED host_id
         \/ stop
         \/ start
<1>1. CASE \/ \E p \in Peers : lose_at_server(p) \/ lose_at_peer(p)
           \/ \E p \in Peers : bye_at_server(p) \/ bye_at_peer(p)
           \/ pop_message
           \/ \E e \in clients : send_to_client(e)
  BY <1>1 DEF lose_at_server, lose_at_peer, bye_at_server, bye_at_peer, pop_message,
              send_to_client, server, bounds, Unlisted
<1>2. CASE \/ \E p \in Peers : ClientReceives(p)
           \/ \E p \in Peers : start_client(p)
           \/ \E p \in Peers, msg \in {"data", "big"} : send(p, msg)
           \/ \E p \in Peers, first \in {<< >>, <<"notify_byte">>} : stop_client(p, first)
           \/ UNCHANGED vars
  BY <1>2, ZenonT(30) DEF ClientReceives, client_receive, start_client, send, stop_client, vars,
              server, bounds, Unlisted
<1>3. ASSUME NEW p \in Peers, NEW d \in up[p].net, NEW ok \in BOOLEAN,
             server_receive(p, d, ok)
      PROVE  \/ Unlisted /\ UNCHANGED <<replicated, host_id>>
             \/ known(p) /\ Removes(IdOf(p)) /\ UNCHANGED host_id
             \/ Adds(p) /\ UNCHANGED host_id
  <2>0. UNCHANGED <<active, stops, host_id>>
    BY <1>3 DEF server_receive, bounds, on_connect_request, on_disconnect_notify,
                on_oversized, on_user_data, ignore_unknown, server
  <2>1. CASE on_connect_request(p, ok)
    BY <2>0, <2>1 DEF on_connect_request, Unlisted, Adds
  <2>2. CASE on_disconnect_notify(p) \/ on_oversized(p)
    BY <2>0, <2>2 DEF on_disconnect_notify, on_oversized, Removes
  <2>3. CASE ignore_unknown(p) \/ on_user_data(p, d.msg, ok)
    BY <2>0, <2>3 DEF ignore_unknown, on_user_data, server, Unlisted
  <2> QED
    BY <1>3, <2>1, <2>2, <2>3 DEF server_receive
<1>4. CASE \E p \in Peers : ServerReceives(p)
  BY <1>3, <1>4 DEF ServerReceives
<1>5. CASE add_local_client
  BY <1>5 DEF add_local_client, Adds
<1> QED
  BY <1>1, <1>2, <1>4, <1>5 DEF Next

\* host_id stays the id of a local client: no removal, by whichever path, takes it
\* from the list without clearing host_id, and no id is given twice.
LEMMA HostListedStep ==
  ASSUME HostListed, TypeOK, EntriesDistinct, FiniteClients, [Next]_vars
  PROVE  HostListed'
<1>0. 0 \notin Ids
  BY DEF Ids, TypeOK, ClientEntry, ClientId
<1>1. CASE Unlisted /\ UNCHANGED <<replicated, host_id>>
  BY <1>1 DEF Unlisted, HostListed
<1>2. ASSUME NEW p \in Peers, known(p), Removes(IdOf(p)), UNCHANGED host_id
      PROVE  HostListed'
  <2>1. PICK e \in clients : e.peer = p /\ IdOf(p) = e.id
    BY <1>2 DEF known, EntriesOf, IdOf
  <2>2. CASE host_id = 0
    BY <1>2, <2>2 DEF HostListed
  <2>3. CASE host_id # 0
    <3>1. PICK f \in clients : f.id = host_id /\ f.peer = Local
      BY <2>3 DEF HostListed
    <3>2. f.id # e.id
      BY <2>1, <3>1, LocalAssumption DEF EntriesDistinct
    <3> QED
      BY <1>2, <2>1, <3>1, <3>2 DEF Removes, remove_client, HostListed
  <2> QED
    BY <2>2, <2>3
<1>3. ASSUME NEW e \in clients, disconnect_client(e)
      PROVE  HostListed'
  BY <1>3 DEF disconnect_client, remove_client, HostListed
<1>4. ASSUME NEW q, Adds(q), UNCHANGED host_id
      PROVE  HostListed'
  BY <1>4 DEF Adds, add_client, HostListed
<1>5. CASE stop
  BY <1>5 DEF stop, HostListed
<1>6. CASE start
  BY <1>6 DEF start, HostClients, HostEntry, HostId, HostListed
<1> QED
  BY <1>1, <1>2, <1>3, <1>4, <1>5, <1>6, ServingStep

LEMMA HostListedInductive == Spec => []HostListed
<1>1. Init => HostListed
  <2>1. Host => \E e \in HostClients : e.id = HostId /\ e.peer = Local
    BY DEF HostClients, HostEntry, HostId
  <2> QED
    BY <2>1 DEF Init, HostId, HostListed
<1> QED
  BY <1>1, HostListedStep, FiniteInit, FiniteStep, TypeCorrect, EntriesDistinctHolds, PTL
  DEF Spec

\* The replication manager serves exactly the clients, all but a host's own,
\* while the server is not stopped: no removal, by whichever path, takes the
\* host's id from the list without clearing host_id, and no id is given twice.
THEOREM ReplicationTracksClientsHolds ==
  ASSUME MaxStops = 0
  PROVE  Spec => []ReplicationTracksClients
<1> DEFINE Inv == replicated = Ids \ {host_id} /\ active /\ stops = 0
<1>1. Init => Inv
  <2> SUFFICES ASSUME Init
               PROVE  Inv
    OBVIOUS
  <2>1. HostEntry.id = 1 /\ HostEntry.peer = Local
    BY DEF HostEntry
  <2>2. CASE Host
    BY <2>1, <2>2 DEF Init, HostClients, HostId, Ids
  <2>3. CASE ~ Host
    BY <2>3 DEF Init, HostClients, HostId, Ids
  <2> QED
    BY <2>2, <2>3
<1>2. ASSUME Inv, HostListed, TypeOK, EntriesDistinct, FiniteClients, [Next]_vars
      PROVE  Inv'
  <2>0. 0 \notin Ids
    BY <1>2 DEF Ids, TypeOK, ClientEntry, ClientId
  <2>1. CASE Unlisted /\ UNCHANGED <<replicated, host_id>>
    BY <1>2, <2>1 DEF Unlisted, Ids
  <2>2. ASSUME NEW id, id # host_id, remove_client(id), UNCHANGED <<active, stops, host_id>>
        PROVE  Inv'
    <3>1. Ids' = Ids \ {id}
      BY <2>2 DEF remove_client, Ids
    <3>2. replicated' = replicated \ {id}
      BY <2>2 DEF remove_client
    <3> QED
      BY <1>2, <2>2, <3>1, <3>2
  <2>3. ASSUME NEW p \in Peers, known(p), Removes(IdOf(p)), UNCHANGED host_id
        PROVE  Inv'
    <3>1. PICK e \in clients : e.peer = p /\ IdOf(p) = e.id
      BY <2>3 DEF known, EntriesOf, IdOf
    <3>2. e.id # host_id
      <4> SUFFICES ASSUME e.id = host_id
                   PROVE  FALSE
        OBVIOUS
      <4>1. host_id # 0
        BY <2>0 DEF Ids
      <4>2. PICK f \in clients : f.id = host_id /\ f.peer = Local
        BY <1>2, <4>1 DEF HostListed
      <4> QED
        BY <1>2, <3>1, <4>2, LocalAssumption DEF EntriesDistinct
    <3> QED
      BY <2>2, <2>3, <3>1, <3>2 DEF Removes
  <2>4. ASSUME NEW e \in clients, disconnect_client(e)
        PROVE  Inv'
    <3>1. CASE e.id # host_id
      BY <2>2, <2>4, <3>1 DEF disconnect_client, bounds
    <3>2. CASE e.id = host_id
      <4>1. Ids' = Ids \ {host_id} /\ replicated' = replicated \ {host_id} /\ host_id' = 0
        BY <2>4, <3>2 DEF disconnect_client, remove_client, Ids
      <4>2. active' /\ stops' = 0
        BY <1>2, <2>4 DEF disconnect_client, bounds
      <4> QED
        BY <1>2, <2>0, <4>1, <4>2
    <3> QED
      BY <3>1, <3>2
  <2>5. ASSUME NEW q, Adds(q), UNCHANGED host_id
        PROVE  Inv'
    <3> DEFINE id == generate_client_id
    <3>1. id \in ClientId /\ id \notin Ids
      BY <1>2, GeneratedIsFree
    <3>2. /\ clients' = clients \cup {[id |-> id, peer |-> q]}
          /\ replicated' = replicated \cup {id}
          /\ UNCHANGED <<active, stops>>
      BY <2>5 DEF Adds, add_client
    <3> HIDE DEF id
    <3>3. Ids' = Ids \cup {id}
      <4>1. PICK f : f = [id |-> id, peer |-> q]
        OBVIOUS
      <4>2. f.id = id /\ clients' = clients \cup {f}
        BY <3>2, <4>1
      <4> QED
        BY <4>2 DEF Ids
    <3>4. id # host_id
      BY <1>2, <3>1 DEF HostListed, Ids, ClientId
    <3> QED
      BY <1>2, <2>5, <3>2, <3>3, <3>4
  <2>6. CASE stop \/ start
    BY <1>2, <2>6 DEF stop, start
  <2> QED
    BY <1>2, <2>1, <2>3, <2>4, <2>5, <2>6, ServingStep
<1>3. Inv => ReplicationTracksClients
  BY DEF ReplicationTracksClients
<1> QED
  BY <1>1, <1>2, <1>3, FiniteInit, FiniteStep, TypeCorrect, EntriesDistinctHolds,
     HostListedInductive, PTL DEF Spec

-----------------------------------------------------------------------------
(* A peer whose connection was not lost and the server: the peer x, what it *)
(* sent u, what it was sent d, and its entries E at the server.            *)

\* What the application of the client has been told is in order.
ToldInOrder(x) ==
  /\ x.callbacks \in {<< >>, <<"connected">>, <<"connected", "disconnected">>}
  /\ x.data > 0 => x.callbacks # << >>

\* The first thing the server sends is the answer to the request; it sends no
\* second answer.
AnswerFirst(d) ==
  \A m \in d.net :
    /\ m.pos = 1 => m.msg.type \in {"ConnectAccept", "ConnectReject"}
    /\ m.pos # 1 => m.msg.type \in {"DisconnectNotify", "data"}

\* Messages have their own positions, and what was received was sent.
Numbered(d) ==
  /\ d.rcvd <= d.sent
  /\ \A m \in d.net : m.pos <= d.sent
  /\ \A m, n \in d.net : m.pos = n.pos => m = n

Accepted(d) == \E m \in d.net : m.msg.type = "ConnectAccept"

\* While the transport of the peer is open, or not yet: the server has met one
\* request at most, the peer has followed its answer, and if it was accepted and
\* has no entry any more a notification is on its way.
OneRequest(x, u, d, E) ==
  /\ ~ u.bye
  /\ \A m \in u.net : /\ m.msg = "ConnectRequest" => m.pos = 1
                      /\ m.msg # "DisconnectNotify"
  /\ u.rcvd = 0 => E = {} /\ d.net = {} /\ d.sent = 0
  /\ E # {} => d.sent > 0
  /\ AnswerFirst(d)
  /\ Numbered(d)
  /\ \A m \in d.net : \A e \in E : m.msg.type = "ConnectAccept" => e.id = m.msg.id
  /\ E = {} /\ Accepted(d) => NoticeDue(d)
  /\ d.rcvd = 0 => x.callbacks = << >> /\ x.data = 0 /\ ~ x.client_connected
  /\ d.rcvd # 0 => x.callbacks = <<"connected">>
  /\ x.client_connected =>
       \E m \in d.net : m.msg.type = "ConnectAccept" /\ m.msg.id = x.local_client_id

Live(x) == x.link = "Open" \/ x.mode = "Unstarted"

PeerOK(x, u, d, E) ==
  /\ x.link # "Lost"
  /\ ~ d.bye
  /\ ToldInOrder(x)
  /\ x.link = "None" => ~ x.client_connected
  /\ x.mode = "Unstarted" => x.link = "None" /\ u.net = {} /\ u.sent = 0
  /\ x.link = "Open" => u.sent > 0
  /\ Live(x) => OneRequest(x, u, d, E)

\* The server has a connection to a live peer that it has heard of.
Met(p) == Live(peer[p]) /\ up[p].rcvd # 0 => conn[p]

\* What is true of every peer whose connection was not lost, and of a server that
\* is stopped.
PeersInv ==
  /\ \A p \in Peers \ lost : PeerOK(peer[p], up[p], down[p], EntriesOf(p)) /\ Met(p)
  /\ active \/ clients = {}

\* What sending one message does.
LEMMA SentOne ==
  ASSUME NEW M, NEW s \in Stream(M), NEW m \in M
  PROVE  /\ Sent(s, <<m>>).net = s.net \cup {[pos |-> s.sent + 1, msg |-> m]}
         /\ Sent(s, <<m>>).sent = s.sent + 1
         /\ Sent(s, <<m>>).rcvd = s.rcvd
         /\ Sent(s, <<m>>).bye = s.bye
<1>1. <<m>> \in Seq(M) /\ Len(<<m>>) = 1 /\ DOMAIN <<m>> = {1} /\ <<m>>[1] = m
  OBVIOUS
<1> DEFINE ms == <<m>>
<1>2. ms \in Seq(M) /\ Len(ms) = 1 /\ DOMAIN ms = {1} /\ ms[1] = m
  BY <1>1
<1> HIDE DEF ms
<1>3. {[pos |-> s.sent + i, msg |-> ms[i]] : i \in DOMAIN ms}
        = {[pos |-> s.sent + 1, msg |-> m]}
  BY <1>2
<1>4. /\ Sent(s, ms).net = s.net \cup {[pos |-> s.sent + 1, msg |-> m]}
      /\ Sent(s, ms).sent = s.sent + 1
      /\ Sent(s, ms).rcvd = s.rcvd
      /\ Sent(s, ms).bye = s.bye
  BY <1>2, <1>3, SentType, SMTT(30)
<1> QED
  BY <1>4 DEF ms

LEMMA SentReject ==
  ASSUME NEW s \in Stream(DownMessage)
  PROVE  /\ Sent(s, reject).net =
              s.net \cup {[pos |-> s.sent + 1, msg |-> sys("ConnectReject")],
                          [pos |-> s.sent + 2, msg |-> sys("DisconnectNotify")]}
         /\ Sent(s, reject).sent = s.sent + 2
         /\ Sent(s, reject).rcvd = s.rcvd
         /\ Sent(s, reject).bye = s.bye
<1>1. /\ reject \in Seq(DownMessage) /\ Len(reject) = 2
      /\ DOMAIN reject = {1, 2} /\ reject[1] = sys("ConnectReject")
      /\ reject[2] = sys("DisconnectNotify")
  BY Literals DEF reject
<1>2. {[pos |-> s.sent + i, msg |-> reject[i]] : i \in DOMAIN reject}
        = {[pos |-> s.sent + 1, msg |-> sys("ConnectReject")],
           [pos |-> s.sent + 2, msg |-> sys("DisconnectNotify")]}
  BY <1>1
<1>3. /\ Sent(s, reject).net = s.net \cup {[pos |-> s.sent + i, msg |-> reject[i]] :
                                            i \in DOMAIN reject}
      /\ Sent(s, reject).sent = s.sent + Len(reject)
      /\ Sent(s, reject).rcvd = s.rcvd
      /\ Sent(s, reject).bye = s.bye
  <2>1. reject \in Seq(DownMessage)
    BY <1>1
  <2> QED
    BY <2>1, SentType
<1>4. Len(reject) = 2
  BY <1>1
<1> QED
  BY <1>2, <1>3, <1>4

\* A peer whose transport is closed is in order whatever is still under way.
LEMMA PeerClosed ==
  ASSUME NEW x, NEW u, NEW d, NEW E,
         x.link = "None", x.mode # "Unstarted", ~ x.client_connected, ToldInOrder(x),
         ~ d.bye
  PROVE  PeerOK(x, u, d, E)
BY DEF PeerOK, Live

\* The entry of a live peer may go if the peer is about to be told.
LEMMA PeerRemoved ==
  ASSUME NEW x, NEW u, NEW d, NEW E, NEW F \in SUBSET E, PeerOK(x, u, d, E),
         Live(x) => F = E \/ NoticeDue(d)
  PROVE  PeerOK(x, u, d, F)
BY DEF PeerOK, OneRequest

\* The server has taken a message of the peer's.
LEMMA PeerHeard ==
  ASSUME NEW x, NEW u \in Stream(UpMessage), NEW d, NEW E, NEW n \in Nat \ {0},
         PeerOK(x, u, d, E)
  PROVE  PeerOK(x, [u EXCEPT !.rcvd = n], d, E)
<1> DEFINE v == [u EXCEPT !.rcvd = n]
<1>1. v.net = u.net /\ v.sent = u.sent /\ v.bye = u.bye /\ v.rcvd # 0
  BY DEF Stream
<1> HIDE DEF v
<1>2. PeerOK(x, v, d, E)
  BY <1>1 DEF PeerOK, OneRequest
<1> QED
  BY <1>2 DEF v

\* The server sends a peer that it has an entry for something other than an
\* answer.
LEMMA PeerTold ==
  ASSUME NEW x, NEW u, NEW d \in Stream(DownMessage), NEW E, E # {},
         NEW t \in {"DisconnectNotify", "data"}, PeerOK(x, u, d, E)
  PROVE  /\ PeerOK(x, u, Sent(d, <<sys(t)>>), E)
         /\ Live(x) /\ t = "DisconnectNotify" => NoticeDue(Sent(d, <<sys(t)>>))
<1> DEFINE c == Sent(d, <<sys(t)>>)
           m == [pos |-> d.sent + 1, msg |-> sys(t)]
<1>1. /\ c.net = d.net \cup {m}
      /\ c.sent = d.sent + 1 /\ c.rcvd = d.rcvd /\ c.bye = d.bye
  BY SentOne, Literals
<1>2. m.pos = d.sent + 1 /\ m.msg.type = t
  BY DEF sys
<1>3. d.sent \in Nat
  BY DEF Stream
<1> HIDE DEF c, m
<1>4. ASSUME OneRequest(x, u, d, E)
      PROVE  OneRequest(x, u, c, E)
  <2>1. d.sent > 0 /\ u.rcvd # 0
    BY <1>4 DEF OneRequest
  <2>2. AnswerFirst(c)
    BY <1>1, <1>2, <1>3, <1>4, <2>1 DEF OneRequest, AnswerFirst
  <2>3. d.rcvd \in Nat /\ \A n \in d.net : n.pos \in Nat
    BY DEF Stream
  <2>4. Numbered(d)
    BY <1>4 DEF OneRequest
  <2>5. Numbered(c)
    BY <1>1, <1>2, <1>3, <2>3, <2>4, SMTT(30) DEF Numbered
  <2>6. \A n \in c.net : \A e \in E : n.msg.type = "ConnectAccept" => e.id = n.msg.id
    BY <1>1, <1>2, <1>4 DEF OneRequest
  <2> QED
    BY <1>1, <1>2, <1>3, <1>4, <2>1, <2>2, <2>5, <2>6 DEF OneRequest
<1>5. PeerOK(x, u, c, E)
  BY <1>1, <1>4 DEF PeerOK
<1>6. Live(x) /\ t = "DisconnectNotify" => NoticeDue(c)
  <2> SUFFICES ASSUME Live(x), t = "DisconnectNotify"
               PROVE  NoticeDue(c)
    OBVIOUS
  <2>1. d.rcvd <= d.sent /\ d.rcvd \in Nat
    BY DEF PeerOK, OneRequest, Numbered, Stream
  <2> QED
    BY <1>1, <1>2, <1>3, <2>1 DEF NoticeDue
<1> QED
  BY <1>5, <1>6 DEF c

\* The server's answer to the first request.
LEMMA PeerAnswered ==
  ASSUME NEW x, NEW u \in Stream(UpMessage), NEW d \in Stream(DownMessage), NEW E,
         PeerOK(x, u, d, E), OneRequest(x, u, d, E), u.rcvd = 0, NEW id \in Nat,
         NEW e, e.id = id
  PROVE  /\ PeerOK(x, [u EXCEPT !.rcvd = 1], Sent(d, <<accept(id)>>), {e})
         /\ PeerOK(x, [u EXCEPT !.rcvd = 1], Sent(d, reject), E)
<1> DEFINE v == [u EXCEPT !.rcvd = 1]
<1>1. v.net = u.net /\ v.sent = u.sent /\ v.bye = u.bye /\ v.rcvd # 0
  BY DEF Stream
<1>2. /\ E = {} /\ d.net = {} /\ d.sent = 0 /\ ~ x.client_connected
      /\ d.rcvd \in Nat /\ d.rcvd <= 0
  BY DEF OneRequest, Numbered, Stream
<1> HIDE DEF v
<1>3. PeerOK(x, v, Sent(d, <<accept(id)>>), {e})
  <2> DEFINE c == Sent(d, <<accept(id)>>)
             m == [pos |-> 1, msg |-> accept(id)]
  <2>1. c.net = {m} /\ c.sent = 1 /\ c.rcvd = d.rcvd /\ c.bye = d.bye
    <3>1. accept(id) \in DownMessage
      BY Literals
    <3> QED
      BY <1>2, <3>1, SentOne
  <2>2. m.pos = 1 /\ m.msg.type = "ConnectAccept" /\ m.msg.id = id
    BY DEF accept
  <2> HIDE DEF c, m
  <2>3. AnswerFirst(c)
    BY <2>1, <2>2 DEF AnswerFirst
  <2>6. Numbered(c)
    BY <1>2, <2>1, <2>2 DEF Numbered
  <2>4. OneRequest(x, v, c, {e})
    BY <1>1, <1>2, <2>1, <2>2, <2>3, <2>6 DEF OneRequest
  <2>5. PeerOK(x, v, c, {e})
    BY <1>1, <2>1, <2>4 DEF PeerOK
  <2> QED
    BY <2>5 DEF c
<1>4. PeerOK(x, v, Sent(d, reject), E)
  <2> DEFINE c == Sent(d, reject)
             m == [pos |-> 1, msg |-> sys("ConnectReject")]
             n == [pos |-> 2, msg |-> sys("DisconnectNotify")]
  <2>1. c.net = {m, n} /\ c.sent = 2 /\ c.rcvd = d.rcvd /\ c.bye = d.bye
    BY <1>2, SentReject
  <2>2. /\ m.pos = 1 /\ m.msg.type = "ConnectReject"
        /\ n.pos = 2 /\ n.msg.type = "DisconnectNotify"
    BY DEF sys
  <2> HIDE DEF c, m, n
  <2>3. AnswerFirst(c)
    BY <2>1, <2>2 DEF AnswerFirst
  <2>6. Numbered(c) /\ ~ Accepted(c)
    BY <1>2, <2>1, <2>2 DEF Numbered, Accepted
  <2>4. OneRequest(x, v, c, E)
    BY <1>1, <1>2, <2>1, <2>2, <2>3, <2>6 DEF OneRequest, Accepted
  <2>5. PeerOK(x, v, c, E)
    BY <1>1, <2>1, <2>4 DEF PeerOK
  <2> QED
    BY <2>5 DEF c
<1> QED
  BY <1>3, <1>4 DEF v

LEMMA AppendPair ==
  ASSUME NEW S, NEW a \in S, NEW b \in S
  PROVE  Append(<<a>>, b) = <<a, b>>
<1>0. ASSUME NEW s \in Seq(S), Len(s) = 1, s[1] = a
      PROVE  Append(s, b)[1] = a
  BY <1>0
<1>1. ASSUME NEW s \in Seq(S), Len(s) = 1, s[1] = a,
             NEW t \in Seq(S), Len(t) = 2, t[1] = a, t[2] = b
      PROVE  Append(s, b) = t
  <2>1. Append(s, b) \in Seq(S)
    OBVIOUS
  <2>2. Len(Append(s, b)) = Len(s) + 1 /\ Append(s, b)[Len(s) + 1] = b
    OBVIOUS
  <2>3. Append(s, b)[1] = a
    BY <1>0, <1>1
  <2>4. Len(Append(s, b)) = 2 /\ Append(s, b)[2] = b
    BY <1>1, <2>2
  <2> QED
    BY <1>1, <2>1, <2>3, <2>4, SeqEqual
<1>2. /\ <<a>> \in Seq(S) /\ Len(<<a>>) = 1 /\ <<a>>[1] = a
      /\ <<a, b>> \in Seq(S) /\ Len(<<a, b>>) = 2 /\ <<a, b>>[1] = a /\ <<a, b>>[2] = b
  OBVIOUS
<1> QED
  BY <1>1, <1>2

\* The client takes the next message.
LEMMA PeerFollows ==
  ASSUME NEW x \in Peer, NEW u \in Stream(UpMessage), NEW d \in Stream(DownMessage),
         NEW E, PeerOK(x, u, d, E), x.link # "None", NEW m \in d.net, m.pos = d.rcvd + 1,
         NEW y \in Peer, NEW v
  PROVE  /\ /\ m.msg.type = "ConnectAccept" /\ v = u
            /\ y = [x EXCEPT !.link = "Open", !.local_client_id = m.msg.id,
                            !.client_connected = TRUE, !.awaiting_accept = FALSE,
                            !.callbacks = Append(@, "connected")]
            => PeerOK(y, v, [d EXCEPT !.rcvd = m.pos], E)
         /\ /\ m.msg.type = "ConnectReject"
            /\ y = [x EXCEPT !.link = "None", !.awaiting_accept = FALSE,
                            !.client_connected = FALSE]
            => PeerOK(y, v, [d EXCEPT !.rcvd = m.pos], E)
         /\ /\ m.msg.type = "DisconnectNotify"
            /\ y = [x EXCEPT !.link = "None", !.client_connected = FALSE,
                            !.local_client_id = 0,
                            !.callbacks = Append(@, "disconnected")]
            => PeerOK(y, v, [d EXCEPT !.rcvd = m.pos], E)
         /\ /\ m.msg.type = "data" /\ v = u
            /\ y = [x EXCEPT !.link = "Open", !.data = @ + 1]
            => PeerOK(y, v, [d EXCEPT !.rcvd = m.pos], E)
<1> DEFINE c == [d EXCEPT !.rcvd = m.pos]
<1>1. /\ c.net = d.net /\ c.sent = d.sent /\ c.bye = d.bye /\ c.rcvd = m.pos
      /\ d.rcvd \in Nat /\ m.pos \in Nat /\ m.pos # 0
  BY DEF Stream
<1>2. x.link = "Open" /\ x.mode # "Unstarted" /\ OneRequest(x, u, d, E)
  BY DEF PeerOK, Peer, Live
<1>3. AnswerFirst(d) /\ ~ d.bye /\ ToldInOrder(x)
  BY <1>2 DEF PeerOK, OneRequest
<1>8. /\ Numbered(c)
      /\ m.msg.type # "DisconnectNotify" /\ NoticeDue(d) => NoticeDue(c)
  <2>1. Numbered(d) /\ \A n \in d.net : n.pos \in Nat
    BY <1>2 DEF OneRequest, Stream
  <2> HIDE DEF c
  <2>2. Numbered(c)
    BY <1>1, <2>1 DEF Numbered
  <2>3. ASSUME m.msg.type # "DisconnectNotify", NoticeDue(d)
        PROVE  NoticeDue(c)
    <3>1. PICK n \in d.net : n.msg.type = "DisconnectNotify" /\ n.pos > d.rcvd
      BY <2>3 DEF NoticeDue
    <3>2. n.pos # m.pos
      BY <2>1, <2>3, <3>1 DEF Numbered
    <3>3. n.pos > m.pos
      BY <1>1, <2>1, <3>1, <3>2
    <3> QED
      BY <1>1, <3>1, <3>3 DEF NoticeDue
  <2> QED
    BY <2>2, <2>3
<1> HIDE DEF c
<1>4. ASSUME m.msg.type = "ConnectAccept", v = u,
             y = [x EXCEPT !.link = "Open", !.local_client_id = m.msg.id,
                           !.client_connected = TRUE, !.awaiting_accept = FALSE,
                           !.callbacks = Append(@, "connected")]
      PROVE  PeerOK(y, v, c, E)
  <2>1. m.pos = 1 /\ d.rcvd = 0
    BY <1>1, <1>3, <1>4 DEF AnswerFirst
  <2>2. x.callbacks = << >> /\ x.data = 0
    BY <1>2, <2>1 DEF OneRequest
  <2>3. /\ y.link = "Open" /\ y.local_client_id = m.msg.id /\ y.mode = x.mode
        /\ y.callbacks = Append(x.callbacks, "connected") /\ y.data = 0
    BY <1>4, <2>2 DEF Peer
  <2>4. y.callbacks = <<"connected">>
    BY <2>2, <2>3
  <2>5. OneRequest(y, v, c, E)
    BY <1>1, <1>2, <1>3, <1>4, <1>8, <2>1, <2>3, <2>4 DEF OneRequest, AnswerFirst, Accepted
  <2>6. ToldInOrder(y)
    <3>1. y.data = 0
      BY <2>3
    <3> QED
      BY <2>4, <3>1 DEF ToldInOrder
  <2> QED
    BY <1>1, <1>2, <1>3, <1>4, <2>3, <2>5, <2>6 DEF PeerOK, Live
<1>5. ASSUME m.msg.type = "ConnectReject",
             y = [x EXCEPT !.link = "None", !.awaiting_accept = FALSE,
                           !.client_connected = FALSE]
      PROVE  PeerOK(y, v, c, E)
  <2>1. /\ y.link = "None" /\ y.mode = x.mode /\ ~ y.client_connected
        /\ y.callbacks = x.callbacks /\ y.data = x.data
    BY <1>5 DEF Peer
  <2>2. ToldInOrder(y)
    BY <1>3, <2>1 DEF ToldInOrder
  <2> QED
    BY <1>1, <1>2, <1>3, <2>1, <2>2, PeerClosed
<1>6. ASSUME m.msg.type = "DisconnectNotify",
             y = [x EXCEPT !.link = "None", !.client_connected = FALSE,
                           !.local_client_id = 0,
                           !.callbacks = Append(@, "disconnected")]
      PROVE  PeerOK(y, v, c, E)
  <2>1. m.pos # 1 /\ d.rcvd # 0
    BY <1>1, <1>3, <1>6 DEF AnswerFirst
  <2>2. x.callbacks = <<"connected">>
    BY <1>2, <2>1 DEF OneRequest
  <2>3. /\ y.link = "None" /\ y.mode = x.mode /\ ~ y.client_connected
        /\ y.callbacks = Append(x.callbacks, "disconnected") /\ y.data = x.data
    BY <1>6 DEF Peer
  <2>4. y.callbacks = <<"connected", "disconnected">>
    <3>1. "connected" \in {"connected", "disconnected"}
      OBVIOUS
    <3>2. Append(<<"connected">>, "disconnected") = <<"connected", "disconnected">>
      BY <3>1, AppendPair
    <3> QED
      BY <2>2, <2>3, <3>2
  <2>5. ToldInOrder(y)
    BY <2>4 DEF ToldInOrder
  <2> QED
    BY <1>1, <1>2, <1>3, <2>3, <2>5, PeerClosed
<1>7. ASSUME m.msg.type = "data", v = u, y = [x EXCEPT !.link = "Open", !.data = @ + 1]
      PROVE  PeerOK(y, v, c, E)
  <2>1. m.pos # 1 /\ d.rcvd # 0
    BY <1>1, <1>3, <1>7 DEF AnswerFirst
  <2>2. x.callbacks = <<"connected">>
    BY <1>2, <2>1 DEF OneRequest
  <2>3. /\ y.link = "Open" /\ y.mode = x.mode /\ y.client_connected = x.client_connected
        /\ y.callbacks = x.callbacks /\ y.local_client_id = x.local_client_id
    BY <1>7 DEF Peer
  <2>4. OneRequest(y, v, c, E)
    BY <1>1, <1>2, <1>7, <1>8, <2>2, <2>3 DEF OneRequest, AnswerFirst, Accepted
  <2>5. ToldInOrder(y)
    BY <2>2, <2>3 DEF ToldInOrder
  <2> QED
    BY <1>1, <1>2, <1>3, <1>7, <2>3, <2>4, <2>5 DEF PeerOK, Live
<1> QED
  BY <1>4, <1>5, <1>6, <1>7 DEF c

\* start() of the client sends its request, before anything else.
LEMMA PeerStarts ==
  ASSUME NEW x \in Peer, NEW u \in Stream(UpMessage), NEW d \in Stream(DownMessage),
         NEW E, PeerOK(x, u, d, E), x.mode = "Unstarted"
  PROVE  PeerOK([x EXCEPT !.mode = "Client", !.link = "Open", !.awaiting_accept = TRUE],
                Sent(u, <<"ConnectRequest">>), d, E)
<1> DEFINE y == [x EXCEPT !.mode = "Client", !.link = "Open", !.awaiting_accept = TRUE]
           v == Sent(u, <<"ConnectRequest">>)
           m == [pos |-> 1, msg |-> "ConnectRequest"]
<1>1. /\ y.link = "Open" /\ y.mode = "Client" /\ y.client_connected = x.client_connected
      /\ y.callbacks = x.callbacks /\ y.data = x.data
      /\ y.local_client_id = x.local_client_id
  BY DEF Peer
<1>2. u.net = {} /\ u.sent = 0 /\ OneRequest(x, u, d, E) /\ ~ d.bye /\ ToldInOrder(x)
  BY DEF PeerOK, Live
<1>3. v.net = {m} /\ v.sent = 1 /\ v.rcvd = u.rcvd /\ v.bye = u.bye
  <2>1. "ConnectRequest" \in UpMessage
    BY DEF UpMessage
  <2> QED
    BY <1>2, <2>1, SentOne
<1>4. m.pos = 1 /\ m.msg # "DisconnectNotify"
  OBVIOUS
<1> HIDE DEF y, v, m
<1>5. OneRequest(y, v, d, E)
  BY <1>1, <1>2, <1>3, <1>4 DEF OneRequest
<1>6. ToldInOrder(y)
  BY <1>1, <1>2 DEF ToldInOrder
<1>7. PeerOK(y, v, d, E)
  BY <1>1, <1>2, <1>3, <1>5, <1>6 DEF PeerOK
<1> QED
  BY <1>7 DEF y, v

\* The application of a connected client sends.
LEMMA PeerSends ==
  ASSUME NEW x, NEW u \in Stream(UpMessage), NEW d, NEW E, PeerOK(x, u, d, E),
         x.link = "Open", NEW msg \in {"data", "big"}
  PROVE  PeerOK(x, Sent(u, <<msg>>), d, E)
<1> DEFINE v == Sent(u, <<msg>>)
           m == [pos |-> u.sent + 1, msg |-> msg]
<1>1. v.net = u.net \cup {m} /\ v.sent = u.sent + 1 /\ v.rcvd = u.rcvd /\ v.bye = u.bye
  <2>1. msg \in UpMessage
    BY DEF UpMessage
  <2> QED
    BY <2>1, SentOne
<1>2. m.msg # "ConnectRequest" /\ m.msg # "DisconnectNotify" /\ u.sent \in Nat
  BY DEF Stream
<1>3. OneRequest(x, u, d, E)
  BY DEF PeerOK, Live
<1> HIDE DEF v, m
<1>4. OneRequest(x, v, d, E)
  BY <1>1, <1>2, <1>3 DEF OneRequest
<1>5. PeerOK(x, v, d, E)
  BY <1>1, <1>2, <1>4 DEF PeerOK
<1> QED
  BY <1>5 DEF v

\* stop() and disconnect() of the client.
LEMMA PeerStops ==
  ASSUME NEW x \in Peer, NEW u, NEW d, NEW E, PeerOK(x, u, d, E), x.mode = "Client", NEW v
  PROVE  PeerOK([x EXCEPT !.mode = "None", !.client_connected = FALSE,
                          !.local_client_id = 0, !.awaiting_accept = FALSE,
                          !.link = "None"], v, d, E)
<1> DEFINE y == [x EXCEPT !.mode = "None", !.client_connected = FALSE,
                          !.local_client_id = 0, !.awaiting_accept = FALSE,
                          !.link = "None"]
<1>1. /\ y.link = "None" /\ y.mode = "None" /\ ~ y.client_connected
      /\ y.callbacks = x.callbacks /\ y.data = x.data
  BY DEF Peer
<1> HIDE DEF y
<1>2. ToldInOrder(y) /\ ~ d.bye
  BY <1>1 DEF PeerOK, ToldInOrder
<1>3. PeerOK(y, v, d, E)
  BY <1>1, <1>2, PeerClosed
<1> QED
  BY <1>3 DEF y

\* One peer is the actor of a step.
LEMMA OnlyPeer ==
  ASSUME NEW p \in Peers, PeersInv, active' \/ clients' = {}, lost \subseteq lost',
         p \notin lost' =>
           PeerOK(peer'[p], up'[p], down'[p], EntriesOf(p)') /\ Met(p)',
         \A q \in Peers \ {p} :
           /\ peer'[q] = peer[q] /\ up'[q] = up[q] /\ down'[q] = down[q]
           /\ conn'[q] = conn[q] /\ EntriesOf(q)' = EntriesOf(q)
  PROVE  PeersInv'
<1>1. ASSUME NEW q \in Peers \ lost', q # p
      PROVE  PeerOK(peer'[q], up'[q], down'[q], EntriesOf(q)') /\ Met(q)'
  <2>1. PeerOK(peer[q], up[q], down[q], EntriesOf(q)) /\ Met(q)
    BY <1>1 DEF PeersInv
  <2> QED
    BY <1>1, <2>1 DEF Met
<1> QED
  BY <1>1 DEF PeersInv

\* What removing and adding an entry does to those of each peer.
LEMMA EntryRemoved ==
  ASSUME EntriesDistinct, NEW e \in clients, remove_client(e.id)
  PROVE  \A q \in Peers : /\ q # e.peer => EntriesOf(q)' = EntriesOf(q)
                          /\ EntriesOf(q)' \in SUBSET EntriesOf(q)
BY DEF remove_client, EntriesOf, EntriesDistinct

LEMMA EntryAdded ==
  ASSUME NEW id, NEW q, add_client([id |-> id, peer |-> q])
  PROVE  /\ \A k \in Peers : k # q => EntriesOf(k)' = EntriesOf(k)
         /\ EntriesOf(q) = {} => EntriesOf(q)' = {[id |-> id, peer |-> q]}
<1>1. PICK f : f = [id |-> id, peer |-> q]
  OBVIOUS
<1>2. f.peer = q /\ clients' = clients \cup {f}
  BY <1>1 DEF add_client
<1> QED
  BY <1>1, <1>2 DEF EntriesOf

\* The server handles a message of p: what it may do to the list, to the streams
\* and to the peers it did not come from.
LEMMA ReceiveOthers ==
  ASSUME TypeOK, EntriesDistinct, NEW p \in Peers, NEW m \in up[p].net,
         NEW ok \in BOOLEAN, server_receive(p, m, ok)
  PROVE  /\ peer' = peer /\ active' /\ lost' = lost /\ conn'[p]
         /\ up'[p] = [up[p] EXCEPT !.rcvd = m.pos]
         /\ \A q \in Peers \ {p} :
              /\ peer'[q] = peer[q] /\ up'[q] = up[q] /\ down'[q] = down[q]
              /\ conn'[q] = conn[q] /\ EntriesOf(q)' = EntriesOf(q)
<1>1. /\ peer' = peer /\ active' /\ lost' = lost /\ conn'[p]
      /\ up'[p] = [up[p] EXCEPT !.rcvd = m.pos]
      /\ \A q \in Peers \ {p} : up'[q] = up[q] /\ conn'[q] = conn[q]
  BY DEF server_receive, TypeOK, bounds, on_connect_request, on_disconnect_notify,
         on_oversized, on_user_data, ignore_unknown, server
<1>2. \A q \in Peers \ {p} : down'[q] = down[q]
  BY DEF server_receive, TypeOK, on_connect_request, on_disconnect_notify, on_oversized,
         on_user_data, ignore_unknown, server
<1>3. \A q \in Peers \ {p} : EntriesOf(q)' = EntriesOf(q)
  <2>1. CASE on_connect_request(p, ok)
    <3>1. UNCHANGED clients \/ add_client([id |-> generate_client_id, peer |-> p])
      BY <2>1 DEF on_connect_request
    <3>2. CASE UNCHANGED clients
      BY <3>2 DEF EntriesOf
    <3> QED
      BY <3>1, <3>2, EntryAdded
  <2>2. CASE on_disconnect_notify(p) \/ on_oversized(p)
    <3>1. known(p) /\ remove_client(IdOf(p))
      BY <2>2 DEF on_disconnect_notify, on_oversized
    <3>2. PICK e \in clients : e.peer = p /\ IdOf(p) = e.id
      BY <3>1 DEF known, EntriesOf, IdOf
    <3> QED
      BY <3>1, <3>2, EntryRemoved
  <2>3. CASE ignore_unknown(p) \/ on_user_data(p, m.msg, ok)
    BY <2>3 DEF ignore_unknown, on_user_data, server, EntriesOf
  <2> QED
    BY <2>1, <2>2, <2>3 DEF server_receive
<1> QED
  BY <1>1, <1>2, <1>3

LEMMA PeersReceive ==
  ASSUME TypeOK, EntriesDistinct, FiniteClients, PeersInv, NEW p \in Peers,
         NEW m \in up[p].net, NEW ok \in BOOLEAN, server_receive(p, m, ok)
  PROVE  PeersInv'
<1> DEFINE x == peer[p]
           u == up[p]
           d == down[p]
           E == EntriesOf(p)
           v == [u EXCEPT !.rcvd = m.pos]
<1>0. SUFFICES ASSUME p \notin lost
               PROVE  PeerOK(x, v, down'[p], EntriesOf(p)')
  BY ReceiveOthers, OnlyPeer DEF Met
<1>1. /\ x \in Peer /\ u \in Stream(UpMessage) /\ d \in Stream(DownMessage)
      /\ PeerOK(x, u, d, E)
  BY <1>0 DEF TypeOK, PeersInv
<1>2. m.pos \in Nat \ {0} /\ m.pos = u.rcvd + 1 /\ u.rcvd \in Nat
  BY <1>1 DEF Stream, server_receive
<1>3. PeerOK(x, v, d, E)
  <2> HIDE DEF x, u, d, E
  <2> QED
    BY <1>1, <1>2, PeerHeard
<1>4. ASSUME NEW c, down' = [down EXCEPT ![p] = c]
      PROVE  down'[p] = c
  BY <1>4 DEF TypeOK
<1>5. ASSUME known(p), remove_client(IdOf(p))
      PROVE  EntriesOf(p)' \in SUBSET E
  BY <1>5 DEF remove_client, EntriesOf
<1>6. UNCHANGED clients => EntriesOf(p)' = E
  BY DEF EntriesOf
<1>9. CASE m.msg = "DisconnectNotify" /\ on_disconnect_notify(p)
  <2>1. EntriesOf(p)' \in SUBSET E /\ down'[p] = d
    BY <1>5, <1>9 DEF on_disconnect_notify
  <2>2. ~ Live(x)
    BY <1>1, <1>9 DEF PeerOK, OneRequest
  <2> HIDE DEF x, u, d, E, v
  <2> QED
    BY <1>3, <2>1, <2>2, PeerRemoved
<1>10. CASE on_oversized(p)
  <2> DEFINE c == Sent(d, <<sys("DisconnectNotify")>>)
  <2>1. PeerOK(x, v, c, E) /\ (Live(x) => NoticeDue(c))
    <3>1. E # {}
      BY <1>10 DEF on_oversized, known
    <3> HIDE DEF x, u, d, E, v
    <3> QED
      BY <1>1, <1>3, <3>1, PeerTold
  <2>2. EntriesOf(p)' \in SUBSET E /\ down'[p] = c
    BY <1>4, <1>5, <1>10 DEF on_oversized
  <2> HIDE DEF x, u, d, E, v, c
  <2> QED
    BY <2>1, <2>2, PeerRemoved
<1>11. CASE ignore_unknown(p) \/ on_user_data(p, m.msg, ok)
  <2>1. EntriesOf(p)' = E /\ down'[p] = d
    BY <1>6, <1>11 DEF ignore_unknown, on_user_data, server
  <2> QED
    BY <1>3, <2>1
<1>12. CASE m.msg = "ConnectRequest" /\ on_connect_request(p, ok)
  <2> DEFINE id == generate_client_id
             e == [id |-> id, peer |-> p]
  <2>1. id \in Nat
    BY GeneratedIsFree DEF ClientId
  <2>2. CASE Live(x)
    <3>1. OneRequest(x, u, d, E) /\ m.pos = 1 /\ u.rcvd = 0 /\ E = {}
      BY <1>1, <1>2, <1>12, <2>2 DEF PeerOK, OneRequest
    <3>2. ~ known(p)
      BY <3>1 DEF known
    <3>3. /\ PeerOK(x, v, Sent(d, <<accept(id)>>), {e})
          /\ PeerOK(x, v, Sent(d, reject), E)
      <4>1. e.id = id
        OBVIOUS
      <4>2. v = [u EXCEPT !.rcvd = 1]
        BY <3>1
      <4> HIDE DEF x, u, d, E, v, id, e
      <4> QED
        BY <1>1, <2>1, <3>1, <4>1, <4>2, PeerAnswered
    <3>4. CASE add_client(e) /\ down' = [down EXCEPT ![p] = Sent(d, <<accept(id)>>)]
      <4>1. EntriesOf(p)' = {e}
        BY <3>1, <3>4, EntryAdded
      <4> QED
        BY <1>4, <3>3, <3>4, <4>1
    <3>5. CASE down' = [down EXCEPT ![p] = Sent(d, reject)] /\ UNCHANGED clients
      BY <1>4, <1>6, <3>3, <3>5
    <3> QED
      BY <1>12, <3>2, <3>4, <3>5 DEF on_connect_request
  <2>3. CASE ~ Live(x)
    <3>1. x.link = "None" /\ x.mode # "Unstarted" /\ ~ x.client_connected /\ ToldInOrder(x)
            /\ ~ d.bye
      BY <1>1, <2>3 DEF PeerOK, Live, Peer
    <3>2. ASSUME NEW ms \in Seq(DownMessage), NEW F
          PROVE  PeerOK(x, v, Sent(d, ms), F)
      <4>1. ~ Sent(d, ms).bye
        BY <1>1, <3>1, SentType
      <4> HIDE DEF x, u, d, E, v
      <4> QED
        BY <3>1, <4>1, PeerClosed
    <3>3. PICK ms \in Seq(DownMessage) : down' = [down EXCEPT ![p] = Sent(d, ms)]
      <4>1. known(p) => IdOf(p) \in Nat
        BY KnownEntry DEF TypeOK, ClientEntry, ClientId
      <4> QED
        BY <1>12, <2>1, <4>1, Literals DEF on_connect_request
    <3> QED
      BY <1>4, <3>2, <3>3
  <2> QED
    BY <2>2, <2>3
<1> QED
  BY <1>9, <1>10, <1>11, <1>12 DEF server_receive

\* The client handles a message, or its application calls it.
LEMMA PeersClient ==
  ASSUME TypeOK, EntriesDistinct, PeersInv, NEW p \in Peers,
         \/ ClientReceives(p)
         \/ start_client(p)
         \/ \E msg \in {"data", "big"} : send(p, msg)
         \/ \E first \in {<< >>, <<"notify_byte">>} : stop_client(p, first),
         TypeOK'
  PROVE  PeersInv'
<1> DEFINE x == peer[p]
           u == up[p]
           d == down[p]
           E == EntriesOf(p)
<1>0. /\ UNCHANGED <<active, clients, lost, conn>>
      /\ \A q \in Peers : EntriesOf(q)' = EntriesOf(q)
      /\ \A q \in Peers \ {p} : peer'[q] = peer[q] /\ up'[q] = up[q] /\ down'[q] = down[q]
  <2>1. UNCHANGED <<active, clients, lost, conn>>
    BY DEF ClientReceives, client_receive, start_client, send, stop_client, server, bounds
  <2>2. \A q \in Peers : EntriesOf(q)' = EntriesOf(q)
    BY <2>1 DEF EntriesOf
  <2>3. ASSUME NEW q \in Peers \ {p}
        PROVE  peer'[q] = peer[q] /\ up'[q] = up[q] /\ down'[q] = down[q]
    <3>1. CASE ClientReceives(p)
      <4>1. PICK m \in down[p].net : client_receive(p, m)
        BY <3>1 DEF ClientReceives
      <4>2. down'[q] = down[q]
        BY <4>1 DEF client_receive, TypeOK
      <4>3. \/ on_connect_accept(p, m.msg.id) \/ on_connect_reject(p)
            \/ on_server_disconnect(p) \/ on_server_data(p)
        <5>1. m.msg.type \in {"ConnectAccept", "ConnectReject", "DisconnectNotify", "data"}
          <6>1. down[p] \in Stream(DownMessage)
            BY DEF TypeOK
          <6>2. m.msg \in DownMessage
            BY <6>1 DEF Stream
          <6> QED
            BY <6>2 DEF DownMessage
        <5> QED
          BY <4>1, <5>1 DEF client_receive
      <4> QED
        BY <4>2, <4>3 DEF on_connect_accept, on_connect_reject, on_server_disconnect,
           on_server_data, TypeOK
    <3>2. CASE start_client(p)
      BY <3>2 DEF start_client, TypeOK
    <3>3. CASE \E msg \in {"data", "big"} : send(p, msg)
      BY <3>3 DEF send, TypeOK
    <3>4. CASE \E first \in {<< >>, <<"notify_byte">>} : stop_client(p, first)
      BY <3>4 DEF stop_client, TypeOK
    <3> QED
      BY <3>1, <3>2, <3>3, <3>4
  <2> QED
    BY <2>1, <2>2, <2>3
<1>1. SUFFICES ASSUME p \notin lost
               PROVE  PeerOK(peer'[p], up'[p], down'[p], E) /\ Met(p)'
  BY <1>0, OnlyPeer DEF PeersInv
<1>2. /\ x \in Peer /\ u \in Stream(UpMessage) /\ d \in Stream(DownMessage)
      /\ PeerOK(x, u, d, E)
  BY <1>1 DEF TypeOK, PeersInv
<1>3. ASSUME NEW y, NEW v, NEW c, peer' = [peer EXCEPT ![p] = y],
             up' = [up EXCEPT ![p] = v], down' = [down EXCEPT ![p] = c],
             PeerOK(y, v, c, E), Live(y) => Live(x) /\ v.rcvd = u.rcvd
      PROVE  PeerOK(peer'[p], up'[p], down'[p], E) /\ Met(p)'
  <2>1. peer'[p] = y /\ up'[p] = v /\ down'[p] = c
    BY <1>3 DEF TypeOK
  <2>2. Met(p)
    BY <1>1 DEF PeersInv
  <2> QED
    BY <1>0, <1>3, <2>1, <2>2 DEF Met
<1>4. /\ UNCHANGED peer => peer' = [peer EXCEPT ![p] = x]
      /\ UNCHANGED up => up' = [up EXCEPT ![p] = u]
      /\ UNCHANGED down => down' = [down EXCEPT ![p] = d]
  BY DEF TypeOK
<1>5. ASSUME NEW m \in d.net, client_receive(p, m)
      PROVE  PeerOK(peer'[p], up'[p], down'[p], E) /\ Met(p)'
  <2> DEFINE c == [d EXCEPT !.rcvd = m.pos]
             y == peer'[p]
             v == up'[p]
  <2>1. x.link # "None" /\ m.pos = d.rcvd + 1 /\ down' = [down EXCEPT ![p] = c]
    BY <1>5 DEF client_receive
  <2>2. y \in Peer
    BY DEF TypeOK
  <2>3. CASE m.msg.type = "ConnectAccept" /\ on_connect_accept(p, m.msg.id)
    <3>1. /\ y = [x EXCEPT !.link = "Open", !.local_client_id = m.msg.id,
                           !.client_connected = TRUE, !.awaiting_accept = FALSE,
                           !.callbacks = Append(@, "connected")]
          /\ v = u /\ peer' = [peer EXCEPT ![p] = y] /\ up' = [up EXCEPT ![p] = v]
      BY <1>4, <2>3 DEF on_connect_accept, TypeOK
    <3>2. PeerOK(y, v, c, E)
      <4> HIDE DEF x, u, d, E, y, v
      <4> QED
        BY <1>2, <2>1, <2>2, <2>3, <3>1, PeerFollows
    <3>3. Live(y) => Live(x) /\ v.rcvd = u.rcvd
      <4> HIDE DEF x, u, d, E, y, v
      <4> QED
        BY <1>2, <2>1, <3>1 DEF Live, Peer, PeerOK
    <3> QED
      BY <1>3, <2>1, <3>1, <3>2, <3>3
  <2>4. CASE m.msg.type = "ConnectReject" /\ on_connect_reject(p)
    <3>1. /\ y = [x EXCEPT !.link = "None", !.awaiting_accept = FALSE,
                           !.client_connected = FALSE]
          /\ peer' = [peer EXCEPT ![p] = y] /\ up' = [up EXCEPT ![p] = v]
      BY <2>4 DEF on_connect_reject, TypeOK
    <3>2. PeerOK(y, v, c, E)
      <4> HIDE DEF x, u, d, E, y, v
      <4> QED
        BY <1>2, <2>1, <2>2, <2>4, <3>1, PeerFollows
    <3>3. Live(y) => Live(x) /\ v.rcvd = u.rcvd
      <4> HIDE DEF x, u, d, E, y, v
      <4> QED
        BY <1>2, <2>1, <3>1 DEF Live, Peer, PeerOK
    <3> QED
      BY <1>3, <2>1, <3>1, <3>2, <3>3
  <2>5. CASE m.msg.type = "DisconnectNotify" /\ on_server_disconnect(p)
    <3>1. /\ y = [x EXCEPT !.link = "None", !.client_connected = FALSE,
                           !.local_client_id = 0,
                           !.callbacks = Append(@, "disconnected")]
          /\ peer' = [peer EXCEPT ![p] = y] /\ up' = [up EXCEPT ![p] = v]
      BY <2>5 DEF on_server_disconnect, TypeOK
    <3>2. PeerOK(y, v, c, E)
      <4> HIDE DEF x, u, d, E, y, v
      <4> QED
        BY <1>2, <2>1, <2>2, <2>5, <3>1, PeerFollows
    <3>3. Live(y) => Live(x) /\ v.rcvd = u.rcvd
      <4> HIDE DEF x, u, d, E, y, v
      <4> QED
        BY <1>2, <2>1, <3>1 DEF Live, Peer, PeerOK
    <3> QED
      BY <1>3, <2>1, <3>1, <3>2, <3>3
  <2>6. CASE m.msg.type = "data" /\ on_server_data(p)
    <3>1. /\ y = [x EXCEPT !.link = "Open", !.data = @ + 1]
          /\ v = u /\ peer' = [peer EXCEPT ![p] = y] /\ up' = [up EXCEPT ![p] = v]
      BY <1>4, <2>6 DEF on_server_data, TypeOK
    <3>2. PeerOK(y, v, c, E)
      <4> HIDE DEF x, u, d, E, y, v
      <4> QED
        BY <1>2, <2>1, <2>2, <2>6, <3>1, PeerFollows
    <3>3. Live(y) => Live(x) /\ v.rcvd = u.rcvd
      <4> HIDE DEF x, u, d, E, y, v
      <4> QED
        BY <1>2, <2>1, <3>1 DEF Live, Peer, PeerOK
    <3> QED
      BY <1>3, <2>1, <3>1, <3>2, <3>3
  <2>7. m.msg.type \in {"ConnectAccept", "ConnectReject", "DisconnectNotify", "data"}
    BY <1>2 DEF Stream, DownMessage
  <2> QED
    BY <1>5, <2>3, <2>4, <2>5, <2>6, <2>7 DEF client_receive
<1>6. CASE start_client(p)
  <2> DEFINE y == [x EXCEPT !.mode = "Client", !.link = "Open", !.awaiting_accept = TRUE]
             v == Sent(u, <<"ConnectRequest">>)
  <2>1. /\ peer' = [peer EXCEPT ![p] = y] /\ up' = [up EXCEPT ![p] = v]
        /\ down' = [down EXCEPT ![p] = d] /\ x.mode = "Unstarted"
    BY <1>4, <1>6 DEF start_client
  <2>2. PeerOK(y, v, d, E)
    <3> HIDE DEF x, u, d, E
    <3> QED
      BY <1>2, <2>1, PeerStarts
  <2>3. Live(x) /\ v.rcvd = u.rcvd
    <3>1. "ConnectRequest" \in UpMessage
      BY DEF UpMessage
    <3> HIDE DEF x, u
    <3> QED
      BY <1>2, <2>1, <3>1, SentOne DEF Live
  <2> QED
    BY <1>3, <2>1, <2>2, <2>3
<1>7. ASSUME NEW msg \in {"data", "big"}, send(p, msg)
      PROVE  PeerOK(peer'[p], up'[p], down'[p], E) /\ Met(p)'
  <2> DEFINE v == Sent(u, <<msg>>)
  <2>1. /\ peer' = [peer EXCEPT ![p] = x] /\ up' = [up EXCEPT ![p] = v]
        /\ down' = [down EXCEPT ![p] = d] /\ x.link = "Open"
    BY <1>4, <1>7 DEF send, CanSend
  <2>2. PeerOK(x, v, d, E)
    <3> HIDE DEF x, u, d, E
    <3> QED
      BY <1>2, <2>1, PeerSends
  <2>3. Live(x) /\ v.rcvd = u.rcvd
    <3>1. msg \in UpMessage
      BY DEF UpMessage
    <3> HIDE DEF x, u
    <3> QED
      BY <1>2, <2>1, <3>1, SentOne DEF Live
  <2> QED
    BY <1>3, <2>1, <2>2, <2>3
<1>8. ASSUME NEW first, stop_client(p, first)
      PROVE  PeerOK(peer'[p], up'[p], down'[p], E) /\ Met(p)'
  <2> DEFINE y == [x EXCEPT !.mode = "None", !.client_connected = FALSE,
                          !.local_client_id = 0, !.awaiting_accept = FALSE,
                          !.link = "None"]
             v == up'[p]
  <2>1. /\ peer' = [peer EXCEPT ![p] = y] /\ up' = [up EXCEPT ![p] = v]
        /\ down' = [down EXCEPT ![p] = d] /\ x.mode = "Client"
    BY <1>4, <1>8 DEF stop_client, TypeOK
  <2>2. PeerOK(y, v, d, E)
    <3> HIDE DEF x, u, d, E, v
    <3> QED
      BY <1>2, <2>1, PeerStops
  <2>3. ~ Live(y)
    BY <1>2 DEF Live, Peer
  <2> QED
    BY <1>3, <2>1, <2>2, <2>3
<1> QED
  BY <1>5, <1>6, <1>7, <1>8 DEF ClientReceives

\* Something is sent to a client with an entry, which may lose it.
LEMMA PeersTold ==
  ASSUME TypeOK, PeersInv, NEW p \in Peers, EntriesOf(p) # {},
         NEW t \in {"DisconnectNotify", "data"},
         down' = SentDown(p, <<sys(t)>>), UNCHANGED <<active, peer, up, conn, lost>>,
         EntriesOf(p)' \in SUBSET EntriesOf(p),
         t = "data" => EntriesOf(p)' = EntriesOf(p),
         \A q \in Peers \ {p} : EntriesOf(q)' = EntriesOf(q),
         active' \/ clients' = {}
  PROVE  PeersInv'
<1> DEFINE x == peer[p]
           u == up[p]
           d == down[p]
           E == EntriesOf(p)
           F == EntriesOf(p)'
           c == Sent(d, <<sys(t)>>)
<1>1. \A q \in Peers \ {p} :
        /\ peer'[q] = peer[q] /\ up'[q] = up[q] /\ down'[q] = down[q] /\ conn'[q] = conn[q]
        /\ EntriesOf(q)' = EntriesOf(q)
  BY DEF SentDown, TypeOK
<1>2. SUFFICES ASSUME p \notin lost
               PROVE  PeerOK(x, u, down'[p], F)
  <2>1. p \notin lost => Met(p)'
    BY DEF PeersInv, Met
  <2> QED
    BY <1>1, <1>2, <2>1, OnlyPeer
<1>3. PeerOK(x, u, d, E) /\ Met(p) /\ d \in Stream(DownMessage)
  BY <1>2 DEF PeersInv, TypeOK
<1>4. CASE conn[p]
  <2>1. down'[p] = c
    BY <1>4 DEF SentDown, TypeOK
  <2>2. E # {} /\ F \in SUBSET E /\ (t = "data" => F = E)
    OBVIOUS
  <2> HIDE DEF x, u, d, E, F
  <2>3. PeerOK(x, u, c, E) /\ (Live(x) /\ t = "DisconnectNotify" => NoticeDue(c))
    BY <1>3, <2>2, PeerTold
  <2> HIDE DEF c
  <2>4. PeerOK(x, u, c, F)
    BY <2>2, <2>3, PeerRemoved
  <2> QED
    BY <2>1, <2>4
<1>5. CASE ~ conn[p]
  <2>1. ~ Live(x)
    BY <1>3, <1>5 DEF PeerOK, OneRequest, Met
  <2>2. down'[p] = d /\ F \in SUBSET E
    BY <1>5 DEF SentDown
  <2> HIDE DEF x, u, d, E, F
  <2>3. PeerOK(x, u, d, F)
    BY <1>3, <2>1, <2>2, PeerRemoved
  <2> QED
    BY <2>2, <2>3
<1> QED
  BY <1>4, <1>5

\* The calls of the server's application.
LEMMA PeersServer ==
  ASSUME TypeOK, EntriesDistinct, HostListed, PeersInv,
         \/ pop_message \/ add_local_client
         \/ \E e \in clients : disconnect_client(e) \/ send_to_client(e)
  PROVE  PeersInv'
<1>1. UNCHANGED <<active, peer, up, conn, lost>>
  BY DEF pop_message, add_local_client, disconnect_client, send_to_client, server, bounds
<1>2. ASSUME UNCHANGED down, \A q \in Peers : EntriesOf(q)' = EntriesOf(q),
             active' \/ clients' = {}
      PROVE  PeersInv'
  BY <1>1, <1>2 DEF PeersInv, Met
<1>3. CASE pop_message
  BY <1>2, <1>3 DEF pop_message, EntriesOf, PeersInv
<1>4. CASE add_local_client
  <2>1. /\ add_client([id |-> generate_client_id, peer |-> Local])
        /\ UNCHANGED down /\ active'
    BY <1>4 DEF add_local_client
  <2>2. \A q \in Peers : EntriesOf(q)' = EntriesOf(q)
    BY <2>1, EntryAdded, LocalAssumption
  <2> QED
    BY <1>2, <2>1, <2>2
<1>6. ASSUME NEW e \in clients, disconnect_client(e)
      PROVE  PeersInv'
  <2>1. /\ \A q \in Peers : q # e.peer => EntriesOf(q)' = EntriesOf(q)
        /\ \A q \in Peers : EntriesOf(q)' \in SUBSET EntriesOf(q)
        /\ active'
    BY <1>6, EntryRemoved DEF disconnect_client
  <2>2. e.peer \in Peers \cup {Local} /\ e.id # 0
    BY DEF TypeOK, ClientEntry, ClientId
  <2>3. CASE e.peer = Local
    <3>1. UNCHANGED down
      BY <1>6, <2>3 DEF disconnect_client
    <3> QED
      BY <1>2, <2>1, <2>3, <3>1, LocalAssumption
  <2>4. CASE e.peer \in Peers
    <3>1. e.id # host_id
      <4> SUFFICES ASSUME e.id = host_id
                   PROVE  FALSE
        OBVIOUS
      <4>1. PICK f \in clients : f.id = host_id /\ f.peer = Local
        BY <2>2 DEF HostListed
      <4> QED
        BY <2>4, <4>1, LocalAssumption DEF EntriesDistinct
    <3>2. down' = SentDown(e.peer, <<sys("DisconnectNotify")>>) /\ EntriesOf(e.peer) # {}
      BY <1>6, <2>4, <3>1, LocalAssumption DEF disconnect_client, EntriesOf
    <3> QED
      BY <1>1, <2>1, <2>4, <3>2, PeersTold
  <2> QED
    BY <2>2, <2>3, <2>4
<1>7. ASSUME NEW e \in clients, send_to_client(e)
      PROVE  PeersInv'
  <2>1. /\ e.peer \in Peers /\ down' = SentDown(e.peer, <<sys("data")>>) /\ active'
        /\ EntriesOf(e.peer) # {} /\ \A q \in Peers : EntriesOf(q)' = EntriesOf(q)
    BY <1>7 DEF send_to_client, server, TypeOK, ClientEntry, EntriesOf
  <2> QED
    BY <1>1, <2>1, PeersTold
<1> QED
  BY <1>3, <1>4, <1>6, <1>7

\* A connection is lost, or a Disconnect packet arrives: at the server only from
\* a peer that has closed its transport.
LEMMA PeersLose ==
  ASSUME TypeOK, PeersInv, NEW p \in Peers,
         lose_at_server(p) \/ lose_at_peer(p) \/ bye_at_server(p) \/ bye_at_peer(p)
  PROVE  PeersInv'
<1>1. /\ UNCHANGED <<active, clients>> /\ lost \subseteq lost'
      /\ \A q \in Peers \ {p} :
           /\ peer'[q] = peer[q] /\ up'[q] = up[q] /\ down'[q] = down[q]
           /\ conn'[q] = conn[q] /\ EntriesOf(q)' = EntriesOf(q)
      /\ EntriesOf(p)' = EntriesOf(p)
  BY DEF lose_at_server, lose_at_peer, bye_at_server, bye_at_peer, ServerForgets, server,
         bounds, EntriesOf, TypeOK
<1>2. SUFFICES ASSUME p \notin lost'
               PROVE  PeerOK(peer'[p], up'[p], down'[p], EntriesOf(p)') /\ Met(p)'
  BY <1>1, OnlyPeer DEF PeersInv
<1>3. /\ PeerOK(peer[p], up[p], down[p], EntriesOf(p)) /\ peer[p] \in Peer
      /\ down[p] \in Stream(DownMessage)
  BY <1>1, <1>2 DEF PeersInv, TypeOK
<1>4. UNCHANGED peer /\ ServerForgets(p) /\ up[p].bye
  BY <1>2, <1>3 DEF lose_at_server, lose_at_peer, bye_at_peer, bye_at_server, PeerOK
<1>5. /\ peer[p].link = "None" /\ peer[p].mode # "Unstarted"
      /\ ~ peer[p].client_connected /\ ToldInOrder(peer[p]) /\ ~ down[p].bye
  BY <1>3, <1>4 DEF PeerOK, Live, OneRequest, Peer
<1>6. ~ down'[p].bye
  BY <1>3, <1>4, <1>5 DEF ServerForgets, Stream, TypeOK
<1> QED
  BY <1>4, <1>5, <1>6, PeerClosed DEF Met, Live

\* stop() cuts the connections it finds: a live peer without one has not been
\* heard yet.
LEMMA PeersCut ==
  ASSUME TypeOK, PeersInv, stop
  PROVE  PeersInv'
<1>1. clients' = {}
  BY DEF stop
<1>2. ASSUME NEW p \in Peers \ lost'
      PROVE  PeerOK(peer'[p], up'[p], down'[p], EntriesOf(p)') /\ Met(p)'
  <2>1. /\ p \notin lost /\ ~ conn[p] /\ EntriesOf(p)' = {} /\ peer'[p] = peer[p]
        /\ up'[p] = [up[p] EXCEPT !.rcvd = 0]
        /\ down'[p] = [down[p] EXCEPT !.sent = 0, !.bye = @ \/ FALSE]
    BY <1>1, <1>2 DEF stop, EntriesOf
  <2> DEFINE x == peer[p]
             u == up[p]
             d == down[p]
             v == up'[p]
             c == down'[p]
             E == EntriesOf(p)
  <2>2. PeerOK(x, u, d, E) /\ (Live(x) => u.rcvd = 0) /\ x \in Peer
    BY <2>1 DEF PeersInv, Met, TypeOK
  <2>3. /\ v.net = u.net /\ v.sent = u.sent /\ v.bye = u.bye /\ v.rcvd = 0
        /\ c.net = d.net /\ c.rcvd = d.rcvd /\ c.sent = 0 /\ (~ d.bye => ~ c.bye)
    BY <2>1 DEF TypeOK, Stream
  <2>4. Met(p)'
    BY <2>3 DEF Met
  <2> HIDE DEF x, u, d, v, c, E
  <2>5. PeerOK(x, v, c, {})
    <3>1. CASE Live(x)
      <4>1. OneRequest(x, u, d, E) /\ d.net = {} /\ d.sent = 0
        BY <2>2, <3>1 DEF PeerOK, OneRequest
      <4>2. AnswerFirst(c) /\ Numbered(c) /\ ~ Accepted(c)
        BY <2>3, <4>1 DEF OneRequest, AnswerFirst, Numbered, Accepted
      <4>3. OneRequest(x, v, c, {})
        BY <2>3, <4>1, <4>2 DEF OneRequest
      <4> QED
        BY <2>2, <2>3, <3>1, <4>3 DEF PeerOK
    <3>2. CASE ~ Live(x)
      BY <2>2, <2>3, <3>2 DEF PeerOK
    <3> QED
      BY <3>1, <3>2
  <2> QED
    BY <2>1, <2>4, <2>5 DEF x, v, c
<1> QED
  BY <1>1, <1>2 DEF PeersInv

\* start() lists the host's own client only.
LEMMA PeersRestart ==
  ASSUME PeersInv, start
  PROVE  PeersInv'
<1>1. /\ UNCHANGED <<peer, conn, up, down, lost>> /\ active' /\ clients' = HostClients
      /\ clients = {}
  BY DEF start, bounds, PeersInv
<1>2. \A p \in Peers : EntriesOf(p)' = {} /\ EntriesOf(p) = {}
  BY <1>1, LocalAssumption DEF EntriesOf, HostClients, HostEntry
<1> QED
  BY <1>1, <1>2 DEF PeersInv, Met

LEMMA PeersInductive == Spec => []PeersInv
<1>1. Init => PeersInv
  <2> SUFFICES ASSUME Init, NEW p \in Peers
               PROVE  PeerOK(peer[p], up[p], down[p], EntriesOf(p)) /\ Met(p)
    BY DEF PeersInv, Init
  <2>1. EntriesOf(p) = {}
    BY LocalAssumption DEF Init, HostClients, HostEntry, EntriesOf
  <2>2. /\ peer[p].mode = "Unstarted" /\ ~ peer[p].client_connected
        /\ peer[p].link = "None" /\ peer[p].data = 0 /\ peer[p].callbacks = << >>
        /\ up[p] = NewStream /\ down[p] = NewStream
    BY DEF Init
  <2>3. /\ NewStream.net = {} /\ NewStream.sent = 0 /\ NewStream.rcvd = 0
        /\ ~ NewStream.bye
    BY DEF NewStream
  <2> QED
    BY <2>1, <2>2, <2>3
       DEF PeerOK, OneRequest, AnswerFirst, Numbered, Accepted, ToldInOrder, Met
<1>2. ASSUME PeersInv, TypeOK, TypeOK', EntriesDistinct, HostListed, FiniteClients,
             [Next]_vars
      PROVE  PeersInv'
  <2>1. CASE UNCHANGED vars
    BY <1>2, <2>1 DEF PeersInv, Met, EntriesOf, vars, server, bounds
  <2>2. CASE \E p \in Peers : \/ lose_at_server(p) \/ lose_at_peer(p)
                              \/ bye_at_server(p) \/ bye_at_peer(p)
    BY <1>2, <2>2, PeersLose
  <2>3. CASE stop \/ start
    BY <1>2, <2>3, PeersCut, PeersRestart
  <2>5. CASE \E p \in Peers : ServerReceives(p)
    BY <1>2, <2>5, PeersReceive DEF ServerReceives
  <2>6. CASE \/ pop_message \/ add_local_client
             \/ \E e \in clients : disconnect_client(e) \/ send_to_client(e)
    BY <1>2, <2>6, PeersServer
  <2>7. CASE \E p \in Peers :
               \/ ClientReceives(p)
               \/ start_client(p)
               \/ \E msg \in {"data", "big"} : send(p, msg)
               \/ \E first \in {<< >>, <<"notify_byte">>} : stop_client(p, first)
    BY <1>2, <2>7, PeersClient
  <2> QED
    BY <1>2, <2>1, <2>2, <2>3, <2>5, <2>6, <2>7 DEF Next
<1> QED
  BY <1>1, <1>2, TypeCorrect, EntriesDistinctHolds, HostListedInductive, FiniteInit,
     FiniteStep, PTL DEF Spec

\* A client whose connection was not lost or cut, and that takes itself for
\* connected, has the id of its entry; if it was removed, perhaps before it was told
\* of its acceptance and with its id given to another already, the notification is
\* on its way.  For any number of peers, losses of others, stops and restarts.
THEOREM IdentityAgreesHolds == Spec => []IdentityAgrees
<1>1. PeersInv /\ TypeOK => IdentityAgrees
  <2> SUFFICES ASSUME PeersInv, TypeOK, NEW p \in Peers \ lost, peer[p].client_connected
               PROVE  /\ \A e \in EntriesOf(p) : e.id = peer[p].local_client_id
                      /\ ~ known(p) => NoticeDue(down[p])
    BY DEF IdentityAgrees
  <2>1. PeerOK(peer[p], up[p], down[p], EntriesOf(p)) /\ peer[p] \in Peer
    BY DEF PeersInv, TypeOK
  <2>2. OneRequest(peer[p], up[p], down[p], EntriesOf(p))
    BY <2>1 DEF PeerOK, Live, Peer
  <2> QED
    BY <2>2 DEF OneRequest, Accepted, known
<1> QED
  BY <1>1, PeersInductive, TypeCorrect, PTL

\* The application of a client whose connection was not lost or cut is told of one
\* connection and then of its end, and is handed data only between, whatever happens
\* to the others and however often the server is stopped and started.
THEOREM ClientCallbackOrderHolds == Spec => []ClientCallbackOrder
<1>1. PeersInv => ClientCallbackOrder
  BY DEF PeersInv, PeerOK, ToldInOrder, ClientCallbackOrder
<1> QED
  BY <1>1, PeersInductive, PTL
=============================================================================
