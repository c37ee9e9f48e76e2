--------------------------- MODULE NetworkSession ---------------------------
(***************************************************************************)
(* Connection management of NetworkManager                                 *)
(* (src/src/network_manager.cpp): a server, or a host with a client of its *)
(* own, and the managers of remote clients.                                *)
(*                                                                         *)
(* A `peer' is one life of a client's manager, from start() to stop():     *)
(* every start() makes a new transport and so a new address, and the       *)
(* address is what the server knows a peer by.                             *)
(*                                                                         *)
(* System messages and the application's data go over the ReliableOrdered  *)
(* channel of UdpTransport, here in terms of what UdpLink shows of it: an  *)
(* end takes the message at the next position; a connection that one end   *)
(* loses starts again from position 1 there, and what was sent before may  *)
(* still arrive.                                                           *)
(*                                                                         *)
(* poll() sends a connect request if the client is neither connected nor   *)
(* waiting for an answer and its transport is connected.  That never       *)
(* happens: start() sends the request itself, and what ends the wait       *)
(* without an acceptance closes the transport.                             *)
(***************************************************************************)
EXTENDS Integers, Sequences, FiniteSets

CONSTANTS
  Peers,       \* the clients' managers, each for one start()
  Local,       \* in place of a peer: a local client
  Host,        \* the server's mode is Host
  MaxClients,  \* config.max_clients
  MaxData,     \* bound: messages of the application in each direction
  MaxQueue,    \* bound: messages the server's application has not popped
  MaxLosses,   \* bound: connections lost by silence or exhausted retries
  MaxLocals,   \* bound: calls of add_local_client()
  MaxStops     \* bound: calls of stop() on the server

ASSUME LocalAssumption == Local \notin Peers
ASSUME HostAssumption == Host \in BOOLEAN
ASSUME BoundAssumption ==
  /\ MaxClients \in Nat /\ MaxData \in Nat /\ MaxQueue \in Nat
  /\ MaxLosses \in Nat /\ MaxLocals \in Nat /\ MaxStops \in Nat

VARIABLES
  active,         \* the server's mode is not None
  clients,        \* clients of the server
  host_id,        \* its local_client_id
  message_queue,  \* its messages, with the peer that sent them
  announced,      \* ids for which on_connected was called and on_disconnected not
  replicated,     \* ids in client_states_ of its replication manager
  peer,           \* the manager of each peer
  conn,           \* has the server's transport a connection to the peer?
  up, down,       \* what was sent to the server and to the peer
  losses, locals, stops, \* counters of the bounds
  lost            \* history: peers whose connection an end lost or stop() cut

server == <<active, clients, host_id, message_queue, announced, replicated>>
bounds == <<losses, locals, stops, lost>>
vars == <<server, peer, conn, up, down, bounds>>

\* The id 0 stands for no client.
ClientId == Nat \ {0}
ClientEntry == [id : ClientId, peer : Peers \cup {Local}]

\* A packet of the client's that the server's manager tells apart: the first
\* two are system messages, big is data above max_packet_size.
UpMessage == {"ConnectRequest", "DisconnectNotify", "data", "big", "notify_byte"}

DownMessage ==
  [type : {"ConnectAccept", "ConnectReject", "DisconnectNotify", "data"}, id : Nat]

\* link is the peer's transport: open, without a connection, or without a socket.
Peer ==
  [mode : {"Unstarted", "Client", "None"}, client_connected : BOOLEAN,
   local_client_id : Nat, awaiting_accept : BOOLEAN,
   link : {"None", "Open", "Lost"}, data : Nat,
   callbacks : Seq({"connected", "disconnected"})]

\* One direction of a connection: the datagrams sent with their positions, the
\* positions the two ends are at, and whether a Disconnect packet is on its way
\* to a connection it can end.
Stream(M) ==
  [net : SUBSET [pos : Nat, msg : M], sent : Nat, rcvd : Nat, bye : BOOLEAN]

TypeOK ==
  /\ active \in BOOLEAN
  /\ clients \subseteq ClientEntry
  /\ host_id \in Nat
  /\ message_queue \in Seq([client : ClientId, payload : UpMessage, from : Peers])
  /\ announced \subseteq ClientId
  /\ replicated \subseteq ClientId
  /\ peer \in [Peers -> Peer]
  /\ conn \in [Peers -> BOOLEAN]
  /\ up \in [Peers -> Stream(UpMessage)]
  /\ down \in [Peers -> Stream(DownMessage)]
  /\ losses \in 0 .. MaxLosses
  /\ locals \in 0 .. MaxLocals
  /\ stops \in 0 .. MaxStops
  /\ lost \subseteq Peers

NewStream == [net |-> {}, sent |-> 0, rcvd |-> 0, bye |-> FALSE]

HostEntry == [id |-> 1, peer |-> Local]

\* start() of the server.  The replication manager, which was set before, is
\* not told of the host's own client.
HostClients == IF Host THEN {HostEntry} ELSE {}
HostIds == IF Host THEN {1} ELSE {}
HostId == IF Host THEN 1 ELSE 0

Init ==
  /\ active = TRUE
  /\ clients = HostClients
  /\ host_id = HostId
  /\ announced = HostIds
  /\ message_queue = << >>
  /\ replicated = {}
  /\ peer = [p \in Peers |->
       [mode |-> "Unstarted", client_connected |-> FALSE, local_client_id |-> 0,
        awaiting_accept |-> FALSE, link |-> "None", data |-> 0, callbacks |-> << >>]]
  /\ conn = [p \in Peers |-> FALSE]
  /\ up = [p \in Peers |-> NewStream]
  /\ down = [p \in Peers |-> NewStream]
  /\ losses = 0
  /\ locals = 0
  /\ stops = 0
  /\ lost = {}

-----------------------------------------------------------------------------
(* The transport.                                                          *)

\* The messages ms, one after the other.
Sent(s, ms) ==
  [s EXCEPT !.net = @ \cup {[pos |-> s.sent + i, msg |-> ms[i]] : i \in DOMAIN ms},
            !.sent = @ + Len(ms)]

\* Faulty variant: nothing is sent.
SentDown_None(p, ms) == down

\* send_to() of the server fails if there is no connection.
SentDown(p, ms) == IF conn[p] THEN [down EXCEPT ![p] = Sent(@, ms)] ELSE down

sys(type) == [type |-> type, id |-> 0]

\* Faulty variant: the number of clients is sent for the id.
accept_Count(id) == [type |-> "ConnectAccept", id |-> Cardinality(clients)]

accept(id) == [type |-> "ConnectAccept", id |-> id]

\* Faulty variants: the answer to a refused request in the other order, or none.
reject_Swapped == <<sys("DisconnectNotify"), sys("ConnectReject")>>
reject_None == << >>

\* The reject and then a notification from disconnect_transport_client.
reject == <<sys("ConnectReject"), sys("DisconnectNotify")>>

\* The server's transport loses the connection to p.
ServerForgets(p) ==
  /\ conn' = [conn EXCEPT ![p] = FALSE]
  /\ up' = [up EXCEPT ![p].rcvd = 0, ![p].bye = FALSE]
  /\ down' = [down EXCEPT ![p].sent = 0]

lose_at_server(p) ==
  /\ conn[p]
  /\ losses < MaxLosses
  /\ losses' = losses + 1
  /\ lost' = lost \cup {p}
  /\ ServerForgets(p)
  /\ UNCHANGED <<server, peer, locals, stops>>

lose_at_peer(p) ==
  /\ peer[p].link = "Open"
  /\ losses < MaxLosses
  /\ losses' = losses + 1
  /\ lost' = lost \cup {p}
  /\ peer' = [peer EXCEPT ![p].link = "Lost"]
  /\ up' = [up EXCEPT ![p].sent = 0]
  /\ down' = [down EXCEPT ![p].rcvd = 0, ![p].bye = FALSE]
  /\ UNCHANGED <<server, conn, locals, stops>>

\* A Disconnect packet arrives, perhaps before messages that were sent earlier.
bye_at_server(p) ==
  /\ active
  /\ up[p].bye
  /\ conn[p]
  /\ ServerForgets(p)
  /\ UNCHANGED <<server, peer, bounds>>

bye_at_peer(p) ==
  /\ down[p].bye
  /\ peer[p].link = "Open"
  /\ peer' = [peer EXCEPT ![p].link = "Lost"]
  /\ up' = [up EXCEPT ![p].sent = 0]
  /\ down' = [down EXCEPT ![p].rcvd = 0, ![p].bye = FALSE]
  /\ UNCHANGED <<server, conn, bounds>>

-----------------------------------------------------------------------------
(* The server's clients.                                                   *)

Ids == {e.id : e \in clients}
EntriesOf(p) == {e \in clients : e.peer = p}
IdOf(p) == (CHOOSE e \in clients : e.peer = p).id

\* Faulty variant: ids are given by counting the clients.
generate_client_id_Count == Cardinality(clients) + 1

\* Faulty variant: ids from 0.
generate_client_id_Zero ==
  CHOOSE i \in 0 .. Cardinality(clients) :
    i \notin Ids /\ \A j \in 0 .. i - 1 : j \in Ids

\* The least id above 0 that is not in use.
generate_client_id ==
  CHOOSE i \in 1 .. Cardinality(clients) + 1 :
    i \notin Ids /\ \A j \in 1 .. i - 1 : j \in Ids

\* Faulty variant: one client too many.
full_Late == Cardinality(clients) > MaxClients

\* Every entry is approved; local clients count.
full == Cardinality(clients) >= MaxClients

\* Faulty variant: the replication manager is not told.
add_client_Unserved(e) ==
  /\ clients' = clients \cup {e}
  /\ announced' = announced \cup {e.id}
  /\ UNCHANGED replicated

\* The callback, then the replication manager.
add_client(e) ==
  /\ clients' = clients \cup {e}
  /\ announced' = announced \cup {e.id}
  /\ replicated' = replicated \cup {e.id}

\* Faulty variant: the application is not told.
remove_client_Silent(id) ==
  /\ clients' = {e \in clients : e.id # id}
  /\ replicated' = replicated \ {id}
  /\ UNCHANGED announced

remove_client(id) ==
  /\ clients' = {e \in clients : e.id # id}
  /\ announced' = announced \ {id}
  /\ replicated' = replicated \ {id}

-----------------------------------------------------------------------------
(* The server receives.                                                    *)

\* Faulty variant: known addresses are not looked for.
known_Never(p) == FALSE

known(p) == EntriesOf(p) # {}

\* ok: the token is valid and the approval callback agrees.
on_connect_request(p, ok) ==
  /\ UNCHANGED <<active, host_id, message_queue>>
  /\ IF known(p)
       THEN /\ down' = [down EXCEPT ![p] = Sent(@, <<accept(IdOf(p))>>)]
            /\ UNCHANGED <<clients, announced, replicated>>
       ELSE IF ok /\ ~ full
         THEN /\ add_client([id |-> generate_client_id, peer |-> p])
              /\ down' = [down EXCEPT ![p] = Sent(@, <<accept(generate_client_id)>>)]
         ELSE /\ down' = [down EXCEPT ![p] = Sent(@, reject)]
              /\ UNCHANGED <<clients, announced, replicated>>

\* A notification; what an unknown address sends is ignored.
on_disconnect_notify(p) ==
  /\ known(p)
  /\ remove_client(IdOf(p))
  /\ UNCHANGED <<active, host_id, message_queue, down>>

\* Data; ok: the rate limiter lets it pass.
on_user_data(p, msg, ok) ==
  /\ known(p)
  /\ message_queue' = IF ok THEN Append(message_queue, [client |-> IdOf(p),
                                                        payload |-> msg, from |-> p])
                            ELSE message_queue
  /\ UNCHANGED <<active, host_id, clients, announced, replicated, down>>

\* Data that is too large ends the connection.
on_oversized(p) ==
  /\ known(p)
  /\ remove_client(IdOf(p))
  /\ down' = [down EXCEPT ![p] = Sent(@, <<sys("DisconnectNotify")>>)]
  /\ UNCHANGED <<active, host_id, message_queue>>

ignore_unknown(p) == ~ known(p) /\ UNCHANGED <<server, down>>

\* poll() takes the next message of p, and process_system_message or the data
\* path of poll_transport_receives_for handles it.  A packet from an unknown
\* address makes a connection.
server_receive(p, d, ok) ==
  /\ active
  /\ d \in up[p].net
  /\ d.pos = up[p].rcvd + 1
  /\ Len(message_queue) < MaxQueue
  /\ up' = [up EXCEPT ![p].rcvd = d.pos]
  /\ conn' = [conn EXCEPT ![p] = TRUE]
  /\ CASE d.msg = "ConnectRequest" -> on_connect_request(p, ok)
       [] d.msg = "DisconnectNotify" -> on_disconnect_notify(p) \/ ignore_unknown(p)
       [] d.msg = "big" -> on_oversized(p) \/ ignore_unknown(p)
       [] OTHER -> on_user_data(p, d.msg, ok) \/ ignore_unknown(p)
  /\ UNCHANGED <<peer, bounds>>

-----------------------------------------------------------------------------
(* The server's application.                                               *)

pop_message ==
  /\ message_queue # << >>
  /\ message_queue' = Tail(message_queue)
  /\ UNCHANGED <<active, clients, host_id, announced, replicated, peer, conn, up, down,
                 bounds>>

\* A local client, for which no slot is needed.
add_local_client ==
  /\ active
  /\ locals < MaxLocals
  /\ locals' = locals + 1
  /\ add_client([id |-> generate_client_id, peer |-> Local])
  /\ UNCHANGED <<active, host_id, message_queue, peer, conn, up, down, losses, stops,
                 lost>>

\* disconnect_client() and remove_local_client(); disconnect() of a host is
\* this for its own client.
disconnect_client(e) ==
  /\ active
  /\ e \in clients
  /\ host_id' = IF e.id = host_id THEN 0 ELSE host_id
  /\ down' = IF e.id # host_id /\ e.peer # Local
               THEN SentDown(e.peer, <<sys("DisconnectNotify")>>) ELSE down
  /\ remove_client(e.id)
  /\ UNCHANGED <<active, message_queue, peer, conn, up, bounds>>

\* send() to a client; broadcast() is this for each of them.
send_to_client(e) ==
  /\ active
  /\ e \in clients
  /\ e.peer # Local
  /\ conn[e.peer]
  /\ Cardinality({d \in down[e.peer].net : d.msg.type = "data"}) < MaxData
  /\ down' = SentDown(e.peer, <<sys("data")>>)
  /\ UNCHANGED <<server, peer, conn, up, bounds>>

\* stop(): neither the callback nor the replication manager is called.
stop ==
  /\ active
  /\ stops < MaxStops
  /\ stops' = stops + 1
  /\ lost' = lost \cup {p \in Peers : conn[p]}
  /\ active' = FALSE
  /\ down' = [p \in Peers |->
       LET s == IF conn[p] /\ known(p)
                  THEN Sent(down[p], <<sys("DisconnectNotify")>>) ELSE down[p]
       IN [s EXCEPT !.sent = 0, !.bye = @ \/ conn[p]]]
  /\ up' = [p \in Peers |-> [up[p] EXCEPT !.rcvd = 0]]
  /\ conn' = [p \in Peers |-> FALSE]
  /\ clients' = {}
  /\ message_queue' = << >>
  /\ host_id' = 0
  /\ UNCHANGED <<announced, replicated, peer, losses, locals>>

start ==
  /\ ~ active
  /\ active' = TRUE
  /\ clients' = HostClients
  /\ host_id' = HostId
  /\ announced' = announced \cup HostIds
  /\ UNCHANGED <<message_queue, replicated, peer, conn, up, down, bounds>>

-----------------------------------------------------------------------------
(* A client.                                                               *)

start_client(p) ==
  /\ peer[p].mode = "Unstarted"
  /\ peer' = [peer EXCEPT ![p].mode = "Client", ![p].link = "Open",
                          ![p].awaiting_accept = TRUE]
  /\ up' = [up EXCEPT ![p] = Sent(@, <<"ConnectRequest">>)]
  /\ UNCHANGED <<server, conn, down, bounds>>

CanSend(p) == peer[p].client_connected /\ peer[p].link = "Open"

send(p, msg) ==
  /\ peer[p].mode = "Client"
  /\ CanSend(p)
  /\ Cardinality({d \in up[p].net : d.msg \in {"data", "big"}}) < MaxData
  /\ up' = [up EXCEPT ![p] = Sent(@, <<msg>>)]
  /\ UNCHANGED <<server, peer, conn, down, bounds>>

\* The transport sends Disconnect and closes its socket.
Closed(s, link) == [s EXCEPT !.bye = @ \/ link = "Open"]

\* stop(), or disconnect(), which first sends the type of a notification alone.
stop_client(p, first) ==
  /\ peer[p].mode = "Client"
  /\ first \in {<< >>, <<"notify_byte">>}
  /\ up' = [up EXCEPT ![p] =
       Closed(IF CanSend(p) THEN Sent(@, first \o <<"DisconnectNotify">>) ELSE @,
              peer[p].link)]
  /\ peer' = [peer EXCEPT ![p].mode = "None", ![p].client_connected = FALSE,
                          ![p].local_client_id = 0, ![p].awaiting_accept = FALSE,
                          ![p].link = "None"]
  /\ UNCHANGED <<server, conn, down, bounds>>

on_connect_accept(p, id) ==
  /\ peer' = [peer EXCEPT ![p].link = "Open", ![p].local_client_id = id,
                          ![p].client_connected = TRUE, ![p].awaiting_accept = FALSE,
                          ![p].callbacks = Append(@, "connected")]
  /\ UNCHANGED up

on_connect_reject(p) ==
  /\ peer' = [peer EXCEPT ![p].link = "None", ![p].awaiting_accept = FALSE,
                          ![p].client_connected = FALSE]
  /\ up' = [up EXCEPT ![p] = Closed(@, "Open")]

on_server_disconnect(p) ==
  /\ peer' = [peer EXCEPT ![p].link = "None", ![p].client_connected = FALSE,
                          ![p].local_client_id = 0,
                          ![p].callbacks = Append(@, "disconnected")]
  /\ up' = [up EXCEPT ![p] = Closed(@, "Open")]

on_server_data(p) ==
  /\ peer' = [peer EXCEPT ![p].link = "Open", ![p].data = @ + 1]
  /\ UNCHANGED up

\* A packet that finds no connection makes one here too.
client_receive(p, d) ==
  /\ peer[p].link # "None"
  /\ d \in down[p].net
  /\ d.pos = down[p].rcvd + 1
  /\ down' = [down EXCEPT ![p].rcvd = d.pos]
  /\ CASE d.msg.type = "ConnectAccept" -> on_connect_accept(p, d.msg.id)
       [] d.msg.type = "ConnectReject" -> on_connect_reject(p)
       [] d.msg.type = "DisconnectNotify" -> on_server_disconnect(p)
       [] d.msg.type = "data" -> on_server_data(p)
  /\ UNCHANGED <<server, conn, bounds>>

-----------------------------------------------------------------------------
ServerReceives(p) == \E d \in up[p].net, ok \in BOOLEAN : server_receive(p, d, ok)
ClientReceives(p) == \E d \in down[p].net : client_receive(p, d)

Next ==
  \/ \E p \in Peers : lose_at_server(p)
  \/ \E p \in Peers : lose_at_peer(p)
  \/ \E p \in Peers : bye_at_server(p)
  \/ \E p \in Peers : bye_at_peer(p)
  \/ \E p \in Peers : ServerReceives(p)
  \/ \E p \in Peers : ClientReceives(p)
  \/ pop_message
  \/ add_local_client
  \/ \E e \in clients : disconnect_client(e)
  \/ \E e \in clients : send_to_client(e)
  \/ stop
  \/ start
  \/ \E p \in Peers : start_client(p)
  \/ \E p \in Peers, msg \in {"data", "big"} : send(p, msg)
  \/ \E p \in Peers, first \in {<< >>, <<"notify_byte">>} : stop_client(p, first)

Spec == Init /\ [][Next]_vars

\* Both sides poll and the application pops its messages.  A message gets to the
\* other side while the sender's connection lasts, for so long is it repeated.
Fairness ==
  /\ WF_vars(pop_message)
  /\ \A p \in Peers : /\ WF_vars(peer[p].link = "Open" /\ ServerReceives(p))
                      /\ WF_vars(conn[p] /\ ClientReceives(p))

FairSpec == Spec /\ Fairness

-----------------------------------------------------------------------------
(* Properties.                                                             *)

\* Whatever requests, replays and removals come together, an id names one
\* client and a remote address has one entry.
EntriesDistinct ==
  \A e, f \in clients : e.id = f.id \/ (e.peer = f.peer /\ e.peer # Local) => e = f

\* Local clients may exceed max_clients, remote ones never do.
SlotsBounded == Cardinality({e \in clients : e.peer # Local}) <= MaxClients

\* on_client_connected is "invoked when a new client connects", and
\* on_client_disconnected "when a client disconnects": the ids that the
\* application has been told of are the ids of the clients.
CallbacksTrackClients == announced = Ids

\* The replication manager serves the clients, all but a host's own.
ReplicationTracksClients == active => replicated = Ids \ {host_id}

\* The server's notification is on its way.
NoticeDue(d) ==
  \E m \in d.net : m.msg.type = "DisconnectNotify" /\ m.pos > d.rcvd

\* local_client_id is "assigned by the server during handshake": whatever removals
\* overtake the acceptance and whoever gets the id next, a client that takes itself
\* for connected has the id of its entry, or it has none and is about to be told.
\* Lost connections apart: the server cannot tell such a client anything.
IdentityAgrees ==
  \A p \in Peers \ lost : peer[p].client_connected =>
    /\ \A e \in EntriesOf(p) : e.id = peer[p].local_client_id
    /\ ~ known(p) => NoticeDue(down[p])

\* The same id on both sides, lost connections or not.
IdentityAgreesAlways ==
  \A p \in Peers : \A e \in EntriesOf(p) :
    peer[p].client_connected => e.id = peer[p].local_client_id

\* A client's application is told of one connection, and then of its end; data
\* comes between.  A connection that was lost may be announced again.
ClientCallbackOrder ==
  \A p \in Peers \ lost :
    /\ peer[p].callbacks \in {<< >>, <<"connected">>, <<"connected", "disconnected">>}
    /\ peer[p].data > 0 => peer[p].callbacks # << >>

\* The client field of a ReceivedMessage is its "Sender": a message that is
\* popped while its client id is in use comes from the client that has it.
AttributedToSender ==
  \A i \in DOMAIN message_queue :
    LET m == message_queue[i] IN \A e \in clients : e.id = m.client => e.peer = m.from

\* pop_message gives "the next user message": the application of the client
\* sent it.
UserDataOnly ==
  \A i \in DOMAIN message_queue : message_queue[i].payload = "data"

\* An attempt to connect is answered, or is given up.
ConnectAttemptEnds ==
  \A p \in Peers : peer[p].awaiting_accept ~> ~ peer[p].awaiting_accept

\* disconnect_client "gracefully" disconnects: a client without an entry does
\* not go on taking itself for connected.
RemovedIsTold ==
  \A p \in Peers :
    (peer[p].client_connected /\ ~ known(p)) ~> (~ peer[p].client_connected \/ known(p))

\* "Graceful disconnection ... and timeout detection": the entry of a client
\* that is gone is removed.
GoneIsRemoved ==
  \A p \in Peers : (known(p) /\ peer[p].mode = "None") ~> ~ known(p)
=============================================================================
