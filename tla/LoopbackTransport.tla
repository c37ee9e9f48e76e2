------------------------- MODULE LoopbackTransport --------------------------
(***************************************************************************)
(* LoopbackHub and LoopbackTransport                                       *)
(* (src/src/transport/loopback_transport.cpp): transports of one process   *)
(* that exchange packets through a shared router.  All addresses have the  *)
(* ip 127.0.0.1 and are told apart by their port.                          *)
(*                                                                         *)
(* The loss and the latency of a transport are settings.  The clock is the *)
(* action lb_tick: a delayed packet holds the time it still has to wait.   *)
(***************************************************************************)
EXTENDS Integers, Sequences, FiniteSets, Functions, QueueFilter

CONSTANTS
  LbTransports,   \* the transports that share the hub
  LbPortCount,    \* how many ports there are (2^16 in the code)
  LbFirstPort,    \* the first port of the hub for clients (50000)
  LbServerPorts,  \* ports that applications bind
  LbLatencies,    \* latencies an application sets
  LbDisciplined,  \* see below
  LbMaxConnects,  \* bound: calls of connect_client
  LbMaxSends      \* bound: packets sent

\* LbDisciplined: applications bind free addresses with transports that are not
\* in use and lower a latency only while nothing is delayed.

ASSUME LbAssumption ==
  /\ LbPortCount \in Nat \ {0} /\ LbFirstPort \in 0 .. LbPortCount - 1
  /\ LbServerPorts \subseteq 0 .. LbPortCount - 1
  /\ LbLatencies \subseteq Nat /\ 0 \in LbLatencies
  /\ LbDisciplined \in BOOLEAN
  /\ LbMaxConnects \in Nat /\ LbMaxSends \in Nat

VARIABLES
  lb,           \* the members of each transport
  lb_servers,   \* servers_ of the hub
  lb_clients,   \* clients_
  lb_route,     \* client_to_server_
  lb_next_port, \* next_port_
  lb_connects,  \* counter of the bound
  lb_sends      \* packets sent so far: their numbers

lb_hub == <<lb_servers, lb_clients, lb_route, lb_next_port, lb_connects>>
lb_vars == <<lb, lb_hub, lb_sends>>

LbPort == 0 .. LbPortCount - 1
NoPort == -1
LbAddress == LbPort \cup {NoPort}

\* from is the transport that sent the packet.
LbPacket == [from : LbTransports, sender : LbAddress, n : 1 .. LbMaxSends]
DelayedPacket ==
  [left : Nat, recipient : LbAddress, packet : LbPacket, broadcast : BOOLEAN]

\* heard is the last packet the application took of each transport.
LbState ==
  [bound : BOOLEAN, connected : BOOLEAN, local_addr : LbAddress,
   remote_addr : LbAddress, pending_recv : Seq(LbPacket), ready_recv : Seq(LbPacket),
   latency : LbLatencies, delayed_outbound : Seq(DelayedPacket),
   heard : [LbTransports -> 0 .. LbMaxSends]]

LoopbackTypeOK ==
  /\ lb \in [LbTransports -> LbState]
  /\ DOMAIN lb_servers \subseteq LbServerPorts /\ Range(lb_servers) \subseteq LbTransports
  /\ DOMAIN lb_clients \subseteq LbPort /\ Range(lb_clients) \subseteq LbTransports
  /\ DOMAIN lb_route \subseteq LbPort /\ Range(lb_route) \subseteq LbServerPorts
  /\ lb_next_port \in LbPort
  /\ lb_connects \in 0 .. LbMaxConnects
  /\ lb_sends \in 0 .. LbMaxSends

LbEmpty == [a \in {} |-> 0]

LoopbackInit ==
  /\ lb = [t \in LbTransports |->
            [bound |-> FALSE, connected |-> FALSE, local_addr |-> NoPort,
             remote_addr |-> NoPort, pending_recv |-> << >>, ready_recv |-> << >>,
             latency |-> 0, delayed_outbound |-> << >>,
             heard |-> [s \in LbTransports |-> 0]]]
  /\ lb_servers = LbEmpty /\ lb_clients = LbEmpty /\ lb_route = LbEmpty
  /\ lb_next_port = LbFirstPort
  /\ lb_connects = 0
  /\ lb_sends = 0

-----------------------------------------------------------------------------
(* The hub.                                                                *)

LbErase(map, keys) == Restrict(map, DOMAIN map \ keys)

LbPut(map, key, value) ==
  [a \in DOMAIN map \cup {key} |-> IF a = key THEN value ELSE map[a]]

\* The first port from next_port_ on, wrapping, that no client has.
FreePort ==
  LET after(k) == (lb_next_port + k) % LbPortCount IN
  after(CHOOSE k \in 0 .. LbPortCount - 1 :
          /\ after(k) \notin DOMAIN lb_clients
          /\ \A j \in 0 .. k - 1 : after(j) \in DOMAIN lb_clients)

bind_server(a, t) ==
  /\ lb_servers' = LbPut(lb_servers, a, t)
  /\ UNCHANGED <<lb_clients, lb_route, lb_next_port, lb_connects>>

\* The clients of the server are forgotten and not told.
unbind_server(a) ==
  LET gone == {c \in DOMAIN lb_route : lb_route[c] = a} IN
  /\ lb_servers' = LbErase(lb_servers, {a})
  /\ lb_clients' = LbErase(lb_clients, gone)
  /\ lb_route' = LbErase(lb_route, gone)
  /\ UNCHANGED <<lb_next_port, lb_connects>>

connect_client_Wide(server, t, a) ==
  /\ lb_clients' = LbPut(lb_clients, a, t)
  /\ lb_route' = LbPut(lb_route, a, server)
  /\ lb_next_port' = a + 1
  /\ lb_connects' = lb_connects + 1
  /\ UNCHANGED lb_servers

connect_client_Reuse(server, t, a) ==
  /\ lb_clients' = LbPut(lb_clients, a, t)
  /\ lb_route' = LbPut(lb_route, a, server)
  /\ lb_connects' = lb_connects + 1
  /\ UNCHANGED <<lb_servers, lb_next_port>>

connect_client(server, t, a) ==
  /\ lb_clients' = LbPut(lb_clients, a, t)
  /\ lb_route' = LbPut(lb_route, a, server)
  /\ lb_next_port' = (a + 1) % LbPortCount
  /\ lb_connects' = lb_connects + 1
  /\ UNCHANGED lb_servers

disconnect_client_Route(a) ==
  /\ lb_route' = LbErase(lb_route, {a})
  /\ UNCHANGED <<lb_servers, lb_clients, lb_next_port, lb_connects>>

disconnect_client(a) ==
  /\ lb_clients' = LbErase(lb_clients, {a})
  /\ lb_route' = LbErase(lb_route, {a})
  /\ UNCHANGED <<lb_servers, lb_next_port, lb_connects>>

\* Both registrations of a transport that bound while it was connected.
unbind_and_disconnect(a) ==
  LET gone == {c \in DOMAIN lb_route : lb_route[c] = a} \cup {a} IN
  /\ lb_servers' = LbErase(lb_servers, {a})
  /\ lb_clients' = LbErase(lb_clients, gone)
  /\ lb_route' = LbErase(lb_route, gone)
  /\ UNCHANGED <<lb_next_port, lb_connects>>

\* Clients come before servers.
find_transport(a) ==
  IF a \in DOMAIN lb_clients THEN {lb_clients[a]}
  ELSE IF a \in DOMAIN lb_servers THEN {lb_servers[a]} ELSE {}

enqueue_pending(x, copies, packet) ==
  [x EXCEPT !.pending_recv = @ \o [k \in 1 .. copies |-> packet]]

deliver(states, to, packet) ==
  [t \in LbTransports |->
     enqueue_pending(states[t], IF t \in find_transport(to) THEN 1 ELSE 0, packet)]

\* One copy for each client registered with the server's address.
broadcast(states, server, packet) ==
  [t \in LbTransports |->
     enqueue_pending(states[t],
       Cardinality({c \in DOMAIN lb_route \cap DOMAIN lb_clients :
                      lb_route[c] = server /\ lb_clients[c] = t}), packet)]

-----------------------------------------------------------------------------
(* The transports.                                                         *)

lb_bind(t, a) ==
  /\ ~lb[t].bound
  /\ LbDisciplined => ~lb[t].connected /\ a \notin DOMAIN lb_servers
  /\ lb' = [lb EXCEPT ![t].local_addr = a, ![t].bound = TRUE]
  /\ bind_server(a, t)
  /\ UNCHANGED lb_sends

lb_connect(t, a) ==
  /\ ~lb[t].connected /\ ~lb[t].bound
  /\ a \in DOMAIN lb_servers
  /\ lb_connects < LbMaxConnects
  /\ lb' = [lb EXCEPT ![t].local_addr = FreePort, ![t].remote_addr = a,
                      ![t].connected = TRUE]
  /\ connect_client(a, t, FreePort)
  /\ UNCHANGED lb_sends

\* The receive queues are emptied, the delayed packets are kept.
lb_disconnect(t) ==
  /\ lb[t].bound \/ lb[t].connected
  /\ lb' = [lb EXCEPT ![t] = [@ EXCEPT
              !.bound = FALSE, !.connected = FALSE,
              !.local_addr = NoPort, !.remote_addr = NoPort,
              !.pending_recv = << >>, !.ready_recv = << >>]]
  /\ CASE lb[t].bound /\ lb[t].connected -> unbind_and_disconnect(lb[t].local_addr)
       [] lb[t].bound /\ ~lb[t].connected -> unbind_server(lb[t].local_addr)
       [] OTHER -> disconnect_client(lb[t].local_addr)
  /\ UNCHANGED lb_sends

LbDelayed(t, packet, recipient, all) ==
  [lb EXCEPT ![t].delayed_outbound = Append(@,
     [left |-> lb[t].latency, recipient |-> recipient, packet |-> packet,
      broadcast |-> all])]

LbNew(t) == [from |-> t, sender |-> lb[t].local_addr, n |-> lb_sends + 1]

\* With a latency the packet is kept whether or not the transport is connected.
lb_send(t) ==
  LET x == lb[t] IN
  /\ lb_sends < LbMaxSends
  /\ lb_sends' = lb_sends + 1
  /\ lb' = IF x.latency > 0
           THEN LbDelayed(t, LbNew(t), IF x.bound THEN x.local_addr ELSE x.remote_addr,
                          x.bound)
           ELSE IF x.bound THEN broadcast(lb, x.local_addr, LbNew(t))
           ELSE IF x.connected THEN deliver(lb, x.remote_addr, LbNew(t))
           ELSE lb
  /\ UNCHANGED lb_hub

lb_send_to(t, a) ==
  /\ lb[t].bound
  /\ lb_sends < LbMaxSends
  /\ lb_sends' = lb_sends + 1
  /\ lb' = IF lb[t].latency > 0 THEN LbDelayed(t, LbNew(t), a, FALSE)
           ELSE deliver(lb, a, LbNew(t))
  /\ UNCHANGED lb_hub

\* should_drop(): the packet counts as sent.
lb_send_dropped ==
  /\ lb_sends < LbMaxSends
  /\ lb_sends' = lb_sends + 1
  /\ UNCHANGED <<lb, lb_hub>>

LbFlush(states, d) ==
  IF d.broadcast THEN broadcast(states, d.packet.sender, d.packet)
  ELSE deliver(states, d.recipient, d.packet)

\* The loop of poll() over the delayed packets.
LbFlushed(queue) ==
  LET sent[k \in 0 .. Len(queue)] ==
        IF k = 0 THEN lb
        ELSE IF queue[k].left = 0 THEN LbFlush(sent[k - 1], queue[k]) ELSE sent[k - 1]
  IN sent[Len(queue)]

LbStillDelayed(queue) == Kept(queue, {k \in DOMAIN queue : queue[k].left # 0})

lb_poll_Swapped(t) ==
  LET sent == LbFlushed(lb[t].delayed_outbound) IN
  /\ lb' = [sent EXCEPT
              ![t].delayed_outbound = LbStillDelayed(lb[t].delayed_outbound),
              ![t].ready_recv = sent[t].pending_recv \o @,
              ![t].pending_recv = << >>]
  /\ lb' # lb
  /\ UNCHANGED <<lb_hub, lb_sends>>

\* Packets whose time has come go out in the order they were sent in; then what
\* has arrived becomes ready.
lb_poll(t) ==
  LET sent == LbFlushed(lb[t].delayed_outbound) IN
  /\ lb' = [sent EXCEPT
              ![t].delayed_outbound = LbStillDelayed(lb[t].delayed_outbound),
              ![t].ready_recv = @ \o sent[t].pending_recv,
              ![t].pending_recv = << >>]
  /\ lb' # lb
  /\ UNCHANGED <<lb_hub, lb_sends>>

lb_pop_receive(t) ==
  LET packet == Head(lb[t].ready_recv) IN
  /\ lb[t].ready_recv # << >>
  /\ lb' = [lb EXCEPT ![t].ready_recv = Tail(@), ![t].heard[packet.from] = packet.n]
  /\ UNCHANGED <<lb_hub, lb_sends>>

lb_set_latency(t, l) ==
  /\ l # lb[t].latency
  /\ LbDisciplined => l > lb[t].latency \/ lb[t].delayed_outbound = << >>
  /\ lb' = [lb EXCEPT ![t].latency = l]
  /\ UNCHANGED <<lb_hub, lb_sends>>

LbAged(queue) ==
  [k \in DOMAIN queue |-> [queue[k] EXCEPT !.left = IF @ = 0 THEN 0 ELSE @ - 1]]

\* Time passes: now() of the transports.
lb_tick ==
  /\ lb' = [t \in LbTransports |->
              [lb[t] EXCEPT !.delayed_outbound = LbAged(lb[t].delayed_outbound)]]
  /\ lb' # lb
  /\ UNCHANGED <<lb_hub, lb_sends>>

LoopbackNext ==
  \/ \E t \in LbTransports :
       \/ \E a \in LbServerPorts : lb_bind(t, a) \/ lb_connect(t, a)
       \/ lb_disconnect(t)
       \/ lb_send(t)
       \/ \E a \in DOMAIN lb_route : lb_route[a] = lb[t].local_addr /\ lb_send_to(t, a)
       \/ lb_poll(t)
       \/ lb_pop_receive(t)
       \/ \E l \in LbLatencies : lb_set_latency(t, l)
  \/ lb_send_dropped
  \/ lb_tick

LoopbackSpec == LoopbackInit /\ [][LoopbackNext]_lb_vars

-----------------------------------------------------------------------------
(* Properties.                                                             *)

LbArrived(t) == lb[t].ready_recv \o lb[t].pending_recv

\* The hub holds raw pointers: each entry is of a transport that is bound or
\* connected under that address, so that none outlives the transport, whose
\* destructor calls disconnect(); and what is sent to a bound address reaches it.
LbRegistered ==
  /\ DOMAIN lb_clients = DOMAIN lb_route
  /\ \A a \in DOMAIN lb_clients :
       lb[lb_clients[a]].connected /\ lb[lb_clients[a]].local_addr = a
  /\ \A a \in DOMAIN lb_servers :
       lb[lb_servers[a]].bound /\ lb[lb_servers[a]].local_addr = a
  /\ \A t \in LbTransports : lb[t].bound => find_transport(lb[t].local_addr) = {t}

\* A connected client has only packets of the server it is connected to, although
\* servers keep delayed packets for clients that have left and connected elsewhere.
LbHearsItsServer ==
  \A t \in LbTransports : lb[t].connected =>
    \A k \in DOMAIN LbArrived(t) : LbArrived(t)[k].sender = lb[t].remote_addr

\* What one transport sends arrives once and in the order it was sent in, also
\* when it reconnects or raises its latency while packets are delayed.
LbInOrder ==
  \A t \in LbTransports :
    /\ \A k \in DOMAIN LbArrived(t) :
         LbArrived(t)[k].n > lb[t].heard[LbArrived(t)[k].from]
    /\ \A j, k \in DOMAIN LbArrived(t) :
         j < k /\ LbArrived(t)[j].from = LbArrived(t)[k].from
           => LbArrived(t)[j].n < LbArrived(t)[k].n

\* "Send data to the remote peer (client mode) or to all connected peers (server
\* mode)" (ITransport::send): what a client has comes from the transport that is
\* bound to the address it is connected to.
LbFromItsServer ==
  \A a \in DOMAIN lb_clients :
    LET t == lb_clients[a] IN
    \A k \in DOMAIN LbArrived(t) : LbArrived(t)[k].from = lb_servers[lb_route[a]]

\* "Close the socket and reset all state" (ITransport::disconnect).
LbResetOnDisconnect ==
  \A t \in LbTransports :
    ~lb[t].bound /\ ~lb[t].connected => lb[t].delayed_outbound = << >>
=============================================================================
