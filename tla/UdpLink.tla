------------------------------ MODULE UdpLink -------------------------------
(***************************************************************************)
(* A link of UdpTransport: the transport of a client and the transport of  *)
(* a server, each with its entry for the other in connections_, and the    *)
(* network between their two addresses.  connect() binds a fresh ephemeral *)
(* port, so a client that reconnects is a new link; the server always      *)
(* binds the same address and may restart.  Messages fit in one packet     *)
(* (length <= MAX_PAYLOAD_SIZE); UdpFragments has the larger ones.         *)
(*                                                                         *)
(* poll() drains the socket and then runs the timers.  A poll is a         *)
(* process_packet step for each packet it receives, `receiving[e]' being   *)
(* TRUE from the first of them on, and one poll_end step for the timers.   *)
(* The program is single threaded, so the application's calls come between *)
(* polls.  Times are left out: a timer may be found expired by any poll in *)
(* which the code could find it so.                                        *)
(*                                                                         *)
(* UDP loses, reorders and duplicates: `net' is the set of all datagrams   *)
(* sent, and each may be received any number of times, or never.  A packet *)
(* that the bandwidth limit holds back is one that is never received.      *)
(***************************************************************************)
EXTENDS UdpChannel, FiniteSets

CONSTANTS
  Channels,    \* the reliabilities the applications send with
  MaxSend,     \* bound: messages per channel and incarnation of e
  MaxInc       \* bound: incarnations of the connection at each side

Sides == {"client", "server"}
Peer(e) == IF e = "client" THEN "server" ELSE "client"

ASSUME ChannelsAssumption == Channels \subseteq Reliability
ASSUME MaxSendAssumption == MaxSend \in [Sides -> Nat]
ASSUME MaxIncAssumption == MaxInc \in Nat \ {0}

VARIABLES
  mode,           \* mode_: "None" (no socket) or "Open" (Server or Client)
  conn,           \* the entry of connections_ for the peer's address
  receive_queue,  \* receive_queue_ from receive_read_idx_ on
  receiving,      \* e is inside poll() and has processed a packet
  net             \* the datagrams sent so far

vars == <<mode, conn, receive_queue, receiving, net>>

PacketType == {"User", "Handshake", "Disconnect", "Ack"}

\* `upto' is history: how many messages the sender of the packet had received
\* on the channel when it sent the packet.
Packet ==
  [dst : Sides, type : PacketType, ch : Reliability, seq : SeqNum,
   ack : SeqNum, bits : AckMask, msg : Message, upto : Nat]

\* "Absent": connections_ has no entry for the peer.  The other fields then
\* keep the history of the entry that was erased.
Connection ==
  [state    : {"Absent", "Connecting", "Connected", "Disconnecting"},
   inc      : Nat,
   channels : [Reliability -> Channel]]

\* An entry of receive_queue_; the message stands for its data.
ReceivedPacket == [ch : Reliability, msg : Message]

NewChannels == [r \in Reliability |-> NewChannel]

NoMessage == [inc |-> 0, idx |-> 0]

-----------------------------------------------------------------------------
(* Packets.                                                                *)

\* Faulty variant: the header acknowledges the packet it expects next.
UserPacket_AckNext(dst, r, c, msg) ==
  [dst |-> dst, type |-> "User", ch |-> r, seq |-> sequence(msg.idx),
   ack |-> (c.remote_seq + 1) % SeqMod, bits |-> c.ack_bits, msg |-> msg,
   upto |-> Len(c.got)]

\* The header of a user packet acknowledges what its sender has received on
\* the same channel.
UserPacket(dst, r, c, msg) ==
  [dst |-> dst, type |-> "User", ch |-> r, seq |-> sequence(msg.idx),
   ack |-> c.remote_seq, bits |-> c.ack_bits, msg |-> msg,
   upto |-> Len(c.got)]

\* Handshake and Disconnect: a header whose other fields keep their defaults.
ControlPacket(dst, type) ==
  [dst |-> dst, type |-> type, ch |-> "Unreliable", seq |-> 0,
   ack |-> 0, bits |-> {}, msg |-> NoMessage, upto |-> 0]

\* send_keepalive: the acknowledgement state of channel 0.
KeepAlive(dst, channels) ==
  [ControlPacket(dst, "Ack") EXCEPT
     !.ack = channels["Unreliable"].remote_seq,
     !.bits = channels["Unreliable"].ack_bits]

-----------------------------------------------------------------------------
TypeOK ==
  /\ mode \in [Sides -> {"None", "Open"}]
  /\ conn \in [Sides -> Connection]
  /\ receive_queue \in [Sides -> Seq(ReceivedPacket)]
  /\ receiving \in [Sides -> BOOLEAN]
  /\ net \subseteq Packet

Init ==
  /\ mode = [e \in Sides |-> "None"]
  /\ conn = [e \in Sides |->
               [state |-> "Absent", inc |-> 0, channels |-> NewChannels]]
  /\ receive_queue = [e \in Sides |-> << >>]
  /\ receiving = [e \in Sides |-> FALSE]
  /\ net = {}

-----------------------------------------------------------------------------
(* The application's calls.                                                *)

\* A Connected peer is told; the pending reliable messages are forgotten.
DisconnectPackets(e) ==
  IF conn[e].state = "Connected"
    THEN {ControlPacket(Peer(e), "Disconnect")}
    ELSE {}

disconnect(e) ==
  /\ ~ receiving[e]
  /\ mode[e] = "Open"
  /\ mode' = [mode EXCEPT ![e] = "None"]
  /\ conn' = [conn EXCEPT ![e].state = "Absent"]
  /\ receive_queue' = [receive_queue EXCEPT ![e] = << >>]
  /\ net' = net \cup DisconnectPackets(e)
  /\ UNCHANGED receiving

\* bind() first disconnects, so it also restarts a server that is running.
bind ==
  LET e == "server" IN
  /\ ~ receiving[e]
  /\ mode' = [mode EXCEPT ![e] = "Open"]
  /\ conn' = [conn EXCEPT ![e].state = "Absent"]
  /\ receive_queue' = [receive_queue EXCEPT ![e] = << >>]
  /\ net' = net \cup DisconnectPackets(e)
  /\ UNCHANGED receiving

\* The handshake is sent once; no timer repeats it.
connect ==
  LET e == "client" IN
  /\ mode[e] = "None"
  /\ conn[e].inc = 0
  /\ mode' = [mode EXCEPT ![e] = "Open"]
  /\ conn' = [conn EXCEPT ![e] =
                [state |-> "Connecting", inc |-> 1, channels |-> NewChannels]]
  /\ net' = net \cup {ControlPacket(Peer(e), "Handshake")}
  /\ UNCHANGED <<receive_queue, receiving>>

\* send, send_to and send_with_priority on this connection.
send(e, r) ==
  LET c == conn[e].channels[r]
      msg == [inc |-> conn[e].inc, idx |-> c.sent]
  IN
  /\ ~ receiving[e]
  /\ mode[e] = "Open"
  /\ conn[e].state \in {"Connecting", "Connected"}
  /\ c.sent < MaxSend[e]
  /\ conn' = [conn EXCEPT ![e].channels[r] = Enqueue(r, c)]
  /\ net' = net \cup {UserPacket(Peer(e), r, c, msg)}
  /\ UNCHANGED <<mode, receive_queue, receiving>>

pop_receive(e) ==
  /\ ~ receiving[e]
  /\ receive_queue[e] # << >>
  /\ receive_queue' = [receive_queue EXCEPT ![e] = Tail(@)]
  /\ UNCHANGED <<mode, conn, receiving, net>>

-----------------------------------------------------------------------------
(* poll(): the receive loop.                                               *)

\* Any packet from an address without an entry makes one.
get_or_create_connection(c) ==
  IF c.state = "Absent"
    THEN [state |-> "Connecting", inc |-> c.inc + 1, channels |-> NewChannels]
    ELSE c

\* What process_packet does with every packet before it looks at its type.
process_header(e, p) ==
  LET c == get_or_create_connection(conn[e]) IN
  [c EXCEPT !.channels[p.ch] = process_acks(p.ch, @, p.ack, p.bits)]

\* recvfrom returns p.
recvfrom(e, p) ==
  /\ mode[e] = "Open"
  /\ p \in net
  /\ p.dst = e
  /\ conn[e].state = "Absent" => conn[e].inc < MaxInc
  /\ receiving' = [receiving EXCEPT ![e] = TRUE]

\* Faulty variant: a handshake also revives a connection being closed.
process_handshake_Revive(e, p) ==
  /\ p.type = "Handshake"
  /\ recvfrom(e, p)
  /\ conn' = [conn EXCEPT ![e] =
                [process_header(e, p) EXCEPT !.state = "Connected"]]
  /\ net' = net \cup {ControlPacket(Peer(e), "Handshake")}
  /\ UNCHANGED <<mode, receive_queue>>

\* A handshake is answered in every state.
process_handshake(e, p) ==
  /\ p.type = "Handshake"
  /\ recvfrom(e, p)
  /\ conn' = [conn EXCEPT ![e] =
                [process_header(e, p) EXCEPT
                   !.state = IF @ = "Connecting" THEN "Connected" ELSE @]]
  /\ net' = net \cup {ControlPacket(Peer(e), "Handshake")}
  /\ UNCHANGED <<mode, receive_queue>>

process_disconnect(e, p) ==
  /\ p.type = "Disconnect"
  /\ recvfrom(e, p)
  /\ conn' = [conn EXCEPT ![e] =
                [process_header(e, p) EXCEPT !.state = "Disconnecting"]]
  /\ UNCHANGED <<mode, receive_queue, net>>

process_keepalive(e, p) ==
  /\ p.type = "Ack"
  /\ recvfrom(e, p)
  /\ conn' = [conn EXCEPT ![e] = process_header(e, p)]
  /\ UNCHANGED <<mode, receive_queue, net>>

process_user(e, p) ==
  LET h == process_header(e, p) IN
  /\ p.type = "User"
  /\ recvfrom(e, p)
  /\ conn' = [conn EXCEPT ![e] =
                [h EXCEPT !.channels[p.ch] = receive(p.ch, @, p.seq, p.msg)]]
  /\ receive_queue' =
       IF accepts(p.ch, h.channels[p.ch], p.seq)
         THEN [receive_queue EXCEPT ![e] =
                 Append(@, [ch |-> p.ch, msg |-> p.msg])]
         ELSE receive_queue
  /\ UNCHANGED <<mode, net>>

process_packet(e, p) ==
  \/ process_handshake(e, p)
  \/ process_disconnect(e, p)
  \/ process_keepalive(e, p)
  \/ process_user(e, p)

-----------------------------------------------------------------------------
(* poll(): the timers, once recvfrom has nothing more to return.           *)

\* The unacknowledged packets, each with its channel.
Outstanding(e) ==
  UNION {{<<r, q>> : q \in conn[e].channels[r].pending} : r \in Reliability}

\* Of the packets `due' for retransmission, those that resend_pending gets to:
\* it returns at the first one that has no retries left.
Walked(due) ==
  {x \in due : ~ \E y \in due : exhausted(y[2]) /\ resend_before(y, x)}

\* The connection after resend_pending.
resend_pending(c, due) ==
  [c EXCEPT
     !.state = IF \E x \in due : exhausted(x[2]) THEN "Disconnecting" ELSE @,
     !.channels = [r \in Reliability |->
        count_retry(@[r], {q \in @[r].pending : <<r, q>> \in Walked(due)})]]

\* The packets it sends again, with the acknowledgements of today.
Resent(e, due) ==
  {UserPacket(Peer(e), x[1], conn[e].channels[x[1]],
              [inc |-> conn[e].inc, idx |-> x[2].idx])
     : x \in {y \in Walked(due) : ~ exhausted(y[2])}}

\* cleanup_connections; `silent' if nothing was heard for five seconds.
cleanup_connections(c, silent) ==
  IF silent \/ c.state = "Disconnecting" THEN [c EXCEPT !.state = "Absent"]
                                         ELSE c

\* A Connected connection is resent on, kept alive and cleaned up.
poll_end_connected(e, due, alive, silent) ==
  /\ mode[e] = "Open"
  /\ conn[e].state = "Connected"
  /\ silent => ~ receiving[e]
  /\ conn' = [conn EXCEPT ![e] =
                cleanup_connections(resend_pending(@, due), silent)]
  /\ net' = net \cup Resent(e, due)
                \cup (IF alive THEN {KeepAlive(Peer(e), conn[e].channels)}
                               ELSE {})
  /\ receiving' = [receiving EXCEPT ![e] = FALSE]
  /\ UNCHANGED <<mode, receive_queue>>

\* Any other connection is only cleaned up.
poll_end_other(e, silent) ==
  /\ mode[e] = "Open"
  /\ conn[e].state # "Connected"
  /\ silent => ~ receiving[e]
  /\ conn' = [conn EXCEPT ![e] = cleanup_connections(@, silent)]
  /\ receiving' = [receiving EXCEPT ![e] = FALSE]
  /\ UNCHANGED <<mode, receive_queue, net>>

poll_end(e) ==
  \/ \E due \in SUBSET Outstanding(e) : \E alive, silent \in BOOLEAN :
       poll_end_connected(e, due, alive, silent)
  \/ \E silent \in BOOLEAN : poll_end_other(e, silent)

-----------------------------------------------------------------------------
Next ==
  \/ bind
  \/ connect
  \/ \E e \in Sides :
       \/ disconnect(e)
       \/ \E r \in Channels : send(e, r)
       \/ pop_receive(e)
       \/ \E p \in net : process_packet(e, p)
       \/ poll_end(e)

Spec == Init /\ [][Next]_vars

\* Every pending packet of a polled connection becomes due again and again:
\* the application keeps calling poll() and the timeout is at most a second.
poll_end_due(e, r, i) ==
  \E due \in SUBSET Outstanding(e) : \E alive, silent \in BOOLEAN :
    /\ \E x \in due : x[1] = r /\ x[2].idx = i
    /\ poll_end_connected(e, due, alive, silent)

Fairness ==
  \A e \in Sides :
    /\ WF_vars(poll_end(e))
    /\ \A r \in Channels : \A i \in 0 .. MaxSend[e] - 1 :
         SF_vars(poll_end_due(e, r, i))

FairSpec == Spec /\ Fairness

-----------------------------------------------------------------------------
(* Properties.                                                             *)

Ordered(e) == conn[e].channels["ReliableOrdered"]
Unordered(e) == conn[e].channels["ReliableUnordered"]
Sequenced(e) == conn[e].channels["UnreliableSequenced"]

IsPending(c, i) == \E q \in c.pending : q.idx = i

\* Neither side has had to create its connection a second time.
SingleConnection == \A e \in Sides : conn[e].inc <= 1

\* ReliableOrdered, within one connection: whatever is lost, duplicated,
\* reordered or retransmitted, process_packet hands up exactly the messages
\* the peer sent, from the first, in order, each once.
OrderedDelivery ==
  SingleConnection =>
    \A e \in Sides :
      LET got == Ordered(e).got IN
      /\ Len(got) <= Ordered(Peer(e)).sent
      /\ \A k \in 1 .. Len(got) : got[k] = [inc |-> 1, idx |-> k - 1]

\* ReliableOrdered, within one connection: process_acks takes a message off
\* the pending list only if the peer has received it.
AckedWasDelivered ==
  SingleConnection =>
    \A e \in Sides : \A i \in 0 .. Ordered(e).sent - 1 :
      IsPending(Ordered(e), i) \/ i < Len(Ordered(Peer(e)).got)

\* The same for ReliableUnordered, "Guaranteed delivery, any order": a message
\* is retransmitted until the peer has received it.
UnorderedAckedWasDelivered ==
  SingleConnection =>
    \A e \in Sides : \A i \in 0 .. Unordered(e).sent - 1 :
      \/ IsPending(Unordered(e), i)
      \/ \E k \in DOMAIN Unordered(Peer(e)).got :
            Unordered(Peer(e)).got[k].idx = i

\* Across connections: each connection hands up the first, second, third...
\* message of whichever connections of the peer the packets come from; no
\* position is skipped or repeated.
ConsecutivePositions ==
  \A e \in Sides : \A k \in 1 .. Len(Ordered(e).got) :
    Ordered(e).got[k].idx = k - 1

\* What the application pops is in order: of two ReliableOrdered messages of
\* one connection of the peer, the one sent first is first in the queue.
QueueInOrder ==
  \A e \in Sides : \A k, l \in 1 .. Len(receive_queue[e]) :
    LET a == receive_queue[e][k]
        b == receive_queue[e][l]
    IN k < l /\ a.ch = "ReliableOrdered" /\ b.ch = "ReliableOrdered"
         /\ a.msg.inc = b.msg.inc => a.msg.idx < b.msg.idx

\* No packet is sent more than 1 + MaxRetries times: when a poll is over, a
\* connection with a packet past its last retry has been given up.
RetriesBounded ==
  \A e \in Sides :
    ~ receiving[e] /\ conn[e].state # "Absent" =>
      \A x \in Outstanding(e) : x[2].retries <= MaxRetries

\* "Connection state machine: Disconnected -> Connecting -> Connected ->
\* Disconnecting": within one incarnation the state never goes back, whatever
\* the order in which handshakes and disconnects arrive.
StateRank(s) ==
  CASE s = "Connecting" -> 0 [] s = "Connected" -> 1
    [] s = "Disconnecting" -> 2 [] s = "Absent" -> 3

LifecycleForward ==
  [][\A e \in Sides : conn'[e].inc = conn[e].inc =>
        StateRank(conn'[e].state) >= StateRank(conn[e].state)]_vars

\* ack and ack_bits are the "last received sequence number" and the "bitmask
\* of prior 32 sequences": when process_packet has processed a header, none of
\* the last 1 + AckBits messages that its sender had received is pending, as
\* long as the messages have been received in order.
ReportedIsReleased ==
  [][SingleConnection' /\ OrderedDelivery' =>
       \A e \in Sides : \A p \in net :
         receiving'[e] /\ p.ch = "ReliableOrdered" /\ process_packet(e, p) =>
           \A q \in Ordered(e)'.pending :
             q.idx \notin p.upto - 1 - AckBits .. p.upto - 1]_vars

\* An Ack packet is an "acknowledgment of received sequences": one sent by a
\* side that has received ordered messages acknowledges the last of them.
KeepAliveAcknowledges ==
  [][\A p \in net' \ net : p.type = "Ack" /\ Ordered(Peer(p.dst)).got # << >> =>
        /\ is_reliable(p.ch)
        /\ is_acked(Ordered(Peer(p.dst)).remote_seq, p.ack, p.bits)]_vars

\* UnreliableSequenced drops "stale packets": a packet newer than all those
\* received on the connection is not stale and is handed up.
FreshIsDelivered ==
  [][\A e \in Sides : \A p \in net :
        /\ process_packet(e, p)
        /\ p.type = "User" /\ p.ch = "UnreliableSequenced"
        /\ \A k \in DOMAIN Sequenced(e).got : Sequenced(e).got[k].idx < p.msg.idx
        => \E k \in DOMAIN Sequenced(e)'.got : Sequenced(e)'.got[k] = p.msg]_vars

\* "Graceful disconnection (flush reliable queue before close)".
FlushBeforeClose ==
  [][\A e \in Sides : disconnect(e) /\ conn[e].state = "Connected" =>
        Ordered(e).pending = {}]_vars

\* Every ordered message of a Connected connection is delivered, unless a side
\* loses its connection: retransmission cannot go on for ever, and it cannot
\* stop without either.
DeliveredOrClosed ==
  \A e \in Sides : \A i \in 0 .. MaxSend[e] - 1 :
    (conn[e].state = "Connected" /\ i < Ordered(e).sent) ~>
      \/ i < Len(Ordered(Peer(e)).got)
      \/ conn[e].state = "Absent"

\* What resend_pending promises: no packet is sent for ever, and none is given up
\* before it arrives unless the connection is.
RetransmissionEnds == []RetriesBounded /\ DeliveredOrClosed

(***************************************************************************)
(* The inductive invariant behind OrderedDelivery, AckedWasDelivered and   *)
(* ConsecutivePositions, as long as sequence numbers do not wrap.  It is   *)
(* stated for any connections cs and datagrams n so that the parts of a    *)
(* handler can be taken one after the other in the proof.                  *)
(***************************************************************************)
NoWrap == \A e \in Sides : MaxSend[e] < SeqMod

OrderedOf(c) == c.channels["ReliableOrdered"]

\* A side that has not had a connection has the initial channels.
FreshInv(cs) ==
  \A e \in Sides : cs[e].inc = 0 =>
    cs[e].state = "Absent" /\ cs[e].channels = NewChannels

\* A receiver has counted what it handed up in remote_seq.
ReceiverInv(c, bound) ==
  /\ Len(c.got) <= bound
  /\ c.remote_seq = IF c.got = << >> THEN SeqMod - 1 ELSE Len(c.got) - 1
  /\ c.got = << >> => c.ack_bits = {}
  /\ \A k \in 1 .. Len(c.got) : c.got[k].idx = k - 1

\* Only what was sent is pending.
SenderInv(c, bound) ==
  /\ c.sent <= bound
  /\ \A q \in c.pending : q.idx < c.sent

ChannelInv(cs) ==
  \A e \in Sides :
    /\ SenderInv(OrderedOf(cs[e]), MaxSend[e])
    /\ ReceiverInv(OrderedOf(cs[e]), MaxSend[Peer(e)])

\* An ordered packet carries the position of its message.
PacketInv(n) ==
  \A p \in n : p.ch = "ReliableOrdered" =>
    /\ p.type = "User"
    /\ p.seq = p.msg.idx
    /\ p.msg.idx < MaxSend[Peer(p.dst)]

\* An ordered packet carries a message its sender has sent, and acknowledges
\* only what its sender has received.
HonestPacket(c, p) ==
  /\ p.msg.inc = 1
  /\ p.msg.idx < OrderedOf(c).sent
  /\ \/ p.ack = SeqMod - 1 /\ p.bits = {}
     \/ p.ack < Len(OrderedOf(c).got)

\* The two ends of one connection agree.
LinkInv(cs, n) ==
  (\A e \in Sides : cs[e].inc <= 1) =>
    /\ \A p \in n : p.ch = "ReliableOrdered" => HonestPacket(cs[Peer(p.dst)], p)
    /\ \A e \in Sides :
         LET c == OrderedOf(cs[e])
             d == OrderedOf(cs[Peer(e)])
         IN /\ Len(c.got) <= d.sent
            /\ \A k \in 1 .. Len(c.got) : c.got[k].inc = 1
            /\ \A i \in 0 .. c.sent - 1 : IsPending(c, i) \/ i < Len(d.got)

OrderedInvOf(cs, n) ==
  FreshInv(cs) /\ ChannelInv(cs) /\ PacketInv(n) /\ LinkInv(cs, n)

\* Every state: positions are counted right at both ends and on the wire.
OrderedInv == OrderedInvOf(conn, net)

-----------------------------------------------------------------------------
\* The ordered channel of one connection implements OrderedStream.
Stream ==
  INSTANCE OrderedStream WITH
    submitted  <- [e \in Sides |-> Ordered(e).sent],
    delivered  <- [e \in Sides |-> [k \in DOMAIN Ordered(e).got |->
                                      Ordered(e).got[k].idx]],
    unreleased <- [e \in Sides |-> {q.idx : q \in Ordered(e).pending}]

ImplementsStream == Stream!Spec
=============================================================================
