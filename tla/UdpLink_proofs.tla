--------------------------- MODULE UdpLink_proofs ---------------------------
(* Theorems about a link of UdpTransport, for every value of the constants. *)
EXTENDS UdpLink, UdpChannel_proofs, SequenceTheorems

-----------------------------------------------------------------------------
(* Type correctness.                                                       *)

\* The channels of a new connection are well formed.
LEMMA NewChannelsType == NewChannels \in [Reliability -> Channel]
  BY NewChannelType DEF NewChannels

\* Handshake, Disconnect and keep-alive packets are well formed.
LEMMA ControlPacketType ==
  ASSUME NEW e \in Sides, NEW t \in PacketType
  PROVE  ControlPacket(e, t) \in Packet
  <1>1. 0 \in SeqNum
    BY SeqModAssumption DEF SeqNum
  <1>2. {} \in AckMask
    BY DEF AckMask
  <1>3. NoMessage \in Message
    BY DEF NoMessage, Message
  <1>4. "Unreliable" \in Reliability
    BY DEF Reliability
  <1> QED
    BY <1>1, <1>2, <1>3, <1>4 DEF ControlPacket, Packet

LEMMA KeepAliveType ==
  ASSUME NEW e \in Sides, NEW c \in [Reliability -> Channel]
  PROVE  KeepAlive(e, c) \in Packet
  <1>1. "Unreliable" \in Reliability
    BY DEF Reliability
  <1>2. c["Unreliable"].remote_seq \in SeqNum /\ c["Unreliable"].ack_bits \in AckMask
    BY <1>1 DEF Channel
  <1>3. ControlPacket(e, "Ack") \in Packet
    BY ControlPacketType DEF PacketType
  <1> QED
    BY <1>2, <1>3 DEF KeepAlive, Packet

\* A user packet is well formed.
LEMMA UserPacketType ==
  ASSUME NEW e \in Sides, NEW r \in Reliability, NEW c \in Channel,
         NEW m \in Message
  PROVE  UserPacket(e, r, c, m) \in Packet
  <1>1. sequence(m.idx) \in SeqNum
    BY SequenceType DEF Message
  <1>2. c.remote_seq \in SeqNum /\ c.ack_bits \in AckMask /\ Len(c.got) \in Nat
    BY DEF Channel
  <1> QED
    BY <1>1, <1>2 DEF UserPacket, Packet, PacketType

\* The peer of a side is the other side.
LEMMA PeerSide ==
  ASSUME NEW e \in Sides
  PROVE  /\ Peer(e) \in Sides
         /\ Peer(e) # e
         /\ Peer(Peer(e)) = e
         /\ \A d \in Sides : d = e \/ d = Peer(e)
  BY DEF Sides, Peer

\* process_packet finds or makes a well formed connection.
LEMMA HeaderType ==
  ASSUME TypeOK, NEW e \in Sides, NEW p \in Packet
  PROVE  process_header(e, p) \in Connection
  <1> DEFINE c == get_or_create_connection(conn[e])
  <1>1. c \in Connection
    BY NewChannelsType DEF TypeOK, get_or_create_connection, Connection
  <1>2. c.channels \in [Reliability -> Channel] /\ p.ch \in Reliability
    BY <1>1 DEF Connection, Packet
  <1>3. process_acks(p.ch, c.channels[p.ch], p.ack, p.bits) \in Channel
    BY <1>2, ProcessAcksType DEF Packet
  <1> HIDE DEF c
  <1>4. [c EXCEPT !.channels[p.ch] = process_acks(p.ch, @, p.ack, p.bits)]
           \in Connection
    BY <1>1, <1>2, <1>3 DEF Connection
  <1> QED
    BY <1>4 DEF process_header, c

\* A packet waiting for its acknowledgement makes a well formed packet.
LEMMA ResentType ==
  ASSUME TypeOK, NEW e \in Sides, NEW due \in SUBSET Outstanding(e)
  PROVE  Resent(e, due) \subseteq Packet
  <1> SUFFICES ASSUME NEW x \in due
               PROVE  UserPacket(Peer(e), x[1], conn[e].channels[x[1]],
                        [inc |-> conn[e].inc, idx |-> x[2].idx]) \in Packet
    BY DEF Resent, Walked
  <1>1. PICK r \in Reliability : \E q \in conn[e].channels[r].pending : x = <<r, q>>
    BY DEF Outstanding
  <1>2. PICK q \in conn[e].channels[r].pending : x = <<r, q>>
    BY <1>1
  <1>3. conn[e] \in Connection
    BY DEF TypeOK
  <1>4. conn[e].channels[r] \in Channel /\ conn[e].inc \in Nat
    BY <1>3 DEF Connection
  <1>5. q \in Pending
    BY <1>4 DEF Channel
  <1>6. [inc |-> conn[e].inc, idx |-> q.idx] \in Message
    BY <1>4, <1>5 DEF Pending, Message
  <1> QED
    BY <1>2, <1>4, <1>6, UserPacketType, PeerSide

\* resend_pending and cleanup_connections leave a well formed connection.
LEMMA ResendPendingType ==
  ASSUME NEW c \in Connection, NEW due
  PROVE  resend_pending(c, due) \in Connection /\ resend_pending(c, due).inc = c.inc
  <1>1. \A r \in Reliability :
          count_retry(c.channels[r],
             {q \in c.channels[r].pending : <<r, q>> \in Walked(due)}) \in Channel
    BY CountRetryType DEF Connection
  <1> QED
    BY <1>1 DEF resend_pending, Connection

LEMMA CleanupType ==
  ASSUME NEW c \in Connection, NEW silent
  PROVE  cleanup_connections(c, silent) \in Connection
  BY DEF cleanup_connections, Connection

\* Every state the code can reach is well formed: sequence numbers and ack
\* masks keep their width in the connection and on the wire.
THEOREM TypeCorrect == Spec => []TypeOK
<1>1. Init => TypeOK
  BY NewChannelsType DEF Init, TypeOK, Connection, Sides
<1>2. TypeOK /\ [Next]_vars => TypeOK'
  <2> SUFFICES ASSUME TypeOK, [Next]_vars
               PROVE  TypeOK'
    OBVIOUS
  <2> USE DEF TypeOK
  <2>c. \A e \in Sides : conn[e] \in Connection
    OBVIOUS
  <2>d. \A e \in Sides : DisconnectPackets(e) \subseteq Packet
    BY PeerSide, ControlPacketType DEF DisconnectPackets, PacketType
  <2>a. \A e \in Sides : [conn[e] EXCEPT !.state = "Absent"] \in Connection
    BY <2>c DEF Connection
  <2>h. \A e \in Sides : ControlPacket(Peer(e), "Handshake") \in Packet
    BY PeerSide, ControlPacketType DEF PacketType
  <2>1. CASE bind
    BY <2>1, <2>a, <2>d DEF bind, Sides
  <2>2. CASE connect
    <3>1. [state |-> "Connecting", inc |-> 1, channels |-> NewChannels]
            \in Connection
      BY NewChannelsType DEF Connection
    <3>2. "client" \in Sides
      BY DEF Sides
    <3>3. net' \subseteq Packet
      BY <2>2, <2>h, <3>2 DEF connect
    <3>4. conn' \in [Sides -> Connection]
      BY <2>2, <3>1 DEF connect
    <3>5. mode' \in [Sides -> {"None", "Open"}]
      BY <2>2 DEF connect
    <3> QED
      BY <2>2, <3>3, <3>4, <3>5 DEF connect
  <2>3. ASSUME NEW e \in Sides, disconnect(e)
        PROVE  TypeOK'
    <3>1. conn' \in [Sides -> Connection]
      BY <2>3, <2>a DEF disconnect
    <3>2. receive_queue' \in [Sides -> Seq(ReceivedPacket)]
      BY <2>3 DEF disconnect
    <3>3. net' \subseteq Packet
      BY <2>3, <2>d DEF disconnect
    <3> QED
      BY <2>3, <3>1, <3>2, <3>3 DEF disconnect
  <2>4. ASSUME NEW e \in Sides, NEW r \in Channels, send(e, r)
        PROVE  TypeOK'
    <3> DEFINE c == conn[e].channels[r]
               m == [inc |-> conn[e].inc, idx |-> c.sent]
    <3>1. r \in Reliability
      BY ChannelsAssumption
    <3>2. c \in Channel /\ conn[e].inc \in Nat
      BY <2>c, <3>1 DEF Connection
    <3>3. m \in Message
      BY <3>2 DEF Channel, Message
    <3>4. UserPacket(Peer(e), r, c, m) \in Packet
      BY <3>1, <3>2, <3>3, UserPacketType, PeerSide
    <3>5. Enqueue(r, c) \in Channel
      BY <3>1, <3>2, EnqueueType
    <3>6. [conn EXCEPT ![e].channels[r] = Enqueue(r, c)] \in [Sides -> Connection]
      BY <2>c, <3>1, <3>5 DEF Connection
    <3> QED
      BY <2>4, <3>4, <3>6 DEF send
  <2>5. ASSUME NEW e \in Sides, pop_receive(e)
        PROVE  TypeOK'
    BY <2>5 DEF pop_receive
  <2>6. ASSUME NEW e \in Sides, NEW p \in net, process_packet(e, p)
        PROVE  TypeOK'
    <3> DEFINE h == process_header(e, p)
    <3>1. p \in Packet
      OBVIOUS
    <3>2. h \in Connection
      BY <3>1, HeaderType
    <3> HIDE DEF h
    <3>3. CASE process_handshake(e, p)
      BY <3>2, <3>3, <2>h DEF process_handshake, recvfrom, Connection, h
    <3>4. CASE process_disconnect(e, p)
      BY <3>2, <3>4 DEF process_disconnect, recvfrom, Connection, h
    <3>5. CASE process_keepalive(e, p)
      BY <3>2, <3>5 DEF process_keepalive, recvfrom, h
    <3>6. CASE process_user(e, p)
      <4>1. p.ch \in Reliability /\ p.seq \in SeqNum /\ p.msg \in Message
        BY <3>1 DEF Packet
      <4>2. h.channels[p.ch] \in Channel
        BY <3>2, <4>1 DEF Connection
      <4>3. receive(p.ch, h.channels[p.ch], p.seq, p.msg) \in Channel
        BY <4>1, <4>2, ReceiveType
      <4>4. [h EXCEPT !.channels[p.ch] = receive(p.ch, @, p.seq, p.msg)]
               \in Connection
        BY <3>2, <4>1, <4>3 DEF Connection
      <4>5. conn' \in [Sides -> Connection]
        BY <3>6, <4>4 DEF process_user, h
      <4>6. receive_queue' \in [Sides -> Seq(ReceivedPacket)]
        <5>1. [ch |-> p.ch, msg |-> p.msg] \in ReceivedPacket
          BY <4>1 DEF ReceivedPacket
        <5> QED
          BY <3>6, <5>1 DEF process_user
      <4> QED
        BY <3>6, <4>5, <4>6 DEF process_user, recvfrom
    <3> QED
      BY <2>6, <3>3, <3>4, <3>5, <3>6 DEF process_packet
  <2>7. ASSUME NEW e \in Sides, poll_end(e)
        PROVE  TypeOK'
    <3>1. ASSUME NEW due \in SUBSET Outstanding(e), NEW alive \in BOOLEAN,
                 NEW silent \in BOOLEAN,
                 poll_end_connected(e, due, alive, silent)
          PROVE  TypeOK'
      <4>1. cleanup_connections(resend_pending(conn[e], due), silent) \in Connection
        BY <2>c, ResendPendingType, CleanupType
      <4>2. KeepAlive(Peer(e), conn[e].channels) \in Packet
        BY <2>c, KeepAliveType, PeerSide DEF Connection
      <4>3. Resent(e, due) \subseteq Packet
        BY ResentType
      <4> QED
        BY <3>1, <4>1, <4>2, <4>3 DEF poll_end_connected
    <3>2. ASSUME NEW silent \in BOOLEAN, poll_end_other(e, silent)
          PROVE  TypeOK'
      BY <2>c, <3>2, CleanupType DEF poll_end_other
    <3> QED
      BY <2>7, <3>1, <3>2 DEF poll_end
  <2>8. CASE UNCHANGED vars
    BY <2>8 DEF vars
  <2> QED
    BY <2>1, <2>2, <2>3, <2>4, <2>5, <2>6, <2>7, <2>8 DEF Next
<1> QED
  BY <1>1, <1>2, PTL DEF Spec

-----------------------------------------------------------------------------
(* Ordered delivery.                                                       *)

\* The number process_packet expects next is the count of messages received.
LEMMA ExpectedIsCount ==
  ASSUME NEW c \in Channel, NEW b \in Nat, b < SeqMod, ReceiverInv(c, b)
  PROVE  (c.remote_seq + 1) % SeqMod = Len(c.got)
  <1>1. Len(c.got) \in Nat
    BY DEF Channel
  <1>2. CASE c.got = << >>
    BY <1>2, SeqModAssumption DEF ReceiverInv
  <1>3. CASE c.got # << >>
    <2>1. c.remote_seq + 1 = Len(c.got) /\ Len(c.got) < SeqMod
      <3>1. Len(c.got) <= b /\ c.remote_seq = Len(c.got) - 1
        BY <1>3 DEF ReceiverInv
      <3> QED
        BY <1>1, <3>1, SeqModAssumption
    <2> QED
      BY <1>1, <2>1, SeqModAssumption
  <1> QED
    BY <1>2, <1>3

\* The elements of a queue after a push.
LEMMA AppendElements ==
  ASSUME NEW S, NEW s \in Seq(S), NEW x \in S
  PROVE  /\ Len(Append(s, x)) = Len(s) + 1
         /\ Append(s, x) # << >>
         /\ \A k \in 1 .. Len(s) + 1 :
              Append(s, x)[k] = IF k = Len(s) + 1 THEN x ELSE s[k]
  <1>1. Len(s) \in Nat
    OBVIOUS
  <1>2. /\ Append(s, x) # << >>
        /\ Len(Append(s, x)) = Len(s) + 1
        /\ \A k \in 1 .. Len(s) : Append(s, x)[k] = s[k]
        /\ Append(s, x)[Len(s) + 1] = x
    BY AppendProperties
  <1> QED
    BY <1>1, <1>2

\* Accepting a packet keeps remote_seq the count of messages received.
LEMMA ReceiverStep ==
  ASSUME NEW c \in Channel, NEW b \in Nat, b < SeqMod, ReceiverInv(c, b),
         NEW seq \in SeqNum, NEW m \in Message, seq = m.idx, m.idx < b
  PROVE  /\ ReceiverInv(receive("ReliableOrdered", c, seq, m), b)
         /\ accepts("ReliableOrdered", c, seq) => m.idx = Len(c.got)
  <1> DEFINE d == receive("ReliableOrdered", c, seq, m)
  <1>0. "ReliableOrdered" \in Reliability
    BY DEF Reliability
  <1>1. d \in Channel /\ Len(c.got) \in Nat /\ c.got \in Seq(Message)
    BY <1>0, ReceiveType DEF Channel
  <1>2. (c.remote_seq + 1) % SeqMod = Len(c.got)
    BY ExpectedIsCount
  <1>3. CASE accepts("ReliableOrdered", c, seq)
    <2>1. m.idx = Len(c.got) /\ d.remote_seq = Len(c.got)
      BY <1>2, <1>3, OrderedReceive
    <2>2. d.got = Append(c.got, m)
      BY <1>0, <1>3, ReceiveType
    <2>3. Len(d.got) = Len(c.got) + 1 /\ d.got # << >>
      BY <1>1, <2>2, AppendElements
    <2>4. \A k \in 1 .. Len(d.got) :
            d.got[k] = IF k = Len(c.got) + 1 THEN m ELSE c.got[k]
      BY <1>1, <2>2, <2>3, AppendElements, SMTT(30)
    <2>5. \A k \in 1 .. Len(d.got) : d.got[k].idx = k - 1
      <3> HIDE DEF d
      <3>1. \A k \in 1 .. Len(c.got) : c.got[k].idx = k - 1
        BY DEF ReceiverInv
      <3>2. ASSUME NEW k \in 1 .. Len(d.got)
            PROVE  d.got[k].idx = k - 1
        <4>1. k \in Int /\ 1 <= k /\ k <= Len(c.got) + 1
          BY <1>1, <2>3
        <4>2. CASE k = Len(c.got) + 1
          BY <1>1, <2>1, <2>4, <4>2
        <4>3. CASE k # Len(c.got) + 1
          <5>1. k \in 1 .. Len(c.got)
            BY <1>1, <4>1, <4>3
          <5> QED
            BY <2>4, <3>1, <4>3, <5>1
        <4> QED
          BY <4>2, <4>3
      <3> QED
        BY <3>2
    <2> HIDE DEF d
    <2>6. ReceiverInv(d, b)
      BY <1>1, <2>1, <2>3, <2>5, SMTT(30) DEF ReceiverInv, Message
    <2> QED
      BY <2>1, <2>6 DEF d
  <1>4. CASE ~ accepts("ReliableOrdered", c, seq)
    <2>1. /\ d.got = c.got
          /\ d.remote_seq = c.remote_seq
          /\ d.ack_bits = c.ack_bits
      BY <1>0, <1>4, ReceiveType, OrderedReceive
    <2> QED
      BY <1>4, <2>1 DEF ReceiverInv
  <1> QED
    BY <1>3, <1>4

\* An acknowledgement of a receiver that has received up to `ack' covers no
\* later position.
LEMMA AckedIsReceived ==
  ASSUME NEW i \in Nat, i < SeqMod, NEW ack \in SeqNum, NEW bits \in AckMask,
         is_acked(sequence(i), ack, bits)
  PROVE  /\ i <= ack
         /\ bits = {} => i = ack
  <1>1. sequence(i) = i
    BY SequenceNoWrap
  <1> QED
    BY <1>1, SeqModAssumption, AckBitsAssumption DEF is_acked, SeqNum, AckMask

Single(cs) == \A e \in Sides : cs[e].inc <= 1

\* What a handler may do to the connection of one side: the ordered channel
\* keeps its counts, sends and receives no less than before, and agrees with
\* the other end.
LEMMA UpdateInv ==
  ASSUME NoWrap, NEW cs \in [Sides -> Connection], NEW n \in SUBSET Packet,
         OrderedInvOf(cs, n), NEW e \in Sides, NEW x \in Connection,
         x.inc = cs[e].inc, x.inc # 0,
         OrderedOf(x).sent >= OrderedOf(cs[e]).sent,
         SenderInv(OrderedOf(x), MaxSend[e]),
         ReceiverInv(OrderedOf(x), MaxSend[Peer(e)]),
         Len(OrderedOf(x).got) >= Len(OrderedOf(cs[e]).got),
         Single(cs) =>
           /\ Len(OrderedOf(x).got) <= OrderedOf(cs[Peer(e)]).sent
           /\ \A k \in 1 .. Len(OrderedOf(x).got) : OrderedOf(x).got[k].inc = 1
           /\ \A i \in 0 .. OrderedOf(x).sent - 1 :
                IsPending(OrderedOf(x), i) \/ i < Len(OrderedOf(cs[Peer(e)]).got)
  PROVE  OrderedInvOf([cs EXCEPT ![e] = x], n)
  <1> DEFINE f == Peer(e)
             ds == [cs EXCEPT ![e] = x]
  <1>1. f \in Sides /\ f # e /\ Peer(f) = e /\ \A g \in Sides : g = e \/ g = f
    BY PeerSide
  <1>2. ds[e] = x /\ ds[f] = cs[f]
    BY <1>1
  <1>r. "ReliableOrdered" \in Reliability
    BY DEF Reliability
  <1>3. /\ OrderedOf(x) \in Channel
        /\ OrderedOf(cs[e]) \in Channel
        /\ OrderedOf(cs[f]) \in Channel
    BY <1>1, <1>r DEF OrderedOf, Connection
  <1>4. /\ Len(OrderedOf(x).got) \in Nat /\ OrderedOf(x).sent \in Nat
        /\ Len(OrderedOf(cs[e]).got) \in Nat /\ OrderedOf(cs[e]).sent \in Nat
        /\ Len(OrderedOf(cs[f]).got) \in Nat /\ OrderedOf(cs[f]).sent \in Nat
    BY <1>3 DEF Channel
  <1> HIDE DEF f, ds
  <1>5. FreshInv(ds)
    BY <1>1, <1>2 DEF FreshInv, OrderedInvOf
  <1>6. ChannelInv(ds)
    BY <1>1, <1>2 DEF ChannelInv, OrderedInvOf, f
  <1>7. ASSUME Single(ds)
        PROVE  /\ \A p \in n : p.ch = "ReliableOrdered" =>
                                 HonestPacket(ds[Peer(p.dst)], p)
               /\ \A g \in Sides :
                    LET c == OrderedOf(ds[g])
                        d == OrderedOf(ds[Peer(g)])
                    IN /\ Len(c.got) <= d.sent
                       /\ \A k \in 1 .. Len(c.got) : c.got[k].inc = 1
                       /\ \A i \in 0 .. c.sent - 1 :
                            IsPending(c, i) \/ i < Len(d.got)
    <2>1. Single(cs)
      BY <1>1, <1>2, <1>7 DEF Single
    <2>2. ASSUME NEW p \in n, p.ch = "ReliableOrdered"
          PROVE  HonestPacket(ds[Peer(p.dst)], p)
      <3>1. p \in Packet /\ p.dst \in Sides
        BY DEF Packet
      <3>2. HonestPacket(cs[Peer(p.dst)], p)
        BY <2>1, <2>2 DEF OrderedInvOf, LinkInv, Single
      <3>3. CASE Peer(p.dst) = f
        BY <1>2, <3>2, <3>3
      <3>4. CASE Peer(p.dst) = e
        BY <1>2, <1>4, <3>1, <3>2, <3>4 DEF HonestPacket, Packet, Message, SeqNum
      <3> QED
        BY <1>1, <3>1, <3>3, <3>4, PeerSide
    <2>3. /\ Len(OrderedOf(cs[f]).got) <= OrderedOf(cs[e]).sent
          /\ \A k \in 1 .. Len(OrderedOf(cs[f]).got) :
               OrderedOf(cs[f]).got[k].inc = 1
          /\ \A i \in 0 .. OrderedOf(cs[f]).sent - 1 :
               IsPending(OrderedOf(cs[f]), i) \/ i < Len(OrderedOf(cs[e]).got)
      BY <1>1, <2>1 DEF OrderedInvOf, LinkInv, Single
    <2>4. /\ Len(OrderedOf(cs[f]).got) <= OrderedOf(x).sent
          /\ \A i \in 0 .. OrderedOf(cs[f]).sent - 1 :
               IsPending(OrderedOf(cs[f]), i) \/ i < Len(OrderedOf(x).got)
      BY <1>4, <2>3
    <2> QED
      BY <1>1, <1>2, <2>1, <2>2, <2>3, <2>4 DEF f
  <1>8. LinkInv(ds, n)
    BY <1>7 DEF LinkInv, Single
  <1>9. PacketInv(n)
    BY DEF OrderedInvOf
  <1> QED
    BY <1>5, <1>6, <1>8, <1>9 DEF OrderedInvOf, ds

\* A change that leaves the ordered channel alone keeps the invariant.
LEMMA FrameInv ==
  ASSUME NoWrap, NEW cs \in [Sides -> Connection], NEW n \in SUBSET Packet,
         OrderedInvOf(cs, n), NEW e \in Sides, NEW x \in Connection,
         x.inc = cs[e].inc, OrderedOf(x) = OrderedOf(cs[e]),
         x.inc = 0 => x.state = "Absent" /\ x.channels = NewChannels
  PROVE  OrderedInvOf([cs EXCEPT ![e] = x], n)
  <1> DEFINE ds == [cs EXCEPT ![e] = x]
  <1>1. /\ \A g \in Sides : ds[g].inc = cs[g].inc /\ OrderedOf(ds[g]) = OrderedOf(cs[g])
        /\ \A g \in Sides : ds[g] = IF g = e THEN x ELSE cs[g]
    OBVIOUS
  <1> HIDE DEF ds
  <1>2. FreshInv(ds)
    BY <1>1 DEF OrderedInvOf, FreshInv
  <1>3. ChannelInv(ds)
    BY <1>1 DEF OrderedInvOf, ChannelInv
  <1>4. \A p \in n : p.dst \in Sides /\ Peer(p.dst) \in Sides
    BY PeerSide DEF Packet
  <1>5. \A p \in n : HonestPacket(cs[Peer(p.dst)], p) => HonestPacket(ds[Peer(p.dst)], p)
    BY <1>1, <1>4 DEF HonestPacket
  <1>6. \A g \in Sides : Peer(g) \in Sides
    BY PeerSide
  <1>7. LinkInv(ds, n)
    BY <1>1, <1>5, <1>6 DEF OrderedInvOf, LinkInv
  <1> QED
    BY <1>2, <1>3, <1>7 DEF OrderedInvOf, ds

\* A new channel has received nothing.
LEMMA NewReceiver ==
  ASSUME NEW b \in Nat
  PROVE  ReceiverInv(NewChannel, b)
  BY DEF ReceiverInv, NewChannel

\* get_or_create_connection: a packet from an unknown address.
LEMMA CreateInv ==
  ASSUME NoWrap, NEW cs \in [Sides -> Connection], NEW n \in SUBSET Packet,
         OrderedInvOf(cs, n), NEW e \in Sides
  PROVE  OrderedInvOf([cs EXCEPT ![e] = get_or_create_connection(cs[e])], n)
  <1> DEFINE x == get_or_create_connection(cs[e])
             ds == [cs EXCEPT ![e] = x]
  <1>c. cs[e] \in Connection
    OBVIOUS
  <1>1. CASE cs[e].state # "Absent"
    <2>1. x = cs[e]
      BY <1>1 DEF get_or_create_connection
    <2>2. ds = cs
      BY <2>1
    <2> QED
      BY <2>2
  <1>2. CASE cs[e].state = "Absent"
    <2>1. x = [state |-> "Connecting", inc |-> cs[e].inc + 1, channels |-> NewChannels]
      BY <1>2 DEF get_or_create_connection
    <2>r. "ReliableOrdered" \in Reliability
      BY DEF Reliability
    <2>2. OrderedOf(x) = NewChannel /\ x.inc = cs[e].inc + 1 /\ cs[e].inc \in Nat
      BY <1>c, <2>1, <2>r DEF OrderedOf, NewChannels, Connection
    <2>3. \A g \in Sides : ds[g] = IF g = e THEN x ELSE cs[g]
      OBVIOUS
    <2> HIDE DEF x, ds
    <2>4. FreshInv(ds)
      BY <2>2, <2>3 DEF OrderedInvOf, FreshInv
    <2>5. ChannelInv(ds)
      <3>1. MaxSend[e] \in Nat /\ MaxSend[Peer(e)] \in Nat
        BY MaxSendAssumption, PeerSide
      <3>2. SenderInv(NewChannel, MaxSend[e])
        BY <3>1 DEF NewChannel, SenderInv
      <3> QED
        BY <2>2, <2>3, <3>1, <3>2, NewReceiver DEF OrderedInvOf, ChannelInv
    <2>6. CASE cs[e].inc = 0
      <3>1. cs[e].channels = NewChannels
        BY <2>6 DEF OrderedInvOf, FreshInv
      <3>2. OrderedOf(cs[e]) = NewChannel
        BY <3>1, <2>r DEF OrderedOf, NewChannels
      <3>3. \A g \in Sides : OrderedOf(ds[g]) = OrderedOf(cs[g])
        BY <2>2, <2>3, <3>2
      <3>4. (\A g \in Sides : ds[g].inc <= 1) => \A g \in Sides : cs[g].inc <= 1
        BY <2>3, <2>6
      <3>5. \A p \in n : p.dst \in Sides /\ Peer(p.dst) \in Sides
        BY PeerSide DEF Packet
      <3>6. \A p \in n : HonestPacket(cs[Peer(p.dst)], p)
                           => HonestPacket(ds[Peer(p.dst)], p)
        BY <3>3, <3>5 DEF HonestPacket
      <3>7. \A g \in Sides : Peer(g) \in Sides
        BY PeerSide
      <3>8. LinkInv(ds, n)
        BY <3>3, <3>4, <3>6, <3>7 DEF OrderedInvOf, LinkInv
      <3> QED
        BY <2>4, <2>5, <3>8 DEF OrderedInvOf, ds, x
    <2>7. CASE cs[e].inc # 0
      <3>1. ~ (ds[e].inc <= 1)
        BY <2>2, <2>3, <2>7
      <3>2. LinkInv(ds, n)
        BY <3>1 DEF LinkInv
      <3> QED
        BY <2>4, <2>5, <3>2 DEF OrderedInvOf, ds, x
    <2> QED
      BY <2>6, <2>7
  <1> QED
    BY <1>1, <1>2

\* process_acks releases only what the peer has received.
LEMMA AcksInv ==
  ASSUME NoWrap, NEW cs \in [Sides -> Connection], NEW n \in SUBSET Packet,
         OrderedInvOf(cs, n), NEW e \in Sides, NEW p \in n, p.dst = e,
         cs[e].inc # 0
  PROVE  OrderedInvOf(
           [cs EXCEPT ![e] = [cs[e] EXCEPT
              !.channels[p.ch] = process_acks(p.ch, @, p.ack, p.bits)]], n)
  <1> DEFINE c == cs[e].channels[p.ch]
             y == process_acks(p.ch, c, p.ack, p.bits)
             x == [cs[e] EXCEPT !.channels[p.ch] = y]
  <1>1. p \in Packet /\ cs[e] \in Connection
    OBVIOUS
  <1>2. p.ch \in Reliability /\ p.ack \in SeqNum /\ p.bits \in AckMask
    BY <1>1 DEF Packet
  <1>3. c \in Channel
    BY <1>1, <1>2 DEF Connection
  <1>4. y \in Channel /\ y.sent = c.sent /\ y.got = c.got
          /\ y.remote_seq = c.remote_seq /\ y.ack_bits = c.ack_bits
          /\ y.pending \subseteq c.pending
    BY <1>2, <1>3, ProcessAcksType
  <1>5. x \in Connection /\ x.inc = cs[e].inc
    BY <1>1, <1>2, <1>4 DEF Connection
  <1>6. CASE p.ch # "ReliableOrdered"
    <2>1. OrderedOf(x) = OrderedOf(cs[e])
      BY <1>1, <1>6 DEF OrderedOf, Connection
    <2> QED
      BY <1>5, <2>1, FrameInv
  <1>7. CASE p.ch = "ReliableOrdered"
    <2>1. OrderedOf(x) = y /\ OrderedOf(cs[e]) = c
      BY <1>1, <1>2, <1>7 DEF OrderedOf, Connection
    <2>2. SenderInv(c, MaxSend[e]) /\ ReceiverInv(c, MaxSend[Peer(e)])
      BY <2>1 DEF OrderedInvOf, ChannelInv
    <2>3. SenderInv(y, MaxSend[e]) /\ ReceiverInv(y, MaxSend[Peer(e)])
      BY <1>4, <2>2 DEF ReceiverInv, SenderInv
    <2>4. c.sent \in Nat /\ Len(c.got) \in Nat
      BY <1>3 DEF Channel
    <2>5. ASSUME Single(cs)
          PROVE  /\ Len(y.got) <= OrderedOf(cs[Peer(e)]).sent
                 /\ \A k \in 1 .. Len(y.got) : y.got[k].inc = 1
                 /\ \A i \in 0 .. y.sent - 1 :
                      IsPending(y, i) \/ i < Len(OrderedOf(cs[Peer(e)]).got)
      <3> DEFINE d == OrderedOf(cs[Peer(e)])
      <3>1. /\ Len(c.got) <= d.sent
            /\ \A k \in 1 .. Len(c.got) : c.got[k].inc = 1
            /\ \A i \in 0 .. c.sent - 1 : IsPending(c, i) \/ i < Len(d.got)
        BY <2>1, <2>5 DEF OrderedInvOf, LinkInv, Single
      <3>2. \/ p.ack = SeqMod - 1 /\ p.bits = {}
            \/ p.ack < Len(d.got)
        BY <1>7, <2>5 DEF OrderedInvOf, LinkInv, Single, HonestPacket
      <3>3. ASSUME NEW i \in 0 .. c.sent - 1, ~ IsPending(y, i)
            PROVE  i < Len(d.got)
        <4>1. CASE ~ IsPending(c, i)
          BY <3>1, <4>1
        <4>2. CASE IsPending(c, i)
          <5>1. PICK q \in c.pending : q.idx = i
            BY <4>2 DEF IsPending
          <5>2. q \notin y.pending
            BY <3>3, <5>1 DEF IsPending
          <5>3. is_acked(sequence(i), p.ack, p.bits)
            BY <1>3, <5>1, <5>2 DEF process_acks, Channel
          <5>4. i \in Nat /\ i < SeqMod /\ i < SeqMod - 1
            BY <2>2, <2>4, MaxSendAssumption, SeqModAssumption DEF NoWrap, SenderInv
          <5>5. i <= p.ack /\ (p.bits = {} => i = p.ack)
            BY <1>2, <5>3, <5>4, AckedIsReceived
          <5>6. Len(d.got) \in Nat /\ p.ack \in Int
            <6>1. cs[Peer(e)] \in Connection
              BY PeerSide
            <6>2. d \in Channel
              BY <6>1 DEF Connection, OrderedOf, Reliability
            <6> QED
              BY <1>2, <6>2, SeqModAssumption DEF Channel, SeqNum
          <5> QED
            BY <3>2, <5>4, <5>5, <5>6, SeqModAssumption
        <4> QED
          BY <4>1, <4>2
      <3> QED
        BY <1>4, <3>1, <3>3
    <2> HIDE DEF y, x, c
    <2>u1. /\ OrderedOf(x).sent >= OrderedOf(cs[e]).sent
           /\ SenderInv(OrderedOf(x), MaxSend[e])
           /\ ReceiverInv(OrderedOf(x), MaxSend[Peer(e)])
           /\ Len(OrderedOf(x).got) >= Len(OrderedOf(cs[e]).got)
      BY <1>4, <2>1, <2>2, <2>3, <2>4
    <2>u2. Single(cs) =>
           /\ Len(OrderedOf(x).got) <= OrderedOf(cs[Peer(e)]).sent
           /\ \A k \in 1 .. Len(OrderedOf(x).got) : OrderedOf(x).got[k].inc = 1
           /\ \A i \in 0 .. OrderedOf(x).sent - 1 :
                IsPending(OrderedOf(x), i) \/ i < Len(OrderedOf(cs[Peer(e)]).got)
      BY <2>1, <2>5
    <2>u3. x \in Connection /\ x.inc = cs[e].inc /\ x.inc # 0
      BY <1>5
    <2>u4. OrderedInvOf([cs EXCEPT ![e] = x], n)
      BY <2>u1, <2>u2, <2>u3, UpdateInv
    <2> QED
      BY <2>u4 DEF x, y, c
  <1> QED
    BY <1>6, <1>7

\* process_packet hands up the next message of the peer, or nothing.
LEMMA ReceiveInv ==
  ASSUME NoWrap, NEW cs \in [Sides -> Connection], NEW n \in SUBSET Packet,
         OrderedInvOf(cs, n), NEW e \in Sides, NEW p \in n, p.dst = e,
         cs[e].inc # 0
  PROVE  OrderedInvOf(
           [cs EXCEPT ![e] = [cs[e] EXCEPT
              !.channels[p.ch] = receive(p.ch, @, p.seq, p.msg)]], n)
  <1> DEFINE c == cs[e].channels[p.ch]
             y == receive(p.ch, c, p.seq, p.msg)
             x == [cs[e] EXCEPT !.channels[p.ch] = y]
  <1>1. p \in Packet /\ cs[e] \in Connection
    OBVIOUS
  <1>2. p.ch \in Reliability /\ p.seq \in SeqNum /\ p.msg \in Message
    BY <1>1 DEF Packet
  <1>3. c \in Channel
    BY <1>1, <1>2 DEF Connection
  <1>4. /\ y \in Channel /\ y.sent = c.sent /\ y.pending = c.pending
        /\ y.got = IF accepts(p.ch, c, p.seq) THEN Append(c.got, p.msg) ELSE c.got
    BY <1>2, <1>3, ReceiveType
  <1>5. x \in Connection /\ x.inc = cs[e].inc
    BY <1>1, <1>2, <1>4 DEF Connection
  <1>6. CASE p.ch # "ReliableOrdered"
    <2>1. OrderedOf(x) = OrderedOf(cs[e])
      BY <1>1, <1>6 DEF OrderedOf, Connection
    <2> QED
      BY <1>5, <2>1, FrameInv
  <1>7. CASE p.ch = "ReliableOrdered"
    <2>1. OrderedOf(x) = y /\ OrderedOf(cs[e]) = c
      BY <1>1, <1>2, <1>7 DEF OrderedOf, Connection
    <2>2. SenderInv(c, MaxSend[e]) /\ ReceiverInv(c, MaxSend[Peer(e)])
      BY <2>1 DEF OrderedInvOf, ChannelInv
    <2>3. p.seq = p.msg.idx /\ p.msg.idx < MaxSend[Peer(e)]
      BY <1>7 DEF OrderedInvOf, PacketInv
    <2>m. MaxSend[Peer(e)] \in Nat /\ MaxSend[Peer(e)] < SeqMod
      BY MaxSendAssumption, PeerSide DEF NoWrap
    <2>4. /\ ReceiverInv(y, MaxSend[Peer(e)])
          /\ accepts(p.ch, c, p.seq) => p.msg.idx = Len(c.got)
      BY <1>2, <1>3, <1>7, <2>2, <2>3, <2>m, ReceiverStep
    <2>5. c.sent \in Nat /\ Len(c.got) \in Nat /\ c.got \in Seq(Message)
      BY <1>3 DEF Channel
    <2>6. Len(y.got) >= Len(c.got)
      BY <1>2, <1>4, <2>5, AppendElements
    <2>7. ASSUME Single(cs)
          PROVE  /\ Len(y.got) <= OrderedOf(cs[Peer(e)]).sent
                 /\ \A k \in 1 .. Len(y.got) : y.got[k].inc = 1
                 /\ \A i \in 0 .. y.sent - 1 :
                      IsPending(y, i) \/ i < Len(OrderedOf(cs[Peer(e)]).got)
      <3> DEFINE d == OrderedOf(cs[Peer(e)])
      <3>1. /\ Len(c.got) <= d.sent
            /\ \A k \in 1 .. Len(c.got) : c.got[k].inc = 1
            /\ \A i \in 0 .. c.sent - 1 : IsPending(c, i) \/ i < Len(d.got)
        BY <2>1, <2>7 DEF OrderedInvOf, LinkInv, Single
      <3>2. p.msg.inc = 1 /\ p.msg.idx < d.sent
        BY <1>7, <2>7 DEF OrderedInvOf, LinkInv, Single, HonestPacket
      <3>3. \A i \in 0 .. y.sent - 1 : IsPending(y, i) \/ i < Len(d.got)
        BY <1>4, <3>1 DEF IsPending
      <3>4. d.sent \in Nat
        <4>1. cs[Peer(e)] \in Connection
          BY PeerSide
        <4> QED
          BY <4>1 DEF Connection, OrderedOf, Reliability, Channel
      <3> HIDE DEF y, c, d
      <3>5. CASE accepts(p.ch, c, p.seq)
        <4>1. /\ Len(y.got) = Len(c.got) + 1
              /\ \A k \in 1 .. Len(c.got) + 1 :
                   y.got[k] = IF k = Len(c.got) + 1 THEN p.msg ELSE c.got[k]
          BY <1>2, <1>4, <2>5, <3>5, AppendElements
        <4>2. Len(c.got) < d.sent
          BY <2>4, <3>2, <3>5
        <4>3. \A k \in 1 .. Len(y.got) : y.got[k].inc = 1
          BY <2>5, <3>1, <3>2, <4>1, SMTT(30)
        <4> QED
          BY <2>5, <3>3, <3>4, <4>1, <4>2, <4>3 DEF d
      <3>6. CASE ~ accepts(p.ch, c, p.seq)
        BY <1>4, <3>1, <3>3, <3>6 DEF d
      <3> QED
        BY <3>5, <3>6
    <2> HIDE DEF y, x, c
    <2>u1. /\ OrderedOf(x).sent >= OrderedOf(cs[e]).sent
           /\ SenderInv(OrderedOf(x), MaxSend[e])
           /\ ReceiverInv(OrderedOf(x), MaxSend[Peer(e)])
           /\ Len(OrderedOf(x).got) >= Len(OrderedOf(cs[e]).got)
      <3>1. y.sent = c.sent /\ y.pending = c.pending
        BY <1>4
      <3>2. SenderInv(y, MaxSend[e])
        BY <2>2, <3>1 DEF SenderInv
      <3> QED
        BY <2>1, <2>4, <2>5, <2>6, <3>1, <3>2
    <2>u2. Single(cs) =>
           /\ Len(OrderedOf(x).got) <= OrderedOf(cs[Peer(e)]).sent
           /\ \A k \in 1 .. Len(OrderedOf(x).got) : OrderedOf(x).got[k].inc = 1
           /\ \A i \in 0 .. OrderedOf(x).sent - 1 :
                IsPending(OrderedOf(x), i) \/ i < Len(OrderedOf(cs[Peer(e)]).got)
      BY <2>1, <2>7
    <2>u3. x \in Connection /\ x.inc = cs[e].inc /\ x.inc # 0
      BY <1>5
    <2>u4. OrderedInvOf([cs EXCEPT ![e] = x], n)
      BY <2>u1, <2>u2, <2>u3, UpdateInv
    <2> QED
      BY <2>u4 DEF x, y, c
  <1> QED
    BY <1>6, <1>7

\* send_to_connection: a new message is pending until it is acknowledged.
LEMMA SendInv ==
  ASSUME NoWrap, NEW cs \in [Sides -> Connection], NEW n \in SUBSET Packet,
         OrderedInvOf(cs, n), NEW e \in Sides, NEW r \in Reliability,
         cs[e].inc # 0, cs[e].channels[r].sent < MaxSend[e]
  PROVE  OrderedInvOf(
           [cs EXCEPT ![e] = [cs[e] EXCEPT
              !.channels[r] = Enqueue(r, cs[e].channels[r])]], n)
  <1> DEFINE c == cs[e].channels[r]
             y == Enqueue(r, c)
             x == [cs[e] EXCEPT !.channels[r] = y]
  <1>1. cs[e] \in Connection
    OBVIOUS
  <1>2. c \in Channel
    BY <1>1 DEF Connection
  <1>3. y \in Channel /\ y.got = c.got /\ y.remote_seq = c.remote_seq
          /\ y.ack_bits = c.ack_bits /\ y.sent = c.sent + 1
    BY <1>2, EnqueueType DEF Enqueue, Channel
  <1>4. x \in Connection /\ x.inc = cs[e].inc
    BY <1>1, <1>3 DEF Connection
  <1>5. CASE r # "ReliableOrdered"
    <2>1. OrderedOf(x) = OrderedOf(cs[e])
      BY <1>1, <1>5 DEF OrderedOf, Connection
    <2> QED
      BY <1>4, <2>1, FrameInv
  <1>6. CASE r = "ReliableOrdered"
    <2>1. OrderedOf(x) = y /\ OrderedOf(cs[e]) = c
      BY <1>1, <1>6 DEF OrderedOf, Connection
    <2>2. SenderInv(c, MaxSend[e]) /\ ReceiverInv(c, MaxSend[Peer(e)])
      BY <2>1 DEF OrderedInvOf, ChannelInv
    <2>3. ReceiverInv(y, MaxSend[Peer(e)])
      BY <1>3, <2>2 DEF ReceiverInv
    <2>4. c.sent \in Nat /\ Len(c.got) \in Nat /\ MaxSend[e] \in Nat
      BY <1>2, MaxSendAssumption DEF Channel
    <2>5. y.pending = c.pending \cup {[idx |-> c.sent, retries |-> 0]}
      BY <1>2, <1>6 DEF Enqueue, is_reliable, Channel
    <2>6. ASSUME Single(cs)
          PROVE  /\ Len(y.got) <= OrderedOf(cs[Peer(e)]).sent
                 /\ \A k \in 1 .. Len(y.got) : y.got[k].inc = 1
                 /\ \A i \in 0 .. y.sent - 1 :
                      IsPending(y, i) \/ i < Len(OrderedOf(cs[Peer(e)]).got)
      <3> DEFINE d == OrderedOf(cs[Peer(e)])
      <3>1. /\ Len(c.got) <= d.sent
            /\ \A k \in 1 .. Len(c.got) : c.got[k].inc = 1
            /\ \A i \in 0 .. c.sent - 1 : IsPending(c, i) \/ i < Len(d.got)
        BY <2>1, <2>6 DEF OrderedInvOf, LinkInv, Single
      <3> HIDE DEF y, c, d
      <3>2. IsPending(y, c.sent) /\ \A i : IsPending(c, i) => IsPending(y, i)
        <4>1. [idx |-> c.sent, retries |-> 0] \in y.pending
          BY <2>5
        <4>2. [idx |-> c.sent, retries |-> 0].idx = c.sent
          OBVIOUS
        <4>3. c.pending \subseteq y.pending
          BY <2>5
        <4> QED
          BY <4>1, <4>2, <4>3 DEF IsPending
      <3>3. \A i \in 0 .. y.sent - 1 : IsPending(y, i) \/ i < Len(d.got)
        BY <1>3, <2>4, <3>1, <3>2
      <3> QED
        BY <1>3, <3>1, <3>3 DEF d
    <2> HIDE DEF y, x, c
    <2>7. SenderInv(y, MaxSend[e]) /\ y.sent >= c.sent
      <3>1. y.sent <= MaxSend[e] /\ y.sent >= c.sent
        BY <1>3, <2>4 DEF c
      <3>2. \A q \in c.pending : q.idx \in Nat
        BY <1>2 DEF Channel, Pending
      <3>3. ASSUME NEW q \in y.pending
            PROVE  q.idx < y.sent
        <4>1. CASE q \in c.pending
          BY <1>3, <2>2, <2>4, <3>2, <4>1 DEF SenderInv
        <4>2. CASE q = [idx |-> c.sent, retries |-> 0]
          BY <1>3, <2>4, <4>2
        <4> QED
          BY <2>5, <4>1, <4>2
      <3> QED
        BY <3>1, <3>3 DEF SenderInv
    <2>u1. /\ OrderedOf(x).sent >= OrderedOf(cs[e]).sent
           /\ SenderInv(OrderedOf(x), MaxSend[e])
           /\ ReceiverInv(OrderedOf(x), MaxSend[Peer(e)])
           /\ Len(OrderedOf(x).got) >= Len(OrderedOf(cs[e]).got)
      BY <1>3, <2>1, <2>3, <2>4, <2>7
    <2>u2. Single(cs) =>
           /\ Len(OrderedOf(x).got) <= OrderedOf(cs[Peer(e)]).sent
           /\ \A k \in 1 .. Len(OrderedOf(x).got) : OrderedOf(x).got[k].inc = 1
           /\ \A i \in 0 .. OrderedOf(x).sent - 1 :
                IsPending(OrderedOf(x), i) \/ i < Len(OrderedOf(cs[Peer(e)]).got)
      BY <2>1, <2>6
    <2>u3. x \in Connection /\ x.inc = cs[e].inc /\ x.inc # 0
      BY <1>4
    <2>u4. OrderedInvOf([cs EXCEPT ![e] = x], n)
      BY <2>u1, <2>u2, <2>u3, UpdateInv
    <2> QED
      BY <2>u4 DEF x, y, c
  <1> QED
    BY <1>5, <1>6

\* resend_pending and cleanup_connections count retries and change the state.
LEMMA ResendInv ==
  ASSUME NoWrap, NEW cs \in [Sides -> Connection], NEW n \in SUBSET Packet,
         OrderedInvOf(cs, n), NEW e \in Sides, cs[e].inc # 0, NEW due
  PROVE  OrderedInvOf([cs EXCEPT ![e] = resend_pending(cs[e], due)], n)
  <1> DEFINE x == resend_pending(cs[e], due)
             c == OrderedOf(cs[e])
             S == {q \in c.pending : <<"ReliableOrdered", q>> \in Walked(due)}
             y == count_retry(c, S)
  <1>1. cs[e] \in Connection
    OBVIOUS
  <1>2. c \in Channel
    BY <1>1 DEF Connection, OrderedOf, Reliability
  <1>3. /\ y \in Channel /\ y.sent = c.sent /\ y.remote_seq = c.remote_seq
        /\ y.ack_bits = c.ack_bits /\ y.got = c.got
        /\ \A i \in Nat : IsPending(y, i) <=> IsPending(c, i)
    BY <1>2, CountRetryType, ZenonT(30) DEF IsPending
  <1>4. x \in Connection /\ x.inc = cs[e].inc /\ x.inc # 0
    BY <1>1, ResendPendingType
  <1>5. OrderedOf(x) = y
    BY <1>1 DEF resend_pending, OrderedOf, Reliability, Connection
  <1>6. c.sent \in Nat /\ Len(c.got) \in Nat
    BY <1>2 DEF Channel
  <1> HIDE DEF x, y
  <1>7. /\ OrderedOf(x).sent >= OrderedOf(cs[e]).sent
        /\ SenderInv(OrderedOf(x), MaxSend[e])
        /\ ReceiverInv(OrderedOf(x), MaxSend[Peer(e)])
        /\ Len(OrderedOf(x).got) >= Len(OrderedOf(cs[e]).got)
    <2>1. SenderInv(c, MaxSend[e]) /\ ReceiverInv(c, MaxSend[Peer(e)])
      BY DEF OrderedInvOf, ChannelInv
    <2>2. ReceiverInv(y, MaxSend[Peer(e)])
      BY <1>3, <2>1 DEF ReceiverInv
    <2>3. \A q \in y.pending : q.idx < y.sent
      <3>1. \A q \in y.pending : q.idx \in Nat /\ IsPending(y, q.idx)
        BY <1>3 DEF Channel, Pending, IsPending
      <3> QED
        BY <1>3, <2>1, <3>1 DEF SenderInv, IsPending
    <2> QED
      BY <1>3, <1>5, <1>6, <2>1, <2>2, <2>3 DEF SenderInv
  <1>8. Single(cs) =>
        /\ Len(OrderedOf(x).got) <= OrderedOf(cs[Peer(e)]).sent
        /\ \A k \in 1 .. Len(OrderedOf(x).got) : OrderedOf(x).got[k].inc = 1
        /\ \A i \in 0 .. OrderedOf(x).sent - 1 :
             IsPending(OrderedOf(x), i) \/ i < Len(OrderedOf(cs[Peer(e)]).got)
    BY <1>3, <1>5, <1>6 DEF OrderedInvOf, LinkInv, Single
  <1>9. OrderedInvOf([cs EXCEPT ![e] = x], n)
    BY <1>4, <1>7, <1>8, UpdateInv
  <1> QED
    BY <1>9 DEF x

\* A connection that only changes its state.
LEMMA StateInv ==
  ASSUME NoWrap, NEW cs \in [Sides -> Connection], NEW n \in SUBSET Packet,
         OrderedInvOf(cs, n), NEW e \in Sides, NEW x \in Connection,
         x.inc = cs[e].inc, x.channels = cs[e].channels,
         x.state = "Absent" \/ x.inc # 0
  PROVE  OrderedInvOf([cs EXCEPT ![e] = x], n)
  <1>1. OrderedOf(x) = OrderedOf(cs[e])
    BY DEF OrderedOf
  <1>2. x.inc = 0 => x.state = "Absent" /\ x.channels = NewChannels
    BY DEF OrderedInvOf, FreshInv
  <1> QED
    BY <1>1, <1>2, FrameInv

\* Sending packets that are honest, or not on the ordered channel.
LEMMA AddInv ==
  ASSUME NEW cs \in [Sides -> Connection], NEW n \in SUBSET Packet,
         OrderedInvOf(cs, n), NEW S \in SUBSET Packet, PacketInv(S),
         Single(cs) => \A p \in S : p.ch = "ReliableOrdered" =>
                                       HonestPacket(cs[Peer(p.dst)], p)
  PROVE  OrderedInvOf(cs, n \cup S)
  BY DEF OrderedInvOf, PacketInv, LinkInv, Single

\* Packets of the other channels.
LEMMA AddOtherInv ==
  ASSUME NEW cs \in [Sides -> Connection], NEW n \in SUBSET Packet,
         OrderedInvOf(cs, n), NEW S \in SUBSET Packet,
         \A p \in S : p.ch # "ReliableOrdered"
  PROVE  OrderedInvOf(cs, n \cup S)
  BY AddInv DEF PacketInv

\* The first transmission of a message and every later one.
LEMMA UserPacketHonest ==
  ASSUME NoWrap, NEW cs \in [Sides -> Connection], NEW n \in SUBSET Packet,
         OrderedInvOf(cs, n), NEW e \in Sides, cs[e].inc # 0,
         NEW r \in Reliability, NEW i \in Nat,
         r = "ReliableOrdered" => i < OrderedOf(cs[e]).sent,
         NEW c \in Channel,
         c.remote_seq = cs[e].channels[r].remote_seq,
         c.ack_bits = cs[e].channels[r].ack_bits,
         NEW p, p = UserPacket(Peer(e), r, c, [inc |-> cs[e].inc, idx |-> i])
  PROVE  /\ PacketInv({p})
         /\ Single(cs) /\ p.ch = "ReliableOrdered" => HonestPacket(cs[Peer(p.dst)], p)
  <1> DEFINE o == OrderedOf(cs[e])
  <1>1. /\ p.ch = r /\ p.type = "User" /\ p.seq = sequence(i) /\ p.dst = Peer(e)
        /\ p.msg.inc = cs[e].inc /\ p.msg.idx = i
        /\ p.ack = c.remote_seq /\ p.bits = c.ack_bits
    BY DEF UserPacket
  <1>2. Peer(p.dst) = e
    BY <1>1, PeerSide
  <1>3. CASE r # "ReliableOrdered"
    BY <1>1, <1>3 DEF PacketInv
  <1>4. CASE r = "ReliableOrdered"
    <2>1. cs[e] \in Connection
      OBVIOUS
    <2>2. o \in Channel /\ cs[e].inc \in Nat
      BY <2>1 DEF Connection, OrderedOf, Reliability
    <2>3. o.sent \in Nat /\ Len(o.got) \in Nat /\ MaxSend[e] \in Nat
      BY <2>2, MaxSendAssumption DEF Channel
    <2>4. o.sent <= MaxSend[e] /\ ReceiverInv(o, MaxSend[Peer(e)])
      BY DEF OrderedInvOf, ChannelInv, SenderInv
    <2>5. i < o.sent
      BY <1>4
    <2>6. i < MaxSend[e] /\ MaxSend[e] < SeqMod
      BY <2>3, <2>4, <2>5 DEF NoWrap
    <2>7. sequence(i) = i
      BY <2>3, <2>6, SequenceNoWrap, SeqModAssumption
    <2>8. PacketInv({p})
      BY <1>1, <1>2, <2>6, <2>7 DEF PacketInv
    <2>9. ASSUME Single(cs)
          PROVE  HonestPacket(cs[e], p)
      <3>1. cs[e].inc = 1
        BY <2>2, <2>9 DEF Single
      <3>2. \/ p.ack = SeqMod - 1 /\ p.bits = {}
            \/ p.ack < Len(o.got)
        BY <1>1, <1>4, <2>3, <2>4 DEF ReceiverInv, OrderedOf
      <3> QED
        BY <1>1, <2>5, <3>1, <3>2 DEF HonestPacket
    <2> QED
      BY <1>2, <2>8, <2>9
  <1> QED
    BY <1>3, <1>4

\* What process_packet does before it looks at the packet's type.
LEMMA HeaderInv ==
  ASSUME NoWrap, TypeOK, OrderedInv, NEW e \in Sides, NEW p \in net, p.dst = e
  PROVE  /\ OrderedInvOf([conn EXCEPT ![e] = process_header(e, p)], net)
         /\ process_header(e, p).inc # 0
  <1> DEFINE c == get_or_create_connection(conn[e])
             cs == [conn EXCEPT ![e] = c]
  <1>1. conn \in [Sides -> Connection] /\ net \in SUBSET Packet /\ conn[e] \in Connection
    BY DEF TypeOK
  <1>2. c \in Connection
    BY <1>1, NewChannelsType DEF get_or_create_connection, Connection
  <1>3. c.inc # 0
    BY <1>1 DEF get_or_create_connection, Connection, OrderedInv, OrderedInvOf, FreshInv
  <1>4. OrderedInvOf(cs, net)
    BY <1>1, CreateInv DEF OrderedInv
  <1>5. cs \in [Sides -> Connection] /\ cs[e] = c
    BY <1>1, <1>2
  <1>6. process_header(e, p) =
          [cs[e] EXCEPT !.channels[p.ch] = process_acks(p.ch, @, p.ack, p.bits)]
    BY <1>5 DEF process_header
  <1>7. process_header(e, p).inc = c.inc
    BY <1>2 DEF process_header, Connection
  <1>8. [conn EXCEPT ![e] = process_header(e, p)]
           = [cs EXCEPT ![e] = process_header(e, p)]
    BY <1>1
  <1> HIDE DEF c, cs
  <1>9. OrderedInvOf([cs EXCEPT ![e] =
          [cs[e] EXCEPT !.channels[p.ch] = process_acks(p.ch, @, p.ack, p.bits)]], net)
    BY <1>1, <1>3, <1>4, <1>5, AcksInv
  <1> QED
    BY <1>3, <1>6, <1>7, <1>8, <1>9

\* Replacing a side's connection twice is replacing it once.
LEMMA ReplaceTwice ==
  ASSUME NEW f, NEW e, NEW x, NEW y
  PROVE  [[f EXCEPT ![e] = x] EXCEPT ![e] = y] = [f EXCEPT ![e] = y]
  OBVIOUS

\* One step of the code keeps the invariant.
LEMMA OrderedInductive ==
  ASSUME NoWrap, TypeOK, OrderedInv, [Next]_vars
  PROVE  OrderedInv'
<1>t. /\ conn \in [Sides -> Connection] /\ net \in SUBSET Packet
      /\ \A e \in Sides : conn[e] \in Connection
  BY DEF TypeOK
<1>i. OrderedInvOf(conn, net)
  BY DEF OrderedInv
<1>f. \A e \in Sides : conn[e].inc = 0 => conn[e].state = "Absent"
  BY <1>i DEF OrderedInvOf, FreshInv
<1> SUFFICES OrderedInvOf(conn', net')
  BY DEF OrderedInv
<1>u. \A e \in Sides : \A t \in PacketType :
        ControlPacket(e, t) \in Packet /\ ControlPacket(e, t).ch = "Unreliable"
  <2>1. \A e, t : ControlPacket(e, t).ch = "Unreliable"
    BY DEF ControlPacket
  <2> QED
    BY <2>1, ControlPacketType
<1>d. \A e \in Sides :
        /\ DisconnectPackets(e) \in SUBSET Packet
        /\ \A p \in DisconnectPackets(e) : p.ch # "ReliableOrdered"
  BY <1>u, PeerSide DEF DisconnectPackets, PacketType
<1>h. \A e \in Sides :
        /\ {ControlPacket(Peer(e), "Handshake")} \in SUBSET Packet
        /\ \A p \in {ControlPacket(Peer(e), "Handshake")} : p.ch # "ReliableOrdered"
  BY <1>u, PeerSide DEF PacketType
<1>a. ASSUME NEW e \in Sides
      PROVE  /\ [conn[e] EXCEPT !.state = "Absent"] \in Connection
             /\ [conn EXCEPT ![e] = [conn[e] EXCEPT !.state = "Absent"]]
                  \in [Sides -> Connection]
             /\ OrderedInvOf([conn EXCEPT ![e] = [conn[e] EXCEPT !.state = "Absent"]],
                             net \cup DisconnectPackets(e))
  <2> DEFINE x == [conn[e] EXCEPT !.state = "Absent"]
  <2>1. x \in Connection /\ x.inc = conn[e].inc /\ x.channels = conn[e].channels
          /\ x.state = "Absent"
    BY <1>t DEF Connection
  <2> HIDE DEF x
  <2>2. OrderedInvOf([conn EXCEPT ![e] = x], net)
    BY <1>t, <1>i, <2>1, StateInv
  <2>3. [conn EXCEPT ![e] = x] \in [Sides -> Connection]
    BY <1>t, <2>1
  <2>4. OrderedInvOf([conn EXCEPT ![e] = x], net \cup DisconnectPackets(e))
    BY <1>t, <1>d, <2>2, <2>3, AddOtherInv
  <2> QED
    BY <2>1, <2>3, <2>4 DEF x
<1>1. CASE bind
  BY <1>1, <1>a DEF bind, Sides
<1>2. CASE connect
  <2> DEFINE e == "client"
             x == [state |-> "Connecting", inc |-> 1, channels |-> NewChannels]
  <2>1. e \in Sides
    BY DEF Sides
  <2>2. conn[e].inc = 0 /\ conn[e].state = "Absent"
    BY <1>2, <1>f, <2>1 DEF connect
  <2>3. get_or_create_connection(conn[e]) = x
    BY <2>2 DEF get_or_create_connection
  <2>4. x \in Connection
    BY NewChannelsType DEF Connection
  <2>5. conn' = [conn EXCEPT ![e] = x]
           /\ net' = net \cup {ControlPacket(Peer(e), "Handshake")}
    BY <1>2 DEF connect
  <2> HIDE DEF e, x
  <2>6. OrderedInvOf([conn EXCEPT ![e] = x], net)
    BY <1>t, <1>i, <2>1, <2>3, CreateInv
  <2>7. [conn EXCEPT ![e] = x] \in [Sides -> Connection]
    BY <1>t, <2>4
  <2> QED
    BY <1>t, <1>h, <2>1, <2>5, <2>6, <2>7, AddOtherInv
<1>3. ASSUME NEW e \in Sides, disconnect(e)
      PROVE  OrderedInvOf(conn', net')
  BY <1>3, <1>a DEF disconnect
<1>4. ASSUME NEW e \in Sides, NEW r \in Channels, send(e, r)
      PROVE  OrderedInvOf(conn', net')
  <2> DEFINE c == conn[e].channels[r]
             y == Enqueue(r, c)
             x == [conn[e] EXCEPT !.channels[r] = y]
             cs == [conn EXCEPT ![e] = x]
             m == [inc |-> conn[e].inc, idx |-> c.sent]
             p == UserPacket(Peer(e), r, c, m)
  <2>1. r \in Reliability /\ conn[e] \in Connection
    BY <1>t, ChannelsAssumption
  <2>2. c \in Channel /\ c.sent \in Nat /\ c.sent < MaxSend[e] /\ conn[e].inc \in Nat
    BY <1>4, <2>1 DEF send, Connection, Channel
  <2>3. conn[e].inc # 0
    BY <1>4, <1>f DEF send
  <2>4. OrderedInvOf(cs, net)
    BY <1>t, <1>i, <2>1, <2>2, <2>3, SendInv
  <2>5. y \in Channel /\ y.sent = c.sent + 1 /\ y.remote_seq = c.remote_seq
          /\ y.ack_bits = c.ack_bits
    BY <2>1, <2>2, EnqueueType DEF Enqueue, Channel
  <2>6. x \in Connection /\ x.inc = conn[e].inc /\ x.channels[r] = y
    BY <2>1, <2>5 DEF Connection
  <2>7. cs \in [Sides -> Connection] /\ cs[e] = x
    BY <1>t, <2>6
  <2>8. r = "ReliableOrdered" => c.sent < OrderedOf(cs[e]).sent
    BY <2>2, <2>5, <2>6, <2>7 DEF OrderedOf
  <2>9. m \in Message
    BY <2>2 DEF Message
  <2>10. p \in Packet
    BY <2>1, <2>2, <2>9, UserPacketType, PeerSide
  <2>11. conn' = cs /\ net' = net \cup {p}
    BY <1>4, <1>t DEF send
  <2>12. p = UserPacket(Peer(e), r, c, [inc |-> cs[e].inc, idx |-> c.sent])
    BY <2>6, <2>7
  <2>13. cs[e].inc # 0 /\ c.remote_seq = cs[e].channels[r].remote_seq
           /\ c.ack_bits = cs[e].channels[r].ack_bits
    BY <2>3, <2>5, <2>6, <2>7
  <2> HIDE DEF c, y, x, cs, m, p
  <2>14. /\ PacketInv({p})
         /\ Single(cs) /\ p.ch = "ReliableOrdered" => HonestPacket(cs[Peer(p.dst)], p)
    BY <1>t, <2>1, <2>2, <2>4, <2>7, <2>8, <2>12, <2>13, UserPacketHonest
  <2>15. OrderedInvOf(cs, net \cup {p})
    BY <1>t, <2>4, <2>7, <2>10, <2>14, AddInv
  <2> QED
    BY <2>11, <2>15
<1>5. ASSUME NEW e \in Sides, pop_receive(e)
      PROVE  OrderedInvOf(conn', net')
  BY <1>5, <1>i DEF pop_receive
<1>6. ASSUME NEW e \in Sides, NEW p \in net, process_packet(e, p)
      PROVE  OrderedInvOf(conn', net')
  <2> DEFINE h == process_header(e, p)
             cs == [conn EXCEPT ![e] = h]
  <2>1. p.dst = e /\ p \in Packet
    BY <1>6, <1>t DEF process_packet, process_handshake, process_disconnect,
                      process_keepalive, process_user, recvfrom
  <2>2. OrderedInvOf(cs, net) /\ h.inc # 0
    BY <2>1, HeaderInv
  <2>3. h \in Connection
    BY <2>1, HeaderType
  <2>4. cs \in [Sides -> Connection] /\ cs[e] = h
    BY <1>t, <2>3
  <2> HIDE DEF h
  <2>5. ASSUME NEW st \in {"Absent", "Connecting", "Connected", "Disconnecting"}
        PROVE  /\ OrderedInvOf([conn EXCEPT ![e] = [h EXCEPT !.state = st]], net)
               /\ [conn EXCEPT ![e] = [h EXCEPT !.state = st]] \in [Sides -> Connection]
    <3> DEFINE x == [h EXCEPT !.state = st]
    <3>1. x \in Connection /\ x.inc = h.inc /\ x.channels = h.channels
      BY <2>3 DEF Connection
    <3>2. [cs EXCEPT ![e] = x] = [conn EXCEPT ![e] = x]
      BY ReplaceTwice
    <3> HIDE DEF x, cs
    <3>3. OrderedInvOf([cs EXCEPT ![e] = x], net)
      BY <1>t, <2>2, <2>4, <3>1, StateInv
    <3> QED
      BY <1>t, <3>1, <3>2, <3>3 DEF x
  <2>6. CASE process_handshake(e, p)
    <3> DEFINE st == IF h.state = "Connecting" THEN "Connected" ELSE h.state
    <3>1. st \in {"Absent", "Connecting", "Connected", "Disconnecting"}
      BY <2>3 DEF Connection
    <3>2. /\ conn' = [conn EXCEPT ![e] = [h EXCEPT !.state = st]]
          /\ net' = net \cup {ControlPacket(Peer(e), "Handshake")}
      BY <2>6 DEF process_handshake, h
    <3> HIDE DEF st
    <3>3. /\ OrderedInvOf([conn EXCEPT ![e] = [h EXCEPT !.state = st]], net)
          /\ [conn EXCEPT ![e] = [h EXCEPT !.state = st]] \in [Sides -> Connection]
      BY <2>5, <3>1
    <3> QED
      BY <1>t, <1>h, <3>2, <3>3, AddOtherInv
  <2>7. CASE process_disconnect(e, p)
    BY <2>5, <2>7 DEF process_disconnect, h
  <2>8. CASE process_keepalive(e, p)
    BY <2>2, <2>8 DEF process_keepalive, h
  <2>9. CASE process_user(e, p)
    <3> DEFINE x == [cs[e] EXCEPT !.channels[p.ch] = receive(p.ch, @, p.seq, p.msg)]
    <3>1. OrderedInvOf([cs EXCEPT ![e] = x], net)
      <4> HIDE DEF cs
      <4> QED
        BY <1>t, <2>1, <2>2, <2>4, ReceiveInv
    <3>2. [cs EXCEPT ![e] = x] = [conn EXCEPT ![e] = x]
      BY ReplaceTwice
    <3>3. conn' = [conn EXCEPT ![e] = x] /\ net' = net
      BY <2>4, <2>9 DEF process_user, h
    <3> QED
      BY <3>1, <3>2, <3>3
  <2> QED
    BY <1>6, <2>6, <2>7, <2>8, <2>9 DEF process_packet
<1>7. ASSUME NEW e \in Sides, NEW due \in SUBSET Outstanding(e),
             NEW alive \in BOOLEAN, NEW silent \in BOOLEAN,
             poll_end_connected(e, due, alive, silent)
      PROVE  OrderedInvOf(conn', net')
  <2> DEFINE x == resend_pending(conn[e], due)
             y == cleanup_connections(x, silent)
             cs == [conn EXCEPT ![e] = x]
             ds == [conn EXCEPT ![e] = y]
             K == IF alive THEN {KeepAlive(Peer(e), conn[e].channels)} ELSE {}
  <2>1. conn[e].inc # 0
    BY <1>7, <1>f DEF poll_end_connected
  <2>2. x \in Connection /\ x.inc = conn[e].inc
    BY <1>t, ResendPendingType
  <2>3. OrderedInvOf(cs, net)
    BY <1>t, <1>i, <2>1, ResendInv
  <2>4. y \in Connection /\ y.inc = x.inc /\ y.channels = x.channels
    <3> HIDE DEF x
    <3> QED
      BY <2>2, CleanupType DEF cleanup_connections, Connection
  <2>5. cs \in [Sides -> Connection] /\ cs[e] = x /\ ds \in [Sides -> Connection]
    BY <1>t, <2>2, <2>4
  <2>6. ds = [cs EXCEPT ![e] = y]
    BY ReplaceTwice
  <2>7. conn' = ds /\ net' = net \cup Resent(e, due) \cup K
    BY <1>7 DEF poll_end_connected
  <2>8. Resent(e, due) \subseteq Packet
    BY ResentType
  <2>9. K \in SUBSET Packet /\ \A p \in K : p.ch # "ReliableOrdered"
    <3>1. KeepAlive(Peer(e), conn[e].channels) \in Packet
      BY <1>t, KeepAliveType, PeerSide DEF Connection
    <3>2. KeepAlive(Peer(e), conn[e].channels).ch = "Unreliable"
      BY DEF KeepAlive, ControlPacket
    <3> QED
      BY <3>1, <3>2
  <2>10. /\ PacketInv(Resent(e, due))
         /\ Single(conn) => \A p \in Resent(e, due) : p.ch = "ReliableOrdered" =>
                                HonestPacket(conn[Peer(p.dst)], p)
    <3> SUFFICES ASSUME NEW p \in Resent(e, due)
                 PROVE  /\ PacketInv({p})
                        /\ Single(conn) /\ p.ch = "ReliableOrdered" =>
                             HonestPacket(conn[Peer(p.dst)], p)
      BY DEF PacketInv
    <3>1. PICK z \in due :
            p = UserPacket(Peer(e), z[1], conn[e].channels[z[1]],
                           [inc |-> conn[e].inc, idx |-> z[2].idx])
      BY DEF Resent, Walked
    <3>2. PICK r \in Reliability : \E q \in conn[e].channels[r].pending : z = <<r, q>>
      BY DEF Outstanding
    <3>3. PICK q \in conn[e].channels[r].pending : z = <<r, q>>
      BY <3>2
    <3>4. conn[e].channels[r] \in Channel
      BY <1>t DEF Connection
    <3>5. q.idx \in Nat
      BY <3>4 DEF Channel, Pending
    <3>6. r = "ReliableOrdered" => q.idx < OrderedOf(conn[e]).sent
      BY <1>i DEF OrderedInvOf, ChannelInv, SenderInv, OrderedOf
    <3>7. p = UserPacket(Peer(e), r, conn[e].channels[r],
                         [inc |-> conn[e].inc, idx |-> q.idx])
      BY <3>1, <3>3
    <3> QED
      BY <1>t, <1>i, <2>1, <3>4, <3>5, <3>6, <3>7, UserPacketHonest
  <2>11. OrderedInvOf(conn, net \cup Resent(e, due))
    BY <1>t, <1>i, <2>8, <2>10, AddInv
  <2>12. OrderedInvOf(conn, net \cup Resent(e, due) \cup K)
    <3> HIDE DEF K
    <3>1. net \cup Resent(e, due) \in SUBSET Packet
      BY <1>t, <2>8
    <3> QED
      BY <1>t, <2>9, <2>11, <3>1, AddOtherInv
  <2> DEFINE n == net \cup Resent(e, due) \cup K
  <2>13. n \in SUBSET Packet
    BY <1>t, <2>8, <2>9
  <2> HIDE DEF n
  <2>14. OrderedInvOf(cs, n)
    BY <1>t, <2>1, <2>12, <2>13, ResendInv DEF n
  <2> HIDE DEF x, y, cs, ds
  <2>15. OrderedInvOf(ds, n)
    BY <2>1, <2>2, <2>4, <2>5, <2>6, <2>13, <2>14, StateInv
  <2> QED
    BY <2>7, <2>15 DEF n
<1>8. ASSUME NEW e \in Sides, NEW silent \in BOOLEAN, poll_end_other(e, silent)
      PROVE  OrderedInvOf(conn', net')
  <2> DEFINE y == cleanup_connections(conn[e], silent)
  <2>1. y \in Connection /\ y.inc = conn[e].inc /\ y.channels = conn[e].channels
          /\ (y.state = "Absent" \/ y.inc # 0)
    BY <1>t, <1>f, CleanupType DEF cleanup_connections, Connection
  <2>2. conn' = [conn EXCEPT ![e] = y] /\ net' = net
    BY <1>8 DEF poll_end_other
  <2> HIDE DEF y
  <2> QED
    BY <1>t, <1>i, <2>1, <2>2, StateInv
<1>9. CASE UNCHANGED vars
  BY <1>9, <1>i DEF vars
<1> QED
  BY <1>1, <1>2, <1>3, <1>4, <1>5, <1>6, <1>7, <1>8, <1>9 DEF Next, poll_end

\* The invariant holds in every state, if no side sends as many messages on
\* one connection as there are sequence numbers.
THEOREM OrderedInvariant ==
  ASSUME NoWrap
  PROVE  Spec => []OrderedInv
<1>1. Init => OrderedInv
  <2> SUFFICES ASSUME Init
               PROVE  OrderedInvOf(conn, net)
    BY DEF OrderedInv
  <2>1. \A e \in Sides : MaxSend[e] \in Nat /\ MaxSend[Peer(e)] \in Nat
    BY MaxSendAssumption, PeerSide
  <2>2. \A e \in Sides : /\ conn[e].state = "Absent"
                         /\ conn[e].inc = 0
                         /\ conn[e].channels = NewChannels
    BY DEF Init
  <2>3. \A e \in Sides : OrderedOf(conn[e]) = NewChannel
    BY <2>2 DEF OrderedOf, NewChannels, Reliability
  <2>4. FreshInv(conn)
    BY <2>2 DEF FreshInv
  <2>5. ChannelInv(conn)
    <3>1. \A e \in Sides : SenderInv(NewChannel, MaxSend[e])
      BY <2>1 DEF SenderInv, NewChannel
    <3> QED
      BY <2>1, <2>3, <3>1, NewReceiver DEF ChannelInv
  <2>6. PacketInv(net)
    BY DEF Init, PacketInv
  <2>7. LinkInv(conn, net)
    <3>1. NewChannel.got = << >> /\ NewChannel.sent = 0
      BY DEF NewChannel
    <3>2. \A e \in Sides : Peer(e) \in Sides
      BY PeerSide
    <3> QED
      BY <2>3, <3>1, <3>2 DEF Init, LinkInv
  <2> QED
    BY <2>4, <2>5, <2>6, <2>7 DEF OrderedInvOf
<1>2. TypeOK /\ OrderedInv /\ [Next]_vars => OrderedInv'
  BY OrderedInductive
<1> QED
  BY <1>1, <1>2, TypeCorrect, PTL DEF Spec

\* ReliableOrdered, within one connection: the messages are handed up in the
\* order they were sent, none skipped and none repeated, whatever the network
\* loses, repeats or reorders.
THEOREM OrderedDeliveryHolds ==
  ASSUME NoWrap
  PROVE  Spec => []OrderedDelivery
<1>1. TypeOK /\ OrderedInv => OrderedDelivery
  <2> SUFFICES ASSUME TypeOK, OrderedInv, SingleConnection, NEW e \in Sides
               PROVE  /\ Len(Ordered(e).got) <= Ordered(Peer(e)).sent
                      /\ \A k \in 1 .. Len(Ordered(e).got) :
                           Ordered(e).got[k] = [inc |-> 1, idx |-> k - 1]
    BY DEF OrderedDelivery
  <2>1. /\ Len(Ordered(e).got) <= Ordered(Peer(e)).sent
        /\ \A k \in 1 .. Len(Ordered(e).got) : Ordered(e).got[k].inc = 1
    BY DEF OrderedInv, OrderedInvOf, LinkInv, SingleConnection, OrderedOf, Ordered
  <2>2. \A k \in 1 .. Len(Ordered(e).got) : Ordered(e).got[k].idx = k - 1
    BY DEF OrderedInv, OrderedInvOf, ChannelInv, ReceiverInv, OrderedOf, Ordered
  <2>3. Ordered(e).got \in Seq(Message)
    BY DEF TypeOK, Connection, Channel, Ordered, Reliability
  <2>4. \A k \in 1 .. Len(Ordered(e).got) : Ordered(e).got[k] \in Message
    BY <2>3
  <2>5. \A m \in Message : m = [inc |-> m.inc, idx |-> m.idx]
    BY DEF Message
  <2> QED
    BY <2>1, <2>2, <2>4, <2>5
<1> QED
  BY <1>1, TypeCorrect, OrderedInvariant, PTL

\* ReliableOrdered, within one connection: a message leaves the pending list
\* only if the peer has received it.
THEOREM AckedWasDeliveredHolds ==
  ASSUME NoWrap
  PROVE  Spec => []AckedWasDelivered
<1>1. OrderedInv => AckedWasDelivered
  BY DEF OrderedInv, OrderedInvOf, LinkInv, AckedWasDelivered, SingleConnection,
         OrderedOf, Ordered
<1> QED
  BY <1>1, OrderedInvariant, PTL

\* Across connections: each connection hands up consecutive positions.
THEOREM ConsecutivePositionsHold ==
  ASSUME NoWrap
  PROVE  Spec => []ConsecutivePositions
<1>1. OrderedInv => ConsecutivePositions
  BY DEF OrderedInv, OrderedInvOf, ChannelInv, ReceiverInv, ConsecutivePositions,
         OrderedOf, Ordered
<1> QED
  BY <1>1, OrderedInvariant, PTL

-----------------------------------------------------------------------------
(* The states of a connection.                                             *)

\* Within one incarnation a connection only moves forward through Connecting,
\* Connected, Disconnecting and gone, whatever handshakes and disconnects arrive
\* and in which order: process_packet, the timers and the application's calls.
THEOREM LifecycleForwardHolds == Spec => LifecycleForward
<1> DEFINE Fwd == \A e \in Sides : conn'[e].inc = conn[e].inc =>
                    StateRank(conn'[e].state) >= StateRank(conn[e].state)
<1>1. TypeOK /\ [Next]_vars => [Fwd]_vars
  <2> SUFFICES ASSUME TypeOK, Next
               PROVE  Fwd
    OBVIOUS
  <2>t. conn \in [Sides -> Connection] /\ \A e \in Sides : conn[e] \in Connection
    BY DEF TypeOK
  <2>r. /\ StateRank("Connecting") = 0 /\ StateRank("Connected") = 1
        /\ StateRank("Disconnecting") = 2 /\ StateRank("Absent") = 3
    BY DEF StateRank
  <2>s. \A c \in Connection : /\ c.state \in {"Absent", "Connecting", "Connected",
                                              "Disconnecting"}
                              /\ c.inc \in Nat
                              /\ StateRank(c.state) \in 0 .. 3
    BY <2>r DEF Connection
  \* It is enough to look at the side whose entry the step replaces.
  <2>o. ASSUME NEW e \in Sides, NEW x, conn' = [conn EXCEPT ![e] = x],
               x.inc = conn[e].inc => StateRank(x.state) >= StateRank(conn[e].state)
        PROVE  Fwd
    <3>1. \A d \in Sides : conn'[d] = IF d = e THEN x ELSE conn[d]
      BY <2>t, <2>o
    <3>2. \A d \in Sides : StateRank(conn[d].state) \in 0 .. 3
      BY <2>t, <2>s
    <3> QED
      BY <2>o, <3>1, <3>2
  <2>a. ASSUME NEW e \in Sides, conn' = [conn EXCEPT ![e].state = "Absent"]
        PROVE  Fwd
    <3> DEFINE x == [conn[e] EXCEPT !.state = "Absent"]
    <3>1. x.state = "Absent"
      BY <2>t DEF Connection
    <3>2. conn' = [conn EXCEPT ![e] = x]
      BY <2>a
    <3>3. StateRank(x.state) >= StateRank(conn[e].state)
      BY <2>r, <2>s, <2>t, <3>1
    <3> HIDE DEF x
    <3> QED
      BY <2>o, <3>2, <3>3
  <2>u. ASSUME UNCHANGED conn
        PROVE  Fwd
    <3>1. \A d \in Sides : StateRank(conn[d].state) \in 0 .. 3
      BY <2>t, <2>s
    <3> QED
      BY <2>u, <3>1
  <2> HIDE DEF Fwd
  <2>1. CASE bind
    BY <2>1, <2>a DEF bind, Sides
  <2>2. CASE connect
    <3> DEFINE x == [state |-> "Connecting", inc |-> 1, channels |-> NewChannels]
    <3>1. conn' = [conn EXCEPT !["client"] = x] /\ conn["client"].inc = 0
      BY <2>2 DEF connect
    <3>2. x.inc = 1 /\ "client" \in Sides
      BY DEF Sides
    <3> HIDE DEF x
    <3>3. x.inc = conn["client"].inc =>
            StateRank(x.state) >= StateRank(conn["client"].state)
      BY <3>1, <3>2
    <3> QED
      BY <2>o, <3>1, <3>2, <3>3
  <2>3. ASSUME NEW e \in Sides, disconnect(e)
        PROVE  Fwd
    BY <2>3, <2>a DEF disconnect
  <2>4. ASSUME NEW e \in Sides, NEW r \in Channels, send(e, r)
        PROVE  Fwd
    <3> DEFINE x == [conn[e] EXCEPT !.channels[r] = Enqueue(r, conn[e].channels[r])]
    <3>1. conn' = [conn EXCEPT ![e] = x]
      BY <2>4 DEF send
    <3>2. x.state = conn[e].state
      BY <2>t DEF Connection
    <3>3. StateRank(conn[e].state) \in 0 .. 3
      BY <2>t, <2>s
    <3> HIDE DEF x
    <3>4. StateRank(x.state) >= StateRank(conn[e].state)
      BY <3>2, <3>3
    <3> QED
      BY <2>o, <3>1, <3>4
  <2>5. ASSUME NEW e \in Sides, pop_receive(e)
        PROVE  Fwd
    BY <2>5, <2>u DEF pop_receive
  <2>6. ASSUME NEW e \in Sides, NEW p \in net, process_packet(e, p)
        PROVE  Fwd
    <3> DEFINE h == process_header(e, p)
               g == get_or_create_connection(conn[e])
    <3>1. p \in Packet /\ h \in Connection
      BY HeaderType DEF TypeOK
    <3>2. g \in Connection
      BY <2>t, NewChannelsType DEF get_or_create_connection, Connection
    <3>3. h.state = g.state /\ h.inc = g.inc
      <4> HIDE DEF g
      <4> QED
        BY <3>2 DEF process_header, Connection, g
    <3>4. h.inc = conn[e].inc => h.state = conn[e].state
      BY <2>s, <2>t, <3>3 DEF get_or_create_connection
    <3> HIDE DEF h, g
    <3>5. ASSUME NEW x \in Connection, conn' = [conn EXCEPT ![e] = x],
                 x.inc = h.inc, StateRank(x.state) >= StateRank(h.state)
          PROVE  Fwd
      BY <2>o, <3>4, <3>5
    <3>6. StateRank(h.state) \in 0 .. 3 /\ h.state \in {"Absent", "Connecting",
             "Connected", "Disconnecting"}
      BY <2>s, <3>1
    <3>7. CASE process_handshake(e, p)
      <4> DEFINE x == [h EXCEPT !.state = IF @ = "Connecting" THEN "Connected" ELSE @]
      <4>1. conn' = [conn EXCEPT ![e] = x]
        BY <3>7 DEF process_handshake, h
      <4>2. x \in Connection /\ x.inc = h.inc /\
            x.state = IF h.state = "Connecting" THEN "Connected" ELSE h.state
        BY <3>1 DEF Connection
      <4> HIDE DEF x
      <4>3. StateRank(x.state) >= StateRank(h.state)
        BY <2>r, <3>6, <4>2
      <4> QED
        BY <3>5, <4>1, <4>2, <4>3
    <3>8. CASE process_disconnect(e, p)
      <4> DEFINE x == [h EXCEPT !.state = "Disconnecting"]
      <4>1. conn' = [conn EXCEPT ![e] = x]
        BY <3>8 DEF process_disconnect, h
      <4>2. x \in Connection /\ x.inc = h.inc /\ x.state = "Disconnecting"
        BY <3>1 DEF Connection
      <4>3. h.state # "Absent"
        <5>1. g.state # "Absent"
          BY <2>t DEF get_or_create_connection, g
        <5> QED
          BY <3>3, <5>1
      <4> HIDE DEF x
      <4>4. StateRank(x.state) >= StateRank(h.state)
        BY <2>r, <3>6, <4>2, <4>3
      <4> QED
        BY <3>5, <4>1, <4>2, <4>4
    <3>9. CASE process_keepalive(e, p)
      <4>1. conn' = [conn EXCEPT ![e] = h]
        BY <3>9 DEF process_keepalive, h
      <4>2. StateRank(h.state) >= StateRank(h.state)
        BY <3>6
      <4> QED
        BY <3>1, <3>5, <4>1, <4>2
    <3>10. CASE process_user(e, p)
      <4> DEFINE x == [h EXCEPT !.channels[p.ch] = receive(p.ch, @, p.seq, p.msg)]
      <4>1. conn' = [conn EXCEPT ![e] = x]
        BY <3>10 DEF process_user, h
      <4>2. x.inc = h.inc /\ x.state = h.state
        BY <3>1 DEF Connection
      <4> HIDE DEF x
      <4>3. x.inc = conn[e].inc => StateRank(x.state) >= StateRank(conn[e].state)
        BY <3>4, <3>6, <4>2
      <4> QED
        BY <2>o, <4>1, <4>3
    <3> QED
      BY <2>6, <3>7, <3>8, <3>9, <3>10 DEF process_packet
  <2>7. ASSUME NEW e \in Sides, NEW due, NEW alive, NEW silent,
               poll_end_connected(e, due, alive, silent)
        PROVE  Fwd
    <3> DEFINE x == resend_pending(conn[e], due)
               y == cleanup_connections(x, silent)
    <3>1. conn' = [conn EXCEPT ![e] = y] /\ conn[e].state = "Connected"
      BY <2>7 DEF poll_end_connected
    <3>2. x \in Connection
      BY <2>t, ResendPendingType
    <3>3. x.state \in {"Connected", "Disconnecting"}
      BY <2>t, <3>1 DEF resend_pending, Connection
    <3> HIDE DEF x
    <3>4. y.state \in {"Connected", "Disconnecting", "Absent"}
      BY <3>2, <3>3 DEF cleanup_connections, Connection
    <3> HIDE DEF y
    <3>5. StateRank(y.state) >= StateRank(conn[e].state)
      BY <2>r, <3>1, <3>4
    <3> QED
      BY <2>o, <3>1, <3>5
  <2>8. ASSUME NEW e \in Sides, NEW silent, poll_end_other(e, silent)
        PROVE  Fwd
    <3> DEFINE y == cleanup_connections(conn[e], silent)
    <3>1. conn' = [conn EXCEPT ![e] = y]
      BY <2>8 DEF poll_end_other
    <3>2. y.state = conn[e].state \/ y.state = "Absent"
      BY <2>t DEF cleanup_connections, Connection
    <3> HIDE DEF y
    <3>3. StateRank(y.state) >= StateRank(conn[e].state)
      BY <2>r, <2>s, <2>t, <3>2
    <3> QED
      BY <2>o, <3>1, <3>3
  <2> QED
    BY <2>1, <2>2, <2>3, <2>4, <2>5, <2>6, <2>7, <2>8 DEF Next, poll_end
<1> QED
  BY <1>1, TypeCorrect, PTL DEF Spec, LifecycleForward

-----------------------------------------------------------------------------
(* The ordered channel implements OrderedStream.                           *)

\* No side makes more than MaxInc connections.
IncInv == \A e \in Sides : conn[e].inc <= MaxInc

LEMMA IncInductive ==
  ASSUME TypeOK, IncInv, [Next]_vars
  PROVE  IncInv'
<1>t. conn \in [Sides -> Connection] /\ \A e \in Sides : conn[e] \in Connection
  BY DEF TypeOK
<1>o. ASSUME NEW e \in Sides, NEW x, conn' = [conn EXCEPT ![e] = x], x.inc <= MaxInc
      PROVE  IncInv'
  BY <1>t, <1>o DEF IncInv
<1>a. ASSUME NEW e \in Sides, conn' = [conn EXCEPT ![e].state = "Absent"]
      PROVE  IncInv'
  <2> DEFINE x == [conn[e] EXCEPT !.state = "Absent"]
  <2>1. x.inc = conn[e].inc
    BY <1>t DEF Connection
  <2> HIDE DEF x
  <2>2. x.inc <= MaxInc
    BY <2>1 DEF IncInv
  <2> QED
    BY <1>a, <1>o, <2>2 DEF x
<1>1. CASE bind
  BY <1>1, <1>a DEF bind, Sides
<1>2. CASE connect
  <2> DEFINE x == [state |-> "Connecting", inc |-> 1, channels |-> NewChannels]
  <2>1. conn' = [conn EXCEPT !["client"] = x] /\ x.inc = 1 /\ "client" \in Sides
    BY <1>2 DEF connect, Sides
  <2> HIDE DEF x
  <2>2. x.inc <= MaxInc
    BY <2>1, MaxIncAssumption
  <2> QED
    BY <1>o, <2>1, <2>2
<1>3. ASSUME NEW e \in Sides, disconnect(e)
      PROVE  IncInv'
  BY <1>3, <1>a DEF disconnect
<1>4. ASSUME NEW e \in Sides, NEW r \in Channels, send(e, r)
      PROVE  IncInv'
  <2> DEFINE x == [conn[e] EXCEPT !.channels[r] = Enqueue(r, conn[e].channels[r])]
  <2>1. conn' = [conn EXCEPT ![e] = x]
    BY <1>4 DEF send
  <2>2. x.inc = conn[e].inc
    BY <1>t DEF Connection
  <2> HIDE DEF x
  <2>3. x.inc <= MaxInc
    BY <2>2 DEF IncInv
  <2> QED
    BY <1>o, <2>1, <2>3
<1>5. ASSUME NEW e \in Sides, pop_receive(e)
      PROVE  IncInv'
  BY <1>5 DEF pop_receive, IncInv
<1>6. ASSUME NEW e \in Sides, NEW p \in net, process_packet(e, p)
      PROVE  IncInv'
  <2> DEFINE h == process_header(e, p)
             g == get_or_create_connection(conn[e])
  <2>1. h \in Connection /\ p \in Packet
    BY HeaderType DEF TypeOK
  <2>2. g \in Connection
    BY <1>t, NewChannelsType DEF get_or_create_connection, Connection
  <2>3. h.inc = g.inc
    <3> HIDE DEF g
    <3> QED
      BY <2>2 DEF process_header, Connection, g
  <2>4. conn[e].state = "Absent" => conn[e].inc < MaxInc
    BY <1>6 DEF process_packet, process_handshake, process_disconnect,
                process_keepalive, process_user, recvfrom
  <2>5. conn[e].inc \in Nat /\ conn[e].inc <= MaxInc
    BY <1>t DEF IncInv, Connection
  <2>6. h.inc <= MaxInc
    BY <2>3, <2>4, <2>5, MaxIncAssumption DEF get_or_create_connection
  <2> HIDE DEF h, g
  <2>7. CASE process_handshake(e, p)
    <3> DEFINE x == [h EXCEPT !.state = IF @ = "Connecting" THEN "Connected" ELSE @]
    <3>1. conn' = [conn EXCEPT ![e] = x] /\ x.inc = h.inc
      BY <2>1, <2>7 DEF process_handshake, h, Connection
    <3> HIDE DEF x
    <3>2. x.inc <= MaxInc
      BY <2>6, <3>1
    <3> QED
      BY <1>o, <3>1, <3>2
  <2>8. CASE process_disconnect(e, p)
    <3> DEFINE x == [h EXCEPT !.state = "Disconnecting"]
    <3>1. conn' = [conn EXCEPT ![e] = x] /\ x.inc = h.inc
      BY <2>1, <2>8 DEF process_disconnect, h, Connection
    <3> HIDE DEF x
    <3>2. x.inc <= MaxInc
      BY <2>6, <3>1
    <3> QED
      BY <1>o, <3>1, <3>2
  <2>9. CASE process_keepalive(e, p)
    BY <1>o, <2>6, <2>9 DEF process_keepalive, h
  <2>10. CASE process_user(e, p)
    <3> DEFINE x == [h EXCEPT !.channels[p.ch] = receive(p.ch, @, p.seq, p.msg)]
    <3>1. conn' = [conn EXCEPT ![e] = x] /\ x.inc = h.inc
      BY <2>1, <2>10 DEF process_user, h, Connection
    <3> HIDE DEF x
    <3>2. x.inc <= MaxInc
      BY <2>6, <3>1
    <3> QED
      BY <1>o, <3>1, <3>2
  <2> QED
    BY <1>6, <2>7, <2>8, <2>9, <2>10 DEF process_packet
<1>7. ASSUME NEW e \in Sides, NEW due, NEW alive, NEW silent,
             poll_end_connected(e, due, alive, silent)
      PROVE  IncInv'
  <2> DEFINE x == resend_pending(conn[e], due)
             y == cleanup_connections(x, silent)
  <2>1. conn' = [conn EXCEPT ![e] = y]
    BY <1>7 DEF poll_end_connected
  <2>2. x \in Connection /\ x.inc = conn[e].inc
    BY <1>t, ResendPendingType
  <2> HIDE DEF x
  <2>3. y.inc = x.inc
    BY <2>2 DEF cleanup_connections, Connection
  <2> HIDE DEF y
  <2>4. y.inc <= MaxInc
    BY <2>2, <2>3 DEF IncInv
  <2> QED
    BY <1>o, <2>1, <2>4
<1>8. ASSUME NEW e \in Sides, NEW silent, poll_end_other(e, silent)
      PROVE  IncInv'
  <2> DEFINE y == cleanup_connections(conn[e], silent)
  <2>1. conn' = [conn EXCEPT ![e] = y]
    BY <1>8 DEF poll_end_other
  <2>2. y.inc = conn[e].inc
    BY <1>t DEF cleanup_connections, Connection
  <2> HIDE DEF y
  <2>3. y.inc <= MaxInc
    BY <2>2 DEF IncInv
  <2> QED
    BY <1>o, <2>1, <2>3
<1>9. CASE UNCHANGED vars
  BY <1>9 DEF vars, IncInv
<1> QED
  BY <1>1, <1>2, <1>3, <1>4, <1>5, <1>6, <1>7, <1>8, <1>9 DEF Next, poll_end

\* The first n positions, as a sequence.
Positions(n) == [k \in 1 .. n |-> k - 1]

LEMMA PositionsSeq ==
  ASSUME NEW n \in Nat
  PROVE  /\ Positions(n) \in Seq(Nat)
         /\ Len(Positions(n)) = n
         /\ Append(Positions(n), n) = Positions(n + 1)
  <1>1. Positions(n) \in [1 .. n -> Nat]
    BY DEF Positions
  <1>2. Positions(n) \in Seq(Nat) /\ Len(Positions(n)) = n
    BY <1>1
  <1> QED
    BY <1>2 DEF Positions

\* The values the refinement mapping gives the variables of OrderedStream.
Sub(cs) == [e \in Sides |-> OrderedOf(cs[e]).sent]
Del(cs) == [e \in Sides |-> [k \in DOMAIN OrderedOf(cs[e]).got |->
                                OrderedOf(cs[e]).got[k].idx]]
Unr(cs) == [e \in Sides |-> {q.idx : q \in OrderedOf(cs[e]).pending}]

\* What is handed up is a prefix of what the peer sent: only its length varies.
LEMMA DeliveredPositions ==
  ASSUME NEW cs \in [Sides -> Connection], ChannelInv(cs)
  PROVE  /\ Del(cs) = [e \in Sides |-> Positions(Len(OrderedOf(cs[e]).got))]
         /\ \A e \in Sides : Len(OrderedOf(cs[e]).got) \in Nat
  <1>1. \A e \in Sides : OrderedOf(cs[e]) \in Channel
    BY DEF Connection, OrderedOf, Reliability
  <1>2. \A e \in Sides : /\ OrderedOf(cs[e]).got \in Seq(Message)
                         /\ Len(OrderedOf(cs[e]).got) \in Nat
                         /\ DOMAIN OrderedOf(cs[e]).got = 1 .. Len(OrderedOf(cs[e]).got)
    BY <1>1 DEF Channel
  <1>3. \A e \in Sides : \A k \in 1 .. Len(OrderedOf(cs[e]).got) :
           OrderedOf(cs[e]).got[k].idx = k - 1
    BY DEF ChannelInv, ReceiverInv
  <1> QED
    BY <1>2, <1>3 DEF Del, Positions

\* A step that touches one side's channel, sends nothing new on it, forgets
\* some of its pending messages and hands up at most one message.
LEMMA HearStep ==
  ASSUME TypeOK, OrderedInv, TypeOK', OrderedInv', Single(conn'),
         NEW e \in Sides,
         OrderedOf(conn'[Peer(e)]) = OrderedOf(conn[Peer(e)]),
         OrderedOf(conn'[e]).sent = OrderedOf(conn[e]).sent,
         \A q \in OrderedOf(conn'[e]).pending : IsPending(OrderedOf(conn[e]), q.idx),
         \/ Len(OrderedOf(conn'[e]).got) = Len(OrderedOf(conn[e]).got)
         \/ Len(OrderedOf(conn'[e]).got) = Len(OrderedOf(conn[e]).got) + 1
  PROVE  Stream!Next
  <1> DEFINE d == Peer(e)
             n == Len(OrderedOf(conn[e]).got)
             m == Len(OrderedOf(conn'[e]).got)
             k == Len(OrderedOf(conn[d]).got)
             S == Unr(conn)[e] \ Unr(conn')[e]
  <1>1. d \in Sides /\ d # e /\ Peer(d) = e /\ \A g \in Sides : g = e \/ g = d
    BY PeerSide
  <1>2. conn \in [Sides -> Connection] /\ conn' \in [Sides -> Connection]
    BY DEF TypeOK
  <1>3. /\ Del(conn) = [g \in Sides |-> Positions(Len(OrderedOf(conn[g]).got))]
        /\ Del(conn') = [g \in Sides |-> Positions(Len(OrderedOf(conn'[g]).got))]
        /\ n \in Nat /\ m \in Nat /\ k \in Nat
    BY <1>1, <1>2, DeliveredPositions DEF OrderedInv, OrderedInvOf
  <1>4. Sub(conn') = Sub(conn)
    BY <1>1 DEF Sub
  <1>5. Unr(conn')[e] \subseteq Unr(conn)[e]
    BY DEF Unr, IsPending
  <1>6. Unr(conn') = [Unr(conn) EXCEPT ![e] = @ \ S]
    <2>1. Unr(conn')[d] = Unr(conn)[d]
      BY <1>1 DEF Unr
    <2>2. Unr(conn')[e] = Unr(conn)[e] \ S
      BY <1>5
    <2> QED
      BY <1>1, <2>1, <2>2 DEF Unr
  <1>l. LinkInv(conn', net')
    BY DEF OrderedInv, OrderedInvOf
  <1>7. \A i \in S : i < Len(Del(conn)[d])
    <2> SUFFICES ASSUME NEW i \in S
                 PROVE  i < Len(Del(conn)[d])
      OBVIOUS
    <2>1. PICK q \in OrderedOf(conn[e]).pending : q.idx = i
      BY DEF Unr
    <2>2. OrderedOf(conn[e]) \in Channel
      BY <1>2 DEF Connection, OrderedOf, Reliability
    <2>3. i \in Nat /\ i < OrderedOf(conn[e]).sent /\ OrderedOf(conn[e]).sent \in Nat
      BY <2>1, <2>2 DEF Channel, Pending, OrderedInv, OrderedInvOf, ChannelInv, SenderInv
    <2>4. ~ IsPending(OrderedOf(conn'[e]), i)
      BY DEF Unr, IsPending
    <2>5. i \in 0 .. OrderedOf(conn'[e]).sent - 1
      BY <2>3
    <2>6. i < Len(OrderedOf(conn'[d]).got)
      BY <1>l, <2>4, <2>5 DEF LinkInv, Single
    <2>7. Len(Del(conn)[d]) = k
      BY <1>1, <1>3, PositionsSeq
    <2> QED
      BY <2>6, <2>7
  <1>8. CASE m = n
    <2>1. Del(conn') = Del(conn)
      BY <1>1, <1>3, <1>8
    <2> HIDE DEF S, d, k, m, n
    <2>2. Stream!Hear(e)
      BY <1>4, <1>6, <1>7, <2>1
      DEF Stream!Hear, Sub, Del, Unr, Ordered, OrderedOf, S, d
    <2> QED
      BY <2>2 DEF Stream!Next
  <1>9. CASE m = n + 1
    <2>1. Del(conn') = [Del(conn) EXCEPT ![e] = Append(@, Len(@))]
      <3>1. Len(Del(conn)[e]) = n /\ Append(Del(conn)[e], n) = Positions(n + 1)
        BY <1>3, PositionsSeq
      <3>2. Del(conn')[e] = Positions(n + 1) /\ Del(conn')[d] = Del(conn)[d]
        BY <1>1, <1>3, <1>9
      <3>3. Del(conn') = [g \in Sides |-> Del(conn')[g]]
              /\ Del(conn) = [g \in Sides |-> Del(conn)[g]]
        BY DEF Del
      <3> HIDE DEF d, k, m, n, S
      <3>4. \A g \in Sides : Del(conn')[g] =
              [Del(conn) EXCEPT ![e] = Append(@, Len(@))][g]
        BY <1>1, <3>1, <3>2, <3>3
      <3> QED
        BY <3>3, <3>4
    <2>2. Len(Del(conn)[e]) < Sub(conn)[d]
      <3>1. Len(Del(conn)[e]) = n
        BY <1>3, PositionsSeq
      <3>2. m <= OrderedOf(conn'[d]).sent
        BY <1>l DEF LinkInv, Single
      <3>3. OrderedOf(conn[d]).sent \in Nat
        BY <1>1, <1>2 DEF Connection, Channel, OrderedOf, Reliability
      <3> QED
        BY <1>1, <1>3, <1>9, <3>1, <3>2, <3>3 DEF Sub
    <2> HIDE DEF S, d, k, m, n
    <2>3. Stream!DeliverNext(e)
      BY <2>1, <2>2 DEF Stream!DeliverNext, Sub, Del, Ordered, OrderedOf, d
    <2>4. Stream!Hear(e)
      BY <1>4, <1>6, <1>7, <2>3
      DEF Stream!Hear, Sub, Del, Unr, Ordered, OrderedOf, S, d
    <2> QED
      BY <2>4 DEF Stream!Next
  <1> QED
    BY <1>8, <1>9

\* The ordered channel, as one step of the code leaves it at the side whose
\* connection it replaces by x.
OnlyHears(c, x) ==
  /\ OrderedOf(x).sent = OrderedOf(c).sent
  /\ \A q \in OrderedOf(x).pending : IsPending(OrderedOf(c), q.idx)
  /\ \/ Len(OrderedOf(x).got) = Len(OrderedOf(c).got)
     \/ Len(OrderedOf(x).got) = Len(OrderedOf(c).got) + 1

\* Every step of the code is a step of OrderedStream or leaves it unchanged.
LEMMA StreamStep ==
  ASSUME NoWrap, MaxInc = 1, TypeOK, OrderedInv, IncInv,
         TypeOK', OrderedInv', IncInv', [Next]_vars
  PROVE  [Stream!Next]_(Stream!streamVars)
<1>t. conn \in [Sides -> Connection] /\ \A e \in Sides : conn[e] \in Connection
  BY DEF TypeOK
<1>s. Single(conn')
  BY DEF IncInv, Single
<1>f. \A e \in Sides : conn[e].inc = 0 => conn[e].channels = NewChannels
  BY DEF OrderedInv, OrderedInvOf, FreshInv
<1>o. ASSUME NEW e \in Sides, NEW x, conn' = [conn EXCEPT ![e] = x],
             OnlyHears(conn[e], x)
      PROVE  Stream!Next
  <2>1. conn'[e] = x /\ conn'[Peer(e)] = conn[Peer(e)]
    BY <1>o, <1>t, PeerSide
  <2> QED
    BY <1>o, <1>s, <2>1, HearStep DEF OnlyHears
<1>c. ASSUME NEW e \in Sides, NEW x, x.channels = conn[e].channels
      PROVE  OnlyHears(conn[e], x)
  BY <1>c DEF OnlyHears, OrderedOf, IsPending
<1>a. ASSUME NEW e \in Sides, conn' = [conn EXCEPT ![e].state = "Absent"]
      PROVE  Stream!Next
  <2> DEFINE x == [conn[e] EXCEPT !.state = "Absent"]
  <2>1. conn' = [conn EXCEPT ![e] = x] /\ x.channels = conn[e].channels
    BY <1>a, <1>t DEF Connection
  <2> HIDE DEF x
  <2> QED
    BY <1>c, <1>o, <2>1
<1>1. CASE bind
  BY <1>1, <1>a DEF bind, Sides
<1>2. CASE connect
  <2> DEFINE x == [state |-> "Connecting", inc |-> 1, channels |-> NewChannels]
  <2>1. /\ conn' = [conn EXCEPT !["client"] = x]
        /\ x.channels = conn["client"].channels
        /\ "client" \in Sides
    BY <1>2, <1>f DEF connect, Sides
  <2> HIDE DEF x
  <2> QED
    BY <1>c, <1>o, <2>1
<1>3. ASSUME NEW e \in Sides, disconnect(e)
      PROVE  Stream!Next
  BY <1>3, <1>a DEF disconnect
<1>4. ASSUME NEW e \in Sides, NEW r \in Channels, send(e, r)
      PROVE  Stream!Next
  <2> DEFINE c == conn[e].channels[r]
             y == Enqueue(r, c)
             x == [conn[e] EXCEPT !.channels[r] = y]
  <2>1. conn' = [conn EXCEPT ![e] = x]
    BY <1>4 DEF send
  <2>2. r \in Reliability /\ c \in Channel
    BY <1>t, ChannelsAssumption DEF Connection
  <2>3. x.channels = [conn[e].channels EXCEPT ![r] = y]
    BY <1>t DEF Connection
  <2>4. CASE r # "ReliableOrdered"
    <3>1. OrderedOf(x) = OrderedOf(conn[e])
      BY <1>t, <2>3, <2>4 DEF OrderedOf, Connection, Reliability
    <3>2. OnlyHears(conn[e], x)
      BY <3>1 DEF OnlyHears, IsPending
    <3> HIDE DEF x
    <3> QED
      BY <1>o, <2>1, <3>2
  <2>5. CASE r = "ReliableOrdered"
    <3>1. OrderedOf(x) = y /\ OrderedOf(conn[e]) = c
      BY <1>t, <2>2, <2>3, <2>5 DEF OrderedOf, Connection
    <3>2. /\ y.sent = c.sent + 1 /\ y.got = c.got
          /\ y.pending = c.pending \cup {[idx |-> c.sent, retries |-> 0]}
      BY <2>2, <2>5 DEF Enqueue, Channel, is_reliable
    <3> HIDE DEF x, y, c
    <3>3. \A g \in Sides : conn'[g] = IF g = e THEN x ELSE conn[g]
      BY <1>t, <2>1
    <3>4. Sub(conn') = [Sub(conn) EXCEPT ![e] = @ + 1]
      BY <3>1, <3>2, <3>3 DEF Sub
    <3>5. Del(conn') = Del(conn)
      BY <3>1, <3>2, <3>3 DEF Del
    <3>6. Unr(conn') = [Unr(conn) EXCEPT ![e] = @ \cup {Sub(conn)[e]}]
      <4>1. {q.idx : q \in y.pending} = {q.idx : q \in c.pending} \cup {c.sent}
        <5> DEFINE z == [idx |-> c.sent, retries |-> 0]
        <5>1. z.idx = c.sent /\ y.pending = c.pending \cup {z}
          BY <3>2
        <5> HIDE DEF z
        <5> QED
          BY <5>1
      <4>2. Sub(conn)[e] = c.sent
        BY <3>1 DEF Sub
      <4> QED
        BY <3>1, <3>3, <4>1, <4>2 DEF Unr
    <3>7. Stream!Submit(e)
      BY <3>4, <3>5, <3>6 DEF Stream!Submit, Sub, Del, Unr, Ordered, OrderedOf
    <3> QED
      BY <3>7 DEF Stream!Next
  <2> QED
    BY <2>4, <2>5
<1>u. ASSUME UNCHANGED conn
      PROVE  UNCHANGED Stream!streamVars
  BY <1>u DEF Stream!streamVars, Ordered
<1>5. ASSUME NEW e \in Sides, pop_receive(e)
      PROVE  UNCHANGED Stream!streamVars
  BY <1>5, <1>u DEF pop_receive
<1>6. ASSUME NEW e \in Sides, NEW p \in net, process_packet(e, p)
      PROVE  Stream!Next
  <2> DEFINE h == process_header(e, p)
             g == get_or_create_connection(conn[e])
  <2>1. h \in Connection /\ p \in Packet
    BY HeaderType DEF TypeOK
  <2>2. conn[e].state = "Absent" => conn[e].inc < MaxInc
    BY <1>6 DEF process_packet, process_handshake, process_disconnect,
                process_keepalive, process_user, recvfrom
  \* An entry made now is the first one, and the channels were still unused.
  <2>3. g \in Connection /\ g.channels = conn[e].channels
    <3>1. conn[e].inc \in Nat
      BY <1>t DEF Connection
    <3>2. conn[e].state = "Absent" => conn[e].inc = 0
      BY <2>2, <3>1
    <3> QED
      BY <1>f, <1>t, <3>2, NewChannelsType DEF get_or_create_connection, Connection
  <2>4. /\ OrderedOf(h).sent = OrderedOf(conn[e]).sent
        /\ OrderedOf(h).pending \subseteq OrderedOf(conn[e]).pending
        /\ OrderedOf(h).got = OrderedOf(conn[e]).got
    <3> DEFINE y == process_acks(p.ch, g.channels[p.ch], p.ack, p.bits)
    <3>1. p.ch \in Reliability /\ g.channels[p.ch] \in Channel
            /\ p.ack \in SeqNum /\ p.bits \in AckMask
      BY <2>1, <2>3 DEF Packet, Connection
    <3>2. y.sent = g.channels[p.ch].sent /\ y.pending \subseteq g.channels[p.ch].pending
            /\ y.got = g.channels[p.ch].got
      BY <3>1, ProcessAcksType
    <3> HIDE DEF g
    <3>3. h.channels = [g.channels EXCEPT ![p.ch] = y]
      BY <2>3, <3>1 DEF process_header, Connection, g
    <3> HIDE DEF h, y
    <3>4. \A r \in Reliability :
             h.channels[r] = IF r = p.ch THEN y ELSE g.channels[r]
      BY <2>3, <3>3 DEF Connection
    <3>5. "ReliableOrdered" \in Reliability
      BY DEF Reliability
    <3> QED
      BY <2>3, <3>2, <3>4, <3>5 DEF OrderedOf
  <2>5. OrderedOf(h) \in Channel
    <3> HIDE DEF h
    <3> QED
      BY <2>1 DEF Connection, OrderedOf, Reliability
  <2> HIDE DEF h, g
  <2>6. ASSUME NEW x, x.channels = h.channels
        PROVE  OnlyHears(conn[e], x)
    BY <2>4, <2>6 DEF OnlyHears, OrderedOf, IsPending
  <2>7. CASE process_handshake(e, p)
    <3> DEFINE x == [h EXCEPT !.state = IF @ = "Connecting" THEN "Connected" ELSE @]
    <3>1. conn' = [conn EXCEPT ![e] = x] /\ x.channels = h.channels
      BY <2>1, <2>7 DEF process_handshake, h, Connection
    <3> HIDE DEF x
    <3> QED
      BY <1>o, <2>6, <3>1
  <2>8. CASE process_disconnect(e, p)
    <3> DEFINE x == [h EXCEPT !.state = "Disconnecting"]
    <3>1. conn' = [conn EXCEPT ![e] = x] /\ x.channels = h.channels
      BY <2>1, <2>8 DEF process_disconnect, h, Connection
    <3> HIDE DEF x
    <3> QED
      BY <1>o, <2>6, <3>1
  <2>9. CASE process_keepalive(e, p)
    <3>1. conn' = [conn EXCEPT ![e] = h]
      BY <2>9 DEF process_keepalive, h
    <3> QED
      BY <1>o, <2>6, <3>1
  <2>10. CASE process_user(e, p)
    <3> DEFINE y == receive(p.ch, h.channels[p.ch], p.seq, p.msg)
               x == [h EXCEPT !.channels[p.ch] = y]
    <3>1. conn' = [conn EXCEPT ![e] = x]
      BY <2>10 DEF process_user, h
    <3>2. p.ch \in Reliability /\ h.channels[p.ch] \in Channel
            /\ p.seq \in SeqNum /\ p.msg \in Message
      BY <2>1 DEF Packet, Connection
    <3>3. /\ y.sent = h.channels[p.ch].sent /\ y.pending = h.channels[p.ch].pending
          /\ y.got = IF accepts(p.ch, h.channels[p.ch], p.seq)
                       THEN Append(h.channels[p.ch].got, p.msg)
                       ELSE h.channels[p.ch].got
      BY <3>2, ReceiveType
    <3>4. \/ Len(y.got) = Len(h.channels[p.ch].got)
          \/ Len(y.got) = Len(h.channels[p.ch].got) + 1
      <4>1. h.channels[p.ch].got \in Seq(Message)
        BY <3>2 DEF Channel
      <4>2. Len(Append(h.channels[p.ch].got, p.msg)) = Len(h.channels[p.ch].got) + 1
        BY <3>2, <4>1, AppendElements
      <4> HIDE DEF y
      <4> QED
        BY <3>3, <4>2
    <3> HIDE DEF y
    <3>5. \A r \in Reliability :
             x.channels[r] = IF r = p.ch THEN y ELSE h.channels[r]
      BY <2>1 DEF Connection
    <3> HIDE DEF x
    <3>6. OnlyHears(conn[e], x)
      <4>1. "ReliableOrdered" \in Reliability
        BY DEF Reliability
      <4>2. CASE p.ch = "ReliableOrdered"
        <5>1. OrderedOf(x) = y /\ OrderedOf(h) = h.channels[p.ch]
          BY <3>5, <4>1, <4>2 DEF OrderedOf
        <5> QED
          BY <2>4, <3>3, <3>4, <5>1 DEF OnlyHears, IsPending
      <4>3. CASE p.ch # "ReliableOrdered"
        <5>1. OrderedOf(x) = OrderedOf(h)
          BY <3>5, <4>1, <4>3 DEF OrderedOf
        <5> QED
          BY <2>4, <5>1 DEF OnlyHears, IsPending
      <4> QED
        BY <4>2, <4>3
    <3> QED
      BY <1>o, <3>1, <3>6
  <2> QED
    BY <1>6, <2>7, <2>8, <2>9, <2>10 DEF process_packet
<1>7. ASSUME NEW e \in Sides, NEW due, NEW alive, NEW silent,
             poll_end_connected(e, due, alive, silent)
      PROVE  Stream!Next
  <2> DEFINE c == OrderedOf(conn[e])
             S == {q \in c.pending : <<"ReliableOrdered", q>> \in Walked(due)}
             z == count_retry(c, S)
             x == resend_pending(conn[e], due)
             y == cleanup_connections(x, silent)
  <2>1. conn' = [conn EXCEPT ![e] = y]
    BY <1>7 DEF poll_end_connected
  <2>2. x \in Connection
    BY <1>t, ResendPendingType
  <2>3. OrderedOf(x) = z
    BY <1>t DEF resend_pending, OrderedOf, Reliability, Connection
  <2>4. c \in Channel
    BY <1>t DEF Connection, OrderedOf, Reliability
  <2>5. /\ z \in Channel /\ z.sent = c.sent /\ z.got = c.got
        /\ \A i \in Nat : IsPending(z, i) <=> IsPending(c, i)
    BY <2>4, CountRetryType, ZenonT(30) DEF IsPending
  <2> HIDE DEF x, z
  <2>6. y.channels = x.channels
    BY <2>2 DEF cleanup_connections, Connection
  <2> HIDE DEF y
  <2>7. OnlyHears(conn[e], y)
    <3>1. OrderedOf(y) = z
      BY <2>3, <2>6 DEF OrderedOf
    <3>2. \A q \in z.pending : q.idx \in Nat /\ IsPending(z, q.idx)
      BY <2>5 DEF Channel, Pending, IsPending
    <3> QED
      BY <2>5, <3>1, <3>2 DEF OnlyHears
  <2> QED
    BY <1>o, <2>1, <2>7
<1>8. ASSUME NEW e \in Sides, NEW silent, poll_end_other(e, silent)
      PROVE  Stream!Next
  <2> DEFINE y == cleanup_connections(conn[e], silent)
  <2>1. conn' = [conn EXCEPT ![e] = y]
    BY <1>8 DEF poll_end_other
  <2>2. y.channels = conn[e].channels
    BY <1>t DEF cleanup_connections, Connection
  <2> HIDE DEF y
  <2> QED
    BY <1>c, <1>o, <2>1, <2>2
<1>9. CASE UNCHANGED vars
  BY <1>9, <1>u DEF vars
<1> QED
  BY <1>1, <1>2, <1>3, <1>4, <1>5, <1>6, <1>7, <1>8, <1>9 DEF Next, poll_end

\* Initially nothing has been submitted, delivered or released.
LEMMA StreamInit == Init => Stream!Init
<1> SUFFICES ASSUME Init
             PROVE  Stream!Init
  OBVIOUS
<1>1. \A e \in Sides : Ordered(e) = NewChannel
  BY DEF Init, Ordered, NewChannels, Reliability
<1>2. \A e \in Sides : /\ Ordered(e).sent = 0
                       /\ Ordered(e).got = << >>
                       /\ Ordered(e).pending = {}
  BY <1>1 DEF NewChannel
<1>3. \A e \in Sides : [k \in DOMAIN Ordered(e).got |-> Ordered(e).got[k].idx] = << >>
  BY <1>2
<1>4. \A e \in Sides : {q.idx : q \in Ordered(e).pending} = {}
  BY <1>2
<1> QED
  BY <1>2, <1>3, <1>4 DEF Stream!Init

\* The ReliableOrdered channel of one connection implements OrderedStream: each
\* send is a Submit, and every packet process_packet receives, every timer and
\* every other call is a Hear, which delivers nothing but the next message and
\* forgets nothing but what has been delivered.
THEOREM ImplementsStreamHolds ==
  ASSUME NoWrap, MaxInc = 1
  PROVE  Spec => ImplementsStream
<1>1. Init => IncInv
  <2>1. \A e \in Sides : Init => conn[e].inc = 0
    BY DEF Init
  <2> QED
    BY <2>1, MaxIncAssumption DEF IncInv
<1>2. TypeOK /\ IncInv /\ [Next]_vars => IncInv'
  BY IncInductive
<1>3. Spec => []IncInv
  BY <1>1, <1>2, TypeCorrect, PTL DEF Spec
<1>4. TypeOK /\ OrderedInv /\ IncInv /\ TypeOK' /\ OrderedInv' /\ IncInv' /\ [Next]_vars
        => [Stream!Next]_(Stream!streamVars)
  BY StreamStep
<1> QED
  BY <1>3, <1>4, StreamInit, TypeCorrect, OrderedInvariant, PTL
  DEF Spec, ImplementsStream, Stream!Spec

-----------------------------------------------------------------------------
(* What a header reports.                                                  *)

\* The ack_bits of a side that has received n ordered messages.
Mask(n) == {b \in 0 .. AckBits - 1 : b < n}

BitsOK(c) == c.ack_bits = Mask(Len(c.got))

\* An ordered packet reports exactly what its sender had received.
ReportOK(p) ==
  p.ch = "ReliableOrdered" =>
    /\ p.upto <= MaxSend[p.dst]
    /\ p.ack = IF p.upto = 0 THEN SeqMod - 1 ELSE p.upto - 1
    /\ p.bits = Mask(p.upto)

ReportInv ==
  /\ \A e \in Sides : BitsOK(OrderedOf(conn[e]))
  /\ \A p \in net : ReportOK(p)

\* The bit of a message received is shifted in.
LEMMA MaskShift ==
  ASSUME NEW n \in Nat
  PROVE  shift_in(Mask(n)) = Mask(n + 1)
  BY AckBitsAssumption DEF shift_in, Mask

LEMMA UserPacketReport ==
  ASSUME TypeOK, OrderedInv, NEW e \in Sides, NEW r \in Reliability, NEW m,
         BitsOK(OrderedOf(conn[e]))
  PROVE  ReportOK(UserPacket(Peer(e), r, conn[e].channels[r], m))
  <1> DEFINE c == conn[e].channels[r]
             p == UserPacket(Peer(e), r, c, m)
  <1> SUFFICES ASSUME p.ch = "ReliableOrdered"
               PROVE  ReportOK(p)
    BY DEF ReportOK
  <1>1. /\ r = "ReliableOrdered" /\ p.upto = Len(c.got) /\ p.ack = c.remote_seq
        /\ p.bits = c.ack_bits /\ p.dst = Peer(e)
    BY DEF UserPacket
  <1>2. c \in Channel /\ c = OrderedOf(conn[e])
    BY <1>1 DEF TypeOK, Connection, OrderedOf
  <1>3. ReceiverInv(c, MaxSend[Peer(e)])
    BY <1>2 DEF OrderedInv, OrderedInvOf, ChannelInv
  <1>4. c.got \in Seq(Message) /\ Len(c.got) \in Nat /\ (c.got = << >> <=> Len(c.got) = 0)
    BY <1>2 DEF Channel
  <1> HIDE DEF c, p
  <1> QED
    BY <1>1, <1>2, <1>3, <1>4 DEF ReportOK, BitsOK, ReceiverInv

LEMMA ReportInductive ==
  ASSUME NoWrap, TypeOK, OrderedInv, ReportInv, [Next]_vars
  PROVE  ReportInv'
<1>t. conn \in [Sides -> Connection] /\ \A e \in Sides : conn[e] \in Connection
  BY DEF TypeOK
<1>b. \A e \in Sides : BitsOK(OrderedOf(conn[e]))
  BY DEF ReportInv
<1>o. ASSUME NEW e \in Sides, NEW x, conn' = [conn EXCEPT ![e] = x],
             BitsOK(OrderedOf(x)), \A p \in net' \ net : ReportOK(p)
      PROVE  ReportInv'
  BY <1>o, <1>t DEF ReportInv
<1>k. \A d, ty : ReportOK(ControlPacket(d, ty))
  BY DEF ControlPacket, ReportOK
<1>n. BitsOK(NewChannel) /\ BitsOK(OrderedOf([state |-> "Connecting", inc |-> 1,
                                              channels |-> NewChannels]))
        /\ \A i : BitsOK(OrderedOf([state |-> "Connecting", inc |-> i,
                                              channels |-> NewChannels]))
  <2>1. Mask(0) = {}
    BY DEF Mask
  <2>2. BitsOK(NewChannel)
    BY <2>1 DEF BitsOK, NewChannel
  <2> QED
    BY <2>2 DEF OrderedOf, NewChannels, Reliability
<1>a. ASSUME NEW e \in Sides, conn' = [conn EXCEPT ![e].state = "Absent"],
             net' = net \cup DisconnectPackets(e)
      PROVE  ReportInv'
  <2> DEFINE x == [conn[e] EXCEPT !.state = "Absent"]
  <2>1. conn' = [conn EXCEPT ![e] = x] /\ OrderedOf(x) = OrderedOf(conn[e])
    BY <1>a, <1>t DEF Connection, OrderedOf
  <2>2. \A p \in net' \ net : ReportOK(p)
    BY <1>a, <1>k DEF DisconnectPackets
  <2>3. BitsOK(OrderedOf(x))
    BY <1>b, <2>1
  <2> HIDE DEF x
  <2> QED
    BY <1>o, <2>1, <2>2, <2>3
<1>1. CASE bind
  BY <1>1, <1>a DEF bind, Sides
<1>2. CASE connect
  <2> DEFINE x == [state |-> "Connecting", inc |-> 1, channels |-> NewChannels]
  <2>1. conn' = [conn EXCEPT !["client"] = x] /\ "client" \in Sides
    BY <1>2 DEF connect, Sides
  <2>2. \A p \in net' \ net : ReportOK(p)
    BY <1>2, <1>k DEF connect
  <2>3. BitsOK(OrderedOf(x))
    BY <1>n
  <2> HIDE DEF x
  <2> QED
    BY <1>o, <2>1, <2>2, <2>3
<1>3. ASSUME NEW e \in Sides, disconnect(e)
      PROVE  ReportInv'
  BY <1>3, <1>a DEF disconnect
<1>4. ASSUME NEW e \in Sides, NEW r \in Channels, send(e, r)
      PROVE  ReportInv'
  <2> DEFINE c == conn[e].channels[r]
             y == Enqueue(r, c)
             x == [conn[e] EXCEPT !.channels[r] = y]
             m == [inc |-> conn[e].inc, idx |-> c.sent]
  <2>1. conn' = [conn EXCEPT ![e] = x]
          /\ net' = net \cup {UserPacket(Peer(e), r, c, m)}
    BY <1>4 DEF send
  <2>2. r \in Reliability /\ c \in Channel
    BY <1>t, ChannelsAssumption DEF Connection
  <2>3. y.got = c.got /\ y.ack_bits = c.ack_bits
    BY <2>2 DEF Enqueue, Channel
  <2>4. \A s \in Reliability :
           x.channels[s] = IF s = r THEN y ELSE conn[e].channels[s]
    BY <1>t DEF Connection
  <2>5. ReportOK(UserPacket(Peer(e), r, c, m))
    BY <1>b, <2>2, UserPacketReport
  <2> HIDE DEF x, y, m
  <2>6. BitsOK(OrderedOf(x))
    BY <1>b, <2>3, <2>4 DEF BitsOK, OrderedOf, Reliability
  <2> HIDE DEF c
  <2>7. \A p \in net' \ net : ReportOK(p)
    BY <2>1, <2>5
  <2> QED
    BY <1>o, <2>1, <2>6, <2>7
<1>5. ASSUME NEW e \in Sides, pop_receive(e)
      PROVE  ReportInv'
  BY <1>5 DEF pop_receive, ReportInv
<1>6. ASSUME NEW e \in Sides, NEW p \in net, process_packet(e, p)
      PROVE  ReportInv'
  <2> DEFINE h == process_header(e, p)
             g == get_or_create_connection(conn[e])
  <2>1. h \in Connection /\ p \in Packet
    BY HeaderType DEF TypeOK
  <2>2. g \in Connection
    BY <1>t, NewChannelsType DEF get_or_create_connection, Connection
  <2>3. BitsOK(OrderedOf(g))
    BY <1>b, <1>n DEF get_or_create_connection
  <2>4. BitsOK(OrderedOf(h))
    <3> DEFINE y == process_acks(p.ch, g.channels[p.ch], p.ack, p.bits)
    <3>1. p.ch \in Reliability /\ g.channels[p.ch] \in Channel
            /\ p.ack \in SeqNum /\ p.bits \in AckMask
      BY <2>1, <2>2 DEF Packet, Connection
    <3>2. y.ack_bits = g.channels[p.ch].ack_bits /\ y.got = g.channels[p.ch].got
      BY <3>1, ProcessAcksType
    <3> HIDE DEF g
    <3>3. h.channels = [g.channels EXCEPT ![p.ch] = y]
      BY <2>2, <3>1 DEF process_header, Connection, g
    <3> HIDE DEF h, y
    <3>4. \A r \in Reliability :
             h.channels[r] = IF r = p.ch THEN y ELSE g.channels[r]
      BY <2>2, <3>3 DEF Connection
    <3> QED
      BY <2>3, <3>2, <3>4 DEF OrderedOf, BitsOK, Reliability
  <2> HIDE DEF h, g
  <2>5. CASE process_handshake(e, p)
    <3> DEFINE x == [h EXCEPT !.state = IF @ = "Connecting" THEN "Connected" ELSE @]
    <3>1. conn' = [conn EXCEPT ![e] = x] /\ x.channels = h.channels
      BY <2>1, <2>5 DEF process_handshake, h, Connection
    <3>2. \A q \in net' \ net : ReportOK(q)
      BY <1>k, <2>5 DEF process_handshake
    <3> HIDE DEF x
    <3>3. BitsOK(OrderedOf(x))
      BY <2>4, <3>1 DEF OrderedOf
    <3> QED
      BY <1>o, <3>1, <3>2, <3>3
  <2>6. CASE process_disconnect(e, p)
    <3> DEFINE x == [h EXCEPT !.state = "Disconnecting"]
    <3>1. conn' = [conn EXCEPT ![e] = x] /\ x.channels = h.channels /\ net' = net
      BY <2>1, <2>6 DEF process_disconnect, h, Connection
    <3> HIDE DEF x
    <3>3. BitsOK(OrderedOf(x))
      BY <2>4, <3>1 DEF OrderedOf
    <3> QED
      BY <1>o, <3>1, <3>3
  <2>7. CASE process_keepalive(e, p)
    <3>1. conn' = [conn EXCEPT ![e] = h] /\ net' = net
      BY <2>7 DEF process_keepalive, h
    <3> QED
      BY <1>o, <2>4, <3>1
  <2>8. CASE process_user(e, p)
    <3> DEFINE c == h.channels[p.ch]
               y == receive(p.ch, c, p.seq, p.msg)
               x == [h EXCEPT !.channels[p.ch] = y]
    <3>1. conn' = [conn EXCEPT ![e] = x] /\ net' = net
      BY <2>8 DEF process_user, h
    <3>2. p.ch \in Reliability /\ c \in Channel /\ p.seq \in SeqNum /\ p.msg \in Message
      BY <2>1 DEF Packet, Connection
    <3>4. p.ch = "ReliableOrdered" => BitsOK(y)
      <4> SUFFICES ASSUME p.ch = "ReliableOrdered"
                   PROVE  BitsOK(y)
        OBVIOUS
      <4>1. BitsOK(c)
        BY <2>4 DEF OrderedOf
      <4>2. CASE accepts(p.ch, c, p.seq)
        <5>1. y.got = Append(c.got, p.msg) /\ y.ack_bits = shift_in(c.ack_bits)
          BY <3>2, <4>2 DEF receive, is_reliable, Channel
        <5>2. c.got \in Seq(Message) /\ Len(c.got) \in Nat
          BY <3>2 DEF Channel
        <5>3. Len(y.got) = Len(c.got) + 1
          <6> HIDE DEF y
          <6> QED
            BY <3>2, <5>1, <5>2, AppendElements
        <5> HIDE DEF y, c
        <5> QED
          BY <4>1, <5>1, <5>2, <5>3, MaskShift DEF BitsOK
      <4>3. CASE ~ accepts(p.ch, c, p.seq)
        <5>1. y.got = c.got /\ y.ack_bits = c.ack_bits
          BY <3>2, <4>3, ReceiveType, OrderedReceive
        <5> HIDE DEF y, c
        <5> QED
          BY <4>1, <5>1 DEF BitsOK
      <4> QED
        BY <4>2, <4>3
    <3> HIDE DEF y
    <3>5. \A r \in Reliability :
             x.channels[r] = IF r = p.ch THEN y ELSE h.channels[r]
      BY <2>1 DEF Connection
    <3> HIDE DEF x, c
    <3>6. BitsOK(OrderedOf(x))
      BY <2>4, <3>4, <3>5 DEF OrderedOf, Reliability
    <3> QED
      BY <1>o, <3>1, <3>6
  <2> QED
    BY <1>6, <2>5, <2>6, <2>7, <2>8 DEF process_packet
<1>7. ASSUME NEW e \in Sides, NEW due \in SUBSET Outstanding(e), NEW alive, NEW silent,
             poll_end_connected(e, due, alive, silent)
      PROVE  ReportInv'
  <2> DEFINE c == OrderedOf(conn[e])
             S == {q \in c.pending : <<"ReliableOrdered", q>> \in Walked(due)}
             z == count_retry(c, S)
             x == resend_pending(conn[e], due)
             y == cleanup_connections(x, silent)
  <2>1. /\ conn' = [conn EXCEPT ![e] = y]
        /\ net' = net \cup Resent(e, due)
                      \cup (IF alive THEN {KeepAlive(Peer(e), conn[e].channels)}
                                     ELSE {})
    BY <1>7 DEF poll_end_connected
  <2>2. x \in Connection
    BY <1>t, ResendPendingType
  <2>3. OrderedOf(x) = z
    BY <1>t DEF resend_pending, OrderedOf, Reliability, Connection
  <2>4. c \in Channel
    BY <1>t DEF Connection, OrderedOf, Reliability
  <2>5. z.ack_bits = c.ack_bits /\ z.got = c.got
    BY <2>4, CountRetryType
  <2>6. \A p \in Resent(e, due) : ReportOK(p)
    <3> SUFFICES ASSUME NEW w \in due
                 PROVE  ReportOK(UserPacket(Peer(e), w[1], conn[e].channels[w[1]],
                          [inc |-> conn[e].inc, idx |-> w[2].idx]))
      BY DEF Resent, Walked
    <3>1. PICK r \in Reliability : \E q \in conn[e].channels[r].pending : w = <<r, q>>
      BY DEF Outstanding
    <3>2. w[1] \in Reliability
      BY <3>1
    <3> QED
      BY <1>b, <3>2, UserPacketReport
  <2>7. ReportOK(KeepAlive(Peer(e), conn[e].channels))
    <3>1. KeepAlive(Peer(e), conn[e].channels).ch = "Unreliable"
      BY DEF KeepAlive, ControlPacket
    <3> QED
      BY <3>1 DEF ReportOK
  <2> HIDE DEF x, z
  <2>8. y.channels = x.channels
    BY <2>2 DEF cleanup_connections, Connection
  <2> HIDE DEF y
  <2>9. BitsOK(OrderedOf(y))
    BY <1>b, <2>3, <2>5, <2>8 DEF BitsOK, OrderedOf
  <2>10. \A p \in net' \ net : ReportOK(p)
    BY <2>1, <2>6, <2>7
  <2> QED
    BY <1>o, <2>1, <2>9, <2>10
<1>8. ASSUME NEW e \in Sides, NEW silent, poll_end_other(e, silent)
      PROVE  ReportInv'
  <2> DEFINE y == cleanup_connections(conn[e], silent)
  <2>1. conn' = [conn EXCEPT ![e] = y] /\ net' = net
    BY <1>8 DEF poll_end_other
  <2>2. y.channels = conn[e].channels
    BY <1>t DEF cleanup_connections, Connection
  <2> HIDE DEF y
  <2>3. BitsOK(OrderedOf(y))
    BY <1>b, <2>2 DEF OrderedOf
  <2> QED
    BY <1>o, <2>1, <2>3
<1>9. CASE UNCHANGED vars
  BY <1>9 DEF vars, ReportInv
<1> QED
  BY <1>1, <1>2, <1>3, <1>4, <1>5, <1>6, <1>7, <1>8, <1>9 DEF Next, poll_end

\* What a header with `upto' messages reports covers every one of the last
\* 1 + AckBits of them.
LEMMA ReportCovers ==
  ASSUME NoWrap, NEW p \in Packet, p.dst \in Sides, p.ch = "ReliableOrdered", ReportOK(p),
         NEW i \in Nat, i \in p.upto - 1 - AckBits .. p.upto - 1
  PROVE  is_acked(sequence(i), p.ack, p.bits)
  <1>1. p.upto \in Nat
    BY DEF Packet
  <1>2. p.upto <= MaxSend[p.dst] /\ MaxSend[p.dst] \in Nat /\ MaxSend[p.dst] < SeqMod
    BY MaxSendAssumption DEF ReportOK, NoWrap
  <1>3. i < SeqMod /\ p.upto > 0 /\ i <= p.upto - 1 /\ p.upto - 1 - AckBits <= i
    BY <1>1, <1>2, SeqModAssumption, AckBitsAssumption
  <1>4. sequence(i) = i
    BY <1>3, SequenceNoWrap
  <1>5. p.ack = p.upto - 1 /\ p.bits = Mask(p.upto)
    BY <1>1, <1>3 DEF ReportOK
  <1> QED
    BY <1>1, <1>3, <1>4, <1>5, AckBitsAssumption DEF is_acked, Mask

\* When process_packet has processed a header, none of the last 1 + AckBits
\* ordered messages that its sender had received is still pending: the ack and
\* ack_bits of a header that arrives late or twice never name the wrong packets.
THEOREM ReportedIsReleasedHolds ==
  ASSUME NoWrap
  PROVE  Spec => ReportedIsReleased
<1>1. Init => ReportInv
  <2> SUFFICES ASSUME Init
               PROVE  ReportInv
    OBVIOUS
  <2>1. \A e \in Sides : OrderedOf(conn[e]) = NewChannel
    BY DEF Init, OrderedOf, NewChannels, Reliability
  <2>2. Mask(0) = {}
    BY DEF Mask
  <2>3. BitsOK(NewChannel)
    BY <2>2 DEF BitsOK, NewChannel
  <2> QED
    BY <2>1, <2>3 DEF ReportInv, Init
<1>2. TypeOK /\ OrderedInv /\ ReportInv /\ [Next]_vars => ReportInv'
  BY ReportInductive
<1>3. Spec => []ReportInv
  BY <1>1, <1>2, TypeCorrect, OrderedInvariant, PTL DEF Spec
<1>4. ASSUME TypeOK, ReportInv, TypeOK', NEW e \in Sides, NEW p \in net,
             p.ch = "ReliableOrdered", process_packet(e, p),
             NEW q \in Ordered(e)'.pending
      PROVE  q.idx \notin p.upto - 1 - AckBits .. p.upto - 1
  <2> DEFINE h == process_header(e, p)
             g == get_or_create_connection(conn[e])
             c == g.channels[p.ch]
             y == process_acks(p.ch, c, p.ack, p.bits)
  <2>t. conn \in [Sides -> Connection] /\ conn[e] \in Connection /\ p \in Packet
          /\ conn' \in [Sides -> Connection]
    BY <1>4 DEF TypeOK
  <2>1. h \in Connection /\ p.dst \in Sides /\ p.dst = e
    BY <1>4, <2>t, HeaderType DEF process_packet, process_handshake, process_disconnect,
                process_keepalive, process_user, recvfrom
  <2>2. g \in Connection
    BY <2>t, NewChannelsType DEF get_or_create_connection, Connection
  <2>3. c \in Channel /\ p.ack \in SeqNum /\ p.bits \in AckMask /\ p.ch \in Reliability
    BY <2>2, <2>t DEF Packet, Connection
  <2>4. h.channels[p.ch] = y
    <3> HIDE DEF g
    <3> QED
      BY <2>2, <2>3 DEF process_header, Connection, g
  <2>5. y.pending = {w \in c.pending : ~ is_acked(sequence(w.idx), p.ack, p.bits)}
    BY <1>4, <2>3 DEF process_acks, is_reliable, Channel
  <2> HIDE DEF h, g, y, c
  \* Whatever else the packet does, the pending list is the one process_acks left.
  <2>6. Ordered(e)'.pending = y.pending
    <3>1. CASE process_handshake(e, p)
      <4> DEFINE x == [h EXCEPT !.state = IF @ = "Connecting" THEN "Connected" ELSE @]
      <4>1. conn'[e] = x /\ x.channels = h.channels
        BY <2>t, <2>1, <3>1 DEF process_handshake, h, Connection
      <4> HIDE DEF x
      <4> QED
        BY <1>4, <2>4, <4>1 DEF Ordered
    <3>2. CASE process_disconnect(e, p)
      <4> DEFINE x == [h EXCEPT !.state = "Disconnecting"]
      <4>1. conn'[e] = x /\ x.channels = h.channels
        BY <2>t, <2>1, <3>2 DEF process_disconnect, h, Connection
      <4> HIDE DEF x
      <4> QED
        BY <1>4, <2>4, <4>1 DEF Ordered
    <3>3. CASE process_keepalive(e, p)
      <4>1. conn'[e] = h
        BY <2>t, <3>3 DEF process_keepalive, h
      <4> QED
        BY <1>4, <2>4, <4>1 DEF Ordered
    <3>4. CASE process_user(e, p)
      <4> DEFINE z == receive(p.ch, h.channels[p.ch], p.seq, p.msg)
                 x == [h EXCEPT !.channels[p.ch] = z]
      <4>1. conn'[e] = x
        BY <2>t, <3>4 DEF process_user, h
      <4>2. h.channels[p.ch] \in Channel /\ p.seq \in SeqNum /\ p.msg \in Message
        BY <2>t, <2>1, <2>3 DEF Packet, Connection
      <4>3. z.pending = h.channels[p.ch].pending
        BY <2>3, <4>2, ReceiveType
      <4> HIDE DEF z
      <4>4. x.channels[p.ch] = z
        BY <2>1, <2>3 DEF Connection
      <4> HIDE DEF x
      <4> QED
        BY <1>4, <2>4, <4>1, <4>3, <4>4 DEF Ordered
    <3> QED
      BY <1>4, <3>1, <3>2, <3>3, <3>4 DEF process_packet
  <2>7. q \in c.pending /\ ~ is_acked(sequence(q.idx), p.ack, p.bits)
    BY <2>5, <2>6
  <2>8. q.idx \in Nat
    BY <2>3, <2>7 DEF Channel, Pending
  <2>9. ReportOK(p)
    BY <1>4 DEF ReportInv
  <2> QED
    BY <1>4, <2>t, <2>1, <2>7, <2>8, <2>9, ReportCovers
<1>5. TypeOK /\ ReportInv /\ TypeOK' /\ [Next]_vars =>
        [SingleConnection' /\ OrderedDelivery' =>
           \A e \in Sides : \A p \in net :
             receiving'[e] /\ p.ch = "ReliableOrdered" /\ process_packet(e, p) =>
               \A q \in Ordered(e)'.pending :
                 q.idx \notin p.upto - 1 - AckBits .. p.upto - 1]_vars
  BY <1>4
<1> QED
  BY <1>3, <1>5, TypeCorrect, PTL DEF Spec, ReportedIsReleased

-----------------------------------------------------------------------------
(* Retransmission.                                                         *)

\* A connection that has not been given up has no packet past its last retry.
RetriesLeft(c) ==
  c.state # "Absent" =>
    \A r \in Reliability : \A q \in c.channels[r].pending : q.retries <= MaxRetries

RetryInv == \A e \in Sides : RetriesLeft(conn[e])

\* The retry that makes a packet run out makes the connection Disconnecting,
\* and cleanup_connections erases it in the same poll.
LEMMA ResendRetries ==
  ASSUME NEW c \in Connection, RetriesLeft(c), c.state = "Connected",
         NEW due, NEW silent
  PROVE  RetriesLeft(cleanup_connections(resend_pending(c, due), silent))
  <1> DEFINE x == resend_pending(c, due)
             y == cleanup_connections(x, silent)
             S(r) == {q \in c.channels[r].pending : <<r, q>> \in Walked(due)}
  <1>1. x \in Connection
    BY ResendPendingType
  <1>2. \A r \in Reliability : x.channels[r] = count_retry(c.channels[r], S(r))
    BY DEF resend_pending, Connection
  <1>3. x.state = IF \E z \in due : exhausted(z[2]) THEN "Disconnecting" ELSE c.state
    BY DEF resend_pending, Connection
  <1> HIDE DEF x
  <1>4. /\ y.channels = x.channels
        /\ y.state # "Absent" => x.state # "Disconnecting"
    BY <1>1 DEF cleanup_connections, Connection
  <1> HIDE DEF y
  <1> SUFFICES ASSUME y.state # "Absent", NEW r \in Reliability,
                      NEW q \in x.channels[r].pending
               PROVE  q.retries <= MaxRetries
    BY <1>4 DEF RetriesLeft, x, y
  <1>5. \A z \in due : ~ exhausted(z[2])
    BY <1>3, <1>4
  <1>6. c.channels[r] \in Channel /\ c.channels[r].pending \subseteq Pending
    BY DEF Connection, Channel
  <1>7. x.channels[r].pending =
          {w \in c.channels[r].pending : w \notin S(r)} \cup
          {[w EXCEPT !.retries = @ + 1] : w \in S(r)}
    BY <1>2, <1>6 DEF count_retry, Channel
  <1>8. CASE q \in c.channels[r].pending
    BY <1>8 DEF RetriesLeft
  <1>9. CASE q \notin c.channels[r].pending
    <2>1. PICK w \in S(r) : q = [w EXCEPT !.retries = @ + 1]
      BY <1>7, <1>9
    <2>2. w \in Pending /\ <<r, w>> \in due
      BY <1>6 DEF Walked
    <2>3. ~ exhausted(w)
      BY <1>5, <2>2
    <2> QED
      BY <2>1, <2>2, <2>3, MaxRetriesAssumption DEF Pending, exhausted
  <1> QED
    BY <1>8, <1>9

LEMMA RetryInductive ==
  ASSUME TypeOK, RetryInv, [Next]_vars
  PROVE  RetryInv'
<1>t. conn \in [Sides -> Connection] /\ \A e \in Sides : conn[e] \in Connection
  BY DEF TypeOK
<1>o. ASSUME NEW e \in Sides, NEW x, conn' = [conn EXCEPT ![e] = x], RetriesLeft(x)
      PROVE  RetryInv'
  BY <1>o, <1>t DEF RetryInv
<1>a. ASSUME NEW e \in Sides, conn' = [conn EXCEPT ![e].state = "Absent"]
      PROVE  RetryInv'
  <2> DEFINE x == [conn[e] EXCEPT !.state = "Absent"]
  <2>1. conn' = [conn EXCEPT ![e] = x] /\ x.state = "Absent"
    BY <1>a, <1>t DEF Connection
  <2> HIDE DEF x
  <2> QED
    BY <1>o, <2>1 DEF RetriesLeft
<1>n. \A i : RetriesLeft([state |-> "Connecting", inc |-> i, channels |-> NewChannels])
  BY DEF RetriesLeft, NewChannels, NewChannel
<1>1. CASE bind
  BY <1>1, <1>a DEF bind, Sides
<1>2. CASE connect
  BY <1>2, <1>n, <1>o DEF connect, Sides
<1>3. ASSUME NEW e \in Sides, disconnect(e)
      PROVE  RetryInv'
  BY <1>3, <1>a DEF disconnect
<1>4. ASSUME NEW e \in Sides, NEW r \in Channels, send(e, r)
      PROVE  RetryInv'
  <2> DEFINE c == conn[e].channels[r]
             y == Enqueue(r, c)
             x == [conn[e] EXCEPT !.channels[r] = y]
  <2>1. conn' = [conn EXCEPT ![e] = x] /\ conn[e].state # "Absent"
    BY <1>4 DEF send
  <2>2. r \in Reliability /\ c \in Channel
    BY <1>t, ChannelsAssumption DEF Connection
  <2>3. \A q \in y.pending : q \in c.pending \/ q = [idx |-> c.sent, retries |-> 0]
    BY <2>2 DEF Enqueue, Channel
  <2>4. \A s \in Reliability :
           x.channels[s] = IF s = r THEN y ELSE conn[e].channels[s]
    BY <1>t DEF Connection
  <2>5. \A q \in y.pending : q.retries <= MaxRetries
    <3> SUFFICES ASSUME NEW q \in y.pending
                 PROVE  q.retries <= MaxRetries
      OBVIOUS
    <3>1. CASE q \in c.pending
      BY <2>1, <2>2, <3>1 DEF RetryInv, RetriesLeft
    <3>2. CASE q = [idx |-> c.sent, retries |-> 0]
      BY <3>2, MaxRetriesAssumption
    <3> QED
      BY <2>3, <3>1, <3>2
  <2> HIDE DEF x, y
  <2>6. RetriesLeft(x)
    BY <2>1, <2>4, <2>5 DEF RetryInv, RetriesLeft
  <2> QED
    BY <1>o, <2>1, <2>6
<1>5. ASSUME NEW e \in Sides, pop_receive(e)
      PROVE  RetryInv'
  BY <1>5 DEF pop_receive, RetryInv
<1>6. ASSUME NEW e \in Sides, NEW p \in net, process_packet(e, p)
      PROVE  RetryInv'
  <2> DEFINE h == process_header(e, p)
             g == get_or_create_connection(conn[e])
  <2>1. h \in Connection /\ p \in Packet
    BY HeaderType DEF TypeOK
  <2>2. g \in Connection
    BY <1>t, NewChannelsType DEF get_or_create_connection, Connection
  <2>3. RetriesLeft(g) /\ g.state # "Absent"
    BY <1>n, <1>t DEF get_or_create_connection, RetryInv
  <2>4. \A r \in Reliability : \A q \in h.channels[r].pending : q.retries <= MaxRetries
    <3> DEFINE y == process_acks(p.ch, g.channels[p.ch], p.ack, p.bits)
    <3>1. p.ch \in Reliability /\ g.channels[p.ch] \in Channel
            /\ p.ack \in SeqNum /\ p.bits \in AckMask
      BY <2>1, <2>2 DEF Packet, Connection
    <3>2. y.pending \subseteq g.channels[p.ch].pending
      BY <3>1, ProcessAcksType
    <3> HIDE DEF g
    <3>3. h.channels = [g.channels EXCEPT ![p.ch] = y]
      BY <2>2, <3>1 DEF process_header, Connection, g
    <3> HIDE DEF h, y
    <3>4. \A r \in Reliability :
             h.channels[r] = IF r = p.ch THEN y ELSE g.channels[r]
      BY <2>2, <3>3 DEF Connection
    <3> QED
      BY <2>3, <3>1, <3>2, <3>4 DEF RetriesLeft
  <2> HIDE DEF h, g
  <2>5. CASE process_handshake(e, p)
    <3> DEFINE x == [h EXCEPT !.state = IF @ = "Connecting" THEN "Connected" ELSE @]
    <3>1. conn' = [conn EXCEPT ![e] = x] /\ x.channels = h.channels
      BY <2>1, <2>5 DEF process_handshake, h, Connection
    <3> HIDE DEF x
    <3> QED
      BY <1>o, <2>4, <3>1 DEF RetriesLeft
  <2>6. CASE process_disconnect(e, p)
    <3> DEFINE x == [h EXCEPT !.state = "Disconnecting"]
    <3>1. conn' = [conn EXCEPT ![e] = x] /\ x.channels = h.channels
      BY <2>1, <2>6 DEF process_disconnect, h, Connection
    <3> HIDE DEF x
    <3> QED
      BY <1>o, <2>4, <3>1 DEF RetriesLeft
  <2>7. CASE process_keepalive(e, p)
    <3>1. conn' = [conn EXCEPT ![e] = h]
      BY <2>7 DEF process_keepalive, h
    <3> QED
      BY <1>o, <2>4, <3>1 DEF RetriesLeft
  <2>8. CASE process_user(e, p)
    <3> DEFINE y == receive(p.ch, h.channels[p.ch], p.seq, p.msg)
               x == [h EXCEPT !.channels[p.ch] = y]
    <3>1. conn' = [conn EXCEPT ![e] = x]
      BY <2>8 DEF process_user, h
    <3>2. p.ch \in Reliability /\ h.channels[p.ch] \in Channel
            /\ p.seq \in SeqNum /\ p.msg \in Message
      BY <2>1 DEF Packet, Connection
    <3>3. y.pending = h.channels[p.ch].pending
      BY <3>2, ReceiveType
    <3> HIDE DEF y
    <3>4. \A r \in Reliability :
             x.channels[r] = IF r = p.ch THEN y ELSE h.channels[r]
      BY <2>1 DEF Connection
    <3> HIDE DEF x
    <3>5. RetriesLeft(x)
      BY <2>4, <3>2, <3>3, <3>4 DEF RetriesLeft
    <3> QED
      BY <1>o, <3>1, <3>5
  <2> QED
    BY <1>6, <2>5, <2>6, <2>7, <2>8 DEF process_packet
<1>7. ASSUME NEW e \in Sides, NEW due, NEW alive, NEW silent,
             poll_end_connected(e, due, alive, silent)
      PROVE  RetryInv'
  <2> DEFINE y == cleanup_connections(resend_pending(conn[e], due), silent)
  <2>1. conn' = [conn EXCEPT ![e] = y] /\ conn[e].state = "Connected"
    BY <1>7 DEF poll_end_connected
  <2>2. RetriesLeft(y)
    BY <1>t, <2>1, ResendRetries DEF RetryInv
  <2> HIDE DEF y
  <2> QED
    BY <1>o, <2>1, <2>2
<1>8. ASSUME NEW e \in Sides, NEW silent, poll_end_other(e, silent)
      PROVE  RetryInv'
  <2> DEFINE y == cleanup_connections(conn[e], silent)
  <2>1. conn' = [conn EXCEPT ![e] = y]
    BY <1>8 DEF poll_end_other
  <2>2. y.channels = conn[e].channels /\ y.state \in {conn[e].state, "Absent"}
    BY <1>t DEF cleanup_connections, Connection
  <2> HIDE DEF y
  <2>3. RetriesLeft(y)
    BY <2>2 DEF RetryInv, RetriesLeft
  <2> QED
    BY <1>o, <2>1, <2>3
<1>9. CASE UNCHANGED vars
  BY <1>9 DEF vars, RetryInv
<1> QED
  BY <1>1, <1>2, <1>3, <1>4, <1>5, <1>6, <1>7, <1>8, <1>9 DEF Next, poll_end

\* resend_pending sends no packet more than 1 + MaxRetries times: a connection
\* that survives a poll has no packet past its last retry.  This is the safety
\* half of RetransmissionEnds.
THEOREM RetriesBoundedHolds == Spec => []RetriesBounded
<1>1. Init => RetryInv
  <2> SUFFICES ASSUME Init, NEW e \in Sides
               PROVE  conn[e].state = "Absent"
    BY DEF RetryInv, RetriesLeft
  <2> QED
    BY DEF Init
<1>2. TypeOK /\ RetryInv /\ [Next]_vars => RetryInv'
  BY RetryInductive
<1>3. RetryInv => RetriesBounded
  <2> SUFFICES ASSUME RetryInv, NEW e \in Sides, conn[e].state # "Absent",
                      NEW x \in Outstanding(e)
               PROVE  x[2].retries <= MaxRetries
    BY DEF RetriesBounded
  <2>1. PICK r \in Reliability : \E q \in conn[e].channels[r].pending : x = <<r, q>>
    BY DEF Outstanding
  <2>2. PICK q \in conn[e].channels[r].pending : x = <<r, q>>
    BY <2>1
  <2> QED
    BY <2>2 DEF RetryInv, RetriesLeft
<1> QED
  BY <1>1, <1>2, <1>3, TypeCorrect, PTL DEF Spec
=============================================================================
