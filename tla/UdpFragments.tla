---------------------------- MODULE UdpFragments ----------------------------
(***************************************************************************)
(* Fragmentation and reassembly in UdpTransport                            *)
(* (src/src/transport/udp_transport.cpp).  A Connected sender, a Connected *)
(* receiver, and messages larger than MAX_PAYLOAD_SIZE: one sequence       *)
(* number, one pending entry, and a packet per fragment.  Fragments pass   *)
(* through the channel of UdpChannel like any other packet before they     *)
(* reach process_payload.                                                  *)
(*                                                                         *)
(* As in UdpLink the network is the set of all datagrams sent.  The        *)
(* receiver acknowledges in the headers of the messages it sends itself.   *)
(***************************************************************************)
EXTENDS UdpChannel

CONSTANTS
  Channels,    \* the reliabilities the sender uses
  Counts,      \* the numbers of fragments of its messages, all above 1
  MaskBits,    \* bits of received_mask (8: it is a uint8_t)
  MaxSend,     \* bound: messages per channel
  MaxQueue     \* bound: payloads in the receive queue

ASSUME ChannelsAssumption == Channels \subseteq Reliability
ASSUME CountsAssumption == Counts \subseteq Nat \ {0, 1}
ASSUME MaskBitsAssumption == MaskBits \in Nat
ASSUME MaxSendAssumption == MaxSend \in Nat /\ MaxSend <= SeqMod
ASSUME MaxQueueAssumption == MaxQueue \in Nat

VARIABLES
  sender,               \* the sender's channels
  receiver,             \* the receiver's channels
  count,                \* fragments of each message sent
  net,                  \* fragments sent so far
  headers,              \* acknowledgement headers sent by the receiver so far
  closed,               \* the sender has given the connection up
  fragment_assemblies,  \* fragment_assemblies_ of the receiver
  receive_queue,        \* what process_payload has pushed, in order
  arrived,              \* history: the fragments received
  expired               \* history: the messages an assembly of which timed out

vars == <<sender, receiver, count, net, headers, closed, fragment_assemblies,
          receive_queue, arrived, expired>>

MsgId == [ch : Reliability, idx : Nat]

\* Fragment `index' of a message: its share of the payload.
Fragment == [msg : MsgId, index : Nat]

\* The header fields process_packet and process_payload read, and the payload.
Packet ==
  [seq : SeqNum, frag_index : Nat, frag_count : Counts, payload : Fragment]

\* fragments[i] is a set: empty, or the payload assigned to it.
Assembly ==
  [base_sequence : SeqNum, frag_count : Counts, fragments : Seq(SUBSET Fragment),
   received_mask : SUBSET (0 .. MaskBits - 1)]

TypeOK ==
  /\ sender \in [Channels -> Channel]
  /\ receiver \in [Channels -> Channel]
  /\ count \in [Channels -> Seq(Counts)]
  /\ net \subseteq Packet
  /\ headers \subseteq [ch : Channels, ack : SeqNum, bits : AckMask]
  /\ closed \in BOOLEAN
  /\ fragment_assemblies \subseteq Assembly
  /\ receive_queue \in Seq(Seq(Fragment))
  /\ arrived \in SUBSET Fragment
  /\ expired \in SUBSET MsgId

Init ==
  /\ sender = [r \in Channels |-> NewChannel]
  /\ receiver = [r \in Channels |-> NewChannel]
  /\ count = [r \in Channels |-> << >>]
  /\ net = {}
  /\ headers = {}
  /\ closed = FALSE
  /\ fragment_assemblies = {}
  /\ receive_queue = << >>
  /\ arrived = {}
  /\ expired = {}

-----------------------------------------------------------------------------
(* The sender.                                                             *)

\* The packets of message `idx', of n fragments: all have its sequence number.
FragmentPackets(r, idx, n) ==
  {[seq |-> sequence(idx), frag_index |-> i, frag_count |-> n,
    payload |-> [msg |-> [ch |-> r, idx |-> idx], index |-> i]] : i \in 1 .. n}

\* send_to_connection.  The bandwidth limit may end the loop of an unreliable
\* message early: the packets it holds back are ones that are never received.
send(r, n) ==
  /\ ~ closed
  /\ sender[r].sent < MaxSend
  /\ sender' = [sender EXCEPT ![r] = Enqueue(r, @)]
  /\ count' = [count EXCEPT ![r] = Append(@, n)]
  /\ net' = net \cup FragmentPackets(r, sender[r].sent, n)
  /\ UNCHANGED <<receiver, headers, closed, fragment_assemblies, receive_queue,
                 arrived, expired>>

\* process_acks, on a packet that comes back.
receive_ack(h) ==
  /\ ~ closed
  /\ h \in headers
  /\ sender' = [sender EXCEPT ![h.ch] = process_acks(h.ch, @, h.ack, h.bits)]
  /\ UNCHANGED <<receiver, count, net, headers, closed, fragment_assemblies,
                 receive_queue, arrived, expired>>

\* resend_pending, for one packet whose timeout has passed: all its fragments
\* again, or the end of the connection.  (The fragments are still in net.)
resend(r, q) ==
  /\ ~ closed
  /\ q \in sender[r].pending
  /\ closed' = exhausted(q)
  /\ sender' = [sender EXCEPT ![r] = count_retry(@, {q})]
  /\ net' = IF exhausted(q) THEN net
                            ELSE net \cup FragmentPackets(r, q.idx, count[r][q.idx + 1])
  /\ UNCHANGED <<receiver, count, headers, fragment_assemblies, receive_queue,
                 arrived, expired>>

-----------------------------------------------------------------------------
(* The receiver.                                                           *)

\* Faulty variant: assemblies are looked up by their number of fragments.
SameMessage_Count(p, fa) == fa.frag_count = p.frag_count

\* An assembly is found by the sender's address and the sequence number; the
\* channel is not part of the key.
SameMessage(p, fa) == fa.base_sequence = p.seq

find_or_create_fragment_assembly(p) ==
  IF \E fa \in fragment_assemblies : SameMessage(p, fa)
    THEN CHOOSE fa \in fragment_assemblies : SameMessage(p, fa)
    ELSE [base_sequence |-> p.seq, frag_count |-> p.frag_count,
          received_mask |-> {}, fragments |-> [i \in 1 .. p.frag_count |-> {}]]

\* Faulty variant: frag_index is taken to count from 0.
store_fragment_FromZero(fa, p) ==
  [fa EXCEPT !.fragments[p.frag_index] = {p.payload},
             !.received_mask = @ \cup {p.frag_index}]

\* received_mask has MaskBits bits: a higher bit is lost in the assignment.
store_fragment(fa, p) ==
  [fa EXCEPT !.fragments[p.frag_index] = {p.payload},
             !.received_mask = @ \cup ({p.frag_index - 1} \cap 0 .. MaskBits - 1)]

\* Faulty variant: one bit too many is waited for.
complete_Late(fa, p) == fa.received_mask = 0 .. p.frag_count

\* received_mask == (1 << frag_count) - 1, with the count in the header.
complete(fa, p) == fa.received_mask = 0 .. p.frag_count - 1

\* The concatenation of the fragments of a complete assembly.
Assembled(fa) == [i \in 1 .. fa.frag_count |-> CHOOSE f \in fa.fragments[i] : TRUE]

\* process_payload for a fragment that the channel lets through.
process_payload(p) ==
  LET fa == find_or_create_fragment_assembly(p)
      new == store_fragment(fa, p)
      rest == {x \in fragment_assemblies : ~ SameMessage(p, x)}
  IN IF fa.fragments[p.frag_index] # {}
       THEN UNCHANGED <<fragment_assemblies, receive_queue>>
       ELSE IF complete(new, p)
         THEN /\ receive_queue' = Append(receive_queue, Assembled(new))
              /\ fragment_assemblies' = rest
         ELSE /\ fragment_assemblies' = rest \cup {new}
              /\ UNCHANGED receive_queue

\* Out of order fragments are not even put in receive_buffer.  The history of
\* the channel is not kept: here it would name fragments.
receive_fragment(r, c, p) ==
  IF accepts(r, c, p.seq)
    THEN [receive(r, c, p.seq, [inc |-> 1, idx |-> 0]) EXCEPT !.got = << >>]
    ELSE c

process_packet(p) ==
  LET r == p.payload.msg.ch IN
  /\ p \in net
  /\ Len(receive_queue) < MaxQueue
  /\ receiver' = [receiver EXCEPT ![r] = receive_fragment(r, @, p)]
  /\ IF accepts(r, receiver[r], p.seq)
       THEN process_payload(p)
       ELSE UNCHANGED <<fragment_assemblies, receive_queue>>
  /\ arrived' = arrived \cup {p.payload}
  /\ UNCHANGED <<sender, count, net, headers, closed, expired>>

\* The fragments an assembly holds.
Stored(fa) == UNION {fa.fragments[i] : i \in 1 .. fa.frag_count}

\* cleanup_fragments: the assembly is two seconds old.
cleanup_fragments(fa) ==
  /\ fa \in fragment_assemblies
  /\ fragment_assemblies' = fragment_assemblies \ {fa}
  /\ expired' = expired \cup {f.msg : f \in Stored(fa)}
  /\ UNCHANGED <<sender, receiver, count, net, headers, closed, receive_queue,
                 arrived>>

\* The receiver sends a message of its own on the channel.
send_back(r) ==
  /\ headers' = headers \cup {[ch |-> r, ack |-> receiver[r].remote_seq,
                               bits |-> receiver[r].ack_bits]}
  /\ UNCHANGED <<sender, receiver, count, net, closed, fragment_assemblies,
                 receive_queue, arrived, expired>>

-----------------------------------------------------------------------------
Next ==
  \/ \E r \in Channels, n \in Counts : send(r, n)
  \/ \E h \in headers : receive_ack(h)
  \/ \E r \in Channels : \E q \in sender[r].pending : resend(r, q)
  \/ \E p \in net : process_packet(p)
  \/ \E fa \in fragment_assemblies : cleanup_fragments(fa)
  \/ \E r \in Channels : send_back(r)

Spec == Init /\ [][Next]_vars

-----------------------------------------------------------------------------
(* Properties.                                                             *)

SentMessages ==
  {m \in [ch : Channels, idx : 0 .. MaxSend - 1] : m.idx < sender[m.ch].sent}

FragmentsOf(m) ==
  [i \in 1 .. count[m.ch][m.idx + 1] |-> [msg |-> m, index |-> i]]

Delivered(m) == \E k \in DOMAIN receive_queue : receive_queue[k] = FragmentsOf(m)

\* Whatever is lost, repeated, reordered or expires half way, a payload that
\* process_payload pushes is all the fragments of one message, in order.
AssembledIntact ==
  \A k \in DOMAIN receive_queue :
    \E m \in SentMessages : receive_queue[k] = FragmentsOf(m)

\* "Automatic packet fragmentation & reassembly", for messages of no more fragments
\* than received_mask has bits: once every fragment has arrived, and none was given
\* up for being late, the message has been pushed, whatever larger messages of the
\* same connection never complete beside it.
ReassembledWhenArrived ==
  \A m \in SentMessages :
    /\ Len(FragmentsOf(m)) <= MaskBits
    /\ \A i \in DOMAIN FragmentsOf(m) : FragmentsOf(m)[i] \in arrived
    /\ m \notin expired
    => Delivered(m)

AllArrived(fa) == \A i \in 1 .. fa.frag_count : fa.fragments[i] # {}

\* The documented promise, whatever the number of fragments: no assembly that has
\* all its fragments is kept waiting.
NoStuckAssemblyOfAnySize == \A fa \in fragment_assemblies : ~ AllArrived(fa)

\* What the mask allows of it: an assembly that has all its fragments and is kept
\* waiting has more of them than received_mask has bits.
NoStuckAssembly ==
  \A fa \in fragment_assemblies : AllArrived(fa) => fa.frag_count > MaskBits

\* The fragments an assembly holds are of one message and in their places.
AssemblyOfOneMessage ==
  \A fa \in fragment_assemblies :
    /\ \A f, g \in Stored(fa) : f.msg = g.msg
    /\ \A i \in 1 .. fa.frag_count : \A f \in fa.fragments[i] : f.index = i

\* fragment_assemblies_ in every state: what process_payload keeps of a message is
\* of that message alone, in its places, and never all of it if the mask can tell.
AssembliesInv == TypeOK /\ AssemblyOfOneMessage /\ NoStuckAssembly

\* "Guaranteed delivery": the sender forgets a fragmented message only when the
\* receiver has all of it.
AckedWasReassembled ==
  \A m \in SentMessages :
    is_reliable(m.ch) /\ ~ closed =>
      \/ \E q \in sender[m.ch].pending : q.idx = m.idx
      \/ Delivered(m)
=============================================================================
