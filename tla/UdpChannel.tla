----------------------------- MODULE UdpChannel -----------------------------
(***************************************************************************)
(* One channel of a connection of UdpTransport                             *)
(* (src/src/transport/udp_transport.cpp): sequence numbers, the            *)
(* acknowledgement header every packet carries, the list of pending        *)
(* reliable packets, and what an arriving packet does to the channel under *)
(* each of the four reliabilities.  There is one channel per reliability   *)
(* and the code uses the reliability as the channel's index.               *)
(*                                                                         *)
(* A message is named by the connection incarnation that sent it and by    *)
(* its position `idx' in the order of the send calls of that incarnation.  *)
(* The code keeps local_seq, a 16 bit counter; here `sent' counts without  *)
(* wrapping and the wire carries sequence(idx).  `got' is history: the     *)
(* messages that process_packet handed to process_payload, in order.       *)
(***************************************************************************)
EXTENDS Integers, Sequences

CONSTANTS
  SeqMod,      \* number of sequence numbers (2^16: sequence is a uint16_t)
  AckBits,     \* bits of the ack_bits field (32: it is a uint32_t)
  MaxRetries   \* retransmissions before the connection is given up (10)

ASSUME SeqModAssumption == SeqMod \in Nat /\ SeqMod > 1
ASSUME AckBitsAssumption == AckBits \in Nat /\ AckBits > 0
ASSUME MaxRetriesAssumption == MaxRetries \in Nat

Reliability ==
  {"Unreliable", "ReliableOrdered", "ReliableUnordered", "UnreliableSequenced"}

\* The numeric value of the enumerator, which is the index of the channel.
channel_index(r) ==
  CASE r = "Unreliable"          -> 0
    [] r = "ReliableOrdered"     -> 1
    [] r = "ReliableUnordered"   -> 2
    [] r = "UnreliableSequenced" -> 3

is_reliable(r) == r \in {"ReliableOrdered", "ReliableUnordered"}

SeqNum == 0 .. SeqMod - 1
AckMask == SUBSET (0 .. AckBits - 1)
Message == [inc : Nat, idx : Nat]

\* A reliable packet that has not been acknowledged.
Pending == [idx : Nat, retries : Nat]

Channel ==
  [sent           : Nat,             \* local_seq, not reduced modulo SeqMod
   remote_seq     : SeqNum,
   ack_bits       : AckMask,
   pending        : SUBSET Pending,
   receive_buffer : SUBSET SeqNum,
   got            : Seq(Message)]

\* Faulty variant: nothing received is -1, which does not fit a uint16_t.
NewChannel_Signed ==
  [sent |-> 0, remote_seq |-> -1, ack_bits |-> {}, pending |-> {},
   receive_buffer |-> {}, got |-> << >>]

\* The member initialisers of Connection::Channel.
NewChannel ==
  [sent           |-> 0,
   remote_seq     |-> SeqMod - 1,
   ack_bits       |-> {},
   pending        |-> {},
   receive_buffer |-> {},
   got            |-> << >>]

sequence(idx) == idx % SeqMod

-----------------------------------------------------------------------------
(* Sending.                                                                *)

\* send_to_connection: the sequence number is consumed in every case, and a
\* reliable message is remembered until it is acknowledged.
Enqueue(r, c) ==
  [c EXCEPT
     !.sent = @ + 1,
     !.pending = IF is_reliable(r)
                   THEN @ \cup {[idx |-> c.sent, retries |-> 0]}
                   ELSE @]

-----------------------------------------------------------------------------
(* Acknowledgements.                                                       *)

\* The test of process_acks.  The difference is taken between ints, so it is
\* not reduced modulo SeqMod.
is_acked(seq, ack, bits) ==
  \/ seq = ack
  \/ ack - seq \in 1 .. AckBits /\ ack - seq - 1 \in bits

\* Faulty variant: the acknowledgement is taken to be cumulative.
process_acks_Cumulative(r, c, ack, bits) ==
  [c EXCEPT !.pending = {q \in @ : sequence(q.idx) > ack}]

process_acks(r, c, ack, bits) ==
  IF is_reliable(r)
    THEN [c EXCEPT !.pending =
            {q \in @ : ~ is_acked(sequence(q.idx), ack, bits)}]
    ELSE c

\* Faulty variant: the packet just received is not recorded.
shift_in_NoSet(bits) == {b \in 1 .. AckBits - 1 : b - 1 \in bits}

\* (ack_bits << 1) | 1, in AckBits bits.
shift_in(bits) == {0} \cup {b \in 1 .. AckBits - 1 : b - 1 \in bits}

-----------------------------------------------------------------------------
(* Receiving a packet of type User.                                        *)

expected(c) == (c.remote_seq + 1) % SeqMod

\* Faulty variants: packets from the future, or old ones, are accepted too.
accepts_Future(r, c, seq) == r # "ReliableOrdered" \/ seq >= expected(c)
accepts_Old(r, c, seq) == r # "ReliableOrdered" \/ seq <= expected(c)

\* Does process_packet hand the payload to process_payload?
accepts(r, c, seq) ==
  CASE r = "ReliableOrdered"     -> seq = expected(c)
    [] r = "ReliableUnordered"   -> TRUE
    [] r = "UnreliableSequenced" -> seq > c.remote_seq
    [] r = "Unreliable"          -> TRUE

\* Faulty variant: a packet put in receive_buffer counts as received.
receive_AckBuffered(r, c, seq, msg) ==
  [c EXCEPT
     !.remote_seq = IF seq >= expected(c) THEN seq ELSE @,
     !.ack_bits = IF seq >= expected(c) THEN shift_in(@) ELSE @,
     !.got = IF accepts(r, c, seq) THEN Append(@, msg) ELSE @]

\* The channel after the packet.  A ReliableOrdered packet from the future
\* is put in receive_buffer, which nothing ever reads back.
receive(r, c, seq, msg) ==
  IF accepts(r, c, seq)
    THEN [c EXCEPT
            !.remote_seq = IF r = "Unreliable" THEN @ ELSE seq,
            !.ack_bits = IF is_reliable(r) THEN shift_in(@) ELSE @,
            !.got = Append(@, msg)]
    ELSE IF r = "ReliableOrdered" /\ seq > expected(c)
           THEN [c EXCEPT !.receive_buffer = @ \cup {seq}]
           ELSE c

-----------------------------------------------------------------------------
(* Retransmission.                                                         *)

\* resend_pending walks the channels in index order and each pending list in
\* send order; x and y are a channel and one of its pending packets.
resend_before(x, y) ==
  \/ channel_index(x[1]) < channel_index(y[1])
  \/ x[1] = y[1] /\ x[2].idx < y[2].idx

\* Faulty variant: the counter is tested before it is incremented.
exhausted_Late(q) == q.retries > MaxRetries

\* The retry that makes resend_pending give the connection up.
exhausted(q) == q.retries + 1 > MaxRetries

\* Faulty variant: the retry is not counted.
count_retry_None(c, due) == c

\* `due' is the part of the pending list whose timeout has passed.
count_retry(c, due) ==
  [c EXCEPT !.pending =
     {q \in @ : q \notin due} \cup
     {[q EXCEPT !.retries = @ + 1] : q \in due}]
=============================================================================
