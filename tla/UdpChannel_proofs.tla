-------------------------- MODULE UdpChannel_proofs --------------------------
(* What the operations on one channel preserve.                            *)
EXTENDS UdpChannel, TLAPS

\* A channel starts well formed: the member initialisers of Channel.
LEMMA NewChannelType == NewChannel \in Channel
  BY SeqModAssumption DEF NewChannel, Channel, SeqNum, AckMask

\* The wire carries a sequence number of 16 bits.
LEMMA SequenceType ==
  ASSUME NEW i \in Nat
  PROVE  sequence(i) \in SeqNum
  BY SeqModAssumption DEF sequence, SeqNum

\* Without a wrap the sequence number of a message is its position.
LEMMA SequenceNoWrap ==
  ASSUME NEW i \in Nat, i < SeqMod
  PROVE  sequence(i) = i
  BY SeqModAssumption DEF sequence

\* send_to_connection leaves a well formed channel.
LEMMA EnqueueType ==
  ASSUME NEW r \in Reliability, NEW c \in Channel
  PROVE  Enqueue(r, c) \in Channel
  <1>1. [idx |-> c.sent, retries |-> 0] \in Pending
    BY DEF Channel, Pending
  <1>2. c.pending \cup {[idx |-> c.sent, retries |-> 0]} \in SUBSET Pending
    BY <1>1 DEF Channel
  <1>3. c.sent + 1 \in Nat
    BY DEF Channel
  <1> QED
    BY <1>2, <1>3 DEF Enqueue, Channel

\* process_acks only takes packets off the pending list.
LEMMA ProcessAcksType ==
  ASSUME NEW r \in Reliability, NEW c \in Channel,
         NEW ack \in SeqNum, NEW bits \in AckMask
  PROVE  /\ process_acks(r, c, ack, bits) \in Channel
         /\ process_acks(r, c, ack, bits).pending \subseteq c.pending
         /\ process_acks(r, c, ack, bits).sent = c.sent
         /\ process_acks(r, c, ack, bits).remote_seq = c.remote_seq
         /\ process_acks(r, c, ack, bits).ack_bits = c.ack_bits
         /\ process_acks(r, c, ack, bits).got = c.got
  BY DEF process_acks, Channel

\* The mask keeps its width.
LEMMA ShiftInType ==
  ASSUME NEW bits \in AckMask
  PROVE  shift_in(bits) \in AckMask
  BY AckBitsAssumption DEF shift_in, AckMask

\* An arriving packet leaves a well formed channel, does not touch what the
\* side has sent, and hands its message up exactly when it is accepted.
LEMMA ReceiveType ==
  ASSUME NEW r \in Reliability, NEW c \in Channel,
         NEW seq \in SeqNum, NEW msg \in Message
  PROVE  /\ receive(r, c, seq, msg) \in Channel
         /\ receive(r, c, seq, msg).pending = c.pending
         /\ receive(r, c, seq, msg).sent = c.sent
         /\ receive(r, c, seq, msg).got =
              IF accepts(r, c, seq) THEN Append(c.got, msg) ELSE c.got
  <1>1. shift_in(c.ack_bits) \in AckMask
    BY ShiftInType DEF Channel
  <1>2. Append(c.got, msg) \in Seq(Message)
    BY DEF Channel
  <1> QED
    BY <1>1, <1>2 DEF receive, Channel

\* Counting a retry changes no packet of the pending list but its counter.
LEMMA CountRetryType ==
  ASSUME NEW c \in Channel, NEW due \in SUBSET c.pending
  PROVE  /\ count_retry(c, due) \in Channel
         /\ count_retry(c, due).sent = c.sent
         /\ count_retry(c, due).remote_seq = c.remote_seq
         /\ count_retry(c, due).ack_bits = c.ack_bits
         /\ count_retry(c, due).got = c.got
         /\ \A i \in Nat : (\E q \in count_retry(c, due).pending : q.idx = i)
                             <=> \E q \in c.pending : q.idx = i
  <1>1. \A q \in due : [q EXCEPT !.retries = @ + 1] \in Pending
    BY DEF Channel, Pending
  <1>2. count_retry(c, due).pending =
          {q \in c.pending : q \notin due} \cup
          {[q EXCEPT !.retries = @ + 1] : q \in due}
    BY DEF count_retry, Channel
  <1>3. count_retry(c, due).pending \in SUBSET Pending
    BY <1>1, <1>2 DEF Channel
  <1>4. \A q \in due : [q EXCEPT !.retries = @ + 1].idx = q.idx
    BY DEF Channel, Pending
  <1>5. \A i \in Nat : (\E q \in count_retry(c, due).pending : q.idx = i)
                         <=> \E q \in c.pending : q.idx = i
    BY <1>2, <1>4
  <1> QED
    BY <1>3, <1>5 DEF count_retry, Channel

\* A ReliableOrdered packet is accepted only if it is the next one, and then
\* remote_seq moves to it.
LEMMA OrderedReceive ==
  ASSUME NEW c \in Channel, NEW seq \in SeqNum, NEW msg \in Message
  PROVE  LET r == "ReliableOrdered"
             d == receive(r, c, seq, msg)
         IN /\ accepts(r, c, seq) <=> seq = (c.remote_seq + 1) % SeqMod
            /\ accepts(r, c, seq) => d.remote_seq = seq
            /\ ~ accepts(r, c, seq) =>
                 d.remote_seq = c.remote_seq /\ d.ack_bits = c.ack_bits
  <1>1. accepts("ReliableOrdered", c, seq) <=> seq = (c.remote_seq + 1) % SeqMod
    BY DEF accepts, expected
  <1> QED
    BY <1>1 DEF receive, Channel
=============================================================================
