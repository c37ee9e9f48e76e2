------------------------- MODULE UdpFragments_proofs -------------------------
(***************************************************************************)
(* Reassembly, for messages of every size that the mask of an assembly can *)
(* hold, on one channel: an assembly holds fragments of one message, what  *)
(* is pushed is a whole message, and nothing complete is kept.             *)
(***************************************************************************)
EXTENDS UdpFragments, UdpChannel_proofs, SequenceTheorems

\* All messages go over one channel: fragment_assemblies_ does not tell channels
\* apart.
OneChannel == \A r, s \in Channels : r = s

\* The fragments of a message.
NumFragments(m) == count[m.ch][m.idx + 1]

\* What the sender keeps of its messages fits together.
CountsMatch ==
  \A r \in Channels :
    /\ Len(count[r]) = sender[r].sent
    /\ sender[r].sent <= MaxSend
    /\ \A q \in sender[r].pending : q.idx < sender[r].sent

\* A packet on the net is a fragment of a message that was sent, as its header
\* says.
PacketOf(p, m) ==
  /\ p.seq = sequence(m.idx)
  /\ p.frag_count = NumFragments(m)
  /\ p.frag_index \in 1 .. p.frag_count
  /\ p.payload = [msg |-> m, index |-> p.frag_index]

NetHonest == \A p \in net : \E m \in SentMessages : PacketOf(p, m)

\* fa holds fragments of m, each in its place, and its mask says which, as far
\* as it is wide.
AssemblyOf(fa, m) ==
  /\ fa.base_sequence = sequence(m.idx)
  /\ fa.frag_count = NumFragments(m)
  /\ Len(fa.fragments) = fa.frag_count
  /\ \A i \in 1 .. fa.frag_count :
       fa.fragments[i] = {} \/ fa.fragments[i] = {[msg |-> m, index |-> i]}
  /\ \A i \in 1 .. fa.frag_count : i <= MaskBits =>
       (i - 1 \in fa.received_mask <=> fa.fragments[i] # {})
  /\ \A b \in fa.received_mask : b + 1 <= fa.frag_count

AssembliesKnown ==
  \A fa \in fragment_assemblies : \E m \in SentMessages : AssemblyOf(fa, m)

\* There is one assembly for a sequence number.
AssembliesApart ==
  \A fa, fb \in fragment_assemblies : fa.base_sequence = fb.base_sequence => fa = fb

FragInv ==
  /\ TypeOK
  /\ CountsMatch
  /\ NetHonest
  /\ AssembliesKnown
  /\ AssembliesApart
  /\ AssembledIntact

-----------------------------------------------------------------------------
(* Messages and their sequence numbers.                                    *)

LEMMA SentMessage ==
  ASSUME TypeOK, CountsMatch, NEW m \in SentMessages
  PROVE  /\ m.ch \in Channels /\ m.ch \in Reliability /\ m.idx \in Nat /\ m \in MsgId
         /\ m.idx < sender[m.ch].sent /\ m.idx < SeqMod
         /\ NumFragments(m) \in Counts /\ NumFragments(m) \in Nat \ {0, 1}
         /\ m = [ch |-> m.ch, idx |-> m.idx]
<1>1. /\ m.ch \in Channels /\ m.idx \in 0 .. MaxSend - 1 /\ m.idx < sender[m.ch].sent
      /\ m = [ch |-> m.ch, idx |-> m.idx]
  BY DEF SentMessages
<1>2. m.idx \in Nat /\ m.idx < SeqMod /\ m.ch \in Reliability
  BY <1>1, MaxSendAssumption, SeqModAssumption, ChannelsAssumption
<1>3. count[m.ch] \in Seq(Counts) /\ Len(count[m.ch]) = sender[m.ch].sent
        /\ sender[m.ch].sent \in Nat
  BY <1>1 DEF TypeOK, CountsMatch, Channel
<1>4. m.idx + 1 \in 1 .. Len(count[m.ch])
  BY <1>1, <1>2, <1>3
<1>5. NumFragments(m) \in Counts
  BY <1>3, <1>4, ElementOfSeq DEF NumFragments
<1>6. m \in MsgId
  BY <1>1, <1>2 DEF MsgId
<1> QED
  BY <1>1, <1>2, <1>5, <1>6, CountsAssumption

\* A sequence number names one message: the channel has sent no more than there
\* are numbers.
LEMMA SameSequence ==
  ASSUME OneChannel, TypeOK, CountsMatch, NEW m \in SentMessages, NEW k \in SentMessages,
         sequence(m.idx) = sequence(k.idx)
  PROVE  m = k
<1>1. m.ch = k.ch /\ m.idx = k.idx
  BY SentMessage, SequenceNoWrap DEF OneChannel
<1> QED
  BY <1>1, SentMessage

\* The fragments of a message, as a sequence.
LEMMA FragmentsType ==
  ASSUME TypeOK, CountsMatch, NEW m \in SentMessages
  PROVE  /\ FragmentsOf(m) \in Seq(Fragment)
         /\ Len(FragmentsOf(m)) = NumFragments(m)
         /\ \A i \in 1 .. NumFragments(m) : FragmentsOf(m)[i] = [msg |-> m, index |-> i]
<1>1. m \in MsgId /\ NumFragments(m) \in Nat
  BY SentMessage
<1>2. \A i \in 1 .. NumFragments(m) : [msg |-> m, index |-> i] \in Fragment
  BY <1>1 DEF Fragment
<1>3. FragmentsOf(m) = [i \in 1 .. NumFragments(m) |-> [msg |-> m, index |-> i]]
  BY DEF FragmentsOf, NumFragments
<1> QED
  BY <1>1, <1>2, <1>3

\* No step takes a message back or changes its number of fragments.
LEMMA SentStays ==
  ASSUME FragInv, [Next]_vars, NEW m \in SentMessages
  PROVE  m \in SentMessages' /\ NumFragments(m)' = NumFragments(m)
<1>1. /\ m.ch \in Channels /\ m.idx \in Nat /\ m.idx < sender[m.ch].sent
      /\ m \in [ch : Channels, idx : 0 .. MaxSend - 1]
  BY SentMessage DEF FragInv, SentMessages
<1>2. /\ sender[m.ch] \in Channel /\ count[m.ch] \in Seq(Counts)
      /\ Len(count[m.ch]) = sender[m.ch].sent /\ sender[m.ch].sent \in Nat
  BY <1>1 DEF FragInv, TypeOK, CountsMatch, Channel
<1>3. ASSUME sender'[m.ch].sent = sender[m.ch].sent, count'[m.ch] = count[m.ch]
      PROVE  m \in SentMessages' /\ NumFragments(m)' = NumFragments(m)
  BY <1>1, <1>3 DEF SentMessages, NumFragments
<1>4. ASSUME NEW r \in Channels, NEW n \in Counts, send(r, n)
      PROVE  m \in SentMessages' /\ NumFragments(m)' = NumFragments(m)
  <2>1. CASE r # m.ch
    <3>1. sender'[m.ch] = sender[m.ch] /\ count'[m.ch] = count[m.ch]
      BY <1>1, <1>4, <2>1 DEF send, FragInv, TypeOK
    <3> QED
      BY <1>3, <3>1
  <2>2. CASE r = m.ch
    <3>1. /\ sender'[m.ch] = Enqueue(r, sender[m.ch])
          /\ count'[m.ch] = Append(count[m.ch], n)
      BY <1>1, <1>4, <2>2 DEF send, FragInv, TypeOK
    <3>2. sender'[m.ch].sent = sender[m.ch].sent + 1
      BY <1>2, <3>1 DEF Enqueue, Channel
    <3>3. m.idx + 1 \in 1 .. Len(count[m.ch])
      BY <1>1, <1>2
    <3>4. Append(count[m.ch], n)[m.idx + 1] = count[m.ch][m.idx + 1]
      <4> DEFINE s == count[m.ch]
                 i == m.idx + 1
      <4>1. s \in Seq(Counts) /\ i \in 1 .. Len(s)
        BY <1>2, <3>3
      <4> HIDE DEF s, i
      <4>2. Append(s, n)[i] = s[i]
        BY <4>1
      <4> QED
        BY <4>2 DEF s, i
    <3> QED
      BY <1>1, <1>2, <3>1, <3>2, <3>4 DEF SentMessages, NumFragments
  <2> QED
    BY <2>1, <2>2
<1>5. ASSUME NEW h \in headers, receive_ack(h)
      PROVE  m \in SentMessages' /\ NumFragments(m)' = NumFragments(m)
  <2>1. h.ch \in Channels /\ h.ack \in SeqNum /\ h.bits \in AckMask
    BY DEF FragInv, TypeOK
  <2>2. /\ sender' = [sender EXCEPT ![h.ch] =
                        process_acks(h.ch, sender[h.ch], h.ack, h.bits)]
        /\ count' = count
    BY <1>5 DEF receive_ack
  <2>3. process_acks(h.ch, sender[h.ch], h.ack, h.bits).sent = sender[h.ch].sent
    BY <2>1, ProcessAcksType, ChannelsAssumption DEF FragInv, TypeOK
  <2>4. sender'[m.ch].sent = sender[m.ch].sent
    BY <1>1, <2>2, <2>3 DEF FragInv, TypeOK
  <2> QED
    BY <1>3, <2>2, <2>4
<1>6. ASSUME NEW r \in Channels, NEW q \in sender[r].pending, resend(r, q)
      PROVE  m \in SentMessages' /\ NumFragments(m)' = NumFragments(m)
  <2>1. /\ sender' = [sender EXCEPT ![r] = count_retry(sender[r], {q})]
        /\ count' = count
    BY <1>6 DEF resend
  <2>2. count_retry(sender[r], {q}).sent = sender[r].sent
    <3>1. sender[r] \in Channel /\ {q} \in SUBSET sender[r].pending
      BY DEF FragInv, TypeOK
    <3> QED
      BY <3>1, CountRetryType
  <2>3. sender'[m.ch].sent = sender[m.ch].sent
    BY <1>1, <2>1, <2>2 DEF FragInv, TypeOK
  <2> QED
    BY <1>3, <2>1, <2>3
<1>7. CASE UNCHANGED <<sender, count>>
  BY <1>3, <1>7
<1>8. \/ UNCHANGED <<sender, count>>
      \/ \E r \in Channels, n \in Counts : send(r, n)
      \/ \E h \in headers : receive_ack(h)
      \/ \E r \in Channels : \E q \in sender[r].pending : resend(r, q)
  BY DEF Next, vars, process_packet, cleanup_fragments, send_back
<1> QED
  BY <1>4, <1>5, <1>6, <1>7, <1>8

-----------------------------------------------------------------------------
(* An assembly takes a fragment.                                           *)

\* What follows from the two definitions about a packet and its message.
LEMMA PacketFacts ==
  ASSUME TypeOK, CountsMatch, NEW m \in SentMessages, NEW p \in Packet, PacketOf(p, m)
  PROVE  /\ p.frag_count \in Nat /\ p.frag_index \in 1 .. p.frag_count
         /\ p.frag_count = NumFragments(m)
         /\ p.payload.msg = m /\ p.payload.index = p.frag_index /\ p.payload \in Fragment
         /\ p.payload = [msg |-> m, index |-> p.frag_index]
         /\ p.seq \in SeqNum /\ p.seq = sequence(m.idx) /\ p.frag_count \in Counts
BY SentMessage DEF PacketOf, Packet

\* The assembly that find_or_create_fragment_assembly gives for a packet is one
\* of its message, and the only one of its sequence number.
LEMMA FoundAssembly ==
  ASSUME FragInv, OneChannel, NEW m \in SentMessages, NEW p \in Packet, PacketOf(p, m)
  PROVE  LET fa == find_or_create_fragment_assembly(p) IN
         /\ fa \in Assembly
         /\ AssemblyOf(fa, m)
         /\ \A x \in fragment_assemblies : SameMessage(p, x) => x = fa
         /\ \/ fa \in fragment_assemblies
            \/ \A i \in 1 .. fa.frag_count : fa.fragments[i] = {}
<1> DEFINE fa == find_or_create_fragment_assembly(p)
<1>0. /\ p.frag_count \in Nat /\ p.frag_count = NumFragments(m)
      /\ p.seq \in SeqNum /\ p.seq = sequence(m.idx) /\ p.frag_count \in Counts
  BY PacketFacts DEF FragInv
<1>1. CASE \E x \in fragment_assemblies : SameMessage(p, x)
  <2>1. fa \in fragment_assemblies /\ fa.base_sequence = p.seq
    BY <1>1 DEF find_or_create_fragment_assembly, SameMessage
  <2> HIDE DEF fa
  <2>2. fa \in Assembly
    BY <2>1 DEF FragInv, TypeOK
  <2>3. PICK k \in SentMessages : AssemblyOf(fa, k)
    BY <2>1 DEF FragInv, AssembliesKnown
  <2>4. k = m
    BY <1>0, <2>1, <2>3, SameSequence DEF FragInv, AssemblyOf
  <2>5. \A x \in fragment_assemblies : SameMessage(p, x) => x = fa
    BY <2>1 DEF FragInv, AssembliesApart, SameMessage
  <2>6. /\ fa \in Assembly /\ AssemblyOf(fa, m) /\ fa \in fragment_assemblies
        /\ \A x \in fragment_assemblies : SameMessage(p, x) => x = fa
    BY <2>1, <2>2, <2>3, <2>4, <2>5
  <2> QED
    BY <2>6 DEF fa
<1>2. CASE ~ \E x \in fragment_assemblies : SameMessage(p, x)
  <2> DEFINE n == p.frag_count
             fs == [i \in 1 .. n |-> {}]
  <2>1. fa = [base_sequence |-> p.seq, frag_count |-> n, received_mask |-> {},
              fragments |-> fs]
    BY <1>2 DEF find_or_create_fragment_assembly
  <2>2. fs \in Seq(SUBSET Fragment) /\ Len(fs) = n /\ \A i \in 1 .. n : fs[i] = {}
    BY <1>0
  <2> HIDE DEF fs, fa
  <2>3. /\ fa.base_sequence = p.seq /\ fa.frag_count = n /\ fa.received_mask = {}
        /\ fa.fragments = fs
    BY <2>1
  <2>4. fa \in Assembly
    BY <1>0, <2>1, <2>2 DEF Assembly
  <2>5. AssemblyOf(fa, m)
    BY <1>0, <2>2, <2>3 DEF AssemblyOf
  <2>6. /\ \A x \in fragment_assemblies : SameMessage(p, x) => x = fa
        /\ \A i \in 1 .. fa.frag_count : fa.fragments[i] = {}
    BY <1>2, <2>2, <2>3
  <2> QED
    BY <2>4, <2>5, <2>6 DEF fa
<1> QED
  BY <1>1, <1>2

\* store_fragment puts the fragment in its place and nothing else.
LEMMA StoredFragment ==
  ASSUME TypeOK, CountsMatch, NEW m \in SentMessages, NEW p \in Packet, PacketOf(p, m),
         NEW fa \in Assembly, AssemblyOf(fa, m)
  PROVE  LET new == store_fragment(fa, p) IN
         /\ new \in Assembly
         /\ AssemblyOf(new, m)
         /\ new.fragments[p.frag_index] = {p.payload}
         /\ \A i \in 1 .. new.frag_count :
              i # p.frag_index => new.fragments[i] = fa.fragments[i]
<1> DEFINE j == p.frag_index
           n == fa.frag_count
           fs == [fa.fragments EXCEPT ![j] = {p.payload}]
           mask == fa.received_mask \cup ({j - 1} \cap 0 .. MaskBits - 1)
           new == store_fragment(fa, p)
<1>0. /\ p.frag_count \in Nat /\ j \in 1 .. n /\ n = NumFragments(m) /\ n \in Nat
      /\ p.payload \in Fragment /\ p.payload = [msg |-> m, index |-> j]
  BY PacketFacts DEF AssemblyOf
<1>1. /\ fa.fragments \in Seq(SUBSET Fragment) /\ Len(fa.fragments) = n
      /\ fa.received_mask \subseteq 0 .. MaskBits - 1
      /\ fa.base_sequence \in SeqNum /\ fa.frag_count \in Counts
      /\ fa = [base_sequence |-> fa.base_sequence, frag_count |-> fa.frag_count,
               fragments |-> fa.fragments, received_mask |-> fa.received_mask]
  BY DEF AssemblyOf, Assembly
<1>2. /\ fs \in Seq(SUBSET Fragment) /\ Len(fs) = n /\ fs[j] = {p.payload}
      /\ \A i \in 1 .. n : i # j => fs[i] = fa.fragments[i]
  <2>1. {p.payload} \in SUBSET Fragment
    BY <1>0
  <2>2. DOMAIN fa.fragments = 1 .. n
    BY <1>1
  <2>3. fs \in [1 .. n -> SUBSET Fragment]
    BY <1>0, <1>1, <2>1, <2>2
  <2> QED
    BY <1>0, <1>1, <2>2, <2>3
<1>3. mask \subseteq 0 .. MaskBits - 1
  BY <1>1
<1>4. new = [base_sequence |-> fa.base_sequence, frag_count |-> fa.frag_count,
             fragments |-> fs, received_mask |-> mask]
  <2>1. new = [fa EXCEPT !.fragments = fs, !.received_mask = mask]
    BY DEF store_fragment
  <2> HIDE DEF new, fs, mask
  <2> QED
    BY <1>1, <2>1
<1>5. \A b : b \in mask <=> b \in fa.received_mask \/ (b = j - 1 /\ b \in 0 .. MaskBits - 1)
  OBVIOUS
<1> HIDE DEF fs, mask, new
<1>6. /\ new.base_sequence = fa.base_sequence /\ new.frag_count = n
      /\ new.fragments = fs /\ new.received_mask = mask
  BY <1>4
<1>7. new \in Assembly
  BY <1>1, <1>2, <1>3, <1>4 DEF Assembly
<1>8. \A i \in 1 .. n : fs[i] = {} \/ fs[i] = {[msg |-> m, index |-> i]}
  BY <1>0, <1>2 DEF AssemblyOf
<1>9. \A i \in 1 .. n : i <= MaskBits => (i - 1 \in mask <=> fs[i] # {})
  <2> SUFFICES ASSUME NEW i \in 1 .. n, i <= MaskBits
               PROVE  i - 1 \in mask <=> fs[i] # {}
    OBVIOUS
  <2>1. i - 1 \in fa.received_mask <=> fa.fragments[i] # {}
    BY DEF AssemblyOf
  <2>2. CASE i = j
    BY <1>0, <1>2, <1>5, <2>2, MaskBitsAssumption
  <2>3. CASE i # j
    BY <1>0, <1>2, <1>5, <2>1, <2>3
  <2> QED
    BY <2>2, <2>3
<1>10. \A b \in mask : b + 1 <= n
  BY <1>0, <1>5 DEF AssemblyOf
<1>11. AssemblyOf(new, m)
  BY <1>2, <1>6, <1>8, <1>9, <1>10 DEF AssemblyOf
<1>12. new \in Assembly /\ AssemblyOf(new, m) /\ new.fragments[j] = {p.payload}
         /\ \A i \in 1 .. new.frag_count : i # j => new.fragments[i] = fa.fragments[i]
  BY <1>2, <1>6, <1>7, <1>11
<1> QED
  BY <1>12 DEF new

\* A complete assembly is the message.
LEMMA CompleteAssembly ==
  ASSUME TypeOK, CountsMatch, NEW m \in SentMessages, NEW p \in Packet, PacketOf(p, m),
         NEW fa \in Assembly, AssemblyOf(fa, m), complete(fa, p)
  PROVE  Assembled(fa) = FragmentsOf(m) /\ Assembled(fa) \in Seq(Fragment)
<1> DEFINE n == fa.frag_count
<1>0. n = NumFragments(m) /\ n \in Nat /\ p.frag_count = n
        /\ fa.received_mask \subseteq 0 .. MaskBits - 1
  BY PacketFacts, SentMessage DEF AssemblyOf, Assembly
<1>1. fa.received_mask = 0 .. n - 1
  BY <1>0 DEF complete
<1>2. ASSUME NEW i \in 1 .. n
      PROVE  (CHOOSE f \in fa.fragments[i] : TRUE) = [msg |-> m, index |-> i]
  <2>1. i - 1 \in fa.received_mask
    BY <1>0, <1>1
  <2>2. i <= MaskBits
    BY <1>0, <2>1, MaskBitsAssumption
  <2>3. fa.fragments[i] = {[msg |-> m, index |-> i]}
    BY <2>1, <2>2 DEF AssemblyOf
  <2> QED
    BY <2>3
<1>3. Assembled(fa) = [i \in 1 .. n |-> [msg |-> m, index |-> i]]
  BY <1>2 DEF Assembled
<1>4. FragmentsOf(m) = [i \in 1 .. n |-> [msg |-> m, index |-> i]]
  BY <1>0 DEF FragmentsOf, NumFragments
<1> QED
  BY <1>3, <1>4, FragmentsType

-----------------------------------------------------------------------------
(* The steps.                                                              *)

\* What is said about a message stays true.
LEMMA MessageStays ==
  ASSUME FragInv, [Next]_vars, NEW m \in SentMessages
  PROVE  /\ m \in SentMessages'
         /\ FragmentsOf(m)' = FragmentsOf(m)
         /\ \A p : PacketOf(p, m) => PacketOf(p, m)'
         /\ \A fa : AssemblyOf(fa, m) => AssemblyOf(fa, m)'
<1>1. m \in SentMessages' /\ NumFragments(m)' = NumFragments(m)
  BY SentStays
<1>2. FragmentsOf(m)' = FragmentsOf(m)
  BY <1>1 DEF FragmentsOf, NumFragments
<1>3. \A p : PacketOf(p, m) => PacketOf(p, m)'
  BY <1>1 DEF PacketOf
<1>4. \A fa : AssemblyOf(fa, m) => AssemblyOf(fa, m)'
  BY <1>1 DEF AssemblyOf
<1> QED
  BY <1>1, <1>2, <1>3, <1>4

\* The parts of the invariant that a step leaves alone with their variables.
LEMMA PartsStay ==
  ASSUME FragInv, [Next]_vars
  PROVE  /\ net' = net => NetHonest'
         /\ UNCHANGED fragment_assemblies => AssembliesKnown' /\ AssembliesApart'
         /\ UNCHANGED receive_queue => AssembledIntact'
<1>1. ASSUME net' = net PROVE NetHonest'
  BY <1>1, MessageStays DEF FragInv, NetHonest
<1>2. ASSUME UNCHANGED fragment_assemblies PROVE AssembliesKnown' /\ AssembliesApart'
  BY <1>2, MessageStays DEF FragInv, AssembliesKnown, AssembliesApart
<1>3. ASSUME UNCHANGED receive_queue PROVE AssembledIntact'
  <2> SUFFICES ASSUME NEW k \in DOMAIN receive_queue
               PROVE  \E m \in SentMessages' : receive_queue[k] = FragmentsOf(m)'
    BY <1>3 DEF AssembledIntact
  <2>1. PICK m \in SentMessages : receive_queue[k] = FragmentsOf(m)
    BY DEF FragInv, AssembledIntact
  <2> QED
    BY <2>1, MessageStays
<1> QED
  BY <1>1, <1>2, <1>3

\* The packets of a message.
LEMMA PacketsOfMessage ==
  ASSUME NEW r \in Channels, NEW idx \in Nat, NEW n \in Counts,
         NEW p \in FragmentPackets(r, idx, n)
  PROVE  /\ p \in Packet
         /\ p.seq = sequence(idx) /\ p.frag_count = n /\ p.frag_index \in 1 .. n
         /\ p.payload = [msg |-> [ch |-> r, idx |-> idx], index |-> p.frag_index]
<1>1. PICK i \in 1 .. n :
        p = [seq |-> sequence(idx), frag_index |-> i, frag_count |-> n,
             payload |-> [msg |-> [ch |-> r, idx |-> idx], index |-> i]]
  BY DEF FragmentPackets
<1>2. n \in Nat /\ i \in Nat /\ r \in Reliability
  BY CountsAssumption, ChannelsAssumption
<1>3. [ch |-> r, idx |-> idx] \in MsgId
  BY <1>2 DEF MsgId
<1>4. [msg |-> [ch |-> r, idx |-> idx], index |-> i] \in Fragment
  BY <1>2, <1>3 DEF Fragment
<1>5. p \in Packet
  BY <1>1, <1>2, <1>4, SequenceType DEF Packet
<1> QED
  BY <1>1, <1>5

LEMMA SendInductive ==
  ASSUME FragInv, NEW r \in Channels, NEW n \in Counts, send(r, n)
  PROVE  FragInv'
<1> DEFINE c == sender[r]
<1>m. PICK m : m = [ch |-> r, idx |-> c.sent]
  OBVIOUS
<1>0. [Next]_vars
  BY DEF Next
<1>1. /\ c \in Channel /\ c.sent \in Nat /\ c.sent < MaxSend
      /\ count[r] \in Seq(Counts) /\ Len(count[r]) = c.sent
      /\ \A q \in c.pending : q.idx < c.sent
  BY DEF FragInv, TypeOK, CountsMatch, Channel, send
<1>2. /\ Enqueue(r, c) \in Channel /\ Enqueue(r, c).sent = c.sent + 1
      /\ Enqueue(r, c).pending \subseteq c.pending \cup {[idx |-> c.sent, retries |-> 0]}
  BY <1>1, EnqueueType, ChannelsAssumption DEF Enqueue, Channel
<1>3. /\ sender' = [sender EXCEPT ![r] = Enqueue(r, c)]
      /\ count' = [count EXCEPT ![r] = Append(count[r], n)]
      /\ net' = net \cup FragmentPackets(r, c.sent, n)
      /\ UNCHANGED <<receiver, headers, closed, fragment_assemblies, receive_queue,
                     arrived, expired>>
  BY DEF send
<1>4. /\ Append(count[r], n) \in Seq(Counts) /\ Len(Append(count[r], n)) = c.sent + 1
      /\ Append(count[r], n)[c.sent + 1] = n
  <2> DEFINE s == count[r]
  <2>1. s \in Seq(Counts) /\ Len(s) = c.sent
    BY <1>1
  <2> HIDE DEF s
  <2>2. /\ Append(s, n) \in Seq(Counts) /\ Len(Append(s, n)) = Len(s) + 1
        /\ Append(s, n)[Len(s) + 1] = n
    BY <2>1
  <2> QED
    BY <2>1, <2>2 DEF s
<1>5. TypeOK'
  <2>1. sender' \in [Channels -> Channel] /\ count' \in [Channels -> Seq(Counts)]
    BY <1>2, <1>3, <1>4 DEF FragInv, TypeOK
  <2>2. net' \subseteq Packet
    BY <1>1, <1>3, PacketsOfMessage DEF FragInv, TypeOK
  <2> QED
    BY <1>3, <2>1, <2>2 DEF FragInv, TypeOK
<1>6. CountsMatch'
  <2> SUFFICES ASSUME NEW s \in Channels
               PROVE  /\ Len(count'[s]) = sender'[s].sent
                      /\ sender'[s].sent <= MaxSend
                      /\ \A q \in sender'[s].pending : q.idx < sender'[s].sent
    BY DEF CountsMatch
  <2>1. CASE s # r
    BY <1>3, <2>1 DEF FragInv, TypeOK, CountsMatch
  <2>2. CASE s = r
    <3>1. sender'[s] = Enqueue(r, c) /\ count'[s] = Append(count[r], n)
      BY <1>3, <2>2 DEF FragInv, TypeOK
    <3>2. \A q \in c.pending : q.idx \in Nat /\ q.idx < c.sent
      BY <1>1 DEF Channel, Pending
    <3>3. \A q \in Enqueue(r, c).pending : q.idx < c.sent + 1
      BY <1>1, <1>2, <3>2
    <3> QED
      BY <1>1, <1>2, <1>4, <3>1, <3>3, MaxSendAssumption
  <2> QED
    BY <2>1, <2>2
<1>7. m \in SentMessages' /\ NumFragments(m)' = n
  <2>1. m.ch = r /\ m.idx = c.sent /\ m \in [ch : Channels, idx : 0 .. MaxSend - 1]
    BY <1>1, <1>m, MaxSendAssumption
  <2>2. sender'[r].sent = c.sent + 1 /\ count'[r] = Append(count[r], n)
    BY <1>2, <1>3 DEF FragInv, TypeOK
  <2> QED
    BY <1>1, <1>4, <2>1, <2>2 DEF SentMessages, NumFragments
<1>8. NetHonest'
  <2> SUFFICES ASSUME NEW p \in net'
               PROVE  \E k \in SentMessages' : PacketOf(p, k)'
    BY DEF NetHonest
  <2>1. CASE p \in net
    BY <1>0, <2>1, MessageStays DEF FragInv, NetHonest
  <2>2. CASE p \in FragmentPackets(r, c.sent, n)
    <3>1. /\ p.seq = sequence(c.sent) /\ p.frag_count = n /\ p.frag_index \in 1 .. n
          /\ p.payload = [msg |-> m, index |-> p.frag_index]
      BY <1>1, <1>m, <2>2, PacketsOfMessage
    <3>2. m.idx = c.sent
      BY <1>m
    <3>3. PacketOf(p, m)'
      BY <1>7, <3>1, <3>2 DEF PacketOf
    <3> QED
      BY <1>7, <3>3
  <2> QED
    BY <1>3, <2>1, <2>2
<1> QED
  BY <1>0, <1>3, <1>5, <1>6, <1>8, PartsStay DEF FragInv

LEMMA AckInductive ==
  ASSUME FragInv, NEW h \in headers, receive_ack(h)
  PROVE  FragInv'
<1> DEFINE r == h.ch
           c == process_acks(r, sender[r], h.ack, h.bits)
<1>0. [Next]_vars
  BY DEF Next
<1>1. r \in Channels /\ h.ack \in SeqNum /\ h.bits \in AckMask /\ sender[r] \in Channel
  BY DEF FragInv, TypeOK
<1>2. c \in Channel /\ c.pending \subseteq sender[r].pending /\ c.sent = sender[r].sent
  BY <1>1, ProcessAcksType, ChannelsAssumption
<1>3. /\ sender' = [sender EXCEPT ![r] = c]
      /\ UNCHANGED <<receiver, count, net, headers, closed, fragment_assemblies,
                     receive_queue, arrived, expired>>
  BY DEF receive_ack
<1> HIDE DEF r, c
<1>4. TypeOK'
  BY <1>1, <1>2, <1>3 DEF FragInv, TypeOK
<1>5. CountsMatch'
  <2>1. \A s \in Channels : /\ sender'[s].sent = sender[s].sent
                            /\ sender'[s].pending \subseteq sender[s].pending
    BY <1>1, <1>2, <1>3 DEF FragInv, TypeOK
  <2> QED
    BY <1>3, <2>1 DEF FragInv, CountsMatch
<1> QED
  BY <1>0, <1>3, <1>4, <1>5, PartsStay DEF FragInv

LEMMA ResendInductive ==
  ASSUME FragInv, NEW r \in Channels, NEW q \in sender[r].pending, resend(r, q)
  PROVE  FragInv'
<1> DEFINE c == count_retry(sender[r], {q})
           m == [ch |-> r, idx |-> q.idx]
           n == count[r][q.idx + 1]
<1>0. [Next]_vars
  BY DEF Next
<1>1. /\ sender[r] \in Channel /\ q \in Pending /\ q.idx \in Nat
      /\ q.idx < sender[r].sent /\ sender[r].sent <= MaxSend /\ sender[r].sent \in Nat
      /\ \A i \in sender[r].pending : i \in Pending
  BY DEF FragInv, TypeOK, CountsMatch, Channel, Pending
<1>2. /\ c \in Channel /\ c.sent = sender[r].sent
      /\ \A i \in Nat : (\E x \in c.pending : x.idx = i)
                          <=> \E x \in sender[r].pending : x.idx = i
  <2>1. {q} \in SUBSET sender[r].pending
    OBVIOUS
  <2> QED
    BY <1>1, <2>1, CountRetryType
<1>3. /\ sender' = [sender EXCEPT ![r] = c] /\ closed' = exhausted(q)
      /\ net' = net \/ net' = net \cup FragmentPackets(r, q.idx, n)
      /\ UNCHANGED <<receiver, count, headers, fragment_assemblies, receive_queue,
                     arrived, expired>>
  BY DEF resend
<1>4. m \in SentMessages /\ NumFragments(m) = n /\ m.idx = q.idx /\ n \in Counts
  <2>1. m.ch = r /\ m.idx = q.idx /\ m \in [ch : Channels, idx : 0 .. MaxSend - 1]
    BY <1>1, MaxSendAssumption
  <2> HIDE DEF m
  <2>2. m \in SentMessages
    BY <1>1, <2>1 DEF SentMessages
  <2>3. NumFragments(m) = n
    BY <2>1 DEF NumFragments
  <2> HIDE DEF n
  <2> QED
    BY <2>1, <2>2, <2>3, SentMessage DEF FragInv
<1>5. ASSUME NEW p \in FragmentPackets(r, q.idx, n)
      PROVE  p \in Packet /\ PacketOf(p, m)
  <2>1. /\ p \in Packet
        /\ p.seq = sequence(q.idx) /\ p.frag_count = n /\ p.frag_index \in 1 .. n
        /\ p.payload = [msg |-> m, index |-> p.frag_index]
    BY <1>1, <1>4, PacketsOfMessage
  <2> HIDE DEF m, n
  <2> QED
    BY <1>4, <2>1 DEF PacketOf
<1> HIDE DEF c, m, n
<1>6. TypeOK'
  <2>1. sender' \in [Channels -> Channel]
    BY <1>2, <1>3 DEF FragInv, TypeOK
  <2>2. net' \subseteq Packet
    BY <1>3, <1>5 DEF FragInv, TypeOK
  <2>3. closed' \in BOOLEAN
    BY <1>3 DEF exhausted
  <2> QED
    BY <1>3, <2>1, <2>2, <2>3 DEF FragInv, TypeOK
<1>7. CountsMatch'
  <2> SUFFICES ASSUME NEW s \in Channels
               PROVE  /\ Len(count'[s]) = sender'[s].sent
                      /\ sender'[s].sent <= MaxSend
                      /\ \A x \in sender'[s].pending : x.idx < sender'[s].sent
    BY DEF CountsMatch
  <2>1. CASE s # r
    BY <1>3, <2>1 DEF FragInv, TypeOK, CountsMatch
  <2>2. CASE s = r
    <3>1. sender'[s] = c /\ count'[s] = count[r]
      BY <1>3, <2>2 DEF FragInv, TypeOK
    <3>2. \A x \in c.pending : x.idx \in Nat
      BY <1>2 DEF Channel, Pending
    <3>3. \A x \in c.pending : x.idx < sender[r].sent
      BY <1>2, <3>2 DEF FragInv, CountsMatch
    <3> QED
      BY <1>2, <2>2, <3>1, <3>3 DEF FragInv, CountsMatch
  <2> QED
    BY <2>1, <2>2
<1>8. NetHonest'
  <2> SUFFICES ASSUME NEW p \in net'
               PROVE  \E k \in SentMessages' : PacketOf(p, k)'
    BY DEF NetHonest
  <2>1. \E k \in SentMessages : PacketOf(p, k)
    BY <1>3, <1>4, <1>5 DEF FragInv, NetHonest
  <2> QED
    BY <1>0, <2>1, MessageStays
<1> QED
  BY <1>0, <1>3, <1>6, <1>7, <1>8, PartsStay DEF FragInv

\* The channel lets a fragment through, or not, and stays well formed.
LEMMA ReceiverType ==
  ASSUME NEW r \in Reliability, NEW c \in Channel, NEW p \in Packet
  PROVE  receive_fragment(r, c, p) \in Channel
<1>1. [inc |-> 1, idx |-> 0] \in Message /\ p.seq \in SeqNum
  BY DEF Message, Packet
<1> DEFINE d == receive(r, c, p.seq, [inc |-> 1, idx |-> 0])
<1>2. d \in Channel
  BY <1>1, ReceiveType
<1>3. receive_fragment(r, c, p) = [d EXCEPT !.got = << >>] \/ receive_fragment(r, c, p) = c
  BY DEF receive_fragment
<1> HIDE DEF d
<1>4. << >> \in Seq(Message)
  OBVIOUS
<1>5. [d EXCEPT !.got = << >>] \in Channel
  BY <1>2, <1>4 DEF Channel
<1> QED
  BY <1>3, <1>5

\* The packet in hand: its message, its assembly before and after.
ProcessEffect(p, m, fa, new) ==
  /\ PacketOf(p, m) /\ p.payload.msg = m
  /\ AssemblyOf(fa, m) /\ AssemblyOf(new, m)
  /\ fa = find_or_create_fragment_assembly(p)
  /\ new.fragments[p.frag_index] = {p.payload}
  /\ \A i \in 1 .. new.frag_count :
       i # p.frag_index => new.fragments[i] = fa.fragments[i]
  /\ \A x \in fragment_assemblies : SameMessage(p, x) => x = fa
  /\ \/ fa \in fragment_assemblies
     \/ \A i \in 1 .. fa.frag_count : fa.fragments[i] = {}
  /\ complete(new, p) => Assembled(new) = FragmentsOf(m)
  /\ \/ /\ UNCHANGED <<fragment_assemblies, receive_queue>>
        /\ \/ fa.fragments[p.frag_index] # {}
           \/ ~ accepts(p.payload.msg.ch, receiver[p.payload.msg.ch], p.seq)
     \/ /\ complete(new, p)
        /\ receive_queue' = Append(receive_queue, FragmentsOf(m))
        /\ fragment_assemblies' =
             {x \in fragment_assemblies : ~ SameMessage(p, x)}
     \/ /\ ~ complete(new, p)
        /\ UNCHANGED receive_queue
        /\ fragment_assemblies' =
             {x \in fragment_assemblies : ~ SameMessage(p, x)} \cup {new}

LEMMA ProcessStep ==
  ASSUME FragInv, OneChannel, NEW p \in net, process_packet(p)
  PROVE  \E m \in SentMessages, fa \in Assembly, new \in Assembly :
           ProcessEffect(p, m, fa, new)
<1>1. PICK m \in SentMessages : PacketOf(p, m)
  BY DEF FragInv, NetHonest
<1>2. p \in Packet /\ TypeOK /\ CountsMatch
  BY DEF FragInv, TypeOK
<1>3. p.payload.msg = m
  BY <1>1, <1>2, PacketFacts
<1>4. PICK fa : fa = find_or_create_fragment_assembly(p)
  OBVIOUS
<1>5. /\ fa \in Assembly /\ AssemblyOf(fa, m)
      /\ \A x \in fragment_assemblies : SameMessage(p, x) => x = fa
      /\ \/ fa \in fragment_assemblies
         \/ \A i \in 1 .. fa.frag_count : fa.fragments[i] = {}
  BY <1>1, <1>2, <1>4, FoundAssembly
<1>6. PICK new : new = store_fragment(fa, p)
  OBVIOUS
<1>7. /\ new \in Assembly /\ AssemblyOf(new, m)
      /\ new.fragments[p.frag_index] = {p.payload}
      /\ \A i \in 1 .. new.frag_count :
           i # p.frag_index => new.fragments[i] = fa.fragments[i]
  BY <1>1, <1>2, <1>5, <1>6, StoredFragment
<1>8. complete(new, p) => Assembled(new) = FragmentsOf(m)
  BY <1>1, <1>2, <1>7, CompleteAssembly
<1>9. \/ /\ UNCHANGED <<fragment_assemblies, receive_queue>>
         /\ \/ fa.fragments[p.frag_index] # {}
            \/ ~ accepts(p.payload.msg.ch, receiver[p.payload.msg.ch], p.seq)
      \/ /\ complete(new, p)
         /\ receive_queue' = Append(receive_queue, Assembled(new))
         /\ fragment_assemblies' = {x \in fragment_assemblies : ~ SameMessage(p, x)}
      \/ /\ ~ complete(new, p)
         /\ UNCHANGED receive_queue
         /\ fragment_assemblies' =
              {x \in fragment_assemblies : ~ SameMessage(p, x)} \cup {new}
  BY <1>4, <1>6 DEF process_packet, process_payload
<1>10. \/ /\ UNCHANGED <<fragment_assemblies, receive_queue>>
          /\ \/ fa.fragments[p.frag_index] # {}
             \/ ~ accepts(p.payload.msg.ch, receiver[p.payload.msg.ch], p.seq)
       \/ /\ complete(new, p)
          /\ receive_queue' = Append(receive_queue, FragmentsOf(m))
          /\ fragment_assemblies' = {x \in fragment_assemblies : ~ SameMessage(p, x)}
       \/ /\ ~ complete(new, p)
          /\ UNCHANGED receive_queue
          /\ fragment_assemblies' =
               {x \in fragment_assemblies : ~ SameMessage(p, x)} \cup {new}
  BY <1>8, <1>9
<1>11. ProcessEffect(p, m, fa, new)
  BY <1>1, <1>3, <1>4, <1>5, <1>7, <1>8, <1>10 DEF ProcessEffect
<1> QED
  BY <1>1, <1>5, <1>7, <1>11

LEMMA ProcessInductive ==
  ASSUME FragInv, OneChannel, NEW p \in net, process_packet(p)
  PROVE  FragInv'
<1>0. [Next]_vars
  BY DEF Next
<1> DEFINE rest == {x \in fragment_assemblies : ~ SameMessage(p, x)}
<1>1. PICK m \in SentMessages, fa \in Assembly, new \in Assembly :
        /\ PacketOf(p, m) /\ p.payload.msg = m
        /\ AssemblyOf(fa, m) /\ AssemblyOf(new, m)
        /\ complete(new, p) => Assembled(new) = FragmentsOf(m)
        /\ \/ UNCHANGED <<fragment_assemblies, receive_queue>>
           \/ /\ complete(new, p)
              /\ receive_queue' = Append(receive_queue, FragmentsOf(m))
              /\ fragment_assemblies' = rest
           \/ /\ ~ complete(new, p)
              /\ UNCHANGED receive_queue
              /\ fragment_assemblies' = rest \cup {new}
  BY ProcessStep DEF ProcessEffect
<1>2. TypeOK /\ CountsMatch /\ p \in Packet
  BY DEF FragInv, TypeOK
<1>3. /\ m.ch \in Channels /\ m.ch \in Reliability
      /\ receiver' = [receiver EXCEPT ![m.ch] = receive_fragment(m.ch, receiver[m.ch], p)]
      /\ arrived' = arrived \cup {p.payload}
      /\ UNCHANGED <<sender, count, net, headers, closed, expired>>
  BY <1>1, <1>2, SentMessage DEF process_packet
<1>4. /\ FragmentsOf(m) \in Seq(Fragment) /\ receive_queue \in Seq(Seq(Fragment))
      /\ p.payload \in Fragment /\ p.seq = new.base_sequence
  BY <1>1, <1>2, FragmentsType, PacketFacts, ZenonT(30) DEF TypeOK, AssemblyOf
<1>5. TypeOK'
  <2>1. receiver' \in [Channels -> Channel]
    <3>1. receive_fragment(m.ch, receiver[m.ch], p) \in Channel
      BY <1>2, <1>3, ReceiverType DEF TypeOK
    <3> QED
      BY <1>2, <1>3, <3>1 DEF TypeOK
  <2>2. fragment_assemblies' \subseteq Assembly
    BY <1>1, <1>2 DEF TypeOK
  <2>3. receive_queue' \in Seq(Seq(Fragment))
    <3> DEFINE S == Seq(Fragment)
    <3>1. FragmentsOf(m) \in S /\ receive_queue \in Seq(S)
      BY <1>4
    <3> HIDE DEF S
    <3>2. Append(receive_queue, FragmentsOf(m)) \in Seq(S)
      BY <3>1
    <3>3. receive_queue' \in Seq(S)
      BY <1>1, <3>1, <3>2
    <3> QED
      BY <3>3 DEF S
  <2>4. arrived' \in SUBSET Fragment
    BY <1>2, <1>3, <1>4 DEF TypeOK
  <2> QED
    BY <1>2, <1>3, <2>1, <2>2, <2>3, <2>4 DEF TypeOK
<1>6. CountsMatch'
  BY <1>2, <1>3 DEF CountsMatch
<1>7. AssembliesKnown'
  <2> SUFFICES ASSUME NEW x \in fragment_assemblies'
               PROVE  \E k \in SentMessages' : AssemblyOf(x, k)'
    BY DEF AssembliesKnown
  <2>1. \E k \in SentMessages : AssemblyOf(x, k)
    BY <1>1 DEF FragInv, AssembliesKnown
  <2> QED
    BY <1>0, <2>1, MessageStays
<1>8. AssembliesApart'
  BY <1>1, <1>4 DEF FragInv, AssembliesApart, SameMessage
<1>9. AssembledIntact'
  <2>1. CASE UNCHANGED receive_queue
    BY <1>0, <2>1, PartsStay
  <2>2. CASE receive_queue' = Append(receive_queue, FragmentsOf(m))
    <3> SUFFICES ASSUME NEW k \in DOMAIN receive_queue'
                 PROVE  \E j \in SentMessages' : receive_queue'[k] = FragmentsOf(j)'
      BY DEF AssembledIntact
    <3> DEFINE S == Seq(Fragment)
               q == receive_queue
               f == FragmentsOf(m)
    <3>1. q \in Seq(S) /\ f \in S
      BY <1>4
    <3> HIDE DEF S, q, f
    <3>2. /\ Append(q, f) \in Seq(S) /\ Len(Append(q, f)) = Len(q) + 1
          /\ Append(q, f)[Len(q) + 1] = f
      BY <3>1
    <3>3. \A i \in 1 .. Len(q) : Append(q, f)[i] = q[i]
      BY <3>1
    <3>4. k \in 1 .. Len(q) + 1 /\ Len(q) \in Nat
      BY <2>2, <3>1, <3>2 DEF q, f
    <3>5. CASE k = Len(q) + 1
      BY <1>0, <2>2, <3>2, <3>5, MessageStays DEF q, f
    <3>6. CASE k \in 1 .. Len(q)
      <4>1. receive_queue'[k] = receive_queue[k] /\ k \in DOMAIN receive_queue
        BY <2>2, <3>1, <3>3, <3>6 DEF q, f
      <4>2. PICK j \in SentMessages : receive_queue[k] = FragmentsOf(j)
        BY <4>1 DEF FragInv, AssembledIntact
      <4> QED
        BY <1>0, <4>1, <4>2, MessageStays
    <3> QED
      BY <3>4, <3>5, <3>6
  <2> QED
    BY <1>1, <2>1, <2>2
<1> QED
  BY <1>0, <1>3, <1>5, <1>6, <1>7, <1>8, <1>9, PartsStay DEF FragInv

LEMMA StoredType ==
  ASSUME FragInv, NEW fa \in fragment_assemblies
  PROVE  \A f \in Stored(fa) : f \in Fragment /\ f.msg \in MsgId
<1>1. fa.fragments \in Seq(SUBSET Fragment)
  BY DEF FragInv, TypeOK, Assembly
<1>2. PICK m \in SentMessages : AssemblyOf(fa, m)
  BY DEF FragInv, AssembliesKnown
<1>3. \A i \in 1 .. fa.frag_count : fa.fragments[i] \subseteq Fragment
  BY <1>1, <1>2 DEF AssemblyOf
<1> QED
  BY <1>3 DEF Stored, Fragment

LEMMA OtherInductive ==
  ASSUME FragInv, \/ \E fa \in fragment_assemblies : cleanup_fragments(fa)
                  \/ \E r \in Channels : send_back(r)
                  \/ UNCHANGED vars
  PROVE  FragInv'
<1>0. [Next]_vars
  BY DEF Next
<1>1. ASSUME NEW fa \in fragment_assemblies, cleanup_fragments(fa)
      PROVE  FragInv'
  <2>1. /\ fragment_assemblies' = fragment_assemblies \ {fa}
        /\ expired' = expired \cup {f.msg : f \in Stored(fa)}
        /\ UNCHANGED <<sender, receiver, count, net, headers, closed, receive_queue,
                       arrived>>
    BY <1>1 DEF cleanup_fragments
  <2>2. expired' \in SUBSET MsgId
    BY <2>1, StoredType DEF FragInv, TypeOK
  <2>3. TypeOK'
    BY <2>1, <2>2 DEF FragInv, TypeOK
  <2>4. AssembliesKnown'
    BY <1>0, <2>1, MessageStays DEF FragInv, AssembliesKnown
  <2>5. CountsMatch' /\ AssembliesApart'
    BY <2>1 DEF FragInv, CountsMatch, AssembliesApart
  <2> QED
    BY <1>0, <2>1, <2>3, <2>4, <2>5, PartsStay DEF FragInv
<1>2. ASSUME NEW r \in Channels, send_back(r)
      PROVE  FragInv'
  <2>1. receiver[r].remote_seq \in SeqNum /\ receiver[r].ack_bits \in AckMask
    BY DEF FragInv, TypeOK, Channel
  <2>2. TypeOK'
    BY <1>2, <2>1 DEF send_back, FragInv, TypeOK
  <2>3. CountsMatch'
    BY <1>2 DEF send_back, FragInv, CountsMatch
  <2> QED
    BY <1>0, <1>2, <2>2, <2>3, PartsStay DEF FragInv, send_back
<1>3. CASE UNCHANGED vars
  <2>1. TypeOK' /\ CountsMatch'
    BY <1>3 DEF vars, FragInv, TypeOK, CountsMatch
  <2> QED
    BY <1>0, <1>3, <2>1, PartsStay DEF FragInv, vars
<1> QED
  BY <1>1, <1>2, <1>3

LEMMA FragInductive ==
  ASSUME OneChannel
  PROVE  Spec => []FragInv
<1>1. Init => FragInv
  <2> SUFFICES ASSUME Init
               PROVE  FragInv
    OBVIOUS
  <2>1. /\ sender \in [Channels -> Channel] /\ receiver \in [Channels -> Channel]
        /\ count \in [Channels -> Seq(Counts)]
    <3>1. << >> \in Seq(Counts)
      OBVIOUS
    <3> QED
      BY <3>1, NewChannelType DEF Init
  <2>2. receive_queue \in Seq(Seq(Fragment))
    <3>1. \A S : << >> \in Seq(S)
      OBVIOUS
    <3> QED
      BY <3>1 DEF Init
  <2>3. TypeOK
    BY <2>1, <2>2 DEF Init, TypeOK
  <2>4. \A r \in Channels : sender[r].sent = 0 /\ sender[r].pending = {} /\ Len(count[r]) = 0
    BY DEF Init, NewChannel
  <2>5. CountsMatch
    BY <2>4, MaxSendAssumption DEF CountsMatch
  <2>6. DOMAIN receive_queue = {}
    BY DEF Init
  <2> QED
    BY <2>3, <2>5, <2>6
    DEF Init, FragInv, NetHonest, AssembliesKnown, AssembliesApart, AssembledIntact
<1>2. FragInv /\ [Next]_vars => FragInv'
  BY SendInductive, AckInductive, ResendInductive, ProcessInductive, OtherInductive DEF Next
<1> QED
  BY <1>1, <1>2, PTL DEF Spec

\* Whatever is lost, repeated, reordered or expires half way, what process_payload
\* pushes is all the fragments of one message, in order; for every number of
\* fragments, messages and mask bits, on any one of the four channels.
THEOREM AssembledIntactHolds ==
  ASSUME OneChannel
  PROVE  Spec => []AssembledIntact
<1>1. FragInv => AssembledIntact
  BY DEF FragInv
<1> QED
  BY <1>1, FragInductive, PTL

-----------------------------------------------------------------------------
(* Nothing complete is kept.                                               *)

\* An assembly of which every fragment is there is complete, if the mask has a bit
\* for each.
LEMMA FullIsComplete ==
  ASSUME TypeOK, CountsMatch, NEW m \in SentMessages, NEW p \in Packet,
         PacketOf(p, m), NEW fa \in Assembly, AssemblyOf(fa, m), ~ complete(fa, p),
         fa.frag_count <= MaskBits
  PROVE  ~ AllArrived(fa)
<1> DEFINE n == fa.frag_count
<1>0. /\ n \in Nat /\ n = p.frag_count /\ n <= MaskBits
      /\ fa.received_mask \subseteq 0 .. MaskBits - 1
  BY PacketFacts, SentMessage, ZenonT(30) DEF AssemblyOf, Assembly
<1> SUFFICES ASSUME \A i \in 1 .. n : fa.fragments[i] # {}
             PROVE  FALSE
  BY DEF AllArrived
<1>1. \A b \in 0 .. n - 1 : b \in fa.received_mask
  <2> SUFFICES ASSUME NEW b \in 0 .. n - 1
               PROVE  b \in fa.received_mask
    OBVIOUS
  <2>1. b + 1 \in 1 .. n /\ b + 1 <= MaskBits /\ (b + 1) - 1 = b
    BY <1>0, MaskBitsAssumption
  <2> QED
    BY <2>1 DEF AssemblyOf
<1>2. \A b \in fa.received_mask : b \in 0 .. n - 1
  BY <1>0, MaskBitsAssumption DEF AssemblyOf
<1>3. fa.received_mask = 0 .. n - 1
  BY <1>1, <1>2
<1> QED
  BY <1>0, <1>3 DEF complete

\* Only process_packet and cleanup_fragments touch the assemblies.
LEMMA OthersKeepAssemblies ==
  ASSUME [Next]_vars,
         ~ \E p \in net : process_packet(p),
         ~ \E fa \in fragment_assemblies : cleanup_fragments(fa)
  PROVE  UNCHANGED <<fragment_assemblies, receive_queue, arrived, expired>>
BY DEF Next, vars, send, receive_ack, resend, send_back

LEMMA NoStuckStep ==
  ASSUME FragInv, OneChannel, NoStuckAssembly, [Next]_vars
  PROVE  NoStuckAssembly'
<1>1. ASSUME NEW p \in net, process_packet(p)
      PROVE  NoStuckAssembly'
  <2>1. PICK m \in SentMessages, fa \in Assembly, new \in Assembly :
          ProcessEffect(p, m, fa, new)
    BY <1>1, ProcessStep
  <2>2. p \in Packet /\ TypeOK /\ CountsMatch /\ PacketOf(p, m) /\ AssemblyOf(new, m)
    BY <2>1 DEF FragInv, TypeOK, ProcessEffect
  <2>3. ~ complete(new, p) /\ new.frag_count <= MaskBits => ~ AllArrived(new)
    BY <2>2, FullIsComplete
  <2>5. new.frag_count \in Nat
    BY CountsAssumption DEF Assembly
  <2>4. \A x \in fragment_assemblies' :
          x \in fragment_assemblies \/ (x = new /\ ~ complete(new, p))
    BY <2>1 DEF ProcessEffect
  <2> QED
    BY <2>3, <2>4, <2>5, MaskBitsAssumption DEF NoStuckAssembly
<1>2. ASSUME NEW fa \in fragment_assemblies, cleanup_fragments(fa)
      PROVE  NoStuckAssembly'
  BY <1>2 DEF cleanup_fragments, NoStuckAssembly
<1> QED
  BY <1>1, <1>2, OthersKeepAssemblies DEF NoStuckAssembly

\* Each assembly holds fragments of its message only.
LEMMA OneMessageEach ==
  FragInv => AssemblyOfOneMessage
<1> SUFFICES ASSUME FragInv, NEW fa \in fragment_assemblies
             PROVE  /\ \A f, g \in Stored(fa) : f.msg = g.msg
                    /\ \A i \in 1 .. fa.frag_count : \A f \in fa.fragments[i] : f.index = i
  BY DEF AssemblyOfOneMessage
<1>1. PICK m \in SentMessages : AssemblyOf(fa, m)
  BY DEF FragInv, AssembliesKnown
<1>2. \A i \in 1 .. fa.frag_count : \A f \in fa.fragments[i] : f.msg = m /\ f.index = i
  BY <1>1 DEF AssemblyOf
<1>3. \A f \in Stored(fa) : f.msg = m
  BY <1>2 DEF Stored
<1> QED
  BY <1>2, <1>3

LEMMA NoStuckInductive ==
  ASSUME OneChannel
  PROVE  Spec => []NoStuckAssembly
<1>1. Init => NoStuckAssembly
  BY DEF Init, NoStuckAssembly
<1>2. FragInv /\ NoStuckAssembly /\ [Next]_vars => NoStuckAssembly'
  BY NoStuckStep
<1> QED
  BY <1>1, <1>2, FragInductive, PTL DEF Spec

\* fragment_assemblies_ in every state: what process_payload keeps of a message is
\* of that message alone, in its places, and never all of it unless it has more
\* fragments than the mask has bits.
THEOREM AssembliesInvHolds ==
  ASSUME OneChannel
  PROVE  Spec => []AssembliesInv
<1>1. FragInv /\ NoStuckAssembly => AssembliesInv
  BY OneMessageEach DEF FragInv, AssembliesInv
<1> QED
  BY <1>1, FragInductive, NoStuckInductive, PTL

-----------------------------------------------------------------------------
(* Nothing that arrived is lost.                                           *)

\* The channels that let every packet through.
Unsequenced == Channels \subseteq {"Unreliable", "ReliableUnordered"}

\* The fragment lies in an assembly of its sequence number.
InAssembly(f) ==
  \E fa \in fragment_assemblies :
    fa.base_sequence = sequence(f.msg.idx) /\ fa.fragments[f.index] = {f}

\* Where a fragment that arrived can be.
Placed(f) == f.msg \in expired \/ Delivered(f.msg) \/ InAssembly(f)

Held ==
  \A f \in arrived :
    /\ f.msg \in SentMessages /\ f.index \in 1 .. NumFragments(f.msg)
    /\ f = [msg |-> f.msg, index |-> f.index]
    /\ Placed(f)

LEMMA DeliveredStays ==
  ASSUME FragInv, [Next]_vars, NEW m \in SentMessages, Delivered(m),
         \/ UNCHANGED receive_queue
         \/ \E s \in Seq(Fragment) : receive_queue' = Append(receive_queue, s)
  PROVE  Delivered(m)'
<1>1. PICK k \in DOMAIN receive_queue : receive_queue[k] = FragmentsOf(m)
  BY DEF Delivered
<1>2. FragmentsOf(m)' = FragmentsOf(m)
  BY MessageStays
<1>3. CASE UNCHANGED receive_queue
  BY <1>1, <1>2, <1>3 DEF Delivered
<1>4. ASSUME NEW s \in Seq(Fragment), receive_queue' = Append(receive_queue, s)
      PROVE  Delivered(m)'
  <2> DEFINE S == Seq(Fragment)
             q == receive_queue
  <2>1. q \in Seq(S) /\ s \in S /\ k \in 1 .. Len(q)
    BY <1>1 DEF FragInv, TypeOK
  <2> HIDE DEF S, q
  <2>2. /\ Append(q, s)[k] = q[k] /\ Len(Append(q, s)) = Len(q) + 1
        /\ Append(q, s) \in Seq(S) /\ Len(q) \in Nat
    BY <2>1
  <2>3. k \in DOMAIN Append(q, s)
    BY <2>1, <2>2
  <2> QED
    BY <1>1, <1>2, <1>4, <2>2, <2>3 DEF Delivered, q
<1> QED
  BY <1>3, <1>4

\* The message just pushed.
LEMMA PushedIsDelivered ==
  ASSUME FragInv, [Next]_vars, NEW m \in SentMessages,
         receive_queue' = Append(receive_queue, FragmentsOf(m))
  PROVE  Delivered(m)'
<1> DEFINE S == Seq(Fragment)
           q == receive_queue
           s == FragmentsOf(m)
<1>1. q \in Seq(S) /\ s \in S
  BY FragmentsType DEF FragInv, TypeOK
<1> HIDE DEF S, q, s
<1>2. /\ Append(q, s)[Len(q) + 1] = s /\ Len(Append(q, s)) = Len(q) + 1
      /\ Append(q, s) \in Seq(S) /\ Len(q) \in Nat
  BY <1>1
<1>3. Len(q) + 1 \in DOMAIN Append(q, s)
  BY <1>2
<1> QED
  BY <1>2, <1>3, MessageStays DEF Delivered, q, s

\* The facts of Held that only depend on the message.
LEMMA ArrivedStays ==
  ASSUME FragInv, [Next]_vars, NEW f, f.msg \in SentMessages,
         f.index \in 1 .. NumFragments(f.msg)
  PROVE  f.msg \in SentMessages' /\ f.index \in 1 .. NumFragments(f.msg)'
BY SentStays

LEMMA HeldProcess ==
  ASSUME FragInv, OneChannel, Unsequenced, Held, NEW p \in net, process_packet(p)
  PROVE  Held'
<1>0. [Next]_vars
  BY DEF Next
<1>1. PICK m \in SentMessages, fa \in Assembly, new \in Assembly :
        ProcessEffect(p, m, fa, new)
  BY ProcessStep
<1>2. p \in Packet /\ TypeOK /\ CountsMatch /\ PacketOf(p, m) /\ p.payload.msg = m
  BY <1>1 DEF FragInv, TypeOK, ProcessEffect
<1>3. arrived' = arrived \cup {p.payload} /\ expired' = expired
  BY DEF process_packet
<1>4. /\ p.payload = [msg |-> m, index |-> p.frag_index] /\ p.payload.index = p.frag_index
      /\ p.frag_index \in 1 .. NumFragments(m) /\ p.seq = sequence(m.idx)
      /\ fa.frag_count = NumFragments(m) /\ new.frag_count = NumFragments(m)
      /\ fa.base_sequence = p.seq /\ new.base_sequence = p.seq
  BY <1>1, <1>2, PacketFacts DEF ProcessEffect, AssemblyOf
<1>5. accepts(m.ch, receiver[m.ch], p.seq)
  BY <1>2, SentMessage DEF accepts, Unsequenced
<1>6. fa.fragments[p.frag_index] = {} \/ fa.fragments[p.frag_index] = {p.payload}
  BY <1>1, <1>4 DEF ProcessEffect, AssemblyOf
<1>7. \/ /\ UNCHANGED <<fragment_assemblies, receive_queue>>
         /\ fa \in fragment_assemblies /\ fa.fragments[p.frag_index] = {p.payload}
      \/ /\ receive_queue' = Append(receive_queue, FragmentsOf(m))
         /\ fragment_assemblies' = {x \in fragment_assemblies : ~ SameMessage(p, x)}
      \/ /\ UNCHANGED receive_queue
         /\ fragment_assemblies' =
              {x \in fragment_assemblies : ~ SameMessage(p, x)} \cup {new}
  BY <1>1, <1>2, <1>4, <1>5, <1>6 DEF ProcessEffect
<1>8. /\ FragmentsOf(m) \in Seq(Fragment)
      /\ new.fragments[p.frag_index] = {p.payload}
      /\ \A i \in 1 .. NumFragments(m) :
           i # p.frag_index => new.fragments[i] = fa.fragments[i]
      /\ \A x \in fragment_assemblies : SameMessage(p, x) => x = fa
  BY <1>1, <1>2, <1>4, FragmentsType DEF ProcessEffect
<1>9. Placed(p.payload)'
  <2>1. CASE \E x \in fragment_assemblies' :
               x.base_sequence = p.seq /\ x.fragments[p.frag_index] = {p.payload}
    BY <1>2, <1>4, <2>1 DEF Placed, InAssembly
  <2>2. CASE receive_queue' = Append(receive_queue, FragmentsOf(m))
    BY <1>0, <1>2, <2>2, PushedIsDelivered DEF Placed
  <2> QED
    BY <1>4, <1>7, <1>8, <2>1, <2>2
<1>10. ASSUME NEW f \in arrived
       PROVE  Placed(f)'
  <2>1. /\ f.msg \in SentMessages /\ f.index \in 1 .. NumFragments(f.msg)
        /\ f = [msg |-> f.msg, index |-> f.index] /\ Placed(f)
    BY <1>10 DEF Held
  <2>2. CASE f.msg \in expired
    BY <1>3, <2>2 DEF Placed
  <2>3. CASE Delivered(f.msg)
    <3>1. Delivered(f.msg)'
      BY <1>0, <1>7, <1>8, <2>1, <2>3, DeliveredStays
    <3> QED
      BY <3>1 DEF Placed
  <2>4. CASE InAssembly(f)
    <3>1. PICK x \in fragment_assemblies :
            x.base_sequence = sequence(f.msg.idx) /\ x.fragments[f.index] = {f}
      BY <2>4 DEF InAssembly
    <3>2. CASE x \in fragment_assemblies'
      BY <3>1, <3>2 DEF Placed, InAssembly
    <3>3. CASE SameMessage(p, x)
      <4>1. x = fa /\ sequence(f.msg.idx) = sequence(m.idx)
        BY <1>4, <1>8, <3>1, <3>3 DEF SameMessage
      <4>2. f.msg = m
        BY <1>2, <2>1, <4>1, SameSequence
      <4>3. CASE receive_queue' = Append(receive_queue, FragmentsOf(m))
        BY <1>0, <4>2, <4>3, PushedIsDelivered DEF Placed
      <4>4. CASE new \in fragment_assemblies'
        <5>1. new.fragments[f.index] = {f}
          BY <1>4, <1>8, <2>1, <3>1, <4>1, <4>2
        <5> QED
          BY <1>4, <3>1, <4>1, <4>4, <5>1 DEF Placed, InAssembly
      <4> QED
        BY <1>7, <3>2, <4>3, <4>4
    <3> QED
      BY <1>7, <3>2, <3>3
  <2> QED
    BY <2>1, <2>2, <2>3, <2>4 DEF Placed
<1>11. ASSUME NEW f \in arrived'
       PROVE  /\ f.msg \in SentMessages' /\ f.index \in 1 .. NumFragments(f.msg)'
              /\ f = [msg |-> f.msg, index |-> f.index] /\ Placed(f)'
  <2>1. CASE f \in arrived
    BY <1>0, <1>10, <2>1, ArrivedStays DEF Held
  <2>2. CASE f = p.payload
    <3>1. f.msg = m /\ f.index = p.frag_index /\ f = [msg |-> m, index |-> p.frag_index]
      BY <1>2, <1>4, <2>2
    <3>2. f.msg \in SentMessages' /\ f.index \in 1 .. NumFragments(f.msg)'
      BY <1>0, <1>4, <3>1, ArrivedStays
    <3> QED
      BY <1>9, <2>2, <3>1, <3>2
  <2> QED
    BY <1>3, <1>11, <2>1, <2>2
<1> QED
  BY <1>11 DEF Held

\* A step after which every fragment is where it was, or given up with its
\* assembly, keeps Held.
LEMMA HeldOther ==
  ASSUME FragInv, OneChannel, Held, [Next]_vars,
         UNCHANGED <<receive_queue, arrived>>,
         \/ UNCHANGED <<fragment_assemblies, expired>>
         \/ \E fa \in fragment_assemblies : cleanup_fragments(fa)
  PROVE  Held'
<1> SUFFICES ASSUME NEW f \in arrived
             PROVE  /\ f.msg \in SentMessages' /\ f.index \in 1 .. NumFragments(f.msg)'
                    /\ f = [msg |-> f.msg, index |-> f.index] /\ Placed(f)'
  BY DEF Held
<1>1. /\ f.msg \in SentMessages /\ f.index \in 1 .. NumFragments(f.msg)
      /\ f = [msg |-> f.msg, index |-> f.index] /\ Placed(f)
  BY DEF Held
<1>2. Delivered(f.msg) => Delivered(f.msg)'
  BY <1>1, DeliveredStays
<1>3. Placed(f)'
  <2>1. CASE UNCHANGED <<fragment_assemblies, expired>>
    BY <1>1, <1>2, <2>1 DEF Placed, InAssembly
  <2>2. ASSUME NEW fa \in fragment_assemblies, cleanup_fragments(fa)
        PROVE  Placed(f)'
    <3>1. /\ fragment_assemblies' = fragment_assemblies \ {fa}
          /\ expired' = expired \cup {g.msg : g \in Stored(fa)}
      BY <2>2 DEF cleanup_fragments
    <3>2. CASE fa.base_sequence = sequence(f.msg.idx) /\ fa.fragments[f.index] = {f}
      <4>1. PICK k \in SentMessages : AssemblyOf(fa, k)
        BY DEF FragInv, AssembliesKnown
      <4>2. k = f.msg
        BY <1>1, <3>2, <4>1, SameSequence DEF AssemblyOf, FragInv
      <4>3. f.index \in 1 .. fa.frag_count
        BY <1>1, <4>1, <4>2 DEF AssemblyOf
      <4>4. f \in Stored(fa)
        BY <3>2, <4>3 DEF Stored
      <4> QED
        BY <3>1, <4>4 DEF Placed
    <3>3. CASE ~ (fa.base_sequence = sequence(f.msg.idx) /\ fa.fragments[f.index] = {f})
      BY <1>1, <1>2, <3>1, <3>3 DEF Placed, InAssembly
    <3> QED
      BY <3>2, <3>3
  <2> QED
    BY <2>1, <2>2
<1> QED
  BY <1>1, <1>3, ArrivedStays

LEMMA HeldInductive ==
  ASSUME OneChannel, Unsequenced
  PROVE  Spec => []Held
<1>1. Init => Held
  BY DEF Init, Held
<1>2. FragInv /\ Held /\ [Next]_vars => Held'
  <2> SUFFICES ASSUME FragInv, Held, [Next]_vars
               PROVE  Held'
    OBVIOUS
  <2>1. CASE \E p \in net : process_packet(p)
    BY <2>1, HeldProcess
  <2>2. CASE \E fa \in fragment_assemblies : cleanup_fragments(fa)
    <3>1. UNCHANGED <<receive_queue, arrived>>
      BY <2>2 DEF cleanup_fragments
    <3> QED
      BY <2>2, <3>1, HeldOther
  <2>3. CASE /\ ~ \E p \in net : process_packet(p)
             /\ ~ \E fa \in fragment_assemblies : cleanup_fragments(fa)
    <3>1. UNCHANGED <<fragment_assemblies, receive_queue, arrived, expired>>
      BY <2>3, OthersKeepAssemblies
    <3> QED
      BY <3>1, HeldOther
  <2> QED
    BY <2>1, <2>2, <2>3
<1> QED
  BY <1>1, <1>2, FragInductive, PTL DEF Spec

\* A message of no more fragments than the mask has bits, all of which have arrived
\* and none of which was given up for being late, has been pushed; whatever larger
\* messages are sent beside it, on a channel that drops no packet for its number.
THEOREM ReassembledWhenArrivedHolds ==
  ASSUME OneChannel, Unsequenced
  PROVE  Spec => []ReassembledWhenArrived
<1>1. FragInv /\ NoStuckAssembly /\ Held => ReassembledWhenArrived
  <2> SUFFICES ASSUME FragInv, NoStuckAssembly, Held, NEW m \in SentMessages,
                      Len(FragmentsOf(m)) <= MaskBits,
                      \A i \in DOMAIN FragmentsOf(m) : FragmentsOf(m)[i] \in arrived,
                      m \notin expired, ~ Delivered(m)
               PROVE  FALSE
    BY DEF ReassembledWhenArrived
  <2>1. /\ FragmentsOf(m) \in Seq(Fragment) /\ Len(FragmentsOf(m)) = NumFragments(m)
        /\ \A i \in 1 .. NumFragments(m) : FragmentsOf(m)[i] = [msg |-> m, index |-> i]
        /\ NumFragments(m) \in Nat \ {0, 1}
    BY FragmentsType, SentMessage DEF FragInv
  <2>2. DOMAIN FragmentsOf(m) = 1 .. NumFragments(m)
    BY <2>1
  <2>3. ASSUME NEW i \in 1 .. NumFragments(m)
        PROVE  \E fa \in fragment_assemblies :
                 /\ fa.base_sequence = sequence(m.idx)
                 /\ fa.fragments[i] = {[msg |-> m, index |-> i]}
    <3> DEFINE f == [msg |-> m, index |-> i]
    <3>1. f \in arrived
      BY <2>1, <2>2, <2>3
    <3>2. f.msg = m /\ f.index = i
      OBVIOUS
    <3> HIDE DEF f
    <3>3. InAssembly(f)
      BY <3>1, <3>2 DEF Held, Placed
    <3>4. \E fa \in fragment_assemblies :
            fa.base_sequence = sequence(m.idx) /\ fa.fragments[i] = {f}
      BY <3>2, <3>3 DEF InAssembly
    <3> QED
      BY <3>4 DEF f
  <2>4. PICK fa \in fragment_assemblies : fa.base_sequence = sequence(m.idx)
    BY <2>1, <2>3
  <2>5. \A i \in 1 .. NumFragments(m) : fa.fragments[i] # {}
    BY <2>3, <2>4 DEF FragInv, AssembliesApart
  <2>6. PICK k \in SentMessages : AssemblyOf(fa, k)
    BY DEF FragInv, AssembliesKnown
  <2>7. k = m
    BY <2>4, <2>6, SameSequence DEF AssemblyOf, FragInv
  <2>8. fa.frag_count = NumFragments(m)
    BY <2>6, <2>7 DEF AssemblyOf
  <2>9. AllArrived(fa) /\ fa.frag_count <= MaskBits
    BY <2>1, <2>5, <2>8 DEF AllArrived
  <2> QED
    BY <2>1, <2>8, <2>9, MaskBitsAssumption DEF NoStuckAssembly
<1> QED
  BY <1>1, FragInductive, NoStuckInductive, HeldInductive, PTL
=============================================================================
