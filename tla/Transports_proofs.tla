-------------------------- MODULE Transports_proofs -------------------------
(***************************************************************************)
(* Proofs about the transports and the discovery of servers, for every     *)
(* number of packets, transports and settings: no sealed packet is handed  *)
(* up twice, the hub's tables and the sockets are as their users believe,  *)
(* and the loopback, simulated and WebSocket transports keep the order and *)
(* lose nothing but what they drop on purpose.  At the end the parts are   *)
(* put together for the specification that the run checks.                 *)
(***************************************************************************)
EXTENDS MCTransports, FiniteSetTheorems, SequenceTheorems, NaturalsInduction,
        WellFoundedInduction, TLAPS

-----------------------------------------------------------------------------
(* EncryptedTransport: the replay window.                                  *)

\* What is handed up.
OpenedPacket == [session : Nat, counter : Nat]

\* Bringing the window up to a counter that is not behind it keeps the bitmap
\* inside its width: what a pop does to CounterState is well typed.
LEMMA WindowType ==
  ASSUME EncTypeOK, NEW c \in Nat, ~ too_old(c)
  PROVE  /\ new_highest(c) \in Nat
         /\ shifted_bitmap(c) \in SUBSET (0 .. Window - 1)
         /\ new_highest(c) - c \in 0 .. Window - 1
BY WindowAssumption DEF EncTypeOK, too_old, new_highest, shifted_bitmap

\* EncTypeOK holds in every state.
THEOREM TypeCorrect == EncryptedSpec => []EncTypeOK
<1>1. EncryptedInit => EncTypeOK
  <2>1. /\ << >> \in Seq(Nat) /\ << >> \in Seq(Sealed)
        /\ << >> \in Seq([session : Nat, counter : Nat])
    OBVIOUS
  <2>2. EncryptedInit => /\ session \in Nat /\ outbound \in Nat /\ highest_inbound \in Nat
                /\ net \in SUBSET Nat /\ popped \in SUBSET Nat
                /\ seen_bitmap \in SUBSET (0 .. Window - 1)
    BY DEF EncryptedInit
  <2>3. EncryptedInit => /\ ordered \in Seq(Nat) /\ inner_queue \in Seq(Sealed)
                /\ opened \in Seq([session : Nat, counter : Nat])
    BY <2>1 DEF EncryptedInit
  <2>4. EncryptedInit => polling \in BOOLEAN
    BY Zenon DEF EncryptedInit
  <2> QED BY <2>2, <2>3, <2>4, Zenon DEF EncTypeOK
<1>2. EncTypeOK /\ [EncryptedNext]_enc_vars => EncTypeOK'
  <2> SUFFICES ASSUME EncTypeOK, [EncryptedNext]_enc_vars PROVE EncTypeOK'
    OBVIOUS
  <2>1. ASSUME NEW rel \in Reliability, NEW taken \in BOOLEAN, send_to(rel, taken)
        PROVE  EncTypeOK'
    BY <2>1 DEF send_to, EncTypeOK, window
  <2>2. CASE deliver_ordered
    <3>1. Head(ordered) \in Nat /\ ordered' \in Seq(Nat)
      BY <2>2, HeadTailProperties DEF deliver_ordered, EncTypeOK
    <3>2. [counter |-> Head(ordered), rel |-> "ReliableOrdered", intact |-> TRUE]
            \in Sealed
      BY <3>1 DEF Sealed, Reliability
    <3>3. inner_queue' \in Seq(Sealed)
      BY <2>2, <3>2, AppendProperties DEF deliver_ordered, EncTypeOK
    <3> QED BY <2>2, <3>1, <3>3 DEF deliver_ordered, EncTypeOK, window
  <2>3. ASSUME NEW c \in net, NEW intact \in BOOLEAN, deliver_unreliable(c, intact)
        PROVE  EncTypeOK'
    <3>1. [counter |-> c, rel |-> "Unreliable", intact |-> intact] \in Sealed
      BY DEF EncTypeOK, Sealed, Reliability
    <3>2. inner_queue' \in Seq(Sealed)
      BY <2>3, <3>1, AppendProperties DEF deliver_unreliable, EncTypeOK
    <3> QED BY <2>3, <3>2 DEF deliver_unreliable, EncTypeOK, window
  <2>4. CASE poll_transport_receives
    BY <2>4 DEF poll_transport_receives, EncTypeOK, window, inner
  <2>5. CASE pop_receive_empty
    BY <2>5 DEF pop_receive_empty, EncTypeOK, window, inner
  <2>6. CASE pop_receive_too_old
    <3>1. Head(inner_queue) \in Sealed /\ inner_queue' \in Seq(Sealed)
      BY <2>6, HeadTailProperties DEF pop_receive_too_old, EncTypeOK
    <3>2. Head(inner_queue).counter \in Nat
      BY <3>1 DEF Sealed
    <3> QED BY <2>6, <3>1, <3>2 DEF pop_receive_too_old, EncTypeOK, window
  <2>7. CASE pop_receive_in_window
    <3> DEFINE p == Head(inner_queue)
               c == p.counter
               accepted == ~ duplicate(c) /\ p.intact
    <3>1. p \in Sealed /\ inner_queue' \in Seq(Sealed)
      BY <2>7, HeadTailProperties DEF pop_receive_in_window, EncTypeOK
    <3>2. c \in Nat /\ p.intact \in BOOLEAN
      BY <3>1 DEF Sealed
    <3>3. ~ too_old(c)
      BY <2>7 DEF pop_receive_in_window
    <3>4. highest_inbound' \in Nat /\ seen_bitmap' \in SUBSET (0 .. Window - 1)
      <4>1. /\ new_highest(c) \in Nat
            /\ shifted_bitmap(c) \in SUBSET (0 .. Window - 1)
            /\ new_highest(c) - c \in 0 .. Window - 1
        BY <3>2, <3>3, WindowType
      <4>2. highest_inbound' = new_highest(c)
            /\ seen_bitmap' = shifted_bitmap(c) \cup {new_highest(c) - c}
        BY <2>7 DEF pop_receive_in_window
      <4> QED BY <4>1, <4>2
    <3>5. opened' \in Seq(OpenedPacket)
      <4>1. [session |-> session, counter |-> c] \in OpenedPacket
        BY <3>2 DEF EncTypeOK, OpenedPacket
      <4>2. opened \in Seq(OpenedPacket)
        BY DEF EncTypeOK, OpenedPacket
      <4>3. \/ opened' = opened
            \/ opened' = Append(opened, [session |-> session, counter |-> c])
        BY <2>7 DEF pop_receive_in_window
      <4> QED BY <4>1, <4>2, <4>3, AppendProperties
    <3>6. polling' \in BOOLEAN
      BY <2>7 DEF pop_receive_in_window
    <3>7. popped' \in SUBSET Nat
      BY <2>7, <3>2 DEF pop_receive_in_window, EncTypeOK
    <3> QED
      BY <2>7, <3>1, <3>4, <3>5, <3>6, <3>7
      DEF pop_receive_in_window, EncTypeOK, OpenedPacket
  <2>8. CASE reconnect
    BY <2>8 DEF reconnect, EncTypeOK, window
  <2>9. CASE UNCHANGED enc_vars
    BY <2>9 DEF enc_vars, EncTypeOK, window, inner
  <2> QED
    BY <2>1, <2>2, <2>3, <2>4, <2>5, <2>6, <2>7, <2>8, <2>9 DEF EncryptedNext
<1> QED BY <1>1, <1>2, PTL DEF EncryptedSpec

-----------------------------------------------------------------------------
\* One pop inside the window: the packets of this session that were popped
\* before are still covered by the bitmap, the new one is covered too, and a
\* packet that was popped before and is still inside the window is found to
\* be a duplicate.
LEMMA WindowStep ==
  ASSUME EncTypeOK, WindowInv, NEW c \in Nat, ~ too_old(c),
         NEW d \in popped \cup {c}
  PROVE  /\ d <= new_highest(c)
         /\ new_highest(c) - d < Window =>
              new_highest(c) - d \in shifted_bitmap(c) \cup {new_highest(c) - c}
         /\ c \in popped => duplicate(c)
<1>1. d \in Nat
  BY DEF EncTypeOK
<1>2. highest_inbound \in Nat /\ Window \in Nat \ {0}
  BY WindowAssumption DEF EncTypeOK
<1>3. CASE d = c
  <2>1. d <= new_highest(c)
    BY <1>2, <1>3 DEF new_highest
  <2>2. c \in popped => duplicate(c)
    <3> SUFFICES ASSUME c \in popped PROVE duplicate(c)
      OBVIOUS
    <3>1. c <= highest_inbound
      BY DEF WindowInv
    <3>2. highest_inbound - c < Window
      BY <1>2 DEF too_old
    <3>3. highest_inbound - c \in seen_bitmap
      BY <3>2 DEF WindowInv
    <3> QED BY <1>2, <3>1, <3>3 DEF duplicate, new_highest, shifted_bitmap
  <2> QED BY <1>3, <2>1, <2>2
<1>4. CASE d # c
  <2>1. d \in popped
    BY <1>4
  <2>2. d <= highest_inbound
    BY <2>1 DEF WindowInv
  <2>3. highest_inbound - d < Window => highest_inbound - d \in seen_bitmap
    BY <2>1 DEF WindowInv
  <2>4. d <= new_highest(c)
    BY <1>1, <1>2, <2>2 DEF new_highest
  <2>5. new_highest(c) - d < Window => new_highest(c) - d \in shifted_bitmap(c)
    <3> SUFFICES ASSUME new_highest(c) - d < Window
                 PROVE  new_highest(c) - d \in shifted_bitmap(c)
      OBVIOUS
    <3>1. CASE c > highest_inbound
      <4>1. new_highest(c) = c
        BY <3>1 DEF new_highest
      <4>2. highest_inbound - d < Window
        BY <1>1, <1>2, <3>1, <4>1
      <4>3. (c - d) - (c - highest_inbound) = highest_inbound - d
        BY <1>1, <1>2
      <4>4. c - d \in 0 .. Window - 1
        BY <1>1, <1>2, <2>4, <4>1
      <4> QED BY <2>3, <3>1, <4>1, <4>2, <4>3, <4>4 DEF shifted_bitmap
    <3>2. CASE ~ (c > highest_inbound)
      <4>1. new_highest(c) = highest_inbound /\ shifted_bitmap(c) = seen_bitmap
        BY <3>2 DEF new_highest, shifted_bitmap
      <4> QED BY <2>3, <4>1
    <3> QED BY <3>1, <3>2
  <2>6. c \in popped => duplicate(c)
    <3> SUFFICES ASSUME c \in popped PROVE duplicate(c)
      OBVIOUS
    <3>1. c <= highest_inbound
      BY DEF WindowInv
    <3>2. highest_inbound - c < Window
      BY <1>2 DEF too_old
    <3>3. highest_inbound - c \in seen_bitmap
      BY <3>2 DEF WindowInv
    <3> QED BY <1>2, <3>1, <3>3 DEF duplicate, new_highest, shifted_bitmap
  <2> QED BY <2>4, <2>5, <2>6
<1> QED BY <1>3, <1>4

\* The invariant that ties the history of pops to the window holds in every
\* state: bits are neither lost nor left behind when highest_inbound moves.
THEOREM ReplayInvariant == EncryptedSpec => []ReplayInv
<1>1. EncryptedInit => ReplayInv
  BY DEF EncryptedInit, ReplayInv, WindowInv, OpenedInv, NoReplay
<1>2. EncTypeOK /\ ReplayInv /\ [EncryptedNext]_enc_vars => ReplayInv'
  <2> SUFFICES ASSUME EncTypeOK, ReplayInv, [EncryptedNext]_enc_vars PROVE ReplayInv'
    OBVIOUS
  <2>1. CASE UNCHANGED <<session, window, popped, opened>>
    BY <2>1 DEF window, ReplayInv, WindowInv, OpenedInv, NoReplay
  <2>2. CASE pop_receive_too_old
    <3> DEFINE c == Head(inner_queue).counter
    <3>1. c \in Nat
      <4>1. Head(inner_queue) \in Sealed
        BY <2>2, HeadTailProperties DEF pop_receive_too_old, EncTypeOK
      <4> QED BY <4>1 DEF Sealed
    <3>2. /\ c + Window <= highest_inbound
          /\ popped' = popped \cup {c}
          /\ UNCHANGED <<session, highest_inbound, seen_bitmap, opened>>
      BY <2>2 DEF pop_receive_too_old, too_old, window
    <3>3. c <= highest_inbound /\ ~ (highest_inbound - c < Window)
      BY <3>1, <3>2, WindowAssumption DEF EncTypeOK
    <3>4. WindowInv'
      BY <3>2, <3>3 DEF ReplayInv, WindowInv
    <3>5. OpenedInv' /\ NoReplay'
      BY <3>2 DEF ReplayInv, OpenedInv, NoReplay
    <3> QED BY <3>4, <3>5 DEF ReplayInv
  <2>3. CASE pop_receive_in_window
    <3> DEFINE p == Head(inner_queue)
               c == p.counter
               n == [session |-> session, counter |-> c]
    <3>1. c \in Nat
      <4>1. p \in Sealed
        BY <2>3, HeadTailProperties DEF pop_receive_in_window, EncTypeOK
      <4> QED BY <4>1 DEF Sealed
    <3>2. /\ ~ too_old(c)
          /\ highest_inbound' = new_highest(c)
          /\ seen_bitmap' = shifted_bitmap(c) \cup {new_highest(c) - c}
          /\ popped' = popped \cup {c}
          /\ session' = session
      BY <2>3 DEF pop_receive_in_window
    <3>3. \/ opened' = opened
          \/ opened' = Append(opened, n) /\ ~ duplicate(c)
      BY <2>3 DEF pop_receive_in_window
    <3>4. WindowInv
      BY DEF ReplayInv
    <3> HIDE DEF c
    <3>5. WindowInv'
      <4> SUFFICES ASSUME NEW d \in popped'
                   PROVE  /\ d <= highest_inbound'
                          /\ highest_inbound' - d < Window =>
                               highest_inbound' - d \in seen_bitmap'
        BY DEF WindowInv
      <4>1. d \in popped \cup {c}
        BY <3>2
      <4> QED BY <3>1, <3>2, <3>4, <4>1, WindowStep
    <3>6. c \in popped => duplicate(c)
      BY <3>1, <3>2, <3>4, WindowStep
    <3>7. CASE opened' = opened
      BY <3>2, <3>5, <3>7 DEF ReplayInv, OpenedInv, NoReplay
    <3>8. CASE opened' = Append(opened, n) /\ ~ duplicate(c)
      <4>1. c \notin popped
        BY <3>6, <3>8
      <4>2. opened \in Seq(OpenedPacket) /\ n \in OpenedPacket
        BY <3>1 DEF EncTypeOK, OpenedPacket
      <4>3. /\ Len(opened) \in Nat
            /\ DOMAIN opened = 1 .. Len(opened)
            /\ DOMAIN opened' = 1 .. Len(opened) + 1
            /\ \A i \in 1 .. Len(opened) : opened'[i] = opened[i]
            /\ opened'[Len(opened) + 1] = n
        <5>1. Len(opened') = Len(opened) + 1 /\ opened' \in Seq(OpenedPacket)
          BY <3>8, <4>2, AppendProperties
        <5>2. /\ \A i \in 1 .. Len(opened) : opened'[i] = opened[i]
              /\ opened'[Len(opened) + 1] = n
          BY <3>8, <4>2, AppendProperties
        <5> QED BY <4>2, <5>1, <5>2, LenProperties
      <4>4. \A i \in 1 .. Len(opened) : opened[i] # n
        BY <4>1, <4>3 DEF ReplayInv, OpenedInv
      <4>5. OpenedInv'
        <5> SUFFICES ASSUME NEW i \in DOMAIN opened'
                     PROVE  /\ opened'[i].session <= session'
                            /\ opened'[i].session = session' =>
                                 opened'[i].counter \in popped'
          BY DEF OpenedInv
        <5>1. CASE i = Len(opened) + 1
          <6>1. session \in Nat
            BY DEF EncTypeOK
          <6> QED BY <3>2, <4>3, <5>1, <6>1
        <5>2. CASE i \in 1 .. Len(opened)
          BY <3>2, <4>3, <5>2 DEF ReplayInv, OpenedInv
        <5> QED BY <4>3, <5>1, <5>2
      <4>6. NoReplay'
        <5> SUFFICES ASSUME NEW i \in DOMAIN opened', NEW j \in DOMAIN opened',
                            opened'[i] = opened'[j]
                     PROVE  i = j
          BY DEF NoReplay
        <5>1. CASE i \in 1 .. Len(opened) /\ j \in 1 .. Len(opened)
          BY <4>3, <5>1 DEF ReplayInv, NoReplay
        <5>2. CASE i = Len(opened) + 1 /\ j = Len(opened) + 1
          BY <5>2
        <5>3. CASE i = Len(opened) + 1 /\ j \in 1 .. Len(opened)
          BY <4>3, <4>4, <5>3
        <5>4. CASE j = Len(opened) + 1 /\ i \in 1 .. Len(opened)
          BY <4>3, <4>4, <5>4
        <5> QED BY <4>3, <5>1, <5>2, <5>3, <5>4
      <4> QED BY <3>5, <4>5, <4>6 DEF ReplayInv
    <3> QED BY <3>3, <3>7, <3>8
  <2>4. CASE reconnect
    <3>1. /\ popped' = {}
          /\ session' = session + 1
          /\ UNCHANGED <<highest_inbound, seen_bitmap, opened>>
      BY <2>4 DEF reconnect, window
    <3>2. WindowInv'
      BY <3>1 DEF WindowInv
    <3>3. OpenedInv'
      <4> SUFFICES ASSUME NEW i \in DOMAIN opened
                   PROVE  opened[i].session <= session + 1
                          /\ opened[i].session # session + 1
        BY <3>1 DEF OpenedInv
      <4>1. opened[i] \in OpenedPacket
        BY ElementOfSeq, LenProperties DEF EncTypeOK, OpenedPacket
      <4>2. opened[i].session \in Nat /\ session \in Nat
        BY <4>1 DEF OpenedPacket, EncTypeOK
      <4>3. opened[i].session <= session
        BY DEF ReplayInv, OpenedInv
      <4> QED BY <4>2, <4>3
    <3>4. NoReplay'
      BY <3>1 DEF ReplayInv, NoReplay
    <3> QED BY <3>2, <3>3, <3>4 DEF ReplayInv
  <2> QED
    BY <2>1, <2>2, <2>3, <2>4
    DEF EncryptedNext, enc_vars, send_to, deliver_ordered, deliver_unreliable,
        poll_transport_receives, pop_receive_empty
<1> QED BY <1>1, <1>2, TypeCorrect, PTL DEF EncryptedSpec

\* No sealed packet is handed up twice: what the 64 packet replay window of
\* pop_receive is for, at any window size.
THEOREM NoReplayHolds == EncryptedSpec => []NoReplay
<1>1. ReplayInv => NoReplay
  BY DEF ReplayInv
<1> QED BY <1>1, ReplayInvariant, PTL

-----------------------------------------------------------------------------
(* Nothing that did not arrive is marked.                                  *)

\* While the client has connected only once, every bit of the window stands for
\* a packet that was popped.
MarkInv ==
  /\ session >= 1
  /\ session = 1 => \A b \in seen_bitmap : highest_inbound - b \in popped

\* The marks of the window are what was popped.
LEMMA MarkInductive ==
  ASSUME EncTypeOK, MarkInv, [EncryptedNext]_enc_vars
  PROVE  MarkInv'
<1>1. CASE UNCHANGED <<session, window, popped>>
  BY <1>1 DEF window, MarkInv
<1>2. CASE pop_receive_too_old
  BY <1>2 DEF pop_receive_too_old, MarkInv, window
<1>3. CASE pop_receive_in_window
  <2> DEFINE c == Head(inner_queue).counter
  <2>1. c \in Nat
    <3>1. Head(inner_queue) \in Sealed
      BY <1>3, HeadTailProperties DEF pop_receive_in_window, EncTypeOK
    <3> QED BY <3>1 DEF Sealed
  <2>2. /\ highest_inbound' = new_highest(c)
        /\ seen_bitmap' = shifted_bitmap(c) \cup {new_highest(c) - c}
        /\ popped' = popped \cup {c}
        /\ session' = session
    BY <1>3 DEF pop_receive_in_window
  <2>3. highest_inbound \in Nat /\ Window \in Nat /\ seen_bitmap \subseteq 0 .. Window - 1
    BY WindowAssumption DEF EncTypeOK
  <2> HIDE DEF c
  <2>4. ASSUME session = 1, NEW b \in seen_bitmap'
        PROVE  highest_inbound' - b \in popped'
    <3>1. CASE b = new_highest(c) - c
      BY <2>1, <2>2, <2>3, <3>1 DEF new_highest
    <3>2. CASE b \in shifted_bitmap(c) /\ c > highest_inbound
      <4>1. b - (c - highest_inbound) \in seen_bitmap /\ b \in Int
        BY <3>2 DEF shifted_bitmap
      <4>2. highest_inbound - (b - (c - highest_inbound)) \in popped
        BY <2>4, <4>1 DEF MarkInv
      <4>3. highest_inbound - (b - (c - highest_inbound)) = c - b
        BY <2>1, <2>3, <4>1
      <4> QED BY <2>2, <3>2, <4>2, <4>3 DEF new_highest
    <3>3. CASE b \in shifted_bitmap(c) /\ ~ (c > highest_inbound)
      BY <2>2, <2>4, <3>3 DEF shifted_bitmap, new_highest, MarkInv
    <3> QED BY <2>2, <3>1, <3>2, <3>3
  <2> QED BY <2>2, <2>4 DEF MarkInv
<1>4. CASE reconnect
  BY <1>4 DEF reconnect, MarkInv, EncTypeOK
<1> QED
  BY <1>1, <1>2, <1>3, <1>4
  DEF EncryptedNext, enc_vars, send_to, deliver_ordered, deliver_unreliable,
      poll_transport_receives, pop_receive_empty

\* A packet that was not popped before and is inside the window is no duplicate.
LEMMA FreshIsNoDuplicate ==
  ASSUME EncTypeOK, MarkInv, session = 1, NEW c \in Nat, c \notin popped
  PROVE  ~ duplicate(c)
<1>1. highest_inbound \in Nat /\ Window \in Nat /\ seen_bitmap \subseteq 0 .. Window - 1
  BY WindowAssumption DEF EncTypeOK
<1>2. CASE c > highest_inbound
  <2>1. c - c = 0 /\ 0 - (c - highest_inbound) < 0
    BY <1>1, <1>2
  <2>2. 0 - (c - highest_inbound) \notin seen_bitmap
    BY <1>1, <2>1
  <2> QED BY <1>2, <2>1, <2>2 DEF duplicate, new_highest, shifted_bitmap
<1>3. CASE ~ (c > highest_inbound)
  <2> SUFFICES ASSUME highest_inbound - c \in seen_bitmap PROVE FALSE
    BY <1>3 DEF duplicate, new_highest, shifted_bitmap
  <2>1. highest_inbound - (highest_inbound - c) \in popped
    BY DEF MarkInv
  <2> QED BY <1>1, <2>1
<1> QED BY <1>2, <1>3

\* While the client has connected only once, pop_receive hands up every intact
\* packet that was not popped before and is not behind the window: moving the
\* window never marks a packet that did not arrive, at any window size.
THEOREM FreshAcceptedHolds == EncryptedSpec => FreshAccepted
<1>1. EncryptedInit => MarkInv
  BY DEF EncryptedInit, MarkInv
<1>2. EncTypeOK /\ MarkInv /\ [EncryptedNext]_enc_vars => MarkInv'
  BY MarkInductive
<1>3. EncTypeOK /\ MarkInv /\ [EncryptedNext]_enc_vars =>
        [LET p == Head(inner_queue) IN
         Pops /\ session = 1 /\ p.intact /\ p.counter \notin popped
           /\ p.counter + Window > highest_inbound => HandsUp]_enc_vars
  <2> DEFINE p == Head(inner_queue)
             c == p.counter
  <2> SUFFICES ASSUME EncTypeOK, MarkInv, EncryptedNext,
                      Pops, session = 1, p.intact, c \notin popped,
                      c + Window > highest_inbound
               PROVE  HandsUp
    OBVIOUS
  <2>1. /\ polling /\ inner_queue # << >> /\ inner_queue' = Tail(inner_queue)
        /\ inner_queue \in Seq(Sealed)
    BY DEF Pops, EncTypeOK
  <2>2. p \in Sealed /\ Len(Tail(inner_queue)) = Len(inner_queue) - 1
          /\ Len(inner_queue) \in Nat
    BY <2>1, HeadTailProperties
  <2>3. inner_queue' # inner_queue
    <3> SUFFICES ASSUME inner_queue = Tail(inner_queue) PROVE FALSE
      BY <2>1
    <3>1. Len(inner_queue) = Len(inner_queue) - 1
      BY <2>2
    <3> QED BY <2>2, <3>1
  <2>4. c \in Nat /\ highest_inbound \in Nat /\ Window \in Nat
    BY <2>2, WindowAssumption DEF Sealed, EncTypeOK
  <2>5. ~ too_old(c)
    BY <2>4 DEF too_old
  <2>6. pop_receive_in_window
    <3>1. \A rel, taken : ~ send_to(rel, taken)
      BY <2>3 DEF send_to
    <3>2. ~ deliver_ordered /\ (\A d, i : ~ deliver_unreliable(d, i))
            /\ ~ poll_transport_receives /\ ~ reconnect
      BY <2>1 DEF deliver_ordered, deliver_unreliable, poll_transport_receives, reconnect
    <3>3. ~ pop_receive_empty
      BY <2>1 DEF pop_receive_empty
    <3>4. ~ pop_receive_too_old
      BY <2>5 DEF pop_receive_too_old
    <3> QED BY <3>1, <3>2, <3>3, <3>4 DEF EncryptedNext
  <2>7. ~ duplicate(c)
    BY <2>4, FreshIsNoDuplicate
  <2>8. opened' = Append(opened, [session |-> session, counter |-> c])
    BY <2>6, <2>7 DEF pop_receive_in_window
  <2>9. opened \in Seq(OpenedPacket) /\ [session |-> session, counter |-> c] \in OpenedPacket
    BY <2>4 DEF EncTypeOK, OpenedPacket
  <2> QED BY <2>8, <2>9, AppendProperties DEF HandsUp
<1> QED BY <1>1, <1>2, <1>3, TypeCorrect, PTL DEF EncryptedSpec, FreshAccepted

-----------------------------------------------------------------------------
(* Sets of positions and what is kept of a queue.                          *)

\* A set of numbers that is not empty has a least member.
LEMMA LeastMember ==
  ASSUME NEW T, T \subseteq Nat, T # {}
  PROVE  \E x \in T : \A y \in T : x <= y
<1> DEFINE R == OpToRel(<, Nat)
<1>1. IsWellFoundedOn(R, Nat)
  BY NatLessThanWellFounded
<1>2. \E x \in T : \A y \in T : ~ (<<y, x>> \in R)
  <2> HIDE DEF R
  <2> QED BY <1>1, WFMin
<1>3. PICK x \in T : \A y \in T : ~ (<<y, x>> \in R)
  BY <1>2
<1>4. \A y \in T : ~ (y < x)
  BY <1>3 DEF OpToRel
<1>5. \A y \in T : x \in Nat /\ y \in Nat
  OBVIOUS
<1> HIDE DEF R
<1>6. \A y \in T : x <= y
  BY <1>4, <1>5
<1> QED
  BY <1>6

\* A set of positions is finite, and so is each part of it.
LEMMA PositionsFinite ==
  ASSUME NEW n \in Nat, NEW at, at \subseteq 1 .. n
  PROVE  /\ IsFiniteSet(at) /\ Cardinality(at) \in Nat
         /\ \A i : /\ IsFiniteSet({j \in at : j <= i})
                   /\ Cardinality({j \in at : j <= i}) \in Nat
<1>1. IsFiniteSet(1 .. n)
  BY FS_Interval
<1>2. ASSUME NEW T, T \subseteq 1 .. n
      PROVE  IsFiniteSet(T) /\ Cardinality(T) \in Nat
  BY <1>1, <1>2, FS_Subset, FS_CardinalityType
<1>3. ASSUME NEW i
      PROVE  /\ IsFiniteSet({j \in at : j <= i})
             /\ Cardinality({j \in at : j <= i}) \in Nat
  BY <1>2
<1> QED BY <1>2, <1>3

\* Nth is the position it names.
LEMMA NthMember ==
  ASSUME NEW n \in Nat, NEW at, at \subseteq 1 .. n, NEW k \in 1 .. Cardinality(at)
  PROVE  /\ Nth(at, k) \in at
         /\ Cardinality({j \in at : j <= Nth(at, k)}) = k
<1> DEFINE upto(i) == {j \in at : j <= i}
           T == {i \in 0 .. n : Cardinality(upto(i)) >= k}
<1>0. /\ Cardinality(at) \in Nat
      /\ \A i : IsFiniteSet(upto(i)) /\ Cardinality(upto(i)) \in Nat
  BY PositionsFinite
<1>a. \A i \in at : i \in Int /\ 1 <= i /\ i <= n
  OBVIOUS
<1>1. n \in T
  <2>1. upto(n) = at
    BY <1>a
  <2>2. Cardinality(upto(n)) >= k
    BY <2>1, <1>0
  <2> QED BY <2>2
<1>2. T \subseteq Nat
  OBVIOUS
<1>3. PICK m \in T : \A y \in T : m <= y
  <2> HIDE DEF T
  <2> QED BY <1>1, <1>2, LeastMember
<1>4. m \in 0 .. n /\ Cardinality(upto(m)) >= k
  BY <1>3
<1>5. m # 0
  <2>1. upto(0) = {}
    <3>1. \A j \in at : ~ (j <= 0)
      BY <1>a
    <3> QED BY <3>1, Zenon
  <2>2. Cardinality(upto(0)) = 0
    BY <2>1, FS_EmptySet
  <2> HIDE DEF upto
  <2> QED BY <2>2, <1>4
<1>6. ~ (Cardinality(upto(m - 1)) >= k)
  <2>1. m - 1 \in 0 .. n /\ ~ (m <= m - 1)
    BY <1>4, <1>5
  <2> HIDE DEF upto
  <2> QED BY <2>1, <1>3
<1>7. m \in at /\ Cardinality(upto(m)) = Cardinality(upto(m - 1)) + 1
  <2>1. CASE m \notin at
    <3>1. upto(m) = upto(m - 1)
      <4>1. \A j \in at : j <= m <=> j <= m - 1
        BY <2>1, <1>a, <1>4, <1>5
      <4> QED BY <4>1
    <3> HIDE DEF upto
    <3> QED BY <3>1, <1>4, <1>6
  <2>2. CASE m \in at
    <3>1. upto(m) = upto(m - 1) \cup {m} /\ m \notin upto(m - 1)
      <4>1. \A j \in at : j <= m <=> (j <= m - 1 \/ j = m)
        BY <2>2, <1>a, <1>4, <1>5
      <4>2. ~ (m <= m - 1)
        BY <1>4
      <4> QED BY <2>2, <4>1, <4>2
    <3> HIDE DEF upto
    <3>2. Cardinality(upto(m)) = Cardinality(upto(m - 1)) + 1
      BY <3>1, <1>0, FS_AddElement
    <3> QED BY <2>2, <3>2
  <2> QED BY <2>1, <2>2
<1>8. Cardinality(upto(m)) = k
  <2> HIDE DEF upto
  <2>1. Cardinality(upto(m)) \in Nat /\ Cardinality(upto(m - 1)) \in Nat
    BY <1>0
  <2> QED BY <2>1, <1>4, <1>6, <1>7
<1>9. \E i \in at : Cardinality({j \in at : j <= i}) = k
  BY <1>7, <1>8
<1> QED
  BY <1>9, Zenon DEF Nth

\* Two positions of a set that have as many before them are the same.
LEMMA SameRank ==
  ASSUME NEW n \in Nat, NEW at, at \subseteq 1 .. n, NEW i \in at, NEW m \in at,
         Cardinality({j \in at : j <= i}) >= Cardinality({j \in at : j <= m})
  PROVE  m <= i
<1>1. SUFFICES ASSUME ~ (m <= i) PROVE FALSE
  OBVIOUS
<1> DEFINE I == {j \in at : j <= i}
           M == {j \in at : j <= m}
<1>a. \A j \in at : j \in Int /\ 1 <= j /\ j <= n
  OBVIOUS
<1>2. I \subseteq M /\ m \in M /\ m \notin I
  <2>1. m <= m /\ \A j \in at : j <= i => j <= m
    BY <1>1, <1>a
  <2> QED BY <1>1, <2>1
<1>3. IsFiniteSet(I) /\ IsFiniteSet(M) /\ Cardinality(I) \in Nat /\ Cardinality(M) \in Nat
  BY PositionsFinite
<1>4. Cardinality(I) >= Cardinality(M)
  OBVIOUS
<1> HIDE DEF I, M
<1>5. Cardinality(I) <= Cardinality(M) /\ (Cardinality(M) = Cardinality(I) => M = I)
  BY <1>2, <1>3, FS_Subset
<1> QED BY <1>2, <1>3, <1>4, <1>5

\* The positions are taken in their order, each once, and none is left out.
LEMMA NthOrder ==
  ASSUME NEW n \in Nat, NEW at, at \subseteq 1 .. n
  PROVE  /\ \A j, k \in 1 .. Cardinality(at) : j < k => Nth(at, j) < Nth(at, k)
         /\ \A i \in at : \E k \in 1 .. Cardinality(at) : Nth(at, k) = i
<1>0. IsFiniteSet(at) /\ Cardinality(at) \in Nat
  BY PositionsFinite
<1>a. \A i \in at : i \in Nat
  OBVIOUS
<1>1. ASSUME NEW j \in 1 .. Cardinality(at), NEW k \in 1 .. Cardinality(at), j < k
      PROVE  Nth(at, j) < Nth(at, k)
  <2> DEFINE p == Nth(at, j)
             q == Nth(at, k)
  <2>1. p \in at /\ q \in at /\ Cardinality({i \in at : i <= p}) = j
        /\ Cardinality({i \in at : i <= q}) = k
    BY NthMember
  <2>2. p \in Nat /\ q \in Nat
    BY <2>1, <1>a
  <2> HIDE DEF p, q
  <2>3. p <= q
    <3>1. Cardinality({i \in at : i <= q}) >= Cardinality({i \in at : i <= p})
      BY <1>0, <1>1, <2>1
    <3> QED BY <2>1, <3>1, SameRank
  <2>4. p # q
    BY <1>0, <1>1, <2>1
  <2>5. p < q
    BY <2>2, <2>3, <2>4
  <2> QED BY <2>5 DEF p, q
<1>2. ASSUME NEW i \in at
      PROVE  \E k \in 1 .. Cardinality(at) : Nth(at, k) = i
  <2> DEFINE I == {j \in at : j <= i}
             k == Cardinality(I)
  <2>1. IsFiniteSet(I) /\ k \in Nat
    BY PositionsFinite
  <2>2. I \subseteq at /\ i \in I
    OBVIOUS
  <2>3. k \in 1 .. Cardinality(at)
    <3> HIDE DEF I
    <3>1. k <= Cardinality(at)
      BY <1>0, <2>2, FS_Subset
    <3>2. k # 0
      BY <2>1, <2>2, FS_EmptySet
    <3> QED BY <1>0, <2>1, <3>1, <3>2
  <2>4. Nth(at, k) \in at /\ Cardinality({j \in at : j <= Nth(at, k)}) = k
    <3> HIDE DEF k
    <3> QED BY <2>3, NthMember
  <2>5. Nth(at, k) <= i /\ i <= Nth(at, k)
    <3>1. PICK m : m = Nth(at, k)
      OBVIOUS
    <3>2. m \in at /\ Cardinality({j \in at : j <= m}) = k
      BY <2>4, <3>1
    <3>3. k \in Nat /\ k = Cardinality({j \in at : j <= i})
      BY <2>1
    <3> HIDE DEF k, I
    <3>4. /\ Cardinality({j \in at : j <= m}) >= Cardinality({j \in at : j <= i})
          /\ Cardinality({j \in at : j <= i}) >= Cardinality({j \in at : j <= m})
      BY <3>2, <3>3
    <3>5. m <= i /\ i <= m
      BY <3>2, <3>4, SameRank
    <3> QED BY <3>5, <3>1
  <2>6. Nth(at, k) \in Nat /\ i \in Nat
    <3> HIDE DEF k
    <3> QED BY <2>4, <1>a
  <2>7. Nth(at, k) = i
    <3> HIDE DEF k
    <3> QED BY <2>5, <2>6
  <2> QED BY <2>3, <2>7
<1> QED BY <1>1, <1>2

\* f lists c positions in their order.
Lists(f, c, at) ==
  /\ f \in [1 .. c -> at]
  /\ \A j, k \in 1 .. c : j < k => f[j] < f[k]
  /\ \A i \in at : \E k \in 1 .. c : f[k] = i

\* There is one way to take positions in their order.
LEMMA NthUnique ==
  ASSUME NEW n \in Nat, NEW at, at \subseteq 1 .. n, NEW c \in Nat,
         NEW f, Lists(f, c, at)
  PROVE  Cardinality(at) = c /\ \A k \in 1 .. c : Nth(at, k) = f[k]
<1> USE DEF Lists
<1>a. \A i \in at : i \in Nat
  OBVIOUS
<1>0. \A j, k \in 1 .. c : f[j] <= f[k] <=> j <= k
  <2> SUFFICES ASSUME NEW j \in 1 .. c, NEW k \in 1 .. c
               PROVE  f[j] <= f[k] <=> j <= k
    OBVIOUS
  <2>1. f[j] \in Nat /\ f[k] \in Nat
    BY <1>a
  <2>2. CASE j < k
    BY <2>1, <2>2
  <2>3. CASE k < j
    BY <2>1, <2>3
  <2>4. CASE j = k
    BY <2>1, <2>4
  <2> QED BY <2>2, <2>3, <2>4
<1>1. ASSUME NEW k \in 0 .. c, NEW T, T = {f[j] : j \in 1 .. k}
      PROVE  Cardinality(T) = k
  <2> DEFINE g == [j \in 1 .. k |-> f[j]]
  <2>1. g \in [1 .. k -> T]
    BY <1>1
  <2>2. \A i, j \in 1 .. k : g[i] = g[j] => i = j
    <3> SUFFICES ASSUME NEW i \in 1 .. k, NEW j \in 1 .. k, g[i] = g[j] PROVE i = j
      OBVIOUS
    <3>0. i \in 1 .. c /\ j \in 1 .. c /\ f[i] = f[j]
      OBVIOUS
    <3>1. f[i] = f[j] /\ f[i] \in Nat /\ i \in 1 .. c /\ j \in 1 .. c
      BY <3>0, <1>a
    <3>2. f[i] <= f[j] /\ f[j] <= f[i]
      BY <3>1
    <3> QED BY <3>1, <3>2, <1>0
  <2>3. \A t \in T : \E j \in 1 .. k : g[j] = t
    BY <1>1
  <2>4. DOMAIN g = 1 .. k
    OBVIOUS
  <2> HIDE DEF g
  <2>5. IsInjective(g)
    BY <2>2, <2>4 DEF IsInjective
  <2>6. g \in Bijection(1 .. k, T)
    BY <2>1, <2>3, <2>5 DEF Bijection, Injection, Surjection
  <2>7. ExistsBijection(1 .. k, T)
    BY <2>6 DEF ExistsBijection
  <2> QED BY <2>7, FS_CountingElements
<1>2. Cardinality(at) = c
  <2>1. at = {f[j] : j \in 1 .. c}
    OBVIOUS
  <2>2. c \in 0 .. c
    OBVIOUS
  <2> QED BY <1>1, <2>1, <2>2
<1>3. ASSUME NEW k \in 1 .. c
      PROVE  Nth(at, k) = f[k]
  <2> DEFINE T == {i \in at : i <= f[k]}
  <2>1. T = {f[j] : j \in 1 .. k}
    <3>1. ASSUME NEW i \in T PROVE i \in {f[j] : j \in 1 .. k}
      <4>1. PICK j \in 1 .. c : f[j] = i
        BY <3>1
      <4>2. j <= k
        BY <4>1, <3>1, <1>0
      <4> QED BY <4>1, <4>2
    <3>2. ASSUME NEW j \in 1 .. k PROVE f[j] \in T
      <4>1. j \in 1 .. c /\ j <= k
        OBVIOUS
      <4>2. f[j] <= f[k] /\ f[j] \in at
        BY <4>1, <1>0
      <4> QED BY <4>2
    <3> QED BY <3>1, <3>2
  <2>2. Cardinality(T) = k
    <3>1. k \in 0 .. c
      OBVIOUS
    <3> HIDE DEF T
    <3> QED BY <3>1, <2>1, <1>1
  <2>3. PICK m : m = Nth(at, k)
    OBVIOUS
  <2>4. m \in at /\ Cardinality({i \in at : i <= m}) = k
    BY <1>2, <2>3, NthMember
  <2>5. f[k] \in at
    OBVIOUS
  <2>6. /\ Cardinality({i \in at : i <= m}) >= Cardinality({i \in at : i <= f[k]})
        /\ Cardinality({i \in at : i <= f[k]}) >= Cardinality({i \in at : i <= m})
    BY <2>2, <2>4
  <2>7. m <= f[k] /\ f[k] <= m
    BY <2>4, <2>5, <2>6, SameRank, ZenonT(30)
  <2>8. m \in Nat /\ f[k] \in Nat
    BY <2>4, <2>5, <1>a
  <2> QED BY <2>3, <2>7, <2>8
<1> QED BY <1>2, <1>3

\* What is kept is made of elements of the queue.
LEMMA KeptType ==
  ASSUME NEW S, NEW s \in Seq(S), NEW at, at \subseteq DOMAIN s
  PROVE  /\ Kept(s, at) \in Seq(S)
         /\ Cardinality(at) \in Nat
         /\ Len(Kept(s, at)) = Cardinality(at)
         /\ DOMAIN Kept(s, at) = 1 .. Cardinality(at)
         /\ \A k \in 1 .. Cardinality(at) :
              /\ Nth(at, k) \in at /\ Nth(at, k) \in 1 .. Len(s)
              /\ Kept(s, at)[k] = s[Nth(at, k)]
<1>0. Len(s) \in Nat /\ DOMAIN s = 1 .. Len(s) /\ at \subseteq 1 .. Len(s)
  BY LenProperties
<1>1. Cardinality(at) \in Nat
  BY <1>0, PositionsFinite
<1>2. \A k \in 1 .. Cardinality(at) : Nth(at, k) \in at
  BY <1>0, NthMember
<1>3. \A k \in 1 .. Cardinality(at) : Nth(at, k) \in 1 .. Len(s)
  BY <1>0, <1>2
<1>4. \A k \in 1 .. Cardinality(at) : s[Nth(at, k)] \in S
  BY <1>3, ElementOfSeq
<1>5. Kept(s, at) \in [1 .. Cardinality(at) -> S]
  BY <1>4 DEF Kept
<1>6. Kept(s, at) \in Seq(S)
  BY <1>1, <1>5, SeqDef
<1> QED BY <1>1, <1>2, <1>3, <1>5, <1>6 DEF Kept

\* The order of what is kept, and that none of it is lost.
LEMMA KeptOrder ==
  ASSUME NEW S, NEW s \in Seq(S), NEW at, at \subseteq DOMAIN s
  PROVE  /\ \A j, k \in 1 .. Cardinality(at) : j < k => Nth(at, j) < Nth(at, k)
         /\ \A i \in at : \E k \in 1 .. Cardinality(at) : Nth(at, k) = i
<1>0. Len(s) \in Nat /\ at \subseteq 1 .. Len(s)
  BY LenProperties
<1> QED BY <1>0, NthOrder

\* A queue of which everything is kept is the same queue, and one of which nothing
\* is kept is empty.
LEMMA KeptAll ==
  ASSUME NEW S, NEW s \in Seq(S)
  PROVE  Kept(s, DOMAIN s) = s /\ Kept(s, {}) = << >>
<1>0. Len(s) \in Nat /\ DOMAIN s = 1 .. Len(s)
  BY LenProperties
<1> DEFINE f == [k \in 1 .. Len(s) |-> k]
<1>1. /\ f \in [1 .. Len(s) -> 1 .. Len(s)]
      /\ \A j, k \in 1 .. Len(s) : j < k => f[j] < f[k]
      /\ \A i \in 1 .. Len(s) : \E k \in 1 .. Len(s) : f[k] = i
  OBVIOUS
<1>2. Cardinality(1 .. Len(s)) = Len(s)
      /\ \A k \in 1 .. Len(s) : Nth(1 .. Len(s), k) = f[k]
  <2>1. 1 .. Len(s) \subseteq 1 .. Len(s)
    OBVIOUS
  <2> HIDE DEF f
  <2>2. Lists(f, Len(s), 1 .. Len(s))
    BY <1>1 DEF Lists
  <2> QED BY <1>0, <2>1, <2>2, NthUnique
<1>3. Kept(s, 1 .. Len(s)) = [k \in 1 .. Len(s) |-> s[k]]
  BY <1>2 DEF Kept
<1>4. s = [k \in 1 .. Len(s) |-> s[k]]
  BY <1>0, LenProperties
<1>5. Kept(s, {}) = << >>
  <2>1. Kept(s, {}) \in Seq(S) /\ Len(Kept(s, {})) = 0
    BY KeptType, FS_EmptySet
  <2> QED BY <2>1, EmptySeq
<1> QED BY <1>0, <1>3, <1>4, <1>5

\* The positions I of a queue s and J of the queue behind it.
Behind(I, s, J) == I \cup {Len(s) + j : j \in J}

\* What is kept of two queues one behind the other.
LEMMA KeptConcat ==
  ASSUME NEW S, NEW s \in Seq(S), NEW t \in Seq(S),
         NEW I, I \subseteq DOMAIN s, NEW J, J \subseteq DOMAIN t
  PROVE  Kept(s \o t, Behind(I, s, J)) = Kept(s, I) \o Kept(t, J)
<1>b. PICK K : K = Behind(I, s, J)
  OBVIOUS
<1>0. /\ Len(s) \in Nat /\ DOMAIN s = 1 .. Len(s)
      /\ Len(t) \in Nat /\ DOMAIN t = 1 .. Len(t)
  BY LenProperties
<1>1. /\ s \o t \in Seq(S) /\ Len(s \o t) = Len(s) + Len(t)
      /\ \A i \in 1 .. Len(s) + Len(t) :
           (s \o t)[i] = IF i <= Len(s) THEN s[i] ELSE t[i - Len(s)]
  BY ConcatProperties
<1>2. DOMAIN (s \o t) = 1 .. Len(s) + Len(t)
  BY <1>1, LenProperties
<1>k. /\ K \subseteq 1 .. Len(s) + Len(t)
      /\ \A i \in DOMAIN s : i \in K <=> i \in I
      /\ \A j \in DOMAIN t : Len(s) + j \in K <=> j \in J
  <2>1. \A i \in I : i \in 1 .. Len(s)
    BY <1>0
  <2>2. \A j \in J : j \in 1 .. Len(t)
    BY <1>0
  <2>3. K \subseteq 1 .. Len(s) + Len(t)
    <3>1. \A i \in I : i \in 1 .. Len(s) + Len(t)
      BY <2>1, <1>0
    <3>2. \A j \in J : Len(s) + j \in 1 .. Len(s) + Len(t)
      BY <2>2, <1>0
    <3> QED BY <3>1, <3>2, <1>b DEF Behind
  <2>4. ASSUME NEW i \in DOMAIN s PROVE i \in K <=> i \in I
    <3>1. \A j \in J : Len(s) + j # i
      BY <2>2, <1>0
    <3> QED BY <3>1, <1>b DEF Behind
  <2>5. ASSUME NEW j \in DOMAIN t PROVE Len(s) + j \in K <=> j \in J
    <3>1. Len(s) + j \notin I
      BY <2>1, <1>0
    <3>2. \A i \in J : Len(s) + i = Len(s) + j => i = j
      BY <2>2, <1>0
    <3> QED BY <3>1, <3>2, <1>b DEF Behind
  <2> QED BY <2>3, <2>4, <2>5
<1> DEFINE a == Cardinality(I)
           b == Cardinality(J)
           f == [k \in 1 .. a + b |->
                   IF k <= a THEN Nth(I, k) ELSE Len(s) + Nth(J, k - a)]
<1>3. /\ a \in Nat /\ Kept(s, I) \in Seq(S) /\ Len(Kept(s, I)) = a
      /\ \A k \in 1 .. a : Nth(I, k) \in I /\ Nth(I, k) \in 1 .. Len(s)
                           /\ Kept(s, I)[k] = s[Nth(I, k)]
  BY KeptType
<1>4. /\ b \in Nat /\ Kept(t, J) \in Seq(S) /\ Len(Kept(t, J)) = b
      /\ \A k \in 1 .. b : Nth(J, k) \in J /\ Nth(J, k) \in 1 .. Len(t)
                           /\ Kept(t, J)[k] = t[Nth(J, k)]
  BY KeptType
<1>5. /\ \A j, k \in 1 .. a : j < k => Nth(I, j) < Nth(I, k)
      /\ \A i \in I : \E k \in 1 .. a : Nth(I, k) = i
  BY KeptOrder
<1>6. /\ \A j, k \in 1 .. b : j < k => Nth(J, j) < Nth(J, k)
      /\ \A i \in J : \E k \in 1 .. b : Nth(J, k) = i
  BY KeptOrder
<1> HIDE DEF a, b
<1>7. \A k \in 1 .. a + b : f[k] \in K
  <2> SUFFICES ASSUME NEW k \in 1 .. a + b PROVE f[k] \in K
    OBVIOUS
  <2>1. CASE k <= a
    <3>1. k \in 1 .. a
      BY <2>1, <1>3, <1>4
    <3>2. f[k] = Nth(I, k)
      BY <2>1
    <3> QED BY <3>1, <3>2, <1>0, <1>3, <1>k
  <2>2. CASE ~ (k <= a)
    <3>1. k - a \in 1 .. b
      BY <2>2, <1>3, <1>4
    <3>2. f[k] = Len(s) + Nth(J, k - a)
      BY <2>2
    <3>3. Nth(J, k - a) \in DOMAIN t /\ Nth(J, k - a) \in J
      BY <3>1, <1>4, <1>0
    <3> QED BY <3>2, <3>3, <1>k
  <2> QED BY <2>1, <2>2
<1>8. \A j, k \in 1 .. a + b : j < k => f[j] < f[k]
  <2> SUFFICES ASSUME NEW j \in 1 .. a + b, NEW k \in 1 .. a + b, j < k
               PROVE  f[j] < f[k]
    OBVIOUS
  <2>1. CASE k <= a
    <3>1. j \in 1 .. a /\ k \in 1 .. a /\ f[j] = Nth(I, j) /\ f[k] = Nth(I, k)
      BY <2>1, <1>3, <1>4
    <3> QED BY <3>1, <1>5
  <2>2. CASE j <= a /\ ~ (k <= a)
    <3>1. /\ j \in 1 .. a /\ k - a \in 1 .. b
          /\ f[j] = Nth(I, j) /\ f[k] = Len(s) + Nth(J, k - a)
      BY <2>2, <1>3, <1>4
    <3>2. Nth(I, j) \in 1 .. Len(s) /\ Nth(J, k - a) \in 1 .. Len(t)
      BY <3>1, <1>3, <1>4
    <3> HIDE DEF f
    <3> QED BY <3>1, <3>2, <1>0
  <2>3. CASE ~ (j <= a)
    <3>1. /\ j - a \in 1 .. b /\ k - a \in 1 .. b /\ j - a < k - a
          /\ f[j] = Len(s) + Nth(J, j - a) /\ f[k] = Len(s) + Nth(J, k - a)
      BY <2>3, <1>3, <1>4
    <3>2. /\ Nth(J, j - a) < Nth(J, k - a)
          /\ Nth(J, j - a) \in 1 .. Len(t) /\ Nth(J, k - a) \in 1 .. Len(t)
      BY <3>1, <1>4, <1>6
    <3> HIDE DEF f
    <3> QED BY <3>1, <3>2, <1>0
  <2> QED BY <2>1, <2>2, <2>3
<1>9. \A i \in K : \E k \in 1 .. a + b : f[k] = i
  <2> SUFFICES ASSUME NEW i \in K PROVE \E k \in 1 .. a + b : f[k] = i
    OBVIOUS
  <2>1. i \in 1 .. Len(s) + Len(t)
    BY <1>k
  <2>2. CASE i <= Len(s)
    <3>1. i \in I
      BY <2>1, <2>2, <1>0, <1>k
    <3>2. PICK k \in 1 .. a : Nth(I, k) = i
      BY <3>1, <1>5
    <3>3. k \in 1 .. a + b /\ f[k] = i
      BY <3>2, <1>3, <1>4
    <3> QED BY <3>3
  <2>3. CASE ~ (i <= Len(s))
    <3>1. i - Len(s) \in DOMAIN t /\ Len(s) + (i - Len(s)) = i
      BY <2>1, <2>3, <1>0
    <3>2. i - Len(s) \in J
      BY <3>1, <1>k
    <3>3. PICK k \in 1 .. b : Nth(J, k) = i - Len(s)
      BY <3>2, <1>6
    <3>4. k + a \in 1 .. a + b /\ ~ (k + a <= a) /\ (k + a) - a = k
      BY <3>3, <1>3, <1>4
    <3>5. f[k + a] = Len(s) + Nth(J, k)
      BY <3>4
    <3> QED BY <3>1, <3>3, <3>4, <3>5
  <2> QED BY <2>2, <2>3
<1>10. Cardinality(K) = a + b /\ \A k \in 1 .. a + b : Nth(K, k) = f[k]
  <2>1. a + b \in Nat /\ Len(s) + Len(t) \in Nat /\ K \subseteq 1 .. Len(s) + Len(t)
    BY <1>0, <1>k, <1>3, <1>4
  <2>2. f \in [1 .. a + b -> K]
    BY <1>7
  <2> HIDE DEF f
  <2>3. Lists(f, a + b, K)
    BY <2>2, <1>8, <1>9 DEF Lists
  <2> QED BY <2>1, <2>3, NthUnique
<1>11. /\ Kept(s, I) \o Kept(t, J) \in Seq(S)
       /\ Len(Kept(s, I) \o Kept(t, J)) = a + b
       /\ \A k \in 1 .. a + b : (Kept(s, I) \o Kept(t, J))[k] =
            IF k <= a THEN Kept(s, I)[k] ELSE Kept(t, J)[k - a]
  BY <1>3, <1>4, ConcatProperties, ZenonT(30)
<1>12. /\ Kept(s \o t, K) \in Seq(S) /\ Len(Kept(s \o t, K)) = a + b
       /\ \A k \in 1 .. a + b : Kept(s \o t, K)[k] = (s \o t)[f[k]]
  <2>1. /\ Kept(s \o t, K) \in Seq(S)
        /\ Len(Kept(s \o t, K)) = Cardinality(K)
        /\ \A k \in 1 .. Cardinality(K) : Kept(s \o t, K)[k] = (s \o t)[Nth(K, k)]
    <3>1. K \subseteq DOMAIN (s \o t)
      BY <1>2, <1>k
    <3> QED BY <1>1, <3>1, KeptType, ZenonT(30)
  <2> HIDE DEF f
  <2> QED BY <2>1, <1>10
<1>13. \A k \in 1 .. a + b : (s \o t)[f[k]] = (Kept(s, I) \o Kept(t, J))[k]
  <2> SUFFICES ASSUME NEW k \in 1 .. a + b
               PROVE  (s \o t)[f[k]] = (Kept(s, I) \o Kept(t, J))[k]
    OBVIOUS
  <2>1. CASE k <= a
    <3>1. k \in 1 .. a /\ f[k] = Nth(I, k)
      BY <2>1, <1>3, <1>4
    <3> HIDE DEF f
    <3>2. Nth(I, k) \in 1 .. Len(s) /\ Kept(s, I)[k] = s[Nth(I, k)]
      BY <3>1, <1>3
    <3>3. (s \o t)[f[k]] = s[f[k]]
      BY <3>1, <3>2, <1>0, <1>1
    <3> QED BY <2>1, <3>1, <3>2, <3>3, <1>11
  <2>2. CASE ~ (k <= a)
    <3>1. k - a \in 1 .. b /\ f[k] = Len(s) + Nth(J, k - a)
      BY <2>2, <1>3, <1>4
    <3> HIDE DEF f
    <3>2. Nth(J, k - a) \in 1 .. Len(t) /\ Kept(t, J)[k - a] = t[Nth(J, k - a)]
      BY <3>1, <1>4
    <3>3. (s \o t)[f[k]] = t[Nth(J, k - a)]
      BY <3>1, <3>2, <1>0, <1>1
    <3> QED BY <2>2, <3>1, <3>2, <3>3, <1>11
  <2> QED BY <2>1, <2>2
<1> HIDE DEF f
<1>14. \A k \in 1 .. a + b : Kept(s \o t, K)[k] = (Kept(s, I) \o Kept(t, J))[k]
  BY <1>12, <1>13
<1> QED BY <1>11, <1>12, <1>14, <1>b, SeqEqual

-----------------------------------------------------------------------------
(* LanDiscovery.                                                           *)

\* The time that may be spent on beacons is the time not spent yet.
LanInv ==
  /\ LanTypeOK /\ LanSocket
  /\ \A d \in Discos :
       lan[d].advertising =>
         d \in LanServers /\ lan_credit[d] = lan[d].accumulator + lan[d].dt

\* What the socket can hold.
Datagrams == Seq(Beacon \cup Foreign)

\* The receive loop ends inside the buffer.
LEMMA LanDrainedType ==
  ASSUME NEW inbox \in Datagrams
  PROVE  LanDrained(inbox) \in 0 .. Len(inbox)
<1>0. Len(inbox) \in Nat /\ DOMAIN inbox = 1 .. Len(inbox)
  BY LenProperties DEF Datagrams
<1>1. CASE \E k \in DOMAIN inbox : inbox[k].type = "short"
  <2> DEFINE T == {k \in DOMAIN inbox : inbox[k].type = "short"}
  <2>1. T \subseteq Nat /\ T # {}
    BY <1>0, <1>1
  <2>2. PICK k \in T : \A y \in T : k <= y
    <3> HIDE DEF T
    <3> QED BY <2>1, LeastMember
  <2>3. /\ k \in DOMAIN inbox /\ inbox[k].type = "short"
        /\ \A j \in 1 .. k - 1 : inbox[j].type # "short"
    <3>1. \A j \in 1 .. k - 1 : j \in DOMAIN inbox /\ ~ (k <= j)
      BY <2>2, <1>0
    <3> QED BY <3>1, <2>2
  <2> DEFINE n == CHOOSE i \in DOMAIN inbox :
                    inbox[i].type = "short" /\ \A j \in 1 .. i - 1 : inbox[j].type # "short"
  <2>4. n \in DOMAIN inbox
    BY <2>3, Zenon
  <2>5. LanDrained(inbox) = n
    BY <1>1 DEF LanDrained
  <2> HIDE DEF n
  <2> QED BY <2>4, <2>5, <1>0
<1>2. CASE ~ \E k \in DOMAIN inbox : inbox[k].type = "short"
  <2>1. LanDrained(inbox) = Len(inbox)
    BY <1>2 DEF LanDrained
  <2> QED BY <2>1, <1>0
<1> QED BY <1>1, <1>2

\* What is left behind some datagrams fits the buffer.
LEMMA LanRestType ==
  ASSUME NEW inbox \in Datagrams, Len(inbox) <= LanBuffer, NEW n \in 0 .. Len(inbox)
  PROVE  /\ SubSeq(inbox, n + 1, Len(inbox)) \in Datagrams
         /\ Len(SubSeq(inbox, n + 1, Len(inbox))) <= LanBuffer
<1>0. Len(inbox) \in Nat
  BY LenProperties DEF Datagrams
<1>1. \A k \in n + 1 .. Len(inbox) : inbox[k] \in Beacon \cup Foreign
  BY <1>0, ElementOfSeq DEF Datagrams
<1>2. n + 1 \in Int /\ Len(inbox) \in Int
  BY <1>0
<1>3. /\ SubSeq(inbox, n + 1, Len(inbox)) \in Seq(Beacon \cup Foreign)
      /\ Len(SubSeq(inbox, n + 1, Len(inbox)))
           = IF n + 1 <= Len(inbox) THEN Len(inbox) - (n + 1) + 1 ELSE 0
  BY <1>1, <1>2, SubSeqProperties
<1>4. CASE n + 1 <= Len(inbox)
  BY <1>0, <1>3, <1>4, LanAssumption DEF Datagrams
<1>5. CASE ~ (n + 1 <= Len(inbox))
  BY <1>3, <1>5, LanAssumption DEF Datagrams
<1> QED BY <1>4, <1>5

\* Copies of a beacon behind what a socket holds, as far as it has room.
LEMMA LanBufferedType ==
  ASSUME NEW inbox \in Datagrams, NEW beacon \in Beacon, NEW n \in Nat
  PROVE  /\ LanBuffered(inbox \o [k \in 1 .. n |-> beacon]) \in Datagrams
         /\ Len(LanBuffered(inbox \o [k \in 1 .. n |-> beacon])) <= LanBuffer
<1> DEFINE copies == [k \in 1 .. n |-> beacon]
<1>1. copies \in Seq(Beacon \cup Foreign)
  <2>1. copies \in [1 .. n -> Beacon \cup Foreign]
    OBVIOUS
  <2> QED BY <2>1, SeqDef
<1> HIDE DEF copies
<1>2. PICK s : s = inbox \o copies
  OBVIOUS
<1>3. s \in Seq(Beacon \cup Foreign) /\ Len(s) \in Nat
  BY <1>1, <1>2, ConcatProperties, LenProperties DEF Datagrams
<1>4. /\ LanBuffered(s) \in Seq(Beacon \cup Foreign)
      /\ Len(LanBuffered(s)) <= LanBuffer
  <2>1. CASE Len(s) > LanBuffer
    <3>1. LanBuffer \in Int /\ 1 \in Int /\ LanBuffer >= 1
      BY LanAssumption
    <3>2. \A k \in 1 .. LanBuffer : s[k] \in Beacon \cup Foreign
      BY <1>3, <2>1, <3>1, ElementOfSeq
    <3>3. /\ SubSeq(s, 1, LanBuffer) \in Seq(Beacon \cup Foreign)
          /\ Len(SubSeq(s, 1, LanBuffer)) = IF 1 <= LanBuffer THEN LanBuffer - 1 + 1 ELSE 0
      BY <3>1, <3>2, SubSeqProperties
    <3>4. LanBuffered(s) = SubSeq(s, 1, LanBuffer)
      BY <2>1 DEF LanBuffered
    <3>5. Len(SubSeq(s, 1, LanBuffer)) = LanBuffer
      BY <3>1, <3>3
    <3> QED BY <3>1, <3>3, <3>4, <3>5
  <2>2. CASE ~ (Len(s) > LanBuffer)
    BY <1>3, <2>2, LanAssumption DEF LanBuffered
  <2> QED BY <2>1, <2>2
<1> QED BY <1>2, <1>4 DEF Datagrams, copies

\* A set of numbers up to n that is not empty has a greatest member, Max.
LEMMA GreatestMember ==
  ASSUME NEW n \in Nat, NEW T, T \subseteq 1 .. n, T # {}
  PROVE  Max(T) \in T /\ \A y \in T : y <= Max(T)
<1> DEFINE U == {n - k : k \in T}
<1>0. \A k \in T : k \in Int /\ 1 <= k /\ k <= n
  OBVIOUS
<1>1. U \subseteq Nat /\ U # {}
  <2>1. \A k \in T : n - k \in Nat
    BY <1>0
  <2> QED BY <2>1, Zenon
<1>2. PICK u \in U : \A y \in U : u <= y
  <2> HIDE DEF U
  <2> QED BY <1>1, LeastMember
<1>3. PICK m \in T : u = n - m
  BY <1>2
<1>4. \A y \in T : m >= y
  <2> SUFFICES ASSUME NEW y \in T PROVE m >= y
    OBVIOUS
  <2>1. n - y \in U
    OBVIOUS
  <2>2. n - m <= n - y
    BY <1>2, <1>3, <2>1
  <2>3. m \in Int /\ y \in Int
    BY <1>0
  <2> QED BY <2>2, <2>3
<1>5. \E x \in T : \A y \in T : x >= y
  BY <1>4
<1>6. Max(T) \in T /\ \A y \in T : Max(T) >= y
  BY <1>5, Zenon DEF Max
<1> QED
  <2>1. Max(T) \in Int /\ \A y \in T : y \in Int
    BY <1>0, <1>6
  <2>2. \A y \in T : Max(T) >= y <=> y <= Max(T)
    BY <2>1
  <2> QED BY <1>6, <2>2

\* A step of one object keeps the invariant if what becomes of that object does.
LEMMA LanStep ==
  ASSUME LanInv, NEW d \in Discos, NEW x \in LanState, NEW box \in Datagrams, NEW c \in Int,
         lan' = [lan EXCEPT ![d] = x], Len(box) <= LanBuffer,
         lan_inbox' = [lan_inbox EXCEPT ![d] = box],
         lan_credit' = [lan_credit EXCEPT ![d] = c],
         UNCHANGED <<lan_known, lan_foreign>>,
         x.advertising \/ x.listening => x.socket # "none",
         x.advertising => x.socket = "ephemeral",
         x.advertising => d \in LanServers /\ c = x.accumulator + x.dt
  PROVE  LanInv'
<1>0. /\ lan \in [Discos -> LanState] /\ lan_inbox \in [Discos -> Datagrams]
      /\ lan_credit \in [Discos -> Int]
  BY DEF LanInv, LanTypeOK, Datagrams
<1>1. /\ lan' \in [Discos -> LanState] /\ lan_inbox' \in [Discos -> Datagrams]
      /\ lan_credit' \in [Discos -> Int]
  BY <1>0
<1>2. \A e \in Discos : /\ lan'[e] = IF e = d THEN x ELSE lan[e]
                        /\ lan_inbox'[e] = IF e = d THEN box ELSE lan_inbox[e]
                        /\ lan_credit'[e] = IF e = d THEN c ELSE lan_credit[e]
  BY <1>0
<1>3. LanTypeOK'
  BY <1>1, <1>2 DEF LanInv, LanTypeOK, Datagrams
<1>4. LanSocket'
  BY <1>2 DEF LanInv, LanSocket
<1>5. \A e \in Discos :
        lan'[e].advertising =>
          e \in LanServers /\ lan_credit'[e] = lan'[e].accumulator + lan'[e].dt
  BY <1>2 DEF LanInv
<1> QED BY <1>3, <1>4, <1>5 DEF LanInv

\* The loop of poll() spends what it can of the time.
LEMMA LanDueLaw ==
  ASSUME NEW time \in Nat
  PROVE  /\ LanDue(time) \in Nat
         /\ time - LanDue(time) * LanInterval \in 0 .. LanInterval - 1
<1> DEFINE q == time \div LanInterval
<1>1. LanInterval \in Nat \ {0}
  BY LanAssumption
<1>2. q \in Nat /\ LanInterval * q <= time /\ time < LanInterval * (q + 1)
  BY <1>1
<1>3. LanDue(time) = q
  BY DEF LanDue
<1> HIDE DEF q
<1>4. /\ q * LanInterval = LanInterval * q
      /\ LanInterval * (q + 1) = LanInterval * q + LanInterval
      /\ LanInterval * q \in Nat
  BY <1>1, <1>2
<1> QED BY <1>1, <1>2, <1>3, <1>4

\* receive_beacons keeps the types.
LEMMA LanReceived ==
  ASSUME LanTypeOK, NEW d \in Discos, receive_beacons(d)
  PROVE  /\ lan_known' \in [Discos -> [LanServers -> LanPlayers \cup {Unknown}]]
         /\ lan_inbox' \in [Discos -> Datagrams]
         /\ \A e \in Discos : Len(lan_inbox'[e]) <= LanBuffer
<1> DEFINE inbox == lan_inbox[d]
           n == LanDrained(inbox)
           heard(a) == {k \in 1 .. n : inbox[k].type = "beacon" /\ inbox[k].from = a}
           known == [a \in LanServers |-> IF heard(a) = {} THEN lan_known[d][a]
                                          ELSE inbox[Max(heard(a))].current_players]
<1>0. /\ lan_inbox \in [Discos -> Datagrams] /\ inbox \in Datagrams
      /\ \A e \in Discos : Len(lan_inbox[e]) <= LanBuffer
      /\ lan_known \in [Discos -> [LanServers -> LanPlayers \cup {Unknown}]]
  BY DEF LanTypeOK, Datagrams
<1>1. n \in 0 .. Len(inbox) /\ Len(inbox) \in Nat
  BY <1>0, LanDrainedType, LenProperties DEF Datagrams
<1>2. /\ lan_known' = [lan_known EXCEPT ![d] = known]
      /\ lan_inbox' = [lan_inbox EXCEPT ![d] = SubSeq(inbox, n + 1, Len(inbox))]
  BY <1>0 DEF receive_beacons
<1>3. known \in [LanServers -> LanPlayers \cup {Unknown}]
  <2> SUFFICES ASSUME NEW a \in LanServers
               PROVE  (IF heard(a) = {} THEN lan_known[d][a]
                       ELSE inbox[Max(heard(a))].current_players) \in LanPlayers \cup {Unknown}
    OBVIOUS
  <2>1. CASE heard(a) = {}
    BY <2>1, <1>0
  <2>2. CASE heard(a) # {}
    <3>1. PICK T : T = heard(a)
      OBVIOUS
    <3>2. T \subseteq 1 .. n /\ T # {} /\ \A k \in T : inbox[k].type = "beacon"
      BY <2>2, <3>1
    <3>3. n \in Nat
      BY <1>1
    <3> HIDE DEF n, heard
    <3>4. Max(T) \in T
      BY <3>2, <3>3, GreatestMember
    <3>5. Max(T) \in 1 .. Len(inbox) /\ inbox[Max(T)].type = "beacon"
      <4>1. PICK m \in T : m = Max(T)
        BY <3>4
      <4>2. m \in 1 .. n /\ inbox[m].type = "beacon"
        BY <3>2
      <4>3. m \in 1 .. Len(inbox)
        BY <4>2, <1>1
      <4> QED BY <4>1, <4>2, <4>3
    <3> HIDE DEF inbox
    <3>6. PICK m \in Beacon \cup Foreign : m = inbox[Max(T)]
      BY <3>5, <1>0, ElementOfSeq DEF Datagrams
    <3>7. m.type = "beacon"
      BY <3>5, <3>6
    <3>8. m \in Beacon
      BY <3>7 DEF Foreign
    <3>9. m.current_players \in LanPlayers
      BY <3>8 DEF Beacon
    <3> QED BY <2>2, <3>1, <3>6, <3>9
  <2> QED BY <2>1, <2>2
<1>4. /\ SubSeq(inbox, n + 1, Len(inbox)) \in Datagrams
      /\ Len(SubSeq(inbox, n + 1, Len(inbox))) <= LanBuffer
  <2> HIDE DEF n
  <2> QED BY <1>0, <1>1, LanRestType
<1> HIDE DEF known
<1>5. PICK box \in Datagrams : box = SubSeq(inbox, n + 1, Len(inbox))
  BY <1>4
<1>6. Len(box) <= LanBuffer /\ lan_inbox' = [lan_inbox EXCEPT ![d] = box]
  BY <1>2, <1>4, <1>5
<1> HIDE DEF inbox, n
<1> QED BY <1>0, <1>2, <1>3, <1>6

\* A beacon reaches the sockets on the discovery port, within their buffers.
LEMMA LanSentType ==
  ASSUME LanTypeOK, NEW d \in LanServers, NEW n \in Nat, send_beacon(d, n)
  PROVE  /\ lan_inbox' \in [Discos -> Datagrams]
         /\ \A e \in Discos : Len(lan_inbox'[e]) <= LanBuffer
<1> DEFINE beacon == [type |-> "beacon", from |-> d,
                      current_players |-> lan[d].current_players]
<1>0. /\ lan_inbox \in [Discos -> Datagrams]
      /\ \A e \in Discos : Len(lan_inbox[e]) <= LanBuffer
  BY DEF LanTypeOK, Datagrams
<1>1. beacon \in Beacon
  <2>1. d \in Discos /\ lan[d] \in LanState
    BY LanAssumption DEF LanTypeOK
  <2> QED BY <2>1 DEF Beacon, LanState
<1>2. PICK copies \in [Discos \ {d} -> 0 .. 2 * n] :
        lan_inbox' = [e \in Discos |->
          IF e # d /\ lan[e].socket = "discovery"
          THEN LanBuffered(lan_inbox[e] \o [k \in 1 .. copies[e] |-> beacon])
          ELSE lan_inbox[e]]
  BY DEF send_beacon
<1>3. \A e \in Discos \ {d} : copies[e] \in Nat
  OBVIOUS
<1> HIDE DEF beacon
<1>4. ASSUME NEW e \in Discos
      PROVE  lan_inbox'[e] \in Datagrams /\ Len(lan_inbox'[e]) <= LanBuffer
  <2>1. e # d =>
          /\ LanBuffered(lan_inbox[e] \o [k \in 1 .. copies[e] |-> beacon]) \in Datagrams
          /\ Len(LanBuffered(lan_inbox[e] \o [k \in 1 .. copies[e] |-> beacon])) <= LanBuffer
    BY <1>0, <1>1, <1>3, LanBufferedType
  <2> QED BY <2>1, <1>0, <1>2
<1>5. lan_inbox' \in [Discos -> Datagrams]
  <2>1. \E g : lan_inbox' = [e \in Discos |-> g[e]]
    BY <1>2
  <2> QED BY <1>4, <2>1
<1> QED BY <1>4, <1>5

\* What LanDiscovery keeps of one socket for two roles, and of the time between its
\* beacons, holds however start, stop, poll, the clock and foreign datagrams interleave.
THEOREM LanSharedHolds == LanSpec => [](LanTypeOK /\ LanSocket /\ LanRate)
<1>1. LanInit => LanInv
  <2> SUFFICES ASSUME LanInit PROVE LanInv
    OBVIOUS
  <2> DEFINE x == [socket |-> "none", advertising |-> FALSE, listening |-> FALSE,
                   accumulator |-> 0, dt |-> 0, current_players |-> 0, callback |-> FALSE]
  <2>1. x \in LanState
    <3>1. 0 \in 0 .. LanInterval - 1 /\ 0 \in 0 .. LanMaxGap /\ 0 \in LanPlayers
      BY LanAssumption
    <3> QED BY <3>1 DEF LanState
  <2>2. << >> \in Seq(Beacon \cup Foreign) /\ Len(<< >>) = 0
    BY EmptySeq
  <2>3. \A d \in Discos : lan[d] = x
    BY DEF LanInit
  <2>4. lan \in [Discos -> LanState]
    BY <2>1 DEF LanInit
  <2>5. LanTypeOK
    <3>1. lan_inbox \in [Discos -> Seq(Beacon \cup Foreign)]
          /\ \A d \in Discos : Len(lan_inbox[d]) <= LanBuffer
      BY <2>2, LanAssumption DEF LanInit
    <3>2. lan_known \in [Discos -> [LanServers -> LanPlayers \cup {Unknown}]]
      BY DEF LanInit
    <3>3. lan_credit \in [Discos -> Int] /\ lan_foreign \in 0 .. LanMaxForeign
      BY LanAssumption DEF LanInit
    <3> QED BY <2>4, <3>1, <3>2, <3>3 DEF LanTypeOK
  <2>6. ~ x.advertising /\ ~ x.listening
    OBVIOUS
  <2> HIDE DEF x
  <2> QED BY <2>3, <2>5, <2>6 DEF LanInv, LanSocket
<1>2. LanInv /\ [LanNext]_lan_vars => LanInv'
  <2> SUFFICES ASSUME LanInv, [LanNext]_lan_vars PROVE LanInv'
    OBVIOUS
  <2>0. /\ lan \in [Discos -> LanState] /\ lan_inbox \in [Discos -> Datagrams]
        /\ \A e \in Discos : Len(lan_inbox[e]) <= LanBuffer
        /\ lan_credit \in [Discos -> Int] /\ << >> \in Datagrams /\ Len(<< >>) <= LanBuffer
    BY EmptySeq, LanAssumption DEF LanInv, LanTypeOK, Datagrams
  <2>i. \A d \in Discos :
          /\ lan[d].advertising \/ lan[d].listening => lan[d].socket # "none"
          /\ lan[d].advertising => lan[d].socket = "ephemeral"
          /\ lan[d].advertising =>
               d \in LanServers /\ lan_credit[d] = lan[d].accumulator + lan[d].dt
    BY DEF LanInv, LanSocket
  <2>n. 0 \in 0 .. LanInterval - 1 /\ 0 \in LanPlayers
    BY LanAssumption
  <2>1. ASSUME NEW d \in Discos, start_advertising(d) PROVE LanInv'
    <3> DEFINE x == [create_socket(lan[d], "ephemeral") EXCEPT
                       !.advertising = TRUE, !.current_players = 0, !.accumulator = 0]
    <3>1. /\ x \in LanState /\ x.socket = "ephemeral" /\ x.accumulator = 0
          /\ x.dt = lan[d].dt /\ lan[d].dt \in Nat /\ x.advertising
      <4>1. lan[d] \in LanState
        BY <2>0
      <4>2. lan[d].dt \in Nat
        BY <4>1, LanAssumption DEF LanState
      <4>3. x = [lan[d] EXCEPT !.socket = "ephemeral", !.advertising = TRUE,
                   !.listening = FALSE, !.current_players = 0, !.accumulator = 0]
        BY <4>1 DEF LanState, create_socket, close_socket
      <4> HIDE DEF x
      <4>4. /\ x \in LanState /\ x.socket = "ephemeral" /\ x.accumulator = 0
            /\ x.dt = lan[d].dt /\ x.advertising = TRUE
        BY <4>1, <4>3, <2>n DEF LanState
      <4> QED BY <4>2, <4>4
    <3>2. /\ lan' = [lan EXCEPT ![d] = x] /\ lan_inbox' = [lan_inbox EXCEPT ![d] = << >>]
          /\ lan_credit' = [lan_credit EXCEPT ![d] = lan[d].dt] /\ d \in LanServers
          /\ UNCHANGED <<lan_known, lan_foreign>>
      BY <2>1 DEF start_advertising
    <3> HIDE DEF x
    <3>3. lan[d].dt \in Int /\ lan[d].dt = x.accumulator + x.dt /\ x.socket # "none"
      BY <3>1
    <3> QED BY <2>0, <3>1, <3>2, <3>3, LanStep
  <2>2. ASSUME NEW d \in Discos, start_listening(d) PROVE LanInv'
    <3> DEFINE x == [(IF lan[d].socket = "none" THEN create_socket(lan[d], "discovery")
                      ELSE lan[d]) EXCEPT !.listening = TRUE]
    <3>1. /\ x \in LanState /\ x.socket # "none" /\ (x.advertising => x.socket = "ephemeral")
          /\ x.advertising => lan[d].advertising
          /\ x.accumulator = lan[d].accumulator /\ x.dt = lan[d].dt
      <4>1. CASE lan[d].socket = "none"
        BY <4>1, <2>0 DEF LanState, create_socket, close_socket
      <4>2. CASE lan[d].socket # "none"
        BY <4>2, <2>0, <2>i, ZenonT(30) DEF LanState
      <4> QED BY <4>1, <4>2
    <3>2. /\ lan' = [lan EXCEPT ![d] = x]
          /\ UNCHANGED <<lan_inbox, lan_credit, lan_known, lan_foreign>>
      BY <2>2, <2>0 DEF start_listening
    <3> HIDE DEF x
    <3>3. /\ lan_inbox' = [lan_inbox EXCEPT ![d] = lan_inbox[d]]
          /\ lan_credit' = [lan_credit EXCEPT ![d] = lan_credit[d]]
          /\ lan_inbox[d] \in Datagrams /\ lan_credit[d] \in Int
          /\ Len(lan_inbox[d]) <= LanBuffer
      BY <2>0, <3>2
    <3>4. x.advertising => d \in LanServers /\ lan_credit[d] = x.accumulator + x.dt
      BY <2>i, <3>1
    <3> QED BY <3>1, <3>2, <3>3, <3>4, LanStep
  <2>3. ASSUME NEW d \in Discos, create_socket_fails(d) PROVE LanInv'
    <3> DEFINE x == close_socket(lan[d])
    <3>1. x \in LanState /\ ~ x.advertising /\ ~ x.listening
      BY <2>0 DEF LanState, close_socket
    <3>2. /\ lan' = [lan EXCEPT ![d] = x] /\ lan_inbox' = [lan_inbox EXCEPT ![d] = << >>]
          /\ lan_credit' = [lan_credit EXCEPT ![d] = lan_credit[d]] /\ lan_credit[d] \in Int
          /\ UNCHANGED <<lan_known, lan_foreign>>
      BY <2>3, <2>0 DEF create_socket_fails
    <3> HIDE DEF x
    <3> QED BY <2>0, <3>1, <3>2, LanStep
  <2>4. ASSUME NEW d \in Discos, NEW x \in LanState, LanStopped(d, x),
               x.advertising => lan[d].advertising, x.listening => lan[d].listening,
               x.socket = lan[d].socket \/ (~ x.advertising /\ ~ x.listening),
               x.accumulator = lan[d].accumulator, x.dt = lan[d].dt
        PROVE  LanInv'
    <3>1. PICK box \in Datagrams : /\ lan_inbox' = [lan_inbox EXCEPT ![d] = box]
                                   /\ Len(box) <= LanBuffer
      <4>1. CASE x.socket = "none"
        <5>1. lan_inbox' = [lan_inbox EXCEPT ![d] = << >>]
          BY <2>4, <4>1 DEF LanStopped
        <5> QED BY <5>1, <2>0
      <4>2. CASE x.socket # "none"
        <5>1. lan_inbox' = [lan_inbox EXCEPT ![d] = lan_inbox[d]]
          BY <2>0, <2>4, <4>2 DEF LanStopped
        <5> QED BY <5>1, <2>0
      <4> QED BY <4>1, <4>2
    <3>2. /\ lan' = [lan EXCEPT ![d] = x] /\ UNCHANGED <<lan_known, lan_foreign>>
          /\ lan_credit' = [lan_credit EXCEPT ![d] = lan_credit[d]] /\ lan_credit[d] \in Int
      BY <2>0, <2>4 DEF LanStopped
    <3>3. /\ x.advertising \/ x.listening => x.socket # "none"
          /\ x.advertising => x.socket = "ephemeral"
          /\ x.advertising => d \in LanServers /\ lan_credit[d] = x.accumulator + x.dt
      BY <2>4, <2>i
    <3> QED BY <3>1, <3>2, <3>3, LanStep
  <2>5. ASSUME NEW d \in Discos, stop_advertising(d) \/ stop_listening(d) PROVE LanInv'
    <3>1. CASE stop_advertising(d)
      <4> DEFINE x == IF lan[d].listening THEN [lan[d] EXCEPT !.advertising = FALSE]
                      ELSE close_socket(lan[d])
      <4>1. /\ x \in LanState /\ ~ x.advertising /\ (x.listening => lan[d].listening)
            /\ x.socket = lan[d].socket \/ (~ x.advertising /\ ~ x.listening)
            /\ x.accumulator = lan[d].accumulator /\ x.dt = lan[d].dt
        <5>1. CASE lan[d].listening
          BY <5>1, <2>0 DEF LanState
        <5>2. CASE ~ lan[d].listening
          BY <5>2, <2>0 DEF LanState, close_socket
        <5> QED BY <5>1, <5>2
      <4>2. LanStopped(d, x)
        BY <3>1 DEF stop_advertising
      <4> HIDE DEF x
      <4> QED BY <4>1, <4>2, <2>4
    <3>2. CASE stop_listening(d)
      <4> DEFINE x == IF lan[d].advertising THEN [lan[d] EXCEPT !.listening = FALSE]
                      ELSE close_socket(lan[d])
      <4>1. /\ x \in LanState /\ ~ x.listening /\ (x.advertising => lan[d].advertising)
            /\ x.socket = lan[d].socket \/ (~ x.advertising /\ ~ x.listening)
            /\ x.accumulator = lan[d].accumulator /\ x.dt = lan[d].dt
        <5>1. CASE lan[d].advertising
          BY <5>1, <2>0 DEF LanState
        <5>2. CASE ~ lan[d].advertising
          BY <5>2, <2>0 DEF LanState, close_socket
        <5> QED BY <5>1, <5>2
      <4>2. LanStopped(d, x)
        BY <3>2 DEF stop_listening
      <4> HIDE DEF x
      <4> QED BY <4>1, <4>2, <2>4
    <3> QED BY <2>5, <3>1, <3>2
  <2>6. ASSUME NEW d \in Discos, NEW n \in LanPlayers,
               set_current_players(d, n) \/ on_beacon_received(d)
        PROVE  LanInv'
    <3>1. PICK x \in LanState :
            /\ lan' = [lan EXCEPT ![d] = x]
            /\ x.advertising = lan[d].advertising /\ x.listening = lan[d].listening
            /\ x.socket = lan[d].socket
            /\ x.accumulator = lan[d].accumulator /\ x.dt = lan[d].dt
      <4>1. CASE set_current_players(d, n)
        <5> DEFINE x == [lan[d] EXCEPT !.current_players = n]
        <5>1. lan' = [lan EXCEPT ![d] = x]
          BY <4>1 DEF set_current_players
        <5>2. /\ x \in LanState
              /\ x.advertising = lan[d].advertising /\ x.listening = lan[d].listening
              /\ x.socket = lan[d].socket
              /\ x.accumulator = lan[d].accumulator /\ x.dt = lan[d].dt
          BY <2>0 DEF LanState
        <5> HIDE DEF x
        <5> QED BY <5>1, <5>2
      <4>2. CASE on_beacon_received(d)
        <5> DEFINE x == [lan[d] EXCEPT !.callback = TRUE]
        <5>1. lan' = [lan EXCEPT ![d] = x]
          BY <4>2 DEF on_beacon_received
        <5>2. /\ x \in LanState
              /\ x.advertising = lan[d].advertising /\ x.listening = lan[d].listening
              /\ x.socket = lan[d].socket
              /\ x.accumulator = lan[d].accumulator /\ x.dt = lan[d].dt
          BY <2>0 DEF LanState
        <5> HIDE DEF x
        <5> QED BY <5>1, <5>2
      <4> QED BY <2>6, <4>1, <4>2
    <3>2. /\ lan_inbox' = [lan_inbox EXCEPT ![d] = lan_inbox[d]]
          /\ lan_credit' = [lan_credit EXCEPT ![d] = lan_credit[d]]
          /\ lan_inbox[d] \in Datagrams /\ lan_credit[d] \in Int
          /\ Len(lan_inbox[d]) <= LanBuffer
          /\ UNCHANGED <<lan_known, lan_foreign>>
      BY <2>6, <2>0 DEF set_current_players, on_beacon_received
    <3>3. /\ x.advertising \/ x.listening => x.socket # "none"
          /\ x.advertising => x.socket = "ephemeral"
          /\ x.advertising => d \in LanServers /\ lan_credit[d] = x.accumulator + x.dt
      BY <3>1, <2>i
    <3> QED BY <3>1, <3>2, <3>3, LanStep
  <2>7. ASSUME NEW d \in Discos, lan_poll(d) PROVE LanInv'
    <3> DEFINE time == lan[d].accumulator + lan[d].dt
               count == IF lan[d].advertising THEN LanDue(time) ELSE 0
               acc == IF lan[d].advertising THEN time - LanDue(time) * LanInterval
                      ELSE lan[d].accumulator
               x == [lan[d] EXCEPT !.dt = 0, !.accumulator = acc]
    <3>0. /\ lan[d] \in LanState /\ time \in Nat /\ lan[d].accumulator \in 0 .. LanInterval - 1
          /\ LanInterval \in Nat \ {0} /\ LanMaxGap \in Nat
      BY <2>0, LanAssumption DEF LanState
    <3>1. LanDue(time) \in Nat /\ time - LanDue(time) * LanInterval \in 0 .. LanInterval - 1
      <4> HIDE DEF time
      <4> QED BY <3>0, LanDueLaw
    <3>2. acc \in 0 .. LanInterval - 1 /\ count \in Nat
      <4> HIDE DEF time
      <4> QED BY <3>0, <3>1
    <3>3. /\ x \in LanState /\ x.dt = 0 /\ x.accumulator = acc
          /\ x.advertising = lan[d].advertising /\ x.listening = lan[d].listening
          /\ x.socket = lan[d].socket
      <4> HIDE DEF acc
      <4>1. 0 \in 0 .. LanMaxGap
        BY <3>0
      <4> QED BY <3>0, <3>2, <4>1 DEF LanState
    <3>4. lan' = [lan EXCEPT ![d] = x]
      BY <2>7, <2>0 DEF lan_poll
    <3>5. lan_credit' = [lan_credit EXCEPT ![d] = lan_credit[d] - count * LanInterval]
          /\ lan_foreign' = lan_foreign
      BY <2>7 DEF lan_poll
    <3>6. /\ lan_known' \in [Discos -> [LanServers -> LanPlayers \cup {Unknown}]]
          /\ lan_inbox' \in [Discos -> Datagrams]
          /\ \A e \in Discos : Len(lan_inbox'[e]) <= LanBuffer
      <4>1. /\ IF count > 0 THEN send_beacon(d, count) /\ UNCHANGED lan_known
               ELSE IF LanHears(lan[d]) THEN receive_beacons(d)
               ELSE UNCHANGED <<lan_inbox, lan_known>>
        BY <2>7 DEF lan_poll
      <4>2. count > 0 => lan[d].advertising
        <5> HIDE DEF time
        <5> QED OBVIOUS
      <4> HIDE DEF count
      <4>3. LanTypeOK /\ lan_known \in [Discos -> [LanServers -> LanPlayers \cup {Unknown}]]
        BY DEF LanInv, LanTypeOK
      <4>4. CASE count > 0
        <5>1. d \in LanServers /\ send_beacon(d, count) /\ lan_known' = lan_known
          BY <4>1, <4>2, <4>4, <2>i
        <5> QED BY <5>1, <4>3, <3>2, LanSentType
      <4>5. CASE ~ (count > 0) /\ LanHears(lan[d])
        <5>1. receive_beacons(d)
          BY <4>1, <4>5
        <5> QED BY <5>1, <4>3, LanReceived
      <4>6. CASE ~ (count > 0) /\ ~ LanHears(lan[d])
        BY <4>1, <4>3, <4>6, <2>0
      <4> QED BY <4>4, <4>5, <4>6
    <3>7. lan[d].advertising => lan_credit[d] - count * LanInterval = acc + 0
      <4>1. SUFFICES ASSUME lan[d].advertising
                     PROVE  lan_credit[d] - count * LanInterval = acc + 0
        OBVIOUS
      <4>2. lan_credit[d] = time /\ count = LanDue(time)
            /\ acc = time - LanDue(time) * LanInterval
        BY <4>1, <2>i
      <4> HIDE DEF time, count, acc
      <4>3. LanDue(time) * LanInterval \in Int
        BY <3>0, <3>1
      <4> QED BY <4>2, <4>3, <3>0
    <3>8. count * LanInterval \in Int
      <4> HIDE DEF count
      <4> QED BY <3>0, <3>2
    <3> HIDE DEF x, count, acc, time
    <3>9. \A e \in Discos :
            /\ lan'[e] = IF e = d THEN x ELSE lan[e]
            /\ lan_credit'[e] = IF e = d THEN lan_credit[d] - count * LanInterval
                                ELSE lan_credit[e]
      BY <2>0, <3>4, <3>5
    <3>10. lan' \in [Discos -> LanState] /\ lan_credit' \in [Discos -> Int]
      BY <2>0, <3>3, <3>4, <3>5, <3>8
    <3>11. LanTypeOK'
      BY <3>5, <3>6, <3>10 DEF LanInv, LanTypeOK, Datagrams
    <3>12. LanSocket'
      BY <3>3, <3>9, <2>i DEF LanSocket
    <3>13. ASSUME NEW e \in Discos, lan'[e].advertising
           PROVE  e \in LanServers /\ lan_credit'[e] = lan'[e].accumulator + lan'[e].dt
      <4>1. CASE e = d
        BY <4>1, <3>3, <3>7, <3>9, <3>13, <2>i
      <4>2. CASE e # d
        BY <4>2, <3>9, <3>13, <2>i
      <4> QED BY <4>1, <4>2
    <3> QED BY <3>11, <3>12, <3>13 DEF LanInv
  <2>8. ASSUME NEW d \in Discos, NEW m \in Foreign, lan_foreign_datagram(d, m) PROVE LanInv'
    <3>1. lan_inbox[d] \in Seq(Beacon \cup Foreign) /\ m \in Beacon \cup Foreign
          /\ Len(lan_inbox[d]) \in Nat
      BY <2>0, LenProperties DEF Datagrams
    <3>2. Append(lan_inbox[d], m) \in Datagrams
          /\ Len(Append(lan_inbox[d], m)) = Len(lan_inbox[d]) + 1
      BY <3>1, AppendProperties DEF Datagrams
    <3>3. /\ lan_foreign < LanMaxForeign /\ lan_foreign' = lan_foreign + 1
          /\ Len(lan_inbox[d]) < LanBuffer
          /\ lan_inbox' = [lan_inbox EXCEPT ![d] = Append(lan_inbox[d], m)]
          /\ UNCHANGED <<lan, lan_known, lan_credit>>
      BY <2>8 DEF lan_foreign_datagram
    <3>4. Len(Append(lan_inbox[d], m)) <= LanBuffer
      BY <3>1, <3>2, <3>3, LanAssumption
    <3>5. PICK box \in Datagrams : box = Append(lan_inbox[d], m)
      BY <3>2
    <3>6. lan_inbox' \in [Discos -> Datagrams]
          /\ \A e \in Discos : Len(lan_inbox'[e]) <= LanBuffer
      BY <2>0, <3>3, <3>4, <3>5
    <3>7. lan_foreign' \in 0 .. LanMaxForeign
      BY <3>3, LanAssumption DEF LanInv, LanTypeOK
    <3> QED BY <3>3, <3>6, <3>7 DEF LanInv, LanTypeOK, LanSocket, Datagrams
  <2>9. CASE lan_tick
    <3>1. /\ \A d \in Discos : lan'[d] =
               [lan[d] EXCEPT !.dt = IF lan[d].dt < LanMaxGap THEN lan[d].dt + 1 ELSE lan[d].dt]
          /\ \A d \in Discos : lan_credit'[d] =
               IF lan[d].advertising /\ lan[d].dt < LanMaxGap
               THEN lan_credit[d] + 1 ELSE lan_credit[d]
          /\ \E g, h : lan' = [d \in Discos |-> g[d]] /\ lan_credit' = [d \in Discos |-> h[d]]
          /\ UNCHANGED <<lan_inbox, lan_known, lan_foreign>>
      <4>1. PICK g : g = [d \in Discos |->
               [lan[d] EXCEPT !.dt = IF @ < LanMaxGap THEN @ + 1 ELSE @]]
        OBVIOUS
      <4>2. PICK h : h = [d \in Discos |-> IF lan[d].advertising /\ lan[d].dt < LanMaxGap
                                           THEN lan_credit[d] + 1 ELSE lan_credit[d]]
        OBVIOUS
      <4>3. lan' = g /\ lan_credit' = h
        BY <2>9, <4>1, <4>2 DEF lan_tick
      <4>4. g = [d \in Discos |-> g[d]] /\ h = [d \in Discos |-> h[d]]
        BY <4>1, <4>2
      <4>5. UNCHANGED <<lan_inbox, lan_known, lan_foreign>>
        BY <2>9 DEF lan_tick
      <4>6. \A d \in Discos : lan'[d] =
              [lan[d] EXCEPT !.dt = IF lan[d].dt < LanMaxGap THEN lan[d].dt + 1 ELSE lan[d].dt]
        BY <4>1, <4>3
      <4>7. \A d \in Discos : lan_credit'[d] =
              IF lan[d].advertising /\ lan[d].dt < LanMaxGap
              THEN lan_credit[d] + 1 ELSE lan_credit[d]
        BY <4>2, <4>3
      <4>8. \E u, v : lan' = [d \in Discos |-> u[d]] /\ lan_credit' = [d \in Discos |-> v[d]]
        BY <4>3, <4>4, Zenon
      <4> QED BY <4>5, <4>6, <4>7, <4>8
    <3>2. ASSUME NEW d \in Discos
          PROVE  /\ lan'[d] \in LanState /\ lan_credit'[d] \in Int
                 /\ lan'[d].advertising = lan[d].advertising
                 /\ lan'[d].listening = lan[d].listening
                 /\ lan'[d].socket = lan[d].socket
                 /\ lan[d].advertising => lan_credit'[d] = lan'[d].accumulator + lan'[d].dt
      <4>1. lan[d] \in LanState /\ lan_credit[d] \in Int
        BY <2>0
      <4>2. PICK t : t = IF lan[d].dt < LanMaxGap THEN lan[d].dt + 1 ELSE lan[d].dt
        OBVIOUS
      <4>3. t \in 0 .. LanMaxGap /\ lan[d].dt \in Nat /\ lan[d].accumulator \in Nat
        BY <4>1, <4>2, LanAssumption DEF LanState
      <4>4. lan'[d] = [lan[d] EXCEPT !.dt = t]
        BY <3>1, <4>2
      <4>5. /\ lan'[d] \in LanState
            /\ lan'[d].advertising = lan[d].advertising
            /\ lan'[d].listening = lan[d].listening
            /\ lan'[d].socket = lan[d].socket
            /\ lan'[d].accumulator = lan[d].accumulator /\ lan'[d].dt = t
        BY <4>1, <4>3, <4>4 DEF LanState
      <4>6. lan_credit'[d] \in Int
        BY <3>1, <4>1
      <4>7. lan[d].advertising => lan_credit'[d] = lan[d].accumulator + t
        BY <3>1, <4>2, <4>3, <2>i
      <4> QED BY <4>5, <4>6, <4>7
    <3>3. lan' \in [Discos -> LanState] /\ lan_credit' \in [Discos -> Int]
      BY <3>1, <3>2
    <3>4. LanTypeOK'
      BY <3>1, <3>3 DEF LanInv, LanTypeOK
    <3>5. LanSocket'
      BY <3>2, <2>i DEF LanSocket
    <3> QED BY <3>2, <3>4, <3>5, <2>i DEF LanInv
  <2>10. CASE UNCHANGED lan_vars
    BY <2>10 DEF lan_vars, LanInv, LanTypeOK, LanSocket
  <2>11. 0 \in LanPlayers
    BY LanAssumption
  <2> QED BY <2>1, <2>2, <2>3, <2>5, <2>6, <2>7, <2>8, <2>9, <2>10, <2>11 DEF LanNext
<1>3. LanInv => LanRate
  <2> SUFFICES ASSUME LanInv, NEW d \in Discos, lan[d].advertising PROVE lan_credit[d] >= 0
    BY DEF LanRate
  <2>1. lan[d].accumulator \in Nat /\ lan[d].dt \in Nat
    BY LanAssumption DEF LanInv, LanTypeOK, LanState
  <2> QED BY <2>1 DEF LanInv
<1> QED
  <2>1. LanInv => LanTypeOK /\ LanSocket
    BY DEF LanInv
  <2> QED BY <1>1, <1>2, <1>3, <2>1, PTL DEF LanSpec

-----------------------------------------------------------------------------
(* EmscriptenWebSocketTransport.                                           *)

\* The messages with bytes, of one queue and of two.
LEMMA PayloadType ==
  ASSUME NEW s \in Seq(WsMessage)
  PROVE  /\ WsPayload(s) \in Seq(WsMessage)
         /\ \A k \in DOMAIN WsPayload(s) : ~ WsPayload(s)[k].empty
<1> DEFINE at == {k \in DOMAIN s : ~ s[k].empty}
<1>1. at \subseteq DOMAIN s /\ \A k \in at : ~ s[k].empty
  OBVIOUS
<1>2. WsPayload(s) = Kept(s, at)
  BY DEF WsPayload
<1> HIDE DEF at
<1>3. /\ Kept(s, at) \in Seq(WsMessage)
      /\ DOMAIN Kept(s, at) = 1 .. Cardinality(at)
      /\ \A k \in 1 .. Cardinality(at) :
           Nth(at, k) \in at /\ Kept(s, at)[k] = s[Nth(at, k)]
  BY <1>1, KeptType
<1> QED BY <1>1, <1>2, <1>3

\* The messages that are not empty, of two queues one behind the other.
LEMMA PayloadConcat ==
  ASSUME NEW s \in Seq(WsMessage), NEW t \in Seq(WsMessage)
  PROVE  WsPayload(s \o t) = WsPayload(s) \o WsPayload(t)
<1> DEFINE I == {k \in DOMAIN s : ~ s[k].empty}
           J == {k \in DOMAIN t : ~ t[k].empty}
           K == {k \in DOMAIN (s \o t) : ~ (s \o t)[k].empty}
<1>0. /\ Len(s) \in Nat /\ DOMAIN s = 1 .. Len(s)
      /\ Len(t) \in Nat /\ DOMAIN t = 1 .. Len(t)
  BY LenProperties
<1>1. /\ s \o t \in Seq(WsMessage) /\ Len(s \o t) = Len(s) + Len(t)
      /\ \A i \in 1 .. Len(s) + Len(t) :
           (s \o t)[i] = IF i <= Len(s) THEN s[i] ELSE t[i - Len(s)]
  BY ConcatProperties
<1>2. DOMAIN (s \o t) = 1 .. Len(s) + Len(t)
  BY <1>1, LenProperties
<1>3. \A i \in DOMAIN s : i \in K <=> i \in I
  <2> SUFFICES ASSUME NEW i \in DOMAIN s PROVE i \in K <=> i \in I
    OBVIOUS
  <2>1. i \in 1 .. Len(s) + Len(t) /\ i <= Len(s)
    BY <1>0
  <2> QED BY <2>1, <1>1, <1>2
<1>4. \A j \in DOMAIN t : Len(s) + j \in K <=> j \in J
  <2> SUFFICES ASSUME NEW j \in DOMAIN t PROVE Len(s) + j \in K <=> j \in J
    OBVIOUS
  <2>1. /\ Len(s) + j \in 1 .. Len(s) + Len(t) /\ ~ (Len(s) + j <= Len(s))
        /\ (Len(s) + j) - Len(s) = j
    BY <1>0
  <2>2. (s \o t)[Len(s) + j] = t[j]
    BY <2>1, <1>1
  <2> QED BY <2>1, <2>2, <1>2
<1>5. I \subseteq DOMAIN s /\ J \subseteq DOMAIN t /\ K = Behind(I, s, J)
  <2>1. I \subseteq DOMAIN s /\ J \subseteq DOMAIN t /\ K \subseteq 1 .. Len(s) + Len(t)
    BY <1>2
  <2>2. ASSUME NEW k \in K PROVE k \in I \/ \E j \in J : k = Len(s) + j
    <3>1. k \in 1 .. Len(s) + Len(t)
      BY <2>1
    <3>2. CASE k <= Len(s)
      <4>1. k \in DOMAIN s
        BY <3>1, <3>2, <1>0
      <4> QED BY <4>1, <1>3
    <3>3. CASE ~ (k <= Len(s))
      <4>1. k - Len(s) \in DOMAIN t /\ Len(s) + (k - Len(s)) = k
        BY <3>1, <3>3, <1>0
      <4>2. k - Len(s) \in J
        BY <4>1, <1>4
      <4> QED BY <4>1, <4>2
    <3> QED BY <3>2, <3>3
  <2>3. ASSUME NEW i \in I PROVE i \in K
    BY <1>3
  <2>4. ASSUME NEW j \in J PROVE Len(s) + j \in K
    BY <1>4
  <2> HIDE DEF I, J, K
  <2> QED BY <2>1, <2>2, <2>3, <2>4 DEF Behind
<1>6. WsPayload(s) = Kept(s, I) /\ WsPayload(t) = Kept(t, J)
      /\ WsPayload(s \o t) = Kept(s \o t, K)
  BY DEF WsPayload
<1> HIDE DEF I, J, K
<1>7. Kept(s \o t, K) = Kept(s, I) \o Kept(t, J)
  BY <1>5, KeptConcat
<1> QED BY <1>6, <1>7

\* Where no message is empty all are payload.
LEMMA PayloadPure ==
  ASSUME NEW s \in Seq(WsMessage), \A k \in DOMAIN s : ~ s[k].empty
  PROVE  WsPayload(s) = s
<1>1. {k \in DOMAIN s : ~ s[k].empty} = DOMAIN s
  OBVIOUS
<1> QED BY <1>1, KeptAll DEF WsPayload

\* The loop of poll() ends inside the queue.
LEMMA WsDrainedType ==
  ASSUME NEW queue \in Seq(WsMessage)
  PROVE  /\ WsDrained(queue) \in 0 .. Len(queue)
         /\ \A j \in 1 .. WsDrained(queue) - 1 : ~ queue[j].empty
<1>0. Len(queue) \in Nat /\ DOMAIN queue = 1 .. Len(queue)
  BY LenProperties
<1>1. CASE \E k \in DOMAIN queue : queue[k].empty
  <2> DEFINE T == {k \in DOMAIN queue : queue[k].empty}
  <2>1. T \subseteq Nat /\ T # {}
    BY <1>0, <1>1
  <2>2. PICK k \in T : \A y \in T : k <= y
    <3> HIDE DEF T
    <3> QED BY <2>1, LeastMember
  <2>3. k \in DOMAIN queue /\ queue[k].empty /\ \A j \in 1 .. k - 1 : ~ queue[j].empty
    <3>1. \A j \in 1 .. k - 1 : j \in DOMAIN queue /\ ~ (k <= j)
      BY <2>2, <1>0
    <3> QED BY <3>1, <2>2
  <2> DEFINE d == CHOOSE i \in DOMAIN queue :
                    queue[i].empty /\ \A j \in 1 .. i - 1 : ~ queue[j].empty
  <2>4. d \in DOMAIN queue /\ queue[d].empty /\ \A j \in 1 .. d - 1 : ~ queue[j].empty
    BY <2>3, Zenon
  <2>5. WsDrained(queue) = d
    BY <1>1 DEF WsDrained
  <2> HIDE DEF d
  <2> QED BY <2>4, <2>5, <1>0
<1>2. CASE ~ \E k \in DOMAIN queue : queue[k].empty
  <2>1. WsDrained(queue) = Len(queue)
    BY <1>2 DEF WsDrained
  <2> QED BY <2>1, <1>0, <1>2
<1> QED BY <1>1, <1>2

\* What waits for the application: popped, readable and in the browser.
WsAll == ws_popped \o SubSeq(ws_recv_queue, ws_read_idx + 1, Len(ws_recv_queue)) \o ws_js_queue

\* WsStream needs no strengthening.
WsInv == WebSocketTypeOK /\ WsStream

\* The unread part of the queue.
LEMMA UnreadType ==
  ASSUME NEW s \in Seq(WsMessage), NEW i \in 0 .. Len(s)
  PROVE  SubSeq(s, i + 1, Len(s)) \in Seq(WsMessage)
<1>1. Len(s) \in Nat /\ \A k \in 1 .. Len(s) : s[k] \in WsMessage
  BY LenProperties, ElementOfSeq
<1>2. \A k \in i + 1 .. Len(s) : s[k] \in WsMessage
  BY <1>1
<1> QED BY <1>1, <1>2, SubSeqProperties

\* What arrives behind a queue is behind its unread part.
LEMMA UnreadConcat ==
  ASSUME NEW r \in Seq(WsMessage), NEW q \in Seq(WsMessage), NEW i \in 0 .. Len(r)
  PROVE  SubSeq(r \o q, i + 1, Len(r \o q)) = SubSeq(r, i + 1, Len(r)) \o q
<1> DEFINE rest == SubSeq(r, i + 1, Len(r))
           b == rest \o q
           n == Len(r) + Len(q)
<1>1. Len(r) \in Nat /\ Len(q) \in Nat /\ n \in Nat /\ i \in Nat /\ i <= Len(r)
  BY LenProperties
<1>2. /\ r \o q \in Seq(WsMessage) /\ Len(r \o q) = n
      /\ \A k \in 1 .. n : (r \o q)[k] = IF k <= Len(r) THEN r[k] ELSE q[k - Len(r)]
  BY ConcatProperties
<1>3. /\ rest \in Seq(WsMessage) /\ Len(rest) = Len(r) - i
      /\ \A k \in 1 .. Len(r) - i : rest[k] = r[i + k]
  <2>1. \A k \in i + 1 .. Len(r) : r[k] \in WsMessage
    BY <1>1, ElementOfSeq
  <2>2. i + 1 \in Int /\ Len(r) \in Int
    BY <1>1
  <2>3. /\ rest \in Seq(WsMessage)
        /\ Len(rest) = IF i + 1 <= Len(r) THEN Len(r) - (i + 1) + 1 ELSE 0
        /\ \A k \in 1 .. Len(r) - (i + 1) + 1 : rest[k] = r[(i + 1) + k - 1]
    BY <2>1, <2>2, SubSeqProperties
  <2>4. \A k \in 1 .. Len(r) - i : k \in 1 .. Len(r) - (i + 1) + 1 /\ (i + 1) + k - 1 = i + k
    BY <1>1
  <2> HIDE DEF rest
  <2> QED BY <2>3, <2>4, <1>1
<1>4. /\ b \in Seq(WsMessage) /\ Len(b) = n - i
      /\ \A k \in 1 .. n - i : b[k] = IF k <= Len(r) - i THEN rest[k] ELSE q[k - (Len(r) - i)]
  <2> HIDE DEF rest
  <2>1. /\ b \in Seq(WsMessage) /\ Len(b) = Len(rest) + Len(q)
        /\ \A k \in 1 .. Len(rest) + Len(q) :
             b[k] = IF k <= Len(rest) THEN rest[k] ELSE q[k - Len(rest)]
    BY <1>3, ConcatProperties
  <2>2. Len(rest) + Len(q) = n - i
    BY <1>1, <1>3
  <2> HIDE DEF b, n
  <2> QED BY <2>1, <2>2, <1>3
<1> DEFINE c == SubSeq(r \o q, i + 1, n)
<1>5. /\ c \in Seq(WsMessage) /\ Len(c) = n - i
      /\ \A k \in 1 .. n - i : c[k] = (r \o q)[i + k]
  <2>1. \A k \in i + 1 .. n : (r \o q)[k] \in WsMessage
    BY <1>1, <1>2, ElementOfSeq
  <2>2. i + 1 \in Int /\ n \in Int
    BY <1>1
  <2> HIDE DEF n
  <2>3. /\ c \in Seq(WsMessage)
        /\ Len(c) = IF i + 1 <= n THEN n - (i + 1) + 1 ELSE 0
        /\ \A k \in 1 .. n - (i + 1) + 1 : c[k] = (r \o q)[(i + 1) + k - 1]
    <3>1. PICK w : w = r \o q
      OBVIOUS
    <3>2. \A k \in i + 1 .. n : w[k] \in WsMessage
      BY <3>1, <2>1
    <3>3. /\ SubSeq(w, i + 1, n) \in Seq(WsMessage)
          /\ Len(SubSeq(w, i + 1, n)) = IF i + 1 <= n THEN n - (i + 1) + 1 ELSE 0
          /\ \A k \in 1 .. n - (i + 1) + 1 : SubSeq(w, i + 1, n)[k] = w[(i + 1) + k - 1]
      BY <3>2, <2>2, SubSeqProperties
    <3> QED BY <3>1, <3>3
  <2>4. \A k \in 1 .. n - i : k \in 1 .. n - (i + 1) + 1 /\ (i + 1) + k - 1 = i + k
    BY <1>1
  <2>5. i <= n
    BY <1>1 DEF n
  <2>6. n \in Nat
    BY <1>1
  <2> HIDE DEF c
  <2>8. \A k \in 1 .. n - i : c[k] = (r \o q)[i + k]
    BY <2>3, <2>4
  <2>9. Len(c) = n - i
    <3>1. Len(c) = IF i + 1 <= n THEN n - (i + 1) + 1 ELSE 0
      BY <2>3
    <3>2. CASE i + 1 <= n
      BY <3>1, <3>2, <1>1, <2>6
    <3>3. CASE ~ (i + 1 <= n)
      BY <3>1, <3>3, <1>1, <2>5, <2>6
    <3> QED BY <3>2, <3>3
  <2> QED BY <2>3, <2>8, <2>9, Zenon
<1> HIDE DEF b, c, rest
<1>6. \A k \in 1 .. n - i : c[k] = b[k]
  <2> SUFFICES ASSUME NEW k \in 1 .. n - i PROVE c[k] = b[k]
    OBVIOUS
  <2>1. c[k] = (r \o q)[i + k] /\ i + k \in 1 .. n
    BY <1>1, <1>5
  <2>2. CASE k <= Len(r) - i
    BY <2>1, <2>2, <1>1, <1>2, <1>3, <1>4
  <2>3. CASE ~ (k <= Len(r) - i)
    <3>1. (i + k) - Len(r) = k - (Len(r) - i) /\ ~ (i + k <= Len(r))
      BY <2>3, <1>1
    <3> QED BY <2>1, <2>3, <3>1, <1>1, <1>2, <1>4
  <2> QED BY <2>2, <2>3
<1>7. c = b
  <2> HIDE DEF n
  <2> QED BY <1>4, <1>5, <1>6, SeqEqual
<1> QED BY <1>2, <1>7 DEF b, c, rest

\* A step that takes a message off the front and puts it behind what was popped.
LEMMA MoveOne ==
  ASSUME NEW p \in Seq(WsMessage), NEW r \in Seq(WsMessage), NEW j \in Seq(WsMessage),
         NEW i \in 0 .. Len(r), i < Len(r)
  PROVE  /\ Append(p, r[i + 1]) \in Seq(WsMessage)
         /\ Append(p, r[i + 1]) \o SubSeq(r, i + 2, Len(r)) \o j
              = p \o SubSeq(r, i + 1, Len(r)) \o j
<1>0. Len(r) \in Nat /\ i + 1 \in 1 .. Len(r) /\ Len(r) \in i + 1 .. Len(r)
      /\ i + 1 \in 0 .. Len(r) /\ (i + 1) + 1 = i + 2
  BY LenProperties
<1>1. r[i + 1] \in WsMessage
  BY <1>0, ElementOfSeq
<1> DEFINE m == r[i + 1]
           rest == SubSeq(r, i + 2, Len(r))
<1>2. SubSeq(r, i + 1, Len(r)) = <<m>> \o rest
  BY <1>0, SubSeqRecursiveFirst
<1>3. rest \in Seq(WsMessage)
  BY <1>0, UnreadType
<1>4. Append(p, m) = p \o <<m>> /\ Append(p, m) \in Seq(WsMessage)
  BY <1>1, AppendIsConcat, AppendProperties
<1>5. <<m>> \in Seq(WsMessage)
  BY <1>1
<1> HIDE DEF m, rest
<1>6. (p \o <<m>>) \o rest = p \o (<<m>> \o rest)
  BY <1>3, <1>5, ConcatAssociative, SMTT(30)
<1> QED BY <1>2, <1>4, <1>6 DEF m, rest

\* EmscriptenWebSocketTransport::poll and pop_receive keep the stream of messages,
\* whatever the browser, the server and the application do in between.
THEOREM WsStreamHolds == WebSocketSpec => [](WebSocketTypeOK /\ WsStream)
<1>1. WebSocketInit => WsInv
  <2> SUFFICES ASSUME WebSocketInit PROVE WsInv
    OBVIOUS
  <2>1. << >> \in Seq(WsMessage) /\ Len(<< >>) = 0
    BY EmptySeq
  <2>b. ws_connecting \in BOOLEAN /\ ws_connected \in BOOLEAN
    BY Zenon DEF WebSocketInit
  <2>2. WebSocketTypeOK
    BY <2>1, <2>b DEF WebSocketInit, WebSocketTypeOK
  <2>3. SubSeq(<< >>, 0 + 1, Len(<< >>)) = << >>
    BY <2>1, SubSeqEmpty
  <2>4. << >> \o << >> \o << >> = << >>
    BY <2>1, ConcatEmptySeq
  <2>5. WsStream
    BY <2>3, <2>4 DEF WebSocketInit, WsStream
  <2> QED BY <2>2, <2>5 DEF WsInv
<1>2. WsInv /\ [WebSocketNext]_ws_vars => WsInv'
  <2> SUFFICES ASSUME WsInv, [WebSocketNext]_ws_vars PROVE WsInv'
    OBVIOUS
  <2> USE DEF WsInv
  <2>a. /\ WebSocketTypeOK
        /\ WsPayload(WsAll) = WsPayload(ws_sent)
    BY DEF WsStream, WsAll
  <2>0. Len(ws_sent) \in Nat /\ Len(ws_recv_queue) \in Nat /\ Len(ws_js_queue) \in Nat
    BY <2>a, LenProperties DEF WebSocketTypeOK
  <2>r. SubSeq(ws_recv_queue, ws_read_idx + 1, Len(ws_recv_queue)) \in Seq(WsMessage)
    BY <2>a, UnreadType DEF WebSocketTypeOK
  <2>1. ASSUME ws_open \/ ws_onclose PROVE WsInv'
    BY <2>1 DEF ws_open, ws_onclose, WebSocketTypeOK, WsStream
  <2>2. ASSUME NEW empty \in BOOLEAN, ws_onmessage(empty) PROVE WsInv'
    <3> DEFINE m == [n |-> Len(ws_sent) + 1, empty |-> empty]
               rest == SubSeq(ws_recv_queue, ws_read_idx + 1, Len(ws_recv_queue))
    <3>1. m \in WsMessage
      <4>1. Len(ws_sent) + 1 \in 1 .. WsMaxMessages
        BY <2>2, <2>0, WsAssumption DEF ws_onmessage
      <4> QED BY <4>1 DEF WsMessage
    <3>2. ws_sent' = Append(ws_sent, m) /\ ws_js_queue' = Append(ws_js_queue, m)
          /\ UNCHANGED <<ws_handle, ws_state, ws_connecting, ws_connected, ws_recv_queue,
                         ws_read_idx, ws_popped>>
      BY <2>2 DEF ws_onmessage
    <3> HIDE DEF m
    <3>3. /\ ws_sent' = ws_sent \o <<m>> /\ ws_sent' \in Seq(WsMessage)
          /\ ws_js_queue' = ws_js_queue \o <<m>> /\ ws_js_queue' \in Seq(WsMessage)
      BY <3>1, <3>2, <2>a, AppendIsConcat, AppendProperties DEF WebSocketTypeOK
    <3>4. WebSocketTypeOK'
      BY <3>2, <3>3, <2>a DEF WebSocketTypeOK
    <3>5. <<m>> \in Seq(WsMessage) /\ rest \in Seq(WsMessage)
          /\ ws_popped \in Seq(WsMessage) /\ ws_js_queue \in Seq(WsMessage)
          /\ ws_sent \in Seq(WsMessage)
      BY <3>1, <2>r, <2>a DEF WebSocketTypeOK
    <3>6. WsAll' = WsAll \o <<m>> /\ WsAll \in Seq(WsMessage)
      <4>1. WsAll' = (ws_popped \o rest) \o (ws_js_queue \o <<m>>)
        BY <3>2, <3>3 DEF WsAll
      <4>2. WsAll = (ws_popped \o rest) \o ws_js_queue
        BY DEF WsAll
      <4> HIDE DEF rest
      <4>3. ws_popped \o rest \in Seq(WsMessage)
        BY <3>5, ConcatProperties
      <4> QED BY <4>1, <4>2, <4>3, <3>5, ConcatAssociative, ConcatProperties, SMTT(30)
    <3>7. WsPayload(WsAll') = WsPayload(WsAll) \o WsPayload(<<m>>)
          /\ WsPayload(ws_sent') = WsPayload(ws_sent) \o WsPayload(<<m>>)
      BY <3>3, <3>5, <3>6, PayloadConcat
    <3>8. WsStream'
      BY <3>7, <2>a DEF WsStream, WsAll
    <3> QED BY <3>4, <3>8
  <2>3. ASSUME (\E next \in WsHandle \ {ws_handle} : ws_connect(next)) \/ ws_disconnect
        PROVE  WsInv'
    <3>1. << >> \in Seq(WsMessage) /\ Len(<< >>) = 0
      BY EmptySeq
    <3>2. /\ ws_js_queue' = << >> /\ ws_recv_queue' = << >> /\ ws_read_idx' = 0
          /\ ws_sent' = << >> /\ ws_popped' = << >>
      BY <2>3 DEF ws_connect, ws_disconnect
    <3>b. ws_connecting' \in BOOLEAN /\ ws_connected' \in BOOLEAN
      BY <2>3, Zenon DEF ws_connect, ws_disconnect
    <3>3. WebSocketTypeOK'
      <4>1. ws_handle' \in WsHandle \cup {0}
            /\ ws_state' \in {"CONNECTING", "OPEN", "CLOSING", "CLOSED"}
        BY <2>3 DEF ws_connect, ws_disconnect
      <4>2. ws_read_idx' \in 0 .. Len(ws_recv_queue')
        BY <3>1, <3>2
      <4> QED BY <4>1, <4>2, <3>1, <3>2, <3>b DEF WebSocketTypeOK
    <3>4. SubSeq(<< >>, 0 + 1, Len(<< >>)) = << >>
      BY <3>1, SubSeqEmpty
    <3>5. << >> \o << >> \o << >> = << >>
      BY <3>1, ConcatEmptySeq
    <3>6. WsStream'
      BY <3>2, <3>4, <3>5 DEF WsStream
    <3> QED BY <3>3, <3>6
  <2>4. CASE ws_poll
    <3> DEFINE d == WsDrained(ws_js_queue)
               taken == SubSeq(ws_js_queue, 1, d)
               left == SubSeq(ws_js_queue, d + 1, Len(ws_js_queue))
               rest == SubSeq(ws_recv_queue, ws_read_idx + 1, Len(ws_recv_queue))
    <3>0. /\ ws_popped \in Seq(WsMessage) /\ ws_js_queue \in Seq(WsMessage)
          /\ ws_sent \in Seq(WsMessage) /\ ws_recv_queue \in Seq(WsMessage)
          /\ ws_read_idx \in 0 .. Len(ws_recv_queue) /\ rest \in Seq(WsMessage)
      BY <2>a, <2>r DEF WebSocketTypeOK
    <3>1. d \in 0 .. Len(ws_js_queue)
      BY <3>0, WsDrainedType
    <3>b. ws_connected' \in BOOLEAN /\ ws_connecting' \in BOOLEAN
      BY <2>4, <2>a, Zenon DEF ws_poll, WsConnectedAfterPoll, WebSocketTypeOK
    <3>u. UNCHANGED <<ws_handle, ws_state, ws_read_idx, ws_sent, ws_popped>>
      BY <2>4 DEF ws_poll
    <3>2. CASE ~ WsConnectedAfterPoll
      <4>1. UNCHANGED <<ws_recv_queue, ws_js_queue>>
        BY <3>2, <2>4 DEF ws_poll
      <4> QED BY <4>1, <3>b, <3>u, <2>a DEF WebSocketTypeOK, WsStream
    <3>3. CASE WsConnectedAfterPoll
      <4>0. Len(ws_js_queue) \in Nat
        BY <2>0
      <4>1. taken \in Seq(WsMessage) /\ Len(taken) = d
        <5>1. \A k \in 1 .. d : ws_js_queue[k] \in WsMessage
          BY <3>0, <3>1, <4>0, ElementOfSeq
        <5> HIDE DEF d
        <5>2. d \in Int /\ 1 \in Int /\ (IF 1 <= d THEN d - 1 + 1 ELSE 0) = d
          BY <3>1, <4>0
        <5> QED BY <5>1, <5>2, SubSeqProperties
      <4>2. ws_recv_queue' = ws_recv_queue \o WsPayload(taken) /\ ws_js_queue' = left
        BY <2>4, <3>3, <4>1 DEF ws_poll
      <4>3. left \in Seq(WsMessage)
        <5> HIDE DEF d
        <5> QED BY <3>0, <3>1, UnreadType
      <4>4. ws_js_queue = taken \o left
        <5> HIDE DEF d
        <5>1. /\ 1 \in 1 .. Len(ws_js_queue) + 1
              /\ d \in (1 - 1) .. Len(ws_js_queue)
              /\ Len(ws_js_queue) \in d .. Len(ws_js_queue)
          BY <3>1, <4>0
        <5>2. taken \o left = SubSeq(ws_js_queue, 1, Len(ws_js_queue))
          BY <3>0, <5>1, ConcatAdjacentSubSeq
        <5> QED BY <3>0, <5>2, SubSeqFull
      <4> HIDE DEF taken, left, d
      <4>5. /\ WsPayload(taken) \in Seq(WsMessage)
            /\ \A k \in DOMAIN WsPayload(taken) : ~ WsPayload(taken)[k].empty
        BY <4>1, PayloadType
      <4> DEFINE q == WsPayload(taken)
      <4> HIDE DEF q
      <4>6. q \in Seq(WsMessage) /\ WsPayload(q) = q
        BY <4>5, PayloadPure DEF q
      <4>7. ws_recv_queue' = ws_recv_queue \o q /\ ws_recv_queue' \in Seq(WsMessage)
            /\ Len(ws_recv_queue') = Len(ws_recv_queue) + Len(q) /\ Len(q) \in Nat
        BY <4>2, <4>6, <3>0, ConcatProperties, LenProperties DEF q
      <4>8. WebSocketTypeOK'
        <5>1. ws_read_idx' \in 0 .. Len(ws_recv_queue')
          BY <4>7, <3>0, <3>u, <2>0
        <5> QED BY <5>1, <4>2, <4>3, <4>7, <3>b, <3>u, <2>a DEF WebSocketTypeOK
      <4>9. SubSeq(ws_recv_queue', ws_read_idx' + 1, Len(ws_recv_queue')) = rest \o q
        <5>1. SubSeq(ws_recv_queue \o q, ws_read_idx + 1, Len(ws_recv_queue \o q)) = rest \o q
          BY <3>0, <4>6, UnreadConcat
        <5> QED BY <5>1, <4>7, <3>u
      <4> HIDE DEF rest
      <4>10. WsAll' = ws_popped \o (rest \o q) \o left
        BY <4>2, <4>9, <3>u DEF WsAll
      <4>11. WsAll = ws_popped \o rest \o (taken \o left)
        BY <4>4 DEF WsAll, rest
      <4>12. /\ WsPayload(WsAll') = WsPayload(ws_popped)
                  \o (WsPayload(rest) \o WsPayload(q)) \o WsPayload(left)
             /\ WsPayload(WsAll) = WsPayload(ws_popped)
                  \o WsPayload(rest) \o (WsPayload(taken) \o WsPayload(left))
        <5>1. /\ rest \o q \in Seq(WsMessage) /\ ws_popped \o (rest \o q) \in Seq(WsMessage)
              /\ taken \o left \in Seq(WsMessage) /\ ws_popped \o rest \in Seq(WsMessage)
          BY <3>0, <4>1, <4>3, <4>6, ConcatProperties
        <5>2. WsPayload(WsAll') = WsPayload(ws_popped \o (rest \o q)) \o WsPayload(left)
          BY <5>1, <4>3, <4>10, PayloadConcat
        <5>3. WsPayload(ws_popped \o (rest \o q)) = WsPayload(ws_popped) \o WsPayload(rest \o q)
          BY <5>1, <3>0, PayloadConcat
        <5>4. WsPayload(rest \o q) = WsPayload(rest) \o WsPayload(q)
          BY <3>0, <4>6, PayloadConcat
        <5>5. WsPayload(WsAll) = WsPayload(ws_popped \o rest) \o WsPayload(taken \o left)
          BY <5>1, <4>11, PayloadConcat
        <5>6. /\ WsPayload(ws_popped \o rest) = WsPayload(ws_popped) \o WsPayload(rest)
              /\ WsPayload(taken \o left) = WsPayload(taken) \o WsPayload(left)
          BY <3>0, <4>1, <4>3, PayloadConcat
        <5> QED BY <5>2, <5>3, <5>4, <5>5, <5>6
      <4>13. WsPayload(WsAll') = WsPayload(WsAll)
        <5> DEFINE A == WsPayload(ws_popped)
                   B == WsPayload(rest)
                   C == WsPayload(taken)
                   D == WsPayload(left)
        <5>1. A \in Seq(WsMessage) /\ B \in Seq(WsMessage) /\ C \in Seq(WsMessage)
              /\ D \in Seq(WsMessage)
          BY <3>0, <4>1, <4>3, PayloadType
        <5>2. WsPayload(q) = C
          BY <4>6 DEF q
        <5>3. WsPayload(WsAll') = A \o (B \o C) \o D /\ WsPayload(WsAll) = A \o B \o (C \o D)
          BY <4>12, <5>2
        <5> HIDE DEF A, B, C, D
        <5>4. A \o (B \o C) = (A \o B) \o C /\ A \o B \in Seq(WsMessage)
          BY <5>1, ConcatAssociative, ConcatProperties, SMTT(30)
        <5>5. ((A \o B) \o C) \o D = (A \o B) \o (C \o D)
          <6>1. PICK X \in Seq(WsMessage) : X = A \o B
            BY <5>4
          <6>2. (X \o C) \o D = X \o (C \o D)
            BY <5>1, ConcatAssociative, SMTT(30)
          <6> QED BY <6>1, <6>2
        <5> QED BY <5>3, <5>4, <5>5
      <4>14. WsStream'
        BY <4>13, <3>u, <2>a DEF WsStream, WsAll
      <4> QED BY <4>8, <4>14
    <3> QED BY <3>2, <3>3
  <2>5. CASE ws_pop_receive
    <3>0. /\ ws_popped \in Seq(WsMessage) /\ ws_js_queue \in Seq(WsMessage)
          /\ ws_recv_queue \in Seq(WsMessage)
          /\ ws_read_idx \in 0 .. Len(ws_recv_queue)
      BY <2>a DEF WebSocketTypeOK
    <3>u. UNCHANGED <<ws_handle, ws_state, ws_js_queue, ws_connecting, ws_connected, ws_sent>>
      BY <2>5 DEF ws_pop_receive
    <3>1. CASE ws_read_idx >= Len(ws_recv_queue)
      <4>1. ws_recv_queue' = << >> /\ ws_read_idx' = 0 /\ ws_popped' = ws_popped
        BY <2>5, <3>1 DEF ws_pop_receive
      <4>2. << >> \in Seq(WsMessage) /\ Len(<< >>) = 0
        BY EmptySeq
      <4>3. WebSocketTypeOK'
        BY <4>1, <4>2, <3>u, <2>a DEF WebSocketTypeOK
      <4>4. SubSeq(ws_recv_queue, ws_read_idx + 1, Len(ws_recv_queue)) = << >>
        BY <3>0, <3>1, <2>0, SubSeqEmpty
      <4>5. SubSeq(<< >>, 0 + 1, Len(<< >>)) = << >>
        BY <4>2, SubSeqEmpty
      <4>6. WsStream'
        BY <4>1, <4>4, <4>5, <3>u, <2>a DEF WsStream, WsAll
      <4> QED BY <4>3, <4>6
    <3>2. CASE ~ (ws_read_idx >= Len(ws_recv_queue))
      <4>1. /\ ws_read_idx' = ws_read_idx + 1 /\ ws_recv_queue' = ws_recv_queue
            /\ ws_popped' = Append(ws_popped, ws_recv_queue[ws_read_idx + 1])
        BY <2>5, <3>2 DEF ws_pop_receive
      <4>2. ws_read_idx < Len(ws_recv_queue) /\ (ws_read_idx + 1) + 1 = ws_read_idx + 2
        BY <3>0, <3>2, <2>0
      <4>3. /\ ws_popped' \in Seq(WsMessage)
            /\ ws_popped' \o SubSeq(ws_recv_queue, ws_read_idx + 2, Len(ws_recv_queue))
                 \o ws_js_queue = WsAll
        BY <3>0, <4>1, <4>2, MoveOne DEF WsAll
      <4>4. WebSocketTypeOK'
        <5>1. ws_read_idx' \in 0 .. Len(ws_recv_queue')
          BY <3>0, <4>1, <4>2, <2>0
        <5> QED BY <5>1, <4>1, <4>3, <3>u, <2>a DEF WebSocketTypeOK
      <4>5. WsAll' = WsAll
        BY <4>1, <4>2, <4>3, <3>u DEF WsAll
      <4>6. WsStream'
        BY <4>5, <3>u, <2>a DEF WsStream, WsAll
      <4> QED BY <4>4, <4>6
    <3> QED BY <3>1, <3>2
  <2>6. CASE UNCHANGED ws_vars
    BY <2>6 DEF ws_vars, WebSocketTypeOK, WsStream
  <2> QED BY <2>1, <2>2, <2>3, <2>4, <2>5, <2>6 DEF WebSocketNext
<1> QED BY <1>1, <1>2, PTL DEF WebSocketSpec, WsInv

-----------------------------------------------------------------------------
(* LoopbackTransport: the ports of the hub.                                *)

\* The port the hub gives to the i-th client, counted from 0, while the ports have
\* not come round.
LbPortOf(i) == (LbFirstPort + i) % LbPortCount

\* The hub does not give a port twice and gives none that an application binds.
LbPortsApart ==
  /\ LbMaxConnects <= LbPortCount
  /\ \A i \in 0 .. LbMaxConnects - 1 : LbPortOf(i) \notin LbServerPorts

\* The ports given to the first i clients.
LbGiven(i) == {LbPortOf(j) : j \in 0 .. i - 1}

\* A port number wraps at most once.
LEMMA LbWrap ==
  ASSUME NEW x \in Nat, x < 2 * LbPortCount
  PROVE  x % LbPortCount = IF x < LbPortCount THEN x ELSE x - LbPortCount
<1>1. LbPortCount \in Nat /\ LbPortCount > 0
  BY LbAssumption
<1>2. CASE x < LbPortCount
  BY <1>1, <1>2
<1>3. CASE x >= LbPortCount
  <2>1. x = LbPortCount * 1 + (x - LbPortCount)
    BY <1>1
  <2> QED BY <1>1, <1>3, <2>1
<1> QED BY <1>1, <1>2, <1>3

\* The ports are ports, all different, each the next after the one before.
LEMMA LbPorts ==
  ASSUME NEW i \in 0 .. LbPortCount
  PROVE  /\ LbPortOf(i) \in LbPort
         /\ i < LbPortCount => LbPortOf(i + 1) = (LbPortOf(i) + 1) % LbPortCount
         /\ i < LbPortCount => LbPortOf(i) \notin LbGiven(i)
         /\ LbGiven(i) \subseteq LbPort
         /\ LbGiven(i + 1) = LbGiven(i) \cup {LbPortOf(i)}
<1>1. LbPortCount \in Nat /\ LbPortCount > 0 /\ LbFirstPort \in 0 .. LbPortCount - 1
  BY LbAssumption
<1>2. \A j \in 0 .. LbPortCount :
        LbPortOf(j) = IF LbFirstPort + j < LbPortCount THEN LbFirstPort + j
                      ELSE LbFirstPort + j - LbPortCount
  BY <1>1, LbWrap DEF LbPortOf
<1>3. \A j \in 0 .. LbPortCount : LbPortOf(j) \in LbPort
  BY <1>1, <1>2 DEF LbPort
<1>4. ASSUME i < LbPortCount
      PROVE  LbPortOf(i + 1) = (LbPortOf(i) + 1) % LbPortCount
  <2>1. LbPortOf(i) + 1 \in Nat /\ LbPortOf(i) + 1 < 2 * LbPortCount
    BY <1>1, <1>2
  <2>2. i + 1 \in 0 .. LbPortCount
    BY <1>1, <1>4
  <2>3. PICK p \in Nat : p = LbPortOf(i) + 1 /\ p < 2 * LbPortCount
    BY <2>1
  <2>4. p % LbPortCount = IF p < LbPortCount THEN p ELSE p - LbPortCount
    BY <2>3, LbWrap
  <2> QED BY <1>1, <1>2, <1>4, <2>2, <2>3, <2>4
<1>5. ASSUME i < LbPortCount, NEW j \in 0 .. i - 1
      PROVE  LbPortOf(i) # LbPortOf(j)
  BY <1>1, <1>2, <1>5
<1>6. \A j \in 0 .. i - 1 : LbPortOf(j) \in LbPort
  BY <1>1, <1>3
<1>7. 0 .. (i + 1) - 1 = (0 .. i - 1) \cup {i}
  BY <1>1
<1> QED BY <1>3, <1>4, <1>5, <1>6, <1>7 DEF LbGiven

\* When the next port is not taken the client gets it.
LEMMA FreePortIsNext ==
  ASSUME lb_next_port \in LbPort, lb_next_port \notin DOMAIN lb_clients
  PROVE  FreePort = lb_next_port
<1> DEFINE after(k) == (lb_next_port + k) % LbPortCount
           P(k) == /\ after(k) \notin DOMAIN lb_clients
                   /\ \A j \in 0 .. k - 1 : after(j) \in DOMAIN lb_clients
<1>1. LbPortCount \in Nat /\ LbPortCount > 0
  BY LbAssumption
<1>2. lb_next_port \in Nat /\ lb_next_port < LbPortCount
  BY <1>1 DEF LbPort
<1>3. after(0) = lb_next_port
  BY <1>1, <1>2, LbWrap
<1>4. 0 \in 0 .. LbPortCount - 1 /\ P(0)
  <2> HIDE DEF after
  <2> QED BY <1>1, <1>3
<1>5. ASSUME NEW k \in 0 .. LbPortCount - 1, P(k)
      PROVE  k = 0
  <2> HIDE DEF after
  <2>1. CASE 0 \in 0 .. k - 1
    BY <1>3, <1>5, <2>1
  <2>2. CASE 0 \notin 0 .. k - 1
    BY <2>2, <1>1
  <2> QED BY <2>1, <2>2
<1>6. (CHOOSE k \in 0 .. LbPortCount - 1 : P(k)) = 0
  <2> HIDE DEF P
  <2> QED BY <1>4, <1>5
<1>7. FreePort = after(CHOOSE k \in 0 .. LbPortCount - 1 : P(k))
  BY DEF FreePort
<1> QED
  <2> HIDE DEF P
  <2> QED BY <1>3, <1>6, <1>7

-----------------------------------------------------------------------------
(* LoopbackTransport: what has arrived.                                    *)

\* What waits to be popped.
LbBox(x) == x.ready_recv \o x.pending_recv

\* b, what has arrived at a transport, is in order: behind what was heard, and each
\* sender's packets increasing and before the packets W of it that still wait; top
\* is the number of the last packet.
LbOrdered(b, h, W, top) ==
  /\ \A s \in LbTransports : h[s] <= top /\ \A n \in W[s] : h[s] < n
  /\ \A k \in DOMAIN b :
       /\ h[b[k].from] < b[k].n /\ b[k].n <= top
       /\ \A n \in W[b[k].from] : b[k].n < n
  /\ \A j, k \in DOMAIN b : j < k /\ b[j].from = b[k].from => b[j].n < b[k].n

\* What each transport has heard of each, and the packets that wait, by sender.
LbHeard == [LbTransports -> 0 .. LbMaxSends]
LbNumbers == [LbTransports -> SUBSET Nat]

\* The fields of the packets of a queue.
LEMMA PacketFields ==
  ASSUME NEW b \in Seq(LbPacket)
  PROVE  \A k \in DOMAIN b : /\ b[k] \in LbPacket /\ b[k].from \in LbTransports
                             /\ b[k].n \in Nat /\ b[k].n >= 1 /\ b[k].sender \in LbAddress
<1>1. \A p \in LbPacket : /\ p.from \in LbTransports /\ p.n \in Nat /\ p.n >= 1
                          /\ p.sender \in LbAddress
  BY LbAssumption DEF LbPacket
<1>2. \A k \in DOMAIN b : b[k] \in LbPacket
  OBVIOUS
<1> QED BY <1>1, <1>2

\* Fewer packets wait: the order stays.
LEMMA OrderedFewer ==
  ASSUME NEW b \in Seq(LbPacket), NEW h \in LbHeard, NEW W \in LbNumbers,
         NEW top \in Nat, LbOrdered(b, h, W, top),
         NEW V \in LbNumbers, \A s \in LbTransports : V[s] \subseteq W[s]
  PROVE  LbOrdered(b, h, V, top)
<1>1. \A k \in DOMAIN b : b[k].from \in LbTransports
  BY PacketFields
<1> QED BY <1>1 DEF LbOrdered

\* A packet that is sent waits behind all others.
LEMMA OrderedNew ==
  ASSUME NEW b \in Seq(LbPacket), NEW h \in LbHeard, NEW W \in LbNumbers,
         NEW top \in Nat, LbOrdered(b, h, W, top), NEW t \in LbTransports
  PROVE  LbOrdered(b, h, [W EXCEPT ![t] = @ \cup {top + 1}], top + 1)
<1>1. \A k \in DOMAIN b : b[k].from \in LbTransports /\ b[k].n \in Nat
  BY PacketFields
<1>2. \A s \in LbTransports : h[s] \in Nat /\ W[s] \subseteq Nat
  BY LbAssumption DEF LbHeard, LbNumbers
<1> DEFINE V == [W EXCEPT ![t] = @ \cup {top + 1}]
<1>3. \A s \in LbTransports : V[s] \subseteq W[s] \cup {top + 1}
  BY DEF LbNumbers
<1> HIDE DEF V
<1>4. \A s \in LbTransports : h[s] <= top + 1 /\ \A n \in V[s] : h[s] < n
  BY <1>2, <1>3 DEF LbOrdered
<1>5. \A k \in DOMAIN b :
       /\ h[b[k].from] < b[k].n /\ b[k].n <= top + 1
       /\ \A n \in V[b[k].from] : b[k].n < n
  BY <1>1, <1>2, <1>3 DEF LbOrdered
<1>6. LbOrdered(b, h, V, top + 1)
  BY <1>4, <1>5 DEF LbOrdered
<1> QED BY <1>6 DEF V

\* One of the packets that wait arrives, and only later ones still wait.
LEMMA OrderedArrives ==
  ASSUME NEW b \in Seq(LbPacket), NEW h \in LbHeard, NEW W \in LbNumbers,
         NEW top \in Nat, LbOrdered(b, h, W, top),
         NEW p \in LbPacket, p.n \in W[p.from], p.n <= top,
         NEW V \in LbNumbers, \A s \in LbTransports : V[s] \subseteq W[s],
         \A n \in V[p.from] : p.n < n
  PROVE  LbOrdered(Append(b, p), h, V, top)
<1> DEFINE c == Append(b, p)
<1>1. /\ Len(c) = Len(b) + 1 /\ DOMAIN c = 1 .. Len(b) + 1
      /\ \A k \in 1 .. Len(b) : c[k] = b[k]
      /\ c[Len(b) + 1] = p
      /\ DOMAIN b = 1 .. Len(b) /\ Len(b) \in Nat
  OBVIOUS
<1>2. p.from \in LbTransports /\ p.n \in Nat
  BY LbAssumption DEF LbPacket
<1>3. \A k \in DOMAIN b : b[k].from \in LbTransports /\ b[k].n \in Nat
  BY PacketFields
<1>4. \A k \in DOMAIN c : k \in DOMAIN b \/ k = Len(b) + 1
  BY <1>1
<1> HIDE DEF c
<1>5. \A s \in LbTransports : h[s] <= top /\ \A n \in V[s] : h[s] < n
  BY DEF LbOrdered
<1>6. ASSUME NEW k \in DOMAIN c
      PROVE  /\ h[c[k].from] < c[k].n /\ c[k].n <= top
             /\ \A n \in V[c[k].from] : c[k].n < n
  <2>1. CASE k \in DOMAIN b
    BY <2>1, <1>1, <1>3 DEF LbOrdered
  <2>2. CASE k = Len(b) + 1
    BY <2>2, <1>1, <1>2 DEF LbOrdered
  <2> QED BY <2>1, <2>2, <1>4
<1>7. ASSUME NEW j \in DOMAIN c, NEW k \in DOMAIN c, j < k, c[j].from = c[k].from
      PROVE  c[j].n < c[k].n
  <2>1. j \in DOMAIN b /\ c[j] = b[j]
    BY <1>1, <1>7
  <2>2. CASE k \in DOMAIN b
    BY <2>1, <2>2, <1>1, <1>7 DEF LbOrdered
  <2>3. CASE k = Len(b) + 1
    BY <2>1, <2>3, <1>1, <1>2, <1>7 DEF LbOrdered
  <2> QED BY <2>2, <2>3, <1>4
<1>8. LbOrdered(c, h, V, top)
  BY <1>5, <1>6, <1>7 DEF LbOrdered
<1> QED BY <1>8 DEF c

\* The application takes the first packet that has arrived.
LEMMA OrderedTaken ==
  ASSUME NEW b \in Seq(LbPacket), NEW h \in LbHeard, NEW W \in LbNumbers,
         NEW top \in Nat, LbOrdered(b, h, W, top), b # << >>
  PROVE  LbOrdered(Tail(b), [h EXCEPT ![Head(b).from] = Head(b).n], W, top)
<1> DEFINE c == Tail(b)
           g == [h EXCEPT ![Head(b).from] = Head(b).n]
<1>1. /\ Len(b) \in Nat /\ Len(b) >= 1 /\ DOMAIN b = 1 .. Len(b)
      /\ DOMAIN c = 1 .. Len(b) - 1
      /\ \A k \in 1 .. Len(b) - 1 : c[k] = b[k + 1]
      /\ Head(b) = b[1] /\ 1 \in DOMAIN b
  OBVIOUS
<1>2. \A k \in DOMAIN b : b[k].from \in LbTransports /\ b[k].n \in Nat
  BY PacketFields
<1>3. \A s \in LbTransports : g[s] = IF s = b[1].from THEN b[1].n ELSE h[s]
  BY <1>1, <1>2 DEF LbHeard
<1> HIDE DEF c, g
<1>4. \A s \in LbTransports : g[s] <= top /\ \A n \in W[s] : g[s] < n
  BY <1>1, <1>2, <1>3 DEF LbOrdered
<1>5. \A k \in DOMAIN c : k + 1 \in DOMAIN b /\ c[k] = b[k + 1] /\ 1 < k + 1
  BY <1>1
<1>6. ASSUME NEW k \in DOMAIN c
      PROVE  /\ g[c[k].from] < c[k].n /\ c[k].n <= top
             /\ \A n \in W[c[k].from] : c[k].n < n
  <2>1. PICK i \in DOMAIN b : i = k + 1 /\ 1 < i /\ c[k] = b[i]
    BY <1>5
  <2>2. h[b[i].from] < b[i].n /\ (b[1].from = b[i].from => b[1].n < b[i].n)
    BY <1>1, <2>1 DEF LbOrdered
  <2>3. b[i].n <= top /\ \A n \in W[b[i].from] : b[i].n < n
    BY <2>1 DEF LbOrdered
  <2> QED BY <2>1, <2>2, <2>3, <1>2, <1>3
<1>7. ASSUME NEW j \in DOMAIN c, NEW k \in DOMAIN c, j < k, c[j].from = c[k].from
      PROVE  c[j].n < c[k].n
  <2>1. j + 1 < k + 1
    BY <1>1, <1>7
  <2> QED BY <2>1, <1>5, <1>7 DEF LbOrdered
<1>8. LbOrdered(c, g, W, top)
  BY <1>4, <1>6, <1>7 DEF LbOrdered
<1> QED BY <1>8 DEF c, g

-----------------------------------------------------------------------------
(* LoopbackTransport: a packet is put into receive queues.                 *)

\* A transport that is not in use has nothing, a connected one only packets of its
\* server.
LbBelongs(x) ==
  /\ ~x.bound /\ ~x.connected => x.ready_recv = << >> /\ x.pending_recv = << >>
  /\ x.connected => \A k \in DOMAIN LbBox(x) : LbBox(x)[k].sender = x.remote_addr

\* The receive queues of the state S, when the packets W still wait.
LbMail(S, W, top) ==
  \A u \in LbTransports : /\ LbBelongs(S[u])
                          /\ LbOrdered(LbBox(S[u]), S[u].heard, W, top)

\* The hub puts the packet p into the queues of the transports U.
LbGets(S, U, p) ==
  [t \in LbTransports |->
     IF t \in U THEN [S[t] EXCEPT !.pending_recv = Append(@, p)] ELSE S[t]]

\* They may be given it.
LbMayGet(S, U, p) ==
  \A u \in U : /\ S[u].bound \/ S[u].connected
               /\ S[u].connected => p.sender = S[u].remote_addr

\* S is the state lb but for what the receive queues hold.
LbOnlyMail(S, T) ==
  \A u \in LbTransports :
    /\ S[u].bound = T[u].bound /\ S[u].connected = T[u].connected
    /\ S[u].local_addr = T[u].local_addr /\ S[u].remote_addr = T[u].remote_addr
    /\ S[u].latency = T[u].latency /\ S[u].delayed_outbound = T[u].delayed_outbound

\* The fields of a transport have their types.
LEMMA LbStateFields ==
  ASSUME NEW x \in LbState
  PROVE  /\ x.ready_recv \in Seq(LbPacket) /\ x.pending_recv \in Seq(LbPacket)
         /\ LbBox(x) \in Seq(LbPacket)
         /\ x.heard \in LbHeard
         /\ x.bound \in BOOLEAN /\ x.connected \in BOOLEAN
         /\ x.local_addr \in LbAddress /\ x.remote_addr \in LbAddress
         /\ x.latency \in LbLatencies /\ x.latency \in Nat
         /\ x.delayed_outbound \in Seq(DelayedPacket)
<1>1. /\ x.ready_recv \in Seq(LbPacket) /\ x.pending_recv \in Seq(LbPacket)
      /\ x.heard \in LbHeard
      /\ x.bound \in BOOLEAN /\ x.connected \in BOOLEAN
      /\ x.local_addr \in LbAddress /\ x.remote_addr \in LbAddress
      /\ x.latency \in LbLatencies /\ x.delayed_outbound \in Seq(DelayedPacket)
  BY DEF LbState, LbHeard
<1>2. x.latency \in Nat
  BY <1>1, LbAssumption
<1>3. x.ready_recv \o x.pending_recv \in Seq(LbPacket)
  BY <1>1
<1> QED BY <1>1, <1>2, <1>3 DEF LbBox

\* One transport gets a packet.
LEMMA OneGets ==
  ASSUME NEW x \in LbState, NEW p \in LbPacket
  PROVE  LET y == [x EXCEPT !.pending_recv = Append(@, p)] IN
         /\ y \in LbState
         /\ LbBox(y) = Append(LbBox(x), p)
         /\ y.heard = x.heard
         /\ y.bound = x.bound /\ y.connected = x.connected
         /\ y.local_addr = x.local_addr /\ y.remote_addr = x.remote_addr
         /\ y.latency = x.latency /\ y.delayed_outbound = x.delayed_outbound
<1> DEFINE y == [x EXCEPT !.pending_recv = Append(@, p)]
<1>z. x.pending_recv \in Seq(LbPacket)
  BY LbStateFields
<1>y. \A r \in Seq(LbPacket) : Append(r, p) \in Seq(LbPacket)
  OBVIOUS
<1>0. PICK q \in Seq(LbPacket) : q = Append(x.pending_recv, p)
  BY <1>y, <1>z, Zenon
<1>a. y = [x EXCEPT !.pending_recv = q]
  BY <1>0
<1>b. [x EXCEPT !.pending_recv = q] \in LbState
  BY <1>0 DEF LbState
<1>1. /\ y \in LbState
      /\ y.ready_recv = x.ready_recv /\ y.pending_recv = Append(x.pending_recv, p)
      /\ y.heard = x.heard
      /\ y.bound = x.bound /\ y.connected = x.connected
      /\ y.local_addr = x.local_addr /\ y.remote_addr = x.remote_addr
      /\ y.latency = x.latency /\ y.delayed_outbound = x.delayed_outbound
  BY <1>0, <1>a, <1>b DEF LbState
<1>2. ASSUME NEW r \in Seq(LbPacket), NEW e \in Seq(LbPacket)
      PROVE  r \o Append(e, p) = Append(r \o e, p)
  OBVIOUS
<1>3. LbBox(y) = Append(LbBox(x), p)
  <2> HIDE DEF y
  <2> QED BY <1>1, <1>2, LbStateFields DEF LbBox
<1> QED BY <1>1, <1>3

\* The mail stays in order when some transports get a packet that waited.
LEMMA MailArrives ==
  ASSUME NEW S \in [LbTransports -> LbState], NEW W \in LbNumbers, NEW top \in Nat,
         LbMail(S, W, top), NEW U, NEW p \in LbPacket, LbMayGet(S, U, p),
         p.n \in W[p.from], p.n <= top,
         NEW V \in LbNumbers, \A s \in LbTransports : V[s] \subseteq W[s],
         \A n \in V[p.from] : p.n < n
  PROVE  /\ LbGets(S, U, p) \in [LbTransports -> LbState]
         /\ LbOnlyMail(LbGets(S, U, p), S)
         /\ LbMail(LbGets(S, U, p), V, top)
<1> DEFINE T == LbGets(S, U, p)
<1>1. ASSUME NEW u \in LbTransports, u \in U
      PROVE  /\ T[u] \in LbState /\ LbBelongs(T[u])
             /\ T[u].bound = S[u].bound /\ T[u].connected = S[u].connected
             /\ T[u].local_addr = S[u].local_addr /\ T[u].remote_addr = S[u].remote_addr
             /\ T[u].latency = S[u].latency
             /\ T[u].delayed_outbound = S[u].delayed_outbound
             /\ LbOrdered(LbBox(T[u]), T[u].heard, V, top)
  <2>1. PICK x \in LbState : x = S[u]
    OBVIOUS
  <2>2. PICK y : y = [x EXCEPT !.pending_recv = Append(@, p)]
    OBVIOUS
  <2>3. T[u] = y
    BY <1>1, <2>1, <2>2 DEF LbGets
  <2>4. /\ y \in LbState /\ LbBox(y) = Append(LbBox(x), p) /\ y.heard = x.heard
        /\ y.bound = x.bound /\ y.connected = x.connected
        /\ y.local_addr = x.local_addr /\ y.remote_addr = x.remote_addr
        /\ y.latency = x.latency /\ y.delayed_outbound = x.delayed_outbound
    BY <2>2, OneGets
  <2>5. LbBox(x) \in Seq(LbPacket) /\ x.heard \in LbHeard
    BY LbStateFields
  <2>6. LbOrdered(Append(LbBox(x), p), x.heard, V, top)
    BY <2>1, <2>5, OrderedArrives DEF LbMail
  <2>7. x.connected => \A k \in DOMAIN LbBox(y) : LbBox(y)[k].sender = y.remote_addr
    <3>1. SUFFICES ASSUME x.connected, NEW k \in DOMAIN LbBox(y)
                   PROVE  LbBox(y)[k].sender = x.remote_addr
      BY <2>4
    <3>2. /\ \A i \in DOMAIN LbBox(x) : LbBox(x)[i].sender = x.remote_addr
          /\ p.sender = x.remote_addr
      BY <3>1, <2>1, <1>1 DEF LbMail, LbBelongs, LbMayGet
    <3>3. (k \in DOMAIN LbBox(x) /\ LbBox(y)[k] = LbBox(x)[k]) \/ LbBox(y)[k] = p
      BY <2>4, <2>5, <3>1
    <3> QED BY <3>2, <3>3
  <2>8. x.bound \/ x.connected
    BY <2>1, <1>1 DEF LbMayGet
  <2>9. LbBelongs(y)
    BY <2>4, <2>7, <2>8 DEF LbBelongs
  <2> QED BY <2>1, <2>3, <2>4, <2>6, <2>9
<1>2. ASSUME NEW u \in LbTransports, u \notin U
      PROVE  T[u] = S[u] /\ LbBelongs(T[u]) /\ LbOrdered(LbBox(T[u]), T[u].heard, V, top)
  <2>1. T[u] = S[u]
    BY <1>2 DEF LbGets
  <2>2. PICK x \in LbState : x = S[u]
    OBVIOUS
  <2>3. LbBox(x) \in Seq(LbPacket) /\ x.heard \in LbHeard
    BY LbStateFields
  <2>4. LbOrdered(LbBox(x), x.heard, V, top)
    BY <2>2, <2>3, OrderedFewer DEF LbMail
  <2> QED BY <2>1, <2>2, <2>4 DEF LbMail
<1>3. T \in [LbTransports -> LbState]
  <2>1. \A u \in LbTransports : T[u] \in LbState
    BY <1>1, <1>2
  <2>2. T = [u \in LbTransports |-> T[u]]
    BY DEF LbGets
  <2> HIDE DEF T
  <2> QED BY <2>1, <2>2
<1> HIDE DEF T
<1>4. LbOnlyMail(T, S)
  BY <1>1, <1>2 DEF LbOnlyMail
<1>5. LbMail(T, V, top)
  BY <1>1, <1>2 DEF LbMail
<1> QED BY <1>3, <1>4, <1>5 DEF T

-----------------------------------------------------------------------------
(* LoopbackTransport: the hub and what it delivers.                        *)

\* The tables of the hub agree with the transports.
LbHub ==
  /\ lb_next_port = LbPortOf(lb_connects)
  /\ DOMAIN lb_clients = DOMAIN lb_route
  /\ DOMAIN lb_clients \subseteq LbGiven(lb_connects)
  /\ \A a \in DOMAIN lb_clients :
       /\ lb[lb_clients[a]].connected /\ ~lb[lb_clients[a]].bound
       /\ lb[lb_clients[a]].local_addr = a
       /\ lb[lb_clients[a]].remote_addr = lb_route[a]
  /\ \A a \in DOMAIN lb_servers :
       lb[lb_servers[a]].bound /\ lb[lb_servers[a]].local_addr = a
  /\ \A t \in LbTransports :
       /\ lb[t].bound => /\ ~lb[t].connected
                         /\ lb[t].local_addr \in DOMAIN lb_servers
                         /\ lb_servers[lb[t].local_addr] = t
       /\ lb[t].connected => lb[t].remote_addr \in LbServerPorts
       /\ ~lb[t].connected /\ ~lb[t].bound => lb[t].remote_addr = NoPort

\* The transports registered with a server's address.
LbPeers(a) == {lb_clients[c] : c \in {c \in DOMAIN lb_route : lb_route[c] = a}}

\* A copy or none.
LEMMA Enqueue ==
  ASSUME NEW x \in LbState, NEW p \in LbPacket
  PROVE  /\ enqueue_pending(x, 0, p) = x
         /\ enqueue_pending(x, 1, p) = [x EXCEPT !.pending_recv = Append(@, p)]
<1>1. x.pending_recv \in Seq(LbPacket)
  BY LbStateFields
<1>2. \A q \in Seq(LbPacket) : q \o [k \in 1 .. 0 |-> p] = q
  <2>1. TAKE q \in Seq(LbPacket)
  <2>2. [k \in 1 .. 0 |-> p] = << >>
    OBVIOUS
  <2> QED BY <2>2
<1>3. \A q \in Seq(LbPacket) : q \o [k \in 1 .. 1 |-> p] = Append(q, p)
  <2>1. [k \in 1 .. 1 |-> p] = <<p>>
    OBVIOUS
  <2>2. \A q \in Seq(LbPacket) : q \o <<p>> = Append(q, p)
    OBVIOUS
  <2> QED BY <2>1, <2>2
<1>4. [x EXCEPT !.pending_recv = x.pending_recv] = x
  BY DEF LbState
<1> QED BY <1>1, <1>2, <1>3, <1>4, Zenon DEF enqueue_pending

\* deliver() puts the packet into the queue of the transport with the address.
LEMMA DeliverIs ==
  ASSUME NEW S \in [LbTransports -> LbState], NEW p \in LbPacket, NEW a
  PROVE  deliver(S, a, p) = LbGets(S, find_transport(a), p)
<1> DEFINE y(t) == enqueue_pending(S[t], IF t \in find_transport(a) THEN 1 ELSE 0, p)
           z(t) == IF t \in find_transport(a)
                   THEN [S[t] EXCEPT !.pending_recv = Append(@, p)] ELSE S[t]
<1>1. ASSUME NEW t \in LbTransports
      PROVE  y(t) = z(t)
  <2>1. PICK x \in LbState : x = S[t]
    OBVIOUS
  <2>2. CASE t \in find_transport(a)
    <3>1. y(t) = enqueue_pending(x, 1, p) /\ z(t) = [x EXCEPT !.pending_recv = Append(@, p)]
      BY <2>1, <2>2
    <3> QED BY <3>1, Enqueue
  <2>3. CASE t \notin find_transport(a)
    <3>1. y(t) = enqueue_pending(x, 0, p) /\ z(t) = x
      BY <2>1, <2>3
    <3> QED BY <3>1, Enqueue
  <2> QED BY <2>2, <2>3
<1>2. deliver(S, a, p) = [t \in LbTransports |-> y(t)]
  BY DEF deliver
<1>3. LbGets(S, find_transport(a), p) = [t \in LbTransports |-> z(t)]
  BY DEF LbGets
<1> HIDE DEF y, z
<1> QED BY <1>1, <1>2, <1>3

\* broadcast() puts it into the queues of the clients of the sender, once into each.
LEMMA BroadcastIs ==
  ASSUME LoopbackTypeOK, LbHub,
         NEW S \in [LbTransports -> LbState], NEW p \in LbPacket, NEW a
  PROVE  broadcast(S, a, p) = LbGets(S, LbPeers(a), p)
<1> DEFINE C(t) == {c \in DOMAIN lb_route \cap DOMAIN lb_clients :
                      lb_route[c] = a /\ lb_clients[c] = t}
           y(t) == enqueue_pending(S[t], Cardinality(C(t)), p)
           z(t) == IF t \in LbPeers(a)
                   THEN [S[t] EXCEPT !.pending_recv = Append(@, p)] ELSE S[t]
<1>1. ASSUME NEW t \in LbTransports
      PROVE  y(t) = z(t)
  <2>1. PICK x \in LbState : x = S[t]
    OBVIOUS
  <2>2. CASE t \in LbPeers(a)
    <3>1. PICK c \in DOMAIN lb_route : lb_route[c] = a /\ lb_clients[c] = t
      BY <2>2 DEF LbPeers
    <3>2. C(t) = {c}
      BY <3>1 DEF LbHub
    <3>3. Cardinality(C(t)) = 1
      <4> HIDE DEF C
      <4> QED BY <3>2, FS_Singleton
    <3>4. y(t) = enqueue_pending(x, 1, p) /\ z(t) = [x EXCEPT !.pending_recv = Append(@, p)]
      <4> HIDE DEF C
      <4> QED BY <2>1, <2>2, <3>3
    <3> QED BY <3>4, Enqueue
  <2>3. CASE t \notin LbPeers(a)
    <3>1. C(t) = {}
      BY <2>3 DEF LbPeers
    <3>2. Cardinality(C(t)) = 0
      <4> HIDE DEF C
      <4> QED BY <3>1, FS_EmptySet
    <3>3. y(t) = enqueue_pending(x, 0, p) /\ z(t) = x
      <4> HIDE DEF C
      <4> QED BY <2>1, <2>3, <3>2
    <3> QED BY <3>3, Enqueue
  <2> QED BY <2>2, <2>3
<1>2. broadcast(S, a, p) = [t \in LbTransports |-> y(t)]
  BY DEF broadcast
<1>3. LbGets(S, LbPeers(a), p) = [t \in LbTransports |-> z(t)]
  BY DEF LbGets
<1> HIDE DEF y, z
<1> QED BY <1>1, <1>2, <1>3

\* Whom the hub finds is in use, and if it is a client its server is the sender.
LEMMA FoundMayGet ==
  ASSUME LoopbackTypeOK, LbHub, NEW S, LbOnlyMail(S, lb), NEW p, NEW a,
         a \in DOMAIN lb_route => lb_route[a] = p.sender
  PROVE  find_transport(a) \subseteq LbTransports /\ LbMayGet(S, find_transport(a), p)
<1>1. CASE a \in DOMAIN lb_clients
  <2>1. find_transport(a) = {lb_clients[a]} /\ lb_clients[a] \in LbTransports
    BY <1>1 DEF find_transport, LoopbackTypeOK, Range
  <2>2. S[lb_clients[a]].connected /\ S[lb_clients[a]].remote_addr = p.sender
    BY <1>1, <2>1 DEF LbHub, LbOnlyMail
  <2> QED BY <2>1, <2>2 DEF LbMayGet
<1>2. CASE a \notin DOMAIN lb_clients /\ a \in DOMAIN lb_servers
  <2>1. find_transport(a) = {lb_servers[a]} /\ lb_servers[a] \in LbTransports
    BY <1>2 DEF find_transport, LoopbackTypeOK, Range
  <2>2. S[lb_servers[a]].bound /\ ~S[lb_servers[a]].connected
    BY <1>2, <2>1 DEF LbHub, LbOnlyMail
  <2> QED BY <2>1, <2>2 DEF LbMayGet
<1>3. CASE a \notin DOMAIN lb_clients /\ a \notin DOMAIN lb_servers
  BY <1>3 DEF find_transport, LbMayGet
<1> QED BY <1>1, <1>2, <1>3

\* The clients of the sender may be given its packets.
LEMMA PeersMayGet ==
  ASSUME LoopbackTypeOK, LbHub, NEW S, LbOnlyMail(S, lb), NEW p
  PROVE  LbPeers(p.sender) \subseteq LbTransports /\ LbMayGet(S, LbPeers(p.sender), p)
<1>1. ASSUME NEW u \in LbPeers(p.sender)
      PROVE  u \in LbTransports /\ S[u].connected /\ S[u].remote_addr = p.sender
  <2>1. PICK c \in DOMAIN lb_route : lb_route[c] = p.sender /\ lb_clients[c] = u
    BY <1>1 DEF LbPeers
  <2>2. c \in DOMAIN lb_clients /\ u \in LbTransports
    BY <2>1 DEF LbHub, LoopbackTypeOK, Range
  <2> QED BY <2>1, <2>2 DEF LbHub, LbOnlyMail
<1> QED BY <1>1 DEF LbMayGet

-----------------------------------------------------------------------------
(* LoopbackTransport: the loop of poll().                                  *)

\* A loop that changes a state of X in every round has a state after every round.
IsLoop(g, n, X, x, f) ==
  /\ g \in [0 .. n -> X] /\ g[0] = x
  /\ \A k \in 1 .. n : g[k] = f[k][g[k - 1]]

\* Such a loop has a state after every round: by the least round without one.
LEMMA LoopStates ==
  ASSUME NEW n \in Nat, NEW X, NEW x \in X, NEW f \in [1 .. n -> [X -> X]]
  PROVE  \E g : IsLoop(g, n, X, x, f)
<1> DEFINE G(m) == {g \in [0 .. m -> X] :
                      g[0] = x /\ \A k \in 1 .. m : g[k] = f[k][g[k - 1]]}
           T == {m \in 0 .. n : G(m) = {}}
<1>1. SUFFICES ASSUME T # {} PROVE FALSE
  <2>1. T = {} => n \notin T
    OBVIOUS
  <2>2. T = {} => G(n) # {}
    BY <2>1, SMTT(30)
  <2>3. T = {}
    BY <1>1
  <2> QED BY <2>2, <2>3 DEF IsLoop
<1>2. PICK m \in T : \A i \in T : m <= i
  <2>1. T \subseteq Nat
    OBVIOUS
  <2> HIDE DEF T
  <2> QED BY <1>1, <2>1, LeastMember
<1>3. m \in 0 .. n /\ G(m) = {}
  BY <1>2
<1>4. m # 0
  <2>1. [k \in 0 .. 0 |-> x] \in G(0)
    OBVIOUS
  <2> QED BY <1>3, <2>1
<1>5. m - 1 \in 0 .. n /\ m - 1 \notin T
  <2>1. m - 1 \in 0 .. n /\ ~ (m <= m - 1)
    BY <1>3, <1>4
  <2> HIDE DEF T
  <2> QED BY <1>2, <2>1
<1>6. PICK g : g \in G(m - 1)
  BY <1>5
<1>7. /\ g \in [0 .. m - 1 -> X] /\ g[0] = x
      /\ \A k \in 1 .. m - 1 : g[k] = f[k][g[k - 1]]
  BY <1>6
<1>8. PICK h : h = [k \in 0 .. m |-> IF k = m THEN f[m][g[m - 1]] ELSE g[k]]
  OBVIOUS
<1>a. m \in 1 .. n /\ m \in Nat
  BY <1>3, <1>4
<1>b. f[m] \in [X -> X] /\ g[m - 1] \in X
  BY <1>7, <1>a
<1>c. \A k \in 0 .. m : k = m \/ k \in 0 .. m - 1
  BY <1>a
<1>9. /\ h[m] = f[m][g[m - 1]]
      /\ \A k \in 0 .. m - 1 : h[k] = g[k]
  BY <1>8, <1>a
<1>10. h \in [0 .. m -> X]
  <2>1. \A k \in 0 .. m : h[k] \in X
    BY <1>7, <1>9, <1>b, <1>c
  <2> QED BY <1>8, <2>1
<1>11. h[0] = x
  BY <1>7, <1>9, <1>a
<1>12. ASSUME NEW k \in 1 .. m
       PROVE  h[k] = f[k][h[k - 1]]
  <2>1. CASE k = m
    BY <2>1, <1>9, <1>a
  <2>2. CASE k # m
    <3>1. k \in 1 .. m - 1 /\ k \in 0 .. m - 1 /\ k - 1 \in 0 .. m - 1
      BY <2>2, <1>a
    <3> QED BY <3>1, <1>7, <1>9
  <2> QED BY <2>1, <2>2
<1>13. h \in G(m)
  BY <1>10, <1>11, <1>12
<1> QED BY <1>3, <1>13

\* Whom a delayed packet goes to.
LbTo(d) == IF d.broadcast THEN LbPeers(d.packet.sender) ELSE find_transport(d.recipient)

\* A round of the loop of poll() hands a packet to those it is for.
LEMMA FlushIs ==
  ASSUME LoopbackTypeOK, LbHub, NEW S \in [LbTransports -> LbState],
         NEW d \in DelayedPacket
  PROVE  /\ LbFlush(S, d) = LbGets(S, LbTo(d), d.packet)
         /\ LbFlush(S, d) \in [LbTransports -> LbState]
<1>1. d.packet \in LbPacket
  BY DEF DelayedPacket
<1>2. LbFlush(S, d) = LbGets(S, LbTo(d), d.packet)
  BY <1>1, DeliverIs, BroadcastIs DEF LbFlush, LbTo
<1>3. ASSUME NEW U
      PROVE  LbGets(S, U, d.packet) \in [LbTransports -> LbState]
  <2>1. ASSUME NEW t \in LbTransports
        PROVE  [S[t] EXCEPT !.pending_recv = Append(@, d.packet)] \in LbState
    BY <1>1, OneGets
  <2> QED BY <2>1 DEF LbGets
<1> QED BY <1>2, <1>3

\* The states between the rounds of the loop.
LEMMA SentStates ==
  ASSUME LoopbackTypeOK, LbHub, NEW q \in Seq(DelayedPacket)
  PROVE  \E g \in [0 .. Len(q) -> [LbTransports -> LbState]] :
           /\ g[0] = lb /\ LbFlushed(q) = g[Len(q)]
           /\ \A k \in 1 .. Len(q) :
                g[k] = IF q[k].left = 0 THEN LbFlush(g[k - 1], q[k]) ELSE g[k - 1]
<1> DEFINE X == [LbTransports -> LbState]
           n == Len(q)
           step == [k \in 1 .. n |->
                      [S \in X |-> IF q[k].left = 0 THEN LbFlush(S, q[k]) ELSE S]]
           Body(g, k) == IF k = 0 THEN lb
                         ELSE IF q[k].left = 0 THEN LbFlush(g[k - 1], q[k]) ELSE g[k - 1]
           sent == CHOOSE g : g = [k \in 0 .. n |-> Body(g, k)]
<1>0. n \in Nat /\ lb \in X
  BY DEF LoopbackTypeOK
<1>1. \A k \in 1 .. n : q[k] \in DelayedPacket
  OBVIOUS
<1>2. step \in [1 .. n -> [X -> X]]
  <2>1. \A k \in 1 .. n : \A S \in X : LbFlush(S, q[k]) \in X
    BY <1>1, FlushIs
  <2> HIDE DEF n, X
  <2> QED BY <2>1
<1>l. PICK g : IsLoop(g, n, X, lb, step)
  <2> HIDE DEF n, X, step
  <2> QED BY <1>0, <1>2, LoopStates
<1>3. /\ g \in [0 .. n -> X] /\ g[0] = lb
      /\ \A k \in 1 .. n : g[k] = step[k][g[k - 1]]
  <2> HIDE DEF n, X, step
  <2> QED BY <1>l DEF IsLoop
<1>4. \A k \in 1 .. n :
        g[k] = IF q[k].left = 0 THEN LbFlush(g[k - 1], q[k]) ELSE g[k - 1]
  <2>1. TAKE k \in 1 .. n
  <2>2. g[k - 1] \in X
    <3>1. k - 1 \in 0 .. n
      BY <1>0
    <3> HIDE DEF X, n
    <3> QED BY <3>1, <1>3
  <2>3. g[k] = step[k][g[k - 1]]
    BY <1>3
  <2> HIDE DEF n, X
  <2> QED BY <2>2, <2>3
<1>5. g = [k \in 0 .. n |-> Body(g, k)]
  <2>1. \A k \in 0 .. n : g[k] = Body(g, k)
    <3>1. \A k \in 0 .. n : k = 0 \/ k \in 1 .. n
      BY <1>0
    <3> HIDE DEF n
    <3> QED BY <1>3, <1>4, <3>1
  <2> HIDE DEF n, X, Body
  <2> QED BY <1>3, <2>1
<1>6. sent = [k \in 0 .. n |-> Body(sent, k)]
  <2> HIDE DEF n, Body
  <2> QED BY <1>5, Zenon
<1>7. LbFlushed(q) = sent[n]
  BY Zenon DEF LbFlushed
<1> HIDE DEF sent
<1>8. \A k \in 0 .. n : sent[k] = Body(sent, k)
  <2> HIDE DEF n, Body
  <2>1. TAKE k \in 0 .. n
  <2>2. PICK h : h = [i \in 0 .. n |-> Body(sent, i)]
    OBVIOUS
  <2>3. h[k] = Body(sent, k)
    BY <2>2
  <2> QED BY <2>2, <2>3, <1>6
<1>9. \A k \in 0 .. n : sent[k] = g[k]
  <2> DEFINE T == {k \in 0 .. n : sent[k] # g[k]}
  <2>1. SUFFICES ASSUME T # {} PROVE FALSE
    OBVIOUS
  <2>2. PICK m \in T : \A i \in T : m <= i
    <3>1. T \subseteq Nat
      BY <1>0
    <3> HIDE DEF T
    <3> QED BY <2>1, <3>1, LeastMember
  <2>3. m \in 0 .. n /\ sent[m] # g[m]
    BY <2>2
  <2>4. m # 0
    <3>1. sent[0] = lb
      BY <1>8, <1>0
    <3> QED BY <3>1, <2>3, <1>3
  <2>5. m \in 1 .. n /\ m - 1 \in 0 .. n /\ m - 1 \notin T
    BY <2>2, <2>3, <2>4, <1>0
  <2>6. sent[m - 1] = g[m - 1]
    BY <2>5
  <2>7. sent[m] = Body(sent, m) /\ g[m] = Body(g, m)
    BY <1>4, <1>8, <2>3, <2>4, <2>5
  <2>8. Body(sent, m) = Body(g, m)
    BY <2>6
  <2> QED BY <2>3, <2>7, <2>8
<1>10. n \in 0 .. n
  BY <1>0
<1> QED BY <1>3, <1>4, <1>7, <1>9, <1>10

\* A delayed packet is for a server or for a client of its sender, if at all.
LbAddressed(d, connects, route) ==
  ~d.broadcast =>
    /\ d.recipient \in LbServerPorts \cup {NoPort} \cup LbGiven(connects)
    /\ d.recipient \in DOMAIN route => route[d.recipient] = d.packet.sender

\* The delayed packets q of a transport with the latency l wait in the order they
\* were sent in, and while there are some nothing overtakes them.
LbQueueOK(t, q, l, top) ==
  /\ q # << >> => l > 0
  /\ \A k \in DOMAIN q : /\ q[k].packet.from = t /\ q[k].packet.n <= top
                         /\ q[k].left <= l
  /\ \A j, k \in DOMAIN q :
       j < k => q[j].left <= q[k].left /\ q[j].packet.n < q[k].packet.n

\* Every delayed packet of a queue has a recipient it may have.
LbRightly(q, connects, route) ==
  \A k \in DOMAIN q : LbAddressed(q[k], connects, route)

\* The delayed packets of all transports.
LbDelays ==
  \A t \in LbTransports :
    /\ LbQueueOK(t, lb[t].delayed_outbound, lb[t].latency, lb_sends)
    /\ LbRightly(lb[t].delayed_outbound, lb_connects, lb_route)

\* The numbers of the delayed packets at some positions of a queue.
LbNumbersAt(q, at) == {q[k].packet.n : k \in at}
\* And those of every transport.
LbWaits == [s \in LbTransports |->
              LbNumbersAt(lb[s].delayed_outbound, DOMAIN lb[s].delayed_outbound)]

\* The positions of q that have not been flushed after k rounds of the loop.
LbUnflushed(q, k) == {j \in DOMAIN q : j > k \/ q[j].left # 0}

\* The fields of delayed packets have their types.
LEMMA DelayedFields ==
  ASSUME NEW q \in Seq(DelayedPacket)
  PROVE  \A k \in DOMAIN q : /\ q[k] \in DelayedPacket /\ q[k].packet \in LbPacket
                             /\ q[k].left \in Nat /\ q[k].packet.n \in Nat
                             /\ q[k].packet.n \in 1 .. LbMaxSends
                             /\ q[k].broadcast \in BOOLEAN /\ q[k].recipient \in LbAddress
<1>1. \A k \in DOMAIN q : q[k] \in DelayedPacket
  OBVIOUS
<1>2. \A d \in DelayedPacket : /\ d.packet \in LbPacket /\ d.left \in Nat
                               /\ d.broadcast \in BOOLEAN /\ d.recipient \in LbAddress
  BY DEF DelayedPacket
<1>3. \A p \in LbPacket : p.n \in Nat /\ p.n \in 1 .. LbMaxSends
  BY LbAssumption DEF LbPacket
<1> QED BY <1>1, <1>2, <1>3

\* The waiting numbers are numbers, after a part of a queue was flushed as well.
LEMMA WaitsType ==
  ASSUME LoopbackTypeOK
  PROVE  /\ LbWaits \in LbNumbers
         /\ \A t \in LbTransports : \A at \in SUBSET DOMAIN lb[t].delayed_outbound :
              [LbWaits EXCEPT ![t] = LbNumbersAt(lb[t].delayed_outbound, at)] \in LbNumbers
<1>1. ASSUME NEW t \in LbTransports, NEW at \in SUBSET DOMAIN lb[t].delayed_outbound
      PROVE  LbNumbersAt(lb[t].delayed_outbound, at) \subseteq Nat
  <2>1. lb[t].delayed_outbound \in Seq(DelayedPacket)
    BY LbStateFields DEF LoopbackTypeOK
  <2>2. PICK q \in Seq(DelayedPacket) : q = lb[t].delayed_outbound
    BY <2>1
  <2>3. \A k \in DOMAIN q : q[k].packet.n \in Nat
    BY DelayedFields
  <2> QED BY <2>2, <2>3 DEF LbNumbersAt
<1>2. LbWaits \in LbNumbers
  BY <1>1 DEF LbWaits, LbNumbers
<1> QED BY <1>1, <1>2 DEF LbNumbers

\* The loop hands out what is due, in order, and the rest still waits.
LEMMA FlushedLaw ==
  ASSUME LoopbackTypeOK, LbHub, LbDelays, LbMail(lb, LbWaits, lb_sends),
         NEW t \in LbTransports, NEW q, q = lb[t].delayed_outbound
  PROVE  /\ LbFlushed(q) \in [LbTransports -> LbState]
         /\ LbOnlyMail(LbFlushed(q), lb)
         /\ LbMail(LbFlushed(q),
                   [LbWaits EXCEPT ![t] = LbNumbersAt(q, LbUnflushed(q, Len(q)))], lb_sends)
<1> DEFINE W(k) == [LbWaits EXCEPT ![t] = LbNumbersAt(q, LbUnflushed(q, k))]
<1>1. q \in Seq(DelayedPacket) /\ lb \in [LbTransports -> LbState] /\ lb_sends \in Nat
  BY LbStateFields, LbAssumption DEF LoopbackTypeOK
<1>2. PICK g \in [0 .. Len(q) -> [LbTransports -> LbState]] :
           /\ g[0] = lb /\ LbFlushed(q) = g[Len(q)]
           /\ \A k \in 1 .. Len(q) :
                g[k] = IF q[k].left = 0 THEN LbFlush(g[k - 1], q[k]) ELSE g[k - 1]
  BY <1>1, SentStates
<1> DEFINE P(k) == LbOnlyMail(g[k], lb) /\ LbMail(g[k], W(k), lb_sends)
           F == {k \in 0 .. Len(q) : ~P(k)}
<1>3. /\ Len(q) \in Nat /\ DOMAIN q = 1 .. Len(q)
      /\ \A k \in 1 .. Len(q) : q[k] \in DelayedPacket
  BY <1>1
<1>4. \A k \in 0 .. Len(q) : W(k) \in LbNumbers
  <2>1. \A k : LbUnflushed(q, k) \in SUBSET DOMAIN q
    BY DEF LbUnflushed
  <2> QED BY <2>1, WaitsType
<1>5. \A s \in LbTransports : \A k :
        W(k)[s] = IF s = t THEN LbNumbersAt(q, LbUnflushed(q, k)) ELSE LbWaits[s]
  BY DEF LbWaits
<1>6. P(0)
  <2>1. LbUnflushed(q, 0) = DOMAIN q
    BY <1>3 DEF LbUnflushed
  <2>2. W(0) = LbWaits
    BY <2>1 DEF LbWaits
  <2>3. LbOnlyMail(lb, lb)
    BY DEF LbOnlyMail
  <2> HIDE DEF W
  <2> QED BY <1>2, <2>2, <2>3
<1>7. ASSUME NEW k \in 1 .. Len(q), P(k - 1)
      PROVE  P(k)
  <2> DEFINE S == g[k - 1]
             d == q[k]
  <2>1. S \in [LbTransports -> LbState] /\ k - 1 \in 0 .. Len(q) /\ k \in 0 .. Len(q)
    BY <1>3
  <2>2. LbOnlyMail(S, lb) /\ LbMail(S, W(k - 1), lb_sends)
    BY <1>7
  <2>3. d \in DelayedPacket /\ d.packet \in LbPacket /\ d.packet.from = t
        /\ d.packet.n \in Nat /\ d.packet.n <= lb_sends /\ LbAddressed(d, lb_connects, lb_route)
    BY <1>1, <1>3, DelayedFields DEF LbDelays, LbQueueOK, LbRightly
  <2>4. LbUnflushed(q, k) \subseteq LbUnflushed(q, k - 1)
    BY <1>3 DEF LbUnflushed
  <2>5. \A s \in LbTransports : W(k)[s] \subseteq W(k - 1)[s]
    <3>1. LbNumbersAt(q, LbUnflushed(q, k)) \subseteq LbNumbersAt(q, LbUnflushed(q, k - 1))
      BY <2>4 DEF LbNumbersAt
    <3> HIDE DEF W
    <3> QED BY <1>5, <3>1
  <2>6. CASE d.left # 0
    <3>1. g[k] = S
      BY <1>2, <2>6
    <3>2. LbUnflushed(q, k) = LbUnflushed(q, k - 1)
      BY <2>6, <1>3 DEF LbUnflushed
    <3>3. W(k) = W(k - 1)
      BY <3>2
    <3> HIDE DEF W
    <3> QED BY <2>2, <3>1, <3>3
  <2>7. CASE d.left = 0
    <3>1. g[k] = LbGets(S, LbTo(d), d.packet)
      BY <1>2, <2>1, <2>3, <2>7, FlushIs
    <3>2. LbMayGet(S, LbTo(d), d.packet)
      <4>1. CASE d.broadcast
        BY <4>1, <2>2, PeersMayGet DEF LbTo
      <4>2. CASE ~d.broadcast
        <5>1. d.recipient \in DOMAIN lb_route => lb_route[d.recipient] = d.packet.sender
          BY <4>2, <2>3 DEF LbAddressed
        <5> HIDE DEF S, d
        <5> QED BY <4>2, <5>1, <2>2, FoundMayGet DEF LbTo
      <4> QED BY <4>1, <4>2
    <3>3. d.packet.n \in W(k - 1)[d.packet.from]
      <4>1. k \in LbUnflushed(q, k - 1)
        BY <1>3 DEF LbUnflushed
      <4>2. d.packet.n \in LbNumbersAt(q, LbUnflushed(q, k - 1))
        BY <4>1 DEF LbNumbersAt
      <4> HIDE DEF W
      <4> QED BY <4>2, <2>3, <1>5
    <3>4. \A n \in W(k)[d.packet.from] : d.packet.n < n
      <4>1. ASSUME NEW j \in LbUnflushed(q, k)
            PROVE  d.packet.n < q[j].packet.n
        <5>1. j \in DOMAIN q /\ k \in DOMAIN q
          BY <1>3, <4>1 DEF LbUnflushed
        <5>2. CASE j > k
          BY <5>1, <5>2, <1>3 DEF LbDelays, LbQueueOK
        <5>3. CASE ~(j > k)
          <6>1. q[j].left # 0 /\ j # k
            BY <4>1, <5>3, <2>7 DEF LbUnflushed
          <6>2. j < k
            BY <6>1, <5>1, <5>3, <1>3
          <6>3. q[j].left <= q[k].left
            BY <6>2, <5>1 DEF LbDelays, LbQueueOK
          <6>4. q[j].left \in Nat
            BY <5>1, <1>1, DelayedFields
          <6> QED BY <6>1, <6>3, <6>4, <2>7
        <5> QED BY <5>2, <5>3
      <4>2. \A n \in LbNumbersAt(q, LbUnflushed(q, k)) : d.packet.n < n
        BY <4>1 DEF LbNumbersAt
      <4> HIDE DEF W
      <4> QED BY <4>2, <2>3, <1>5
    <3>5. W(k) \in LbNumbers /\ W(k - 1) \in LbNumbers
      BY <1>4, <2>1
    <3> HIDE DEF W, S, d
    <3>6. /\ LbOnlyMail(LbGets(S, LbTo(d), d.packet), S)
          /\ LbMail(LbGets(S, LbTo(d), d.packet), W(k), lb_sends)
      BY <1>1, <2>1, <2>2, <2>3, <2>5, <3>2, <3>3, <3>4, <3>5, MailArrives
    <3>7. LbOnlyMail(g[k], lb)
      BY <3>1, <3>6, <2>2 DEF LbOnlyMail
    <3> QED BY <3>1, <3>6, <3>7
  <2> QED BY <2>6, <2>7
<1> HIDE DEF P
<1>8. F = {}
  <2>1. SUFFICES ASSUME F # {} PROVE FALSE
    OBVIOUS
  <2>2. PICK m \in F : \A i \in F : m <= i
    <3>1. F \subseteq Nat
      BY <1>3
    <3> HIDE DEF F
    <3> QED BY <2>1, <3>1, LeastMember
  <2>3. m \in 0 .. Len(q) /\ ~P(m) /\ m # 0
    BY <2>2, <1>6
  <2>4. m \in 1 .. Len(q) /\ m - 1 \in 0 .. Len(q) /\ ~ (m <= m - 1)
    BY <2>3, <1>3
  <2>5. m - 1 \notin F
    <3> HIDE DEF F
    <3> QED BY <2>2, <2>4
  <2> QED BY <2>3, <2>4, <2>5, <1>7
<1>9. P(Len(q)) /\ Len(q) \in 0 .. Len(q)
  BY <1>3, <1>8
<1> QED BY <1>2, <1>9 DEF P

-----------------------------------------------------------------------------
(* LoopbackTransport: the steps.                                           *)

\* The inductive invariant: types, the tables of the hub, delays and receive queues.
LbInv ==
  LoopbackTypeOK /\ LbHub /\ LbDelays /\ LbMail(lb, LbWaits, lb_sends)

\* No transport changes its role or its addresses.
LbSameUsers ==
  \A u \in LbTransports :
    /\ lb'[u].bound = lb[u].bound /\ lb'[u].connected = lb[u].connected
    /\ lb'[u].local_addr = lb[u].local_addr /\ lb'[u].remote_addr = lb[u].remote_addr

\* No transport changes its delays.
LbSameDelays ==
  \A u \in LbTransports : /\ lb'[u].delayed_outbound = lb[u].delayed_outbound
                          /\ lb'[u].latency = lb[u].latency

\* An address a delayed packet may have gets no other meaning.
LbSameMeaning ==
  \A a \in LbServerPorts \cup {NoPort} \cup LbGiven(lb_connects) :
    /\ a \in LbServerPorts \cup {NoPort} \cup LbGiven(lb_connects')
    /\ a \in DOMAIN lb_route' => a \in DOMAIN lb_route /\ lb_route'[a] = lb_route[a]

\* The tables agree with the transports when neither changes.
LEMMA HubSame ==
  ASSUME LoopbackTypeOK, LbHub, LbSameUsers, UNCHANGED lb_hub
  PROVE  LbHub'
<1>1. /\ lb_servers' = lb_servers /\ lb_clients' = lb_clients /\ lb_route' = lb_route
      /\ lb_next_port' = lb_next_port /\ lb_connects' = lb_connects
  BY DEF lb_hub
<1>2. /\ \A a \in DOMAIN lb_clients : lb_clients[a] \in LbTransports
      /\ \A a \in DOMAIN lb_servers : lb_servers[a] \in LbTransports
  BY DEF LoopbackTypeOK, Range
<1> QED BY <1>1, <1>2 DEF LbHub, LbSameUsers

\* Without a change of the tables no address gets another meaning.
LEMMA SameMeaning ==
  ASSUME UNCHANGED lb_hub
  PROVE  LbSameMeaning
BY DEF LbSameMeaning, lb_hub

\* The delayed packets stay in order when they and their addresses stay.
LEMMA DelaysSame ==
  ASSUME LoopbackTypeOK, LbDelays, LbSameDelays, LbSameMeaning,
         lb_sends' \in Nat, lb_sends <= lb_sends'
  PROVE  LbDelays'
<1>1. ASSUME NEW t \in LbTransports
      PROVE  /\ LbQueueOK(t, lb'[t].delayed_outbound, lb'[t].latency, lb_sends')
             /\ LbRightly(lb'[t].delayed_outbound, lb_connects', lb_route')
  <2>1. PICK q : q = lb[t].delayed_outbound
    OBVIOUS
  <2>2. q \in Seq(DelayedPacket) /\ lb_sends \in Nat
    BY <2>1, LbStateFields, LbAssumption DEF LoopbackTypeOK
  <2>3. lb'[t].delayed_outbound = q /\ lb'[t].latency = lb[t].latency
    BY <2>1 DEF LbSameDelays
  <2>4. LbQueueOK(t, q, lb[t].latency, lb_sends)
        /\ LbRightly(q, lb_connects, lb_route)
    BY <2>1 DEF LbDelays
  <2>5. \A k \in DOMAIN q : q[k].packet.n \in Nat
    BY <2>2, DelayedFields
  <2>6. LbQueueOK(t, q, lb[t].latency, lb_sends')
    BY <2>2, <2>4, <2>5 DEF LbQueueOK
  <2>7. LbRightly(q, lb_connects', lb_route')
    BY <2>4 DEF LbRightly, LbAddressed, LbSameMeaning
  <2> QED BY <2>3, <2>6, <2>7
<1> QED BY <1>1 DEF LbDelays

\* The same packets wait.
LEMMA WaitsSame ==
  ASSUME LbSameDelays
  PROVE  LbWaits' = LbWaits
BY DEF LbSameDelays, LbWaits

\* Nothing is sent, and queues stay or are emptied.
LEMMA MailSame ==
  ASSUME LoopbackTypeOK, LbMail(lb, LbWaits, lb_sends), LbSameDelays,
         lb_sends' = lb_sends,
         \A u \in LbTransports :
           /\ LbBelongs(lb'[u]) /\ lb'[u].heard = lb[u].heard
           /\ LbBox(lb'[u]) = LbBox(lb[u]) \/ LbBox(lb'[u]) = << >>
  PROVE  LbMail(lb, LbWaits, lb_sends)'
<1>1. LbWaits' = LbWaits
  BY WaitsSame
<1>2. PICK W : W = LbWaits
  OBVIOUS
<1>3. ASSUME NEW u \in LbTransports
      PROVE  LbBelongs(lb'[u]) /\ LbOrdered(LbBox(lb'[u]), lb'[u].heard, W, lb_sends)
  <2>1. LbOrdered(LbBox(lb[u]), lb[u].heard, W, lb_sends)
    BY <1>2 DEF LbMail
  <2>2. LbOrdered(<< >>, lb[u].heard, W, lb_sends)
    BY <2>1 DEF LbOrdered
  <2> QED BY <2>1, <2>2
<1>4. LbMail(lb', W, lb_sends)
  BY <1>3 DEF LbMail
<1> QED BY <1>1, <1>2, <1>4

\* One transport changes.
LEMMA ChangeOne ==
  ASSUME NEW S \in [LbTransports -> LbState], NEW t \in LbTransports, NEW y \in LbState
  PROVE  /\ [S EXCEPT ![t] = y] \in [LbTransports -> LbState]
         /\ [S EXCEPT ![t] = y][t] = y
         /\ \A u \in LbTransports \ {t} : [S EXCEPT ![t] = y][u] = S[u]
OBVIOUS

\* bind() registers a server in the hub.
LEMMA LbBindStep ==
  ASSUME LbInv, LbDisciplined, NEW t \in LbTransports, NEW a \in LbServerPorts, lb_bind(t, a)
  PROVE  LbInv'
<1>1. PICK x \in LbState : x = lb[t]
  BY DEF LbInv, LoopbackTypeOK
<1>2. PICK y : y = [x EXCEPT !.local_addr = a, !.bound = TRUE]
  OBVIOUS
<1>3. /\ y \in LbState /\ y.bound = TRUE /\ y.local_addr = a
      /\ y.connected = x.connected /\ y.remote_addr = x.remote_addr
      /\ y.ready_recv = x.ready_recv /\ y.pending_recv = x.pending_recv
      /\ y.heard = x.heard /\ y.latency = x.latency
      /\ y.delayed_outbound = x.delayed_outbound
  <2>1. a \in LbAddress
    BY LbAssumption DEF LbAddress, LbPort
  <2> QED BY <1>2, <2>1 DEF LbState
<1>4. ~x.bound /\ ~x.connected /\ a \notin DOMAIN lb_servers
  BY <1>1 DEF lb_bind
<1>5. lb' = [lb EXCEPT ![t] = y]
  BY <1>1, <1>2 DEF lb_bind
<1>6. /\ lb' \in [LbTransports -> LbState] /\ lb'[t] = y
      /\ \A u \in LbTransports \ {t} : lb'[u] = lb[u]
  BY <1>5, <1>3, ChangeOne DEF LbInv, LoopbackTypeOK
<1>7. /\ lb_servers' = LbPut(lb_servers, a, t) /\ lb_sends' = lb_sends
      /\ UNCHANGED <<lb_clients, lb_route, lb_next_port, lb_connects>>
  BY DEF lb_bind, bind_server
<1>8. LoopbackTypeOK'
  <2>1. DOMAIN lb_servers' \subseteq LbServerPorts /\ Range(lb_servers)' \subseteq LbTransports
    BY <1>7 DEF LbInv, LoopbackTypeOK, Range, LbPut
  <2> QED BY <1>6, <1>7, <2>1 DEF LbInv, LoopbackTypeOK
<1>9. LbHub'
  <2>1. /\ DOMAIN lb_servers' = DOMAIN lb_servers \cup {a} /\ lb_servers'[a] = t
        /\ \A b \in DOMAIN lb_servers : b # a => lb_servers'[b] = lb_servers[b]
    BY <1>7 DEF LbPut
  <2>2. /\ \A b \in DOMAIN lb_clients : lb_clients[b] \in LbTransports \ {t}
        /\ \A b \in DOMAIN lb_servers : lb_servers[b] \in LbTransports \ {t}
    BY <1>1, <1>4 DEF LbInv, LbHub, LoopbackTypeOK, Range
  <2>3. \A b \in DOMAIN lb_clients' :
       /\ lb'[lb_clients'[b]].connected /\ ~lb'[lb_clients'[b]].bound
       /\ lb'[lb_clients'[b]].local_addr = b
       /\ lb'[lb_clients'[b]].remote_addr = lb_route'[b]
    BY <1>6, <1>7, <2>2 DEF LbInv, LbHub
  <2>4. \A b \in DOMAIN lb_servers' :
       lb'[lb_servers'[b]].bound /\ lb'[lb_servers'[b]].local_addr = b
    BY <1>3, <1>6, <2>1, <2>2 DEF LbInv, LbHub
  <2>5. ASSUME NEW u \in LbTransports
        PROVE  /\ lb'[u].bound => /\ ~lb'[u].connected
                                  /\ lb'[u].local_addr \in DOMAIN lb_servers'
                                  /\ lb_servers'[lb'[u].local_addr] = u
               /\ lb'[u].connected => lb'[u].remote_addr \in LbServerPorts
               /\ ~lb'[u].connected /\ ~lb'[u].bound => lb'[u].remote_addr = NoPort
    <3>1. CASE u = t
      BY <3>1, <1>3, <1>4, <1>6, <2>1
    <3>2. CASE u # t
      BY <3>2, <1>4, <1>6, <2>1 DEF LbInv, LbHub
    <3> QED BY <3>1, <3>2
  <2> QED BY <1>7, <2>3, <2>4, <2>5 DEF LbInv, LbHub
<1>10. LbSameDelays
  BY <1>1, <1>3, <1>6 DEF LbSameDelays
<1>11. LbDelays'
  <2>1. LbSameMeaning
    BY <1>7 DEF LbSameMeaning
  <2>2. lb_sends' \in Nat /\ lb_sends <= lb_sends'
    BY <1>7, LbAssumption DEF LbInv, LoopbackTypeOK
  <2> QED BY <1>10, <2>1, <2>2, DelaysSame DEF LbInv
<1>12. LbMail(lb, LbWaits, lb_sends)'
  <2>1. LbBox(y) = LbBox(x)
    BY <1>3 DEF LbBox
  <2>2. LbBelongs(y)
    BY <1>3, <1>4 DEF LbBelongs
  <2>3. \A u \in LbTransports : LbBelongs(lb[u])
    BY DEF LbInv, LbMail
  <2>4. \A u \in LbTransports :
           /\ LbBelongs(lb'[u]) /\ lb'[u].heard = lb[u].heard
           /\ LbBox(lb'[u]) = LbBox(lb[u])
    BY <2>1, <2>2, <2>3, <1>1, <1>3, <1>6
  <2> QED BY <2>4, <1>7, <1>10, MailSame DEF LbInv
<1> QED BY <1>8, <1>9, <1>11, <1>12 DEF LbInv

\* connect() gives a client a port of its own and routes it to its server.
LEMMA LbConnectStep ==
  ASSUME LbInv, LbPortsApart, NEW t \in LbTransports, NEW a \in LbServerPorts,
         lb_connect(t, a)
  PROVE  LbInv'
<1> DEFINE c == lb_connects
<1>0. /\ c \in Nat /\ c < LbMaxConnects /\ LbMaxConnects <= LbPortCount
      /\ c \in 0 .. LbPortCount /\ c < LbPortCount
      /\ c \in 0 .. LbMaxConnects - 1 /\ c + 1 \in 0 .. LbMaxConnects
  BY LbAssumption DEF LbInv, LoopbackTypeOK, LbPortsApart, lb_connect
<1>p. PICK p : p = LbPortOf(c)
  OBVIOUS
<1>q. /\ p \in LbPort /\ p \notin LbGiven(c) /\ p \notin LbServerPorts
      /\ LbPortOf(c + 1) = (p + 1) % LbPortCount
      /\ LbGiven(c + 1) = LbGiven(c) \cup {p}
      /\ p # NoPort /\ p \in LbAddress
  <2>1. /\ LbPortOf(c) \in LbPort /\ LbPortOf(c) \notin LbGiven(c)
        /\ LbPortOf(c + 1) = (LbPortOf(c) + 1) % LbPortCount
        /\ LbGiven(c + 1) = LbGiven(c) \cup {LbPortOf(c)}
    BY <1>0, LbPorts
  <2>2. LbPortOf(c) \notin LbServerPorts
    BY <1>0 DEF LbPortsApart
  <2>3. p # NoPort /\ p \in LbAddress
    BY <2>1, <1>p, LbAssumption DEF LbPort, LbAddress, NoPort
  <2> QED BY <2>1, <2>2, <2>3, <1>p
<1>f. FreePort = p
  <2>1. lb_next_port = p /\ lb_next_port \in LbPort
    BY <1>p DEF LbInv, LbHub, LoopbackTypeOK
  <2>2. p \notin DOMAIN lb_clients
    BY <1>q DEF LbInv, LbHub
  <2> QED BY <2>1, <2>2, FreePortIsNext
<1>1. PICK x \in LbState : x = lb[t]
  BY DEF LbInv, LoopbackTypeOK
<1>2. PICK y : y = [x EXCEPT !.local_addr = p, !.remote_addr = a, !.connected = TRUE]
  OBVIOUS
<1>3. /\ y \in LbState /\ y.connected = TRUE /\ y.local_addr = p /\ y.remote_addr = a
      /\ y.bound = x.bound
      /\ y.ready_recv = x.ready_recv /\ y.pending_recv = x.pending_recv
      /\ y.heard = x.heard /\ y.latency = x.latency
      /\ y.delayed_outbound = x.delayed_outbound
  <2>1. a \in LbAddress
    BY LbAssumption DEF LbAddress, LbPort
  <2> QED BY <1>2, <2>1, <1>q DEF LbState
<1>4. ~x.bound /\ ~x.connected /\ a \in DOMAIN lb_servers
  BY <1>1 DEF lb_connect
<1>5. lb' = [lb EXCEPT ![t] = y]
  BY <1>1, <1>2, <1>f DEF lb_connect
<1>6. /\ lb' \in [LbTransports -> LbState] /\ lb'[t] = y
      /\ \A u \in LbTransports \ {t} : lb'[u] = lb[u]
  BY <1>5, <1>3, ChangeOne DEF LbInv, LoopbackTypeOK
<1>7. /\ lb_clients' = LbPut(lb_clients, p, t) /\ lb_route' = LbPut(lb_route, p, a)
      /\ lb_next_port' = (p + 1) % LbPortCount /\ lb_connects' = c + 1
      /\ lb_servers' = lb_servers /\ lb_sends' = lb_sends
  BY <1>f DEF lb_connect, connect_client
<1>8. /\ DOMAIN lb_clients' = DOMAIN lb_clients \cup {p} /\ lb_clients'[p] = t
      /\ DOMAIN lb_route' = DOMAIN lb_route \cup {p} /\ lb_route'[p] = a
      /\ \A b \in DOMAIN lb_clients : b # p => lb_clients'[b] = lb_clients[b]
      /\ \A b \in DOMAIN lb_route : b # p => lb_route'[b] = lb_route[b]
      /\ p \notin DOMAIN lb_clients /\ DOMAIN lb_clients = DOMAIN lb_route
  BY <1>7, <1>q DEF LbPut, LbInv, LbHub
<1>9. LoopbackTypeOK'
  <2>1. /\ Range(lb_clients)' \subseteq LbTransports /\ Range(lb_route)' \subseteq LbServerPorts
        /\ DOMAIN lb_clients' \subseteq LbPort /\ DOMAIN lb_route' \subseteq LbPort
    BY <1>8, <1>q DEF LbInv, LoopbackTypeOK, Range
  <2>2. lb_next_port' \in LbPort /\ lb_connects' \in 0 .. LbMaxConnects
    <3>1. c + 1 \in 0 .. LbPortCount
      BY <1>0, LbAssumption
    <3>2. LbPortOf(c + 1) \in LbPort
      BY <3>1, LbPorts
    <3> QED BY <3>2, <1>0, <1>7, <1>q
  <2> QED BY <1>6, <1>7, <2>1, <2>2 DEF LbInv, LoopbackTypeOK
<1>10. LbHub'
  <2>1. lb_next_port' = LbPortOf(lb_connects')
    BY <1>7, <1>q
  <2>2. DOMAIN lb_clients' = DOMAIN lb_route' /\ DOMAIN lb_clients' \subseteq LbGiven(lb_connects')
    BY <1>7, <1>8, <1>q DEF LbInv, LbHub
  <2>3. /\ \A b \in DOMAIN lb_clients : lb_clients[b] \in LbTransports \ {t}
        /\ \A b \in DOMAIN lb_servers : lb_servers[b] \in LbTransports \ {t}
    BY <1>1, <1>4 DEF LbInv, LbHub, LoopbackTypeOK, Range
  <2>4. ASSUME NEW b \in DOMAIN lb_clients'
        PROVE  /\ lb'[lb_clients'[b]].connected /\ ~lb'[lb_clients'[b]].bound
               /\ lb'[lb_clients'[b]].local_addr = b
               /\ lb'[lb_clients'[b]].remote_addr = lb_route'[b]
    <3>1. CASE b = p
      BY <3>1, <1>3, <1>4, <1>6, <1>8
    <3>2. CASE b # p
      <4>1. b \in DOMAIN lb_clients /\ lb_clients'[b] = lb_clients[b] /\ lb_route'[b] = lb_route[b]
        BY <3>2, <1>8
      <4>2. lb'[lb_clients[b]] = lb[lb_clients[b]]
        BY <4>1, <2>3, <1>6
      <4> QED BY <4>1, <4>2 DEF LbInv, LbHub
    <3> QED BY <3>1, <3>2
  <2>5. \A b \in DOMAIN lb_servers' :
       lb'[lb_servers'[b]].bound /\ lb'[lb_servers'[b]].local_addr = b
    BY <1>6, <1>7, <2>3 DEF LbInv, LbHub
  <2>6. ASSUME NEW u \in LbTransports
        PROVE  /\ lb'[u].bound => /\ ~lb'[u].connected
                                  /\ lb'[u].local_addr \in DOMAIN lb_servers'
                                  /\ lb_servers'[lb'[u].local_addr] = u
               /\ lb'[u].connected => lb'[u].remote_addr \in LbServerPorts
               /\ ~lb'[u].connected /\ ~lb'[u].bound => lb'[u].remote_addr = NoPort
    <3>1. CASE u = t
      BY <3>1, <1>3, <1>4, <1>6
    <3>2. CASE u # t
      BY <3>2, <1>6, <1>7 DEF LbInv, LbHub
    <3> QED BY <3>1, <3>2
  <2> QED BY <2>1, <2>2, <2>4, <2>5, <2>6 DEF LbHub
<1>11. LbSameDelays
  BY <1>1, <1>3, <1>6 DEF LbSameDelays
<1>12. LbDelays'
  <2>1. LbSameMeaning
    BY <1>7, <1>8, <1>q DEF LbSameMeaning
  <2>2. lb_sends' \in Nat /\ lb_sends <= lb_sends'
    BY <1>7, LbAssumption DEF LbInv, LoopbackTypeOK
  <2> QED BY <1>11, <2>1, <2>2, DelaysSame DEF LbInv
<1>13. LbMail(lb, LbWaits, lb_sends)'
  <2>0. LbBelongs(x)
    BY <1>1 DEF LbInv, LbMail
  <2>1. x.ready_recv = << >> /\ x.pending_recv = << >>
    BY <2>0, <1>4 DEF LbBelongs
  <2>2. LbBox(y) = LbBox(x) /\ LbBox(y) = << >>
    BY <1>3, <2>1 DEF LbBox
  <2>3. LbBelongs(y)
    BY <1>3, <2>2 DEF LbBelongs
  <2>4. \A u \in LbTransports : LbBelongs(lb[u])
    BY DEF LbInv, LbMail
  <2>5. \A u \in LbTransports :
           /\ LbBelongs(lb'[u]) /\ lb'[u].heard = lb[u].heard
           /\ LbBox(lb'[u]) = LbBox(lb[u])
    BY <2>2, <2>3, <2>4, <1>1, <1>3, <1>6
  <2> QED BY <2>5, <1>7, <1>11, MailSame DEF LbInv
<1> QED BY <1>9, <1>10, <1>12, <1>13 DEF LbInv

\* What erase() leaves of a table.
LEMMA EraseIs ==
  ASSUME NEW f, NEW K
  PROVE  /\ DOMAIN LbErase(f, K) = DOMAIN f \ K
         /\ \A a \in DOMAIN f \ K : LbErase(f, K)[a] = f[a]
BY DEF LbErase, Restrict

\* disconnect() of t erases the clients K and the servers L, all of t among them.
LbTables(t, K, L) ==
  /\ lb_servers' = IF L = {} THEN lb_servers ELSE LbErase(lb_servers, L)
  /\ lb_clients' = LbErase(lb_clients, K)
  /\ lb_route' = LbErase(lb_route, K)
  /\ \A b \in DOMAIN lb_clients : lb_clients[b] = t => b \in K
  /\ \A b \in DOMAIN lb_servers : b \in L <=> lb_servers[b] = t

\* disconnect() erases the transport and those it serves, and empties its queues.
LEMMA LbDisconnectStep ==
  ASSUME LbInv, NEW t \in LbTransports, lb_disconnect(t)
  PROVE  LbInv'
<1>1. PICK x \in LbState : x = lb[t]
  BY DEF LbInv, LoopbackTypeOK
<1>2. PICK y : y = [x EXCEPT !.bound = FALSE, !.connected = FALSE,
                             !.local_addr = NoPort, !.remote_addr = NoPort,
                             !.pending_recv = << >>, !.ready_recv = << >>]
  OBVIOUS
<1>3. /\ y \in LbState /\ y.connected = FALSE /\ y.local_addr = NoPort
      /\ y.remote_addr = NoPort /\ y.bound = FALSE
      /\ y.ready_recv = << >> /\ y.pending_recv = << >>
      /\ y.heard = x.heard /\ y.latency = x.latency
      /\ y.delayed_outbound = x.delayed_outbound
  <2>1. NoPort \in LbAddress /\ << >> \in Seq(LbPacket)
    BY DEF LbAddress
  <2> QED BY <1>2, <2>1 DEF LbState
<1>5. lb' = [lb EXCEPT ![t] = y]
  BY <1>1, <1>2 DEF lb_disconnect
<1>6. /\ lb' \in [LbTransports -> LbState] /\ lb'[t] = y
      /\ \A u \in LbTransports \ {t} : lb'[u] = lb[u]
  BY <1>5, <1>3, ChangeOne DEF LbInv, LoopbackTypeOK
<1>7. PICK a : a = x.local_addr
  OBVIOUS
<1>8. \E K, L : LbTables(t, K, L)
  <2>1. CASE x.bound
    <3>1. ~x.connected /\ a \in DOMAIN lb_servers /\ lb_servers[a] = t
      BY <2>1, <1>1, <1>7 DEF LbInv, LbHub
    <3>2. unbind_server(a)
      BY <2>1, <3>1, <1>1, <1>7 DEF lb_disconnect
    <3>3. \A b \in DOMAIN lb_clients : lb_clients[b] # t
      BY <2>1, <1>1 DEF LbInv, LbHub
    <3>4. \A b \in DOMAIN lb_servers : b \in {a} <=> lb_servers[b] = t
      BY <3>1, <1>1, <1>7 DEF LbInv, LbHub
    <3>5. {a} # {}
      OBVIOUS
    <3>6. LbTables(t, {c \in DOMAIN lb_route : lb_route[c] = a}, {a})
      BY <3>2, <3>3, <3>4, <3>5, Zenon DEF unbind_server, LbTables
    <3> QED BY <3>6
  <2>2. CASE ~x.bound
    <3>1. disconnect_client(a)
      BY <2>2, <1>1, <1>7 DEF lb_disconnect
    <3>2. \A b \in DOMAIN lb_clients : lb_clients[b] = t => b \in {a}
      BY <1>1, <1>7 DEF LbInv, LbHub
    <3>3. \A b \in DOMAIN lb_servers : b \in {} <=> lb_servers[b] = t
      BY <2>2, <1>1 DEF LbInv, LbHub
    <3>4. /\ lb_servers' = IF {} = {} THEN lb_servers ELSE LbErase(lb_servers, {})
          /\ lb_clients' = LbErase(lb_clients, {a}) /\ lb_route' = LbErase(lb_route, {a})
      BY <3>1 DEF disconnect_client
    <3>5. LbTables(t, {a}, {})
      BY <3>2, <3>3, <3>4 DEF LbTables
    <3> QED BY <3>5
  <2> QED BY <2>1, <2>2
<1>k. PICK K, L : LbTables(t, K, L)
  BY <1>8
<1>9. /\ lb_servers' = IF L = {} THEN lb_servers ELSE LbErase(lb_servers, L)
      /\ lb_clients' = LbErase(lb_clients, K)
      /\ lb_route' = LbErase(lb_route, K)
      /\ \A b \in DOMAIN lb_clients : lb_clients[b] = t => b \in K
      /\ \A b \in DOMAIN lb_servers : b \in L <=> lb_servers[b] = t
  BY <1>k DEF LbTables
<1>10. /\ lb_next_port' = lb_next_port /\ lb_connects' = lb_connects /\ lb_sends' = lb_sends
  <2>1. x.bound \in BOOLEAN /\ x.connected \in BOOLEAN
    BY LbStateFields
  <2> QED BY <1>1, <2>1 DEF lb_disconnect, unbind_server, disconnect_client, unbind_and_disconnect
<1>11. /\ DOMAIN lb_clients' = DOMAIN lb_clients \ K
       /\ DOMAIN lb_route' = DOMAIN lb_route \ K
       /\ \A b \in DOMAIN lb_clients' : lb_clients'[b] = lb_clients[b]
       /\ \A b \in DOMAIN lb_route' : lb_route'[b] = lb_route[b]
       /\ DOMAIN lb_clients = DOMAIN lb_route
       /\ DOMAIN lb_servers' = DOMAIN lb_servers \ L
       /\ \A b \in DOMAIN lb_servers' : lb_servers'[b] = lb_servers[b]
  <2>1. /\ DOMAIN lb_clients' = DOMAIN lb_clients \ K
        /\ DOMAIN lb_route' = DOMAIN lb_route \ K
        /\ \A b \in DOMAIN lb_clients \ K : lb_clients'[b] = lb_clients[b]
        /\ \A b \in DOMAIN lb_route \ K : lb_route'[b] = lb_route[b]
    BY <1>9, EraseIs, ZenonT(30)
  <2>2. CASE L = {}
    BY <2>1, <2>2, <1>9 DEF LbInv, LbHub
  <2>3. CASE L # {}
    <3>1. /\ DOMAIN lb_servers' = DOMAIN lb_servers \ L
          /\ \A b \in DOMAIN lb_servers \ L : lb_servers'[b] = lb_servers[b]
      BY <2>3, <1>9, EraseIs, ZenonT(30)
    <3> QED BY <2>1, <3>1 DEF LbInv, LbHub
  <2> QED BY <2>2, <2>3
<1>12. /\ \A b \in DOMAIN lb_clients : lb_clients[b] \in LbTransports
       /\ \A b \in DOMAIN lb_servers : lb_servers[b] \in LbTransports
       /\ \A b \in DOMAIN lb_clients' : lb_clients'[b] \in LbTransports \ {t}
       /\ \A b \in DOMAIN lb_servers' : lb_servers'[b] \in LbTransports \ {t}
  BY <1>9, <1>11 DEF LbInv, LoopbackTypeOK, Range
<1>13. LoopbackTypeOK'
  <2>1. /\ DOMAIN lb_servers' \subseteq LbServerPorts /\ Range(lb_servers)' \subseteq LbTransports
        /\ DOMAIN lb_clients' \subseteq LbPort /\ Range(lb_clients)' \subseteq LbTransports
        /\ DOMAIN lb_route' \subseteq LbPort /\ Range(lb_route)' \subseteq LbServerPorts
    BY <1>11, <1>12 DEF LbInv, LoopbackTypeOK, Range
  <2> QED BY <1>6, <1>10, <2>1 DEF LbInv, LoopbackTypeOK
<1>14. LbHub'
  <2>1. /\ lb_next_port' = LbPortOf(lb_connects')
        /\ DOMAIN lb_clients' = DOMAIN lb_route'
        /\ DOMAIN lb_clients' \subseteq LbGiven(lb_connects')
    BY <1>10, <1>11 DEF LbInv, LbHub
  <2>2. ASSUME NEW b \in DOMAIN lb_clients'
        PROVE  /\ lb'[lb_clients'[b]].connected /\ ~lb'[lb_clients'[b]].bound
               /\ lb'[lb_clients'[b]].local_addr = b
               /\ lb'[lb_clients'[b]].remote_addr = lb_route'[b]
    <3>1. /\ b \in DOMAIN lb_clients /\ lb_clients'[b] = lb_clients[b]
          /\ lb_route'[b] = lb_route[b] /\ lb'[lb_clients[b]] = lb[lb_clients[b]]
      BY <1>6, <1>11, <1>12
    <3> QED BY <3>1 DEF LbInv, LbHub
  <2>3. ASSUME NEW b \in DOMAIN lb_servers'
        PROVE  lb'[lb_servers'[b]].bound /\ lb'[lb_servers'[b]].local_addr = b
    <3>1. /\ b \in DOMAIN lb_servers /\ lb_servers'[b] = lb_servers[b]
          /\ lb'[lb_servers[b]] = lb[lb_servers[b]]
      BY <1>6, <1>11, <1>12
    <3> QED BY <3>1 DEF LbInv, LbHub
  <2>4. ASSUME NEW u \in LbTransports
        PROVE  /\ lb'[u].bound => /\ ~lb'[u].connected
                                  /\ lb'[u].local_addr \in DOMAIN lb_servers'
                                  /\ lb_servers'[lb'[u].local_addr] = u
               /\ lb'[u].connected => lb'[u].remote_addr \in LbServerPorts
               /\ ~lb'[u].connected /\ ~lb'[u].bound => lb'[u].remote_addr = NoPort
    <3>1. CASE u = t
      BY <3>1, <1>3, <1>6
    <3>2. CASE u # t
      <4>1. lb'[u] = lb[u]
        BY <3>2, <1>6
      <4>2. lb[u].bound => /\ ~lb[u].connected
                           /\ lb[u].local_addr \in DOMAIN lb_servers
                           /\ lb_servers[lb[u].local_addr] = u
        BY DEF LbInv, LbHub
      <4>3. lb[u].bound => lb[u].local_addr \notin L
        BY <4>2, <3>2, <1>9
      <4> QED BY <4>1, <4>2, <4>3, <1>11 DEF LbInv, LbHub
    <3> QED BY <3>1, <3>2
  <2> QED BY <2>1, <2>2, <2>3, <2>4 DEF LbHub
<1>15. LbSameDelays
  BY <1>1, <1>3, <1>6 DEF LbSameDelays
<1>16. LbDelays'
  <2>1. LbSameMeaning
    BY <1>10, <1>11 DEF LbSameMeaning
  <2>2. lb_sends' \in Nat /\ lb_sends <= lb_sends'
    BY <1>10, LbAssumption DEF LbInv, LoopbackTypeOK
  <2> QED BY <1>15, <2>1, <2>2, DelaysSame DEF LbInv
<1>17. LbMail(lb, LbWaits, lb_sends)'
  <2>1. LbBox(y) = << >>
    BY <1>3 DEF LbBox
  <2>2. LbBelongs(y)
    BY <1>3, <2>1 DEF LbBelongs
  <2>3. \A u \in LbTransports : LbBelongs(lb[u])
    BY DEF LbInv, LbMail
  <2>4. \A u \in LbTransports :
           /\ LbBelongs(lb'[u]) /\ lb'[u].heard = lb[u].heard
           /\ LbBox(lb'[u]) = LbBox(lb[u]) \/ LbBox(lb'[u]) = << >>
    BY <2>1, <2>2, <2>3, <1>1, <1>3, <1>6
  <2> QED BY <2>4, <1>10, <1>15, MailSame DEF LbInv
<1> QED BY <1>13, <1>14, <1>16, <1>17 DEF LbInv

\* No client has a port that an application binds.
LEMMA GivenApart ==
  ASSUME LbInv, LbPortsApart
  PROVE  \A a \in DOMAIN lb_route :
           a \in LbGiven(lb_connects) /\ a \notin LbServerPorts /\ a # NoPort
<1>1. DOMAIN lb_route \subseteq LbGiven(lb_connects) /\ DOMAIN lb_route \subseteq LbPort
  BY DEF LbInv, LbHub, LoopbackTypeOK
<1>2. ASSUME NEW a \in LbGiven(lb_connects)
      PROVE  a \notin LbServerPorts
  <2>1. PICK i \in 0 .. lb_connects - 1 : a = LbPortOf(i)
    BY <1>2 DEF LbGiven
  <2>2. i \in 0 .. LbMaxConnects - 1
    BY LbAssumption DEF LbInv, LoopbackTypeOK
  <2> QED BY <2>1, <2>2 DEF LbPortsApart
<1>3. NoPort \notin LbPort
  BY LbAssumption DEF NoPort, LbPort
<1> QED BY <1>1, <1>2, <1>3

\* What is sent waits, for a moment or for its latency.
LEMMA MailNew ==
  ASSUME LbInv, NEW t \in LbTransports
  PROVE  /\ [LbWaits EXCEPT ![t] = @ \cup {lb_sends + 1}] \in LbNumbers
         /\ LbMail(lb, [LbWaits EXCEPT ![t] = @ \cup {lb_sends + 1}], lb_sends + 1)
         /\ LbMail(lb, LbWaits, lb_sends + 1)
<1> DEFINE W == [LbWaits EXCEPT ![t] = @ \cup {lb_sends + 1}]
<1>1. lb_sends \in Nat /\ lb_sends + 1 \in Nat /\ LbWaits \in LbNumbers
  BY WaitsType, LbAssumption DEF LbInv, LoopbackTypeOK
<1>2. /\ W \in LbNumbers
      /\ \A s \in LbTransports : LbWaits[s] \subseteq W[s]
  BY <1>1 DEF LbNumbers
<1>3. ASSUME NEW u \in LbTransports
      PROVE  /\ LbBelongs(lb[u])
             /\ LbOrdered(LbBox(lb[u]), lb[u].heard, W, lb_sends + 1)
             /\ LbOrdered(LbBox(lb[u]), lb[u].heard, LbWaits, lb_sends + 1)
  <2>1. /\ LbBelongs(lb[u])
        /\ LbOrdered(LbBox(lb[u]), lb[u].heard, LbWaits, lb_sends)
    BY DEF LbInv, LbMail
  <2>2. LbBox(lb[u]) \in Seq(LbPacket) /\ lb[u].heard \in LbHeard
    BY LbStateFields DEF LbInv, LoopbackTypeOK
  <2>3. LbOrdered(LbBox(lb[u]), lb[u].heard, W, lb_sends + 1)
    BY <1>1, <2>1, <2>2, OrderedNew
  <2>4. LbOrdered(LbBox(lb[u]), lb[u].heard, LbWaits, lb_sends + 1)
    <3> HIDE DEF W
    <3> QED BY <1>1, <1>2, <2>2, <2>3, OrderedFewer
  <2> QED BY <2>1, <2>3, <2>4
<1> HIDE DEF W
<1>4. LbMail(lb, W, lb_sends + 1) /\ LbMail(lb, LbWaits, lb_sends + 1)
  BY <1>3 DEF LbMail
<1> QED BY <1>2, <1>4 DEF W

\* The packet that is being sent.
LEMMA NewPacket ==
  ASSUME LbInv, NEW t \in LbTransports, lb_sends < LbMaxSends
  PROVE  /\ LbNew(t) \in LbPacket /\ LbNew(t).n = lb_sends + 1 /\ LbNew(t).from = t
         /\ LbNew(t).sender = lb[t].local_addr
         /\ lb_sends + 1 \in 0 .. LbMaxSends
<1>1. lb_sends + 1 \in 1 .. LbMaxSends
  BY LbAssumption DEF LbInv, LoopbackTypeOK
<1>2. lb[t].local_addr \in LbAddress
  BY LbStateFields DEF LbInv, LoopbackTypeOK
<1> QED BY <1>1, <1>2 DEF LbNew, LbPacket

\* A packet of a transport without latency arrives at once, at some transports.
LEMMA DirectStep ==
  ASSUME LbInv, NEW t \in LbTransports, lb[t].latency = 0, lb_sends < LbMaxSends,
         lb_sends' = lb_sends + 1, UNCHANGED lb_hub,
         NEW U, LbMayGet(lb, U, LbNew(t)), lb' = LbGets(lb, U, LbNew(t))
  PROVE  LbInv'
<1> DEFINE W == [LbWaits EXCEPT ![t] = @ \cup {lb_sends + 1}]
<1>1. PICK p \in LbPacket : p = LbNew(t) /\ p.n = lb_sends + 1 /\ p.from = t
  BY NewPacket
<1>2. /\ lb_sends \in Nat /\ lb_sends + 1 \in Nat /\ lb_sends + 1 \in 0 .. LbMaxSends
      /\ lb \in [LbTransports -> LbState] /\ LbWaits \in LbNumbers
  BY NewPacket, WaitsType, LbAssumption DEF LbInv, LoopbackTypeOK
<1>3. LbWaits[t] = {}
  <2>1. lb[t].delayed_outbound = << >>
    BY DEF LbInv, LbDelays, LbQueueOK
  <2> QED BY <2>1 DEF LbWaits, LbNumbersAt
<1>4. W \in LbNumbers /\ LbMail(lb, W, lb_sends + 1)
  BY MailNew
<1>5. /\ \A s \in LbTransports : LbWaits[s] \subseteq W[s]
      /\ p.n \in W[p.from]
      /\ \A n \in LbWaits[p.from] : p.n < n
  BY <1>1, <1>2, <1>3 DEF LbNumbers
<1> HIDE DEF W
<1>6. p.n <= lb_sends + 1
  BY <1>1, <1>2
<1>7. /\ LbGets(lb, U, p) \in [LbTransports -> LbState]
      /\ LbOnlyMail(LbGets(lb, U, p), lb)
      /\ LbMail(LbGets(lb, U, p), LbWaits, lb_sends + 1)
  BY <1>1, <1>2, <1>4, <1>5, <1>6, MailArrives
<1>8. /\ lb' \in [LbTransports -> LbState] /\ LbOnlyMail(lb', lb)
      /\ LbMail(lb', LbWaits, lb_sends')
  BY <1>1, <1>7
<1>9. LbSameDelays /\ LbSameUsers
  BY <1>8 DEF LbOnlyMail, LbSameDelays, LbSameUsers
<1>10. LoopbackTypeOK'
  BY <1>2, <1>8 DEF LbInv, LoopbackTypeOK, lb_hub
<1>11. LbHub'
  BY <1>9, HubSame DEF LbInv
<1>12. LbDelays'
  <2>1. lb_sends' \in Nat /\ lb_sends <= lb_sends'
    BY <1>2
  <2> QED BY <2>1, <1>9, SameMeaning, DelaysSame DEF LbInv
<1>13. LbMail(lb, LbWaits, lb_sends)'
  BY <1>8, <1>9, WaitsSame
<1> QED BY <1>10, <1>11, <1>12, <1>13 DEF LbInv

\* A packet of a transport with latency is queued behind the others.
LEMMA DelayedStep ==
  ASSUME LbInv, NEW t \in LbTransports, lb[t].latency > 0, lb_sends < LbMaxSends,
         lb_sends' = lb_sends + 1, UNCHANGED lb_hub,
         NEW r \in LbAddress, NEW all \in BOOLEAN,
         ~all => /\ r \in LbServerPorts \cup {NoPort} \cup LbGiven(lb_connects)
                 /\ r \in DOMAIN lb_route => lb_route[r] = lb[t].local_addr,
         lb' = LbDelayed(t, LbNew(t), r, all)
  PROVE  LbInv'
<1>1. PICK p \in LbPacket : /\ p = LbNew(t) /\ p.n = lb_sends + 1 /\ p.from = t
                            /\ p.sender = lb[t].local_addr
  BY NewPacket
<1>2. /\ lb_sends \in Nat /\ lb_sends + 1 \in Nat /\ lb_sends + 1 \in 0 .. LbMaxSends
      /\ lb \in [LbTransports -> LbState] /\ LbWaits \in LbNumbers
  BY NewPacket, WaitsType, LbAssumption DEF LbInv, LoopbackTypeOK
<1>3. PICK x \in LbState : x = lb[t]
  BY <1>2
<1>4. PICK q \in Seq(DelayedPacket) : q = x.delayed_outbound
  BY LbStateFields
<1>5. PICK d : d = [left |-> x.latency, recipient |-> r, packet |-> p, broadcast |-> all]
  OBVIOUS
<1>6. /\ d \in DelayedPacket /\ d.left = x.latency /\ d.recipient = r /\ d.packet = p
      /\ d.broadcast = all /\ x.latency \in Nat
  <2>1. x.latency \in Nat
    BY LbStateFields
  <2> QED BY <1>5, <2>1 DEF DelayedPacket
<1>7. PICK qd \in Seq(DelayedPacket) : qd = Append(q, d)
  <2>1. \A z \in Seq(DelayedPacket) : Append(z, d) \in Seq(DelayedPacket)
    BY <1>6
  <2> QED BY <2>1
<1>8. PICK y : y = [x EXCEPT !.delayed_outbound = qd]
  OBVIOUS
<1>9. /\ y \in LbState /\ y.delayed_outbound = qd
      /\ y.bound = x.bound /\ y.connected = x.connected
      /\ y.local_addr = x.local_addr /\ y.remote_addr = x.remote_addr
      /\ y.ready_recv = x.ready_recv /\ y.pending_recv = x.pending_recv
      /\ y.heard = x.heard /\ y.latency = x.latency
  BY <1>8 DEF LbState
<1>10. lb' = [lb EXCEPT ![t] = y]
  BY <1>1, <1>3, <1>4, <1>5, <1>7, <1>8 DEF LbDelayed
<1>11. /\ lb' \in [LbTransports -> LbState] /\ lb'[t] = y
       /\ \A u \in LbTransports \ {t} : lb'[u] = lb[u]
  BY <1>10, <1>9, <1>2, ChangeOne
<1>12. /\ DOMAIN qd = 1 .. Len(q) + 1 /\ DOMAIN q = 1 .. Len(q) /\ Len(q) \in Nat
       /\ \A k \in 1 .. Len(q) : qd[k] = q[k]
       /\ qd[Len(q) + 1] = d
       /\ \A k \in DOMAIN qd : k \in DOMAIN q \/ k = Len(q) + 1
  BY <1>7, <1>6
<1>13. LoopbackTypeOK'
  BY <1>2, <1>11 DEF LbInv, LoopbackTypeOK, lb_hub
<1>14. LbHub'
  <2>1. LbSameUsers
    BY <1>3, <1>9, <1>11 DEF LbSameUsers
  <2> QED BY <2>1, HubSame DEF LbInv
<1>15. LbDelays'
  <2>1. ASSUME NEW u \in LbTransports
        PROVE  /\ LbQueueOK(u, lb'[u].delayed_outbound, lb'[u].latency, lb_sends')
               /\ LbRightly(lb'[u].delayed_outbound, lb_connects', lb_route')
    <3>1. PICK w \in Seq(DelayedPacket) : w = lb[u].delayed_outbound
      BY <1>2, LbStateFields
    <3>2. /\ LbQueueOK(u, w, lb[u].latency, lb_sends)
          /\ LbRightly(w, lb_connects, lb_route)
      BY <3>1 DEF LbInv, LbDelays
    <3>3. \A k \in DOMAIN w : w[k].packet.n \in Nat /\ w[k].left \in Nat
      BY DelayedFields
    <3>4. lb_connects' = lb_connects /\ lb_route' = lb_route
      BY DEF lb_hub
    <3>5. CASE u # t
      <4>1. lb'[u] = lb[u]
        BY <3>5, <1>11
      <4>2. LbQueueOK(u, w, lb[u].latency, lb_sends')
        BY <1>2, <3>2, <3>3 DEF LbQueueOK
      <4> QED BY <4>1, <4>2, <3>1, <3>2, <3>4
    <3>6. CASE u = t
      <4>1. w = q /\ lb[u].latency = x.latency
        BY <3>1, <3>6, <1>3, <1>4
      <4>2. ASSUME NEW k \in DOMAIN qd
            PROVE  /\ qd[k].packet.from = t /\ qd[k].packet.n <= lb_sends'
                   /\ qd[k].left <= x.latency
                   /\ LbAddressed(qd[k], lb_connects, lb_route)
        <5>1. CASE k \in DOMAIN q
          BY <5>1, <4>1, <3>2, <3>3, <3>6, <1>2, <1>12 DEF LbQueueOK, LbRightly
        <5>2. CASE k = Len(q) + 1
          <6>1. qd[k] = d
            BY <5>2, <1>12
          <6>2. LbAddressed(d, lb_connects, lb_route)
            BY <1>1, <1>6 DEF LbAddressed
          <6> QED BY <6>1, <6>2, <1>1, <1>2, <1>6
        <5> QED BY <5>1, <5>2, <1>12
      <4>3. ASSUME NEW j \in DOMAIN qd, NEW k \in DOMAIN qd, j < k
            PROVE  qd[j].left <= qd[k].left /\ qd[j].packet.n < qd[k].packet.n
        <5>1. j \in DOMAIN q /\ qd[j] = q[j]
          BY <4>3, <1>12
        <5>2. CASE k \in DOMAIN q
          BY <5>1, <5>2, <4>1, <4>3, <3>2, <1>12 DEF LbQueueOK
        <5>3. CASE k = Len(q) + 1
          <6>1. qd[k] = d
            BY <5>3, <1>12
          <6>2. q[j].left <= x.latency /\ q[j].packet.n <= lb_sends
            BY <5>1, <4>1, <3>2 DEF LbQueueOK
          <6>3. q[j].packet.n \in Nat
            BY <5>1, <4>1, <3>3
          <6> QED BY <5>1, <6>1, <6>2, <6>3, <1>1, <1>2, <1>6
        <5> QED BY <5>2, <5>3, <1>12
      <4>4. LbQueueOK(t, qd, x.latency, lb_sends')
        BY <4>2, <4>3, <1>3 DEF LbQueueOK
      <4>5. LbRightly(qd, lb_connects, lb_route)
        BY <4>2 DEF LbRightly
      <4> QED BY <4>4, <4>5, <3>4, <3>6, <1>9, <1>11
    <3> QED BY <3>5, <3>6
  <2> QED BY <2>1 DEF LbDelays
<1>16. LbMail(lb, LbWaits, lb_sends)'
  <2>1. LbWaits' = [LbWaits EXCEPT ![t] = @ \cup {lb_sends + 1}]
    <3>1. LbNumbersAt(qd, DOMAIN qd) = LbNumbersAt(q, DOMAIN q) \cup {lb_sends + 1}
      <4>1. \A k \in DOMAIN q : qd[k] = q[k] /\ k \in DOMAIN qd
        BY <1>12
      <4>2. Len(q) + 1 \in DOMAIN qd /\ qd[Len(q) + 1].packet.n = lb_sends + 1
        BY <1>1, <1>6, <1>12
      <4> QED BY <4>1, <4>2, <1>12 DEF LbNumbersAt
    <3>2. \A u \in LbTransports :
            LbNumbersAt(lb'[u].delayed_outbound, DOMAIN lb'[u].delayed_outbound) =
              IF u = t THEN LbNumbersAt(q, DOMAIN q) \cup {lb_sends + 1}
              ELSE LbNumbersAt(lb[u].delayed_outbound, DOMAIN lb[u].delayed_outbound)
      BY <3>1, <1>9, <1>11
    <3> QED BY <3>2, <1>3, <1>4 DEF LbWaits
  <2>2. PICK W : W = [LbWaits EXCEPT ![t] = @ \cup {lb_sends + 1}]
    OBVIOUS
  <2>3. LbMail(lb, W, lb_sends')
    BY <2>2, MailNew
  <2>4. LbBox(y) = LbBox(x) /\ (LbBelongs(x) => LbBelongs(y))
    <3>1. LbBox(y) = LbBox(x)
      BY <1>9 DEF LbBox
    <3> QED BY <3>1, <1>9 DEF LbBelongs
  <2>5. LbMail(lb', W, lb_sends')
    BY <2>3, <2>4, <1>3, <1>9, <1>11 DEF LbMail
  <2> QED BY <2>1, <2>2, <2>5
<1> QED BY <1>13, <1>14, <1>15, <1>16 DEF LbInv

\* send() hands the packet over, or delays it behind the others.
LEMMA LbSendStep ==
  ASSUME LbInv, LbPortsApart, NEW t \in LbTransports, lb_send(t)
  PROVE  LbInv'
<1>1. PICK x \in LbState : x = lb[t]
  BY DEF LbInv, LoopbackTypeOK
<1>2. /\ lb \in [LbTransports -> LbState] /\ LoopbackTypeOK /\ LbHub
      /\ LbOnlyMail(lb, lb)
  BY DEF LbInv, LoopbackTypeOK, LbOnlyMail
<1>3. lb_sends < LbMaxSends /\ lb_sends' = lb_sends + 1 /\ UNCHANGED lb_hub
  BY DEF lb_send
<1>4. PICK p \in LbPacket : p = LbNew(t) /\ p.sender = x.local_addr
  BY <1>1, <1>3, NewPacket
<1>5. /\ x.latency \in Nat /\ x.bound \in BOOLEAN /\ x.connected \in BOOLEAN
      /\ x.local_addr \in LbAddress /\ x.remote_addr \in LbAddress
  BY LbStateFields
<1>6. ~x.bound => /\ x.remote_addr \in LbServerPorts \cup {NoPort}
                  /\ x.remote_addr \notin DOMAIN lb_route
  <2>1. ~x.bound => x.remote_addr \in LbServerPorts \cup {NoPort}
    BY <1>1, <1>2, <1>5 DEF LbHub
  <2> QED BY <2>1, GivenApart
<1>7. CASE x.latency > 0
  <2>1. PICK r \in LbAddress : r = IF x.bound THEN x.local_addr ELSE x.remote_addr
    BY <1>5
  <2>2. PICK all \in BOOLEAN : all = x.bound
    BY <1>5
  <2>3. lb' = LbDelayed(t, LbNew(t), r, all)
    BY <1>1, <1>7, <2>1, <2>2 DEF lb_send
  <2>4. ~all => /\ r \in LbServerPorts \cup {NoPort} \cup LbGiven(lb_connects)
                /\ r \in DOMAIN lb_route => lb_route[r] = lb[t].local_addr
    BY <1>6, <2>1, <2>2
  <2> QED BY <1>1, <1>3, <1>7, <2>3, <2>4, DelayedStep
<1>8. CASE ~(x.latency > 0)
  <2>0. lb[t].latency = 0
    BY <1>1, <1>5, <1>8
  <2>1. CASE x.bound
    <3>1. lb' = broadcast(lb, p.sender, p)
      BY <1>1, <1>4, <1>8, <2>1 DEF lb_send
    <3>2. lb' = LbGets(lb, LbPeers(p.sender), p)
      BY <3>1, <1>2, BroadcastIs
    <3>3. LbMayGet(lb, LbPeers(p.sender), p)
      BY <1>2, PeersMayGet
    <3> QED BY <3>2, <3>3, <2>0, <1>3, <1>4, DirectStep
  <2>2. CASE ~x.bound /\ x.connected
    <3>1. lb' = deliver(lb, x.remote_addr, p)
      BY <1>1, <1>4, <1>8, <2>2 DEF lb_send
    <3>2. lb' = LbGets(lb, find_transport(x.remote_addr), p)
      BY <3>1, <1>2, DeliverIs
    <3>3. LbMayGet(lb, find_transport(x.remote_addr), p)
      BY <1>2, <1>6, <2>2, FoundMayGet
    <3> QED BY <3>2, <3>3, <2>0, <1>3, <1>4, DirectStep
  <2>3. CASE ~x.bound /\ ~x.connected
    <3>1. lb' = lb
      BY <1>1, <1>8, <2>3 DEF lb_send
    <3>2. LbGets(lb, {}, p) = lb
      BY <1>2 DEF LbGets
    <3>3. LbMayGet(lb, {}, p)
      BY DEF LbMayGet
    <3> QED BY <3>1, <3>2, <3>3, <2>0, <1>3, <1>4, DirectStep
  <2> QED BY <2>1, <2>2, <2>3, <1>5
<1> QED BY <1>7, <1>8

\* send_to() does the same for one recipient.
LEMMA LbSendToStep ==
  ASSUME LbInv, LbPortsApart, NEW t \in LbTransports, NEW a \in DOMAIN lb_route,
         lb_route[a] = lb[t].local_addr, lb_send_to(t, a)
  PROVE  LbInv'
<1>1. PICK x \in LbState : x = lb[t]
  BY DEF LbInv, LoopbackTypeOK
<1>2. /\ lb \in [LbTransports -> LbState] /\ LoopbackTypeOK /\ LbHub
      /\ LbOnlyMail(lb, lb)
  BY DEF LbInv, LoopbackTypeOK, LbOnlyMail
<1>3. lb_sends < LbMaxSends /\ lb_sends' = lb_sends + 1 /\ UNCHANGED lb_hub
  BY DEF lb_send_to
<1>4. PICK p \in LbPacket : p = LbNew(t) /\ p.sender = x.local_addr
  BY <1>1, <1>3, NewPacket
<1>5. x.latency \in Nat /\ a \in LbGiven(lb_connects) /\ a \in LbAddress
  BY LbStateFields, GivenApart DEF LbInv, LoopbackTypeOK, LbAddress
<1>6. CASE x.latency > 0
  <2>1. lb' = LbDelayed(t, LbNew(t), a, FALSE)
    BY <1>1, <1>6 DEF lb_send_to
  <2> QED BY <2>1, <1>1, <1>3, <1>5, <1>6, DelayedStep
<1>7. CASE ~(x.latency > 0)
  <2>0. lb[t].latency = 0
    BY <1>1, <1>5, <1>7
  <2>1. lb' = deliver(lb, a, p)
    BY <1>1, <1>4, <1>7 DEF lb_send_to
  <2>2. lb' = LbGets(lb, find_transport(a), p)
    BY <2>1, <1>2, DeliverIs
  <2>3. LbMayGet(lb, find_transport(a), p)
    BY <1>1, <1>2, <1>4, FoundMayGet
  <2> QED BY <2>0, <2>2, <2>3, <1>3, <1>4, DirectStep
<1> QED BY <1>6, <1>7

\* A send without a connection goes nowhere.
LEMMA LbDroppedStep ==
  ASSUME LbInv, lb_send_dropped
  PROVE  LbInv'
<1>1. /\ lb' = lb /\ UNCHANGED lb_hub /\ lb_sends' = lb_sends + 1
      /\ lb_sends \in Nat /\ lb_sends' \in Nat /\ lb_sends <= lb_sends'
      /\ lb_sends' \in 0 .. LbMaxSends
  BY LbAssumption DEF lb_send_dropped, LbInv, LoopbackTypeOK
<1>2. LbSameDelays /\ LbSameUsers
  BY <1>1 DEF LbSameDelays, LbSameUsers
<1>3. LoopbackTypeOK'
  BY <1>1 DEF LbInv, LoopbackTypeOK, lb_hub
<1>4. LbHub' /\ LbDelays'
  BY <1>1, <1>2, HubSame, SameMeaning, DelaysSame DEF LbInv
<1>5. LbMail(lb, LbWaits, lb_sends)'
  <2>1. LbMail(lb, LbWaits, lb_sends')
    <3>1. CASE LbTransports = {}
      BY <3>1 DEF LbMail
    <3>2. CASE LbTransports # {}
      <4>1. PICK t \in LbTransports : TRUE
        BY <3>2
      <4> QED BY <1>1, <4>1, MailNew
    <3> QED BY <3>1, <3>2
  <2> QED BY <2>1, <1>1, <1>2, WaitsSame
<1> QED BY <1>3, <1>4, <1>5 DEF LbInv

\* pop_receive() moves on in the order of the queue.
LEMMA LbPopStep ==
  ASSUME LbInv, NEW t \in LbTransports, lb_pop_receive(t)
  PROVE  LbInv'
<1>1. PICK x \in LbState : x = lb[t]
  BY DEF LbInv, LoopbackTypeOK
<1>2. PICK r \in Seq(LbPacket) : r = x.ready_recv
  BY LbStateFields
<1>3. PICK p \in LbPacket : p = Head(r)
  <2>1. r # << >>
    BY <1>1, <1>2 DEF lb_pop_receive
  <2> QED BY <2>1
<1>4. PICK h : h = [x.heard EXCEPT ![p.from] = p.n]
  OBVIOUS
<1>5. /\ Tail(r) \in Seq(LbPacket) /\ h \in LbHeard /\ r # << >>
  <2>1. r # << >>
    BY <1>1, <1>2 DEF lb_pop_receive
  <2>2. x.heard \in LbHeard
    BY LbStateFields
  <2>3. p.n \in 0 .. LbMaxSends
    BY LbAssumption DEF LbPacket
  <2>4. h \in LbHeard
    BY <2>2, <2>3, <1>4 DEF LbHeard
  <2>5. Tail(r) \in Seq(LbPacket)
    BY <2>1
  <2> QED BY <2>1, <2>4, <2>5
<1>6. PICK y : y = [x EXCEPT !.ready_recv = Tail(r), !.heard = h]
  OBVIOUS
<1>7. /\ y \in LbState /\ y.ready_recv = Tail(r) /\ y.heard = h
      /\ y.bound = x.bound /\ y.connected = x.connected
      /\ y.local_addr = x.local_addr /\ y.remote_addr = x.remote_addr
      /\ y.pending_recv = x.pending_recv
      /\ y.latency = x.latency /\ y.delayed_outbound = x.delayed_outbound
  BY <1>5, <1>6 DEF LbState, LbHeard
<1>8. /\ lb' = [lb EXCEPT ![t] = y] /\ UNCHANGED lb_hub /\ lb_sends' = lb_sends
  BY <1>1, <1>2, <1>3, <1>4, <1>6 DEF lb_pop_receive
<1>9. /\ lb' \in [LbTransports -> LbState] /\ lb'[t] = y
      /\ \A u \in LbTransports \ {t} : lb'[u] = lb[u]
  BY <1>7, <1>8, ChangeOne DEF LbInv, LoopbackTypeOK
<1>10. LoopbackTypeOK'
  BY <1>8, <1>9 DEF LbInv, LoopbackTypeOK, lb_hub
<1>11. LbSameDelays /\ LbSameUsers
  BY <1>1, <1>7, <1>9 DEF LbSameDelays, LbSameUsers
<1>12. LbHub' /\ LbDelays'
  <2>1. lb_sends' \in Nat /\ lb_sends <= lb_sends'
    BY <1>8, LbAssumption DEF LbInv, LoopbackTypeOK
  <2> QED BY <2>1, <1>8, <1>11, HubSame, SameMeaning, DelaysSame DEF LbInv
<1>13. LbMail(lb, LbWaits, lb_sends)'
  <2>1. PICK e \in Seq(LbPacket) : e = x.pending_recv
    BY LbStateFields
  <2>a. r \o e \in Seq(LbPacket) /\ r \o e # << >> /\ Head(r \o e) = Head(r)
    BY <1>5
  <2>2. PICK b \in Seq(LbPacket) : b = r \o e
    BY <2>a, Zenon
  <2>b. b # << >> /\ Head(b) = p
    BY <2>a, <2>2, <1>3
  <2>3. LbBox(x) = b /\ b # << >> /\ Head(b) = p
    BY <1>2, <2>1, <2>2, <2>b DEF LbBox
  <2>4. Tail(r) \o e = Tail(b)
    BY <1>5, <2>2
  <2>5. LbBox(y) = Tail(b)
    BY <2>1, <2>4, <1>7 DEF LbBox
  <2>6. /\ LbBelongs(x) /\ LbOrdered(b, x.heard, LbWaits, lb_sends)
    BY <2>3, <1>1 DEF LbInv, LbMail
  <2>7. /\ x.heard \in LbHeard /\ LbWaits \in LbNumbers /\ lb_sends \in Nat
    BY LbStateFields, WaitsType, LbAssumption DEF LbInv, LoopbackTypeOK
  <2>8. LbOrdered(Tail(b), h, LbWaits, lb_sends)
    BY <2>3, <2>6, <2>7, <1>4, OrderedTaken
  <2>9. LbBelongs(y)
    <3>1. x.bound \/ x.connected
      BY <2>6, <1>2, <1>5 DEF LbBelongs
    <3>2. \A k \in DOMAIN Tail(b) : k + 1 \in DOMAIN b /\ Tail(b)[k] = b[k + 1]
      BY <2>3
    <3>3. x.connected => \A k \in DOMAIN b : b[k].sender = x.remote_addr
      BY <2>3, <2>6 DEF LbBelongs
    <3>4. y.connected => \A k \in DOMAIN LbBox(y) : LbBox(y)[k].sender = y.remote_addr
      BY <2>5, <3>2, <3>3, <1>7
    <3> QED BY <3>1, <3>4, <1>7 DEF LbBelongs
  <2>10. \A u \in LbTransports :
           LbBelongs(lb'[u]) /\ LbOrdered(LbBox(lb'[u]), lb'[u].heard, LbWaits, lb_sends)
    BY <2>5, <2>8, <2>9, <1>7, <1>9 DEF LbInv, LbMail
  <2>11. LbMail(lb', LbWaits, lb_sends')
    BY <2>10, <1>8 DEF LbMail
  <2> QED BY <2>11, <1>11, WaitsSame
<1> QED BY <1>10, <1>12, <1>13 DEF LbInv

\* Only latencies and the time the delayed packets still wait change.
LEMMA TimeStep ==
  ASSUME LbInv, lb' \in [LbTransports -> LbState], UNCHANGED <<lb_hub, lb_sends>>,
         LbSameUsers,
         \A u \in LbTransports :
           /\ lb'[u].heard = lb[u].heard /\ lb'[u].ready_recv = lb[u].ready_recv
           /\ lb'[u].pending_recv = lb[u].pending_recv
           /\ DOMAIN lb'[u].delayed_outbound = DOMAIN lb[u].delayed_outbound
           /\ \A k \in DOMAIN lb[u].delayed_outbound :
                /\ lb'[u].delayed_outbound[k].packet = lb[u].delayed_outbound[k].packet
                /\ lb'[u].delayed_outbound[k].recipient = lb[u].delayed_outbound[k].recipient
                /\ lb'[u].delayed_outbound[k].broadcast = lb[u].delayed_outbound[k].broadcast
           /\ LbQueueOK(u, lb'[u].delayed_outbound, lb'[u].latency, lb_sends)
  PROVE  LbInv'
<1>1. LoopbackTypeOK'
  BY DEF LbInv, LoopbackTypeOK, lb_hub
<1>2. UNCHANGED lb_hub /\ lb_sends' = lb_sends
  OBVIOUS
<1>3. LbHub'
  BY <1>2, HubSame DEF LbInv
<1>4. LbDelays'
  <2>1. ASSUME NEW u \in LbTransports
        PROVE  LbRightly(lb'[u].delayed_outbound, lb_connects', lb_route')
    <3>1. lb_connects' = lb_connects /\ lb_route' = lb_route
      BY <1>2 DEF lb_hub
    <3>2. LbRightly(lb[u].delayed_outbound, lb_connects, lb_route)
      BY DEF LbInv, LbDelays
    <3>3. PICK q : q = lb[u].delayed_outbound
      OBVIOUS
    <3>4. PICK r : r = lb'[u].delayed_outbound
      OBVIOUS
    <3>5. /\ DOMAIN r = DOMAIN q
          /\ \A k \in DOMAIN q : /\ r[k].packet = q[k].packet
                                 /\ r[k].recipient = q[k].recipient
                                 /\ r[k].broadcast = q[k].broadcast
      BY <3>3, <3>4
    <3>6. LbRightly(r, lb_connects, lb_route)
      BY <3>2, <3>3, <3>5 DEF LbRightly, LbAddressed
    <3> QED BY <3>1, <3>4, <3>6
  <2> QED BY <1>2, <2>1 DEF LbDelays
<1>5. LbWaits' = LbWaits
  <2>1. ASSUME NEW u \in LbTransports
        PROVE  LbNumbersAt(lb'[u].delayed_outbound, DOMAIN lb'[u].delayed_outbound) =
               LbNumbersAt(lb[u].delayed_outbound, DOMAIN lb[u].delayed_outbound)
    <3>1. PICK q : q = lb[u].delayed_outbound
      OBVIOUS
    <3>2. PICK r : r = lb'[u].delayed_outbound
      OBVIOUS
    <3>3. DOMAIN r = DOMAIN q /\ \A k \in DOMAIN q : r[k].packet = q[k].packet
      BY <3>1, <3>2
    <3>4. LbNumbersAt(r, DOMAIN r) = LbNumbersAt(q, DOMAIN q)
      BY <3>3 DEF LbNumbersAt
    <3> QED BY <3>1, <3>2, <3>4
  <2> QED BY <2>1 DEF LbWaits
<1>6. LbMail(lb, LbWaits, lb_sends)'
  <2>1. ASSUME NEW u \in LbTransports
        PROVE  LbBelongs(lb'[u]) /\ LbOrdered(LbBox(lb'[u]), lb'[u].heard, LbWaits, lb_sends)
    <3>1. PICK x : x = lb[u]
      OBVIOUS
    <3>2. PICK y : y = lb'[u]
      OBVIOUS
    <3>3. /\ y.bound = x.bound /\ y.connected = x.connected /\ y.remote_addr = x.remote_addr
          /\ y.heard = x.heard /\ y.ready_recv = x.ready_recv
          /\ y.pending_recv = x.pending_recv
      BY <3>1, <3>2 DEF LbSameUsers
    <3>4. LbBox(y) = LbBox(x)
      BY <3>3 DEF LbBox
    <3>5. LbBelongs(x) /\ LbOrdered(LbBox(x), x.heard, LbWaits, lb_sends)
      BY <3>1 DEF LbInv, LbMail
    <3>6. LbBelongs(y)
      BY <3>3, <3>4, <3>5 DEF LbBelongs
    <3> QED BY <3>2, <3>3, <3>4, <3>5, <3>6
  <2>2. LbMail(lb', LbWaits, lb_sends)
    BY <2>1 DEF LbMail
  <2> QED BY <2>2, <1>2, <1>5
<1> QED BY <1>1, <1>3, <1>4, <1>6 DEF LbInv

\* set_simulated_latency() is called when nothing is delayed.
LEMMA LbLatencyStep ==
  ASSUME LbInv, LbDisciplined, NEW t \in LbTransports, NEW l \in LbLatencies,
         lb_set_latency(t, l)
  PROVE  LbInv'
<1>1. PICK x \in LbState : x = lb[t]
  BY DEF LbInv, LoopbackTypeOK
<1>2. PICK y : y = [x EXCEPT !.latency = l]
  OBVIOUS
<1>3. /\ y \in LbState /\ y.latency = l
      /\ y.bound = x.bound /\ y.connected = x.connected
      /\ y.local_addr = x.local_addr /\ y.remote_addr = x.remote_addr
      /\ y.ready_recv = x.ready_recv /\ y.pending_recv = x.pending_recv
      /\ y.heard = x.heard /\ y.delayed_outbound = x.delayed_outbound
  BY <1>2 DEF LbState
<1>4. lb' = [lb EXCEPT ![t] = y] /\ UNCHANGED <<lb_hub, lb_sends>>
  BY <1>1, <1>2 DEF lb_set_latency
<1>5. /\ lb' \in [LbTransports -> LbState] /\ lb'[t] = y
      /\ \A u \in LbTransports \ {t} : lb'[u] = lb[u]
  BY <1>3, <1>4, ChangeOne DEF LbInv, LoopbackTypeOK
<1>6. PICK q \in Seq(DelayedPacket) : q = x.delayed_outbound
  BY LbStateFields
<1>7. LbQueueOK(t, q, l, lb_sends)
  <2>1. LbQueueOK(t, q, x.latency, lb_sends)
    BY <1>1, <1>6 DEF LbInv, LbDelays
  <2>2. l \in Nat /\ x.latency \in Nat /\ (l > x.latency \/ q = << >>)
    BY <1>1, <1>6, LbStateFields, LbAssumption DEF lb_set_latency
  <2>3. \A k \in DOMAIN q : q[k].left \in Nat
    BY DelayedFields
  <2> QED BY <2>1, <2>2, <2>3 DEF LbQueueOK
<1>8. LbSameUsers
  BY <1>1, <1>3, <1>5 DEF LbSameUsers
<1>9. ASSUME NEW u \in LbTransports
      PROVE  /\ lb'[u].heard = lb[u].heard /\ lb'[u].ready_recv = lb[u].ready_recv
             /\ lb'[u].pending_recv = lb[u].pending_recv
             /\ lb'[u].delayed_outbound = lb[u].delayed_outbound
             /\ LbQueueOK(u, lb'[u].delayed_outbound, lb'[u].latency, lb_sends)
  <2>1. CASE u = t
    BY <2>1, <1>1, <1>3, <1>5, <1>6, <1>7
  <2>2. CASE u # t
    BY <2>2, <1>5 DEF LbInv, LbDelays
  <2> QED BY <2>1, <2>2
<1> QED BY <1>4, <1>5, <1>8, <1>9, TimeStep

\* The clock takes from all delays alike.
LEMMA LbTickStep ==
  ASSUME LbInv, lb_tick
  PROVE  LbInv'
<1>1. UNCHANGED <<lb_hub, lb_sends>>
  BY DEF lb_tick
<1>2. lb' = [t \in LbTransports |->
               [lb[t] EXCEPT !.delayed_outbound = LbAged(lb[t].delayed_outbound)]]
  BY DEF lb_tick
<1>3. ASSUME NEW q \in Seq(DelayedPacket)
      PROVE  /\ LbAged(q) \in Seq(DelayedPacket) /\ DOMAIN LbAged(q) = DOMAIN q
             /\ \A k \in DOMAIN q :
                  /\ LbAged(q)[k].packet = q[k].packet
                  /\ LbAged(q)[k].recipient = q[k].recipient
                  /\ LbAged(q)[k].broadcast = q[k].broadcast
                  /\ LbAged(q)[k].left = IF q[k].left = 0 THEN 0 ELSE q[k].left - 1
                  /\ q[k].left \in Nat
  <2>1. \A d \in DelayedPacket :
          LET e == [d EXCEPT !.left = IF @ = 0 THEN 0 ELSE @ - 1] IN
          /\ e \in DelayedPacket /\ e.packet = d.packet /\ e.recipient = d.recipient
          /\ e.broadcast = d.broadcast
          /\ e.left = IF d.left = 0 THEN 0 ELSE d.left - 1
          /\ d.left \in Nat
    BY DEF DelayedPacket
  <2>2. \A k \in DOMAIN q : q[k] \in DelayedPacket
    OBVIOUS
  <2>3. Len(q) \in Nat /\ DOMAIN q = 1 .. Len(q)
    OBVIOUS
  <2>4. LbAged(q) \in [1 .. Len(q) -> DelayedPacket]
    BY <2>1, <2>2, <2>3 DEF LbAged
  <2>5. LbAged(q) \in Seq(DelayedPacket)
    BY <2>3, <2>4, SeqDef
  <2> QED BY <2>1, <2>2, <2>5 DEF LbAged
<1>4. ASSUME NEW u \in LbTransports
      PROVE  /\ lb'[u] \in LbState
             /\ lb'[u].heard = lb[u].heard /\ lb'[u].ready_recv = lb[u].ready_recv
             /\ lb'[u].pending_recv = lb[u].pending_recv
             /\ lb'[u].bound = lb[u].bound /\ lb'[u].connected = lb[u].connected
             /\ lb'[u].local_addr = lb[u].local_addr
             /\ lb'[u].remote_addr = lb[u].remote_addr
             /\ lb'[u].latency = lb[u].latency
             /\ lb'[u].delayed_outbound = LbAged(lb[u].delayed_outbound)
             /\ lb[u].delayed_outbound \in Seq(DelayedPacket)
  <2>1. PICK x \in LbState : x = lb[u]
    BY DEF LbInv, LoopbackTypeOK
  <2>2. PICK q \in Seq(DelayedPacket) : q = x.delayed_outbound
    BY LbStateFields
  <2>3. PICK r \in Seq(DelayedPacket) : r = LbAged(q)
    BY <1>3
  <2>4. lb'[u] = [x EXCEPT !.delayed_outbound = r]
    BY <1>2, <2>1, <2>2, <2>3
  <2>5. PICK y : y = [x EXCEPT !.delayed_outbound = r]
    OBVIOUS
  <2>6. /\ y \in LbState /\ y.heard = x.heard /\ y.ready_recv = x.ready_recv
        /\ y.pending_recv = x.pending_recv
        /\ y.bound = x.bound /\ y.connected = x.connected
        /\ y.local_addr = x.local_addr /\ y.remote_addr = x.remote_addr
        /\ y.latency = x.latency /\ y.delayed_outbound = r
    BY <2>5 DEF LbState
  <2> QED BY <2>1, <2>2, <2>3, <2>4, <2>5, <2>6
<1>5. lb' \in [LbTransports -> LbState]
  <2>1. lb' = [u \in LbTransports |-> lb'[u]]
    BY <1>2
  <2> QED BY <2>1, <1>4
<1>6. ASSUME NEW u \in LbTransports
      PROVE  LbQueueOK(u, lb'[u].delayed_outbound, lb'[u].latency, lb_sends)
  <2>1. PICK q \in Seq(DelayedPacket) : q = lb[u].delayed_outbound
    BY <1>4
  <2>2. PICK r \in Seq(DelayedPacket) : r = LbAged(q)
    BY <1>3
  <2>3. LbQueueOK(u, q, lb[u].latency, lb_sends)
    BY <2>1 DEF LbInv, LbDelays
  <2>4. /\ DOMAIN r = DOMAIN q
        /\ \A k \in DOMAIN q : /\ r[k].packet = q[k].packet
                               /\ r[k].left = IF q[k].left = 0 THEN 0 ELSE q[k].left - 1
                               /\ q[k].left \in Nat
    BY <2>2, <1>3
  <2>5. lb[u].latency \in Nat
    BY LbStateFields DEF LbInv, LoopbackTypeOK
  <2>6. \A j, k \in DOMAIN q : q[j].left <= q[k].left => r[j].left <= r[k].left
    BY <2>4
  <2>7. r # << >> => lb[u].latency > 0
    BY <2>3, <2>4 DEF LbQueueOK
  <2>8. \A k \in DOMAIN r : r[k].left <= lb[u].latency
    BY <2>3, <2>4, <2>5 DEF LbQueueOK
  <2>9. LbQueueOK(u, r, lb[u].latency, lb_sends)
    BY <2>3, <2>4, <2>6, <2>7, <2>8 DEF LbQueueOK
  <2> QED BY <2>1, <2>2, <2>9, <1>4
<1>7. LbSameUsers
  BY <1>4 DEF LbSameUsers
<1>8. ASSUME NEW u \in LbTransports
      PROVE  /\ DOMAIN lb'[u].delayed_outbound = DOMAIN lb[u].delayed_outbound
             /\ \A k \in DOMAIN lb[u].delayed_outbound :
                /\ lb'[u].delayed_outbound[k].packet = lb[u].delayed_outbound[k].packet
                /\ lb'[u].delayed_outbound[k].recipient = lb[u].delayed_outbound[k].recipient
                /\ lb'[u].delayed_outbound[k].broadcast = lb[u].delayed_outbound[k].broadcast
  BY <1>3, <1>4
<1> QED BY <1>1, <1>4, <1>5, <1>6, <1>7, <1>8, TimeStep

\* poll() flushes what is due, in order, and turns the receive queues over.
LEMMA LbPollStep ==
  ASSUME LbInv, NEW t \in LbTransports, lb_poll(t)
  PROVE  LbInv'
<1>1. PICK q \in Seq(DelayedPacket) : q = lb[t].delayed_outbound
  BY LbStateFields DEF LbInv, LoopbackTypeOK
<1>2. PICK S : S = LbFlushed(q)
  OBVIOUS
<1>3. PICK at : at = LbUnflushed(q, Len(q))
  OBVIOUS
<1>4. PICK W : W = [LbWaits EXCEPT ![t] = LbNumbersAt(q, at)]
  OBVIOUS
<1>5. /\ S \in [LbTransports -> LbState] /\ LbOnlyMail(S, lb)
      /\ LbMail(S, W, lb_sends)
  BY <1>1, <1>2, <1>3, <1>4, FlushedLaw DEF LbInv
<1>6. at \subseteq DOMAIN q /\ at = {k \in DOMAIN q : q[k].left # 0}
  <2>1. Len(q) \in Nat /\ DOMAIN q = 1 .. Len(q)
    OBVIOUS
  <2> QED BY <1>3, <2>1 DEF LbUnflushed
<1>7. PICK c : c = Cardinality(at)
  OBVIOUS
<1>8. PICK r \in Seq(DelayedPacket) : r = Kept(q, at)
  BY <1>6, KeptType
<1>9. /\ c \in Nat /\ DOMAIN r = 1 .. c
      /\ \A k \in 1 .. c : /\ Nth(at, k) \in at /\ Nth(at, k) \in DOMAIN q
                           /\ r[k] = q[Nth(at, k)]
      /\ \A j, k \in 1 .. c : j < k => Nth(at, j) < Nth(at, k)
      /\ \A i \in at : \E k \in 1 .. c : Nth(at, k) = i
  <2>1. c \in Nat /\ DOMAIN r = 1 .. c
    BY <1>6, <1>7, <1>8, KeptType
  <2>2. \A k \in 1 .. c : Nth(at, k) \in at /\ r[k] = q[Nth(at, k)]
    BY <1>6, <1>7, <1>8, KeptType
  <2>3. /\ \A j, k \in 1 .. c : j < k => Nth(at, j) < Nth(at, k)
        /\ \A i \in at : \E k \in 1 .. c : Nth(at, k) = i
    BY <1>6, <1>7, KeptOrder, ZenonT(30)
  <2> QED BY <2>1, <2>2, <2>3, <1>6
<1>10. PICK x \in LbState : x = S[t]
  BY <1>5
<1>11. PICK rr \in Seq(LbPacket) : rr = x.ready_recv \o x.pending_recv
  BY LbStateFields DEF LbBox
<1>12. PICK y : y = [x EXCEPT !.delayed_outbound = r, !.ready_recv = rr,
                              !.pending_recv = << >>]
  OBVIOUS
<1>13. /\ y \in LbState /\ y.delayed_outbound = r /\ y.ready_recv = rr
       /\ y.pending_recv = << >>
       /\ y.bound = x.bound /\ y.connected = x.connected
       /\ y.local_addr = x.local_addr /\ y.remote_addr = x.remote_addr
       /\ y.heard = x.heard /\ y.latency = x.latency
  <2>1. << >> \in Seq(LbPacket)
    OBVIOUS
  <2> QED BY <1>12, <2>1 DEF LbState
<1>14. /\ lb' = [S EXCEPT ![t] = y] /\ UNCHANGED lb_hub /\ lb_sends' = lb_sends
  <2>1. LbStillDelayed(q) = r
    BY <1>6, <1>8 DEF LbStillDelayed
  <2>2. lb' = [S EXCEPT ![t].delayed_outbound = LbStillDelayed(q),
                        ![t].ready_recv = @ \o S[t].pending_recv,
                        ![t].pending_recv = << >>]
    BY <1>1, <1>2 DEF lb_poll
  <2>3. UNCHANGED lb_hub /\ lb_sends' = lb_sends
    BY DEF lb_poll
  <2>4. [S EXCEPT ![t].delayed_outbound = r,
                  ![t].ready_recv = @ \o S[t].pending_recv,
                  ![t].pending_recv = << >>] = [S EXCEPT ![t] = y]
    BY <1>5, <1>10, <1>11, <1>12
  <2> QED BY <2>1, <2>2, <2>3, <2>4
<1>15. /\ lb' \in [LbTransports -> LbState] /\ lb'[t] = y
       /\ \A u \in LbTransports \ {t} : lb'[u] = S[u]
  BY <1>5, <1>13, <1>14, ChangeOne
<1>16. /\ x.bound = lb[t].bound /\ x.connected = lb[t].connected
       /\ x.local_addr = lb[t].local_addr /\ x.remote_addr = lb[t].remote_addr
       /\ x.latency = lb[t].latency
  BY <1>5, <1>10 DEF LbOnlyMail
<1>17. LoopbackTypeOK'
  BY <1>14, <1>15 DEF LbInv, LoopbackTypeOK, lb_hub
<1>18. LbHub'
  <2>1. LbSameUsers
    BY <1>5, <1>13, <1>15, <1>16 DEF LbSameUsers, LbOnlyMail
  <2> QED BY <2>1, <1>14, HubSame DEF LbInv
<1>19. LbDelays'
  <2>0. lb_connects' = lb_connects /\ lb_route' = lb_route
    BY <1>14 DEF lb_hub
  <2>1. /\ LbQueueOK(t, q, x.latency, lb_sends) /\ LbRightly(q, lb_connects, lb_route)
    BY <1>1, <1>16 DEF LbInv, LbDelays
  <2>2. LbQueueOK(t, r, x.latency, lb_sends)
    <3>1. r # << >> => q # << >>
      <4>1. q = << >> => DOMAIN q = {}
        OBVIOUS
      <4>2. q = << >> => DOMAIN r = {}
        BY <4>1, <1>9
      <4> QED BY <4>2
    <3>2. \A k \in DOMAIN r : /\ r[k].packet.from = t /\ r[k].packet.n <= lb_sends
                              /\ r[k].left <= x.latency
      BY <2>1, <1>9 DEF LbQueueOK
    <3>3. \A j, k \in DOMAIN r :
            j < k => r[j].left <= r[k].left /\ r[j].packet.n < r[k].packet.n
      BY <2>1, <1>9 DEF LbQueueOK
    <3> QED BY <2>1, <3>1, <3>2, <3>3 DEF LbQueueOK
  <2>3. LbRightly(r, lb_connects, lb_route)
    BY <2>1, <1>9 DEF LbRightly
  <2>4. ASSUME NEW u \in LbTransports
        PROVE  /\ LbQueueOK(u, lb'[u].delayed_outbound, lb'[u].latency, lb_sends')
               /\ LbRightly(lb'[u].delayed_outbound, lb_connects', lb_route')
    <3>1. CASE u = t
      BY <3>1, <2>0, <2>2, <2>3, <1>13, <1>14, <1>15
    <3>2. CASE u # t
      <4>1. /\ lb'[u].delayed_outbound = lb[u].delayed_outbound
            /\ lb'[u].latency = lb[u].latency
        BY <3>2, <1>5, <1>15 DEF LbOnlyMail
      <4> QED BY <4>1, <2>0, <1>14 DEF LbInv, LbDelays
    <3> QED BY <3>1, <3>2
  <2> QED BY <2>4 DEF LbDelays
<1>20. LbMail(lb, LbWaits, lb_sends)'
  <2>1. LbWaits' = W
    <3>1. LbNumbersAt(r, DOMAIN r) = LbNumbersAt(q, at)
      <4>1. \A k \in DOMAIN r : \E i \in at : r[k].packet.n = q[i].packet.n
        BY <1>9
      <4>2. \A i \in at : \E k \in DOMAIN r : r[k].packet.n = q[i].packet.n
        BY <1>9
      <4>3. ASSUME NEW n
            PROVE  n \in LbNumbersAt(r, DOMAIN r) <=> n \in LbNumbersAt(q, at)
        <5>1. n \in LbNumbersAt(r, DOMAIN r) <=> \E k \in DOMAIN r : n = r[k].packet.n
          BY DEF LbNumbersAt
        <5>2. n \in LbNumbersAt(q, at) <=> \E i \in at : n = q[i].packet.n
          BY DEF LbNumbersAt
        <5> QED BY <5>1, <5>2, <4>1, <4>2
      <4> QED BY <4>3, Zenon
    <3>2. ASSUME NEW u \in LbTransports, u # t
          PROVE  lb'[u].delayed_outbound = lb[u].delayed_outbound
      BY <3>2, <1>5, <1>15 DEF LbOnlyMail
    <3>3. \A u \in LbTransports :
            LbNumbersAt(lb'[u].delayed_outbound, DOMAIN lb'[u].delayed_outbound) =
              IF u = t THEN LbNumbersAt(q, at)
              ELSE LbNumbersAt(lb[u].delayed_outbound, DOMAIN lb[u].delayed_outbound)
      BY <3>1, <3>2, <1>13, <1>15
    <3> QED BY <3>3, <1>4 DEF LbWaits
  <2>2. LbBox(y) = LbBox(x)
    BY <1>11, <1>13 DEF LbBox
  <2>3. LbBelongs(x) /\ LbOrdered(LbBox(x), x.heard, W, lb_sends)
    BY <1>5, <1>10 DEF LbMail
  <2>4. LbBelongs(y)
    <3>1. ~x.bound /\ ~x.connected => rr = << >>
      BY <2>3, <1>11 DEF LbBelongs
    <3> QED BY <2>2, <2>3, <3>1, <1>13 DEF LbBelongs
  <2>5. \A u \in LbTransports :
          LbBelongs(lb'[u]) /\ LbOrdered(LbBox(lb'[u]), lb'[u].heard, W, lb_sends)
    BY <2>2, <2>3, <2>4, <1>5, <1>13, <1>15 DEF LbMail
  <2>6. LbMail(lb', W, lb_sends')
    BY <2>5, <1>14 DEF LbMail
  <2> QED BY <2>1, <2>6
<1> QED BY <1>17, <1>18, <1>19, <1>20 DEF LbInv

-----------------------------------------------------------------------------
(* LoopbackTransport: the invariant and what it implies.                   *)

\* The invariant holds at the start.
LEMMA LbInitially ==
  ASSUME LoopbackInit
  PROVE  LbInv
<1>1. /\ lb_connects = 0 /\ lb_sends = 0 /\ lb_next_port = LbFirstPort
      /\ DOMAIN lb_servers = {} /\ DOMAIN lb_clients = {} /\ DOMAIN lb_route = {}
  BY DEF LoopbackInit, LbEmpty
<1>2. PICK y : y = [bound |-> FALSE, connected |-> FALSE, local_addr |-> NoPort,
             remote_addr |-> NoPort, pending_recv |-> << >>, ready_recv |-> << >>,
             latency |-> 0, delayed_outbound |-> << >>,
             heard |-> [s \in LbTransports |-> 0]]
  OBVIOUS
<1>3. lb = [t \in LbTransports |-> y]
  BY <1>2 DEF LoopbackInit
<1>4. /\ y.bound = FALSE /\ y.connected = FALSE /\ y.remote_addr = NoPort
      /\ y.pending_recv = << >> /\ y.ready_recv = << >>
      /\ y.delayed_outbound = << >> /\ y.heard = [s \in LbTransports |-> 0]
      /\ y.latency = 0
  BY <1>2
<1>5. y \in LbState
  <2>1. NoPort \in LbAddress /\ 0 \in LbLatencies /\ 0 \in 0 .. LbMaxSends
    BY LbAssumption DEF LbAddress
  <2>2. [s \in LbTransports |-> 0] \in [LbTransports -> 0 .. LbMaxSends]
    BY <2>1
  <2>3. << >> \in Seq(LbPacket) /\ << >> \in Seq(DelayedPacket)
    OBVIOUS
  <2> QED BY <1>2, <2>1, <2>2, <2>3 DEF LbState
<1>6. LoopbackTypeOK
  <2>1. lb \in [LbTransports -> LbState]
    BY <1>3, <1>5
  <2>2. Range(lb_servers) = {} /\ Range(lb_clients) = {} /\ Range(lb_route) = {}
    BY <1>1 DEF Range
  <2>3. lb_next_port \in LbPort /\ 0 \in 0 .. LbMaxConnects /\ 0 \in 0 .. LbMaxSends
    BY <1>1, LbAssumption DEF LbPort
  <2> QED BY <1>1, <2>1, <2>2, <2>3 DEF LoopbackTypeOK
<1>7. LbHub
  <2>1. lb_next_port = LbPortOf(lb_connects)
    <3>1. LbFirstPort \in Nat /\ LbPortCount \in Nat /\ LbFirstPort < LbPortCount
      BY LbAssumption
    <3>2. LbFirstPort + 0 = LbFirstPort /\ LbFirstPort % LbPortCount = LbFirstPort
      BY <3>1
    <3> QED BY <1>1, <3>2 DEF LbPortOf
  <2> QED BY <1>1, <1>3, <1>4, <2>1 DEF LbHub
<1>8. LbDelays
  BY <1>3, <1>4 DEF LbDelays, LbQueueOK, LbRightly
<1>9. LbMail(lb, LbWaits, lb_sends)
  <2>1. \A u \in LbTransports : lb[u] = y /\ LbWaits[u] = {}
    BY <1>3, <1>4 DEF LbWaits, LbNumbersAt
  <2>2. LbBox(y) = << >> /\ LbBelongs(y)
    BY <1>4 DEF LbBox, LbBelongs
  <2>3. LbOrdered(<< >>, y.heard, LbWaits, lb_sends)
    BY <1>1, <1>4, <2>1 DEF LbOrdered
  <2> QED BY <2>1, <2>2, <2>3 DEF LbMail
<1> QED BY <1>6, <1>7, <1>8, <1>9 DEF LbInv

\* Every step keeps the invariant.
LEMMA LbNextStep ==
  ASSUME LbInv, LbDisciplined, LbPortsApart, [LoopbackNext]_lb_vars
  PROVE  LbInv'
<1>1. CASE UNCHANGED lb_vars
  <2>1. lb' = lb /\ UNCHANGED lb_hub /\ lb_sends' = lb_sends
    BY <1>1 DEF lb_vars
  <2>2. LbSameUsers /\ LbSameDelays
    BY <2>1 DEF LbSameUsers, LbSameDelays
  <2>3. LoopbackTypeOK'
    BY <2>1 DEF LbInv, LoopbackTypeOK, lb_hub
  <2>4. lb_sends' \in Nat /\ lb_sends <= lb_sends'
    BY <2>1, LbAssumption DEF LbInv, LoopbackTypeOK
  <2>5. LbHub' /\ LbDelays'
    BY <2>1, <2>2, <2>4, HubSame, SameMeaning, DelaysSame DEF LbInv
  <2>6. LbMail(lb, LbWaits, lb_sends)'
    BY <2>1, <2>2, WaitsSame DEF LbInv
  <2> QED BY <2>3, <2>5, <2>6 DEF LbInv
<1>2. ASSUME NEW t \in LbTransports, NEW a \in LbServerPorts, lb_bind(t, a)
      PROVE  LbInv'
  BY <1>2, LbBindStep
<1>3. ASSUME NEW t \in LbTransports, NEW a \in LbServerPorts, lb_connect(t, a)
      PROVE  LbInv'
  BY <1>3, LbConnectStep
<1>4. ASSUME NEW t \in LbTransports, lb_disconnect(t)
      PROVE  LbInv'
  BY <1>4, LbDisconnectStep
<1>5. ASSUME NEW t \in LbTransports, lb_send(t)
      PROVE  LbInv'
  BY <1>5, LbSendStep
<1>6. ASSUME NEW t \in LbTransports, NEW a \in DOMAIN lb_route,
             lb_route[a] = lb[t].local_addr, lb_send_to(t, a)
      PROVE  LbInv'
  BY <1>6, LbSendToStep
<1>7. ASSUME NEW t \in LbTransports, lb_poll(t)
      PROVE  LbInv'
  BY <1>7, LbPollStep
<1>8. ASSUME NEW t \in LbTransports, lb_pop_receive(t)
      PROVE  LbInv'
  BY <1>8, LbPopStep
<1>9. ASSUME NEW t \in LbTransports, NEW l \in LbLatencies, lb_set_latency(t, l)
      PROVE  LbInv'
  BY <1>9, LbLatencyStep
<1>10. CASE lb_send_dropped
  BY <1>10, LbDroppedStep
<1>11. CASE lb_tick
  BY <1>11, LbTickStep
<1> QED
  BY <1>1, <1>2, <1>3, <1>4, <1>5, <1>6, <1>7, <1>8, <1>9, <1>10, <1>11 DEF LoopbackNext

\* The invariant implies what was promised.
LEMMA LbImplies ==
  ASSUME LbInv, LbPortsApart
  PROVE  LoopbackTypeOK /\ LbRegistered /\ LbHearsItsServer /\ LbInOrder
<1>1. LbRegistered
  <2>1. \A t \in LbTransports : lb[t].bound => find_transport(lb[t].local_addr) = {t}
    <3>1. SUFFICES ASSUME NEW t \in LbTransports, lb[t].bound
                   PROVE  find_transport(lb[t].local_addr) = {t}
      OBVIOUS
    <3>2. /\ lb[t].local_addr \in DOMAIN lb_servers /\ lb_servers[lb[t].local_addr] = t
          /\ lb[t].local_addr \in LbServerPorts
      BY <3>1 DEF LbInv, LbHub, LoopbackTypeOK
    <3>3. lb[t].local_addr \notin DOMAIN lb_clients
      BY <3>2, GivenApart DEF LbInv, LbHub
    <3> QED BY <3>2, <3>3 DEF find_transport
  <2> QED BY <2>1 DEF LbInv, LbHub, LbRegistered
<1>2. \A t \in LbTransports : LbArrived(t) = LbBox(lb[t])
  BY DEF LbArrived, LbBox
<1>3. LbHearsItsServer
  BY <1>2 DEF LbInv, LbMail, LbBelongs, LbHearsItsServer
<1>4. LbInOrder
  <2>1. ASSUME NEW t \in LbTransports
        PROVE  /\ \A k \in DOMAIN LbArrived(t) :
                    LbArrived(t)[k].n > lb[t].heard[LbArrived(t)[k].from]
               /\ \A j, k \in DOMAIN LbArrived(t) :
                    j < k /\ LbArrived(t)[j].from = LbArrived(t)[k].from
                      => LbArrived(t)[j].n < LbArrived(t)[k].n
    <3>1. PICK b : b = LbBox(lb[t])
      OBVIOUS
    <3>2. LbOrdered(b, lb[t].heard, LbWaits, lb_sends)
      BY <3>1 DEF LbInv, LbMail
    <3>3. \A k \in DOMAIN b : b[k].n > lb[t].heard[b[k].from]
      BY <3>2 DEF LbOrdered
    <3> QED BY <1>2, <3>1, <3>2, <3>3 DEF LbOrdered
  <2> QED BY <2>1 DEF LbInOrder
<1> QED BY <1>1, <1>3, <1>4 DEF LbInv

\* The hub's tables agree with the transports, a connected client has only packets
\* of its server, and what a transport sends arrives once and in its order, for any
\* transports, ports and latencies: if applications bind and lower latencies as
\* LbDisciplined says, and if the hub's ports have not come round.
THEOREM LoopbackHolds ==
  ASSUME LbDisciplined, LbPortsApart
  PROVE  LoopbackSpec => [](LoopbackTypeOK /\ LbRegistered /\ LbHearsItsServer /\ LbInOrder)
<1>1. LoopbackInit => LbInv
  BY LbInitially
<1>2. LbInv /\ [LoopbackNext]_lb_vars => LbInv'
  BY LbNextStep
<1>3. LbInv => LoopbackTypeOK /\ LbRegistered /\ LbHearsItsServer /\ LbInOrder
  BY LbImplies
<1> QED BY <1>1, <1>2, <1>3, PTL DEF LoopbackSpec

-----------------------------------------------------------------------------
(* Copies of an element in a queue.                                        *)

\* How often n is in s, and in which of the places at.
Places(s, n) == {k \in DOMAIN s : s[k] = n}
\* And how often.
Copies(s, n) == Cardinality(Places(s, n))

\* A one-to-one function onto a set counts it.
LEMMA SameCount ==
  ASSUME NEW S, NEW T, IsFiniteSet(S), NEW f \in [S -> T],
         \A x, y \in S : f[x] = f[y] => x = y,
         \A z \in T : \E x \in S : f[x] = z
  PROVE  IsFiniteSet(T) /\ Cardinality(T) = Cardinality(S)
<1>1. f \in Bijection(S, T)
  BY DEF Bijection, Injection, Surjection, IsInjective
<1>2. ExistsBijection(S, T)
  BY <1>1 DEF ExistsBijection
<1> QED BY <1>2, FS_Bijection

\* Among the places at, taken in their order, there are as many of B as B has.
LEMMA NthCount ==
  ASSUME NEW n \in Nat, NEW at, at \subseteq 1 .. n, NEW B, B \subseteq at
  PROVE  Cardinality({k \in 1 .. Cardinality(at) : Nth(at, k) \in B}) = Cardinality(B)
<1> DEFINE c == Cardinality(at)
           K == {k \in 1 .. c : Nth(at, k) \in B}
           f == [k \in K |-> Nth(at, k)]
<1>1. c \in Nat
  BY PositionsFinite
<1>2. /\ \A j, k \in 1 .. c : j < k => Nth(at, j) < Nth(at, k)
      /\ \A i \in at : \E k \in 1 .. c : Nth(at, k) = i
  BY NthOrder
<1>3. \A k \in 1 .. c : Nth(at, k) \in Nat
  <2>1. \A k \in 1 .. c : Nth(at, k) \in at
    BY NthMember
  <2>2. \A i \in at : i \in Nat
    OBVIOUS
  <2> HIDE DEF c
  <2> QED BY <2>1, <2>2
<1>4. IsFiniteSet(K)
  <2>1. K \subseteq 1 .. c
    OBVIOUS
  <2> HIDE DEF K, c
  <2> QED BY <1>1, <2>1, PositionsFinite
<1> HIDE DEF c
<1>5. f \in [K -> B]
  OBVIOUS
<1>6. ASSUME NEW x \in K, NEW y \in K, f[x] = f[y]
      PROVE  x = y
  <2>1. x \in 1 .. c /\ y \in 1 .. c /\ Nth(at, x) = Nth(at, y)
    BY <1>6
  <2>2. ~ (x < y) /\ ~ (y < x)
    BY <2>1, <1>2, <1>3
  <2>3. x \in Int /\ y \in Int
    BY <2>1, <1>1
  <2> QED BY <2>2, <2>3
<1>7. ASSUME NEW z \in B
      PROVE  \E x \in K : f[x] = z
  <2>1. PICK k \in 1 .. c : Nth(at, k) = z
    BY <1>2
  <2>2. k \in K
    BY <2>1
  <2> QED BY <2>1, <2>2
<1> HIDE DEF f, K
<1>8. Cardinality(B) = Cardinality(K)
  BY <1>4, <1>5, <1>6, <1>7, SameCount
<1> QED BY <1>8 DEF K, c

\* The places of two queues one behind the other.
LEMMA BehindCount ==
  ASSUME NEW s, Len(s) \in Nat, NEW n \in Nat,
         NEW I, I \subseteq 1 .. Len(s), NEW J, J \subseteq 1 .. n
  PROVE  /\ Cardinality(Behind(I, s, J)) = Cardinality(I) + Cardinality(J)
         /\ Cardinality(I) \in Nat /\ Cardinality(J) \in Nat
<1> DEFINE m == Len(s)
           T == {m + j : j \in J}
           f == [j \in J |-> m + j]
<1>1. /\ IsFiniteSet(I) /\ IsFiniteSet(J)
      /\ Cardinality(I) \in Nat /\ Cardinality(J) \in Nat
  BY PositionsFinite
<1>2. \A j \in J : j \in Nat /\ j >= 1
  OBVIOUS
<1>3. \A i \in I : i \in Nat /\ i <= m
  OBVIOUS
<1>4. IsFiniteSet(T) /\ Cardinality(T) = Cardinality(J)
  <2>1. f \in [J -> T] /\ \A z \in T : \E x \in J : f[x] = z
    OBVIOUS
  <2>2. \A x, y \in J : f[x] = f[y] => x = y
    BY <1>2
  <2> HIDE DEF f, T
  <2> QED BY <1>1, <2>1, <2>2, SameCount
<1>5. I \cap T = {}
  BY <1>2, <1>3
<1>6. Behind(I, s, J) = I \cup T
  BY DEF Behind
<1> HIDE DEF T
<1>7. Cardinality(I \cup T) = Cardinality(I) + Cardinality(T) - Cardinality(I \cap T)
  BY <1>1, <1>4, FS_Union
<1>8. Cardinality(I \cap T) = 0
  BY <1>5, FS_EmptySet
<1> QED BY <1>1, <1>4, <1>6, <1>7, <1>8

\* The number of copies, which is 0 when there is none.
LEMMA CopiesType ==
  ASSUME NEW S, NEW s \in Seq(S), NEW n
  PROVE  /\ Copies(s, n) \in Nat
         /\ Copies(s, n) = 0 <=> \A k \in DOMAIN s : s[k] # n
         /\ Copies(<< >>, n) = 0
<1>1. Len(s) \in Nat /\ DOMAIN s = 1 .. Len(s)
  OBVIOUS
<1>2. Places(s, n) \subseteq 1 .. Len(s)
  BY <1>1 DEF Places
<1>3. IsFiniteSet(Places(s, n)) /\ Copies(s, n) \in Nat
  BY <1>1, <1>2, PositionsFinite DEF Copies
<1>4. Copies(s, n) = 0 <=> Places(s, n) = {}
  BY <1>3, FS_EmptySet DEF Copies
<1>5. Places(s, n) = {} <=> \A k \in DOMAIN s : s[k] # n
  BY DEF Places
<1>6. Copies(<< >>, n) = 0
  BY FS_EmptySet DEF Copies, Places
<1> QED BY <1>3, <1>4, <1>5, <1>6

\* The copies in two queues one behind the other.
LEMMA CopiesConcat ==
  ASSUME NEW S, NEW s \in Seq(S), NEW t \in Seq(S), NEW n
  PROVE  Copies(s \o t, n) = Copies(s, n) + Copies(t, n)
<1>1. /\ Len(s) \in Nat /\ DOMAIN s = 1 .. Len(s)
      /\ Len(t) \in Nat /\ DOMAIN t = 1 .. Len(t)
  OBVIOUS
<1>2. PICK w \in Seq(S) : w = s \o t
  BY ConcatProperties
<1>3. /\ DOMAIN w = 1 .. Len(s) + Len(t)
      /\ \A k \in 1 .. Len(s) : w[k] = s[k]
      /\ \A k \in 1 .. Len(t) : w[Len(s) + k] = t[k]
  BY <1>2
<1>4. Places(w, n) = Behind(Places(s, n), s, Places(t, n))
  <2>1. ASSUME NEW k \in Places(w, n)
        PROVE  k \in Behind(Places(s, n), s, Places(t, n))
    <3>1. k \in 1 .. Len(s) + Len(t) /\ w[k] = n
      BY <1>3 DEF Places
    <3>2. CASE k <= Len(s)
      BY <3>1, <3>2, <1>1, <1>3 DEF Places, Behind
    <3>3. CASE k > Len(s)
      <4>1. PICK j \in 1 .. Len(t) : k = Len(s) + j
        <5>1. k - Len(s) \in 1 .. Len(t) /\ k = Len(s) + (k - Len(s))
          BY <3>1, <3>3, <1>1
        <5> QED BY <5>1
      <4> QED BY <3>1, <4>1, <1>1, <1>3 DEF Places, Behind
    <3> QED BY <3>1, <3>2, <3>3, <1>1
  <2>2. ASSUME NEW k \in Behind(Places(s, n), s, Places(t, n))
        PROVE  k \in Places(w, n)
    <3>1. CASE k \in Places(s, n)
      BY <3>1, <1>1, <1>3 DEF Places
    <3>2. CASE k \in {Len(s) + j : j \in Places(t, n)}
      <4>1. PICK j \in Places(t, n) : k = Len(s) + j
        BY <3>2
      <4>2. j \in 1 .. Len(t) /\ t[j] = n
        BY <4>1, <1>1 DEF Places
      <4>3. k \in 1 .. Len(s) + Len(t) /\ w[k] = n
        BY <4>1, <4>2, <1>1, <1>3
      <4> QED BY <4>3, <1>3 DEF Places
    <3> QED BY <3>1, <3>2 DEF Behind
  <2> QED BY <2>1, <2>2
<1>5. Places(s, n) \subseteq 1 .. Len(s) /\ Places(t, n) \subseteq 1 .. Len(t)
  BY <1>1 DEF Places
<1>6. Cardinality(Behind(Places(s, n), s, Places(t, n))) =
        Cardinality(Places(s, n)) + Cardinality(Places(t, n))
  BY <1>1, <1>5, BehindCount
<1> QED BY <1>2, <1>4, <1>6 DEF Copies

\* What is kept of a queue has the copies that were at the places kept.
LEMMA CopiesKept ==
  ASSUME NEW S, NEW s \in Seq(S), NEW at, at \subseteq DOMAIN s, NEW n
  PROVE  Copies(Kept(s, at), n) = Cardinality({k \in at : s[k] = n})
<1> DEFINE B == {k \in at : s[k] = n}
<1>1. Len(s) \in Nat /\ DOMAIN s = 1 .. Len(s) /\ at \subseteq 1 .. Len(s)
  OBVIOUS
<1>2. /\ DOMAIN Kept(s, at) = 1 .. Cardinality(at)
      /\ \A k \in 1 .. Cardinality(at) :
           Nth(at, k) \in at /\ Kept(s, at)[k] = s[Nth(at, k)]
  BY KeptType
<1>3. Places(Kept(s, at), n) = {k \in 1 .. Cardinality(at) : Nth(at, k) \in B}
  BY <1>2 DEF Places
<1>4. B \subseteq at
  OBVIOUS
<1> HIDE DEF B
<1>5. Cardinality({k \in 1 .. Cardinality(at) : Nth(at, k) \in B}) = Cardinality(B)
  BY <1>1, <1>4, NthCount, ZenonT(30)
<1> QED BY <1>3, <1>5 DEF Copies, B

-----------------------------------------------------------------------------
(* NetworkSimulator: the two directions of a queue.                        *)

\* The numbers of the packets of a direction, in the order of the queue.
SimSide(q, o) == SimPassed(q, SimDirection(q, o))

\* The fields of queued packets have their types.
LEMMA QueuedFields ==
  ASSUME NEW q \in Seq(QueuedPacket)
  PROVE  /\ Len(q) \in Nat /\ DOMAIN q = 1 .. Len(q)
         /\ \A k \in DOMAIN q : /\ q[k] \in QueuedPacket /\ q[k].n \in SimNumber
                                /\ q[k].outbound \in BOOLEAN /\ q[k].left \in Nat
<1>1. \A k \in DOMAIN q : q[k] \in QueuedPacket
  OBVIOUS
<1>2. \A d \in QueuedPacket : d.n \in SimNumber /\ d.outbound \in BOOLEAN /\ d.left \in Nat
  BY DEF QueuedPacket
<1>3. Len(q) \in Nat /\ DOMAIN q = 1 .. Len(q)
  OBVIOUS
<1> QED BY <1>1, <1>2, <1>3

\* The numbers of the packets of a queue.
SimNs(q) == [k \in DOMAIN q |-> q[k].n]

\* The numbers of a queue are a sequence of the same length.
LEMMA NsType ==
  ASSUME NEW q \in Seq(QueuedPacket)
  PROVE  /\ SimNs(q) \in Seq(SimNumber) /\ Len(SimNs(q)) = Len(q)
         /\ DOMAIN SimNs(q) = DOMAIN q
         /\ \A k \in DOMAIN q : SimNs(q)[k] = q[k].n
<1>1. /\ Len(q) \in Nat /\ DOMAIN q = 1 .. Len(q)
      /\ \A k \in DOMAIN q : q[k].n \in SimNumber
  BY QueuedFields
<1>2. SimNs(q) \in [1 .. Len(q) -> SimNumber]
  BY <1>1 DEF SimNs
<1>3. SimNs(q) \in Seq(SimNumber)
  BY <1>1, <1>2, SeqDef
<1>4. DOMAIN SimNs(q) = 1 .. Len(q)
  BY <1>2
<1>5. Len(SimNs(q)) = Len(q)
  BY <1>1, <1>3, <1>4, LenProperties
<1> QED BY <1>1, <1>3, <1>4, <1>5 DEF SimNs

\* What is taken from a queue is what is at the positions.
LEMMA PassedType ==
  ASSUME NEW q \in Seq(QueuedPacket), NEW at, at \subseteq DOMAIN q
  PROVE  /\ SimPassed(q, at) \in Seq(SimNumber)
         /\ \A k \in DOMAIN SimPassed(q, at) : \E i \in at : SimPassed(q, at)[k] = q[i].n
         /\ \A i \in at : \E k \in DOMAIN SimPassed(q, at) : SimPassed(q, at)[k] = q[i].n
<1>1. /\ SimNs(q) \in Seq(SimNumber) /\ at \subseteq DOMAIN SimNs(q)
      /\ \A k \in DOMAIN q : SimNs(q)[k] = q[k].n
  BY NsType
<1>2. SimPassed(q, at) = Kept(SimNs(q), at)
  BY DEF SimPassed, SimNs
<1>3. /\ Kept(SimNs(q), at) \in Seq(SimNumber)
      /\ DOMAIN Kept(SimNs(q), at) = 1 .. Cardinality(at)
      /\ \A k \in 1 .. Cardinality(at) :
           Nth(at, k) \in at /\ Kept(SimNs(q), at)[k] = SimNs(q)[Nth(at, k)]
  BY <1>1, KeptType
<1>4. \A i \in at : \E k \in 1 .. Cardinality(at) : Nth(at, k) = i
  BY <1>1, KeptOrder
<1>5. PICK z : z = SimPassed(q, at)
  OBVIOUS
<1>6. PICK c : c = Cardinality(at)
  OBVIOUS
<1>7. /\ z \in Seq(SimNumber) /\ DOMAIN z = 1 .. c
      /\ \A k \in 1 .. c : Nth(at, k) \in at /\ z[k] = q[Nth(at, k)].n
      /\ \A i \in at : \E k \in 1 .. c : Nth(at, k) = i
  BY <1>1, <1>2, <1>3, <1>4, <1>5, <1>6
<1>8. /\ \A k \in DOMAIN z : \E i \in at : z[k] = q[i].n
      /\ \A i \in at : \E k \in DOMAIN z : z[k] = q[i].n
  BY <1>7
<1> QED BY <1>5, <1>7, <1>8

\* The same for a direction, and for what is due in it.
LEMMA SideType ==
  ASSUME NEW q \in Seq(QueuedPacket), NEW o
  PROVE  /\ SimSide(q, o) \in Seq(SimNumber) /\ SimDue(q, o) \in Seq(SimNumber)
         /\ SimDirection(q, o) \subseteq DOMAIN q /\ SimIsDue(q) \subseteq DOMAIN q
         /\ \A k \in DOMAIN SimSide(q, o) :
              \E i \in DOMAIN q : q[i].outbound = o /\ SimSide(q, o)[k] = q[i].n
<1>1. SimDirection(q, o) \subseteq DOMAIN q /\ SimIsDue(q) \subseteq DOMAIN q
  BY DEF SimDirection, SimIsDue
<1>2. SimDirection(q, o) \cap SimIsDue(q) \subseteq DOMAIN q
  BY <1>1
<1>3. SimDue(q, o) \in Seq(SimNumber)
  BY <1>2, PassedType DEF SimDue
<1>4. /\ SimSide(q, o) \in Seq(SimNumber)
      /\ \A k \in DOMAIN SimSide(q, o) :
           \E i \in SimDirection(q, o) : SimSide(q, o)[k] = q[i].n
  BY <1>1, PassedType DEF SimSide
<1> QED BY <1>1, <1>3, <1>4 DEF SimDirection

\* The places of the two parts of a queue, and the packets there.
LEMMA ConcatFields ==
  ASSUME NEW q \in Seq(QueuedPacket), NEW r \in Seq(QueuedPacket)
  PROVE  /\ q \o r \in Seq(QueuedPacket)
         /\ DOMAIN (q \o r) = 1 .. Len(q) + Len(r)
         /\ \A k \in 1 .. Len(q) : (q \o r)[k] = q[k] /\ k \in DOMAIN (q \o r)
         /\ \A k \in 1 .. Len(r) : /\ (q \o r)[Len(q) + k] = r[k]
                                   /\ Len(q) + k \in DOMAIN (q \o r)
         /\ \A i \in DOMAIN (q \o r) :
              i \in 1 .. Len(q) \/ \E k \in 1 .. Len(r) : i = Len(q) + k
<1>1. Len(q) \in Nat /\ Len(r) \in Nat
  OBVIOUS
<1>2. /\ q \o r \in Seq(QueuedPacket)
      /\ DOMAIN (q \o r) = 1 .. Len(q) + Len(r)
      /\ \A k \in 1 .. Len(q) : (q \o r)[k] = q[k]
      /\ \A k \in 1 .. Len(r) : (q \o r)[Len(q) + k] = r[k]
  OBVIOUS
<1>3. ASSUME NEW i \in 1 .. Len(q) + Len(r)
      PROVE  i \in 1 .. Len(q) \/ \E k \in 1 .. Len(r) : i = Len(q) + k
  <2>1. CASE i <= Len(q)
    BY <2>1, <1>1
  <2>2. CASE i > Len(q)
    <3>1. i - Len(q) \in 1 .. Len(r) /\ i = Len(q) + (i - Len(q))
      BY <2>2, <1>1
    <3> QED BY <3>1
  <2> QED BY <2>1, <2>2, <1>1
<1>4. /\ \A k \in 1 .. Len(q) : k \in 1 .. Len(q) + Len(r)
      /\ \A k \in 1 .. Len(r) : Len(q) + k \in 1 .. Len(q) + Len(r)
  BY <1>1
<1> QED BY <1>2, <1>3, <1>4

\* KeptConcat for sequences of packet numbers.
LEMMA NumbersConcat ==
  \A a, b \in Seq(SimNumber) : \A I \in SUBSET DOMAIN a, J \in SUBSET DOMAIN b :
    Kept(a \o b, Behind(I, a, J)) = Kept(a, I) \o Kept(b, J)
<1> SUFFICES ASSUME NEW a \in Seq(SimNumber), NEW b \in Seq(SimNumber),
                    NEW I \in SUBSET DOMAIN a, NEW J \in SUBSET DOMAIN b
             PROVE  Kept(a \o b, Behind(I, a, J)) = Kept(a, I) \o Kept(b, J)
  OBVIOUS
<1>1. I \subseteq DOMAIN a /\ J \subseteq DOMAIN b
  OBVIOUS
<1> QED BY <1>1, KeptConcat

\* What is taken from two queues one behind the other.
LEMMA PassedConcat ==
  \A q, r \in Seq(QueuedPacket) : \A I \in SUBSET DOMAIN q, J \in SUBSET DOMAIN r :
    SimPassed(q \o r, Behind(I, q, J)) = SimPassed(q, I) \o SimPassed(r, J)
<1> SUFFICES ASSUME NEW q \in Seq(QueuedPacket), NEW r \in Seq(QueuedPacket),
                    NEW I \in SUBSET DOMAIN q, NEW J \in SUBSET DOMAIN r
             PROVE  SimPassed(q \o r, Behind(I, q, J)) = SimPassed(q, I) \o SimPassed(r, J)
  OBVIOUS
<1>1. PICK w \in Seq(QueuedPacket) : w = q \o r
  BY ConcatFields
<1>2. /\ Len(q) \in Nat /\ Len(r) \in Nat
      /\ DOMAIN q = 1 .. Len(q) /\ DOMAIN r = 1 .. Len(r)
      /\ DOMAIN w = 1 .. Len(q) + Len(r)
      /\ \A k \in 1 .. Len(q) : w[k] = q[k]
      /\ \A k \in 1 .. Len(r) : w[Len(q) + k] = r[k]
  BY <1>1, ConcatFields
<1>3. /\ SimNs(w) \in Seq(SimNumber) /\ DOMAIN SimNs(w) = DOMAIN w
      /\ SimNs(q) \in Seq(SimNumber) /\ DOMAIN SimNs(q) = DOMAIN q /\ Len(SimNs(q)) = Len(q)
      /\ SimNs(r) \in Seq(SimNumber) /\ DOMAIN SimNs(r) = DOMAIN r /\ Len(SimNs(r)) = Len(r)
      /\ \A k \in DOMAIN w : SimNs(w)[k] = w[k].n
      /\ \A k \in DOMAIN q : SimNs(q)[k] = q[k].n
      /\ \A k \in DOMAIN r : SimNs(r)[k] = r[k].n
      /\ Len(SimNs(w)) = Len(w) /\ Len(w) = Len(q) + Len(r)
  <2>1. Len(w) = Len(q) + Len(r)
    BY <1>1
  <2>2. /\ SimNs(w) \in Seq(SimNumber) /\ DOMAIN SimNs(w) = DOMAIN w
        /\ Len(SimNs(w)) = Len(w) /\ \A k \in DOMAIN w : SimNs(w)[k] = w[k].n
    BY NsType
  <2>3. /\ SimNs(q) \in Seq(SimNumber) /\ DOMAIN SimNs(q) = DOMAIN q
        /\ Len(SimNs(q)) = Len(q) /\ \A k \in DOMAIN q : SimNs(q)[k] = q[k].n
    BY NsType
  <2>4. /\ SimNs(r) \in Seq(SimNumber) /\ DOMAIN SimNs(r) = DOMAIN r
        /\ Len(SimNs(r)) = Len(r) /\ \A k \in DOMAIN r : SimNs(r)[k] = r[k].n
    BY NsType
  <2> QED BY <2>1, <2>2, <2>3, <2>4
<1>4. PICK a \in Seq(SimNumber) : a = SimNs(q)
  BY <1>3
<1>5. PICK b \in Seq(SimNumber) : b = SimNs(r)
  BY <1>3
<1>6. SimNs(w) = a \o b
  <2>1. PICK c \in Seq(SimNumber) : c = SimNs(w)
    BY <1>3
  <2>a. Len(a) = Len(q) /\ Len(b) = Len(r) /\ Len(c) = Len(q) + Len(r)
    BY <1>3, <1>4, <1>5, <2>1
  <2>2. a \o b \in Seq(SimNumber) /\ Len(a \o b) = Len(q) + Len(r) /\ Len(c) = Len(q) + Len(r)
    <3>1. a \o b \in Seq(SimNumber) /\ Len(a \o b) = Len(a) + Len(b)
      BY ConcatProperties
    <3> QED BY <2>a, <3>1
  <2>3. ASSUME NEW i \in 1 .. Len(q) + Len(r)
        PROVE  c[i] = (a \o b)[i]
    <3>1. CASE i \in 1 .. Len(q)
      <4>1. (a \o b)[i] = a[i]
        BY <3>1, <2>a
      <4>2. a[i] = q[i].n /\ c[i] = w[i].n /\ w[i] = q[i]
        BY <3>1, <1>2, <1>3, <1>4, <2>1
      <4> QED BY <4>1, <4>2
    <3>2. ASSUME NEW k \in 1 .. Len(r), i = Len(q) + k
          PROVE  c[i] = (a \o b)[i]
      <4>1. (a \o b)[i] = b[k]
        BY <3>2, <1>2, <2>a
      <4>2. b[k] = r[k].n /\ c[i] = w[i].n /\ w[i] = r[k]
        BY <3>2, <1>2, <1>3, <1>5, <2>1
      <4> QED BY <4>1, <4>2
    <3>3. i \in 1 .. Len(q) \/ \E k \in 1 .. Len(r) : i = Len(q) + k
      <4>1. i \in DOMAIN (q \o r)
        BY <1>1, <1>2
      <4> QED BY <4>1, ConcatFields, Zenon
    <3> QED BY <3>1, <3>2, <3>3
  <2>4. c = a \o b
    BY <2>2, <2>3, SeqEqual
  <2> QED BY <2>1, <2>4
<1>7. Kept(a \o b, Behind(I, a, J)) = Kept(a, I) \o Kept(b, J)
  <2>1. I \in SUBSET DOMAIN a /\ J \in SUBSET DOMAIN b
    BY <1>3, <1>4, <1>5
  <2> QED BY <2>1, NumbersConcat, Zenon
<1>8. Behind(I, a, J) = Behind(I, q, J)
  BY <1>3, <1>4 DEF Behind
<1>9. /\ SimPassed(w, Behind(I, q, J)) = Kept(SimNs(w), Behind(I, q, J))
      /\ SimPassed(q, I) = Kept(SimNs(q), I) /\ SimPassed(r, J) = Kept(SimNs(r), J)
  BY DEF SimPassed, SimNs
<1> QED BY <1>1, <1>4, <1>5, <1>6, <1>7, <1>8, <1>9

\* A direction of two queues one behind the other.
LEMMA SideConcat ==
  ASSUME NEW q \in Seq(QueuedPacket), NEW r \in Seq(QueuedPacket), NEW o
  PROVE  SimSide(q \o r, o) = SimSide(q, o) \o SimSide(r, o)
<1>1. SimDirection(q, o) \subseteq DOMAIN q /\ SimDirection(r, o) \subseteq DOMAIN r
  BY DEF SimDirection
<1>2. PICK w : w = q \o r
  OBVIOUS
<1>a. DOMAIN q = 1 .. Len(q) /\ DOMAIN r = 1 .. Len(r)
  OBVIOUS
<1>3. SimDirection(w, o) = Behind(SimDirection(q, o), q, SimDirection(r, o))
  <2>1. /\ \A k \in 1 .. Len(q) : w[k] = q[k] /\ k \in DOMAIN w
        /\ \A k \in 1 .. Len(r) : w[Len(q) + k] = r[k] /\ Len(q) + k \in DOMAIN w
        /\ \A i \in DOMAIN w : i \in 1 .. Len(q) \/ \E k \in 1 .. Len(r) : i = Len(q) + k
    BY <1>2, ConcatFields
  <2> QED BY <2>1, <1>a DEF SimDirection, Behind
<1>4. SimPassed(q \o r, Behind(SimDirection(q, o), q, SimDirection(r, o))) =
        SimPassed(q, SimDirection(q, o)) \o SimPassed(r, SimDirection(r, o))
  <2>1. PICK I, J : I = SimDirection(q, o) /\ J = SimDirection(r, o)
    OBVIOUS
  <2>2. I \in SUBSET DOMAIN q /\ J \in SUBSET DOMAIN r
    BY <1>1, <2>1
  <2>3. SimPassed(q \o r, Behind(I, q, J)) = SimPassed(q, I) \o SimPassed(r, J)
    BY <2>2, PassedConcat, Zenon
  <2> QED BY <2>1, <2>3
<1> QED BY <1>2, <1>3, <1>4 DEF SimSide

-----------------------------------------------------------------------------
(* NetworkSimulator: copies of a packet.                                   *)

\* The copies in what is taken are those at the positions.
LEMMA PassedCopies ==
  ASSUME NEW q \in Seq(QueuedPacket), NEW at, at \subseteq DOMAIN q, NEW n
  PROVE  Copies(SimPassed(q, at), n) = Cardinality({k \in at : q[k].n = n})
<1>1. /\ SimNs(q) \in Seq(SimNumber) /\ at \subseteq DOMAIN SimNs(q)
      /\ \A k \in DOMAIN q : SimNs(q)[k] = q[k].n
  BY NsType
<1>2. SimPassed(q, at) = Kept(SimNs(q), at)
  BY DEF SimPassed, SimNs
<1>3. Copies(Kept(SimNs(q), at), n) = Cardinality({k \in at : SimNs(q)[k] = n})
  BY <1>1, CopiesKept
<1>4. {k \in at : SimNs(q)[k] = n} = {k \in at : q[k].n = n}
  BY <1>1
<1> QED BY <1>2, <1>3, <1>4

\* Where the packet n of a direction is in a queue.
SimFound(q, o, n) == {k \in DOMAIN q : q[k].outbound = o /\ q[k].n = n}

\* The copies in a direction, which are none when the packet is not in it.
LEMMA SideCopies ==
  ASSUME NEW q \in Seq(QueuedPacket), NEW o, NEW n
  PROVE  /\ Copies(SimSide(q, o), n) = Cardinality(SimFound(q, o, n))
         /\ Copies(SimSide(q, o), n) \in Nat
         /\ Copies(SimSide(q, o), n) = 0 <=> n \notin SimNumbers(q, o)
         /\ IsFiniteSet(SimFound(q, o, n))
<1>1. SimDirection(q, o) \subseteq DOMAIN q
  BY DEF SimDirection
<1>2. Copies(SimSide(q, o), n) = Cardinality({k \in SimDirection(q, o) : q[k].n = n})
  BY <1>1, PassedCopies DEF SimSide
<1>3. {k \in SimDirection(q, o) : q[k].n = n} = SimFound(q, o, n)
  BY DEF SimDirection, SimFound
<1>4. SimFound(q, o, n) \subseteq 1 .. Len(q) /\ Len(q) \in Nat
  BY DEF SimFound
<1>5. IsFiniteSet(SimFound(q, o, n)) /\ Cardinality(SimFound(q, o, n)) \in Nat
  BY <1>4, PositionsFinite
<1>6. Cardinality(SimFound(q, o, n)) = 0 <=> SimFound(q, o, n) = {}
  BY <1>5, FS_EmptySet
<1>7. SimFound(q, o, n) = {} <=> n \notin SimNumbers(q, o)
  BY DEF SimFound, SimNumbers, SimDirection
<1> QED BY <1>2, <1>3, <1>5, <1>6, <1>7

\* poll() loses no copy: what is due and what is left are what was there.
LEMMA PollCopies ==
  ASSUME NEW q \in Seq(QueuedPacket), NEW o, NEW n,
         NEW r, r = Kept(q, DOMAIN q \ SimIsDue(q))
  PROVE  /\ r \in Seq(QueuedPacket)
         /\ Copies(SimSide(q, o), n) = Copies(SimDue(q, o), n) + Copies(SimSide(r, o), n)
<1> DEFINE at == DOMAIN q \ SimIsDue(q)
           A == {k \in SimDirection(q, o) \cap SimIsDue(q) : q[k].n = n}
           B == {k \in SimFound(q, o, n) : k \notin SimIsDue(q)}
<1>0. Len(q) \in Nat /\ DOMAIN q = 1 .. Len(q) /\ at \subseteq DOMAIN q
  OBVIOUS
<1>1. /\ r \in Seq(QueuedPacket) /\ DOMAIN r = 1 .. Cardinality(at)
      /\ \A k \in 1 .. Cardinality(at) : Nth(at, k) \in at /\ r[k] = q[Nth(at, k)]
  <2> HIDE DEF at
  <2>1. r = Kept(q, at)
    BY DEF at
  <2>2. /\ Kept(q, at) \in Seq(QueuedPacket)
        /\ DOMAIN Kept(q, at) = 1 .. Cardinality(at)
        /\ \A k \in 1 .. Cardinality(at) :
             Nth(at, k) \in at /\ Kept(q, at)[k] = q[Nth(at, k)]
    BY <1>0, KeptType
  <2> QED BY <2>1, <2>2, Zenon
<1>2. Copies(SimDue(q, o), n) = Cardinality(A)
  <2>1. SimDirection(q, o) \cap SimIsDue(q) \subseteq DOMAIN q
    BY DEF SimDirection
  <2> QED BY <2>1, PassedCopies DEF SimDue
<1>3. Copies(SimSide(r, o), n) = Cardinality(B)
  <2>1. Copies(SimSide(r, o), n) = Cardinality(SimFound(r, o, n))
    BY <1>1, SideCopies
  <2>2. SimFound(r, o, n) = {k \in 1 .. Cardinality(at) : Nth(at, k) \in B}
    <3>1. \A k \in at : k \in B <=> q[k].outbound = o /\ q[k].n = n
      BY DEF SimFound
    <3> HIDE DEF at, B
    <3> QED BY <1>1, <3>1, ZenonT(30) DEF SimFound
  <2>3. B \subseteq at
    BY DEF SimFound
  <2>4. Cardinality({k \in 1 .. Cardinality(at) : Nth(at, k) \in B}) = Cardinality(B)
    <3> HIDE DEF at, B
    <3> QED BY <1>0, <2>3, NthCount, SMTT(30)
  <2> QED BY <2>1, <2>2, <2>4
<1>4. Copies(SimSide(q, o), n) = Cardinality(SimFound(q, o, n))
  BY SideCopies
<1>5. SimFound(q, o, n) = A \cup B /\ A \cap B = {}
  BY DEF SimFound, SimDirection, SimIsDue
<1>6. IsFiniteSet(A) /\ IsFiniteSet(B) /\ Cardinality(A) \in Nat /\ Cardinality(B) \in Nat
  <2>1. A \subseteq 1 .. Len(q) /\ B \subseteq 1 .. Len(q)
    BY <1>0 DEF SimFound, SimDirection
  <2> HIDE DEF A, B
  <2> QED BY <1>0, <2>1, PositionsFinite
<1> HIDE DEF A, B
<1>7. Cardinality(A \cup B) = Cardinality(A) + Cardinality(B) - Cardinality(A \cap B)
  BY <1>6, FS_Union
<1>8. Cardinality(A \cap B) = 0
  BY <1>5, FS_EmptySet
<1> QED BY <1>1, <1>2, <1>3, <1>4, <1>5, <1>6, <1>7, <1>8

-----------------------------------------------------------------------------
(* NetworkSimulator: what becomes of a packet that is sent or received.    *)

\* A time a packet can have to wait under the setting s.
SimLate(s, l) == \E d \in s.delays : l = d \/ l = d + s.jitter

\* The queue holds nothing but copies of packet m of the direction o.
SimOnly(q, m, o, s) ==
  \A k \in DOMAIN q : q[k].n = m /\ q[k].outbound = o /\ SimLate(s, q[k].left)

\* One packet and its duplicate in a queue.
LEMMA SameNumberCopies ==
  ASSUME NEW q \in Seq(QueuedPacket), NEW m, NEW o, NEW s, SimOnly(q, m, o, s), NEW i, NEW n
  PROVE  /\ i = o /\ n = m => Copies(SimSide(q, i), n) = Len(q)
         /\ ~(i = o /\ n = m) => Copies(SimSide(q, i), n) = 0
<1>0. \A k \in DOMAIN q : q[k].n = m /\ q[k].outbound = o
  BY DEF SimOnly
<1>1. Copies(SimSide(q, i), n) = Cardinality(SimFound(q, i, n))
  BY SideCopies
<1>2. CASE i = o /\ n = m
  <2>1. SimFound(q, i, n) = 1 .. Len(q) /\ Len(q) \in Nat
    BY <1>0, <1>2 DEF SimFound
  <2>2. Cardinality(1 .. Len(q)) = Len(q)
    BY <2>1, FS_Interval, SMTT(30)
  <2> QED BY <1>1, <1>2, <2>1, <2>2
<1>3. CASE ~(i = o /\ n = m)
  <2>1. SimFound(q, i, n) = {}
    BY <1>0, <1>3 DEF SimFound
  <2> QED BY <1>1, <1>3, <2>1, FS_EmptySet
<1> QED BY <1>2, <1>3

\* send() and the receive loop queue a packet at most twice, or drop it.
LEMMA QueuedWays ==
  ASSUME sim_setting \in SimSettings, NEW m \in SimNumber, NEW o \in BOOLEAN,
         NEW q \in SimQueued(m, o)
  PROVE  /\ q \in Seq(QueuedPacket) /\ Len(q) \in 0 .. 2 /\ (Len(q) = 0 => q = << >>)
         /\ SimOnly(q, m, o, sim_setting)
<1>1. sim_setting.delays \subseteq Nat /\ sim_setting.jitter \in Nat
  BY SimAssumption
<1> DEFINE p(d) == [n |-> m, outbound |-> o, left |-> d]
<1>2. \A d \in Nat : p(d) \in QueuedPacket /\ p(d).n = m /\ p(d).outbound = o /\ p(d).left = d
  BY DEF QueuedPacket
<1>3. \/ \E d \in sim_setting.delays : q = <<p(d)>>
      \/ \E d \in sim_setting.delays : q = <<p(d), p(d + sim_setting.jitter)>>
      \/ q = << >>
  BY DEF SimQueued
<1> HIDE DEF p
<1>4. CASE q = << >>
  BY <1>4 DEF SimOnly
<1>5. ASSUME NEW d \in sim_setting.delays, q = <<p(d)>>
      PROVE  /\ q \in Seq(QueuedPacket) /\ Len(q) \in 0 .. 2 /\ (Len(q) = 0 => q = << >>)
             /\ SimOnly(q, m, o, sim_setting)
  <2>1. d \in Nat /\ p(d) \in QueuedPacket
    BY <1>1, <1>2
  <2>2. DOMAIN q = 1 .. 1 /\ q[1] = p(d) /\ Len(q) = 1 /\ q \in Seq(QueuedPacket)
    BY <1>5, <2>1
  <2>3. \A k \in DOMAIN q : q[k] = p(d)
    BY <2>2
  <2>4. SimLate(sim_setting, d)
    BY DEF SimLate
  <2>5. SimOnly(q, m, o, sim_setting)
    BY <1>2, <2>1, <2>3, <2>4 DEF SimOnly
  <2> QED BY <2>2, <2>5
<1>6. ASSUME NEW d \in sim_setting.delays, q = <<p(d), p(d + sim_setting.jitter)>>
      PROVE  /\ q \in Seq(QueuedPacket) /\ Len(q) \in 0 .. 2 /\ (Len(q) = 0 => q = << >>)
             /\ SimOnly(q, m, o, sim_setting)
  <2>0. PICK e \in Nat : e = d + sim_setting.jitter
    BY <1>1
  <2>1. d \in Nat /\ p(d) \in QueuedPacket /\ p(e) \in QueuedPacket
    BY <1>1, <1>2
  <2>2. /\ DOMAIN q = 1 .. 2 /\ q[1] = p(d) /\ q[2] = p(e)
        /\ Len(q) = 2 /\ q \in Seq(QueuedPacket)
    BY <1>6, <2>0, <2>1
  <2>3. \A k \in DOMAIN q : q[k] = p(d) \/ q[k] = p(e)
    BY <2>2
  <2>4. SimLate(sim_setting, d) /\ SimLate(sim_setting, e)
    BY <2>0 DEF SimLate
  <2>5. SimOnly(q, m, o, sim_setting)
    BY <1>2, <2>1, <2>3, <2>4 DEF SimOnly
  <2> QED BY <2>2, <2>5
<1> QED BY <1>3, <1>4, <1>5, <1>6

\* The queues of W with those of Q behind them.
SimJoined(W, Q) == {w \o q : w \in W, q \in Q}

\* A member of such a set is two queues one behind the other.
LEMMA JoinedMember ==
  \A W, Q, x : x \in SimJoined(W, Q) => \E w \in W : \E q \in Q : x = w \o q
BY DEF SimJoined

\* The receive loop has a set of outcomes after every round.
LEMMA ReceivedStates ==
  ASSUME SimulatorTypeOK
  PROVE  \E g \in [0 .. Len(sim_inbox) -> SUBSET Seq(QueuedPacket)] :
           /\ g[0] = {<< >>} /\ SimReceived = g[Len(sim_inbox)]
           /\ \A k \in 1 .. Len(sim_inbox) :
                g[k] = SimJoined(g[k - 1], SimQueued(sim_inbox[k], FALSE))
<1> DEFINE X == SUBSET Seq(QueuedPacket)
           n == Len(sim_inbox)
           Round(W, k) == SimJoined(W, SimQueued(sim_inbox[k], FALSE))
           step == [k \in 1 .. n |-> [W \in X |-> Round(W, k)]]
           Body(g, k) == IF k = 0 THEN {<< >>} ELSE Round(g[k - 1], k)
           ways == CHOOSE g : g = [k \in 0 .. n |-> Body(g, k)]
<1>0. n \in Nat /\ {<< >>} \in X
  BY DEF SimulatorTypeOK
<1>1. \A k \in 1 .. n : \A W \in X : Round(W, k) \in X
  <2>1. ASSUME NEW k \in 1 .. n, NEW W, W \in X
        PROVE  Round(W, k) \in X
    <3>1. sim_setting \in SimSettings /\ sim_inbox[k] \in SimNumber
      BY DEF SimulatorTypeOK
    <3>2. \A q \in SimQueued(sim_inbox[k], FALSE) : q \in Seq(QueuedPacket)
      BY <3>1, QueuedWays
    <3>3. \A w \in W : w \in Seq(QueuedPacket)
      BY <2>1
    <3>4. \A w \in W, q \in SimQueued(sim_inbox[k], FALSE) : w \o q \in Seq(QueuedPacket)
      BY <3>2, <3>3, ConcatFields
    <3>5. ASSUME NEW x, x \in SimJoined(W, SimQueued(sim_inbox[k], FALSE))
          PROVE  x \in Seq(QueuedPacket)
      <4> HIDE DEF n, X, Round, step, Body, ways
      <4>1. PICK Q : Q = SimQueued(sim_inbox[k], FALSE)
        OBVIOUS
      <4>2. x \in SimJoined(W, Q)
        BY <3>5, <4>1
      <4>3. PICK w \in W : \E q \in Q : x = w \o q
        BY <4>2, JoinedMember
      <4> QED BY <4>1, <4>3, <3>4
    <3> QED BY <3>5
  <2> HIDE DEF n, X, Round
  <2> QED BY <2>1
<1>2. step \in [1 .. n -> [X -> X]]
  <2> HIDE DEF n, X, Round
  <2> QED BY <1>1
<1>l. PICK g : IsLoop(g, n, X, {<< >>}, step)
  <2> HIDE DEF n, X, step
  <2> QED BY <1>0, <1>2, LoopStates
<1>3. /\ g \in [0 .. n -> X] /\ g[0] = {<< >>}
      /\ \A k \in 1 .. n : g[k] = step[k][g[k - 1]]
  <2> HIDE DEF n, X, step
  <2> QED BY <1>l DEF IsLoop
<1>4. \A k \in 1 .. n : g[k] = Round(g[k - 1], k)
  <2>1. \A k \in 1 .. n : k - 1 \in 0 .. n
    BY <1>0
  <2> HIDE DEF n, X, Round
  <2>2. \A k \in 1 .. n : g[k - 1] \in X /\ g[k] = step[k][g[k - 1]]
    BY <1>3, <2>1
  <2> QED BY <2>2
<1>5. g = [k \in 0 .. n |-> Body(g, k)]
  <2>1. \A k \in 0 .. n : g[k] = Body(g, k)
    <3>1. \A k \in 0 .. n : k = 0 \/ k \in 1 .. n
      BY <1>0
    <3> HIDE DEF n, Round
    <3> QED BY <1>3, <1>4, <3>1
  <2> HIDE DEF n, X, Body
  <2> QED BY <1>3, <2>1
<1>6. ways = [k \in 0 .. n |-> Body(ways, k)]
  <2> HIDE DEF n, Body
  <2> QED BY <1>5, Zenon
<1>7. SimReceived = ways[n]
  BY DEF SimReceived, SimJoined
<1> HIDE DEF ways
<1>8. \A k \in 0 .. n : ways[k] = Body(ways, k)
  <2> HIDE DEF n, Body
  <2>1. TAKE k \in 0 .. n
  <2>2. PICK h : h = [i \in 0 .. n |-> Body(ways, i)]
    OBVIOUS
  <2>3. h[k] = Body(ways, k)
    BY <2>2
  <2> QED BY <2>2, <2>3, <1>6
<1>9. \A k \in 0 .. n : ways[k] = g[k]
  <2> DEFINE T == {k \in 0 .. n : ways[k] # g[k]}
  <2> HIDE DEF Round
  <2>1. SUFFICES ASSUME T # {} PROVE FALSE
    OBVIOUS
  <2>2. PICK m \in T : \A i \in T : m <= i
    <3>1. T \subseteq Nat
      BY <1>0
    <3> HIDE DEF T
    <3> QED BY <2>1, <3>1, LeastMember
  <2>3. m \in 0 .. n /\ ways[m] # g[m]
    BY <2>2
  <2>4. m # 0
    <3>1. ways[0] = {<< >>}
      BY <1>8, <1>0
    <3> QED BY <3>1, <2>3, <1>3
  <2>5. m \in 1 .. n /\ m - 1 \in 0 .. n /\ m - 1 \notin T
    BY <2>2, <2>3, <2>4, <1>0
  <2>6. ways[m - 1] = g[m - 1]
    BY <2>5
  <2>7. ways[m] = Round(ways[m - 1], m) /\ g[m] = Round(g[m - 1], m)
    BY <1>4, <1>8, <2>3, <2>4, <2>5
  <2> QED BY <2>3, <2>6, <2>7
<1>10. n \in 0 .. n
  BY <1>0
<1> QED BY <1>3, <1>4, <1>7, <1>9, <1>10

\* The inner transport hands up its packets once and in order.
SimInboxOK(inbox, arrived) ==
  /\ \A k \in DOMAIN inbox : inbox[k] <= arrived
  /\ \A j, k \in DOMAIN inbox : j < k => inbox[j] < inbox[k]

\* What k rounds of the receive loop can have queued.
SimTook(w, k, inbox, s) ==
  /\ w \in Seq(QueuedPacket)
  /\ \A i \in DOMAIN w : /\ w[i].outbound = FALSE /\ SimLate(s, w[i].left)
                         /\ \E j \in 1 .. k : w[i].n = inbox[j]
  /\ \A i, j \in DOMAIN w : i < j => w[i].n <= w[j].n
  /\ \A n \in SimNumber : Copies(SimSide(w, FALSE), n) <= 2

\* The copies in a direction of two queues one behind the other.
LEMMA ConcatCopies ==
  ASSUME NEW q \in Seq(QueuedPacket), NEW r \in Seq(QueuedPacket), NEW o, NEW n
  PROVE  Copies(SimSide(q \o r, o), n) = Copies(SimSide(q, o), n) + Copies(SimSide(r, o), n)
<1>1. SimSide(q, o) \in Seq(SimNumber) /\ SimSide(r, o) \in Seq(SimNumber)
  BY SideType
<1>2. Copies(SimSide(q, o) \o SimSide(r, o), n) =
        Copies(SimSide(q, o), n) + Copies(SimSide(r, o), n)
  BY <1>1, CopiesConcat
<1> QED BY <1>2, SideConcat

\* A round of the receive loop queues a later packet.
LEMMA TookStep ==
  ASSUME NEW inbox \in Seq(SimNumber), NEW arrived \in Nat, SimInboxOK(inbox, arrived),
         NEW k \in 1 .. Len(inbox), NEW s, NEW w, SimTook(w, k - 1, inbox, s),
         NEW q \in Seq(QueuedPacket), Len(q) \in 0 .. 2, SimOnly(q, inbox[k], FALSE, s)
  PROVE  SimTook(w \o q, k, inbox, s)
<1>1. /\ w \in Seq(QueuedPacket) /\ Len(w) \in Nat /\ Len(q) \in Nat
      /\ DOMAIN w = 1 .. Len(w) /\ DOMAIN q = 1 .. Len(q)
  BY DEF SimTook
<1>2. /\ \A i \in DOMAIN w : /\ w[i].outbound = FALSE /\ SimLate(s, w[i].left)
                             /\ \E j \in 1 .. k - 1 : w[i].n = inbox[j]
      /\ \A i, j \in DOMAIN w : i < j => w[i].n <= w[j].n
  BY DEF SimTook
<1>3. \A i \in DOMAIN q : q[i].n = inbox[k] /\ q[i].outbound = FALSE /\ SimLate(s, q[i].left)
  BY DEF SimOnly
<1>4. /\ inbox[k] \in SimNumber /\ \A j \in 1 .. k - 1 : inbox[j] < inbox[k]
      /\ SimNumber \subseteq Nat
  <2>1. \A j \in 1 .. k - 1 : j \in DOMAIN inbox /\ j < k /\ k \in DOMAIN inbox
    OBVIOUS
  <2>2. \A j \in 1 .. k - 1 : inbox[j] < inbox[k]
    BY <2>1 DEF SimInboxOK
  <2>3. inbox[k] \in SimNumber
    OBVIOUS
  <2>4. SimNumber \subseteq Nat
    BY DEF SimNumber
  <2> QED BY <2>2, <2>3, <2>4
<1>5. \A i \in DOMAIN w : w[i].n < inbox[k]
  BY <1>2, <1>4
<1>6. PICK v \in Seq(QueuedPacket) : v = w \o q
  BY <1>1, ConcatFields
<1>7. /\ \A i \in 1 .. Len(w) : v[i] = w[i]
      /\ \A i \in 1 .. Len(q) : v[Len(w) + i] = q[i]
      /\ \A i \in DOMAIN v : i \in 1 .. Len(w) \/ \E j \in 1 .. Len(q) : i = Len(w) + j
  BY <1>1, <1>6, ConcatFields
<1>8. ASSUME NEW i \in DOMAIN v
      PROVE  \/ i \in DOMAIN w /\ v[i] = w[i]
             \/ i > Len(w) /\ \E j \in DOMAIN q : v[i] = q[j]
  <2>1. CASE i \in 1 .. Len(w)
    BY <2>1, <1>1, <1>7
  <2>2. ASSUME NEW j \in 1 .. Len(q), i = Len(w) + j
        PROVE  i > Len(w) /\ v[i] = q[j] /\ j \in DOMAIN q
    BY <2>2, <1>1, <1>7
  <2> QED BY <2>1, <2>2, <1>7
<1>9. \A i \in DOMAIN v : /\ v[i].outbound = FALSE /\ SimLate(s, v[i].left)
                          /\ \E j \in 1 .. k : v[i].n = inbox[j]
  <2>1. \A j \in 1 .. k - 1 : j \in 1 .. k
    OBVIOUS
  <2>2. k \in 1 .. k
    OBVIOUS
  <2>3. ASSUME NEW i \in DOMAIN v
        PROVE  /\ v[i].outbound = FALSE /\ SimLate(s, v[i].left)
               /\ \E j \in 1 .. k : v[i].n = inbox[j]
    <3>1. CASE i \in DOMAIN w /\ v[i] = w[i]
      BY <1>2, <3>1, <2>1, Zenon
    <3>2. ASSUME NEW j \in DOMAIN q, v[i] = q[j]
          PROVE  v[i].outbound = FALSE /\ SimLate(s, v[i].left) /\ v[i].n = inbox[k]
      BY <1>3, <3>2, Zenon
    <3> QED BY <1>8, <2>2, <3>1, <3>2, Zenon
  <2> QED BY <2>3, Zenon
<1>10. ASSUME NEW i \in DOMAIN v, NEW j \in DOMAIN v, i < j
       PROVE  v[i].n <= v[j].n
  <2>1. i \in Nat /\ j \in Nat
    OBVIOUS
  <2>2. CASE j \in DOMAIN w /\ v[j] = w[j]
    <3>1. i \in DOMAIN w /\ v[i] = w[i]
      BY <2>1, <2>2, <1>1, <1>8, <1>10
    <3> QED BY <3>1, <2>2, <1>2, <1>10
  <2>3. CASE \E m \in DOMAIN q : v[j] = q[m]
    <3>1. v[j].n = inbox[k]
      BY <2>3, <1>3
    <3>2. v[i].n = inbox[k] \/ v[i].n < inbox[k]
      BY <1>3, <1>5, <1>8
    <3>3. v[i].n \in Nat /\ v[j].n \in Nat
      <4>1. v[i].n \in SimNumber /\ v[j].n \in SimNumber
        BY QueuedFields
      <4> QED BY <4>1, <1>4
    <3> QED BY <3>1, <3>2, <3>3
  <2> QED BY <2>2, <2>3, <1>8
<1>11. ASSUME NEW n \in SimNumber
       PROVE  Copies(SimSide(v, FALSE), n) <= 2
  <2>0. PICK o : o = FALSE
    OBVIOUS
  <2>a. PICK a \in Nat : a = Copies(SimSide(w, o), n)
    BY <1>1, SideCopies
  <2>b. PICK b : b = Copies(SimSide(q, o), n)
    OBVIOUS
  <2>1. Copies(SimSide(v, o), n) = a + b
    <3>1. Copies(SimSide(w \o q, o), n) = Copies(SimSide(w, o), n) + Copies(SimSide(q, o), n)
      BY <1>1, ConcatCopies
    <3> QED BY <3>1, <2>a, <2>b, <1>6
  <2>2. a <= 2
    BY <2>0, <2>a DEF SimTook
  <2>3. /\ n = inbox[k] => b = Len(q)
        /\ n # inbox[k] => b = 0
    <3>1. PICK m : m = inbox[k]
      OBVIOUS
    <3>2. SimOnly(q, m, o, s)
      BY <2>0, <3>1
    <3>3. /\ n = m => Copies(SimSide(q, o), n) = Len(q)
          /\ n # m => Copies(SimSide(q, o), n) = 0
      BY <3>2, SameNumberCopies
    <3> QED BY <2>b, <3>1, <3>3
  <2>4. ASSUME n = inbox[k] PROVE a + b <= 2
    <3>1. n \notin SimNumbers(w, o)
      <4>1. \A i \in DOMAIN w : w[i].n # n
        BY <2>4, <1>4, <1>5
      <4> QED BY <4>1 DEF SimNumbers, SimDirection
    <3>2. a = 0
      BY <1>1, <2>a, <3>1, SideCopies
    <3> QED BY <2>3, <2>4, <3>2, SMTT(30)
  <2>5. n # inbox[k] => a + b <= 2
    BY <2>2, <2>3
  <2>6. Copies(SimSide(v, o), n) <= 2
    BY <2>1, <2>4, <2>5
  <2> QED BY <2>0, <2>6, Zenon
<1>12. SimTook(v, k, inbox, s)
  BY <1>9, <1>10, <1>11 DEF SimTook
<1> QED BY <1>6, <1>12

\* What the receive loop can have queued.
LEMMA ReceivedTook ==
  ASSUME SimulatorTypeOK, SimInboxOK(sim_inbox, sim_arrived), NEW w \in SimReceived
  PROVE  SimTook(w, Len(sim_inbox), sim_inbox, sim_setting)
<1>1. PICK g \in [0 .. Len(sim_inbox) -> SUBSET Seq(QueuedPacket)] :
           /\ g[0] = {<< >>} /\ SimReceived = g[Len(sim_inbox)]
           /\ \A k \in 1 .. Len(sim_inbox) :
                g[k] = SimJoined(g[k - 1], SimQueued(sim_inbox[k], FALSE))
  BY ReceivedStates
<1>2. PICK inbox \in Seq(SimNumber) : inbox = sim_inbox
  BY DEF SimulatorTypeOK
<1>3. PICK l \in Nat : l = Len(inbox)
  OBVIOUS
<1>4. PICK s : s = sim_setting
  OBVIOUS
<1>5. PICK arrived \in Nat : arrived = sim_arrived
  BY DEF SimulatorTypeOK
<1> DEFINE T == {k \in 0 .. l : \E x \in g[k] : ~ SimTook(x, k, inbox, s)}
<1>6. ASSUME T # {} PROVE FALSE
  <2>1. PICK m \in T : \A i \in T : m <= i
    <3>1. T \subseteq Nat
      OBVIOUS
    <3> HIDE DEF T
    <3> QED BY <1>6, <3>1, LeastMember
  <2>2. PICK x \in g[m] : ~ SimTook(x, m, inbox, s)
    BY <2>1
  <2>3. m \in 0 .. l
    BY <2>1
  <2>4. CASE m = 0
    <3>1. x = << >>
      BY <1>1, <2>2, <2>4
    <3>2. << >> \in Seq(QueuedPacket)
      OBVIOUS
    <3>3. \A n \in SimNumber : Copies(SimSide(<< >>, FALSE), n) = 0
      <4>1. SimNumbers(<< >>, FALSE) = {}
        BY DEF SimNumbers, SimDirection
      <4> QED BY <3>2, <4>1, SideCopies
    <3>4. SimTook(<< >>, 0, inbox, s)
      BY <3>2, <3>3, SMTT(30) DEF SimTook
    <3> QED BY <2>2, <2>4, <3>1, <3>4
  <2>5. CASE m # 0
    <3>1. m \in 1 .. l /\ m - 1 \in 0 .. l /\ m - 1 \notin T
      BY <2>1, <2>3, <2>5
    <3>2. \A y \in g[m - 1] : SimTook(y, m - 1, inbox, s)
      BY <3>1
    <3>3. PICK Q : Q = SimQueued(sim_inbox[m], FALSE)
      OBVIOUS
    <3>4. PICK G : G = g[m - 1]
      OBVIOUS
    <3>5. x \in SimJoined(G, Q)
      BY <1>1, <1>2, <1>3, <2>2, <3>1, <3>3, <3>4
    <3>6. PICK y \in G : \E q \in Q : x = y \o q
      BY <3>5, JoinedMember
    <3>7. PICK q \in Q : x = y \o q
      BY <3>6
    <3>8. sim_setting \in SimSettings /\ inbox[m] \in SimNumber
      BY <1>3, <3>1 DEF SimulatorTypeOK
    <3>9. q \in Seq(QueuedPacket) /\ Len(q) \in 0 .. 2 /\ SimOnly(q, inbox[m], FALSE, s)
      BY <1>2, <1>4, <3>3, <3>8, QueuedWays
    <3>10. SimTook(y, m - 1, inbox, s)
      BY <3>2, <3>4
    <3>11. SimTook(y \o q, m, inbox, s)
      <4>1. m \in 1 .. Len(inbox) /\ SimInboxOK(inbox, arrived)
        BY <1>2, <1>3, <1>5, <3>1
      <4> QED BY <3>9, <3>10, <4>1, TookStep
    <3> QED BY <2>2, <3>7, <3>11
  <2> QED BY <2>4, <2>5
<1>7. l \in 0 .. l /\ w \in g[l]
  BY <1>1, <1>2, <1>3
<1>8. SimTook(w, l, inbox, s)
  BY <1>6, <1>7
<1> QED BY <1>2, <1>3, <1>4, <1>8

-----------------------------------------------------------------------------
(* NetworkSimulator: every packet is accounted for.                        *)

\* How often the packet n of a direction waits in the queue q.
SimOutCopies(q, n) == Copies(SimSide(q, TRUE), n)
\* And the same for what was received.
SimInCopies(q, n) == Copies(SimSide(q, FALSE), n)

\* What the copies c of the packet n may be, when it has come and before.
SimFate(c, came, dropped, n) ==
  /\ came => c <= 2 /\ (c = 0 => n \in dropped)
  /\ ~came => c = 0

\* What becomes of a packet the application sent.
SimOutFate(n, wire, delay, sent, dropped) ==
  SimFate(Copies(wire, n) + SimOutCopies(delay, n), n <= sent, dropped, n)

\* What becomes of a packet the inner transport received.
SimInFate(n, got, ready, delay, inbox, arrived, dropped) ==
  SimFate(Copies(got, n) + Copies(ready, n) + SimInCopies(delay, n),
          n <= arrived /\ n \notin ToSet(inbox), dropped, n)

\* All that were sent.
SimOutFates ==
  \A n \in SimNumber : SimOutFate(n, sim_wire, sim_delay, sim_sent, sim_dropped.out)

\* All that were received.
SimInFates ==
  \A n \in SimNumber :
    SimInFate(n, sim_got, sim_ready, sim_delay, sim_inbox, sim_arrived, sim_dropped.in)

\* The inductive invariant of the accounts.
SimInv ==
  /\ SimulatorTypeOK /\ SimInboxOK(sim_inbox, sim_arrived)
  /\ SimOutFates /\ SimInFates

\* SideCopies for both directions.
LEMMA DirectionCopies ==
  ASSUME NEW q \in Seq(QueuedPacket), NEW n
  PROVE  /\ SimOutCopies(q, n) \in Nat /\ SimInCopies(q, n) \in Nat
         /\ SimOutCopies(q, n) = 0 <=> n \notin SimNumbers(q, TRUE)
         /\ SimInCopies(q, n) = 0 <=> n \notin SimNumbers(q, FALSE)
<1>1. PICK t, f : t = TRUE /\ f = FALSE
  OBVIOUS
<1>2. /\ Copies(SimSide(q, t), n) \in Nat
      /\ Copies(SimSide(q, t), n) = 0 <=> n \notin SimNumbers(q, t)
  BY SideCopies
<1>3. /\ Copies(SimSide(q, f), n) \in Nat
      /\ Copies(SimSide(q, f), n) = 0 <=> n \notin SimNumbers(q, f)
  BY SideCopies
<1> QED BY <1>1, <1>2, <1>3, Zenon DEF SimOutCopies, SimInCopies

\* ConcatCopies for both directions.
LEMMA DirectionConcat ==
  ASSUME NEW q \in Seq(QueuedPacket), NEW r \in Seq(QueuedPacket), NEW n
  PROVE  /\ SimOutCopies(q \o r, n) = SimOutCopies(q, n) + SimOutCopies(r, n)
         /\ SimInCopies(q \o r, n) = SimInCopies(q, n) + SimInCopies(r, n)
<1>1. PICK t, f : t = TRUE /\ f = FALSE
  OBVIOUS
<1>2. Copies(SimSide(q \o r, t), n) = Copies(SimSide(q, t), n) + Copies(SimSide(r, t), n)
  BY ConcatCopies
<1>3. Copies(SimSide(q \o r, f), n) = Copies(SimSide(q, f), n) + Copies(SimSide(r, f), n)
  BY ConcatCopies
<1> QED BY <1>1, <1>2, <1>3, Zenon DEF SimOutCopies, SimInCopies

\* PollCopies for both directions.
LEMMA DirectionPoll ==
  ASSUME NEW q \in Seq(QueuedPacket), NEW n, NEW r, r = Kept(q, DOMAIN q \ SimIsDue(q))
  PROVE  /\ r \in Seq(QueuedPacket)
         /\ SimOutCopies(q, n) = Copies(SimDue(q, TRUE), n) + SimOutCopies(r, n)
         /\ SimInCopies(q, n) = Copies(SimDue(q, FALSE), n) + SimInCopies(r, n)
<1>1. PICK t, f : t = TRUE /\ f = FALSE
  OBVIOUS
<1>2. /\ r \in Seq(QueuedPacket)
      /\ Copies(SimSide(q, t), n) = Copies(SimDue(q, t), n) + Copies(SimSide(r, t), n)
  BY PollCopies
<1>3. Copies(SimSide(q, f), n) = Copies(SimDue(q, f), n) + Copies(SimSide(r, f), n)
  BY PollCopies
<1> QED BY <1>1, <1>2, <1>3, Zenon DEF SimOutCopies, SimInCopies

\* A packet that is sent is in one direction only.
LEMMA SendCopies ==
  ASSUME NEW q \in Seq(QueuedPacket), NEW m, NEW s, SimOnly(q, m, TRUE, s), NEW n
  PROVE  /\ n = m => SimOutCopies(q, n) = Len(q)
         /\ n # m => SimOutCopies(q, n) = 0
         /\ SimInCopies(q, n) = 0
<1>1. PICK t, f : t = TRUE /\ f = FALSE
  OBVIOUS
<1>2. SimOnly(q, m, t, s) /\ f # t
  BY <1>1
<1>3. /\ n = m => Copies(SimSide(q, t), n) = Len(q)
      /\ n # m => Copies(SimSide(q, t), n) = 0
  BY <1>2, SameNumberCopies
<1>4. Copies(SimSide(q, f), n) = 0
  BY <1>2, SameNumberCopies
<1> QED BY <1>1, <1>3, <1>4, Zenon DEF SimOutCopies, SimInCopies

\* What the clock leaves as it was.
LEMMA SameSide ==
  ASSUME NEW q, NEW r, DOMAIN q = DOMAIN r,
         \A k \in DOMAIN q : q[k].n = r[k].n /\ q[k].outbound = r[k].outbound, NEW o
  PROVE  SimSide(q, o) = SimSide(r, o)
<1>1. SimDirection(q, o) = SimDirection(r, o)
  BY DEF SimDirection
<1>2. [k \in DOMAIN q |-> q[k].n] = [k \in DOMAIN r |-> r[k].n]
  OBVIOUS
<1> QED BY <1>1, <1>2, Zenon DEF SimSide, SimPassed

\* An empty queue has no copies.
LEMMA EmptyCopies ==
  ASSUME NEW n
  PROVE  SimOutCopies(<< >>, n) = 0 /\ SimInCopies(<< >>, n) = 0 /\ Copies(<< >>, n) = 0
<1>1. << >> \in Seq(QueuedPacket)
  OBVIOUS
<1>2. SimNumbers(<< >>, TRUE) = {} /\ SimNumbers(<< >>, FALSE) = {}
  BY DEF SimNumbers, SimDirection
<1>3. Copies(<< >>, n) = 0
  BY FS_EmptySet DEF Copies, Places
<1> QED BY <1>1, <1>2, <1>3, DirectionCopies

\* pop_receive() moves a copy and loses none.
LEMMA PopCopies ==
  ASSUME NEW g \in Seq(SimNumber), NEW r \in Seq(SimNumber), r # << >>, NEW n
  PROVE  /\ Copies(Append(g, Head(r)), n) + Copies(Tail(r), n) = Copies(g, n) + Copies(r, n)
         /\ Append(g, Head(r)) \in Seq(SimNumber) /\ Tail(r) \in Seq(SimNumber)
<1>1. PICK h \in SimNumber : h = Head(r)
  OBVIOUS
<1>2. PICK t \in Seq(SimNumber) : t = Tail(r)
  <2>1. Tail(r) \in Seq(SimNumber)
    OBVIOUS
  <2> QED BY <2>1, Zenon
<1>3. PICK u \in Seq(SimNumber) : u = <<h>>
  <2>1. <<h>> \in Seq(SimNumber)
    OBVIOUS
  <2> QED BY <2>1, Zenon
<1>4. Append(g, h) = g \o u
  BY <1>3
<1>5. r = u \o t
  BY <1>1, <1>2, <1>3
<1>6. /\ Copies(g \o u, n) = Copies(g, n) + Copies(u, n)
      /\ Copies(u \o t, n) = Copies(u, n) + Copies(t, n)
  BY CopiesConcat
<1>7. Copies(g, n) \in Nat /\ Copies(u, n) \in Nat /\ Copies(t, n) \in Nat
  BY CopiesType
<1>8. Append(g, h) \in Seq(SimNumber)
  OBVIOUS
<1>9. Copies(Append(g, h), n) + Copies(t, n) = Copies(g, n) + Copies(r, n)
  BY <1>4, <1>5, <1>6, <1>7
<1> QED BY <1>1, <1>2, <1>8, <1>9, Zenon

\* There are copies of what is in a queue.
LEMMA MemberCopies ==
  ASSUME NEW s \in Seq(SimNumber), NEW n
  PROVE  /\ Copies(s, n) \in Nat
         /\ Copies(s, n) = 0 <=> n \notin ToSet(s)
         /\ ToSet(s) \subseteq SimNumber
<1>1. Copies(s, n) \in Nat /\ (Copies(s, n) = 0 <=> \A k \in DOMAIN s : s[k] # n)
  BY CopiesType
<1>2. n \notin ToSet(s) <=> \A k \in DOMAIN s : s[k] # n
  BY DEF ToSet
<1>3. ToSet(s) \subseteq SimNumber
  BY DEF ToSet
<1> QED BY <1>1, <1>2, <1>3

\* The type invariant but for the flag, which another prover has to see to.
SimTypes(setting, inbox, delay, ready, sent, arrived, wire, got, dropped, connects) ==
  /\ setting \in SimSettings
  /\ inbox \in Seq(SimNumber) /\ delay \in Seq(QueuedPacket) /\ ready \in Seq(SimNumber)
  /\ sent \in 0 .. SimMaxPackets /\ arrived \in 0 .. SimMaxPackets
  /\ wire \in Seq(SimNumber) /\ got \in Seq(SimNumber)
  /\ dropped \in [out : SUBSET SimNumber, in : SUBSET SimNumber]
  /\ connects \in 0 .. SimMaxConnects

\* Both together are the type invariant.
LEMMA SimTypesOK ==
  SimulatorTypeOK <=>
    /\ sim_connected \in BOOLEAN
    /\ SimTypes(sim_setting, sim_inbox, sim_delay, sim_ready, sim_sent, sim_arrived,
                sim_wire, sim_got, sim_dropped, sim_connects)
BY Zenon DEF SimulatorTypeOK, SimTypes

\* The same for the next state.
LEMMA SimTypesNextOK ==
  SimulatorTypeOK' <=>
    /\ sim_connected' \in BOOLEAN
    /\ SimTypes(sim_setting', sim_inbox', sim_delay', sim_ready', sim_sent', sim_arrived',
                sim_wire', sim_got', sim_dropped', sim_connects')
BY Zenon DEF SimulatorTypeOK, SimTypes

\* The sets of dropped packets.
LEMMA SimDropType ==
  ASSUME SimulatorTypeOK
  PROVE  /\ sim_dropped.out \subseteq SimNumber /\ sim_dropped.in \subseteq SimNumber
         /\ sim_dropped = [out |-> sim_dropped.out, in |-> sim_dropped.in]
         /\ sim_sent \in Nat /\ sim_arrived \in Nat /\ SimNumber \subseteq Nat
BY SimAssumption DEF SimulatorTypeOK, SimNumber

\* The invariant holds at the start.
LEMMA SimInitially ==
  ASSUME SimulatorInit PROVE SimInv
<1>1. SimulatorTypeOK
  <2>1. sim_connected \in BOOLEAN
    BY Zenon DEF SimulatorInit
  <2>2. SimTypes(sim_setting, sim_inbox, sim_delay, sim_ready, sim_sent, sim_arrived,
                 sim_wire, sim_got, sim_dropped, sim_connects)
    BY SimAssumption DEF SimulatorInit, SimTypes
  <2> QED BY <2>1, <2>2, SimTypesOK, Zenon
<1>2. SimInboxOK(sim_inbox, sim_arrived)
  BY DEF SimulatorInit, SimInboxOK
<1>3. ASSUME NEW n \in SimNumber
      PROVE  /\ SimOutFate(n, sim_wire, sim_delay, sim_sent, sim_dropped.out)
             /\ SimInFate(n, sim_got, sim_ready, sim_delay, sim_inbox, sim_arrived,
                          sim_dropped.in)
  <2>1. ~ (n <= sim_sent) /\ ~ (n <= sim_arrived)
    BY DEF SimulatorInit, SimNumber
  <2>2. /\ Copies(sim_wire, n) = 0 /\ SimOutCopies(sim_delay, n) = 0 /\ Copies(sim_got, n) = 0
        /\ Copies(sim_ready, n) = 0 /\ SimInCopies(sim_delay, n) = 0
    BY EmptyCopies DEF SimulatorInit
  <2> QED BY <2>1, <2>2 DEF SimOutFate, SimInFate, SimFate
<1> QED BY <1>1, <1>2, <1>3 DEF SimInv, SimOutFates, SimInFates

\* connect() and the settings leave the packets alone.
LEMMA SimConnectStep ==
  ASSUME SimInv, \/ sim_connect
                 \/ sim_set
                 \/ UNCHANGED sim_vars
  PROVE  SimInv'
<1>0. UNCHANGED <<sim_inbox, sim_delay, sim_ready, sim_sent, sim_arrived, sim_wire, sim_got,
                  sim_dropped>>
  BY DEF sim_connect, sim_set, sim_vars
<1>1. SimulatorTypeOK'
  <2>0. SimulatorTypeOK
    BY DEF SimInv
  <2>1. sim_connected' \in BOOLEAN
    BY <2>0, Zenon DEF SimulatorTypeOK, sim_connect, sim_set, sim_vars
  <2>2. sim_setting' \in SimSettings /\ sim_connects' \in 0 .. SimMaxConnects
    <3>1. sim_setting \in SimSettings /\ sim_connects \in 0 .. SimMaxConnects
      BY <2>0 DEF SimulatorTypeOK
    <3> QED BY <3>1, SimAssumption DEF sim_connect, sim_set, sim_vars
  <2>3. SimTypes(sim_setting', sim_inbox', sim_delay', sim_ready', sim_sent', sim_arrived',
                 sim_wire', sim_got', sim_dropped', sim_connects')
    BY <1>0, <2>0, <2>2, SimTypesOK DEF SimTypes
  <2> QED BY <2>1, <2>3, SimTypesNextOK, Zenon
<1>2. SimInboxOK(sim_inbox, sim_arrived)'
  BY <1>0 DEF SimInv
<1>3. SimOutFates' /\ SimInFates'
  BY <1>0 DEF SimInv, SimOutFates, SimInFates
<1> QED BY <1>1, <1>2, <1>3 DEF SimInv

\* send() and send_to() account for the packet they take.
LEMMA SimSendStep ==
  ASSUME SimInv, sim_send PROVE SimInv'
<1>0. SimulatorTypeOK /\ sim_sent \in Nat /\ sim_sent + 1 \in SimNumber
  BY SimAssumption DEF SimInv, SimulatorTypeOK, sim_send, SimNumber
<1>1. PICK q \in SimQueued(sim_sent + 1, TRUE) :
        /\ sim_delay' = sim_delay \o q
        /\ sim_dropped' = IF q = << >>
                          THEN [sim_dropped EXCEPT !.out = @ \cup {sim_sent + 1}]
                          ELSE sim_dropped
  BY DEF sim_send
<1>2. PICK d \in Seq(QueuedPacket) : d = sim_delay
  BY <1>0 DEF SimulatorTypeOK
<1>3. PICK m \in SimNumber : m = sim_sent + 1
  BY <1>0
<1>4. /\ q \in Seq(QueuedPacket) /\ Len(q) \in 0 .. 2 /\ (Len(q) = 0 => q = << >>)
      /\ SimOnly(q, m, TRUE, sim_setting)
  <2>1. sim_setting \in SimSettings /\ q \in SimQueued(m, TRUE)
    BY <1>0, <1>3 DEF SimulatorTypeOK
  <2> QED BY <2>1, QueuedWays
<1>5. /\ sim_dropped'.in = sim_dropped.in /\ sim_dropped.out \subseteq sim_dropped'.out
      /\ q = << >> => m \in sim_dropped'.out
      /\ sim_dropped' \in [out : SUBSET SimNumber, in : SUBSET SimNumber]
  BY <1>0, <1>1, <1>3 DEF SimulatorTypeOK
<1>6. sim_delay' \in Seq(QueuedPacket)
  BY <1>1, <1>2, <1>4, ConcatFields
<1>7. SimulatorTypeOK'
  <2>1. sim_connected' \in BOOLEAN
    BY <1>0, Zenon DEF SimulatorTypeOK, sim_send
  <2>2. sim_sent' \in 0 .. SimMaxPackets
    BY <1>0, <1>3 DEF sim_send, SimNumber
  <2>3. SimTypes(sim_setting', sim_inbox', sim_delay', sim_ready', sim_sent', sim_arrived',
                 sim_wire', sim_got', sim_dropped', sim_connects')
    BY <1>0, <1>5, <1>6, <2>2, SimTypesOK DEF SimTypes, sim_send
  <2> QED BY <2>1, <2>3, SimTypesNextOK, Zenon
<1>8. SimInboxOK(sim_inbox, sim_arrived)'
  BY DEF SimInv, sim_send
<1>9. ASSUME NEW n \in SimNumber
      PROVE  /\ SimOutFate(n, sim_wire, sim_delay, sim_sent, sim_dropped.out)'
             /\ SimInFate(n, sim_got, sim_ready, sim_delay, sim_inbox, sim_arrived,
                          sim_dropped.in)'
  <2>1. /\ SimOutCopies(sim_delay', n) = SimOutCopies(d, n) + SimOutCopies(q, n)
        /\ SimInCopies(sim_delay', n) = SimInCopies(d, n) + SimInCopies(q, n)
    <3>1. /\ SimOutCopies(d \o q, n) = SimOutCopies(d, n) + SimOutCopies(q, n)
          /\ SimInCopies(d \o q, n) = SimInCopies(d, n) + SimInCopies(q, n)
      BY <1>4, DirectionConcat
    <3> QED BY <3>1, <1>1, <1>2
  <2>2. SimOutCopies(d, n) \in Nat /\ SimInCopies(d, n) \in Nat
    BY DirectionCopies
  <2>3. /\ n = m => SimOutCopies(q, n) = Len(q)
        /\ n # m => SimOutCopies(q, n) = 0
        /\ SimInCopies(q, n) = 0
    BY <1>4, SendCopies
  <2>4. Copies(sim_wire, n) \in Nat /\ sim_wire' = sim_wire /\ sim_sent' = m
    BY <1>0, <1>3, MemberCopies DEF SimulatorTypeOK, sim_send
  <2>5. SimFate(Copies(sim_wire, n) + SimOutCopies(d, n), n <= sim_sent, sim_dropped.out, n)
    BY <1>2 DEF SimInv, SimOutFates, SimOutFate
  <2>6. SimFate(Copies(sim_wire, n) + SimOutCopies(sim_delay', n), n <= m, sim_dropped'.out, n)
    <3>0. n \in Nat /\ m \in Nat
      BY DEF SimNumber
    <3>1. CASE n = m
      <4>1. Copies(sim_wire, n) + SimOutCopies(d, n) = 0
        BY <2>5, <3>0, <3>1, <1>0, <1>3 DEF SimFate
      <4>2. Copies(sim_wire, n) + SimOutCopies(sim_delay', n) = Len(q) /\ Len(q) \in 0 .. 2
        BY <4>1, <2>1, <2>2, <2>3, <2>4, <3>1, <1>4
      <4> QED BY <4>2, <3>0, <3>1, <1>4, <1>5 DEF SimFate
    <3>2. CASE n # m
      <4>1. SimOutCopies(sim_delay', n) = SimOutCopies(d, n)
        BY <2>1, <2>2, <2>3, <3>2
      <4>2. n <= m <=> n <= sim_sent
        BY <3>0, <3>2, <1>0, <1>3
      <4> QED BY <2>5, <4>1, <4>2, <1>5 DEF SimFate
    <3> QED BY <3>1, <3>2
  <2>7. SimInCopies(sim_delay', n) = SimInCopies(sim_delay, n)
    BY <1>2, <2>1, <2>2, <2>3
  <2>8. SimInFate(n, sim_got, sim_ready, sim_delay, sim_inbox, sim_arrived, sim_dropped.in)'
    <3>1. SimInFate(n, sim_got, sim_ready, sim_delay, sim_inbox, sim_arrived, sim_dropped.in)
      BY DEF SimInv, SimInFates
    <3>2. UNCHANGED <<sim_got, sim_ready, sim_inbox, sim_arrived>>
      BY DEF sim_send
    <3> QED BY <3>1, <3>2, <2>7, <1>5 DEF SimInFate
  <2> QED BY <2>4, <2>6, <2>8 DEF SimOutFate
<1> QED BY <1>7, <1>8, <1>9 DEF SimInv, SimOutFates, SimInFates

\* A packet that arrives is in the inbox and nowhere else.
LEMMA SimArriveStep ==
  ASSUME SimInv, sim_arrive PROVE SimInv'
<1>0. /\ SimulatorTypeOK /\ sim_arrived \in Nat /\ sim_arrived + 1 \in SimNumber
      /\ sim_arrived + 1 \in 0 .. SimMaxPackets
  BY SimAssumption DEF SimInv, SimulatorTypeOK, sim_arrive, SimNumber
<1>1. PICK b \in Seq(SimNumber) : b = sim_inbox
  BY <1>0 DEF SimulatorTypeOK
<1>2. PICK a \in Nat : a = sim_arrived
  BY <1>0
<1>3. a + 1 \in SimNumber /\ sim_inbox' = Append(b, a + 1) /\ sim_arrived' = a + 1
  BY <1>0, <1>1, <1>2 DEF sim_arrive
<1>4. PICK c \in Seq(SimNumber) : c = Append(b, a + 1)
  <2>1. Append(b, a + 1) \in Seq(SimNumber)
    BY <1>3
  <2> QED BY <2>1, Zenon
<1>5. /\ Len(b) \in Nat /\ DOMAIN b = 1 .. Len(b) /\ DOMAIN c = 1 .. Len(b) + 1
      /\ \A k \in 1 .. Len(b) : c[k] = b[k]
      /\ c[Len(b) + 1] = a + 1
  BY <1>4
<1>a. SimInboxOK(b, a)
  BY <1>1, <1>2 DEF SimInv
<1>b. \A k \in DOMAIN b : b[k] \in Nat /\ b[k] <= a
  <2>1. \A k \in DOMAIN b : b[k] \in SimNumber
    OBVIOUS
  <2>2. SimNumber \subseteq Nat
    BY DEF SimNumber
  <2>3. \A k \in DOMAIN b : b[k] <= a
    BY <1>a DEF SimInboxOK
  <2> QED BY <2>1, <2>2, <2>3
<1>6. SimInboxOK(c, a + 1)
  <2>1. ASSUME NEW k \in DOMAIN c PROVE c[k] <= a + 1
    <3>1. CASE k = Len(b) + 1
      BY <3>1, <1>5
    <3>2. CASE k # Len(b) + 1
      BY <3>2, <1>5, <1>b
    <3> QED BY <3>1, <3>2
  <2>2. ASSUME NEW j \in DOMAIN c, NEW k \in DOMAIN c, j < k PROVE c[j] < c[k]
    <3>1. j \in 1 .. Len(b) /\ c[j] = b[j]
      BY <2>2, <1>5
    <3>2. CASE k = Len(b) + 1
      BY <3>1, <3>2, <1>5, <1>b
    <3>3. CASE k # Len(b) + 1
      <4>1. k \in 1 .. Len(b) /\ c[k] = b[k]
        BY <3>3, <1>5
      <4> QED BY <3>1, <4>1, <2>2, <1>5, <1>a DEF SimInboxOK
    <3> QED BY <3>2, <3>3
  <2> QED BY <2>1, <2>2 DEF SimInboxOK
<1>7. SimInboxOK(sim_inbox, sim_arrived)'
  BY <1>3, <1>4, <1>6
<1>8. SimulatorTypeOK'
  <2>1. sim_connected' \in BOOLEAN
    BY <1>0, Zenon DEF SimulatorTypeOK, sim_arrive
  <2>2. sim_arrived' \in 0 .. SimMaxPackets /\ sim_inbox' \in Seq(SimNumber)
    BY <1>0, <1>3, <1>4 DEF sim_arrive
  <2>3. SimTypes(sim_setting', sim_inbox', sim_delay', sim_ready', sim_sent', sim_arrived',
                 sim_wire', sim_got', sim_dropped', sim_connects')
    BY <1>0, <2>2, SimTypesOK DEF SimTypes, sim_arrive
  <2> QED BY <2>1, <2>3, SimTypesNextOK, Zenon
<1>9. SimOutFates'
  BY DEF SimInv, SimOutFates, sim_arrive
<1>10. ToSet(c) = ToSet(b) \cup {a + 1}
  <2>1. \A k \in DOMAIN c : c[k] \in ToSet(b) \cup {a + 1}
    <3>1. \A k \in DOMAIN c : k \in DOMAIN b \/ k = Len(b) + 1
      BY <1>5
    <3> QED BY <3>1, <1>5 DEF ToSet
  <2>2. \A k \in DOMAIN b : k \in DOMAIN c /\ c[k] = b[k]
    BY <1>5
  <2>3. Len(b) + 1 \in DOMAIN c
    BY <1>5
  <2> QED BY <2>1, <2>2, <2>3, <1>5 DEF ToSet
<1>11. ASSUME NEW n \in SimNumber
       PROVE  SimInFate(n, sim_got, sim_ready, sim_delay, sim_inbox, sim_arrived,
                        sim_dropped.in)'
  <2>1. PICK x : x = Copies(sim_got, n) + Copies(sim_ready, n) + SimInCopies(sim_delay, n)
    OBVIOUS
  <2>2. SimFate(x, n <= a /\ n \notin ToSet(b), sim_dropped.in, n)
    BY <1>1, <1>2, <2>1 DEF SimInv, SimInFates, SimInFate
  <2>3. n \in Nat
    BY DEF SimNumber
  <2>4. (n <= a + 1 /\ n \notin ToSet(c)) <=> (n <= a /\ n \notin ToSet(b))
    BY <1>10, <2>3
  <2>5. SimFate(x, n <= a + 1 /\ n \notin ToSet(c), sim_dropped.in, n)
    BY <2>2, <2>4 DEF SimFate
  <2>6. UNCHANGED <<sim_got, sim_ready, sim_delay, sim_dropped>>
    BY DEF sim_arrive
  <2> QED BY <1>3, <1>4, <2>1, <2>5, <2>6 DEF SimInFate
<1> QED BY <1>7, <1>8, <1>9, <1>11 DEF SimInv, SimInFates

\* pop_receive() keeps the accounts.
LEMMA SimPopStep ==
  ASSUME SimInv, sim_pop_receive PROVE SimInv'
<1>0. SimulatorTypeOK
  BY DEF SimInv
<1>1. PICK g \in Seq(SimNumber) : g = sim_got
  BY <1>0 DEF SimulatorTypeOK
<1>2. PICK r \in Seq(SimNumber) : r = sim_ready
  BY <1>0 DEF SimulatorTypeOK
<1>3. r # << >> /\ sim_ready' = Tail(r) /\ sim_got' = Append(g, Head(r))
  BY <1>1, <1>2 DEF sim_pop_receive
<1>4. sim_got' \in Seq(SimNumber) /\ sim_ready' \in Seq(SimNumber)
  BY <1>3, PopCopies
<1>5. SimulatorTypeOK'
  <2>1. sim_connected' \in BOOLEAN
    BY <1>0, Zenon DEF SimulatorTypeOK, sim_pop_receive
  <2>2. SimTypes(sim_setting', sim_inbox', sim_delay', sim_ready', sim_sent', sim_arrived',
                 sim_wire', sim_got', sim_dropped', sim_connects')
    BY <1>0, <1>4, SimTypesOK DEF SimTypes, sim_pop_receive
  <2> QED BY <2>1, <2>2, SimTypesNextOK, Zenon
<1>6. SimInboxOK(sim_inbox, sim_arrived)' /\ SimOutFates'
  BY DEF SimInv, SimOutFates, sim_pop_receive
<1>7. ASSUME NEW n \in SimNumber
      PROVE  SimInFate(n, sim_got, sim_ready, sim_delay, sim_inbox, sim_arrived,
                       sim_dropped.in)'
  <2>1. Copies(sim_got', n) + Copies(sim_ready', n) = Copies(g, n) + Copies(r, n)
    <3>1. Copies(Append(g, Head(r)), n) + Copies(Tail(r), n) = Copies(g, n) + Copies(r, n)
      BY <1>3, PopCopies
    <3> QED BY <3>1, <1>3
  <2>2. UNCHANGED <<sim_delay, sim_inbox, sim_arrived, sim_dropped>>
    BY DEF sim_pop_receive
  <2>3. SimFate(Copies(g, n) + Copies(r, n) + SimInCopies(sim_delay, n),
                n <= sim_arrived /\ n \notin ToSet(sim_inbox), sim_dropped.in, n)
    BY <1>1, <1>2 DEF SimInv, SimInFates, SimInFate
  <2> QED BY <2>1, <2>2, <2>3 DEF SimInFate
<1> QED BY <1>5, <1>6, <1>7 DEF SimInv, SimInFates

\* The clock: the packets of the queue are the same.
LEMMA TickFields ==
  ASSUME SimulatorTypeOK, sim_tick
  PROVE  /\ sim_delay' \in Seq(QueuedPacket) /\ DOMAIN sim_delay' = DOMAIN sim_delay
         /\ \A k \in DOMAIN sim_delay :
              /\ sim_delay'[k].n = sim_delay[k].n
              /\ sim_delay'[k].outbound = sim_delay[k].outbound
              /\ sim_delay'[k].left =
                   IF sim_delay[k].left = 0 THEN 0 ELSE sim_delay[k].left - 1
<1>1. PICK d \in Seq(QueuedPacket) : d = sim_delay
  BY DEF SimulatorTypeOK
<1> DEFINE aged(k) == [d[k] EXCEPT !.left = IF d[k].left = 0 THEN 0 ELSE d[k].left - 1]
<1>2. PICK e : e = [k \in DOMAIN d |-> aged(k)]
  OBVIOUS
<1>3. sim_delay' = e
  BY <1>1, <1>2 DEF sim_tick
<1>4. \A k \in DOMAIN d : d[k] \in QueuedPacket /\ d[k].left \in Nat
  BY QueuedFields
<1>5. \A p \in QueuedPacket : \A l \in Nat :
        /\ [p EXCEPT !.left = l] \in QueuedPacket
        /\ [p EXCEPT !.left = l].n = p.n /\ [p EXCEPT !.left = l].outbound = p.outbound
        /\ [p EXCEPT !.left = l].left = l
  BY DEF QueuedPacket
<1>6. \A k \in DOMAIN d : (IF d[k].left = 0 THEN 0 ELSE d[k].left - 1) \in Nat
  BY <1>4
<1>7. \A k \in DOMAIN d :
        /\ aged(k) \in QueuedPacket /\ aged(k).n = d[k].n /\ aged(k).outbound = d[k].outbound
        /\ aged(k).left = IF d[k].left = 0 THEN 0 ELSE d[k].left - 1
  BY <1>4, <1>5, <1>6
<1> HIDE DEF aged
<1>8. DOMAIN e = DOMAIN d /\ \A k \in DOMAIN d : e[k] = aged(k)
  BY <1>2
<1>9. Len(d) \in Nat /\ DOMAIN d = 1 .. Len(d)
  OBVIOUS
<1>10. e \in [1 .. Len(d) -> QueuedPacket]
  BY <1>2, <1>7, <1>9
<1>11. e \in Seq(QueuedPacket)
  BY <1>9, <1>10, SeqDef
<1> QED BY <1>1, <1>3, <1>7, <1>8, <1>11

\* The clock keeps the accounts.
LEMMA SimTickStep ==
  ASSUME SimInv, sim_tick PROVE SimInv'
<1>0. SimulatorTypeOK
  BY DEF SimInv
<1>1. /\ sim_delay' \in Seq(QueuedPacket) /\ DOMAIN sim_delay' = DOMAIN sim_delay
      /\ \A k \in DOMAIN sim_delay : /\ sim_delay'[k].n = sim_delay[k].n
                                     /\ sim_delay'[k].outbound = sim_delay[k].outbound
  BY <1>0, TickFields
<1>2. UNCHANGED <<sim_setting, sim_connected, sim_inbox, sim_ready, sim_sent, sim_arrived,
                  sim_wire, sim_got, sim_dropped, sim_connects>>
  BY DEF sim_tick
<1>3. PICK d : d = sim_delay
  OBVIOUS
<1>4. PICK e : e = sim_delay'
  OBVIOUS
<1>5. \A o : SimSide(e, o) = SimSide(d, o)
  BY <1>1, <1>3, <1>4, SameSide
<1>6. \A n : SimOutCopies(e, n) = SimOutCopies(d, n) /\ SimInCopies(e, n) = SimInCopies(d, n)
  BY <1>5, Zenon DEF SimOutCopies, SimInCopies
<1>7. SimulatorTypeOK'
  <2>1. sim_connected' \in BOOLEAN
    BY <1>0, <1>2, Zenon DEF SimulatorTypeOK
  <2>2. SimTypes(sim_setting', sim_inbox', sim_delay', sim_ready', sim_sent', sim_arrived',
                 sim_wire', sim_got', sim_dropped', sim_connects')
    BY <1>0, <1>1, <1>2, SimTypesOK DEF SimTypes
  <2> QED BY <2>1, <2>2, SimTypesNextOK, Zenon
<1>8. SimInboxOK(sim_inbox, sim_arrived)'
  BY <1>2 DEF SimInv
<1>9. SimOutFates' /\ SimInFates'
  BY <1>2, <1>3, <1>4, <1>6 DEF SimInv, SimOutFates, SimInFates, SimOutFate, SimInFate
<1> QED BY <1>7, <1>8, <1>9 DEF SimInv
\* disconnect() drops what waits, and nothing else.
LEMMA SimDisconnectStep ==
  ASSUME SimInv, sim_disconnect PROVE SimInv'
<1>0. SimulatorTypeOK
  BY DEF SimInv
<1>1. PICK d \in Seq(QueuedPacket) : d = sim_delay
  BY <1>0 DEF SimulatorTypeOK
<1>2. PICK r \in Seq(SimNumber) : r = sim_ready
  BY <1>0 DEF SimulatorTypeOK
<1>3. PICK b \in Seq(SimNumber) : b = sim_inbox
  BY <1>0 DEF SimulatorTypeOK
<1>4. PICK O, I : /\ O = sim_dropped.out \cup SimNumbers(d, TRUE)
                  /\ I = sim_dropped.in \cup SimNumbers(d, FALSE) \cup ToSet(b) \cup ToSet(r)
  OBVIOUS
<1>5. /\ sim_inbox' = << >> /\ sim_delay' = << >> /\ sim_ready' = << >>
      /\ sim_dropped' = [out |-> O, in |-> I]
      /\ UNCHANGED <<sim_setting, sim_sent, sim_arrived, sim_wire, sim_got, sim_connects>>
  BY <1>1, <1>2, <1>3, <1>4, Zenon DEF sim_disconnect
<1>6. O \subseteq SimNumber /\ I \subseteq SimNumber
  <2>1. SimNumbers(d, TRUE) \subseteq SimNumber /\ SimNumbers(d, FALSE) \subseteq SimNumber
    BY QueuedFields DEF SimNumbers, SimDirection
  <2>2. ToSet(b) \subseteq SimNumber /\ ToSet(r) \subseteq SimNumber
    BY MemberCopies
  <2> QED BY <1>0, <1>4, <2>1, <2>2, SimDropType
<1>7. SimulatorTypeOK'
  <2>1. sim_connected' \in BOOLEAN
    BY Zenon DEF sim_disconnect
  <2>2. SimTypes(sim_setting', sim_inbox', sim_delay', sim_ready', sim_sent', sim_arrived',
                 sim_wire', sim_got', sim_dropped', sim_connects')
    BY <1>0, <1>5, <1>6, SimTypesOK DEF SimTypes
  <2> QED BY <2>1, <2>2, SimTypesNextOK, Zenon
<1>8. SimInboxOK(sim_inbox, sim_arrived)'
  BY <1>5 DEF SimInboxOK
<1>9. ASSUME NEW n \in SimNumber
      PROVE  /\ SimOutFate(n, sim_wire, sim_delay, sim_sent, sim_dropped.out)'
             /\ SimInFate(n, sim_got, sim_ready, sim_delay, sim_inbox, sim_arrived,
                          sim_dropped.in)'
  <2>1. PICK w \in Nat : w = Copies(sim_wire, n)
    BY <1>0, MemberCopies DEF SimulatorTypeOK
  <2>2. PICK g \in Nat : g = Copies(sim_got, n)
    BY <1>0, MemberCopies DEF SimulatorTypeOK
  <2>3. PICK x \in Nat : x = Copies(r, n)
    BY MemberCopies
  <2>4. PICK y \in Nat, z \in Nat : y = SimOutCopies(d, n) /\ z = SimInCopies(d, n)
    BY DirectionCopies
  <2>5. /\ SimOutCopies(sim_delay', n) = 0 /\ SimInCopies(sim_delay', n) = 0
        /\ Copies(sim_ready', n) = 0
    BY <1>5, EmptyCopies
  <2>6. SimFate(w + y, n <= sim_sent, sim_dropped.out, n)
    BY <1>1, <2>1, <2>4 DEF SimInv, SimOutFates, SimOutFate
  <2>7. SimFate(g + x + z, n <= sim_arrived /\ n \notin ToSet(b), sim_dropped.in, n)
    BY <1>1, <1>2, <1>3, <2>2, <2>3, <2>4 DEF SimInv, SimInFates, SimInFate
  <2>8. (y # 0 => n \in O) /\ sim_dropped.out \subseteq O
    <3>1. y = 0 <=> n \notin SimNumbers(d, TRUE)
      BY <2>4, DirectionCopies
    <3> QED BY <1>4, <3>1
  <2>9. /\ x # 0 \/ z # 0 \/ n \in ToSet(b) => n \in I
        /\ sim_dropped.in \subseteq I
    <3>1. z = 0 <=> n \notin SimNumbers(d, FALSE)
      BY <2>4, DirectionCopies
    <3>2. x = 0 <=> n \notin ToSet(r)
      BY <2>3, MemberCopies
    <3> QED BY <1>4, <3>1, <3>2
  <2>10. SimFate(w + 0, n <= sim_sent, O, n)
    <3>1. CASE n <= sim_sent
      <4>1. w + y <= 2 /\ (w + y = 0 => n \in sim_dropped.out)
        BY <2>6, <3>1 DEF SimFate
      <4> QED BY <3>1, <4>1, <2>8 DEF SimFate
    <3>2. CASE ~ (n <= sim_sent)
      <4>1. w + y = 0
        BY <2>6, <3>2 DEF SimFate
      <4> QED BY <3>2, <4>1 DEF SimFate
    <3> QED BY <3>1, <3>2
  <2>11. SimFate(g + 0 + 0, n <= sim_arrived /\ n \notin ToSet(<< >>), I, n)
    <3>0. ToSet(<< >>) = {}
      BY DEF ToSet
    <3>1. CASE n <= sim_arrived /\ n \notin ToSet(b)
      <4>1. g + x + z <= 2 /\ (g + x + z = 0 => n \in sim_dropped.in)
        BY <2>7, <3>1 DEF SimFate
      <4> QED BY <3>0, <3>1, <4>1, <2>9 DEF SimFate
    <3>2. CASE n \in ToSet(b)
      <4>1. g + x + z = 0 /\ n \in I
        BY <2>7, <2>9, <3>2 DEF SimFate
      <4> QED BY <3>0, <4>1 DEF SimFate
    <3>3. CASE ~ (n <= sim_arrived)
      <4>1. g + x + z = 0
        BY <2>7, <3>3 DEF SimFate
      <4> QED BY <3>0, <3>3, <4>1 DEF SimFate
    <3> QED BY <3>1, <3>2, <3>3
  <2>12. SimOutFate(n, sim_wire, sim_delay, sim_sent, sim_dropped.out)'
    <3>1. sim_dropped'.out = O /\ sim_sent' = sim_sent /\ Copies(sim_wire', n) = w
      BY <1>5, <2>1
    <3> QED BY <3>1, <2>5, <2>10 DEF SimOutFate
  <2>13. SimInFate(n, sim_got, sim_ready, sim_delay, sim_inbox, sim_arrived, sim_dropped.in)'
    <3>1. /\ sim_dropped'.in = I /\ sim_arrived' = sim_arrived /\ Copies(sim_got', n) = g
          /\ sim_inbox' = << >>
      BY <1>5, <2>2
    <3> QED BY <3>1, <2>5, <2>11 DEF SimInFate
  <2> QED BY <2>12, <2>13
<1> QED BY <1>7, <1>8, <1>9 DEF SimInv, SimOutFates, SimInFates

\* What poll() changes when the receive loop has queued w.
SimPolled(w) ==
  LET queue == sim_delay \o w IN
  /\ sim_delay' = Kept(queue, DOMAIN queue \ SimIsDue(queue))
  /\ sim_ready' = sim_ready \o SimDue(queue, FALSE)
  /\ sim_wire' = IF sim_connected THEN sim_wire \o SimDue(queue, TRUE) ELSE sim_wire
  /\ sim_dropped' =
       [out |-> sim_dropped.out
                  \cup (IF sim_connected THEN {} ELSE ToSet(SimDue(queue, TRUE))),
        in |-> sim_dropped.in \cup (ToSet(sim_inbox) \ SimNumbers(w, FALSE))]

\* poll() is one of these changes.
LEMMA PollIs ==
  ASSUME sim_poll
  PROVE  /\ sim_inbox' = << >> /\ \E w \in SimReceived : SimPolled(w)
         /\ UNCHANGED <<sim_setting, sim_connected, sim_sent, sim_arrived, sim_got,
                        sim_connects>>
BY Zenon DEF sim_poll, SimPolled

\* poll() passes on, drops or keeps everything it had and received.
LEMMA SimPollStep ==
  ASSUME SimInv, sim_poll PROVE SimInv'
<1>0. SimulatorTypeOK /\ SimInboxOK(sim_inbox, sim_arrived)
  BY DEF SimInv
<1>1. PICK w \in SimReceived : SimPolled(w)
  BY PollIs
<1>2. SimTook(w, Len(sim_inbox), sim_inbox, sim_setting)
  BY <1>0, ReceivedTook
<1>3. PICK b \in Seq(SimNumber) : b = sim_inbox
  BY <1>0 DEF SimulatorTypeOK
<1>4. PICK d \in Seq(QueuedPacket) : d = sim_delay
  BY <1>0 DEF SimulatorTypeOK
<1>5. /\ w \in Seq(QueuedPacket)
      /\ \A i \in DOMAIN w : w[i].outbound = FALSE /\ w[i].n \in ToSet(b)
      /\ \A n \in SimNumber : SimInCopies(w, n) <= 2
  <2>1. DOMAIN b = 1 .. Len(b)
    OBVIOUS
  <2> QED BY <1>2, <1>3, <2>1 DEF SimTook, ToSet, SimInCopies
<1>6. PICK q \in Seq(QueuedPacket) : q = d \o w
  <2>1. d \o w \in Seq(QueuedPacket)
    BY <1>5, ConcatFields
  <2> QED BY <2>1, Zenon
<1>7. PICK r : r = Kept(q, DOMAIN q \ SimIsDue(q))
  OBVIOUS
<1>8. PICK u \in Seq(SimNumber) : u = SimDue(q, TRUE)
  <2>1. SimDue(q, TRUE) \in Seq(SimNumber)
    BY SideType
  <2> QED BY <2>1, Zenon
<1>9. PICK v \in Seq(SimNumber) : v = SimDue(q, FALSE)
  <2>1. SimDue(q, FALSE) \in Seq(SimNumber)
    BY SideType
  <2> QED BY <2>1, Zenon
<1>10. PICK O, I : /\ O = sim_dropped.out \cup (IF sim_connected THEN {} ELSE ToSet(u))
                   /\ I = sim_dropped.in \cup (ToSet(b) \ SimNumbers(w, FALSE))
  OBVIOUS
<1>11. /\ sim_delay' = r /\ sim_ready' = sim_ready \o v
       /\ sim_wire' = IF sim_connected THEN sim_wire \o u ELSE sim_wire
       /\ sim_dropped' = [out |-> O, in |-> I]
  BY <1>1, <1>3, <1>4, <1>6, <1>7, <1>8, <1>9, <1>10, Zenon DEF SimPolled
<1>12. /\ sim_inbox' = << >>
       /\ UNCHANGED <<sim_setting, sim_connected, sim_sent, sim_arrived, sim_got, sim_connects>>
  BY PollIs
<1>13. r \in Seq(QueuedPacket)
  BY <1>7, DirectionPoll
<1>14. O \subseteq SimNumber /\ I \subseteq SimNumber
  <2>1. ToSet(b) \subseteq SimNumber /\ ToSet(u) \subseteq SimNumber
    BY MemberCopies
  <2> QED BY <1>0, <1>10, <2>1, SimDropType
<1>15. SimulatorTypeOK'
  <2>1. sim_connected' \in BOOLEAN
    BY <1>0, <1>12, Zenon DEF SimulatorTypeOK
  <2>2. sim_ready' \in Seq(SimNumber) /\ sim_wire' \in Seq(SimNumber)
    <3>1. sim_ready \in Seq(SimNumber) /\ sim_wire \in Seq(SimNumber)
      BY <1>0 DEF SimulatorTypeOK
    <3>2. sim_ready \o v \in Seq(SimNumber) /\ sim_wire \o u \in Seq(SimNumber)
      BY <3>1, ConcatProperties
    <3> QED BY <1>11, <3>1, <3>2
  <2>3. SimTypes(sim_setting', sim_inbox', sim_delay', sim_ready', sim_sent', sim_arrived',
                 sim_wire', sim_got', sim_dropped', sim_connects')
    BY <1>0, <1>11, <1>12, <1>13, <1>14, <2>2, SimTypesOK, SMTT(30) DEF SimTypes
  <2> QED BY <2>1, <2>3, SimTypesNextOK, Zenon
<1>16. SimInboxOK(sim_inbox, sim_arrived)'
  BY <1>12 DEF SimInboxOK
<1>17. ASSUME NEW n \in SimNumber
       PROVE  /\ SimOutFate(n, sim_wire, sim_delay, sim_sent, sim_dropped.out)'
              /\ SimInFate(n, sim_got, sim_ready, sim_delay, sim_inbox, sim_arrived,
                           sim_dropped.in)'
  <2>1. PICK cw \in Nat : cw = Copies(sim_wire, n)
    BY <1>0, MemberCopies DEF SimulatorTypeOK
  <2>2. PICK cg \in Nat, cy \in Nat : cg = Copies(sim_got, n) /\ cy = Copies(sim_ready, n)
    BY <1>0, MemberCopies DEF SimulatorTypeOK
  <2>3. PICK od \in Nat, id \in Nat : od = SimOutCopies(d, n) /\ id = SimInCopies(d, n)
    BY DirectionCopies
  <2>4. PICK or \in Nat, ir \in Nat : or = SimOutCopies(r, n) /\ ir = SimInCopies(r, n)
    BY <1>13, DirectionCopies
  <2>5. PICK cu \in Nat, cv \in Nat : cu = Copies(u, n) /\ cv = Copies(v, n)
    BY MemberCopies
  <2>6. PICK iw \in Nat : iw = SimInCopies(w, n)
    BY <1>5, DirectionCopies
  <2>7. SimOutCopies(w, n) = 0 /\ iw <= 2 /\ (iw = 0 <=> n \notin SimNumbers(w, FALSE))
    <3>1. SimNumbers(w, TRUE) = {}
      BY <1>5 DEF SimNumbers, SimDirection
    <3> QED BY <3>1, <1>5, <2>6, DirectionCopies
  <2>8. od = cu + or /\ id + iw = cv + ir
    <3>1. /\ SimOutCopies(d \o w, n) = SimOutCopies(d, n) + SimOutCopies(w, n)
          /\ SimInCopies(d \o w, n) = SimInCopies(d, n) + SimInCopies(w, n)
      BY <1>5, DirectionConcat
    <3>2. /\ SimOutCopies(q, n) = Copies(SimDue(q, TRUE), n) + SimOutCopies(r, n)
          /\ SimInCopies(q, n) = Copies(SimDue(q, FALSE), n) + SimInCopies(r, n)
      BY <1>7, DirectionPoll
    <3>3. /\ SimOutCopies(q, n) = cu + or /\ SimInCopies(q, n) = cv + ir
      BY <3>2, <1>8, <1>9, <2>4, <2>5, Zenon
    <3>4. SimOutCopies(q, n) = od + 0 /\ SimInCopies(q, n) = id + iw
      BY <3>1, <1>6, <2>3, <2>6, <2>7, Zenon
    <3> QED BY <3>3, <3>4
  <2>9. SimFate(cw + od, n <= sim_sent, sim_dropped.out, n)
    BY <1>4, <2>1, <2>3 DEF SimInv, SimOutFates, SimOutFate
  <2>10. SimFate(cg + cy + id, n <= sim_arrived /\ n \notin ToSet(b), sim_dropped.in, n)
    BY <1>3, <1>4, <2>2, <2>3 DEF SimInv, SimInFates, SimInFate
  <2>11. Copies(sim_ready', n) = cy + cv
    <3>1. sim_ready \in Seq(SimNumber)
      BY <1>0 DEF SimulatorTypeOK
    <3> QED BY <3>1, <1>11, <2>2, <2>5, CopiesConcat
  <2>12. Copies(sim_wire', n) = IF sim_connected THEN cw + cu ELSE cw
    <3>1. sim_wire \in Seq(SimNumber)
      BY <1>0 DEF SimulatorTypeOK
    <3>2. Copies(sim_wire \o u, n) = cw + cu
      BY <3>1, <2>1, <2>5, CopiesConcat
    <3> QED BY <3>2, <1>11, <2>1
  <2>13. SimFate((IF sim_connected THEN cw + cu ELSE cw) + or, n <= sim_sent, O, n)
    <3>0. sim_dropped.out \subseteq O /\ (~ sim_connected /\ cu # 0 => n \in O)
      <4>1. cu = 0 <=> n \notin ToSet(u)
        BY <2>5, MemberCopies
      <4> QED BY <4>1, <1>10
    <3>1. CASE sim_connected
      <4>1. (cw + cu) + or = cw + od
        BY <2>8
      <4> QED BY <4>1, <3>0, <3>1, <2>9 DEF SimFate
    <3>2. CASE ~ sim_connected
      <4>1. CASE n <= sim_sent
        <5>1. cw + od <= 2 /\ (cw + od = 0 => n \in sim_dropped.out)
          BY <2>9, <4>1 DEF SimFate
        <5>2. cw + or <= 2 /\ (cw + or = 0 => n \in O)
          BY <5>1, <2>8, <3>0, <3>2
        <5> QED BY <5>2, <4>1, <3>2 DEF SimFate
      <4>2. CASE ~ (n <= sim_sent)
        <5>1. cw + od = 0
          BY <2>9, <4>2 DEF SimFate
        <5>2. cw + or = 0
          BY <5>1, <2>8
        <5> QED BY <5>2, <4>2, <3>2 DEF SimFate
      <4> QED BY <4>1, <4>2
    <3> QED BY <3>1, <3>2
  <2>14. SimFate(cg + (cy + cv) + ir, n <= sim_arrived /\ n \notin ToSet(<< >>), I, n)
    <3>0. ToSet(<< >>) = {} /\ cg + (cy + cv) + ir = cg + cy + id + iw
      BY <2>8 DEF ToSet
    <3>1. CASE n \in ToSet(b)
      <4>1. cg + cy + id = 0
        BY <2>10, <3>1 DEF SimFate
      <4>2. n <= sim_arrived
        BY <1>0, <1>3, <3>1 DEF SimInboxOK, ToSet
      <4>3. iw = 0 => n \in I
        BY <2>7, <3>1, <1>10
      <4> QED BY <3>0, <4>1, <4>2, <4>3, <2>7 DEF SimFate
    <3>2. CASE n \notin ToSet(b)
      <4>1. iw = 0
        BY <1>5, <2>7, <3>2 DEF SimNumbers, SimDirection
      <4>2. sim_dropped.in \subseteq I /\ cg + (cy + cv) + ir = cg + cy + id
        <5>1. sim_dropped.in \subseteq I
          BY <1>10
        <5>2. cg + (cy + cv) + ir = cg + cy + id
          BY <3>0, <4>1
        <5> QED BY <5>1, <5>2
      <4>3. (n <= sim_arrived /\ n \notin ToSet(<< >>)) <=> (n <= sim_arrived /\ n \notin ToSet(b))
        BY <3>0, <3>2
      <4> QED BY <4>2, <4>3, <2>10 DEF SimFate
    <3> QED BY <3>1, <3>2
  <2>15. SimOutFate(n, sim_wire, sim_delay, sim_sent, sim_dropped.out)'
    <3>1. sim_dropped'.out = O /\ sim_sent' = sim_sent
      BY <1>11, <1>12
    <3> QED BY <3>1, <1>11, <2>4, <2>12, <2>13 DEF SimOutFate
  <2>16. SimInFate(n, sim_got, sim_ready, sim_delay, sim_inbox, sim_arrived, sim_dropped.in)'
    <3>1. /\ sim_dropped'.in = I /\ sim_arrived' = sim_arrived /\ Copies(sim_got', n) = cg
          /\ sim_inbox' = << >>
      BY <1>11, <1>12, <2>2
    <3> QED BY <3>1, <1>11, <2>4, <2>11, <2>14 DEF SimInFate
  <2> QED BY <2>15, <2>16
<1> QED BY <1>15, <1>16, <1>17 DEF SimInv, SimOutFates, SimInFates

\* Every step keeps the invariant.
LEMMA SimNextStep ==
  ASSUME SimInv, [SimulatorNext]_sim_vars PROVE SimInv'
BY SimConnectStep, SimSendStep, SimArriveStep, SimPopStep, SimTickStep, SimDisconnectStep,
   SimPollStep DEF SimulatorNext
\* The invariant implies what was promised.
LEMMA SimAccounts ==
  ASSUME SimInv PROVE SimAccounted
<1>0. SimulatorTypeOK
  BY DEF SimInv
<1>1. PICK w \in Seq(SimNumber), g \in Seq(SimNumber), r \in Seq(SimNumber), b \in Seq(SimNumber) :
        w = sim_wire /\ g = sim_got /\ r = sim_ready /\ b = sim_inbox
  BY <1>0 DEF SimulatorTypeOK
<1>2. PICK d \in Seq(QueuedPacket) : d = sim_delay
  BY <1>0 DEF SimulatorTypeOK
<1>3. PICK x \in Seq(SimNumber) : x = SimSide(d, TRUE)
  <2>1. SimSide(d, TRUE) \in Seq(SimNumber)
    BY SideType
  <2> QED BY <2>1, Zenon
<1>4. PICK y \in Seq(SimNumber) : y = SimSide(d, FALSE)
  <2>1. SimSide(d, FALSE) \in Seq(SimNumber)
    BY SideType
  <2> QED BY <2>1, Zenon
<1>5. SimOutbound = w \o x /\ SimInbound = g \o r \o y \o b
  BY <1>1, <1>2, <1>3, <1>4, Zenon DEF SimOutbound, SimInbound, SimSide
<1>a. /\ sim_sent \in 0 .. SimMaxPackets /\ sim_arrived \in 0 .. SimMaxPackets
      /\ SimMaxPackets \in Nat
  BY <1>0, SimAssumption DEF SimulatorTypeOK
<1>6. ASSUME NEW n \in 1 .. sim_sent
      PROVE  Copies(w \o x, n) <= 2 /\ (Copies(w \o x, n) = 0 => n \in sim_dropped.out)
  <2>1. n \in SimNumber /\ n <= sim_sent
    BY <1>a DEF SimNumber
  <2>2. SimFate(Copies(w, n) + Copies(x, n), n <= sim_sent, sim_dropped.out, n)
    BY <2>1, <1>1, <1>2, <1>3 DEF SimInv, SimOutFates, SimOutFate, SimOutCopies
  <2>3. Copies(w \o x, n) = Copies(w, n) + Copies(x, n)
    BY CopiesConcat
  <2> QED BY <2>1, <2>2, <2>3 DEF SimFate
<1>7. ASSUME NEW n \in 1 .. sim_arrived
      PROVE  /\ Copies(g \o r \o y \o b, n) <= 2
             /\ Copies(g \o r \o y \o b, n) = 0 => n \in sim_dropped.in
  <2>1. n \in SimNumber /\ n <= sim_arrived
    BY <1>a DEF SimNumber
  <2>2. SimFate(Copies(g, n) + Copies(r, n) + Copies(y, n),
                n <= sim_arrived /\ n \notin ToSet(b), sim_dropped.in, n)
    BY <2>1, <1>1, <1>2, <1>4 DEF SimInv, SimInFates, SimInFate, SimInCopies
  <2>3. Copies(g \o r \o y \o b, n) = Copies(g, n) + Copies(r, n) + Copies(y, n) + Copies(b, n)
    <3>1. PICK h \in Seq(SimNumber) : h = g \o r
      <4>1. g \o r \in Seq(SimNumber)
        BY ConcatProperties
      <4> QED BY <4>1, Zenon
    <3>2. PICK i \in Seq(SimNumber) : i = h \o y
      <4>1. h \o y \in Seq(SimNumber)
        BY ConcatProperties
      <4> QED BY <4>1, Zenon
    <3>3. /\ Copies(g \o r, n) = Copies(g, n) + Copies(r, n)
          /\ Copies(h \o y, n) = Copies(h, n) + Copies(y, n)
          /\ Copies(i \o b, n) = Copies(i, n) + Copies(b, n)
      BY CopiesConcat
    <3> QED BY <3>1, <3>2, <3>3, Zenon
  <2>4. Copies(b, n) \in Nat /\ (Copies(b, n) = 0 <=> n \notin ToSet(b))
    BY MemberCopies
  <2>5. n \in ToSet(b) => Copies(b, n) = 1
    <3>1. ASSUME n \in ToSet(b) PROVE Copies(b, n) = 1
      <4>1. PICK k \in DOMAIN b : b[k] = n
        BY <3>1 DEF ToSet
      <4>2. \A j, l \in DOMAIN b : j < l => b[j] < b[l]
        BY <1>1 DEF SimInv, SimInboxOK
      <4>3. ASSUME NEW j \in DOMAIN b, b[j] = n PROVE j = k
        <5>1. j \in Nat /\ k \in Nat /\ n \in Nat
          BY <2>1 DEF SimNumber
        <5>2. ~ (b[j] < b[k]) /\ ~ (b[k] < b[j])
          BY <4>1, <4>3, <5>1
        <5>3. ~ (j < k) /\ ~ (k < j)
          BY <4>2, <5>2
        <5> QED BY <5>1, <5>3
      <4>4. Places(b, n) = {k}
        BY <4>1, <4>3 DEF Places
      <4> QED BY <4>4, FS_Singleton DEF Copies
    <3> QED BY <3>1
  <2>6. CASE n \in ToSet(b)
    <3>1. Copies(g, n) + Copies(r, n) + Copies(y, n) = 0
      BY <2>2, <2>6 DEF SimFate
    <3> QED BY <2>3, <2>5, <2>6, <3>1
  <2>7. CASE n \notin ToSet(b)
    <3>1. PICK c : c = Copies(g, n) + Copies(r, n) + Copies(y, n)
      OBVIOUS
    <3>2. c <= 2 /\ (c = 0 => n \in sim_dropped.in)
      BY <2>1, <2>2, <2>7, <3>1 DEF SimFate
    <3>3. Copies(g, n) \in Nat /\ Copies(r, n) \in Nat /\ Copies(y, n) \in Nat
      BY MemberCopies
    <3>4. Copies(g \o r \o y \o b, n) = c
      BY <2>3, <2>4, <2>7, <3>1, <3>3
    <3> QED BY <3>2, <3>4
  <2> QED BY <2>6, <2>7
<1>8. /\ \A n : Cardinality({k \in DOMAIN SimOutbound : SimOutbound[k] = n}) = Copies(w \o x, n)
      /\ \A n : Cardinality({k \in DOMAIN SimInbound : SimInbound[k] = n})
                  = Copies(g \o r \o y \o b, n)
  BY <1>5, Zenon DEF Copies, Places
<1> QED BY <1>6, <1>7, <1>8, Zenon DEF SimAccounted

-----------------------------------------------------------------------------
(* NetworkSimulator: the order of the packets under one delay.             *)

\* Every setting has the delay D and no jitter.
SimDelayIs(D) == \A s \in SimSettings : s.delays = {D} /\ s.jitter = 0

\* The hypothesis of the theorems about the order.
SimOneDelay == \E D \in Nat : SimDelayIs(D)

\* The packets of a direction wait in the order they came in, and no packet for
\* longer than one behind it.
SimQueueOrder(q, D) ==
  /\ \A k \in DOMAIN q : q[k].left <= D
  /\ \A j, k \in DOMAIN q :
       j < k => /\ q[j].left <= q[k].left
                /\ q[j].outbound = q[k].outbound => q[j].n <= q[k].n

\* What is in s came before what is in t, or waits in the queue q, or is behind q.
SimBefore(s, t) == \A j \in DOMAIN s, k \in DOMAIN t : s[j] <= t[k]
SimAhead(s, q, o) == \A j \in DOMAIN s, k \in DOMAIN q : q[k].outbound = o => s[j] <= q[k].n
SimBehind(q, o, t) == \A j \in DOMAIN q, k \in DOMAIN t : q[j].outbound = o => q[j].n <= t[k]

\* What was sent is in order.
SimOutOrder(wire, delay) == SimIncreasing(wire) /\ SimAhead(wire, delay, TRUE)

\* What was received is in order.
SimInOrders(got, ready, delay, inbox) ==
  /\ SimIncreasing(got) /\ SimBefore(got, ready) /\ SimAhead(got, delay, FALSE)
  /\ SimBefore(got, inbox)
  /\ SimIncreasing(ready) /\ SimAhead(ready, delay, FALSE) /\ SimBefore(ready, inbox)
  /\ SimBehind(delay, FALSE, inbox)

\* The inductive invariant of the order.
SimOrderInv(D) ==
  /\ SimQueueOrder(sim_delay, D)
  /\ SimOutOrder(sim_wire, sim_delay)
  /\ SimInOrders(sim_got, sim_ready, sim_delay, sim_inbox)

\* Packets taken from the queue, all of a direction, keep their order.
LEMMA PassedOrder ==
  ASSUME NEW q \in Seq(QueuedPacket), NEW D, SimQueueOrder(q, D), NEW o,
         NEW at, at \subseteq SimDirection(q, o)
  PROVE  /\ SimPassed(q, at) \in Seq(SimNumber) /\ SimIncreasing(SimPassed(q, at))
         /\ \A k \in DOMAIN SimPassed(q, at) : \E i \in at : SimPassed(q, at)[k] = q[i].n
<1>0. at \subseteq DOMAIN q /\ \A i \in at : q[i].outbound = o
  BY DEF SimDirection
<1>1. /\ SimPassed(q, at) \in Seq(SimNumber)
      /\ \A k \in DOMAIN SimPassed(q, at) : \E i \in at : SimPassed(q, at)[k] = q[i].n
  BY <1>0, PassedType
<1>2. /\ SimNs(q) \in Seq(SimNumber) /\ at \subseteq DOMAIN SimNs(q)
      /\ \A k \in DOMAIN q : SimNs(q)[k] = q[k].n
  BY <1>0, NsType
<1>3. SimPassed(q, at) = Kept(SimNs(q), at)
  BY DEF SimPassed, SimNs
<1>4. /\ DOMAIN Kept(SimNs(q), at) = 1 .. Cardinality(at)
      /\ \A k \in 1 .. Cardinality(at) :
           Nth(at, k) \in at /\ Kept(SimNs(q), at)[k] = SimNs(q)[Nth(at, k)]
  BY <1>2, KeptType
<1>5. \A j, k \in 1 .. Cardinality(at) : j < k => Nth(at, j) < Nth(at, k)
  BY <1>2, KeptOrder
<1>6. \A i, j \in at : i < j => q[i].n <= q[j].n
  BY <1>0 DEF SimQueueOrder
<1>7. PICK z : z = SimPassed(q, at)
  OBVIOUS
<1>8. PICK c : c = Cardinality(at)
  OBVIOUS
<1>9. /\ DOMAIN z = 1 .. c
      /\ \A k \in 1 .. c : Nth(at, k) \in at /\ z[k] = q[Nth(at, k)].n
      /\ \A j, k \in 1 .. c : j < k => Nth(at, j) < Nth(at, k)
  BY <1>0, <1>2, <1>3, <1>4, <1>5, <1>7, <1>8
<1>10. SimIncreasing(z)
  BY <1>6, <1>9 DEF SimIncreasing
<1> QED BY <1>1, <1>7, <1>10

\* What is due in the direction o is u and comes before what poll() leaves, r.
SimDueOK(q, D, o, u, r) ==
  /\ SimIncreasing(u) /\ SimAhead(u, r, o)
  /\ \A k \in DOMAIN u : \E i \in DOMAIN q : q[i].outbound = o /\ u[k] = q[i].n
  /\ SimQueueOrder(r, D)
  /\ \A k \in DOMAIN r : \E i \in DOMAIN q : r[k] = q[i]

\* poll() takes what is due from the front of each direction.
LEMMA DueOrder ==
  \A q \in Seq(QueuedPacket) : \A D, o, r :
    SimQueueOrder(q, D) /\ r = Kept(q, DOMAIN q \ SimIsDue(q))
      => SimDueOK(q, D, o, SimDue(q, o), r)
<1> SUFFICES ASSUME NEW q \in Seq(QueuedPacket), NEW D, NEW o, NEW r,
                    SimQueueOrder(q, D), r = Kept(q, DOMAIN q \ SimIsDue(q))
             PROVE  SimDueOK(q, D, o, SimDue(q, o), r)
  BY Zenon
<1> DEFINE at == DOMAIN q \ SimIsDue(q)
           due == SimDirection(q, o) \cap SimIsDue(q)
<1>1. due \subseteq SimDirection(q, o)
  OBVIOUS
<1>2. /\ SimIncreasing(SimDue(q, o))
      /\ \A k \in DOMAIN SimDue(q, o) : \E i \in due : SimDue(q, o)[k] = q[i].n
  <2> HIDE DEF due
  <2>1. SimDue(q, o) = SimPassed(q, due)
    BY DEF SimDue, due
  <2>2. /\ SimIncreasing(SimPassed(q, due))
        /\ \A k \in DOMAIN SimPassed(q, due) : \E i \in due : SimPassed(q, due)[k] = q[i].n
    BY <1>1, PassedOrder
  <2> QED BY <2>1, <2>2, Zenon
<1>3. \A i \in due : i \in DOMAIN q /\ q[i].outbound = o /\ q[i].left = 0
  BY DEF SimDirection, SimIsDue
<1>4. \A i \in at : i \in DOMAIN q /\ q[i].left # 0
  BY DEF SimIsDue
<1>a. at \subseteq DOMAIN q
  OBVIOUS
<1> HIDE DEF at, due
<1>5. PICK c : c = Cardinality(at)
  OBVIOUS
<1>6. /\ DOMAIN r = 1 .. c
      /\ \A k \in 1 .. c : Nth(at, k) \in at /\ r[k] = q[Nth(at, k)]
      /\ \A j, k \in 1 .. c : j < k => Nth(at, j) < Nth(at, k)
  <2>1. r = Kept(q, at)
    BY DEF at
  <2>2. /\ DOMAIN Kept(q, at) = 1 .. Cardinality(at)
        /\ \A k \in 1 .. Cardinality(at) :
             Nth(at, k) \in at /\ Kept(q, at)[k] = q[Nth(at, k)]
    BY <1>a, KeptType
  <2>3. \A j, k \in 1 .. Cardinality(at) : j < k => Nth(at, j) < Nth(at, k)
    BY <1>a, KeptOrder
  <2> QED BY <2>1, <2>2, <2>3, <1>5, Zenon
<1>7. SimQueueOrder(r, D)
  <2>1. ASSUME NEW k \in DOMAIN r PROVE r[k].left <= D
    <3>1. PICK i \in DOMAIN q : r[k] = q[i]
      BY <1>4, <1>6
    <3> QED BY <3>1 DEF SimQueueOrder
  <2>2. ASSUME NEW j \in DOMAIN r, NEW k \in DOMAIN r, j < k
        PROVE  /\ r[j].left <= r[k].left
               /\ r[j].outbound = r[k].outbound => r[j].n <= r[k].n
    <3>1. PICK i \in DOMAIN q, l \in DOMAIN q : r[j] = q[i] /\ r[k] = q[l] /\ i < l
      BY <2>2, <1>4, <1>6
    <3> QED BY <3>1 DEF SimQueueOrder
  <2> QED BY <2>1, <2>2 DEF SimQueueOrder
<1>8. \A i \in due, j \in at : q[j].outbound = o => q[i].n <= q[j].n
  <2>1. \A k \in DOMAIN q : k \in Nat /\ q[k].left \in Nat
    BY QueuedFields
  <2>2. \A i \in due, j \in at : ~ (j < i) /\ i # j
    <3>1. SUFFICES ASSUME NEW i \in due, NEW j \in at PROVE ~ (j < i) /\ i # j
      OBVIOUS
    <3>2. ASSUME j < i PROVE FALSE
      <4>1. q[j].left <= q[i].left
        BY <3>2, <1>3, <1>4 DEF SimQueueOrder
      <4> QED BY <4>1, <2>1, <1>3, <1>4
    <3> QED BY <3>2, <1>3, <1>4
  <2>3. \A i \in due, j \in at : i < j
    BY <2>1, <2>2, <1>3, <1>4
  <2> QED BY <2>3, <1>3, <1>4 DEF SimQueueOrder
<1>9. SimAhead(SimDue(q, o), r, o)
  <2>1. \A j \in DOMAIN SimDue(q, o) : \E i \in due : SimDue(q, o)[j] = q[i].n
    BY <1>2
  <2>2. \A k \in DOMAIN r : \E i \in at : r[k] = q[i]
    BY <1>6
  <2> QED BY <2>1, <2>2, <1>8 DEF SimAhead
<1>10. /\ \A k \in DOMAIN SimDue(q, o) :
            \E i \in DOMAIN q : q[i].outbound = o /\ SimDue(q, o)[k] = q[i].n
       /\ \A k \in DOMAIN r : \E i \in DOMAIN q : r[k] = q[i]
  BY <1>2, <1>3, <1>4, <1>6
<1> QED BY <1>2, <1>7, <1>9, <1>10, Zenon DEF SimDueOK
\* Two queues one behind the other are in order when each is and the first is before.
LEMMA ConcatOrder ==
  ASSUME NEW s \in Seq(SimNumber), NEW t \in Seq(SimNumber),
         SimIncreasing(s), SimIncreasing(t), SimBefore(s, t)
  PROVE  s \o t \in Seq(SimNumber) /\ SimIncreasing(s \o t)
<1>1. PICK w \in Seq(SimNumber) : w = s \o t
  <2>1. s \o t \in Seq(SimNumber)
    BY ConcatProperties
  <2> QED BY <2>1, Zenon
<1>2. /\ Len(s) \in Nat /\ Len(t) \in Nat /\ DOMAIN s = 1 .. Len(s) /\ DOMAIN t = 1 .. Len(t)
      /\ DOMAIN w = 1 .. Len(s) + Len(t)
      /\ \A k \in 1 .. Len(s) : w[k] = s[k]
      /\ \A k \in 1 .. Len(t) : w[Len(s) + k] = t[k]
  BY <1>1
<1>3. ASSUME NEW j \in DOMAIN w, NEW k \in DOMAIN w, j < k
      PROVE  w[j] <= w[k]
  <2>1. CASE k <= Len(s)
    <3>1. j \in DOMAIN s /\ k \in DOMAIN s /\ w[j] = s[j] /\ w[k] = s[k]
      BY <2>1, <1>2, <1>3
    <3> QED BY <3>1, <1>3 DEF SimIncreasing
  <2>2. CASE k > Len(s)
    <3>1. PICK l \in DOMAIN t : l = k - Len(s)
      BY <2>2, <1>2
    <3>2. k = Len(s) + l /\ w[k] = t[l]
      BY <2>2, <1>2, <3>1
    <3>3. CASE j <= Len(s)
      <4>1. j \in DOMAIN s /\ w[j] = s[j]
        BY <3>3, <1>2
      <4> QED BY <4>1, <3>2 DEF SimBefore
    <3>4. CASE j > Len(s)
      <4>1. PICK i \in DOMAIN t : i = j - Len(s)
        BY <3>4, <1>2
      <4>2. w[j] = t[i] /\ i < l
        BY <4>1, <3>1, <3>2, <3>4, <1>2, <1>3
      <4> QED BY <4>2, <3>2 DEF SimIncreasing
    <3> QED BY <3>3, <3>4, <1>2
  <2> QED BY <2>1, <2>2, <1>2
<1> QED BY <1>1, <1>3 DEF SimIncreasing

\* The members of two queues one behind the other.
LEMMA ConcatMembers ==
  ASSUME NEW s \in Seq(SimNumber), NEW t \in Seq(SimNumber), NEW k \in DOMAIN (s \o t)
  PROVE  (\E j \in DOMAIN s : (s \o t)[k] = s[j]) \/ (\E j \in DOMAIN t : (s \o t)[k] = t[j])
<1>1. PICK w \in Seq(SimNumber) : w = s \o t
  <2>1. s \o t \in Seq(SimNumber)
    BY ConcatProperties
  <2> QED BY <2>1, Zenon
<1>2. /\ Len(s) \in Nat /\ Len(t) \in Nat /\ DOMAIN s = 1 .. Len(s) /\ DOMAIN t = 1 .. Len(t)
      /\ k \in 1 .. Len(s) + Len(t)
      /\ \A i \in 1 .. Len(s) : w[i] = s[i]
      /\ \A i \in 1 .. Len(t) : w[Len(s) + i] = t[i]
  BY <1>1
<1>3. CASE k <= Len(s)
  BY <1>1, <1>2, <1>3
<1>4. CASE k > Len(s)
  <2>1. PICK l \in DOMAIN t : l = k - Len(s)
    BY <1>4, <1>2
  <2>2. w[k] = t[l]
    BY <1>2, <1>4, <2>1
  <2> QED BY <1>1, <2>2
<1> QED BY <1>2, <1>3, <1>4

\* A direction of an ordered queue is in order.
LEMMA SideOrder ==
  ASSUME NEW q \in Seq(QueuedPacket), NEW D, SimQueueOrder(q, D), NEW o
  PROVE  /\ SimSide(q, o) \in Seq(SimNumber) /\ SimIncreasing(SimSide(q, o))
         /\ \A k \in DOMAIN SimSide(q, o) :
              \E i \in DOMAIN q : q[i].outbound = o /\ SimSide(q, o)[k] = q[i].n
<1>1. PICK at : at = SimDirection(q, o)
  OBVIOUS
<1>2. at \subseteq SimDirection(q, o) /\ SimSide(q, o) = SimPassed(q, at)
  BY <1>1 DEF SimSide
<1>3. SimIncreasing(SimPassed(q, at))
  BY <1>2, PassedOrder
<1>4. /\ SimSide(q, o) \in Seq(SimNumber)
      /\ \A k \in DOMAIN SimSide(q, o) :
           \E i \in DOMAIN q : q[i].outbound = o /\ SimSide(q, o)[k] = q[i].n
  BY SideType
<1> QED BY <1>2, <1>3, <1>4

\* The order invariant is what was promised.
LEMMA SimOrders ==
  ASSUME SimInv, NEW D, SimOrderInv(D) PROVE SimInOrder
<1>0. SimulatorTypeOK
  BY DEF SimInv
<1>1. PICK w \in Seq(SimNumber), g \in Seq(SimNumber), r \in Seq(SimNumber), b \in Seq(SimNumber) :
        w = sim_wire /\ g = sim_got /\ r = sim_ready /\ b = sim_inbox
  BY <1>0 DEF SimulatorTypeOK
<1>2. PICK d \in Seq(QueuedPacket) : d = sim_delay
  BY <1>0 DEF SimulatorTypeOK
<1>3. SimQueueOrder(d, D) /\ SimOutOrder(w, d) /\ SimInOrders(g, r, d, b)
  BY <1>1, <1>2 DEF SimOrderInv
<1>4. PICK t, f : t = TRUE /\ f = FALSE
  OBVIOUS
<1>5. PICK x \in Seq(SimNumber) : x = SimSide(d, t)
  <2>1. SimSide(d, t) \in Seq(SimNumber)
    BY SideType
  <2> QED BY <2>1, Zenon
<1>6. PICK y \in Seq(SimNumber) : y = SimSide(d, f)
  <2>1. SimSide(d, f) \in Seq(SimNumber)
    BY SideType
  <2> QED BY <2>1, Zenon
<1>7. /\ SimIncreasing(x)
      /\ \A k \in DOMAIN x : \E i \in DOMAIN d : d[i].outbound = t /\ x[k] = d[i].n
  <2>1. /\ SimIncreasing(SimSide(d, t))
        /\ \A k \in DOMAIN SimSide(d, t) :
             \E i \in DOMAIN d : d[i].outbound = t /\ SimSide(d, t)[k] = d[i].n
    BY <1>3, SideOrder
  <2> QED BY <2>1, <1>5, Zenon
<1>8. /\ SimIncreasing(y)
      /\ \A k \in DOMAIN y : \E i \in DOMAIN d : d[i].outbound = f /\ y[k] = d[i].n
  <2>1. /\ SimIncreasing(SimSide(d, f))
        /\ \A k \in DOMAIN SimSide(d, f) :
             \E i \in DOMAIN d : d[i].outbound = f /\ SimSide(d, f)[k] = d[i].n
    BY <1>3, SideOrder
  <2> QED BY <2>1, <1>6, Zenon
<1>9. SimIncreasing(w \o x)
  <2>1. SimIncreasing(w) /\ SimAhead(w, d, t)
    BY <1>3, <1>4, Zenon DEF SimOutOrder
  <2>2. SimBefore(w, x)
    BY <1>7, <2>1 DEF SimAhead, SimBefore
  <2> QED BY <1>7, <2>1, <2>2, ConcatOrder
<1>10. /\ SimIncreasing(g) /\ SimBefore(g, r) /\ SimAhead(g, d, f) /\ SimBefore(g, b)
       /\ SimIncreasing(r) /\ SimAhead(r, d, f) /\ SimBefore(r, b) /\ SimBehind(d, f, b)
  BY <1>3, <1>4, Zenon DEF SimInOrders
<1>11. SimIncreasing(b)
  <2>1. \A j, k \in DOMAIN b : j < k => b[j] < b[k]
    BY <1>1 DEF SimInv, SimInboxOK
  <2>2. \A k \in DOMAIN b : b[k] \in Nat
    <3>1. \A k \in DOMAIN b : b[k] \in SimNumber
      OBVIOUS
    <3> QED BY <3>1 DEF SimNumber
  <2> QED BY <2>1, <2>2 DEF SimIncreasing
<1>12. SimBefore(g, y) /\ SimBefore(r, y) /\ SimBefore(y, b)
  BY <1>8, <1>10 DEF SimAhead, SimBefore, SimBehind
<1>13. PICK h \in Seq(SimNumber) : h = g \o r
  <2>1. g \o r \in Seq(SimNumber)
    BY ConcatProperties
  <2> QED BY <2>1, Zenon
<1>14. SimIncreasing(h) /\ \A k \in DOMAIN h : \/ \E j \in DOMAIN g : h[k] = g[j]
                                               \/ \E j \in DOMAIN r : h[k] = r[j]
  <2>1. SimIncreasing(g \o r)
    BY <1>10, ConcatOrder
  <2>2. \A k \in DOMAIN (g \o r) : \/ \E j \in DOMAIN g : (g \o r)[k] = g[j]
                                   \/ \E j \in DOMAIN r : (g \o r)[k] = r[j]
    BY ConcatMembers
  <2> QED BY <2>1, <2>2, <1>13, Zenon
<1>15. PICK i \in Seq(SimNumber) : i = h \o y
  <2>1. h \o y \in Seq(SimNumber)
    BY ConcatProperties
  <2> QED BY <2>1, Zenon
<1>16. SimBefore(h, y) /\ SimBefore(h, b)
  BY <1>10, <1>12, <1>14 DEF SimBefore
<1>17. SimIncreasing(i) /\ \A k \in DOMAIN i : \/ \E j \in DOMAIN h : i[k] = h[j]
                                               \/ \E j \in DOMAIN y : i[k] = y[j]
  BY <1>8, <1>14, <1>15, <1>16, ConcatOrder, ConcatMembers
<1>18. SimBefore(i, b)
  BY <1>12, <1>16, <1>17 DEF SimBefore
<1>19. SimIncreasing(i \o b)
  BY <1>11, <1>17, <1>18, ConcatOrder
<1>20. SimOutbound = w \o x /\ SimInbound = i \o b
  BY <1>1, <1>2, <1>4, <1>5, <1>6, <1>13, <1>15, Zenon DEF SimOutbound, SimInbound, SimSide
<1> QED BY <1>9, <1>19, <1>20, Zenon DEF SimInOrder

\* No packet has a number that was not given out yet.
LEMMA SimBelow ==
  ASSUME SimInv
  PROVE  /\ \A k \in DOMAIN sim_wire : sim_wire[k] <= sim_sent
         /\ \A k \in DOMAIN sim_got : sim_got[k] <= sim_arrived
         /\ \A k \in DOMAIN sim_ready : sim_ready[k] <= sim_arrived
         /\ \A k \in DOMAIN sim_delay :
              /\ sim_delay[k].outbound = TRUE => sim_delay[k].n <= sim_sent
              /\ sim_delay[k].outbound = FALSE => sim_delay[k].n <= sim_arrived
<1>0. SimulatorTypeOK
  BY DEF SimInv
<1>1. PICK w \in Seq(SimNumber), g \in Seq(SimNumber), r \in Seq(SimNumber) :
        w = sim_wire /\ g = sim_got /\ r = sim_ready
  BY <1>0 DEF SimulatorTypeOK
<1>2. PICK d \in Seq(QueuedPacket) : d = sim_delay
  BY <1>0 DEF SimulatorTypeOK
<1>3. ASSUME NEW n \in SimNumber, ~ (n <= sim_sent)
      PROVE  n \notin ToSet(w) /\ n \notin SimNumbers(d, TRUE)
  <2>1. PICK x \in Nat, y \in Nat : x = Copies(w, n) /\ y = SimOutCopies(d, n)
    BY MemberCopies, DirectionCopies
  <2>2. SimFate(x + y, n <= sim_sent, sim_dropped.out, n)
    BY <1>1, <1>2, <2>1 DEF SimInv, SimOutFates, SimOutFate
  <2>3. x = 0 /\ y = 0
    BY <1>3, <2>2 DEF SimFate
  <2> QED BY <2>1, <2>3, MemberCopies, DirectionCopies
<1>4. ASSUME NEW n \in SimNumber, ~ (n <= sim_arrived)
      PROVE  n \notin ToSet(g) /\ n \notin ToSet(r) /\ n \notin SimNumbers(d, FALSE)
  <2>1. PICK x \in Nat, y \in Nat : x = Copies(g, n) /\ y = Copies(r, n)
    BY MemberCopies
  <2>2. PICK z \in Nat : z = SimInCopies(d, n)
    BY DirectionCopies
  <2>3. SimFate(x + y + z, n <= sim_arrived /\ n \notin ToSet(sim_inbox), sim_dropped.in, n)
    BY <1>1, <1>2, <2>1, <2>2 DEF SimInv, SimInFates, SimInFate
  <2>4. x = 0 /\ y = 0 /\ z = 0
    BY <1>4, <2>3 DEF SimFate
  <2> QED BY <2>1, <2>2, <2>4, MemberCopies, DirectionCopies
<1>5. /\ \A k \in DOMAIN w : w[k] \in SimNumber /\ w[k] \in ToSet(w)
      /\ \A k \in DOMAIN g : g[k] \in SimNumber /\ g[k] \in ToSet(g)
      /\ \A k \in DOMAIN r : r[k] \in SimNumber /\ r[k] \in ToSet(r)
  BY DEF ToSet
<1>6. /\ \A k \in DOMAIN d : d[k].n \in SimNumber
      /\ \A k \in DOMAIN d : d[k].outbound = TRUE => d[k].n \in SimNumbers(d, TRUE)
      /\ \A k \in DOMAIN d : d[k].outbound = FALSE => d[k].n \in SimNumbers(d, FALSE)
  <2>1. \A k \in DOMAIN d : d[k].n \in SimNumber
    BY QueuedFields
  <2>2. \A k \in DOMAIN d : d[k].outbound = TRUE => d[k].n \in SimNumbers(d, TRUE)
    BY DEF SimNumbers, SimDirection
  <2>3. \A k \in DOMAIN d : d[k].outbound = FALSE => d[k].n \in SimNumbers(d, FALSE)
    BY DEF SimNumbers, SimDirection
  <2> QED BY <2>1, <2>2, <2>3
<1> QED BY <1>1, <1>2, <1>3, <1>4, <1>5, <1>6, Zenon

\* connect() and the settings leave the order alone.
LEMMA OrderConnectStep ==
  ASSUME NEW D, SimOrderInv(D), \/ sim_connect
                                \/ sim_set
                                \/ UNCHANGED sim_vars
  PROVE  SimOrderInv(D)'
<1>0. UNCHANGED <<sim_inbox, sim_delay, sim_ready, sim_wire, sim_got>>
  BY DEF sim_connect, sim_set, sim_vars
<1> QED BY <1>0 DEF SimOrderInv

\* disconnect() leaves what was passed on.
LEMMA OrderDisconnectStep ==
  ASSUME NEW D, SimOrderInv(D), sim_disconnect PROVE SimOrderInv(D)'
<1>1. sim_inbox' = << >> /\ sim_delay' = << >> /\ sim_ready' = << >>
  BY DEF sim_disconnect
<1>2. sim_wire' = sim_wire /\ sim_got' = sim_got
  BY DEF sim_disconnect
<1>3. SimIncreasing(sim_wire) /\ SimIncreasing(sim_got)
  BY DEF SimOrderInv, SimOutOrder, SimInOrders
<1>4. SimQueueOrder(<< >>, D) /\ SimIncreasing(<< >>)
  BY DEF SimQueueOrder, SimIncreasing
<1>5. \A s : /\ SimBefore(s, << >>) /\ SimBefore(<< >>, s) /\ SimAhead(s, << >>, TRUE)
             /\ SimAhead(s, << >>, FALSE) /\ SimAhead(<< >>, s, FALSE)
             /\ SimBehind(<< >>, FALSE, s)
  BY DEF SimBefore, SimAhead, SimBehind
<1> QED BY <1>1, <1>2, <1>3, <1>4, <1>5 DEF SimOrderInv, SimOutOrder, SimInOrders

\* The clock takes from all delays alike.
LEMMA OrderTickStep ==
  ASSUME SimulatorTypeOK, NEW D \in Nat, SimOrderInv(D), sim_tick PROVE SimOrderInv(D)'
<1>1. PICK d \in Seq(QueuedPacket) : d = sim_delay
  BY DEF SimulatorTypeOK
<1>2. PICK e \in Seq(QueuedPacket) : e = sim_delay'
  BY TickFields
<1>3. /\ DOMAIN e = DOMAIN d
      /\ \A k \in DOMAIN d : /\ e[k].n = d[k].n /\ e[k].outbound = d[k].outbound
                             /\ e[k].left = IF d[k].left = 0 THEN 0 ELSE d[k].left - 1
  BY <1>1, <1>2, TickFields
<1>4. SimQueueOrder(d, D)
  BY <1>1 DEF SimOrderInv
<1>5. \A k \in DOMAIN d : d[k].left \in Nat
  BY QueuedFields
<1>6. SimQueueOrder(e, D)
  <2>1. \A k \in DOMAIN e : e[k].left <= D
    BY <1>3, <1>4, <1>5 DEF SimQueueOrder
  <2>2. ASSUME NEW j \in DOMAIN e, NEW k \in DOMAIN e, j < k
        PROVE  /\ e[j].left <= e[k].left
               /\ e[j].outbound = e[k].outbound => e[j].n <= e[k].n
    <3>1. /\ d[j].left <= d[k].left /\ d[j].left \in Nat /\ d[k].left \in Nat
          /\ d[j].outbound = d[k].outbound => d[j].n <= d[k].n
      BY <2>2, <1>3, <1>4, <1>5 DEF SimQueueOrder
    <3> QED BY <3>1, <1>3
  <2> QED BY <2>1, <2>2 DEF SimQueueOrder
<1>7. UNCHANGED <<sim_inbox, sim_ready, sim_wire, sim_got>>
  BY DEF sim_tick
<1>8. /\ \A s : SimAhead(s, d, TRUE) => SimAhead(s, e, TRUE)
      /\ \A s : SimAhead(s, d, FALSE) => SimAhead(s, e, FALSE)
      /\ \A s : SimBehind(d, FALSE, s) => SimBehind(e, FALSE, s)
  <2>1. PICK t, f : t = TRUE /\ f = FALSE
    OBVIOUS
  <2>2. /\ \A s, o : SimAhead(s, d, o) => SimAhead(s, e, o)
        /\ \A s, o : SimBehind(d, o, s) => SimBehind(e, o, s)
    BY <1>3 DEF SimAhead, SimBehind
  <2> QED BY <2>2, Zenon
<1> QED BY <1>1, <1>2, <1>6, <1>7, <1>8, Zenon DEF SimOrderInv, SimOutOrder, SimInOrders

\* pop_receive() moves the first of what is ready behind what was popped.
LEMMA OrderPopStep ==
  ASSUME SimulatorTypeOK, NEW D, SimOrderInv(D), sim_pop_receive PROVE SimOrderInv(D)'
<1>1. PICK g \in Seq(SimNumber), r \in Seq(SimNumber) : g = sim_got /\ r = sim_ready
  BY DEF SimulatorTypeOK
<1>2. r # << >> /\ sim_ready' = Tail(r) /\ sim_got' = Append(g, Head(r))
  BY <1>1 DEF sim_pop_receive
<1>3. PICK u \in Seq(SimNumber) : u = Append(g, Head(r))
  BY <1>2, PopCopies
<1>4. PICK t \in Seq(SimNumber) : t = Tail(r)
  BY <1>2, PopCopies
<1>5. /\ Len(g) \in Nat /\ Len(r) \in Nat /\ 1 \in DOMAIN r /\ DOMAIN u = 1 .. Len(g) + 1
      /\ DOMAIN g = 1 .. Len(g) /\ DOMAIN r = 1 .. Len(r) /\ u[Len(g) + 1] = r[1]
      /\ \A k \in DOMAIN g : u[k] = g[k]
      /\ DOMAIN t = 1 .. Len(r) - 1 /\ \A k \in DOMAIN t : t[k] = r[k + 1]
  BY <1>2, <1>3, <1>4
<1>6. \A k \in DOMAIN u : (k \in DOMAIN g /\ u[k] = g[k]) \/ (k = Len(g) + 1 /\ u[k] = r[1])
  BY <1>5
<1>7. \A k \in DOMAIN t : k + 1 \in DOMAIN r /\ 1 < k + 1 /\ t[k] = r[k + 1]
  BY <1>5
<1>8. /\ SimIncreasing(g) /\ SimBefore(g, r) /\ SimIncreasing(r)
      /\ SimAhead(g, sim_delay, FALSE) /\ SimAhead(r, sim_delay, FALSE)
      /\ SimBefore(g, sim_inbox) /\ SimBefore(r, sim_inbox)
  BY <1>1 DEF SimOrderInv, SimInOrders
<1>9. SimIncreasing(u)
  <2>1. ASSUME NEW j \in DOMAIN u, NEW k \in DOMAIN u, j < k PROVE u[j] <= u[k]
    <3>1. j \in DOMAIN g /\ u[j] = g[j]
      BY <2>1, <1>5
    <3>2. CASE k \in DOMAIN g /\ u[k] = g[k]
      BY <2>1, <3>1, <3>2, <1>8 DEF SimIncreasing
    <3>3. CASE u[k] = r[1]
      BY <3>1, <3>3, <1>5, <1>8 DEF SimBefore
    <3> QED BY <3>2, <3>3, <1>6
  <2> QED BY <2>1 DEF SimIncreasing
<1>10. SimIncreasing(t)
  <2>1. \A j, k \in DOMAIN t : j < k => j + 1 < k + 1
    BY <1>5
  <2> QED BY <2>1, <1>7, <1>8 DEF SimIncreasing
<1>11. SimBefore(u, t)
  <2>1. \A k \in DOMAIN t : r[1] <= t[k]
    BY <1>5, <1>7, <1>8 DEF SimIncreasing
  <2>2. \A j \in DOMAIN g, k \in DOMAIN t : g[j] <= t[k]
    BY <1>7, <1>8 DEF SimBefore
  <2> QED BY <2>1, <2>2, <1>6 DEF SimBefore
<1>12. SimBefore(u, sim_inbox) /\ SimBefore(t, sim_inbox)
  BY <1>5, <1>6, <1>7, <1>8 DEF SimBefore
<1>13. SimAhead(u, sim_delay, FALSE) /\ SimAhead(t, sim_delay, FALSE)
  BY <1>5, <1>6, <1>7, <1>8 DEF SimAhead
<1>14. UNCHANGED <<sim_delay, sim_inbox, sim_wire>>
  BY DEF sim_pop_receive
<1> QED BY <1>2, <1>3, <1>4, <1>9, <1>10, <1>11, <1>12, <1>13, <1>14, Zenon
        DEF SimOrderInv, SimOutOrder, SimInOrders

\* What arrives is later than everything before.
LEMMA OrderArriveStep ==
  ASSUME SimInv, NEW D, SimOrderInv(D), sim_arrive PROVE SimOrderInv(D)'
<1>0. SimulatorTypeOK
  BY DEF SimInv
<1>1. PICK b \in Seq(SimNumber) : b = sim_inbox
  BY <1>0 DEF SimulatorTypeOK
<1>2. PICK a \in Nat : a = sim_arrived
  BY <1>0 DEF SimulatorTypeOK
<1>3. PICK c : c = Append(b, a + 1)
  OBVIOUS
<1>4. sim_inbox' = c /\ UNCHANGED <<sim_delay, sim_ready, sim_wire, sim_got>>
  BY <1>1, <1>2, <1>3 DEF sim_arrive
<1>5. \A k \in DOMAIN c : (k \in DOMAIN b /\ c[k] = b[k]) \/ c[k] = a + 1
  BY <1>3
<1>6. PICK g \in Seq(SimNumber), r \in Seq(SimNumber) : g = sim_got /\ r = sim_ready
  BY <1>0 DEF SimulatorTypeOK
<1>7. PICK d \in Seq(QueuedPacket) : d = sim_delay
  BY <1>0 DEF SimulatorTypeOK
<1>8. /\ \A k \in DOMAIN g : g[k] <= a + 1
      /\ \A k \in DOMAIN r : r[k] <= a + 1
      /\ \A k \in DOMAIN d : d[k].outbound = FALSE => d[k].n <= a + 1
  <2>1. /\ \A k \in DOMAIN g : g[k] <= a
        /\ \A k \in DOMAIN r : r[k] <= a
        /\ \A k \in DOMAIN d : d[k].outbound = FALSE => d[k].n <= a
    BY <1>2, <1>6, <1>7, SimBelow
  <2>2. /\ \A k \in DOMAIN g : g[k] \in SimNumber
        /\ \A k \in DOMAIN r : r[k] \in SimNumber
        /\ \A k \in DOMAIN d : d[k].n \in SimNumber
    BY QueuedFields
  <2>3. \A n \in SimNumber : n <= a => n <= a + 1
    BY DEF SimNumber
  <2> QED BY <2>1, <2>2, <2>3, Zenon
<1>9. SimBefore(g, b) /\ SimBefore(r, b) /\ SimBehind(d, FALSE, b)
  BY <1>1, <1>6, <1>7 DEF SimOrderInv, SimInOrders
<1>10. SimBefore(g, c) /\ SimBefore(r, c) /\ SimBehind(d, FALSE, c)
  BY <1>5, <1>8, <1>9 DEF SimBefore, SimBehind
<1> QED BY <1>4, <1>6, <1>7, <1>10, Zenon DEF SimOrderInv, SimOutOrder, SimInOrders

\* A queue with later packets behind it, which have the longest time to wait.
LEMMA QueueOrderConcat ==
  ASSUME NEW d \in Seq(QueuedPacket), NEW q \in Seq(QueuedPacket), NEW D \in Nat,
         SimQueueOrder(d, D), \A k \in DOMAIN q : q[k].left = D,
         \A j, k \in DOMAIN q : j < k => q[j].n <= q[k].n,
         \A j \in DOMAIN d, k \in DOMAIN q : d[j].outbound = q[k].outbound => d[j].n <= q[k].n
  PROVE  /\ SimQueueOrder(d \o q, D)
         /\ \A k \in DOMAIN (d \o q) : \/ \E j \in DOMAIN d : (d \o q)[k] = d[j]
                                       \/ \E j \in DOMAIN q : (d \o q)[k] = q[j]
<1>1. PICK w \in Seq(QueuedPacket) : w = d \o q
  BY ConcatFields
<1>2. /\ Len(d) \in Nat /\ Len(q) \in Nat /\ DOMAIN d = 1 .. Len(d) /\ DOMAIN q = 1 .. Len(q)
      /\ \A k \in 1 .. Len(d) : w[k] = d[k]
      /\ \A k \in 1 .. Len(q) : w[Len(d) + k] = q[k]
      /\ \A i \in DOMAIN w : i \in 1 .. Len(d) \/ \E k \in 1 .. Len(q) : i = Len(d) + k
  BY <1>1, ConcatFields
<1>3. \A k \in DOMAIN w : \/ k \in DOMAIN d /\ w[k] = d[k]
                          \/ \E j \in DOMAIN q : k = Len(d) + j /\ w[k] = q[j]
  BY <1>2
<1>4. \A k \in DOMAIN w : w[k].left <= D
  BY <1>3 DEF SimQueueOrder
<1>5. ASSUME NEW j \in DOMAIN w, NEW k \in DOMAIN w, j < k
      PROVE  /\ w[j].left <= w[k].left
             /\ w[j].outbound = w[k].outbound => w[j].n <= w[k].n
  <2>1. CASE k \in DOMAIN d /\ w[k] = d[k]
    <3>1. j \in DOMAIN d /\ w[j] = d[j]
      BY <2>1, <1>2, <1>3, <1>5
    <3> QED BY <2>1, <3>1, <1>5 DEF SimQueueOrder
  <2>2. ASSUME NEW l \in DOMAIN q, k = Len(d) + l /\ w[k] = q[l]
        PROVE  /\ w[j].left <= w[k].left
               /\ w[j].outbound = w[k].outbound => w[j].n <= w[k].n
    <3>1. w[k].left = D
      BY <2>2
    <3>2. w[j].left <= D
      BY <1>4
    <3>3. CASE j \in DOMAIN d /\ w[j] = d[j]
      BY <2>2, <3>1, <3>2, <3>3
    <3>4. ASSUME NEW i \in DOMAIN q, j = Len(d) + i /\ w[j] = q[i]
          PROVE  w[j].n <= w[k].n
      <4>1. i < l
        BY <1>2, <1>5, <2>2, <3>4
      <4> QED BY <2>2, <3>4, <4>1
    <3> QED BY <3>1, <3>2, <3>3, <3>4, <1>3
  <2> QED BY <2>1, <2>2, <1>3
<1>6. SimQueueOrder(w, D)
  BY <1>4, <1>5 DEF SimQueueOrder
<1>7. \A k \in DOMAIN w : (\E j \in DOMAIN d : w[k] = d[j]) \/ \E j \in DOMAIN q : w[k] = q[j]
  BY <1>3
<1> QED BY <1>1, <1>6, <1>7, Zenon

\* What is sent goes behind everything before, and waits longest.
LEMMA OrderSendStep ==
  ASSUME SimInv, NEW D \in Nat, SimDelayIs(D), SimOrderInv(D), sim_send
  PROVE  SimOrderInv(D)'
<1>0. SimulatorTypeOK /\ sim_sent \in Nat /\ sim_sent + 1 \in SimNumber
  BY SimAssumption, SMTT(30) DEF SimInv, SimulatorTypeOK, sim_send, SimNumber
<1>1. PICK q \in SimQueued(sim_sent + 1, TRUE) : sim_delay' = sim_delay \o q
  BY DEF sim_send
<1>2. PICK d \in Seq(QueuedPacket) : d = sim_delay
  BY <1>0 DEF SimulatorTypeOK
<1>3. PICK m \in SimNumber : m = sim_sent + 1
  BY <1>0
<1>a. sim_setting \in SimSettings
  BY <1>0 DEF SimulatorTypeOK
<1>4. q \in Seq(QueuedPacket) /\ SimOnly(q, m, TRUE, sim_setting)
  <2>1. q \in SimQueued(m, TRUE)
    BY <1>3
  <2> QED BY <1>a, <2>1, QueuedWays
<1>5. \A k \in DOMAIN q : q[k].n = m /\ q[k].outbound = TRUE /\ q[k].left = D
  <2>1. sim_setting.delays = {D} /\ sim_setting.jitter = 0
    BY <1>a DEF SimDelayIs
  <2>2. \A l : SimLate(sim_setting, l) => l = D
    BY <2>1 DEF SimLate
  <2> QED BY <1>4, <2>2 DEF SimOnly
<1>6. m \in Nat /\ \A n \in SimNumber : n <= sim_sent => n <= m
  BY <1>0, <1>3 DEF SimNumber
<1>7. /\ \A k \in DOMAIN d : d[k].outbound = TRUE => d[k].n <= m
      /\ \A k \in DOMAIN sim_wire : sim_wire[k] <= m
  <2>1. /\ \A k \in DOMAIN d : d[k].outbound = TRUE => d[k].n <= sim_sent
        /\ \A k \in DOMAIN sim_wire : sim_wire[k] <= sim_sent
    BY <1>2, SimBelow
  <2>2. /\ \A k \in DOMAIN d : d[k].n \in SimNumber
        /\ \A k \in DOMAIN sim_wire : sim_wire[k] \in SimNumber
    BY <1>0, QueuedFields DEF SimulatorTypeOK
  <2> QED BY <2>1, <2>2, <1>6, Zenon
<1>8. SimQueueOrder(d, D)
  BY <1>2 DEF SimOrderInv
<1>9. PICK w : w = d \o q
  OBVIOUS
<1>10. /\ SimQueueOrder(w, D)
       /\ \A k \in DOMAIN w : \/ \E j \in DOMAIN d : w[k] = d[j]
                              \/ \E j \in DOMAIN q : w[k] = q[j]
  <2>1. /\ \A k \in DOMAIN q : q[k].left = D
        /\ \A j, k \in DOMAIN q : j < k => q[j].n <= q[k].n
        /\ \A j \in DOMAIN d, k \in DOMAIN q :
             d[j].outbound = q[k].outbound => d[j].n <= q[k].n
    BY <1>5, <1>6, <1>7
  <2>2. /\ SimQueueOrder(d \o q, D)
        /\ \A k \in DOMAIN (d \o q) : \/ \E j \in DOMAIN d : (d \o q)[k] = d[j]
                                      \/ \E j \in DOMAIN q : (d \o q)[k] = q[j]
    BY <1>4, <1>8, <2>1, QueueOrderConcat
  <2> QED BY <2>2, <1>9, Zenon
<1>11. SimAhead(sim_wire, w, TRUE)
  <2>1. SimAhead(sim_wire, d, TRUE)
    BY <1>2 DEF SimOrderInv, SimOutOrder
  <2> QED BY <2>1, <1>5, <1>7, <1>10 DEF SimAhead
<1>12. /\ \A s : SimAhead(s, d, FALSE) => SimAhead(s, w, FALSE)
       /\ \A s : SimBehind(d, FALSE, s) => SimBehind(w, FALSE, s)
  BY <1>5, <1>10 DEF SimAhead, SimBehind
<1>13. UNCHANGED <<sim_inbox, sim_ready, sim_wire, sim_got>> /\ sim_delay' = w
  BY <1>1, <1>2, <1>9 DEF sim_send
<1> QED BY <1>2, <1>10, <1>11, <1>12, <1>13, Zenon DEF SimOrderInv, SimOutOrder, SimInOrders

\* poll() passes on the front of each direction.
LEMMA OrderPollStep ==
  ASSUME SimInv, NEW D \in Nat, SimDelayIs(D), SimOrderInv(D), sim_poll
  PROVE  SimOrderInv(D)'
<1>0. SimulatorTypeOK /\ SimInboxOK(sim_inbox, sim_arrived)
  BY DEF SimInv
<1>1. PICK w \in SimReceived : SimPolled(w)
  BY PollIs
<1>2. SimTook(w, Len(sim_inbox), sim_inbox, sim_setting)
  BY <1>0, ReceivedTook
<1>3. PICK b \in Seq(SimNumber), x \in Seq(SimNumber), g \in Seq(SimNumber), y \in Seq(SimNumber) :
        b = sim_inbox /\ x = sim_wire /\ g = sim_got /\ y = sim_ready
  BY <1>0 DEF SimulatorTypeOK
<1>4. PICK d \in Seq(QueuedPacket) : d = sim_delay
  BY <1>0 DEF SimulatorTypeOK
<1>5. /\ w \in Seq(QueuedPacket)
      /\ \A i \in DOMAIN w : /\ w[i].outbound = FALSE /\ w[i].left = D
                             /\ \E j \in DOMAIN b : w[i].n = b[j]
      /\ \A i, j \in DOMAIN w : i < j => w[i].n <= w[j].n
  <2>1. DOMAIN b = 1 .. Len(b) /\ sim_setting \in SimSettings
    BY <1>0 DEF SimulatorTypeOK
  <2>2. sim_setting.delays = {D} /\ sim_setting.jitter = 0
    BY <2>1 DEF SimDelayIs
  <2>3. \A l : SimLate(sim_setting, l) => l = D
    BY <2>2 DEF SimLate
  <2> QED BY <1>2, <1>3, <2>1, <2>3 DEF SimTook
<1>6. PICK t, f : t = TRUE /\ f = FALSE
  OBVIOUS
<1>7. /\ SimQueueOrder(d, D) /\ SimIncreasing(x) /\ SimAhead(x, d, t)
      /\ SimIncreasing(g) /\ SimBefore(g, y) /\ SimAhead(g, d, f) /\ SimBefore(g, b)
      /\ SimIncreasing(y) /\ SimAhead(y, d, f) /\ SimBefore(y, b) /\ SimBehind(d, f, b)
  BY <1>3, <1>4, <1>6, Zenon DEF SimOrderInv, SimOutOrder, SimInOrders
<1>8. PICK q \in Seq(QueuedPacket) : q = d \o w
  <2>1. d \o w \in Seq(QueuedPacket)
    BY <1>5, ConcatFields
  <2> QED BY <2>1, Zenon
<1>9. /\ SimQueueOrder(q, D)
      /\ \A k \in DOMAIN q : \/ \E j \in DOMAIN d : q[k] = d[j]
                             \/ \E j \in DOMAIN w : q[k] = w[j]
  <2>1. /\ \A k \in DOMAIN w : w[k].left = D
        /\ \A j, k \in DOMAIN w : j < k => w[j].n <= w[k].n
        /\ \A j \in DOMAIN d, k \in DOMAIN w :
             d[j].outbound = w[k].outbound => d[j].n <= w[k].n
    BY <1>5, <1>6, <1>7 DEF SimBehind
  <2>2. /\ SimQueueOrder(d \o w, D)
        /\ \A k \in DOMAIN (d \o w) : \/ \E j \in DOMAIN d : (d \o w)[k] = d[j]
                                      \/ \E j \in DOMAIN w : (d \o w)[k] = w[j]
    BY <1>5, <1>7, <2>1, QueueOrderConcat
  <2> QED BY <2>2, <1>8, Zenon
<1>10. SimAhead(x, q, t) /\ SimAhead(g, q, f) /\ SimAhead(y, q, f)
  <2>1. \A i \in DOMAIN w : /\ w[i].outbound # t
                            /\ \A j \in DOMAIN g : g[j] <= w[i].n
                            /\ \A j \in DOMAIN y : y[j] <= w[i].n
    BY <1>5, <1>6, <1>7 DEF SimBefore
  <2>2. SimAhead(x, q, t)
    BY <1>7, <1>9, <2>1 DEF SimAhead
  <2>3. SimAhead(g, q, f)
    BY <1>7, <1>9, <2>1 DEF SimAhead
  <2>4. SimAhead(y, q, f)
    BY <1>7, <1>9, <2>1 DEF SimAhead
  <2> QED BY <2>2, <2>3, <2>4
<1>11. PICK r : r = Kept(q, DOMAIN q \ SimIsDue(q))
  OBVIOUS
<1>12. PICK u \in Seq(SimNumber) : u = SimDue(q, t)
  <2>1. SimDue(q, t) \in Seq(SimNumber)
    BY SideType
  <2> QED BY <2>1, Zenon
<1>13. PICK v \in Seq(SimNumber) : v = SimDue(q, f)
  <2>1. SimDue(q, f) \in Seq(SimNumber)
    BY SideType
  <2> QED BY <2>1, Zenon
<1>14. /\ SimIncreasing(u) /\ SimAhead(u, r, t)
       /\ \A k \in DOMAIN u : \E i \in DOMAIN q : q[i].outbound = t /\ u[k] = q[i].n
  <2>1. SimDueOK(q, D, t, u, r)
    BY <1>9, <1>11, <1>12, DueOrder, Zenon
  <2> QED BY <2>1, Zenon DEF SimDueOK
<1>15. /\ SimIncreasing(v) /\ SimAhead(v, r, f)
       /\ \A k \in DOMAIN v : \E i \in DOMAIN q : q[i].outbound = f /\ v[k] = q[i].n
  <2>1. SimDueOK(q, D, f, v, r)
    BY <1>9, <1>11, <1>13, DueOrder, Zenon
  <2> QED BY <2>1, Zenon DEF SimDueOK
<1>16. SimQueueOrder(r, D) /\ \A k \in DOMAIN r : \E i \in DOMAIN q : r[k] = q[i]
  <2>1. SimDueOK(q, D, t, u, r)
    BY <1>9, <1>11, <1>12, DueOrder, Zenon
  <2> QED BY <2>1, Zenon DEF SimDueOK
<1>17. SimAhead(x, r, t) /\ SimAhead(g, r, f) /\ SimAhead(y, r, f)
  BY <1>10, <1>16 DEF SimAhead
<1>18. SimBefore(x, u) /\ SimBefore(g, v) /\ SimBefore(y, v)
  BY <1>10, <1>14, <1>15 DEF SimAhead, SimBefore
<1>19. PICK X \in Seq(SimNumber) : X = x \o u
  <2>1. x \o u \in Seq(SimNumber)
    BY ConcatProperties
  <2> QED BY <2>1, Zenon
<1>20. PICK Y \in Seq(SimNumber) : Y = y \o v
  <2>1. y \o v \in Seq(SimNumber)
    BY ConcatProperties
  <2> QED BY <2>1, Zenon
<1>21. SimIncreasing(X) /\ \A k \in DOMAIN X : \/ \E j \in DOMAIN x : X[k] = x[j]
                                               \/ \E j \in DOMAIN u : X[k] = u[j]
  <2>1. SimIncreasing(x \o u)
    BY <1>7, <1>14, <1>18, ConcatOrder
  <2>2. \A k \in DOMAIN (x \o u) : \/ \E j \in DOMAIN x : (x \o u)[k] = x[j]
                                   \/ \E j \in DOMAIN u : (x \o u)[k] = u[j]
    BY ConcatMembers
  <2> QED BY <2>1, <2>2, <1>19, Zenon
<1>22. SimIncreasing(Y) /\ \A k \in DOMAIN Y : \/ \E j \in DOMAIN y : Y[k] = y[j]
                                               \/ \E j \in DOMAIN v : Y[k] = v[j]
  <2>1. SimIncreasing(y \o v)
    BY <1>7, <1>15, <1>18, ConcatOrder
  <2>2. \A k \in DOMAIN (y \o v) : \/ \E j \in DOMAIN y : (y \o v)[k] = y[j]
                                   \/ \E j \in DOMAIN v : (y \o v)[k] = v[j]
    BY ConcatMembers
  <2> QED BY <2>1, <2>2, <1>20, Zenon
<1>23. SimAhead(X, r, t)
  BY <1>14, <1>17, <1>21 DEF SimAhead
<1>24. SimAhead(Y, r, f)
  BY <1>15, <1>17, <1>22 DEF SimAhead
<1>25. SimBefore(g, Y)
  BY <1>7, <1>18, <1>22 DEF SimBefore
<1>26. \A s : SimBefore(s, << >>) /\ SimBehind(s, f, << >>)
  BY DEF SimBefore, SimBehind
<1>27. /\ sim_delay' = r /\ sim_ready' = Y
       /\ sim_wire' = IF sim_connected THEN X ELSE x
  BY <1>1, <1>3, <1>4, <1>6, <1>8, <1>11, <1>12, <1>13, <1>19, <1>20, Zenon DEF SimPolled
<1>28. sim_inbox' = << >> /\ sim_got' = g
  BY <1>3, PollIs
<1>29. SimOutOrder(sim_wire, sim_delay)'
  <2>1. SimOutOrder(X, r) /\ SimOutOrder(x, r)
    BY <1>6, <1>7, <1>17, <1>21, <1>23, Zenon DEF SimOutOrder
  <2>2. sim_wire' = X \/ sim_wire' = x
    BY <1>27, Zenon
  <2> QED BY <1>27, <2>1, <2>2, Zenon
<1>30. SimInOrders(g, Y, r, << >>)
  BY <1>6, <1>7, <1>17, <1>22, <1>24, <1>25, <1>26, Zenon DEF SimInOrders
<1> QED BY <1>16, <1>27, <1>28, <1>29, <1>30, Zenon DEF SimOrderInv

\* Empty queues are in order.
LEMMA OrderInitially ==
  ASSUME NEW D, SimulatorInit PROVE SimOrderInv(D)
BY DEF SimulatorInit, SimOrderInv, SimOutOrder, SimInOrders, SimQueueOrder, SimIncreasing,
       SimBefore, SimAhead, SimBehind

\* Every step keeps the order.
LEMMA OrderNextStep ==
  ASSUME SimInv, NEW D \in Nat, SimDelayIs(D), SimOrderInv(D), [SimulatorNext]_sim_vars
  PROVE  SimOrderInv(D)'
<1>1. SimulatorTypeOK
  BY DEF SimInv
<1> QED BY <1>1, OrderConnectStep, OrderSendStep, OrderArriveStep, OrderPopStep,
           OrderTickStep, OrderDisconnectStep, OrderPollStep DEF SimulatorNext

\* Every packet the simulator was given or has received is passed on or on its way
\* at most twice, and if not at all it was dropped on purpose, whatever the settings.
THEOREM SimulatorHolds == SimulatorSpec => [](SimulatorTypeOK /\ SimAccounted)
<1>1. SimulatorInit => SimInv
  BY SimInitially
<1>2. SimInv /\ [SimulatorNext]_sim_vars => SimInv'
  BY SimNextStep
<1>3. SimInv => SimulatorTypeOK /\ SimAccounted
  BY SimAccounts DEF SimInv
<1> QED BY <1>1, <1>2, <1>3, PTL DEF SimulatorSpec

\* Under one delay without jitter the simulator keeps the order in both directions.
THEOREM SimulatorOrderHolds ==
  ASSUME SimOneDelay PROVE SimulatorSpec => []SimInOrder
<1>0. PICK D \in Nat : SimDelayIs(D)
  BY DEF SimOneDelay
<1>1. SimulatorInit => SimInv /\ SimOrderInv(D)
  BY SimInitially, OrderInitially
<1>2. SimInv /\ SimOrderInv(D) /\ [SimulatorNext]_sim_vars => SimInv' /\ SimOrderInv(D)'
  BY <1>0, SimNextStep, OrderNextStep
<1>3. SimInv /\ SimOrderInv(D) => SimInOrder
  BY SimOrders
<1> QED BY <1>1, <1>2, <1>3, PTL DEF SimulatorSpec

-----------------------------------------------------------------------------
(* The transports together.                                                *)

\* A step is a step of one transport or of the discovery, and the others wait.
LEMMA TransportsStep ==
  ASSUME [Next]_vars
  PROVE  /\ [EncryptedNext]_enc_vars /\ [LoopbackNext]_lb_vars
         /\ [SimulatorNext]_sim_vars /\ [WebSocketNext]_ws_vars /\ [LanNext]_lan_vars
<1>1. CASE Encrypted(EncryptedNext)
  BY <1>1 DEF Encrypted
<1>2. CASE Loopback(LoopbackNext)
  BY <1>2 DEF Loopback
<1>3. CASE Simulator(SimulatorNext)
  BY <1>3 DEF Simulator
<1>4. CASE WebSocket(WebSocketNext)
  BY <1>4 DEF WebSocket
<1>5. CASE Lan(LanNext)
  BY <1>5 DEF Lan
<1>6. CASE UNCHANGED vars
  BY <1>6 DEF vars
<1> QED BY <1>1, <1>2, <1>3, <1>4, <1>5, <1>6 DEF Next

\* The transports together are each of them.
THEOREM TransportsCompose ==
  Spec => EncryptedSpec /\ LoopbackSpec /\ SimulatorSpec /\ WebSocketSpec /\ LanSpec
<1>1. Init => EncryptedInit /\ LoopbackInit /\ SimulatorInit /\ WebSocketInit /\ LanInit
  BY DEF Init
<1>2. [Next]_vars => /\ [EncryptedNext]_enc_vars /\ [LoopbackNext]_lb_vars
                     /\ [SimulatorNext]_sim_vars /\ [WebSocketNext]_ws_vars
                     /\ [LanNext]_lan_vars
  BY TransportsStep
<1> QED
  BY <1>1, <1>2, PTL DEF Spec, EncryptedSpec, LoopbackSpec, SimulatorSpec, WebSocketSpec,
     LanSpec

\* What several users share is as each of them believes: the tables of the loopback hub
\* (loopback_transport.cpp), the socket of a LanDiscovery and the rate of its beacons
\* (lan_discovery.cpp), and every transport's state has its type.
THEOREM SharedStateInvHolds ==
  ASSUME LbDisciplined, LbPortsApart
  PROVE  Spec => []SharedStateInv
<1>1. LoopbackSpec => [](LoopbackTypeOK /\ LbRegistered /\ LbHearsItsServer /\ LbInOrder)
  BY LoopbackHolds
<1> QED BY <1>1, TypeCorrect, SimulatorHolds, WsStreamHolds, LanSharedHolds,
           TransportsCompose, PTL DEF SharedStateInv

\* What poll() and pop_receive of a transport hand up was sent to it, in order and not
\* again, and nothing is missing that was not dropped on purpose (loopback_transport.cpp,
\* network_simulator.cpp, emscripten_websocket_transport.cpp).
THEOREM TransportsInOrderHolds ==
  ASSUME LbDisciplined, LbPortsApart, SimOneDelay
  PROVE  Spec => []TransportsInOrder
<1>1. LoopbackSpec => [](LoopbackTypeOK /\ LbRegistered /\ LbHearsItsServer /\ LbInOrder)
  BY LoopbackHolds
<1>2. SimulatorSpec => []SimInOrder
  BY SimulatorOrderHolds
<1> QED BY <1>1, <1>2, SimulatorHolds, WsStreamHolds, TransportsCompose, PTL
        DEF TransportsInOrder
=============================================================================
