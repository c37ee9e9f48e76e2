-------------------------- MODULE NetworkSimulator --------------------------
(***************************************************************************)
(* NetworkSimulator (src/src/transport/network_simulator.cpp): a decorator *)
(* that drops, duplicates and delays the packets of an inner transport.    *)
(*                                                                         *)
(* The inner transport is its interface: it takes packets while it is      *)
(* connected and has a queue of received ones.  Packets of a direction are *)
(* numbered.  A random choice is nondeterministic, a queued packet holds   *)
(* the time it still has to wait, and sim_tick is the clock.               *)
(***************************************************************************)
EXTENDS Integers, Sequences, FiniteSets, SequencesExt, QueueFilter

CONSTANTS
  SimSettings,     \* settings the application chooses from
  SimMaxPackets,   \* bound: packets sent, and packets received, by the inner one
  SimMaxConnects   \* bound: calls of connect() and bind()

\* delays are the delays between latency_min_ms and latency_max_ms, moved by the
\* jitter both ways and cut off at 0; jitter is jitter_ms.
Setting ==
  [loss : BOOLEAN, duplication : BOOLEAN, delays : SUBSET Nat, jitter : Nat]

ASSUME SimAssumption ==
  /\ SimSettings # {}
  /\ \A s \in SimSettings :
       /\ s.loss \in BOOLEAN /\ s.duplication \in BOOLEAN /\ s.jitter \in Nat
       /\ s.delays # {} /\ s.delays \subseteq Nat
  /\ SimMaxPackets \in Nat /\ SimMaxConnects \in Nat

VARIABLES
  sim_setting,    \* packet_loss, duplication, latency and jitter
  sim_connected,  \* is_connected() of the inner transport
  sim_inbox,      \* what pop_receive of the inner transport will return
  sim_delay,      \* delay_queue
  sim_ready,      \* ready_queue
  sim_sent,       \* packets the application sent: how many
  sim_arrived,    \* packets the inner transport received: how many
  sim_wire,       \* packets the inner transport took to send, in order
  sim_got,        \* packets the application popped, in order
  sim_dropped,    \* packets dropped by the simulator or by disconnect()
  sim_connects    \* counter of the bound

sim_vars == <<sim_setting, sim_connected, sim_inbox, sim_delay, sim_ready, sim_sent,
              sim_arrived, sim_wire, sim_got, sim_dropped, sim_connects>>

SimNumber == 1 .. SimMaxPackets

QueuedPacket == [n : SimNumber, outbound : BOOLEAN, left : Nat]

SimulatorTypeOK ==
  /\ sim_setting \in SimSettings
  /\ sim_connected \in BOOLEAN
  /\ sim_inbox \in Seq(SimNumber)
  /\ sim_delay \in Seq(QueuedPacket)
  /\ sim_ready \in Seq(SimNumber)
  /\ sim_sent \in 0 .. SimMaxPackets /\ sim_arrived \in 0 .. SimMaxPackets
  /\ sim_wire \in Seq(SimNumber) /\ sim_got \in Seq(SimNumber)
  /\ sim_dropped \in [out : SUBSET SimNumber, in : SUBSET SimNumber]
  /\ sim_connects \in 0 .. SimMaxConnects

SimulatorInit ==
  /\ sim_setting \in SimSettings
  /\ sim_connected = FALSE
  /\ sim_inbox = << >> /\ sim_delay = << >> /\ sim_ready = << >>
  /\ sim_sent = 0 /\ sim_arrived = 0
  /\ sim_wire = << >> /\ sim_got = << >>
  /\ sim_dropped = [out |-> {}, in |-> {}]
  /\ sim_connects = 0

-----------------------------------------------------------------------------

\* What send, send_to and the receive loop of poll do to a packet: the ways it can
\* be queued.  A duplicate waits for the same time, and for the jitter.
SimQueued(n, outbound) ==
  LET p(d) == [n |-> n, outbound |-> outbound, left |-> d] IN
  {<<p(d)>> : d \in sim_setting.delays}
    \cup (IF sim_setting.duplication
          THEN {<<p(d), p(d + sim_setting.jitter)>> : d \in sim_setting.delays} ELSE {})
    \cup (IF sim_setting.loss THEN {<< >>} ELSE {})

\* connect() and bind() of the inner transport, external to the simulator.
sim_connect ==
  /\ ~sim_connected
  /\ sim_connects < SimMaxConnects
  /\ sim_connects' = sim_connects + 1
  /\ sim_connected' = TRUE
  /\ UNCHANGED <<sim_setting, sim_inbox, sim_delay, sim_ready, sim_sent, sim_arrived,
                 sim_wire, sim_got, sim_dropped>>

SimDirection(queue, outbound) == {k \in DOMAIN queue : queue[k].outbound = outbound}

SimNumbers(queue, outbound) ==
  {queue[k].n : k \in SimDirection(queue, outbound)}

\* Both queues, and those of the inner transport, are emptied.
sim_disconnect ==
  /\ sim_connected
  /\ sim_connected' = FALSE
  /\ sim_inbox' = << >> /\ sim_delay' = << >> /\ sim_ready' = << >>
  /\ sim_dropped' =
       [out |-> sim_dropped.out \cup SimNumbers(sim_delay, TRUE),
        in |-> sim_dropped.in \cup SimNumbers(sim_delay, FALSE)
                 \cup ToSet(sim_inbox) \cup ToSet(sim_ready)]
  /\ UNCHANGED <<sim_setting, sim_sent, sim_arrived, sim_wire, sim_got, sim_connects>>

\* send() and send_to(): the packet is taken whether or not there is a connection.
sim_send ==
  /\ sim_sent < SimMaxPackets
  /\ sim_sent' = sim_sent + 1
  /\ \E q \in SimQueued(sim_sent + 1, TRUE) :
       /\ sim_delay' = sim_delay \o q
       /\ sim_dropped' = IF q = << >> THEN [sim_dropped EXCEPT !.out = @ \cup {sim_sent + 1}]
                         ELSE sim_dropped
  /\ UNCHANGED <<sim_setting, sim_connected, sim_inbox, sim_ready, sim_arrived, sim_wire,
                 sim_got, sim_connects>>

\* A packet reaches the inner transport.
sim_arrive ==
  /\ sim_connected
  /\ sim_arrived < SimMaxPackets
  /\ sim_arrived' = sim_arrived + 1
  /\ sim_inbox' = Append(sim_inbox, sim_arrived + 1)
  /\ UNCHANGED <<sim_setting, sim_connected, sim_delay, sim_ready, sim_sent, sim_wire,
                 sim_got, sim_dropped, sim_connects>>

SimIsDue(queue) == {k \in DOMAIN queue : queue[k].left = 0}

\* The numbers of the packets at some positions of a queue.
SimPassed(queue, at) == Kept([k \in DOMAIN queue |-> queue[k].n], at)

SimDue_Reverse(queue, outbound) ==
  Reverse(SimPassed(queue, SimDirection(queue, outbound) \cap SimIsDue(queue)))

SimDue_First(queue, outbound) ==
  SubSeq(SimPassed(queue, SimDirection(queue, outbound) \cap SimIsDue(queue)), 1, 1)

SimDue(queue, outbound) ==
  SimPassed(queue, SimDirection(queue, outbound) \cap SimIsDue(queue))

\* The receive loop: the ways all received packets can be queued.
SimReceived ==
  LET ways[k \in 0 .. Len(sim_inbox)] ==
        IF k = 0 THEN {<< >>}
        ELSE {w \o q : w \in ways[k - 1], q \in SimQueued(sim_inbox[k], FALSE)}
  IN ways[Len(sim_inbox)]

\* poll() queues what was received and passes on what has waited long enough, in
\* the order of the queue.  An inner transport without a connection refuses what
\* it is given, and nobody asks.
sim_poll ==
  /\ sim_inbox' = << >>
  /\ \E received \in SimReceived :
       LET queue == sim_delay \o received
           out == SimDue(queue, TRUE)
           lost == ToSet(sim_inbox) \ SimNumbers(received, FALSE) IN
       /\ sim_delay' = Kept(queue, DOMAIN queue \ SimIsDue(queue))
       /\ sim_ready' = sim_ready \o SimDue(queue, FALSE)
       /\ sim_wire' = IF sim_connected THEN sim_wire \o out ELSE sim_wire
       /\ sim_dropped' =
            [out |-> sim_dropped.out \cup (IF sim_connected THEN {} ELSE ToSet(out)),
             in |-> sim_dropped.in \cup lost]
  /\ UNCHANGED <<sim_setting, sim_connected, sim_sent, sim_arrived, sim_got,
                 sim_connects>>

sim_pop_receive ==
  /\ sim_ready # << >>
  /\ sim_ready' = Tail(sim_ready)
  /\ sim_got' = Append(sim_got, Head(sim_ready))
  /\ UNCHANGED <<sim_setting, sim_connected, sim_inbox, sim_delay, sim_sent, sim_arrived,
                 sim_wire, sim_dropped, sim_connects>>

\* set_packet_loss, set_latency, set_jitter and set_duplication.
sim_set ==
  /\ sim_setting' \in SimSettings \ {sim_setting}
  /\ UNCHANGED <<sim_connected, sim_inbox, sim_delay, sim_ready, sim_sent, sim_arrived,
                 sim_wire, sim_got, sim_dropped, sim_connects>>

sim_tick_Below ==
  /\ \E k \in DOMAIN sim_delay : sim_delay[k].left > 0
  /\ sim_delay' = [k \in DOMAIN sim_delay |-> [sim_delay[k] EXCEPT !.left = @ - 1]]
  /\ UNCHANGED <<sim_setting, sim_connected, sim_inbox, sim_ready, sim_sent, sim_arrived,
                 sim_wire, sim_got, sim_dropped, sim_connects>>

sim_tick ==
  /\ \E k \in DOMAIN sim_delay : sim_delay[k].left > 0
  /\ sim_delay' = [k \in DOMAIN sim_delay |->
                     [sim_delay[k] EXCEPT !.left = IF @ = 0 THEN 0 ELSE @ - 1]]
  /\ UNCHANGED <<sim_setting, sim_connected, sim_inbox, sim_ready, sim_sent, sim_arrived,
                 sim_wire, sim_got, sim_dropped, sim_connects>>

SimulatorNext ==
  \/ sim_connect
  \/ sim_disconnect
  \/ sim_send
  \/ sim_arrive
  \/ sim_poll
  \/ sim_pop_receive
  \/ sim_set
  \/ sim_tick

SimulatorSpec == SimulatorInit /\ [][SimulatorNext]_sim_vars

-----------------------------------------------------------------------------
(* Properties.                                                             *)

\* What the simulator has of a direction: passed on, and still to come.
SimOutbound == sim_wire \o SimPassed(sim_delay, SimDirection(sim_delay, TRUE))
SimInbound ==
  sim_got \o sim_ready \o SimPassed(sim_delay, SimDirection(sim_delay, FALSE)) \o sim_inbox

SimIncreasing(s) == \A j, k \in DOMAIN s : j < k => s[j] <= s[k]

\* With one delay and no jitter the simulator is a queue in each direction,
\* whatever it drops or duplicates and however sending, polling and the clock
\* interleave: packets are passed on in the order they came in.
SimInOrder == SimIncreasing(SimOutbound) /\ SimIncreasing(SimInbound)

\* Every packet is accounted for: passed on or on its way at most twice, and
\* if not at all it was dropped, by chance, by disconnect() or because the inner
\* transport had no connection when the delay was over.
SimAccounted ==
  /\ \A n \in 1 .. sim_sent :
       LET copies == Cardinality({k \in DOMAIN SimOutbound : SimOutbound[k] = n}) IN
       copies <= 2 /\ (copies = 0 => n \in sim_dropped.out)
  /\ \A n \in 1 .. sim_arrived :
       LET copies == Cardinality({k \in DOMAIN SimInbound : SimInbound[k] = n}) IN
       copies <= 2 /\ (copies = 0 => n \in sim_dropped.in)

\* "Set the probability that an outbound packet is dropped": while the connection
\* lasts, what the inner transport received reaches the application.
SimInboundKept == sim_connected /\ sim_connects = 1 => sim_dropped.in = {}
=============================================================================
