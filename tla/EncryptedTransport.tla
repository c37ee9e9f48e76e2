------------------------- MODULE EncryptedTransport -------------------------
(***************************************************************************)
(* EncryptedTransport (src/src/transport/encrypted_transport.cpp) between  *)
(* a server that seals with send_to and a client that opens with           *)
(* pop_receive: the counter in every nonce and the replay window of the    *)
(* receiver.  The other direction runs the same code on the other half of  *)
(* the counters.                                                           *)
(*                                                                         *)
(* The cipher is left out: a sealed packet is its counter, and it opens    *)
(* unless it was damaged on the way.  The inner transport is what UdpLink  *)
(* shows: a ReliableOrdered packet is handed over once, in order, and an   *)
(* Unreliable one any number of times, or never, in any order.             *)
(*                                                                         *)
(* The receiver is driven by the loop of                                   *)
(* NetworkManager::Impl::poll_transport_receives_for, which pops until     *)
(* pop_receive returns false.  A `session' is one connect() of the client; *)
(* the server meets each under a new address, so with new counters.        *)
(***************************************************************************)
EXTENDS Integers, Sequences

CONSTANTS
  Window,      \* REPLAY_WINDOW, and the bits of seen_bitmap (64)
  MaxCounter,  \* bound: packets sealed in a session
  MaxQueue,    \* bound: packets in the inner transport's queue
  MaxSession   \* bound: calls of connect() on one EncryptedTransport

ASSUME WindowAssumption == Window \in Nat \ {0}
ASSUME BoundAssumption == MaxCounter \in Nat /\ MaxQueue \in Nat /\ MaxSession \in Nat

VARIABLES
  session,          \* which connection of the client this is
  outbound,         \* the server's counter for the client's address
  ordered,          \* sealed ReliableOrdered packets on their way
  net,              \* sealed Unreliable packets on their way
  inner_queue,      \* receive queue of the inner transport
  highest_inbound,  \* the client's CounterState
  seen_bitmap,
  polling,          \* inside the loop of poll_transport_receives_for
  popped,           \* history: counters taken from inner_queue in this session
  opened            \* history: packets handed up, in order

window == <<highest_inbound, seen_bitmap>>
inner == <<ordered, net, inner_queue>>
enc_vars == <<session, outbound, inner, window, polling, popped, opened>>

Reliability == {"ReliableOrdered", "Unreliable"}

\* A sealed packet in inner_queue; one that is not intact does not open.
Sealed == [counter : Nat, rel : Reliability, intact : BOOLEAN]

EncTypeOK ==
  /\ session \in Nat
  /\ outbound \in Nat
  /\ ordered \in Seq(Nat)
  /\ net \in SUBSET Nat
  /\ inner_queue \in Seq(Sealed)
  /\ highest_inbound \in Nat
  /\ seen_bitmap \in SUBSET (0 .. Window - 1)
  /\ polling \in BOOLEAN
  /\ popped \in SUBSET Nat
  /\ opened \in Seq([session : Nat, counter : Nat])

EncryptedInit ==
  /\ session = 1
  /\ outbound = 0
  /\ ordered = << >>
  /\ net = {}
  /\ inner_queue = << >>
  /\ highest_inbound = 0
  /\ seen_bitmap = {}
  /\ polling = FALSE
  /\ popped = {}
  /\ opened = << >>

-----------------------------------------------------------------------------
(* The server.                                                             *)

\* The counter is consumed whether or not the inner transport takes the packet.
send_to(rel, taken) ==
  /\ outbound < MaxCounter
  /\ outbound' = outbound + 1
  /\ ordered' = IF taken /\ rel = "ReliableOrdered" THEN Append(ordered, outbound)
                                                    ELSE ordered
  /\ net' = IF taken /\ rel = "Unreliable" THEN net \cup {outbound} ELSE net
  /\ UNCHANGED <<session, inner_queue, window, polling, popped, opened>>

-----------------------------------------------------------------------------
(* The inner transport, which poll() reads; the loop pops between polls.   *)

deliver_ordered ==
  /\ ~ polling
  /\ ordered # << >>
  /\ Len(inner_queue) < MaxQueue
  /\ inner_queue' = Append(inner_queue, [counter |-> Head(ordered),
                                         rel |-> "ReliableOrdered",
                                         intact |-> TRUE])
  /\ ordered' = Tail(ordered)
  /\ UNCHANGED <<session, outbound, net, window, polling, popped, opened>>

deliver_unreliable(c, intact) ==
  /\ ~ polling
  /\ c \in net
  /\ Len(inner_queue) < MaxQueue
  /\ inner_queue' = Append(inner_queue, [counter |-> c, rel |-> "Unreliable",
                                         intact |-> intact])
  /\ UNCHANGED <<session, outbound, ordered, net, window, polling, popped, opened>>

-----------------------------------------------------------------------------
(* The client.                                                             *)

\* Faulty variant: only what is behind the window's edge by more is too old.
too_old_Late(c) == c + Window < highest_inbound

too_old(c) == c + Window <= highest_inbound

\* Faulty variant: a bitmap that is not moved with highest_inbound.
shifted_bitmap_None(c) == seen_bitmap

\* seen_bitmap once highest_inbound has moved up to c; bits are lost on the left.
shifted_bitmap(c) ==
  IF c > highest_inbound
    THEN {b \in 0 .. Window - 1 : b - (c - highest_inbound) \in seen_bitmap}
    ELSE seen_bitmap

\* Faulty variant: the window is not moved up.
new_highest_None(c) == highest_inbound

new_highest(c) == IF c > highest_inbound THEN c ELSE highest_inbound

duplicate(c) == new_highest(c) - c \in shifted_bitmap(c)

\* The loop starts, after the transport's poll().
poll_transport_receives ==
  /\ ~ polling
  /\ polling' = TRUE
  /\ UNCHANGED <<session, outbound, inner, window, popped, opened>>

\* Nothing to pop: pop_receive returns false and the loop ends.
pop_receive_empty ==
  /\ polling
  /\ inner_queue = << >>
  /\ polling' = FALSE
  /\ UNCHANGED <<session, outbound, inner, window, popped, opened>>

\* The packet is dropped before the window is touched.  As with the other
\* drops, pop_receive returns false, and that ends the loop.
pop_receive_too_old ==
  /\ polling
  /\ inner_queue # << >>
  /\ too_old(Head(inner_queue).counter)
  /\ inner_queue' = Tail(inner_queue)
  /\ popped' = popped \cup {Head(inner_queue).counter}
  /\ polling' = FALSE
  /\ UNCHANGED <<session, outbound, ordered, net, window, opened>>

\* The window is brought up to date, and then the packet is opened: it is
\* dropped if it is a duplicate or damaged.
pop_receive_in_window ==
  LET p == Head(inner_queue)
      c == p.counter
      accepted == ~ duplicate(c) /\ p.intact
  IN
  /\ polling
  /\ inner_queue # << >>
  /\ ~ too_old(c)
  /\ inner_queue' = Tail(inner_queue)
  /\ highest_inbound' = new_highest(c)
  /\ seen_bitmap' = shifted_bitmap(c) \cup {new_highest(c) - c}
  /\ popped' = popped \cup {c}
  /\ opened' = IF accepted THEN Append(opened, [session |-> session, counter |-> c])
                           ELSE opened
  /\ polling' = accepted
  /\ UNCHANGED <<session, outbound, ordered, net>>

\* disconnect() and connect() reach only the inner transport: the client's
\* CounterState stays as it is.
reconnect ==
  /\ ~ polling
  /\ session < MaxSession
  /\ session' = session + 1
  /\ outbound' = 0
  /\ ordered' = << >>
  /\ net' = {}
  /\ inner_queue' = << >>
  /\ popped' = {}
  /\ UNCHANGED <<window, polling, opened>>

-----------------------------------------------------------------------------
EncryptedNext ==
  \/ \E rel \in Reliability, taken \in BOOLEAN : send_to(rel, taken)
  \/ deliver_ordered
  \/ \E c \in net, intact \in BOOLEAN : deliver_unreliable(c, intact)
  \/ poll_transport_receives
  \/ pop_receive_empty
  \/ pop_receive_too_old
  \/ pop_receive_in_window
  \/ reconnect

EncryptedSpec == EncryptedInit /\ [][EncryptedNext]_enc_vars

-----------------------------------------------------------------------------
(* Properties.                                                             *)

\* However the network duplicates and reorders, no sealed packet is handed up
\* twice.
NoReplay ==
  \A i, j \in DOMAIN opened : opened[i] = opened[j] => i = j

Pops == polling /\ inner_queue # << >> /\ inner_queue' = Tail(inner_queue)
HandsUp == Len(opened') = Len(opened) + 1

\* A packet that has not been popped before and is not behind the window is
\* handed up, as long as the client has connected only once: moving the window
\* never marks a packet that did not arrive.
FreshAccepted ==
  [][LET p == Head(inner_queue) IN
     Pops /\ session = 1 /\ p.intact /\ p.counter \notin popped
       /\ p.counter + Window > highest_inbound => HandsUp]_enc_vars

\* ReliableOrdered is "Guaranteed delivery, in-order": a packet that the inner
\* transport hands over reliably is handed up.
ReliableHandedUp ==
  [][Pops /\ Head(inner_queue).rel = "ReliableOrdered" => HandsUp]_enc_vars

\* pop_receive "Returns false when queue is empty": when the receive loop of
\* NetworkManager has ended, nothing is left in the queue.
LoopDrainsQueue == [][polling /\ ~ polling' => inner_queue' = << >>]_enc_vars

\* disconnect() is to "reset all state": a packet newer than all the packets
\* received on this connection is handed up, on later connections too.
NewestHandedUp ==
  [][LET p == Head(inner_queue) IN
     Pops /\ p.intact /\ (\A c \in popped : c < p.counter) => HandsUp]_enc_vars

(***************************************************************************)
(* The inductive invariant behind NoReplay: of what was popped in this     *)
(* session, everything still inside the window has its bit set.            *)
(***************************************************************************)
WindowInv ==
  /\ \A c \in popped : c <= highest_inbound
  /\ \A c \in popped : highest_inbound - c < Window => highest_inbound - c \in seen_bitmap

OpenedInv ==
  \A i \in DOMAIN opened :
    /\ opened[i].session <= session
    /\ opened[i].session = session => opened[i].counter \in popped

ReplayInv == WindowInv /\ OpenedInv /\ NoReplay
=============================================================================
