---------------------------- MODULE OrderedStream ----------------------------
(***************************************************************************)
(* What packet.hpp promises of a ReliableOrdered channel, "Guaranteed      *)
(* delivery, in-order", for one connection between two sides: the          *)
(* messages a side submits reach the other side in the order they were     *)
(* submitted, none skipped and none repeated, and the sender forgets a     *)
(* message only once it has been delivered.                                *)
(***************************************************************************)
EXTENDS Naturals, Sequences

CONSTANT Sides, Peer(_)

VARIABLES
  submitted,    \* submitted[e]: how many messages e has submitted
  delivered,    \* delivered[e]: the messages delivered to e, in order
  unreleased    \* unreleased[e]: messages of e that e still remembers

streamVars == <<submitted, delivered, unreleased>>

Init ==
  /\ submitted = [e \in Sides |-> 0]
  /\ delivered = [e \in Sides |-> << >>]
  /\ unreleased = [e \in Sides |-> {}]

Submit(e) ==
  /\ submitted' = [submitted EXCEPT ![e] = @ + 1]
  /\ unreleased' = [unreleased EXCEPT ![e] = @ \cup {submitted[e]}]
  /\ UNCHANGED delivered

\* The next message of the peer, and no other, may be delivered.
DeliverNext(e) ==
  /\ Len(delivered[e]) < submitted[Peer(e)]
  /\ delivered' = [delivered EXCEPT ![e] = Append(@, Len(@))]

\* A side hears from its peer: it may forget messages that were delivered
\* there, and the next message may be delivered here.
Hear(e) ==
  /\ \E S \in SUBSET unreleased[e] :
       /\ \A i \in S : i < Len(delivered[Peer(e)])
       /\ unreleased' = [unreleased EXCEPT ![e] = @ \ S]
  /\ DeliverNext(e) \/ UNCHANGED delivered
  /\ UNCHANGED submitted

Next == \E e \in Sides : Submit(e) \/ Hear(e)

Spec == Init /\ [][Next]_streamVars
=============================================================================
