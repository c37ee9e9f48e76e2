---------------------------- MODULE QueueFilter -----------------------------
(***************************************************************************)
(* Queues of which a loop keeps some elements and erases the others, as    *)
(* the poll() of the transports does with what is due.  Which ones is said *)
(* by their positions, so that what the loop leaves alone, the order, can  *)
(* be reasoned about.                                                      *)
(***************************************************************************)
EXTENDS Integers, Sequences, FiniteSets

\* The k-th position of a set of positions.
Nth(at, k) == CHOOSE i \in at : Cardinality({j \in at : j <= i}) = k

\* The elements of s at the positions at, in the order they have in s.
Kept(s, at) == [k \in 1 .. Cardinality(at) |-> s[Nth(at, k)]]
=============================================================================
