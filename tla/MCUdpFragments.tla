--------------------------- MODULE MCUdpFragments ---------------------------
(* Constants of the runs of UdpFragments. *)
EXTENDS UdpFragments

Small == {2, 3}
Two == {2}
Three == {3}
=============================================================================
