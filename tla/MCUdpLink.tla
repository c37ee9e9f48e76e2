------------------------------ MODULE MCUdpLink ------------------------------
(* Instances of UdpLink for TLC.                                           *)
EXTENDS UdpLink

\* Bounds on what each side sends.
Send11 == [client |-> 1, server |-> 1]
Send20 == [client |-> 2, server |-> 0]
Send21 == [client |-> 2, server |-> 1]
Send41 == [client |-> 4, server |-> 1]
Send31 == [client |-> 3, server |-> 1]
=============================================================================
