---------------------------- MODULE MCRateLimits ----------------------------
EXTENDS RateLimits

OneBurstTwo == [rate |-> 1, burst |-> 2]
OneBurstThree == [rate |-> 1, burst |-> 3]
NoRateBurstTwo == [rate |-> 0, burst |-> 2]
=============================================================================
