------------------------- MODULE MCSpatialInterest --------------------------
EXTENDS SpatialInterest

Points == {<<-1, 0>>, <<0, 0>>, <<2, 1>>}
=============================================================================
