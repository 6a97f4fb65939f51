------------------------- MODULE MCClassBookings -------------------------
\* Values of ClassBookings' constants for TLC.
EXTENDS ClassBookings, TLC

CONSTANTS c1, c2
OnePlace == (c1 :> 1)
TwoPlaces == (c1 :> 2)
OnePlaceEach == (c1 :> 1) @@ (c2 :> 1)
Alike == Permutations(Workers) \cup Permutations(Requests) \cup Permutations(Phones \ Known)
=============================================================================
