------------------------ MODULE MC_RideLocationCache ------------------------
(* Small instances of RideLocationCache.                                    *)
EXTENDS RideLocationCache, TLC

CONSTANTS r1, p1, p2, driver, b1, b2, s1, s2, here, there, unknown, none

OneRide == {r1}
OnePassenger == {p1}
TwoPassengers == {p1, p2}
OneRow == {b1}
TwoRows == {b1, b2}
TwoSlots == {s1, s2}
OneLocation == {here}
TwoLocations == {here, there}
=============================================================================
