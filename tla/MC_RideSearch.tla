--------------------------- MODULE MC_RideSearch ---------------------------
(* A small instance of RideSearch: one ride of a driver on a road of three  *)
(* points, and a passenger who gets on between the last two, which counts   *)
(* as on the route because of the road's skew, and goes to the last.        *)
EXTENDS RideSearch

CONSTANTS r1, p1, s1, unknown, none

OneRide == {r1}
OnePassenger == {p1}
OneSlot == {s1}
Men == [x \in {r1, p1} |-> "MALE"]
ThreePoints == [r \in Rides |-> <<0, 5, 10>>]
AskewRoad == [r \in Rides |-> 150]
From == [p \in Passengers |-> 9]
To == [p \in Passengers |-> 10]
OneLocation == {7}
OneMaximum == {1}
=============================================================================
