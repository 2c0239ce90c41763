--------------------------- MODULE MC_RideBooking ---------------------------
(* Small instances of RideBooking.                                          *)
EXTENDS RideBooking, TLC

CONSTANTS r1, r2, p1, p2, p3, driver, b1, b2, b3, s1, s2, none

OneRide == {r1}
TwoRides == {r1, r2}
OnePassenger == {p1}
TwoPassengers == {p1, p2}
ThreePassengers == {p1, p2, p3}
OneRow == {b1}
TwoRows == {b1, b2}
ThreeRows == {b1, b2, b3}
OneSlot == {s1}
TwoSlots == {s1, s2}
OneUser == {p1}
Everybody == Passengers \cup {Driver}

BookingEndpoints == {"create", "delete", "device", "accept", "status"}

(* Ids are interchangeable.                                                 *)
Symmetry == Permutations(Rides) \cup Permutations(Passengers)
                \cup Permutations(Rows) \cup Permutations(Slots)

(* Runs without statement failures and without the platform stopping the    *)
(* instance: what is left is the code's own doing.                          *)
UnfailingSpec == Init /\ [][NextUnfailing]_vars
=============================================================================
