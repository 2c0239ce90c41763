--------------------------- MODULE FareAllocation ---------------------------
(***************************************************************************)
(* What passengers of one ride pay (backend/src/ride/services/             *)
(* fare.service.ts, called by ride.service.ts when a passenger is          *)
(* accepted).  A newcomer's fare is estimated from the kilometres shared   *)
(* with those who ride at the time, whose own fares are then adjusted.     *)
(* Nothing else ever writes a fare.                                        *)
(*                                                                         *)
(* The road is a line with a point every kilometre.  Money is counted in   *)
(* units of 1/Unit, so that splitting a fare leaves no remainder (the code *)
(* computes with floating-point numbers).  Definitions marked "mistake"    *)
(* are plausible bugs that no behaviour uses.                              *)
(***************************************************************************)
EXTENDS RouteMatching, FiniteSets, SequencesExt

CONSTANTS
    BaseFare, PerKmFare,    \* company set values
    Unit,
    Points,                 \* the points of the road
    Detours,                \* by how much a route may exceed the straight line
    Rows,                   \* the bound on passengers ever accepted
    None

ASSUME FareAssumption ==
    /\ BaseFare \in Nat
    /\ PerKmFare \in Nat
    /\ Unit \in Nat \ {0}
    /\ Points \subseteq Int
    /\ Detours \subseteq Nat

(* ... by as many as may share a ride.                                      *)
ASSUME UnitAssumption ==
    /\ IsFiniteSet(Rows)
    /\ \A n \in 1..(Cardinality(Rows) + 1): Unit % n = 0

PassengerStatus == {"ACCEPTED", "ON_GOING", "COMPLETED"}
Passenger == [source: Points, destination: Points, status: PassengerStatus]

ASSUME NoneAssumption == None \notin Passenger

VARIABLES
    row,        \* PassengersOnRide: row[i] is a Passenger or None
    fare        \* the fare column of each row

vars == <<row, fare>>

Init == row = [i \in Rows |-> None] /\ fare = [i \in Rows |-> 0]

------------------------------------------------------------------------------
CalculateFare(distance) == Unit * (BaseFare + distance * PerKmFare)

(* The kilometres a passenger shares with the one in row i: from the        *)
(* newcomer's source to the old passenger's destination, at most the        *)
(* newcomer's distance.                                                     *)
\* mistake: the comparison is turned round
SharedSegmentLonger(i, source, distance) ==
    LET d == Distance(source, row[i].destination)
    IN  IF d > distance THEN d ELSE distance
SharedSegment(i, source, distance) ==
    LET d == Distance(source, row[i].destination)
    IN  IF d > distance THEN distance ELSE d

(* sort, in ascending order.                                                *)
Ascending(s) ==
    LET Sorts(p) == \A i, j \in 1..Len(s): i < j => p[i] # p[j] /\ s[p[i]] <= s[p[j]]
        order == CHOOSE p \in [1..Len(s) -> 1..Len(s)]: Sorts(p)
    IN  [i \in 1..Len(s) |-> s[order[i]]]

(* The total of a sequence of amounts.                                      *)
SumOf(v) == FoldLeft(+, 0, v)

(* The price of each shared distance, the shortest first, is divided by the *)
(* number of passengers still aboard.                                       *)
\* mistake: the newcomer is not counted
AllocateAmongOld(sorted, total) ==
    LET Share(i) == CalculateFare(sorted[i]) \div (total - i)
    IN  SumOf([i \in 1..Len(sorted) |-> Share(i)])
AllocateFareAmongPassengers(sorted, total) ==
    LET Share(i) == CalculateFare(sorted[i]) \div (total - (i - 1))
    IN  SumOf([i \in 1..Len(sorted) |-> Share(i)])

(* riders are the rows in the order the database returns them.  Sorting is  *)
(* in place, so the last shared distance is the longest.                    *)
\* mistake: a copy is sorted, and the last distance is any
EstimateFareUnsorted(riders, source, distance) ==
    LET shared == [k \in 1..Len(riders) |-> SharedSegment(riders[k], source, distance)]
        sorted == Ascending(shared)
    IN  Unit * BaseFare
            + AllocateFareAmongPassengers(sorted, Len(riders) + 1)
            + CalculateFare(distance - shared[Len(shared)])
EstimateFareForNewPassenger(riders, source, distance) ==
    LET shared == [k \in 1..Len(riders) |-> SharedSegment(riders[k], source, distance)]
        sorted == Ascending(shared)
    IN  Unit * BaseFare
            + AllocateFareAmongPassengers(sorted, Len(riders) + 1)
            + CalculateFare(distance - sorted[Len(sorted)])

AdjustedFare(i, source, distance) ==
    Unit * BaseFare
        + CalculateFare(Distance(row[i].source, row[i].destination)
                            - SharedSegment(i, source, distance))

------------------------------------------------------------------------------
Riding == {i \in Rows: row[i] # None /\ row[i].status = "ON_GOING"}

NewFare(riders, source, distance) ==
    IF riders = << >> THEN CalculateFare(distance)
    ELSE EstimateFareForNewPassenger(riders, source, distance)

(* The database returns the riders in any order.                            *)
Estimates(source, distance) ==
    {NewFare(riders, source, distance): riders \in SetToSeqs(Riding)}

(* A passenger is accepted, anywhere: requestRideAccept does not look at    *)
(* the way.  Of the adjusted fares only some may be written, since writing  *)
(* them ends the process (see RideBooking, which also has the interleavings *)
(* of accepts; they are taken one by one here).                             *)
Accept(i, source, destination, distance) ==
    /\ row[i] = None
    /\ row' = [row EXCEPT ![i] = [source |-> source, destination |-> destination,
                                  status |-> "ACCEPTED"]]
    /\ \E estimate \in Estimates(source, distance), written \in SUBSET Riding:
           fare' = [j \in Rows |->
                      IF j = i THEN estimate
                      ELSE IF j \in written THEN AdjustedFare(j, source, distance)
                      ELSE fare[j]]

(* The driver's app boards a passenger and the passenger's ends the trip,   *)
(* wherever the car is and whatever the status was.                         *)
\* mistake: the status is not one of a passenger
SetRideStatus(i) ==
    /\ row[i] # None
    /\ row' = [row EXCEPT ![i].status = "CANCELLED"]
    /\ UNCHANGED fare
CompletePassengerRide(i) ==
    /\ row[i] # None
    /\ row' = [row EXCEPT ![i].status = "COMPLETED"]
    /\ UNCHANGED fare

UpdatePassengerRideStatus(i, status) ==
    /\ row[i] # None
    /\ row' = [row EXCEPT ![i].status = status]
    /\ UNCHANGED fare

Next ==
    \/ \E i \in Rows, source, destination \in Points, detour \in Detours:
           /\ source # destination
           /\ Accept(i, source, destination, Distance(source, destination) + detour)
    \/ \E i \in Rows: CompletePassengerRide(i)
    \/ \E i \in Rows, status \in PassengerStatus: UpdatePassengerRideStatus(i, status)

Spec == Init /\ [][Next]_vars
------------------------------------------------------------------------------
TypeOK ==
    /\ row \in [Rows -> Passenger \cup {None}]
    /\ fare \in [Rows -> Int]

(* The order in which the database returns the riders makes no difference   *)
(* to what a newcomer is told (ride-for-passenger) and then charged.        *)
EstimateIsOrderFree ==
    \A source, destination \in Points, detour \in Detours:
        Cardinality(Estimates(source, Distance(source, destination) + detour)) = 1

(* Shares of shared kilometres are of growing overlapping stretches, all    *)
(* from the newcomer's source.  With up to two others aboard they still add *)
(* up to no more than the newcomer's kilometres, and at least none: beyond  *)
(* the base fares, sharing never costs more than going alone.  (With three  *)
(* it may: 1/4 + 1/3 + 1/2 of one stretch.)                                 *)
BaseFares(n) ==
    Unit * 2 * BaseFare + SumOf([k \in 1..n |-> (Unit * BaseFare) \div (k + 1)])

SharingIsNotDearer ==
    Cardinality(Riding) \in 1..2 =>
        \A source, destination \in Points, detour \in Detours:
            LET distance == Distance(source, destination) + detour
            IN  \A estimate \in Estimates(source, distance):
                    estimate - BaseFares(Cardinality(Riding))
                        \in 0..(Unit * distance * PerKmFare)

(* How far the newcomer boards outside an old passenger's own trip: before  *)
(* its source, or past a destination where nobody ended the trip.           *)
Outside(x, a, b) ==
    IF (a <= x /\ x <= b) \/ (b <= x /\ x <= a) THEN 0
    ELSE IF Distance(x, a) < Distance(x, b) THEN Distance(x, a) ELSE Distance(x, b)

(* An adjusted fare is at most what the straight way alone costs, and at    *)
(* least two base fares less the price of the way outside the trip.  (That  *)
(* may be negative: the shared distance is not limited to the trip.)        *)
AdjustmentIsBounded ==
    [][\A i, j \in Rows:
          /\ row[i] # None /\ fare'[i] # fare[i]
          /\ row[j] = None /\ row'[j] # None
          => LET own == Distance(row[i].source, row[i].destination)
                 outside == Outside(row'[j].source, row[i].source, row[i].destination)
             IN  /\ fare'[i] <= Unit * (2 * BaseFare + own * PerKmFare)
                 /\ fare'[i] >= Unit * (2 * BaseFare - outside * PerKmFare)]_vars
==============================================================================
