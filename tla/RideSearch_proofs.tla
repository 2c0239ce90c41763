------------------------- MODULE RideSearch_proofs -------------------------
(***************************************************************************)
(* Theorems about RideSearch, for any rides, passengers, routes and        *)
(* thresholds.  A search is followed call by call: what a call has found   *)
(* of a ride was so at some moment since the call came in (Founded), and a *)
(* ride that was right all the time is still among its candidates          *)
(* (Considered).                                                           *)
(***************************************************************************)
EXTENDS RideSearch, TLAPS

TableTypes ==
    /\ ride \in [Rides -> RideStatus \cup {"deleted"}]
    /\ seated \in [Rides -> 0..MaxRows]
    /\ location \in [Rides -> Locations \cup {Unknown, None}]
    /\ driverPreferences \in [Rides -> DriverPreferences \cup {None}]
    /\ passengerPreferences \in [Passengers -> Genders \cup {None}]
    /\ vehicles \subseteq Rides

OneCallPerSlot == \A c, d \in calls: c.id = d.id => c = d

HistoryTypes ==
    /\ sometime \in [Slots -> SUBSET (Rides \X Conditions)]
    /\ always \in [Slots -> SUBSET Rides]

Types == TableTypes /\ calls \subseteq Call /\ OneCallPerSlot /\ HistoryTypes

------------------------------------------------------------------------------
(* The road.                                                                *)

(* A passenger on the route is no further from one of its points than the   *)
(* threshold.                                                               *)
THEOREM OnRouteIsNearAPoint ==
    ASSUME NEW p, NEW route, NEW threshold, NEW skew,
           IsPointOnRouteWithinThreshold(p, route, threshold, skew)
    PROVE  \E i \in 2..Len(route): Distance(p, route[i]) <= threshold
  <1>1. PICK i \in 1..(Len(route) - 1):
            IsNearSegment(p, route[i], route[i + 1], threshold, skew)
    BY DEF IsPointOnRouteWithinThreshold
  <1>2. QED
    BY <1>1 DEF IsNearSegment

------------------------------------------------------------------------------
(* How calls change.                                                        *)

SameCall(c, d) == d.id = c.id /\ d.passenger = c.passenger

BranchMoves(c, r, b, d) ==
    /\ SameCall(c, d)
    /\ d.pc = c.pc /\ d.wish = c.wish
    /\ d.branch = [c.branch EXCEPT ![r] = b]

(* A handler's own steps, seen from the call before and after.              *)
PhaseMoves(c, d) ==
    /\ SameCall(c, d)
    /\ \/ /\ c.pc = "preferences" /\ d.pc = "rides"
          /\ d.wish = passengerPreferences[c.passenger]
          /\ d.branch = c.branch
       \/ /\ c.pc = "rides" /\ d.pc = "matching" /\ d.wish = c.wish
          /\ d.branch = [r \in Rides |-> IF ride[r] = "ON_GOING"
                                         THEN [NoBranch EXCEPT !.at = "cache"]
                                         ELSE NoBranch]
       \/ /\ c.pc = "matching" /\ d.pc = "offering" /\ d.wish = c.wish
          /\ \A r \in Rides: c.branch[r].at \in {"none", "out", "matched"}
          /\ d.branch = [r \in Rides |-> IF c.branch[r].at = "matched"
                                         THEN [NoBranch EXCEPT !.at = "seated"]
                                         ELSE c.branch[r]]

(* The branch of a ride from one await to the next.                         *)
NextBranch(c, r, b) ==
    LET a == c.branch[r]
        preferences == driverPreferences[r]
    IN  \/ a.at = "cache" /\ location[r] = None /\ b.at = "out"
        \/ /\ a.at = "cache" /\ b.at = "driver"
           /\ b.fits = (OnRoute(c.passenger, r) /\ IsNear(c.passenger, location[r]))
        \/ /\ a.at = "driver" /\ b.at = "preferences"
           /\ b.fits = (a.fits /\ IsPassengerPreferencesMatched(c.wish, r))
        \/ /\ a.at = "preferences" /\ b.at = "count"
           /\ b.fits = (a.fits /\ IsDriverPreferencesMatched(preferences, c.passenger))
           /\ b.max = SeatLimit(preferences)
        \/ a.at = "count" /\ b.at = "matched" /\ a.fits /\ seated[r] < a.max
        \/ a.at = "count" /\ b.at = "out" /\ ~(a.fits /\ seated[r] < a.max)
        \/ a.at = "seated" /\ b.at = "fare"
        \/ a.at = "fare" /\ b.at = "eta"
        \/ a.at = "eta" /\ b.at = "vehicle"
        \/ a.at = "vehicle" /\ b.at = "offered"

New(d) ==
    /\ \A c \in calls: c.id # d.id
    /\ d.pc = "preferences" /\ d.wish = None
    /\ d.branch = [r \in Rides |-> NoBranch]

Kept == {d \in calls': d \in calls}

(* Where the calls after a step come from.                                  *)
Origin(d) ==
    \/ New(d)
    \/ \E c \in calls: PhaseMoves(c, d)
    \/ \E c \in calls, r \in Rides, b \in Branch: BranchMoves(c, r, b, d) /\ NextBranch(c, r, b)

LEMMA NoBranchIsBranch ==
    /\ NoBranch \in Branch
    /\ NoBranch.at = "none" /\ NoBranch.fits = FALSE /\ NoBranch.max = 0
    /\ \A x \in {"cache", "out", "seated", "fare", "eta", "vehicle", "matched", "offered"}:
           /\ [NoBranch EXCEPT !.at = x] \in Branch
           /\ [NoBranch EXCEPT !.at = x].at = x
  <1>1. NoBranch \in Branch /\ NoBranch.at = "none" /\ NoBranch.fits = FALSE /\ NoBranch.max = 0
    BY DEF NoBranch, Branch
  <1>2. ASSUME NEW x \in {"cache", "out", "seated", "fare", "eta", "vehicle", "matched", "offered"}
        PROVE  [NoBranch EXCEPT !.at = x] \in Branch /\ [NoBranch EXCEPT !.at = x].at = x
    <2>1. x \in Matching \cup Offering \cup {"none", "out", "matched", "offered"}
      BY DEF Matching, Offering
    <2>2. QED
      BY <1>1, <2>1 DEF Branch
  <1>3. QED
    BY <1>1, <1>2

LEMMA BranchMove ==
    ASSUME calls \subseteq Call, NEW c \in calls, NEW r \in Rides, NEW b \in Branch
    PROVE  LET d == [c EXCEPT !.branch[r] = b]
           IN  d \in Call /\ BranchMoves(c, r, b, d)
  BY DEF Call, SameCall, BranchMoves

LEMMA MovesFrom ==
    ASSUME calls \subseteq Call, NEW c \in calls, NEW r \in Rides, NEW b \in Branch,
           Moves(c, r, b), NextBranch(c, r, b)
    PROVE  \E d \in Call: calls' = (calls \ {c}) \cup {d} /\ SameCall(c, d) /\ Origin(d)
  <1> DEFINE d == [c EXCEPT !.branch[r] = b]
  <1>1. d \in Call /\ BranchMoves(c, r, b, d)
    BY BranchMove
  <1>2. calls' = (calls \ {c}) \cup {d}
    BY DEF Moves, Becomes
  <1> HIDE DEF d
  <1>3. Origin(d)
    BY <1>1 DEF Origin
  <1>4. SameCall(c, d)
    BY <1>1 DEF BranchMoves
  <1>5. QED
    BY <1>1, <1>2, <1>3, <1>4

LEMMA SeatLimits ==
    ASSUME TableTypes, SearchAssumption, NEW r \in Rides
    PROVE  /\ SeatLimit(driverPreferences[r]) \in Int
           /\ seated[r] \in Int
           /\ HasFreeSeat(r) <=> seated[r] < SeatLimit(driverPreferences[r])
  <1> DEFINE preferences == driverPreferences[r]
  <1>1. seated[r] \in 0..MaxRows /\ MaxRows \in Nat
    BY DEF TableTypes, SearchAssumption
  <1>2. preferences = None \/ preferences \in DriverPreferences
    BY DEF TableTypes
  <1>3. preferences \in DriverPreferences => preferences.max \in Int
    BY DEF DriverPreferences, SearchAssumption
  <1>4. SeatLimit(preferences) \in Int
    BY <1>2, <1>3 DEF SeatLimit, SearchAssumption
  <1>5. HasFreeSeat(r) <=> seated[r] < SeatLimit(preferences)
    BY DEF HasFreeSeat, SeatLimit
  <1>6. QED
    BY <1>1, <1>4, <1>5

(* One branch step: the call moves on or ends.                              *)
CallStep(c) ==
    \/ Ends(c)
    \/ \E d \in Call: calls' = (calls \ {c}) \cup {d} /\ SameCall(c, d) /\ Origin(d)

LEMMA BranchSteps ==
    ASSUME Types, SearchAssumption, NEW c \in calls, NEW r \in Rides, BranchStep(c, r)
    PROVE  CallStep(c)
  <1> DEFINE a == c.branch[r]
  <1>1. calls \subseteq Call /\ a \in Branch /\ c.passenger \in Passengers
    BY DEF Types, Call
  <1>2. a.fits \in BOOLEAN /\ a.max \in Int
    BY <1>1 DEF Branch
  <1>3. SeatLimit(driverPreferences[r]) \in Int /\ seated[r] \in Int
    BY SeatLimits DEF Types
  <1>4. CASE MatchCache(c, r)
    <2>1. CASE location[r] = None
      <3> DEFINE b == [NoBranch EXCEPT !.at = "out"]
      <3>1. b \in Branch /\ b.at = "out"
        BY NoBranchIsBranch
      <3>2. Moves(c, r, b) /\ a.at = "cache"
        BY <1>4, <2>1 DEF MatchCache
      <3> HIDE DEF b
      <3>3. NextBranch(c, r, b)
        BY <2>1, <3>1, <3>2 DEF NextBranch
      <3>4. QED
        BY <1>1, <3>1, <3>2, <3>3, MovesFrom DEF CallStep
    <2>2. CASE location[r] # None
      <3> DEFINE near == OnRoute(c.passenger, r) /\ IsNear(c.passenger, location[r])
                 b == [at |-> "driver", max |-> 0, fits |-> near]
      <3>0. near \in BOOLEAN
        BY DEF OnRoute, IsNear
      <3>1. b \in Branch /\ b.at = "driver" /\ b.fits = near
        BY <3>0 DEF Branch, Matching
      <3>2. Moves(c, r, b) /\ a.at = "cache"
        BY <1>4, <2>2 DEF MatchCache
      <3> HIDE DEF b
      <3>3. NextBranch(c, r, b)
        BY <3>1, <3>2 DEF NextBranch
      <3>4. QED
        BY <1>1, <3>1, <3>2, <3>3, MovesFrom DEF CallStep
    <2>3. QED
      BY <2>1, <2>2
  <1>5. CASE MatchDriver(c, r)
    <2> DEFINE fits == a.fits /\ IsPassengerPreferencesMatched(c.wish, r)
               b == [a EXCEPT !.at = "preferences", !.fits = fits]
    <2>0. fits \in BOOLEAN
      OBVIOUS
    <2>1. b \in Branch /\ b.at = "preferences" /\ b.fits = fits
      BY <1>1, <2>0 DEF Branch, Matching
    <2>2. Moves(c, r, b) /\ a.at = "driver"
      BY <1>5 DEF MatchDriver
    <2> HIDE DEF b
    <2>3. NextBranch(c, r, b)
      BY <2>1, <2>2 DEF NextBranch
    <2>4. QED
      BY <1>1, <2>1, <2>2, <2>3, MovesFrom DEF CallStep
  <1>6. CASE MatchPreferences(c, r)
    <2> DEFINE preferences == driverPreferences[r]
               fits == a.fits /\ IsDriverPreferencesMatched(preferences, c.passenger)
               b == [at |-> "count", fits |-> fits, max |-> SeatLimit(preferences)]
    <2>0. fits \in BOOLEAN
      OBVIOUS
    <2>1. b \in Branch /\ b.at = "count" /\ b.fits = fits /\ b.max = SeatLimit(preferences)
      BY <1>3, <2>0 DEF Branch, Matching
    <2>2. Moves(c, r, b) /\ a.at = "preferences"
      BY <1>6 DEF MatchPreferences
    <2> HIDE DEF b
    <2>3. NextBranch(c, r, b)
      BY <2>1, <2>2 DEF NextBranch
    <2>4. QED
      BY <1>1, <2>1, <2>2, <2>3, MovesFrom DEF CallStep
  <1>7. CASE MatchCount(c, r)
    <2> DEFINE open == a.fits /\ seated[r] < a.max
               b == [NoBranch EXCEPT !.at = IF open THEN "matched" ELSE "out"]
    <2>1. b \in Branch /\ b.at = (IF open THEN "matched" ELSE "out")
      BY NoBranchIsBranch
    <2>2. ~IsMaxPassengerCountReached(r, a.max) <=> seated[r] < a.max
      BY <1>2, <1>3 DEF IsMaxPassengerCountReached
    <2>3. Moves(c, r, b) /\ a.at = "count"
      BY <1>7, <2>2 DEF MatchCount
    <2> HIDE DEF b
    <2>4. NextBranch(c, r, b)
      BY <2>1, <2>3 DEF NextBranch
    <2>5. QED
      BY <1>1, <2>1, <2>3, <2>4, MovesFrom DEF CallStep
  <1>8. ASSUME NEW x \in {"fare", "eta", "vehicle", "offered"},
               a.at = (CASE x = "fare" -> "seated" [] x = "eta" -> "fare"
                         [] x = "vehicle" -> "eta" [] x = "offered" -> "vehicle"),
               Moves(c, r, [NoBranch EXCEPT !.at = x])
        PROVE  CallStep(c)
    <2> DEFINE b == [NoBranch EXCEPT !.at = x]
    <2>1. b \in Branch /\ b.at = x
      BY NoBranchIsBranch
    <2>2. Moves(c, r, b)
      BY <1>8
    <2> HIDE DEF b
    <2>3. NextBranch(c, r, b)
      BY <1>8, <2>1 DEF NextBranch
    <2>4. QED
      BY <1>1, <2>1, <2>2, <2>3, MovesFrom DEF CallStep
  <1>9. CASE OfferSeated(c, r) \/ OfferFare(c, r) \/ OfferETA(c, r) \/ OfferVehicle(c, r)
    BY <1>8, <1>9 DEF OfferSeated, OfferFare, OfferETA, OfferVehicle, CallStep
  <1>10. QED
    BY <1>4, <1>5, <1>6, <1>7, <1>9 DEF BranchStep

LEMMA HandlerSteps ==
    ASSUME Types, NEW c \in calls, HandlerStep(c)
    PROVE  CallStep(c)
  <1>1. c \in Call /\ c.passenger \in Passengers /\ c.branch \in [Rides -> Branch]
    BY DEF Types, Call
  <1>2. CASE FindPreferences(c)
    <2> DEFINE d == [c EXCEPT !.pc = "rides", !.wish = passengerPreferences[c.passenger]]
    <2>1. passengerPreferences[c.passenger] \in Genders \cup {None}
      BY <1>1 DEF Types, TableTypes
    <2>2. d \in Call /\ PhaseMoves(c, d)
      BY <1>1, <1>2, <2>1 DEF Call, FindPreferences, PhaseMoves, SameCall
    <2>3. calls' = (calls \ {c}) \cup {d}
      BY <1>2 DEF FindPreferences, Becomes
    <2> HIDE DEF d
    <2>4. QED
      BY <2>2, <2>3 DEF CallStep, Origin, PhaseMoves
  <1>3. CASE FindRides(c)
    <2> DEFINE branch == [r \in Rides |-> IF ride[r] = "ON_GOING"
                                          THEN [NoBranch EXCEPT !.at = "cache"]
                                          ELSE NoBranch]
               d == [c EXCEPT !.pc = "matching", !.branch = branch]
    <2>1. branch \in [Rides -> Branch]
      BY NoBranchIsBranch
    <2>2. calls' = (calls \ {c}) \cup {d} /\ c.pc = "rides"
      BY <1>3 DEF FindRides, Becomes
    <2>3. branch = [r \in Rides |-> IF ride[r] = "ON_GOING"
                                    THEN [NoBranch EXCEPT !.at = "cache"]
                                    ELSE NoBranch]
      OBVIOUS
    <2> HIDE DEF branch
    <2>4. /\ d \in Call /\ SameCall(c, d)
          /\ d.pc = "matching" /\ d.wish = c.wish /\ d.branch = branch
      BY <1>1, <2>1 DEF Call, SameCall
    <2> HIDE DEF d
    <2>5. PhaseMoves(c, d)
      BY <2>2, <2>3, <2>4 DEF PhaseMoves
    <2>6. QED
      BY <2>2, <2>4, <2>5 DEF CallStep, Origin
  <1>4. CASE FilterRides(c)
    <2> DEFINE branch == [r \in Rides |-> IF c.branch[r].at = "matched"
                                          THEN [NoBranch EXCEPT !.at = "seated"]
                                          ELSE c.branch[r]]
               d == [c EXCEPT !.pc = "offering", !.branch = branch]
    <2>1. branch \in [Rides -> Branch]
      BY <1>1, NoBranchIsBranch
    <2>2. /\ calls' = (calls \ {c}) \cup {d} /\ c.pc = "matching"
          /\ \A r \in Rides: c.branch[r].at \in {"none", "out", "matched"}
      BY <1>4 DEF FilterRides, Becomes
    <2>3. branch = [r \in Rides |-> IF c.branch[r].at = "matched"
                                    THEN [NoBranch EXCEPT !.at = "seated"]
                                    ELSE c.branch[r]]
      OBVIOUS
    <2> HIDE DEF branch
    <2>4. /\ d \in Call /\ SameCall(c, d)
          /\ d.pc = "offering" /\ d.wish = c.wish /\ d.branch = branch
      BY <1>1, <2>1 DEF Call, SameCall
    <2> HIDE DEF d
    <2>5. PhaseMoves(c, d)
      BY <2>2, <2>3, <2>4 DEF PhaseMoves
    <2>6. QED
      BY <2>2, <2>4, <2>5 DEF CallStep, Origin
  <1>5. CASE Answer(c)
    BY <1>5 DEF Answer, CallStep
  <1>6. QED
    BY <1>2, <1>3, <1>4, <1>5 DEF HandlerStep

(* A search that comes in.                                                  *)
SearchBegins ==
    \E d \in Call: calls' = calls \cup {d} /\ New(d)

LEMMA SearchSteps ==
    ASSUME Types, SearchAssumption, SearchStep
    PROVE  SearchBegins \/ \E c \in calls: CallStep(c)
  <1>1. ASSUME NEW id \in Slots, NEW p \in Passengers, Search(id, p)
        PROVE  SearchBegins
    <2> DEFINE branch == [r \in Rides |-> NoBranch]
               d == [id |-> id, passenger |-> p, pc |-> "preferences",
                     wish |-> None, branch |-> branch]
    <2>1. branch \in [Rides -> Branch]
      BY NoBranchIsBranch
    <2>2. calls' = calls \cup {d} /\ \A c \in calls: c.id # id
      BY <1>1 DEF Search
    <2>3. branch = [r \in Rides |-> NoBranch]
      OBVIOUS
    <2> HIDE DEF branch
    <2>4. /\ d \in Call /\ d.id = id /\ d.pc = "preferences" /\ d.wish = None
          /\ d.branch = branch
      BY <2>1 DEF Call
    <2> HIDE DEF d
    <2>5. QED
      BY <2>2, <2>3, <2>4 DEF SearchBegins, New
  <1>2. ASSUME NEW c \in calls, HandlerStep(c) \/ CallFails(c)
        PROVE  CallStep(c)
    BY <1>2, HandlerSteps DEF CallFails, CallStep
  <1>3. ASSUME NEW c \in calls, NEW r \in Rides, BranchStep(c, r)
        PROVE  CallStep(c)
    BY <1>3, BranchSteps
  <1>4. QED
    BY <1>1, <1>2, <1>3 DEF SearchStep

(* Every call after a step was there before, or the step made it and left   *)
(* the tables alone; and a call keeps its slot to itself.                   *)
CallsAfter ==
    /\ calls' \subseteq Call
    /\ \A d, e \in calls': d.id = e.id => d = e
    /\ \A d \in calls': d \in calls \/ (UNCHANGED tables /\ Origin(d))
    /\ \A d \in calls', c \in calls: c.id = d.id => SameCall(c, d)

LEMMA CallsStep ==
    ASSUME Types, SearchAssumption, [Next]_vars
    PROVE  CallsAfter
  <1>0. calls \subseteq Call /\ OneCallPerSlot
    BY DEF Types
  <1>1. CASE UNCHANGED calls
    BY <1>0, <1>1 DEF CallsAfter, OneCallPerSlot, SameCall
  <1>2. CASE UNCHANGED tables /\ SearchBegins
    BY <1>0, <1>2 DEF CallsAfter, OneCallPerSlot, SameCall, SearchBegins, New, Origin
  <1>3. ASSUME UNCHANGED tables, NEW c \in calls, CallStep(c)
        PROVE  CallsAfter
    <2>1. CASE Ends(c)
      BY <1>0, <2>1 DEF CallsAfter, OneCallPerSlot, SameCall, Ends
    <2>2. CASE \E d \in Call: calls' = (calls \ {c}) \cup {d} /\ SameCall(c, d) /\ Origin(d)
      <3>1. PICK d \in Call: calls' = (calls \ {c}) \cup {d} /\ SameCall(c, d) /\ Origin(d)
        BY <2>2
      <3>2. calls' \subseteq Call
        BY <1>0, <3>1
      <3>3. \A x, y \in calls': x.id = y.id => x = y
        BY <1>0, <3>1 DEF OneCallPerSlot, SameCall
      <3>4. \A x \in calls': x \in calls \/ (UNCHANGED tables /\ Origin(x))
        BY <1>3, <3>1
      <3>5. \A x \in calls', y \in calls: y.id = x.id => SameCall(y, x)
        BY <1>0, <3>1 DEF OneCallPerSlot, SameCall
      <3>6. QED
        BY <3>2, <3>3, <3>4, <3>5 DEF CallsAfter
    <2>3. QED
      BY <1>3, <2>1, <2>2 DEF CallStep
  <1>4. CASE Next
    BY <1>1, <1>2, <1>3, <1>4, SearchSteps DEF Next
  <1>5. QED
    BY <1>1, <1>4 DEF vars

------------------------------------------------------------------------------
(* The tables and what is remembered of them.                               *)

(* Rows are never removed.                                                  *)
RowsStay == \A r \in Rides: seated'[r] \in Int /\ seated[r] \in Int /\ seated[r] <= seated'[r]

LEMMA TablesStep ==
    ASSUME Types, SearchAssumption, [Next]_vars
    PROVE  TableTypes' /\ RowsStay
  <1> USE DEF TableTypes
  <1>0. TableTypes /\ MaxRows \in Nat
    BY DEF Types, SearchAssumption
  <1>1. CASE UNCHANGED tables
    BY <1>0, <1>1 DEF tables, RowsStay
  <1>2. ASSUME NEW r \in Rides, Book(r)
        PROVE  TableTypes' /\ RowsStay
    <2>1. seated' \in [Rides -> 0..MaxRows] /\ RowsStay
      BY <1>0, <1>2 DEF Book, RowsStay
    <2>2. QED
      BY <1>0, <1>2, <2>1 DEF Book
  <1>3. CASE \E r \in Rides: DeleteRide(r)
    BY <1>0, <1>3 DEF DeleteRide, RowsStay, RideStatus
  <1>4. CASE \E r \in Rides, status \in RideStatus: UpdateRide(r, status)
    BY <1>0, <1>4 DEF UpdateRide, RowsStay, RideStatus
  <1>5. CASE \E r \in Rides, place \in Locations \cup {Unknown, None}: Relocate(r, place)
    BY <1>0, <1>5 DEF Relocate, RowsStay
  <1>6. CASE \E r \in Rides, preferences \in DriverPreferences:
                 UpsertDriverRidePreferences(r, preferences)
    BY <1>0, <1>6 DEF UpsertDriverRidePreferences, RowsStay
  <1>7. CASE \E p \in Passengers, gender \in Genders: UpsertPassengerRidePreferences(p, gender)
    BY <1>0, <1>7 DEF UpsertPassengerRidePreferences, RowsStay
  <1>8. CASE FlushVehicles
    BY <1>0, <1>8 DEF FlushVehicles, RowsStay
  <1>9. CASE Next
    BY <1>1, <1>2, <1>3, <1>4, <1>5, <1>6, <1>7, <1>8, <1>9 DEF Next, RideStep
  <1>10. QED
    BY <1>1, <1>9 DEF vars

(* A condition a ride meets after the step has been seen by every search.   *)
Seen(d) ==
    \A r \in Rides, k \in Conditions:
        Meets(r, d.passenger, k) => <<r, k>> \in sometime[d.id]

(* A ride that has been right all the time is right, and was before the     *)
(* step, with the same driver's preferences.                                *)
Stayed(d) ==
    \A r \in always'[d.id]:
        /\ r \in Rides
        /\ \A k \in Conditions: Meets(r, d.passenger, k)'
        /\ \A c \in calls: c.id = d.id =>
               r \in always[d.id] /\ driverPreferences'[r] = driverPreferences[r]

LEMMA HistoryStep ==
    ASSUME Types, SearchAssumption, Next, CallsAfter
    PROVE  /\ HistoryTypes'
           /\ \A d \in calls': Seen(d)' /\ Stayed(d)
           /\ \A d \in calls', c \in calls: c.id = d.id => sometime[c.id] \subseteq sometime'[d.id]
  <1> DEFINE S(id) == IF Searching(id)' THEN sometime[id] \cup Meeting(id)' ELSE {}
             A(id) == IF Searching(id) THEN always[id] \cap Settled \cap MeetingAll(id)'
                      ELSE MeetingAll(id)'
  <1>1. sometime' = [id \in Slots |-> S(id)] /\ always' = [id \in Slots |-> A(id)]
    BY DEF Next, TrackHistory
  <1>2. \A id \in Slots: S(id) \subseteq Rides \X Conditions /\ A(id) \subseteq Rides
    BY DEF Types, HistoryTypes, Meeting, MeetingAll
  <1>3. HistoryTypes'
    <2> HIDE DEF S, A
    <2>1. QED
      BY <1>1, <1>2 DEF HistoryTypes
  <1>4. ASSUME NEW d \in calls'
        PROVE  Seen(d)' /\ Stayed(d)
    <2>1. d.id \in Slots /\ Searching(d.id)'
      BY <1>4 DEF CallsAfter, Call, Searching
    <2>2. sometime'[d.id] = sometime[d.id] \cup Meeting(d.id)'
      BY <1>1, <2>1
    <2>3. ASSUME NEW r \in Rides, NEW k \in Conditions, Meets(r, d.passenger, k)'
          PROVE  <<r, k>> \in Meeting(d.id)'
      BY <1>4, <2>3 DEF Meeting
    <2>4. Seen(d)'
      BY <2>2, <2>3 DEF Seen
    <2>5. ASSUME NEW r \in always'[d.id]
          PROVE  /\ r \in MeetingAll(d.id)'
                 /\ Searching(d.id) => r \in always[d.id] /\ r \in Settled
      BY <1>1, <2>1, <2>5
    <2>6. ASSUME NEW r \in MeetingAll(d.id)', NEW k \in Conditions
          PROVE  r \in Rides /\ Meets(r, d.passenger, k)'
      <3>1. r \in Rides /\ <<r, k>> \in Meeting(d.id)'
        BY <2>6 DEF MeetingAll
      <3>2. PICK e \in calls': e.id = d.id /\ Meets(r, e.passenger, k)'
        BY <3>1 DEF Meeting
      <3>3. e = d
        BY <1>4, <3>2 DEF CallsAfter
      <3>4. QED
        BY <3>1, <3>2, <3>3
    <2>7. "near" \in Conditions
      BY DEF Conditions
    <2>8. Stayed(d)
      BY <2>5, <2>6, <2>7 DEF Stayed, Settled, Searching
    <2>9. QED
      BY <2>4, <2>8
  <1>5. ASSUME NEW d \in calls', NEW c \in calls, c.id = d.id
        PROVE  sometime[c.id] \subseteq sometime'[d.id]
    <2>1. d.id \in Slots /\ Searching(d.id)'
      BY <1>5 DEF CallsAfter, Call, Searching
    <2>2. QED
      BY <1>1, <1>5, <2>1
  <1>6. QED
    BY <1>3, <1>4, <1>5

LEMMA TypesStep ==
    ASSUME Types, SearchAssumption, [Next]_vars
    PROVE  Types'
  <1>1. CallsAfter /\ TableTypes'
    BY CallsStep, TablesStep
  <1>2. (calls \subseteq Call)' /\ OneCallPerSlot'
    BY <1>1 DEF CallsAfter, OneCallPerSlot
  <1>3. HistoryTypes'
    BY <1>1, HistoryStep DEF vars, history, HistoryTypes, Types
  <1>4. QED
    BY <1>1, <1>2, <1>3 DEF Types

LEMMA InitTypes ==
    ASSUME SearchAssumption, Init
    PROVE  Types
  <1>1. TableTypes
    BY DEF Init, TableTypes, RideStatus, SearchAssumption
  <1>2. QED
    BY <1>1 DEF Types, Init, OneCallPerSlot, HistoryTypes

(* The tables, the searches and what is remembered keep their types, and a  *)
(* slot serves one search at a time.                                        *)
THEOREM TypeCorrect == Spec => []TypeOK
  <1>1. Init => Types
    BY InitTypes, SearchAssumption
  <1>2. Types /\ [Next]_vars => Types'
    BY TypesStep, SearchAssumption
  <1>3. Types => TypeOK
    BY DEF Types, TypeOK, TableTypes, OneCallPerSlot, HistoryTypes
  <1>4. QED
    BY <1>1, <1>2, <1>3, PTL DEF Spec

------------------------------------------------------------------------------
(* What a call has found of a ride has been seen.                           *)

Founded(c, r, seen) ==
    LET a == c.branch[r]
        S(k) == <<r, k>> \in seen
    IN  /\ c.pc \in {"preferences", "rides"} => a.at = "none"
        /\ c.pc # "preferences" /\ c.wish \in {None, Gender[r]} => S("wished")
        /\ a.at # "none" => S("onGoing")
        /\ a.at \in {"driver", "preferences", "count"} /\ a.fits => S("onRoute") /\ S("near")
        /\ a.at \in {"preferences", "count"} /\ a.fits => S("wished")
        /\ a.at = "count" /\ a.fits => S("welcome")
        /\ a.at = "count" /\ seated[r] < a.max => S("seat")
        /\ a.at \in Offering \cup {"matched", "offered"} => \A k \in Conditions: S(k)

SeenInv == \A c \in calls: Seen(c)
IsFounded(c, r) == Founded(c, r, sometime[c.id])
FoundedInv == \A c \in calls, r \in Rides: IsFounded(c, r)

LEMMA FoundedStays ==
    ASSUME NEW c, NEW d, NEW r \in Rides, sometime[c.id] \subseteq sometime'[d.id], RowsStay,
           d.branch[r].max \in Int, Founded(d, r, sometime[c.id])
    PROVE  IsFounded(d, r)'
  <1>1. seated'[r] < d.branch[r].max => seated[r] < d.branch[r].max
    BY DEF RowsStay
  <1>2. \A k: <<r, k>> \in sometime[c.id] => <<r, k>> \in sometime'[d.id]
    OBVIOUS
  <1>3. QED
    BY <1>1, <1>2 DEF Founded, IsFounded

(* What the tables show is seen.                                            *)
LEMMA SeenNow ==
    ASSUME NEW c, NEW r \in Rides, Seen(c)
    PROVE  LET S(k) == <<r, k>> \in sometime[c.id]
           IN  /\ ride[r] = "ON_GOING" => S("onGoing")
               /\ OnRoute(c.passenger, r) => S("onRoute")
               /\ IsNear(c.passenger, location[r]) => S("near")
               /\ passengerPreferences[c.passenger] \in {None, Gender[r]} => S("wished")
               /\ IsDriverPreferencesMatched(driverPreferences[r], c.passenger) => S("welcome")
               /\ HasFreeSeat(r) => S("seat")
  <1>1. \A k \in Conditions: Meets(r, c.passenger, k) => <<r, k>> \in sometime[c.id]
    BY DEF Seen
  <1>2. {"onGoing", "onRoute", "near", "wished", "welcome", "seat"} \subseteq Conditions
    BY DEF Conditions
  <1>3. QED
    BY <1>1, <1>2 DEF Meets, IsDriverPreferencesMatched

LEMMA FoundedPhase ==
    ASSUME Types, SearchAssumption, NEW c \in calls, NEW d, PhaseMoves(c, d), Seen(c),
           NEW r \in Rides, Founded(c, r, sometime[c.id])
    PROVE  Founded(d, r, sometime[c.id])
  <1> DEFINE seen == sometime[c.id]
             a == c.branch[r]
             b == d.branch[r]
  <1>1. CASE c.pc = "preferences"
    <2>1. /\ d.pc = "rides" /\ b = a /\ a.at = "none"
          /\ d.wish \in {None, Gender[r]} => <<r, "wished">> \in seen
      BY <1>1, SeenNow DEF PhaseMoves, Founded
    <2>2. QED
      BY <2>1 DEF Founded, Offering
  <1>2. CASE c.pc = "rides"
    <2>1. /\ d.pc = "matching" /\ d.wish = c.wish
          /\ b = IF ride[r] = "ON_GOING" THEN [NoBranch EXCEPT !.at = "cache"] ELSE NoBranch
      BY <1>2 DEF PhaseMoves
    <2>2. b.at = "none" \/ (b.at = "cache" /\ <<r, "onGoing">> \in seen)
      BY <2>1, NoBranchIsBranch, SeenNow
    <2>3. d.wish \in {None, Gender[r]} => <<r, "wished">> \in seen
      BY <1>2, <2>1 DEF Founded
    <2>4. QED
      BY <2>1, <2>2, <2>3 DEF Founded, Offering
  <1>3. CASE c.pc = "matching"
    <2>1. /\ d.pc = "offering" /\ d.wish = c.wish
          /\ a.at \in {"none", "out", "matched"}
          /\ b = IF a.at = "matched" THEN [NoBranch EXCEPT !.at = "seated"] ELSE a
      BY <1>3 DEF PhaseMoves
    <2>2. d.wish \in {None, Gender[r]} => <<r, "wished">> \in seen
      BY <1>3, <2>1 DEF Founded
    <2>3. a.at # "none" => <<r, "onGoing">> \in seen
      BY DEF Founded
    <2>4. a.at = "matched" => \A k \in Conditions: <<r, k>> \in seen
      BY DEF Founded
    <2>5. b.at = IF a.at = "matched" THEN "seated" ELSE a.at
      BY <2>1, NoBranchIsBranch
    <2>6. QED
      BY <2>1, <2>2, <2>3, <2>4, <2>5 DEF Founded, Offering
  <1>4. QED
    BY <1>1, <1>2, <1>3 DEF PhaseMoves

LEMMA FoundedBranch ==
    ASSUME Types, SearchAssumption, NEW c \in calls, Seen(c), NEW d, NEW q \in Rides,
           NEW b \in Branch, BranchMoves(c, q, b, d), NextBranch(c, q, b),
           NEW r \in Rides, Founded(c, r, sometime[c.id])
    PROVE  Founded(d, r, sometime[c.id])
  <1> DEFINE seen == sometime[c.id]
             a == c.branch[r]
  <1>0. c.branch \in [Rides -> Branch] /\ d.pc = c.pc /\ d.wish = c.wish
    BY DEF Types, Call, BranchMoves
  <1>1. CASE r # q
    <2>1. d.branch[r] = a
      BY <1>0, <1>1 DEF BranchMoves
    <2>2. QED
      BY <1>0, <2>1 DEF Founded
  <1>2. CASE r = q
    <2>1. d.branch[r] = b /\ NextBranch(c, r, b)
      BY <1>0, <1>2 DEF BranchMoves
    <2>2. c.pc \notin {"preferences", "rides"} /\ <<r, "onGoing">> \in seen
      BY <2>1 DEF Founded, NextBranch
    <2>3. c.wish \in {None, Gender[r]} => <<r, "wished">> \in seen
      BY <2>2 DEF Founded
    <2>4. IsPassengerPreferencesMatched(c.wish, r) => <<r, "wished">> \in seen
      BY <2>3 DEF IsPassengerPreferencesMatched
    <2>5. seated[r] < SeatLimit(driverPreferences[r]) => <<r, "seat">> \in seen
      BY SeatLimits, SeenNow DEF Types
    <2>6. b.at \in {"driver", "preferences", "count"} /\ b.fits
              => <<r, "onRoute">> \in seen /\ <<r, "near">> \in seen
      BY <2>1, SeenNow DEF NextBranch, Founded
    <2>7. b.at \in {"preferences", "count"} /\ b.fits => <<r, "wished">> \in seen
      BY <2>1, <2>4 DEF NextBranch, Founded
    <2>8. b.at = "count" /\ b.fits => <<r, "welcome">> \in seen
      BY <2>1, SeenNow DEF NextBranch, Founded
    <2>9. b.at = "count" /\ seated[r] < b.max => <<r, "seat">> \in seen
      BY <2>1, <2>5 DEF NextBranch
    <2>10. b.at \in Offering \cup {"matched", "offered"} => \A k \in Conditions: <<r, k>> \in seen
      <3>1. CASE a.at = "count" /\ b.at = "matched" /\ a.fits /\ seated[r] < a.max
        BY <2>2, <3>1 DEF Founded, Conditions
      <3>2. CASE a.at \in Offering \cup {"matched", "offered"}
        BY <3>2 DEF Founded
      <3>3. QED
        BY <2>1, <3>1, <3>2 DEF NextBranch, Offering
    <2>11. QED
      BY <1>0, <2>1, <2>2, <2>3, <2>6, <2>7, <2>8, <2>9, <2>10 DEF Founded
  <1>3. QED
    BY <1>1, <1>2

LEMMA FoundedStep ==
    ASSUME Types, SearchAssumption, SeenInv, FoundedInv, [Next]_vars
    PROVE  SeenInv' /\ FoundedInv'
  <1>1. CallsAfter /\ RowsStay /\ Types'
    BY CallsStep, TablesStep, TypesStep
  <1>2. CASE UNCHANGED vars
    <2>1. UNCHANGED <<tables, calls, history>>
      BY <1>2 DEF vars
    <2>2. SeenInv'
      BY <2>1 DEF SeenInv, Seen, Meets, HasFreeSeat, tables, history
    <2>3. ASSUME NEW c \in calls, NEW r \in Rides
          PROVE  IsFounded(c, r) <=> IsFounded(c, r)'
      <3>1. seated' = seated /\ sometime' = sometime
        BY <2>1 DEF tables, history
      <3>2. QED
        BY <3>1 DEF IsFounded, Founded
    <2>4. QED
      BY <2>1, <2>2, <2>3 DEF FoundedInv
  <1>3. CASE Next
    <2>1. \A d \in calls': Seen(d)'
      BY <1>1, <1>3, HistoryStep
    <2>2. \A d \in calls', c \in calls: c.id = d.id => sometime[c.id] \subseteq sometime'[d.id]
      BY <1>1, <1>3, HistoryStep
    <2>3. ASSUME NEW d \in calls', NEW r \in Rides
          PROVE  IsFounded(d, r)'
      <3>1. d.branch[r].max \in Int
        BY <1>1 DEF CallsAfter, Call, Branch
      <3>2. ASSUME NEW c \in calls, c.id = d.id, Founded(d, r, sometime[c.id])
            PROVE  IsFounded(d, r)'
        <4>1. sometime[c.id] \subseteq sometime'[d.id]
          BY <2>2, <3>2
        <4>2. QED
          BY <1>1, <3>1, <3>2, <4>1, FoundedStays
      <3>3. CASE d \in calls
        BY <3>2, <3>3 DEF FoundedInv, IsFounded
      <3>4. CASE New(d)
        <4>1. d.pc = "preferences" /\ d.branch[r].at = "none"
          BY <3>4, NoBranchIsBranch DEF New
        <4>2. QED
          BY <4>1 DEF IsFounded, Founded, Offering
      <3>5. ASSUME NEW c \in calls, PhaseMoves(c, d)
            PROVE  IsFounded(d, r)'
        BY <3>2, <3>5, FoundedPhase DEF PhaseMoves, SameCall, SeenInv, FoundedInv, IsFounded
      <3>6. ASSUME NEW c \in calls, NEW q \in Rides, NEW b \in Branch,
                   BranchMoves(c, q, b, d), NextBranch(c, q, b)
            PROVE  IsFounded(d, r)'
        BY <3>2, <3>6, FoundedBranch DEF BranchMoves, SameCall, SeenInv, FoundedInv, IsFounded
      <3>7. QED
        BY <1>1, <3>3, <3>4, <3>5, <3>6 DEF CallsAfter, Origin
    <2>4. QED
      BY <2>1, <2>3 DEF SeenInv, FoundedInv
  <1>4. QED
    BY <1>2, <1>3

(* Whatever the tables do between the awaits of a search, a ride is only    *)
(* offered if each condition was met at some moment since the search came   *)
(* in.                                                                      *)
THEOREM OffersWereRightAlways == Spec => []OffersWereRight
  <1> DEFINE Inv == Types /\ SeenInv /\ FoundedInv
  <1>1. Init => Inv
    BY InitTypes, SearchAssumption DEF Init, SeenInv, FoundedInv
  <1>2. Inv /\ [Next]_vars => Inv'
    BY TypesStep, FoundedStep, SearchAssumption
  <1>3. Inv => OffersWereRight
    BY DEF FoundedInv, IsFounded, Founded, OffersWereRight
  <1> HIDE DEF Inv
  <1>4. QED
    BY <1>1, <1>2, <1>3, PTL DEF Spec

------------------------------------------------------------------------------
(* A ride that has been right all the time is still a candidate.            *)

AllMet(c, r) == \A k \in Conditions: Meets(r, c.passenger, k)

Considered(c, r) ==
    LET a == c.branch[r]
    IN  /\ c.pc # "preferences" => c.wish \in {None, Gender[r]}
        /\ c.pc \in {"matching", "offering"} => a.at \notin {"none", "out"}
        /\ a.at \in {"driver", "preferences", "count"} => a.fits
        /\ a.at = "count" => a.max = SeatLimit(driverPreferences[r])

RightNow(c) == \A r \in always[c.id]: r \in Rides /\ AllMet(c, r)
RightInv == \A c \in calls: RightNow(c)
ConsideredInv == \A c \in calls: \A r \in always[c.id]: Considered(c, r)

LEMMA MetNow ==
    ASSUME NEW c, NEW r, AllMet(c, r)
    PROVE  /\ ride[r] = "ON_GOING"
           /\ OnRoute(c.passenger, r)
           /\ IsNear(c.passenger, location[r])
           /\ passengerPreferences[c.passenger] \in {None, Gender[r]}
           /\ IsDriverPreferencesMatched(driverPreferences[r], c.passenger)
           /\ HasFreeSeat(r)
  <1>1. {"onGoing", "onRoute", "near", "wished", "welcome", "seat"} \subseteq Conditions
    BY DEF Conditions
  <1>2. QED
    BY <1>1 DEF AllMet, Meets, IsDriverPreferencesMatched

LEMMA ConsideredPhase ==
    ASSUME NEW c \in calls, NEW d, PhaseMoves(c, d),
           NEW r \in Rides, AllMet(c, r), Considered(c, r), IsFounded(c, r)
    PROVE  Considered(d, r)
  <1> DEFINE a == c.branch[r]
             b == d.branch[r]
  <1>1. CASE c.pc = "preferences"
    <2>1. d.pc = "rides" /\ b = a /\ d.wish \in {None, Gender[r]}
      BY <1>1, MetNow DEF PhaseMoves
    <2>2. a.at = "none"
      BY <1>1 DEF IsFounded, Founded
    <2>3. QED
      BY <2>1, <2>2 DEF Considered
  <1>2. CASE c.pc = "rides"
    <2>1. d.pc = "matching" /\ d.wish = c.wish /\ b = [NoBranch EXCEPT !.at = "cache"]
      BY <1>2, MetNow DEF PhaseMoves
    <2>2. b.at = "cache"
      BY <2>1, NoBranchIsBranch
    <2>3. QED
      BY <1>2, <2>1, <2>2 DEF Considered
  <1>3. CASE c.pc = "matching"
    <2>1. a.at = "matched"
      BY <1>3 DEF PhaseMoves, Considered
    <2>2. d.pc = "offering" /\ d.wish = c.wish /\ b = [NoBranch EXCEPT !.at = "seated"]
      BY <1>3, <2>1 DEF PhaseMoves
    <2>3. b.at = "seated"
      BY <2>2, NoBranchIsBranch
    <2>4. QED
      BY <1>3, <2>2, <2>3 DEF Considered
  <1>4. QED
    BY <1>1, <1>2, <1>3 DEF PhaseMoves

LEMMA ConsideredBranch ==
    ASSUME Types, SearchAssumption, NEW c \in calls, NEW d, NEW q \in Rides, NEW b \in Branch,
           BranchMoves(c, q, b, d), NextBranch(c, q, b),
           NEW r \in Rides, AllMet(c, r), Considered(c, r), IsFounded(c, r)
    PROVE  Considered(d, r)
  <1> DEFINE a == c.branch[r]
  <1>0. c.branch \in [Rides -> Branch] /\ d.pc = c.pc /\ d.wish = c.wish
    BY DEF Types, Call, BranchMoves
  <1>1. CASE r # q
    <2>1. d.branch[r] = a
      BY <1>0, <1>1 DEF BranchMoves
    <2>2. QED
      BY <1>0, <2>1 DEF Considered
  <1>2. CASE r = q
    <2>1. d.branch[r] = b /\ NextBranch(c, r, b)
      BY <1>0, <1>2 DEF BranchMoves
    <2>2. c.pc # "preferences" /\ c.wish \in {None, Gender[r]}
      BY <2>1 DEF IsFounded, Founded, NextBranch, Considered
    <2>3. location[r] # None
      BY MetNow DEF IsNear, SearchAssumption
    <2>4. a.at = "count" => a.fits /\ seated[r] < a.max
      BY MetNow, SeatLimits DEF Considered, Types
    <2>5. b.at \notin {"none", "out"}
      BY <2>1, <2>3, <2>4 DEF NextBranch
    <2>6. b.at \in {"driver", "preferences", "count"} => b.fits
      BY <2>1, <2>2, MetNow DEF NextBranch, Considered, IsPassengerPreferencesMatched
    <2>7. b.at = "count" => b.max = SeatLimit(driverPreferences[r])
      BY <2>1 DEF NextBranch
    <2>8. QED
      BY <1>0, <2>1, <2>2, <2>5, <2>6, <2>7 DEF Considered
  <1>3. QED
    BY <1>1, <1>2

LEMMA ConsideredStep ==
    ASSUME Types, SearchAssumption, FoundedInv, RightInv, ConsideredInv, [Next]_vars
    PROVE  RightInv' /\ ConsideredInv'
  <1>1. CallsAfter
    BY CallsStep
  <1>2. CASE UNCHANGED vars
    <2>1. UNCHANGED <<tables, calls, history>>
      BY <1>2 DEF vars
    <2>2. \A c \in calls: RightNow(c) <=> RightNow(c)'
      BY <2>1 DEF RightNow, AllMet, Meets, HasFreeSeat, tables, history
    <2>3. \A c \in calls: \A r \in always[c.id]: Considered(c, r) <=> Considered(c, r)'
      BY <2>1 DEF Considered, tables
    <2>4. always' = always
      BY <2>1 DEF history
    <2>5. QED
      BY <2>1, <2>2, <2>3, <2>4 DEF RightInv, ConsideredInv
  <1>3. CASE Next
    <2>1. \A d \in calls': Stayed(d)
      BY <1>1, <1>3, HistoryStep
    <2>2. RightInv'
      BY <2>1 DEF RightInv, RightNow, AllMet, Stayed
    <2>3. ASSUME NEW d \in calls', NEW r \in always'[d.id]
          PROVE  Considered(d, r)'
      <3>1. /\ r \in Rides
            /\ \A c \in calls: c.id = d.id =>
                   r \in always[c.id] /\ driverPreferences'[r] = driverPreferences[r]
        BY <2>1, <2>3 DEF Stayed
      <3>2. ASSUME NEW c \in calls, c.id = d.id
            PROVE  /\ AllMet(c, r) /\ Considered(c, r) /\ IsFounded(c, r)
                   /\ Considered(d, r) => Considered(d, r)'
        <4>1. r \in always[c.id] /\ driverPreferences'[r] = driverPreferences[r]
          BY <3>1, <3>2
        <4>2. Considered(d, r) => Considered(d, r)'
          BY <4>1 DEF Considered
        <4>3. QED
          BY <3>1, <4>1, <4>2 DEF RightInv, RightNow, ConsideredInv, FoundedInv
      <3>3. CASE d \in calls
        BY <3>2, <3>3
      <3>4. CASE New(d)
        <4>1. d.pc = "preferences" /\ d.branch[r].at = "none"
          BY <3>1, <3>4, NoBranchIsBranch DEF New
        <4>2. QED
          BY <4>1 DEF Considered
      <3>5. ASSUME NEW c \in calls, PhaseMoves(c, d)
            PROVE  Considered(d, r)'
        <4>1. c.id = d.id
          BY <3>5 DEF PhaseMoves, SameCall
        <4>2. QED
          BY <3>1, <3>2, <3>5, <4>1, ConsideredPhase
      <3>6. ASSUME NEW c \in calls, NEW q \in Rides, NEW b \in Branch,
                   BranchMoves(c, q, b, d), NextBranch(c, q, b)
            PROVE  Considered(d, r)'
        <4>1. c.id = d.id
          BY <3>6 DEF BranchMoves, SameCall
        <4>2. QED
          BY <3>1, <3>2, <3>6, <4>1, ConsideredBranch
      <3>7. QED
        BY <1>1, <3>3, <3>4, <3>5, <3>6 DEF CallsAfter, Origin
    <2>4. QED
      BY <2>2, <2>3 DEF ConsideredInv
  <1>4. QED
    BY <1>2, <1>3

(* A ride that has met every condition since a search came in, with the     *)
(* same preferences of its driver, is among those offered, unless the       *)
(* search fails as a whole.                                                 *)
THEOREM RightRidesAreOfferedAlways == Spec => []RightRidesAreOffered
  <1> DEFINE Inv == Types /\ SeenInv /\ FoundedInv /\ RightInv /\ ConsideredInv
  <1>1. Init => Inv
    BY InitTypes, SearchAssumption DEF Init, SeenInv, FoundedInv, RightInv, ConsideredInv
  <1>2. Inv /\ [Next]_vars => Inv'
    BY TypesStep, FoundedStep, ConsideredStep, SearchAssumption
  <1>3. Inv => RightRidesAreOffered
    BY DEF ConsideredInv, Considered, RightRidesAreOffered
  <1> HIDE DEF Inv
  <1>4. QED
    BY <1>1, <1>2, <1>3, PTL DEF Spec
==============================================================================
