----------------------------- MODULE RideSearch -----------------------------
(***************************************************************************)
(* findRidesForPassenger (backend/src/ride/services/ride.service.ts): the  *)
(* rides a passenger is offered.  A search only reads, but it reads        *)
(* tables, preferences and the location cache at some ten awaits, one      *)
(* branch per ride side by side, while rides fill up, end, are deleted and *)
(* move.                                                                   *)
(*                                                                         *)
(* Each ride has a driver of its own, so what is said of a driver is kept  *)
(* under the ride.  All rides are in the passenger's city.  Definitions    *)
(* marked "mistake" are plausible bugs that no behaviour uses.             *)
(***************************************************************************)
EXTENDS RouteMatching, FiniteSets

CONSTANTS
    Rides, Passengers,
    Gender,             \* of each passenger and of each ride's driver
    Route,              \* polygonPoints of each ride
    Skew,               \* of each ride's road, see IsNearSegment
    Source, Destination,    \* of each passenger
    Locations,          \* points drivers report
    SourceThreshold, DestinationThreshold, DriverThreshold,
    MaxNumberOfPassengers,  \* where the driver has no preferences
    Maxima,             \* what drivers may prefer instead
    MaxRows,            \* the bound on rows of a ride
    Slots,              \* the bound on searches served at the same time
    Unknown,            \* the empty location
    None

Genders == {"MALE", "FEMALE"}
DriverPreferences == [gender: Genders, max: Maxima]

ASSUME SearchAssumption ==
    /\ Gender \in [Passengers \cup Rides -> Genders]
    /\ \A r \in Rides: Skew[r] \in Nat /\ Skew[r] >= 100
    /\ MaxNumberOfPassengers \in Int
    /\ Maxima \subseteq Int
    /\ MaxRows \in Nat
    /\ Unknown \notin Locations
    /\ None \notin Locations \cup {Unknown}
    /\ None \notin DriverPreferences
    /\ None \notin Genders

VARIABLES
    ride,                   \* Ride.rideStatus, or "deleted"
    seated,                 \* how many rows PassengersOnRide has for each ride
    location,               \* the driver's location in the cache entry, None without one
    driverPreferences,      \* of each ride's driver, None if never given
    passengerPreferences,   \* the gender a passenger prefers, None if never given
    vehicles,               \* rides whose driver has a vehicle: not every seeded driver does
    calls,                  \* searches being served
    sometime,               \* history: the conditions each ride has met since a search came in
    always                  \* history: the rides that have met them all, ever since

tables == <<ride, seated, location, driverPreferences, passengerPreferences, vehicles>>
history == <<sometime, always>>
vars == <<tables, calls, history>>

RideStatus == {"ON_GOING", "COMPLETED", "CANCELLED"}

(* Where the branch of a ride is: what it awaits, or its outcome.  While    *)
(* matching, fits says what has been found so far and max is the seat limit *)
(* that applies.                                                            *)
Matching == {"cache", "driver", "preferences", "count"}
Offering == {"seated", "fare", "eta", "vehicle"}
Branch == [at: Matching \cup Offering \cup {"none", "out", "matched", "offered"},
           fits: BOOLEAN, max: Int]
NoBranch == [at |-> "none", fits |-> FALSE, max |-> 0]

Call == [id: Slots, passenger: Passengers,
         pc: {"preferences", "rides", "matching", "offering"},
         wish: Genders \cup {None}, branch: [Rides -> Branch]]

Init ==
    /\ ride = [r \in Rides |-> "ON_GOING"]
    /\ seated = [r \in Rides |-> 0]
    /\ location = [r \in Rides |-> None]
    /\ driverPreferences = [r \in Rides |-> None]
    /\ passengerPreferences = [p \in Passengers |-> None]
    /\ vehicles \in SUBSET Rides
    /\ calls = {}
    /\ sometime = [id \in Slots |-> {}]
    /\ always = [id \in Slots |-> {}]

------------------------------------------------------------------------------
(* What a search looks for.                                                 *)

OnRoute(p, r) ==
    /\ IsPointOnRouteWithinThreshold(Source[p], Route[r], SourceThreshold, Skew[r])
    /\ IsPointOnRouteWithinThreshold(Destination[p], Route[r], DestinationThreshold, Skew[r])

(* Without a location the distance is not a number, and not within anything.*)
IsNear(p, place) ==
    place \in Locations /\ ArePointsWithinThreshold(Source[p], place, DriverThreshold)

(* matchPreferences: somebody without preferences takes anybody.            *)
\* mistake: and here nobody
PassengerMatches(wish, r) == wish = Gender[r]
IsPassengerPreferencesMatched(wish, r) == wish = None \/ wish = Gender[r]
IsDriverPreferencesMatched(preferences, p) ==
    preferences = None \/ preferences.gender = Gender[p]

SeatLimit(preferences) ==
    IF preferences = None THEN MaxNumberOfPassengers ELSE preferences.max

\* mistake: one passenger too many
IsMaxPassengerCountExceeded(r, max) == seated[r] > max
IsMaxPassengerCountReached(r, max) == seated[r] >= max

------------------------------------------------------------------------------
(* The rest of the service.  Rows are inserted whatever the ride's status   *)
(* and however many there are, and removed never.                           *)

Book(r) ==
    /\ ride[r] # "deleted"
    /\ seated[r] < MaxRows
    /\ seated' = [seated EXCEPT ![r] = @ + 1]
    /\ UNCHANGED <<ride, location, driverPreferences, passengerPreferences, vehicles>>

UpdateRide(r, status) ==
    /\ ride[r] # "deleted"
    /\ ride' = [ride EXCEPT ![r] = status]
    /\ UNCHANGED <<seated, location, driverPreferences, passengerPreferences, vehicles>>

DeleteRide(r) ==
    /\ seated[r] = 0
    /\ ride' = [ride EXCEPT ![r] = "deleted"]
    /\ UNCHANGED <<seated, location, driverPreferences, passengerPreferences, vehicles>>

(* A driver reports, a passenger's report makes an entry without the        *)
(* driver's location, or the entry is lost.                                 *)
Relocate(r, place) ==
    /\ place = Unknown => location[r] = None
    /\ location' = [location EXCEPT ![r] = place]
    /\ UNCHANGED <<ride, seated, driverPreferences, passengerPreferences, vehicles>>

(* Once there are preferences the update reads preferences[0] of a single   *)
(* object and throws: what a driver prefers never changes.                  *)
UpsertDriverRidePreferences(r, preferences) ==
    /\ driverPreferences[r] = None
    /\ driverPreferences' = [driverPreferences EXCEPT ![r] = preferences]
    /\ UNCHANGED <<ride, seated, location, passengerPreferences, vehicles>>

UpsertPassengerRidePreferences(p, gender) ==
    /\ passengerPreferences' = [passengerPreferences EXCEPT ![p] = gender]
    /\ UNCHANGED <<ride, seated, location, driverPreferences, vehicles>>

(* Flushing the seed data removes vehicles first and may stop there.        *)
FlushVehicles ==
    /\ vehicles' = {}
    /\ UNCHANGED <<ride, seated, location, driverPreferences, passengerPreferences>>

------------------------------------------------------------------------------
(* A search.                                                                *)

Becomes(c, d) == calls' = (calls \ {c}) \cup {d}
Ends(c) == calls' = calls \ {c}

Search(id, p) ==
    /\ \A c \in calls: c.id # id
    /\ calls' = calls \cup {[id |-> id, passenger |-> p, pc |-> "preferences",
                             wish |-> None, branch |-> [r \in Rides |-> NoBranch]]}

(* The passenger's preferences, then the user row, where the gender stands: *)
(* that PUT user/:id may change it is left out.                             *)
FindPreferences(c) ==
    /\ c.pc = "preferences"
    /\ Becomes(c, [c EXCEPT !.pc = "rides", !.wish = passengerPreferences[c.passenger]])

FindRides(c) ==
    /\ c.pc = "rides"
    /\ Becomes(c, [c EXCEPT !.pc = "matching", !.branch =
                      [r \in Rides |-> IF ride[r] = "ON_GOING"
                                       THEN [NoBranch EXCEPT !.at = "cache"]
                                       ELSE NoBranch]])

Moves(c, r, branch) == Becomes(c, [c EXCEPT !.branch[r] = branch])

MatchCache(c, r) ==
    /\ c.branch[r].at = "cache"
    /\ Moves(c, r, IF location[r] = None THEN [NoBranch EXCEPT !.at = "out"]
                   ELSE [at |-> "driver", max |-> 0,
                         fits |-> OnRoute(c.passenger, r) /\ IsNear(c.passenger, location[r])])

(* The driver's user row.                                                   *)
MatchDriver(c, r) ==
    /\ c.branch[r].at = "driver"
    /\ Moves(c, r, [c.branch[r] EXCEPT
                      !.at = "preferences",
                      !.fits = @ /\ IsPassengerPreferencesMatched(c.wish, r)])

\* mistake: there is no default for a driver without preferences
MatchPreferencesOnly(c, r) ==
    /\ c.branch[r].at = "preferences"
    /\ LET preferences == driverPreferences[r]
       IN  Moves(c, r, [at |-> "count",
                        fits |-> /\ c.branch[r].fits
                                 /\ IsDriverPreferencesMatched(preferences, c.passenger),
                        max |-> IF preferences = None THEN None ELSE preferences.max])
MatchPreferences(c, r) ==
    /\ c.branch[r].at = "preferences"
    /\ LET preferences == driverPreferences[r]
       IN  Moves(c, r, [at |-> "count",
                        fits |-> /\ c.branch[r].fits
                                 /\ IsDriverPreferencesMatched(preferences, c.passenger),
                        max |-> SeatLimit(preferences)])

MatchCount(c, r) ==
    /\ c.branch[r].at = "count"
    /\ Moves(c, r, [NoBranch EXCEPT !.at =
                      IF c.branch[r].fits /\ ~IsMaxPassengerCountReached(r, c.branch[r].max)
                      THEN "matched" ELSE "out"])

(* The first Promise.all is through.                                        *)
FilterRides(c) ==
    /\ c.pc = "matching"
    /\ \A r \in Rides: c.branch[r].at \in {"none", "out", "matched"}
    /\ Becomes(c, [c EXCEPT !.pc = "offering", !.branch =
                      [r \in Rides |-> IF c.branch[r].at = "matched"
                                       THEN [NoBranch EXCEPT !.at = "seated"]
                                       ELSE c.branch[r]]])

OfferSeated(c, r) ==
    /\ c.branch[r].at = "seated"
    /\ Moves(c, r, [NoBranch EXCEPT !.at = "fare"])

(* The estimate reads passengersOnRide of a ride that may be gone: one      *)
(* branch that throws fails the whole search.                               *)
\* mistake: it is waited for
OfferFareWaiting(c, r) ==
    /\ c.branch[r].at = "fare"
    /\ ride[r] # "deleted"
    /\ Moves(c, r, [NoBranch EXCEPT !.at = "eta"])
OfferFare(c, r) ==
    /\ c.branch[r].at = "fare"
    /\ IF ride[r] = "deleted" THEN Ends(c)
       ELSE Moves(c, r, [NoBranch EXCEPT !.at = "eta"])

(* The entry may be gone again: the ETA is then 0.                          *)
OfferETA(c, r) ==
    /\ c.branch[r].at = "eta"
    /\ Moves(c, r, [NoBranch EXCEPT !.at = "vehicle"])

(* vehicles[0] of a driver who has none throws.                             *)
OfferVehicle(c, r) ==
    /\ c.branch[r].at = "vehicle"
    /\ IF r \notin vehicles THEN Ends(c)
       ELSE Moves(c, r, [NoBranch EXCEPT !.at = "offered"])

Answer(c) ==
    /\ c.pc = "offering"
    /\ \A r \in Rides: c.branch[r].at \in {"none", "out", "offered"}
    /\ Ends(c)

(* PostgreSQL or Redis refuses a statement, or the process ends.            *)
CallFails(c) == Ends(c)

------------------------------------------------------------------------------
BranchStep(c, r) ==
    \/ MatchCache(c, r) \/ MatchDriver(c, r) \/ MatchPreferences(c, r) \/ MatchCount(c, r)
    \/ OfferSeated(c, r) \/ OfferFare(c, r) \/ OfferETA(c, r) \/ OfferVehicle(c, r)

HandlerStep(c) == FindPreferences(c) \/ FindRides(c) \/ FilterRides(c) \/ Answer(c)

SearchStep ==
    \/ \E id \in Slots, p \in Passengers: Search(id, p)
    \/ \E c \in calls: HandlerStep(c) \/ CallFails(c)
    \/ \E c \in calls, r \in Rides: BranchStep(c, r)

RideStep ==
    \/ \E r \in Rides: Book(r) \/ DeleteRide(r)
    \/ \E r \in Rides, status \in RideStatus: UpdateRide(r, status)
    \/ \E r \in Rides, place \in Locations \cup {Unknown, None}: Relocate(r, place)
    \/ \E r \in Rides, preferences \in DriverPreferences:
           UpsertDriverRidePreferences(r, preferences)
    \/ \E p \in Passengers, gender \in Genders: UpsertPassengerRidePreferences(p, gender)
    \/ FlushVehicles

------------------------------------------------------------------------------
(* What is true of a ride at a moment, and since a search came in.          *)
Conditions == {"onGoing", "onRoute", "near", "wished", "welcome", "seat"}

HasFreeSeat(r) ==
    LET preferences == driverPreferences[r]
    IN  \/ preferences = None /\ seated[r] < MaxNumberOfPassengers
        \/ preferences # None /\ seated[r] < preferences.max

Meets(r, p, condition) ==
    LET preferences == driverPreferences[r]
    IN  \/ condition = "onGoing" /\ ride[r] = "ON_GOING"
        \/ condition = "onRoute" /\ OnRoute(p, r)
        \/ condition = "near" /\ IsNear(p, location[r])
        \/ condition = "wished" /\ passengerPreferences[p] \in {None, Gender[r]}
        \/ condition = "welcome" /\ (preferences = None \/ preferences.gender = Gender[p])
        \/ condition = "seat" /\ HasFreeSeat(r)

Searching(id) == \E c \in calls: c.id = id

Meeting(id) ==
    {m \in Rides \X Conditions: \E c \in calls: c.id = id /\ Meets(m[1], c.passenger, m[2])}
MeetingAll(id) == {r \in Rides: \A k \in Conditions: <<r, k>> \in Meeting(id)}

(* A driver who states preferences during a search disturbs it.             *)
Settled == {r \in Rides: driverPreferences'[r] = driverPreferences[r]}

TrackHistory ==
    /\ sometime' = [id \in Slots |-> IF Searching(id)' THEN sometime[id] \cup Meeting(id)'
                                     ELSE {}]
    /\ always' = [id \in Slots |-> IF Searching(id)
                                   THEN always[id] \cap Settled \cap MeetingAll(id)'
                                   ELSE MeetingAll(id)']

Next ==
    /\ \/ SearchStep /\ UNCHANGED tables
       \/ RideStep /\ UNCHANGED calls
    /\ TrackHistory

(* The event loop gets to every settled promise: each branch's is its own.  *)
Handle(id) ==
    /\ \E c \in calls: c.id = id /\ HandlerStep(c)
    /\ UNCHANGED tables
    /\ TrackHistory
HandleBranch(id, r) ==
    /\ \E c \in calls: c.id = id /\ BranchStep(c, r)
    /\ UNCHANGED tables
    /\ TrackHistory

Fairness ==
    \A id \in Slots: WF_vars(Handle(id)) /\ \A r \in Rides: WF_vars(HandleBranch(id, r))

Spec == Init /\ [][Next]_vars /\ Fairness
------------------------------------------------------------------------------
TypeOK ==
    /\ ride \in [Rides -> RideStatus \cup {"deleted"}]
    /\ seated \in [Rides -> 0..MaxRows]
    /\ location \in [Rides -> Locations \cup {Unknown, None}]
    /\ driverPreferences \in [Rides -> DriverPreferences \cup {None}]
    /\ passengerPreferences \in [Passengers -> Genders \cup {None}]
    /\ vehicles \subseteq Rides
    /\ calls \subseteq Call
    /\ sometime \in [Slots -> SUBSET (Rides \X Conditions)]
    /\ always \in [Slots -> SUBSET Rides]
    /\ \A c, d \in calls: c.id = d.id => c = d

(* However the tables change between the awaits of a search, a ride is only *)
(* offered if each condition was met at some moment since the search came   *)
(* in: going on, on the way, near, wanted by the passenger and the driver,  *)
(* and with a free seat.  (Not all at one moment, and not any more.)  That  *)
(* the seat was free rests on rows never being removed and on a driver's    *)
(* preferences never changing.                                              *)
OffersWereRight ==
    \A c \in calls, r \in Rides:
        c.branch[r].at \in Offering \cup {"matched", "offered"}
            => \A k \in Conditions: <<r, k>> \in sometime[c.id]

(* And a ride that has met them all ever since is among those offered,      *)
(* unless the search fails as a whole.                                      *)
RightRidesAreOffered ==
    \A c \in calls: c.pc \in {"matching", "offering"} =>
        \A r \in always[c.id]: c.branch[r].at \notin {"none", "out"}

(* A search ends, with offers or with an error, also when a ride it is      *)
(* about to offer is deleted or its driver has no vehicle.                  *)
SearchesEnd == \A id \in Slots: Searching(id) ~> ~Searching(id)
==============================================================================
