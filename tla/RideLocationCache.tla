-------------------------- MODULE RideLocationCache --------------------------
(***************************************************************************)
(* The current locations of a ride's driver and passengers                 *)
(* (upsertRideLocationInCache of ride.service.ts): one Redis entry per     *)
(* ride, which every report reads, changes and writes back over awaits.    *)
(* The bookings are those of BookingLedger, which RideBooking implements.  *)
(*                                                                         *)
(* A step is the work from one await to the next, as in RideBooking, and   *)
(* "mistake" marks a plausible bug in the definition that follows.         *)
(***************************************************************************)
CONSTANTS
    Rides,          \* ride ids
    Passengers,     \* passenger ids
    Driver,         \* the one driver who offers all the rides
    Rows,           \* ids of bookings: the bound on bookings
    Slots,          \* the bound on requests served at the same time
    Locations,      \* what a report may say
    Unknown,        \* '', the location before the first report
    None            \* an absent entry, booking or passenger

Reporters == Passengers \cup {Driver}
Known == Locations \cup {Unknown}

(* RideCacheModel; passengers[p] is None when p is not in the list.  Of a   *)
(* passenger listed twice, for two rows, findIndex sees the first only.     *)
RideCache == [driver: Known, passengers: [Passengers -> Known \cup {None}]]

ASSUME DriverAssumption == Driver \notin Passengers
ASSUME UnknownAssumption == Unknown \notin Locations
ASSUME NoneAssumption ==
    /\ None \notin Known
    /\ None \notin RideCache
    /\ None \notin [ride: Rides, passenger: Passengers]

VARIABLES
    life,           \* the rides, of the ledger
    booked,         \* the bookings, of the ledger
    accepted,       \* the acceptances passengers know of, of the ledger
    cache,          \* cache[r]: the entry of ride r in Redis, or None
    up,             \* is the Node process running
    outage,         \* may PostgreSQL or Redis refuse or time out now
    calls           \* location reports being served

ledgerVars == <<life, booked, accepted>>
vars == <<life, booked, accepted, cache, up, outage, calls>>

Ledger == INSTANCE BookingLedger

(* onRide is the passengers found with the ride, read the entry got from    *)
(* Redis: the locals a report computes the new entry from.  Nobody awaits   *)
(* the report of createRide.                                                *)
Call == [id: Slots, pc: {"find", "get", "set"}, ride: Rides, by: Reporters,
         at: Locations, awaited: BOOLEAN,
         onRide: SUBSET Passengers, read: RideCache \cup {None}]

Init ==
    /\ Ledger!Init
    /\ cache = [r \in Rides |-> None]
    /\ up = TRUE
    /\ outage = FALSE
    /\ calls = {}

------------------------------------------------------------------------------
OnRide(r) == {p \in Passengers: Ledger!Booked(r, p)}

Listed(entry) == {p \in Passengers: entry.passengers[p] # None}

\* mistake: the ride is found without its passengers
FreshEntryBare(ps) == [driver |-> Unknown, passengers |-> None]
FreshEntry(ps) ==
    [driver |-> Unknown,
     passengers |-> [p \in Passengers |-> IF p \in ps THEN Unknown ELSE None]]

(* The entry a report starts from.                                          *)
\* mistake: the entry is made anew, whatever Redis holds
BaseFresh(c) == FreshEntry(c.onRide)
Base(c) == IF c.read # None THEN c.read ELSE FreshEntry(c.onRide)

Updated(c) ==
    IF c.by = Driver THEN [Base(c) EXCEPT !.driver = c.at]
    ELSE [Base(c) EXCEPT !.passengers[c.by] = c.at]

------------------------------------------------------------------------------
CanServe(id) == up /\ \A c \in calls: c.id # id

NewCall(id, r, e, at, awaited) ==
    [id |-> id, pc |-> "find", ride |-> r, by |-> e, at |-> at,
     awaited |-> awaited, onRide |-> {}, read |-> None]

Goes(c, d) == calls' = (calls \ {c}) \cup {d}

(* What is in memory is gone; the tables and Redis are not.                 *)
ProcessEnds == up' = FALSE /\ calls' = {}

(* A handler that throws answers with an error; a rejection nobody awaits   *)
(* ends the process.                                                        *)
Rejects(c) ==
    \/ c.awaited /\ calls' = calls \ {c} /\ UNCHANGED up
    \/ ~c.awaited /\ ProcessEnds

------------------------------------------------------------------------------
(* createRide, once the ride is inserted.                                   *)
CreateRide(id, r) ==
    /\ CanServe(id)
    /\ Ledger!Open(r)
    /\ \E at \in Locations: calls' = calls \cup {NewCall(id, r, Driver, at, FALSE)}
    /\ UNCHANGED <<cache, up>>

(* POST ride/driver/current-location and ride/passenger/current-location.   *)
Report(id, r, e) ==
    /\ CanServe(id)
    /\ \E at \in Locations: calls' = calls \cup {NewCall(id, r, e, at, TRUE)}
    /\ UNCHANGED <<ledgerVars, cache, up>>

FindRide(c) ==
    /\ c.pc = "find"
    /\ \/ /\ life[c.ride] = "open"
          /\ Goes(c, [c EXCEPT !.pc = "get", !.onRide = OnRide(c.ride)])
          /\ UNCHANGED up
       \/ life[c.ride] # "open" /\ Rejects(c)
    /\ UNCHANGED <<ledgerVars, cache>>

(* Is the reporter in the entry, or to be pushed to it?                     *)
\* mistake: who is not in the entry is pushed without a look at the ride
BelongsAnyway(c, entry) == TRUE
\* mistake: who is not in an entry made earlier is refused
BelongsListed(c, entry) ==
    \/ c.by = Driver
    \/ c.by \in (IF entry = None THEN c.onRide ELSE Listed(entry))
Belongs(c, entry) ==
    \/ c.by = Driver
    \/ c.by \in c.onRide
    \/ entry # None /\ c.by \in Listed(entry)

GetCache(c) ==
    /\ c.pc = "get"
    /\ \/ /\ Belongs(c, cache[c.ride])
          /\ Goes(c, [c EXCEPT !.pc = "set", !.read = cache[c.ride]])
          /\ UNCHANGED up
       \/ ~Belongs(c, cache[c.ride]) /\ Rejects(c)
    /\ UNCHANGED <<ledgerVars, cache>>

SetCache(c) ==
    /\ c.pc = "set"
    /\ cache' = [cache EXCEPT ![c.ride] = Updated(c)]
    /\ calls' = calls \ {c}
    /\ UNCHANGED <<ledgerVars, up>>

(* PostgreSQL or Redis refuses or times out; an outage begins and ends.     *)
CallFails(c) == outage /\ Rejects(c) /\ UNCHANGED <<ledgerVars, cache>>

Outage == outage' = ~outage /\ UNCHANGED <<ledgerVars, cache, up, calls>>

(* The entry expires, is evicted, or Redis loses its memory.                *)
LoseEntry(r) ==
    /\ cache[r] # None
    /\ cache' = [cache EXCEPT ![r] = None]
    /\ UNCHANGED <<ledgerVars, up, calls>>

Stopped == up /\ ProcessEnds /\ UNCHANGED <<ledgerVars, cache>>

Restart ==
    /\ ~up
    /\ up' = TRUE
    /\ UNCHANGED <<ledgerVars, cache, calls>>

(* What the rest of the ride service does meanwhile.                        *)
LedgerStep ==
    /\ up
    /\ \E r \in Rides:
           \/ Ledger!Delete(r)
           \/ \E p \in Passengers: Ledger!TellAccepted(r, p)
           \/ \E i \in Rows, p \in Passengers: Ledger!Book(i, r, p)
    /\ UNCHANGED <<cache, up, calls>>

HandlerStep(c) == FindRide(c) \/ GetCache(c) \/ SetCache(c)

(* What leaves an outage as it is.                                          *)
NextSteady ==
    \/ \E id \in Slots, r \in Rides:
           CreateRide(id, r) \/ \E e \in Reporters: Report(id, r, e)
    \/ \E c \in calls: HandlerStep(c) \/ CallFails(c)
    \/ \E r \in Rides: LoseEntry(r)
    \/ LedgerStep
    \/ Stopped
    \/ Restart

Next == (NextSteady /\ UNCHANGED outage) \/ Outage

(* The event loop gets to every settled promise, and PostgreSQL and Redis   *)
(* answer every statement, if only with an error.                           *)
Fairness ==
    \A id \in Slots:
        WF_vars(\E c \in calls: c.id = id /\ HandlerStep(c) /\ UNCHANGED outage)

Spec == Init /\ [][Next]_vars /\ Fairness

------------------------------------------------------------------------------
(* Types, and the identity of calls.                                        *)
TypeOK ==
    /\ life \in [Rides -> {"unused", "open", "deleted"}]
    /\ booked \in [Rows -> [ride: Rides, passenger: Passengers] \cup {None}]
    /\ accepted \subseteq [ride: Rides, passenger: Passengers]
    /\ cache \in [Rides -> RideCache \cup {None}]
    /\ up \in BOOLEAN
    /\ outage \in BOOLEAN
    /\ calls \subseteq Call
    /\ \A c, d \in calls: c.id = d.id => c = d

(* Whoever is listed in a ride's entry is booked on that ride, although the *)
(* booking was looked up two awaits before the entry is written, and the    *)
(* entry outlives requests, processes and, it may be, the ride.             *)
CachedAreBooked ==
    \A r \in Rides: cache[r] # None => Listed(cache[r]) \subseteq OnRide(r)

(* From an entry a to an entry b only e's own location changes.             *)
OnlyOwn(e, a, b) ==
    /\ e = Driver \/ a.driver = b.driver
    /\ \A p \in Passengers \ {e}: a.passengers[p] = b.passengers[p]

(* The location one reporter left in an entry is changed or forgotten by    *)
(* the report of another only when that one was overtaken: the entry it     *)
(* read is not the entry any more.                                          *)
RevertsAreOvertaken ==
    [][\A r \in Rides: cache[r] # None /\ cache'[r] \notin {None, cache[r]} =>
          \E c \in calls:
              /\ c.ride = r /\ c.pc = "set"
              /\ c.read # cache[r] \/ OnlyOwn(c.by, cache[r], cache'[r])]_vars

(* A passenger who was told of an acceptance is never refused: what they    *)
(* report reaches the entry, also one made before they were booked, unless  *)
(* the process ends or a statement may fail first.                          *)
AcceptedAreHeard ==
    \A r \in Rides, p \in Passengers, at \in Locations:
        (/\ [ride |-> r, passenger |-> p] \in accepted
         /\ \E c \in calls: c.pc = "find" /\ c.ride = r /\ c.by = p /\ c.at = at)
            ~> (~up \/ outage \/ (cache[r] # None /\ cache[r].passengers[p] = at))
==============================================================================
