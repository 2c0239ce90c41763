----------------------- MODULE RideLocationCache_proofs -----------------------
(***************************************************************************)
(* Theorems about RideLocationCache, for any rides, passengers, bookings,  *)
(* requests in flight and locations.                                       *)
(***************************************************************************)
EXTENDS RideLocationCache, TLAPS

(* What a report in flight knows is true of the ledger: whom it found on    *)
(* the ride and whom it read in the entry are booked, and so is a passenger *)
(* whose report is about to be written.                                     *)
CallsKnowBooked ==
    \A c \in calls:
        /\ c.onRide \subseteq OnRide(c.ride)
        /\ c.read # None => Listed(c.read) \subseteq OnRide(c.ride)
        /\ c.pc = "set" /\ c.by # Driver => c.by \in OnRide(c.ride)

Inv == TypeOK /\ CallsKnowBooked /\ CachedAreBooked

------------------------------------------------------------------------------
(* The entry a report writes is an entry.                                   *)
LEMMA UpdatedType ==
    ASSUME NEW c \in Call
    PROVE  /\ Base(c) \in RideCache
           /\ Updated(c) \in RideCache
<1>1. FreshEntry(c.onRide) \in RideCache
    BY DEF FreshEntry, RideCache, Known
<1>2. Base(c) \in RideCache
    BY <1>1 DEF Base, Call
<1>3. CASE c.by = Driver
    BY <1>2, <1>3 DEF Updated, RideCache, Known, Call
<1>4. CASE c.by # Driver
    <2>1. c.by \in Passengers /\ c.at \in Locations
        BY <1>4 DEF Call, Reporters
    <2>2. Updated(c) = [Base(c) EXCEPT !.passengers[c.by] = c.at]
        BY <1>4 DEF Updated
    <2>3. QED BY <1>2, <2>1, <2>2 DEF RideCache, Known
<1>5. QED BY <1>2, <1>3, <1>4

(* A report lists nobody but the reporter and whom it knows of.             *)
LEMMA UpdatedLists ==
    ASSUME NEW c \in Call
    PROVE  Listed(Updated(c)) \subseteq
               {c.by} \cup c.onRide
                   \cup (IF c.read = None THEN {} ELSE Listed(c.read))
<1>1. Listed(Base(c)) \subseteq
          c.onRide \cup (IF c.read = None THEN {} ELSE Listed(c.read))
    BY DEF Base, Listed, FreshEntry
<1>2. Base(c) \in RideCache
    BY UpdatedType
<1>3. CASE c.by = Driver
    <2>1. Updated(c).passengers = Base(c).passengers
        BY <1>2, <1>3 DEF Updated, RideCache
    <2>2. QED BY <1>1, <2>1 DEF Listed
<1>4. CASE c.by # Driver
    <2>1. \A p \in Passengers \ {c.by}:
              Updated(c).passengers[p] = Base(c).passengers[p]
        BY <1>2, <1>4 DEF Updated, RideCache
    <2>2. QED BY <1>1, <2>1 DEF Listed
<1>5. QED BY <1>3, <1>4

(* A report changes no location of the entry it read but the reporter's.    *)
LEMMA UpdatedOnlyOwn ==
    ASSUME NEW c \in Call, c.read # None
    PROVE  OnlyOwn(c.by, c.read, Updated(c))
<1>1. Base(c) = c.read /\ c.read \in RideCache
    BY DEF Base, Call
<1>2. CASE c.by = Driver
    BY <1>1, <1>2 DEF Updated, OnlyOwn, RideCache
<1>3. CASE c.by # Driver
    BY <1>1, <1>3 DEF Updated, OnlyOwn, RideCache
<1>4. QED BY <1>2, <1>3

------------------------------------------------------------------------------
(* No step takes a booking back.                                            *)
LEMMA BookingsAreKept ==
    ASSUME TypeOK, [Next]_vars, NEW r \in Rides
    PROVE  OnRide(r) \subseteq OnRide(r)'
<1>1. CASE booked' = booked
    BY <1>1 DEF OnRide, Ledger!Booked
<1>2. CASE \E i \in Rows, s \in Rides, p \in Passengers: Ledger!Book(i, s, p)
    <2>1. PICK i \in Rows, s \in Rides, p \in Passengers: Ledger!Book(i, s, p)
        BY <1>2
    <2>2. /\ booked[i] = None
          /\ booked' = [booked EXCEPT ![i] = [ride |-> s, passenger |-> p]]
        BY <2>1 DEF Ledger!Book
    <2>3. \A j \in Rows: booked[j] # None => booked'[j] = booked[j]
        BY <2>2 DEF TypeOK
    <2>4. \A q \in Passengers: [ride |-> r, passenger |-> q] # None
        BY NoneAssumption
    <2>5. QED BY <2>3, <2>4 DEF OnRide, Ledger!Booked
<1>3. QED
    BY <1>1, <1>2
    DEF Next, NextSteady, Outage, vars, ledgerVars, CreateRide, Report, HandlerStep,
        FindRide, GetCache, SetCache, LoseEntry, LedgerStep, Stopped, Restart,
        CallFails, Ledger!Open, Ledger!Delete, Ledger!TellAccepted

(* Where the calls of a step come from: a new one knows nothing, and an old *)
(* one learns who is on the ride, or what the entry is.                     *)
NewCalls == {d \in Call: d.pc = "find" /\ d.onRide = {} /\ d.read = None}
Found(c) == [c EXCEPT !.pc = "get", !.onRide = OnRide(c.ride)]
Got(c) == [c EXCEPT !.pc = "set", !.read = cache[c.ride]]

LEMMA CallsOrigin ==
    ASSUME TypeOK, [Next]_vars
    PROVE  \/ calls' \subseteq calls
           \/ \E d \in NewCalls:
                  /\ calls' = calls \cup {d}
                  /\ \A c \in calls: c.id # d.id
           \/ \E c \in calls: calls' = (calls \ {c}) \cup {Found(c)}
           \/ \E c \in calls: /\ Belongs(c, cache[c.ride])
                              /\ calls' = (calls \ {c}) \cup {Got(c)}
<1>1. CASE UNCHANGED vars
    BY <1>1 DEF vars
<1>2. ASSUME NEW id \in Slots, NEW r \in Rides, CreateRide(id, r)
      PROVE  \E d \in NewCalls: calls' = calls \cup {d} /\ \A c \in calls: c.id # d.id
    <2>1. PICK at \in Locations: calls' = calls \cup {NewCall(id, r, Driver, at, FALSE)}
        BY <1>2 DEF CreateRide
    <2>2. NewCall(id, r, Driver, at, FALSE) \in NewCalls
        BY DEF NewCalls, NewCall, Call, Reporters
    <2>3. QED BY <1>2, <2>1, <2>2 DEF CreateRide, CanServe, NewCall
<1>3. ASSUME NEW id \in Slots, NEW r \in Rides, NEW e \in Reporters, Report(id, r, e)
      PROVE  \E d \in NewCalls: calls' = calls \cup {d} /\ \A c \in calls: c.id # d.id
    <2>1. PICK at \in Locations: calls' = calls \cup {NewCall(id, r, e, at, TRUE)}
        BY <1>3 DEF Report
    <2>2. NewCall(id, r, e, at, TRUE) \in NewCalls
        BY DEF NewCalls, NewCall, Call
    <2>3. QED BY <1>3, <2>1, <2>2 DEF Report, CanServe, NewCall
<1>4. ASSUME NEW c \in calls, Rejects(c)
      PROVE  calls' \subseteq calls
    BY <1>4 DEF Rejects, ProcessEnds
<1>5. CASE \E c \in calls: HandlerStep(c) \/ CallFails(c)
    BY <1>4, <1>5
    DEF HandlerStep, FindRide, GetCache, SetCache, CallFails, Goes, Found, Got
<1>6. CASE \/ \E r \in Rides: LoseEntry(r)
           \/ LedgerStep \/ Stopped \/ Restart
    BY <1>6 DEF LoseEntry, LedgerStep, Stopped, Restart, ProcessEnds
<1>7. QED BY <1>1, <1>2, <1>3, <1>5, <1>6 DEF Next, NextSteady, Outage

(* An entry changes to another one when a report writes it.                 *)
LEMMA EntriesOrigin ==
    ASSUME TypeOK, [Next]_vars, NEW r \in Rides, cache'[r] \notin {None, cache[r]}
    PROVE  \E c \in calls: /\ c.pc = "set" /\ c.ride = r
                           /\ cache'[r] = Updated(c)
<1>1. cache # cache'
    OBVIOUS
<1>2. ASSUME NEW s \in Rides, LoseEntry(s)
      PROVE  FALSE
    BY <1>2 DEF LoseEntry, TypeOK
<1>3. PICK c \in calls: SetCache(c)
    BY <1>1, <1>2
    DEF Next, NextSteady, Outage, vars, CreateRide, Report, HandlerStep, FindRide,
        GetCache, LedgerStep, Stopped, Restart, CallFails
<1>4. QED BY <1>3 DEF SetCache, TypeOK

------------------------------------------------------------------------------
(* Types.                                                                   *)

LEMMA TypeInit == Init => TypeOK
BY DEF Init, Ledger!Init, TypeOK

LEMMA LedgerTypes ==
    ASSUME TypeOK, [Next]_vars
    PROVE  /\ life' \in [Rides -> {"unused", "open", "deleted"}]
           /\ booked' \in [Rows -> [ride: Rides, passenger: Passengers] \cup {None}]
           /\ accepted' \subseteq [ride: Rides, passenger: Passengers]
<1>1. CASE UNCHANGED ledgerVars
    BY <1>1 DEF TypeOK, ledgerVars
<1>2. CASE \E r \in Rides: Ledger!Open(r) \/ Ledger!Delete(r)
    BY <1>2 DEF TypeOK, Ledger!Open, Ledger!Delete
<1>3. CASE \E r \in Rides, p \in Passengers: Ledger!TellAccepted(r, p)
    BY <1>3 DEF TypeOK, Ledger!TellAccepted
<1>4. CASE \E r \in Rides, i \in Rows, p \in Passengers: Ledger!Book(i, r, p)
    BY <1>4 DEF TypeOK, Ledger!Book
<1>5. QED
    BY <1>1, <1>2, <1>3, <1>4
    DEF Next, NextSteady, Outage, vars, ledgerVars, CreateRide, Report, HandlerStep,
        FindRide, GetCache, SetCache, LoseEntry, LedgerStep, Stopped, Restart,
        CallFails

LEMMA CacheTypes ==
    ASSUME TypeOK, [Next]_vars
    PROVE  cache' \in [Rides -> RideCache \cup {None}]
<1>1. CASE cache' = cache
    BY <1>1 DEF TypeOK
<1>2. CASE \E r \in Rides: LoseEntry(r)
    BY <1>2 DEF TypeOK, LoseEntry
<1>3. CASE \E c \in calls: SetCache(c)
    <2>1. PICK c \in calls: SetCache(c)
        BY <1>3
    <2>2. c \in Call
        BY DEF TypeOK
    <2>3. c.ride \in Rides /\ Updated(c) \in RideCache
        BY <2>2, UpdatedType DEF Call
    <2>4. QED BY <2>1, <2>3 DEF TypeOK, SetCache
<1>4. QED
    BY <1>1, <1>2, <1>3
    DEF Next, NextSteady, Outage, vars, CreateRide, Report, HandlerStep, FindRide,
        GetCache, LedgerStep, Stopped, Restart, CallFails

LEMMA CallTypes ==
    ASSUME TypeOK, [Next]_vars
    PROVE  /\ calls' \subseteq Call
           /\ \A c, d \in calls': c.id = d.id => c = d
<1>1. CASE calls' \subseteq calls
    BY <1>1 DEF TypeOK
<1>2. CASE \E d \in NewCalls: /\ calls' = calls \cup {d}
                              /\ \A c \in calls: c.id # d.id
    BY <1>2 DEF TypeOK, NewCalls
<1>3. CASE \E c \in calls: calls' = (calls \ {c}) \cup {Found(c)}
    <2>1. PICK c \in calls: calls' = (calls \ {c}) \cup {Found(c)}
        BY <1>3
    <2>2. c \in Call
        BY DEF TypeOK
    <2>3. Found(c) \in Call /\ Found(c).id = c.id
        BY <2>2 DEF Found, Call, OnRide
    <2>4. QED BY <2>1, <2>3 DEF TypeOK
<1>4. CASE \E c \in calls: calls' = (calls \ {c}) \cup {Got(c)}
    <2>1. PICK c \in calls: calls' = (calls \ {c}) \cup {Got(c)}
        BY <1>4
    <2>2. c \in Call
        BY DEF TypeOK
    <2>3. Got(c) \in Call /\ Got(c).id = c.id
        BY <2>2 DEF Got, Call, TypeOK
    <2>4. QED BY <2>1, <2>3 DEF TypeOK
<1>5. QED BY <1>1, <1>2, <1>3, <1>4, CallsOrigin

LEMMA TypeStep ==
    ASSUME TypeOK, [Next]_vars
    PROVE  TypeOK'
<1>1. up' \in BOOLEAN /\ outage' \in BOOLEAN
    BY DEF TypeOK, Next, NextSteady, Outage, vars, CreateRide, Report, HandlerStep,
        FindRide, GetCache, SetCache, LoseEntry, LedgerStep, Stopped, Restart,
        CallFails, Rejects, ProcessEnds
<1>2. QED BY <1>1, LedgerTypes, CacheTypes, CallTypes DEF TypeOK

(* The variables and the calls keep their types, and a slot serves one      *)
(* report at a time.                                                        *)
THEOREM TypeCorrect == Spec => []TypeOK
<1>1. Init => TypeOK
    BY TypeInit
<1>2. TypeOK /\ [Next]_vars => TypeOK'
    BY TypeStep
<1>3. QED BY <1>1, <1>2, PTL DEF Spec

------------------------------------------------------------------------------
(* Bookings and locations.                                                  *)

LEMMA CallsKnowBookedStep ==
    ASSUME Inv, [Next]_vars
    PROVE  CallsKnowBooked'
<1>1. TypeOK
    BY DEF Inv
<1>2. ASSUME NEW c \in calls
      PROVE  /\ c \in Call /\ c.ride \in Rides
             /\ OnRide(c.ride) \subseteq OnRide(c.ride)'
             /\ c.onRide \subseteq OnRide(c.ride)'
             /\ c.read # None => Listed(c.read) \subseteq OnRide(c.ride)'
             /\ c.pc = "set" /\ c.by # Driver => c.by \in OnRide(c.ride)'
    <2>1. c \in Call /\ c.ride \in Rides
        BY <1>1 DEF TypeOK, Call
    <2>2. OnRide(c.ride) \subseteq OnRide(c.ride)'
        BY <1>1, <2>1, BookingsAreKept
    <2>3. QED BY <2>1, <2>2 DEF Inv, CallsKnowBooked
<1>3. CASE calls' \subseteq calls
    BY <1>2, <1>3 DEF CallsKnowBooked
<1>4. CASE \E d \in NewCalls: calls' = calls \cup {d}
    BY <1>2, <1>4 DEF CallsKnowBooked, NewCalls
<1>5. CASE \E c \in calls: calls' = (calls \ {c}) \cup {Found(c)}
    <2>1. PICK c \in calls: calls' = (calls \ {c}) \cup {Found(c)}
        BY <1>5
    <2>2. /\ Found(c).pc = "get" /\ Found(c).ride = c.ride
          /\ Found(c).onRide = OnRide(c.ride) /\ Found(c).read = c.read
        BY <1>2 DEF Found, Call
    <2>3. QED BY <1>2, <2>1, <2>2 DEF CallsKnowBooked
<1>6. CASE \E c \in calls: /\ Belongs(c, cache[c.ride])
                           /\ calls' = (calls \ {c}) \cup {Got(c)}
    <2>1. PICK c \in calls: /\ Belongs(c, cache[c.ride])
                            /\ calls' = (calls \ {c}) \cup {Got(c)}
        BY <1>6
    <2>2. /\ Got(c).ride = c.ride /\ Got(c).by = c.by
          /\ Got(c).onRide = c.onRide /\ Got(c).read = cache[c.ride]
        BY <1>2 DEF Got, Call
    <2>3. cache[c.ride] # None => Listed(cache[c.ride]) \subseteq OnRide(c.ride)
        BY <1>2 DEF Inv, CachedAreBooked
    <2>4. c.by # Driver => c.by \in OnRide(c.ride)
        BY <2>1, <2>3 DEF Belongs, Inv, CallsKnowBooked
    <2>5. QED BY <1>2, <2>1, <2>2, <2>3, <2>4 DEF CallsKnowBooked
<1>7. QED BY <1>1, <1>3, <1>4, <1>5, <1>6, CallsOrigin

LEMMA CachedAreBookedStep ==
    ASSUME Inv, [Next]_vars
    PROVE  CachedAreBooked'
<1> SUFFICES ASSUME NEW r \in Rides, cache'[r] # None
             PROVE  Listed(cache'[r]) \subseteq OnRide(r)'
    BY DEF CachedAreBooked, Listed
<1>1. TypeOK /\ OnRide(r) \subseteq OnRide(r)'
    BY BookingsAreKept DEF Inv
<1>2. CASE cache'[r] = cache[r]
    BY <1>1, <1>2 DEF Inv, CachedAreBooked
<1>3. CASE cache'[r] # cache[r]
    <2>1. PICK c \in calls: c.pc = "set" /\ c.ride = r /\ cache'[r] = Updated(c)
        BY <1>1, <1>3, EntriesOrigin
    <2>2. c \in Call
        BY <1>1 DEF TypeOK
    <2>3. Listed(Updated(c)) \subseteq OnRide(r) \cup {c.by}
        BY <2>1, <2>2, UpdatedLists DEF Inv, CallsKnowBooked
    <2>4. Listed(Updated(c)) \subseteq Passengers
        BY DEF Listed
    <2>5. c.by \in Passengers => c.by \in OnRide(r)
        BY <2>1, DriverAssumption DEF Inv, CallsKnowBooked
    <2>6. QED BY <1>1, <2>1, <2>3, <2>4, <2>5
<1>4. QED BY <1>2, <1>3

LEMMA Invariance == Spec => []Inv
<1>1. Init => Inv
    BY TypeInit DEF Init, Inv, CallsKnowBooked, CachedAreBooked
<1>2. Inv /\ [Next]_vars => Inv'
    BY TypeStep, CallsKnowBookedStep, CachedAreBookedStep DEF Inv
<1>3. QED BY <1>1, <1>2, PTL DEF Spec

(* Whoever is listed in a ride's entry is booked on the ride, whatever      *)
(* reports, bookings and losses interleave.                                 *)
THEOREM ListedAreBooked == Spec => []CachedAreBooked
<1>1. Inv => CachedAreBooked
    BY DEF Inv
<1>2. QED BY <1>1, Invariance, PTL

(* A report that nobody overtook leaves the locations of all others as they *)
(* were.                                                                    *)
THEOREM OnlyOvertakenReportsRevert == Spec => RevertsAreOvertaken
<1>1. ASSUME TypeOK, [Next]_vars, NEW r \in Rides,
             cache[r] # None, cache'[r] \notin {None, cache[r]}
      PROVE  \E c \in calls:
                 /\ c.ride = r /\ c.pc = "set"
                 /\ c.read # cache[r] \/ OnlyOwn(c.by, cache[r], cache'[r])
    <2>1. PICK c \in calls: c.pc = "set" /\ c.ride = r /\ cache'[r] = Updated(c)
        BY <1>1, EntriesOrigin
    <2>2. c \in Call
        BY <1>1 DEF TypeOK
    <2>3. CASE c.read = cache[r]
        <3>1. OnlyOwn(c.by, c.read, Updated(c))
            BY <1>1, <2>2, <2>3, UpdatedOnlyOwn
        <3>2. QED BY <2>1, <2>3, <3>1
    <2>4. QED BY <2>1, <2>3
<1>2. TypeOK /\ [Next]_vars =>
          [\A r \in Rides: cache[r] # None /\ cache'[r] \notin {None, cache[r]} =>
              \E c \in calls:
                  /\ c.ride = r /\ c.pc = "set"
                  /\ c.read # cache[r] \/ OnlyOwn(c.by, cache[r], cache'[r])]_vars
    BY <1>1
<1>3. QED BY <1>2, TypeCorrect, PTL DEF Spec, RevertsAreOvertaken
==============================================================================
