----------------------------- MODULE RideBooking -----------------------------
(***************************************************************************)
(* The ride service (backend/src/ride/services/ride.service.ts) over its   *)
(* Ride, PassengersOnRide and Device tables and the SNS notifications it   *)
(* publishes.                                                              *)
(*                                                                         *)
(* Node runs one handler between two awaits, so a step is the work a       *)
(* handler does from one database statement or publish to the next; reads  *)
(* whose result no other step can change are merged into the step that     *)
(* follows.  A call is an HTTP request being served, its pc the statement  *)
(* it awaits.  A callback is one element of a forEach(async ...) whose     *)
(* promise nobody awaits: it goes on after the handler that started it has *)
(* answered, and when it rejects Node ends the process.                    *)
(*                                                                         *)
(* Definitions marked "mistake" are the action that follows them with a    *)
(* plausible bug; no behaviour uses them, they are there to show that the  *)
(* properties notice it.                                                   *)
(***************************************************************************)
EXTENDS Naturals, FiniteSets

CONSTANTS
    Rides,          \* ids of rides ever created
    Passengers,     \* ids in the Passenger table
    Driver,         \* the one driver who offers all the rides
    Rows,           \* ids of PassengersOnRide rows: the bound on bookings
    Slots,          \* the bound on requests served at the same time
    Endpoints,      \* the endpoints the clients of an instance use
    DeviceUsers,    \* the users who may register a device in an instance
    None            \* an absent row, or an argument the endpoint lacks

RideStatus == {"ON_GOING", "COMPLETED", "CANCELLED"}
PassengerStatus == {"ACCEPTED", "ON_GOING", "COMPLETED"}

AllEndpoints == {"create", "update", "delete", "device", "request", "accept",
                 "reject", "complete", "status"}

(* A fare is abstracted to the passengers whose trips it was computed from. *)
Booking == [ride: Rides, passenger: Passengers,
            status: PassengerStatus, fare: SUBSET Passengers]

ASSUME EndpointsAssumption == Endpoints \subseteq AllEndpoints
ASSUME DeviceUsersAssumption == DeviceUsers \subseteq Passengers \cup {Driver}
ASSUME NoneAssumption ==
    /\ None \notin Booking
    /\ None \notin [ride: Rides, passenger: Passengers]
    /\ None \notin Passengers
\* ids are uuids: a row's id is the id of no passenger
ASSUME RowsAssumption == Rows \cap Passengers = {}

VARIABLES
    ride,           \* Ride table: ride[r] is its status, "unused" or "deleted"
    row,            \* PassengersOnRide table: row[i] is a Booking or None
    devices,        \* the drivers and passengers whose Device row exists
    sent,           \* the messages SNS has accepted
    up,             \* is the Node process running
    calls,          \* HTTP requests being served
    callbacks       \* un-awaited async callbacks still running

vars == <<ride, row, devices, sent, up, calls, callbacks>>

Message ==
         [type: {"RIDE_REQUEST", "RIDE_ACCEPTED", "RIDE_REJECTED"},
          ride: Rides, passenger: Passengers]
    \cup [type: {"RIDE_COMPLETED"}, ride: Rides]
    \cup [type: {"FARE_UPDATE"}, fare: SUBSET Passengers]

Awaits == {"create.location",
           "request.device", "request.publish",
           "accept.estimate", "accept.insert", "accept.adjust",
           "accept.device", "accept.publish",
           "reject.device", "reject.publish",
           "complete.update", "complete.device", "complete.publish"}

(* onGoing and fare are the locals a handler reads in one step and uses in  *)
(* a later one.                                                             *)
Call == [id: Slots, pc: Awaits, ride: Rides, passenger: Passengers \cup {None},
         onGoing: BOOLEAN, fare: SUBSET Passengers]

Callback == [by: Slots, task: {"setCompleted", "setFare", "findDevice"},
             row: Rows, fare: SUBSET Passengers]

Init ==
    /\ ride = [r \in Rides |-> "unused"]
    /\ row = [i \in Rows |-> None]
    /\ devices = {}
    /\ sent = {}
    /\ up = TRUE
    /\ calls = {}
    /\ callbacks = {}

------------------------------------------------------------------------------
(* Reading the tables.                                                      *)

Exists(r) == ride[r] \in RideStatus

RowsOf(r) == {i \in Rows: row[i] # None /\ row[i].ride = r}
RowsFor(r, p) == {i \in RowsOf(r): row[i].passenger = p}
FreeRows == {i \in Rows: row[i] = None}

\* mistake: the ride is not compared
RowsRidingAnywhere(r) ==
    {i \in Rows: row[i] # None /\ row[i].status = "ON_GOING"}
RowsRiding(r) == {i \in RowsOf(r): row[i].status = "ON_GOING"}
Riding(r) == {row[i].passenger: i \in RowsRiding(r)}

(* The list adjustFareOfPassengersOnRide returns: with somebody riding, the *)
(* riding passengers, each fare recomputed from its own trip and p's;       *)
(* otherwise every row of the ride, p's new one included, fares unchanged.  *)
Adjusted(r, p) ==
    IF RowsRiding(r) # {}
    THEN {[row |-> i, fare |-> {row[i].passenger, p}]: i \in RowsRiding(r)}
    ELSE {[row |-> i, fare |-> row[i].fare]: i \in RowsOf(r)}

------------------------------------------------------------------------------
(* Calls and callbacks.                                                     *)

(* A slot serves a new request once its last one is answered and the        *)
(* callbacks that one left behind have ended.                               *)
CanServe(id) ==
    /\ up
    /\ \A c \in calls: c.id # id
    /\ \A k \in callbacks: k.by # id

NewCall(id, pc, r, p) == [id |-> id, pc |-> pc, ride |-> r, passenger |-> p,
                          onGoing |-> FALSE, fare |-> {}]

Await(c, pc) == calls' = (calls \ {c}) \cup {[c EXCEPT !.pc = pc]}
Answer(c) == calls' = calls \ {c}

(* The publish a handler awaits last: it answers true.                      *)
PublishAndAnswer(c, m) ==
    /\ sent' = sent \cup {m}
    /\ Answer(c)
    /\ UNCHANGED <<ride, row, devices, up, callbacks>>

(* An un-awaited promise rejected, or the platform stopped the instance:    *)
(* what is in memory is gone, the tables and what SNS took are not.         *)
ProcessEnds ==
    /\ up' = FALSE
    /\ calls' = {}
    /\ callbacks' = {}
    /\ UNCHANGED <<ride, row, devices, sent>>

Stopped == up /\ ProcessEnds

Restart ==
    /\ ~up
    /\ up' = TRUE
    /\ UNCHANGED <<ride, row, devices, sent, calls, callbacks>>

(* Any statement or publish a handler awaits may be refused or time out;    *)
(* the handler throws and the request is answered with an error.            *)
CallFails(c) ==
    /\ c.pc # "create.location"
    /\ Answer(c)
    /\ UNCHANGED <<ride, row, devices, sent, up, callbacks>>

------------------------------------------------------------------------------
(* createRide: the ride is inserted and answered; upsertRideLocationInCache *)
(* goes on un-awaited and rejects when it no longer finds the ride.         *)

CreateRide(id, r) ==
    /\ "create" \in Endpoints
    /\ CanServe(id)
    /\ ride[r] = "unused"
    /\ ride' = [ride EXCEPT ![r] = "ON_GOING"]
    /\ calls' = calls \cup {NewCall(id, "create.location", r, None)}
    /\ UNCHANGED <<row, devices, sent, up, callbacks>>

CreateLocation(c) ==
    /\ c.pc = "create.location"
    /\ IF Exists(c.ride)
       THEN /\ Answer(c)
            /\ UNCHANGED <<ride, row, devices, sent, up, callbacks>>
       ELSE ProcessEnds

(* updateRide as PUT ride/:id reaches it: any status over any status.       *)
\* mistake: the update revives a deleted ride
UpdateRideUpserting(r, s) ==
    /\ "update" \in Endpoints
    /\ up
    /\ ride[r] # "unused"
    /\ ride' = [ride EXCEPT ![r] = s]
    /\ UNCHANGED <<row, devices, sent, up, calls, callbacks>>
UpdateRide(r, s) ==
    /\ "update" \in Endpoints
    /\ up
    /\ Exists(r)
    /\ ride' = [ride EXCEPT ![r] = s]
    /\ UNCHANGED <<row, devices, sent, up, calls, callbacks>>

(* deleteRide; PassengersOnRide_rideId_fkey restricts the delete.           *)
\* mistake: ON DELETE CASCADE in place of RESTRICT
DeleteRideCascading(r) ==
    /\ "delete" \in Endpoints
    /\ up
    /\ Exists(r)
    /\ ride' = [ride EXCEPT ![r] = "deleted"]
    /\ row' = [i \in Rows |-> IF i \in RowsOf(r) THEN None ELSE row[i]]
    /\ UNCHANGED <<devices, sent, up, calls, callbacks>>
\* mistake: ON DELETE SET NULL in place of RESTRICT
DeleteRideSettingNull(r) ==
    /\ "delete" \in Endpoints
    /\ up
    /\ Exists(r)
    /\ ride' = [ride EXCEPT ![r] = "deleted"]
    /\ row' = [i \in Rows |-> IF i \in RowsOf(r) THEN [row[i] EXCEPT !.ride = None]
                              ELSE row[i]]
    /\ UNCHANGED <<devices, sent, up, calls, callbacks>>
DeleteRide(r) ==
    /\ "delete" \in Endpoints
    /\ up
    /\ Exists(r)
    /\ RowsOf(r) = {}
    /\ ride' = [ride EXCEPT ![r] = "deleted"]
    /\ UNCHANGED <<row, devices, sent, up, calls, callbacks>>

(* registerUserDevice, after its SNS endpoint is made: an upsert by user.   *)
RegisterDevice(u) ==
    /\ "device" \in Endpoints
    /\ up
    /\ devices' = devices \cup {u}
    /\ UNCHANGED <<ride, row, sent, up, calls, callbacks>>

------------------------------------------------------------------------------
(* requestRide: the status is read first and judged after the two lookups.  *)

RequestRide(id, r, p) ==
    /\ "request" \in Endpoints
    /\ CanServe(id)
    /\ Exists(r)
    /\ calls' = calls \cup
           {[NewCall(id, "request.device", r, p) EXCEPT
                 !.onGoing = (ride[r] = "ON_GOING")]}
    /\ UNCHANGED <<ride, row, devices, sent, up, callbacks>>

RequestDevice(c) ==
    /\ c.pc = "request.device"
    /\ IF Driver \in devices /\ c.onGoing
       THEN Await(c, "request.publish")
       ELSE Answer(c)
    /\ UNCHANGED <<ride, row, devices, sent, up, callbacks>>

RequestPublish(c) ==
    /\ c.pc = "request.publish"
    /\ PublishAndAnswer(c, [type |-> "RIDE_REQUEST", ride |-> c.ride,
                            passenger |-> c.passenger])

------------------------------------------------------------------------------
(* requestRideAccept.                                                       *)

AcceptsInFlight ==
    {c \in calls: c.pc \in {"accept.estimate", "accept.insert"}}

(* isPassengerAvailableForRide.  The bound: an accept is only taken on      *)
(* while a row is left for it.                                              *)
\* mistake: isPassengerAvailableForRide is not called
AcceptUnchecked(id, r, p) ==
    /\ "accept" \in Endpoints
    /\ CanServe(id)
    /\ Cardinality(AcceptsInFlight) < Cardinality(FreeRows)
    /\ calls' = calls \cup {NewCall(id, "accept.estimate", r, p)}
    /\ UNCHANGED <<ride, row, devices, sent, up, callbacks>>
Accept(id, r, p) ==
    /\ "accept" \in Endpoints
    /\ CanServe(id)
    /\ RowsFor(r, p) = {}
    /\ Cardinality(AcceptsInFlight) < Cardinality(FreeRows)
    /\ calls' = calls \cup {NewCall(id, "accept.estimate", r, p)}
    /\ UNCHANGED <<ride, row, devices, sent, up, callbacks>>

(* createPassengerRide: the estimate reads the riding passengers.           *)
\* mistake: fares are adjusted before the insert
AcceptEstimateAdjusting(c) ==
    /\ c.pc = "accept.estimate"
    /\ IF Exists(c.ride)
       THEN /\ calls' = (calls \ {c}) \cup
                  {[c EXCEPT !.pc = "accept.insert",
                             !.fare = Riding(c.ride) \cup {c.passenger}]}
            /\ callbacks' = callbacks \cup
                  {[by |-> c.id, task |-> "setFare", row |-> a.row, fare |-> a.fare]:
                       a \in Adjusted(c.ride, c.passenger)}
       ELSE Answer(c) /\ UNCHANGED callbacks
    /\ UNCHANGED <<ride, row, devices, sent, up>>
AcceptEstimate(c) ==
    /\ c.pc = "accept.estimate"
    /\ IF Exists(c.ride)
       THEN calls' = (calls \ {c}) \cup
                {[c EXCEPT !.pc = "accept.insert",
                           !.fare = Riding(c.ride) \cup {c.passenger}]}
       ELSE Answer(c)
    /\ UNCHANGED <<ride, row, devices, sent, up, callbacks>>

(* The row is inserted with whatever status the ride has by now.            *)
\* mistake: a failed insert is swallowed
AcceptInsertSwallowing(c) ==
    /\ c.pc = "accept.insert"
    /\ IF Exists(c.ride)
       THEN /\ \E i \in FreeRows:
                  row' = [row EXCEPT ![i] =
                            [ride |-> c.ride, passenger |-> c.passenger,
                             status |-> "ACCEPTED", fare |-> c.fare]]
            /\ Await(c, "accept.adjust")
       ELSE Await(c, "accept.device") /\ UNCHANGED row
    /\ UNCHANGED <<ride, devices, sent, up, callbacks>>
AcceptInsert(c) ==
    /\ c.pc = "accept.insert"
    /\ IF Exists(c.ride)
       THEN /\ \E i \in FreeRows:
                  row' = [row EXCEPT ![i] =
                            [ride |-> c.ride, passenger |-> c.passenger,
                             status |-> "ACCEPTED", fare |-> c.fare]]
            /\ Await(c, "accept.adjust")
       ELSE Answer(c) /\ UNCHANGED row
    /\ UNCHANGED <<ride, devices, sent, up, callbacks>>

(* updateAndNotifyRideFareForPassengersOfRide starts a callback per row and *)
(* returns without waiting for any of them.                                 *)
AcceptAdjust(c) ==
    /\ c.pc = "accept.adjust"
    /\ callbacks' = callbacks \cup
           {[by |-> c.id, task |-> "setFare", row |-> a.row, fare |-> a.fare]:
                a \in Adjusted(c.ride, c.passenger)}
    /\ Await(c, "accept.device")
    /\ UNCHANGED <<ride, row, devices, sent, up>>

AcceptDevice(c) ==
    /\ c.pc = "accept.device"
    /\ IF c.passenger \in devices THEN Await(c, "accept.publish") ELSE Answer(c)
    /\ UNCHANGED <<ride, row, devices, sent, up, callbacks>>

AcceptPublish(c) ==
    /\ c.pc = "accept.publish"
    /\ PublishAndAnswer(c, [type |-> "RIDE_ACCEPTED", ride |-> c.ride,
                            passenger |-> c.passenger])

SetFare(k) ==
    /\ k.task = "setFare"
    /\ row' = [row EXCEPT ![k.row].fare = k.fare]
    /\ callbacks' = (callbacks \ {k}) \cup {[k EXCEPT !.task = "findDevice"]}
    /\ UNCHANGED <<ride, devices, sent, up, calls>>

(* findDeviceArnForPassenger is handed the id of the row.  It looks for a   *)
(* passenger with that id and throws when there is none.                    *)
NotifyFare(k) ==
    /\ k.task = "findDevice"
    /\ IF k.row \in Passengers /\ k.row \in devices
       THEN /\ sent' = sent \cup {[type |-> "FARE_UPDATE", fare |-> k.fare]}
            /\ callbacks' = callbacks \ {k}
            /\ UNCHANGED <<ride, row, devices, up, calls>>
       ELSE ProcessEnds

------------------------------------------------------------------------------
(* requestRideReject: it writes nothing.                                    *)

Reject(id, r, p) ==
    /\ "reject" \in Endpoints
    /\ CanServe(id)
    /\ RowsFor(r, p) = {}
    /\ calls' = calls \cup {NewCall(id, "reject.device", r, p)}
    /\ UNCHANGED <<ride, row, devices, sent, up, callbacks>>

RejectDevice(c) ==
    /\ c.pc = "reject.device"
    /\ IF c.passenger \in devices THEN Await(c, "reject.publish") ELSE Answer(c)
    /\ UNCHANGED <<ride, row, devices, sent, up, callbacks>>

RejectPublish(c) ==
    /\ c.pc = "reject.publish"
    /\ PublishAndAnswer(c, [type |-> "RIDE_REJECTED", ride |-> c.ride,
                            passenger |-> c.passenger])

------------------------------------------------------------------------------
(* completeRide: a callback for each row read with the ride, the status of  *)
(* the ride without waiting for them, then the driver's notification.       *)

Complete(id, r) ==
    /\ "complete" \in Endpoints
    /\ CanServe(id)
    /\ Exists(r)
    /\ calls' = calls \cup {NewCall(id, "complete.update", r, None)}
    /\ callbacks' = callbacks \cup
           {[by |-> id, task |-> "setCompleted", row |-> i, fare |-> {}]:
                i \in RowsOf(r)}
    /\ UNCHANGED <<ride, row, devices, sent, up>>

CompleteUpdate(c) ==
    /\ c.pc = "complete.update"
    /\ IF Exists(c.ride)
       THEN /\ ride' = [ride EXCEPT ![c.ride] = "COMPLETED"]
            /\ Await(c, "complete.device")
       ELSE Answer(c) /\ UNCHANGED ride
    /\ UNCHANGED <<row, devices, sent, up, callbacks>>

\* mistake: a driver without a device is not answered
CompleteDeviceUnanswered(c) ==
    /\ c.pc = "complete.device"
    /\ Driver \in devices
    /\ Await(c, "complete.publish")
    /\ UNCHANGED <<ride, row, devices, sent, up, callbacks>>
CompleteDevice(c) ==
    /\ c.pc = "complete.device"
    /\ IF Driver \in devices THEN Await(c, "complete.publish") ELSE Answer(c)
    /\ UNCHANGED <<ride, row, devices, sent, up, callbacks>>

CompletePublish(c) ==
    /\ c.pc = "complete.publish"
    /\ PublishAndAnswer(c, [type |-> "RIDE_COMPLETED", ride |-> c.ride])

\* mistake: only rows ON_GOING are completed
SetCompletedRiding(k) ==
    /\ k.task = "setCompleted"
    /\ row' = IF row[k.row].status = "ON_GOING"
              THEN [row EXCEPT ![k.row].status = "COMPLETED"] ELSE row
    /\ callbacks' = callbacks \ {k}
    /\ UNCHANGED <<ride, devices, sent, up, calls>>
SetCompleted(k) ==
    /\ k.task = "setCompleted"
    /\ row' = [row EXCEPT ![k.row].status = "COMPLETED"]
    /\ callbacks' = callbacks \ {k}
    /\ UNCHANGED <<ride, devices, sent, up, calls>>

(* completePassengerRide and updatePassengerRideStatus: findFirst picks one *)
(* of the passenger's rows on the ride, and no status is refused.           *)
UpdatePassengerRideStatus(r, p, s) ==
    /\ "status" \in Endpoints
    /\ up
    /\ \E i \in RowsFor(r, p): row' = [row EXCEPT ![i].status = s]
    /\ UNCHANGED <<ride, devices, sent, up, calls, callbacks>>

CompletePassengerRide(r, p) == UpdatePassengerRideStatus(r, p, "COMPLETED")

------------------------------------------------------------------------------
HandlerStep(c) ==
    \/ CreateLocation(c)
    \/ RequestDevice(c) \/ RequestPublish(c)
    \/ AcceptEstimate(c) \/ AcceptInsert(c) \/ AcceptAdjust(c)
    \/ AcceptDevice(c) \/ AcceptPublish(c)
    \/ RejectDevice(c) \/ RejectPublish(c)
    \/ CompleteUpdate(c) \/ CompleteDevice(c) \/ CompletePublish(c)

CallbackStep(k) == SetFare(k) \/ NotifyFare(k) \/ SetCompleted(k)

NewRequest(id) ==
    \E r \in Rides:
        \/ CreateRide(id, r)
        \/ Complete(id, r)
        \/ \E p \in Passengers:
               RequestRide(id, r, p) \/ Accept(id, r, p) \/ Reject(id, r, p)

OneStepRequest ==
    \/ \E u \in DeviceUsers: RegisterDevice(u)
    \/ \E r \in Rides:
        \/ DeleteRide(r)
        \/ \E s \in RideStatus: UpdateRide(r, s)
        \/ \E p \in Passengers:
            \/ CompletePassengerRide(r, p)
            \/ \E s \in PassengerStatus: UpdatePassengerRideStatus(r, p, s)

(* What the service does when nothing outside it fails.                     *)
NextUnfailing ==
    \/ \E id \in Slots: NewRequest(id)
    \/ OneStepRequest
    \/ \E c \in calls: HandlerStep(c)
    \/ \E k \in callbacks: CallbackStep(k)
    \/ Restart

Next ==
    \/ NextUnfailing
    \/ \E c \in calls: CallFails(c)
    \/ Stopped

Spec == Init /\ [][Next]_vars

(* The event loop gets to every settled promise, the tables and SNS answer  *)
(* every statement, and the platform restarts a process that exited.        *)
(* Clients owe nothing.                                                     *)
Fairness ==
    /\ \A id \in Slots: WF_vars(\E c \in calls: c.id = id /\ HandlerStep(c))
    /\ \A id \in Slots, i \in Rows:
           WF_vars(\E k \in callbacks: k.by = id /\ k.row = i /\ CallbackStep(k))
    /\ WF_vars(Restart)

FairSpec == Spec /\ Fairness

------------------------------------------------------------------------------
(* Types, and the identity of calls and callbacks: a slot serves one call,  *)
(* and runs one callback per row.                                           *)
TypeOK ==
    /\ ride \in [Rides -> RideStatus \cup {"unused", "deleted"}]
    /\ row \in [Rows -> Booking \cup {None}]
    /\ devices \subseteq DeviceUsers
    /\ sent \subseteq Message
    /\ up \in BOOLEAN
    /\ calls \subseteq Call
    /\ callbacks \subseteq Callback
    /\ \A c \in calls: c.passenger = None =>
           c.pc \in {"create.location", "complete.update", "complete.device",
                     "complete.publish"}
    /\ \A c, d \in calls: c.id = d.id => c = d
    /\ \A k, l \in callbacks: k.by = l.by /\ k.row = l.row => k = l

(* A passenger is told RIDE_ACCEPTED only about a booking that is in the    *)
(* table, whatever crashes, deletions and failed statements came between.   *)
AcceptedIsBooked ==
    \A m \in sent: m.type = "RIDE_ACCEPTED" => RowsFor(m.ride, m.passenger) # {}

(* Every booking is on a ride that exists, and its fare was computed from   *)
(* the trips of passengers booked on that same ride and no others, although *)
(* callbacks write fares long after they were computed.                     *)
FareOfBookedPassengers ==
    \A i \in Rows: row[i] # None =>
        /\ Exists(row[i].ride)
        /\ \A p \in row[i].fare: RowsFor(row[i].ride, p) # {}

(* Can a call in flight still book p on r?                                  *)
Deciding(r, p) == \E c \in AcceptsInFlight: c.ride = r /\ c.passenger = p
Settled(r, p) == RowsFor(r, p) # {} /\ ~Deciding(r, p)

(* Once p is booked on r and no accept that missed the row is in flight, no *)
(* retry, however late and after any number of restarts, books p again:     *)
(* the rows of p on r stay what they are, and no accept sets out anew.      *)
SettledBookingIsFinal ==
    [][\A r \in Rides, p \in Passengers:
          Settled(r, p) => Settled(r, p)' /\ RowsFor(r, p)' = RowsFor(r, p)]_vars

(* An accept on its way to the message.                                     *)
Telling == {"accept.estimate", "accept.insert", "accept.adjust",
            "accept.device", "accept.publish"}

(* p is booked, was never told, and no call in flight is going to tell: the *)
(* process died, or the device lookup or the publish failed, after the row  *)
(* was committed.                                                           *)
Untold(r, p) ==
    /\ RowsFor(r, p) # {}
    /\ [type |-> "RIDE_ACCEPTED", ride |-> r, passenger |-> p] \notin sent
    /\ \A c \in calls: c.ride = r /\ c.passenger = p => c.pc \notin Telling

(* Such a passenger is never told: a retry of the accept is refused because *)
(* the row is there, so what one failure lost no later call makes good.     *)
UntoldForEver ==
    [][\A r \in Rides, p \in Passengers: Untold(r, p) => Untold(r, p)']_vars

(* The service implements the ledger.                                       *)
Ledger == INSTANCE BookingLedger WITH
    life <- [r \in Rides |-> IF Exists(r) THEN "open" ELSE ride[r]],
    booked <- [i \in Rows |->
                  IF row[i] = None THEN None
                  ELSE [ride |-> row[i].ride, passenger |-> row[i].passenger]],
    accepted <- {[ride |-> m.ride, passenger |-> m.passenger]:
                    m \in {n \in sent: n.type = "RIDE_ACCEPTED"}}
LedgerSpec == Ledger!Spec

------------------------------------------------------------------------------
(* Every request is answered, or lost with the process.                     *)
CallsEnd ==
    \A id \in Slots: (\E c \in calls: c.id = id) ~> (\A c \in calls: c.id # id)

(* Completing a ride completes each passenger row read with it, although    *)
(* nobody awaits the callbacks, unless the process dies first.              *)
CompletionReachesRows ==
    \A i \in Rows:
        (\E k \in callbacks: k.task = "setCompleted" /\ k.row = i)
            ~> (~up \/ (row[i] # None /\ row[i].status = "COMPLETED"))

------------------------------------------------------------------------------
(* isPassengerAvailableForRide throws when the passenger has a row on the   *)
(* ride already: one row per passenger and ride.  Two accepts that check    *)
(* before either inserts leave two.                                         *)
OneBookingPerPassenger ==
    \A i, j \in Rows: row[i] # None /\ row[j] # None
        /\ row[i].ride = row[j].ride /\ row[i].passenger = row[j].passenger
            => i = j

(* "When a new passenger joins the ride, the fare for each passenger on the *)
(* ride is adjusted" (fare.service.ts): once started, the adjustment of a   *)
(* passenger's fare to another one who joins is not dropped.                *)
NoAdjustmentDropped ==
    [][\A k \in callbacks:
          k.task = "setFare" /\ k.fare # {row[k.row].passenger} =>
              k \in callbacks' \/ row'[k.row].fare = k.fare]_vars

==============================================================================
