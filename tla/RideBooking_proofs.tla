------------------------- MODULE RideBooking_proofs -------------------------
(***************************************************************************)
(* Theorems about RideBooking, for any sets of rides, passengers, rows and *)
(* slots.  The inductive invariant is Inv: types, plus what the pieces in  *)
(* flight know about the tables (a call past its insert has its booking, a *)
(* fare on its way into a row is a fare of booked passengers).             *)
(***************************************************************************)
EXTENDS RideBooking, TLAPS

(* What a callback was started for is still in the table.                   *)
CallbacksOnRows == \A k \in callbacks: row[k.row] # None

(* A call that has not started callbacks yet has a slot without any.        *)
SlotsClear ==
    \A c \in calls:
        c.pc \in {"accept.estimate", "accept.insert", "accept.adjust"} =>
            \A k \in callbacks: k.by # c.id

(* No step unbooks a row or gives it to another ride or passenger.          *)
RowsKept ==
    \A i \in Rows: row[i] # None =>
        /\ row'[i] # None
        /\ row'[i].ride = row[i].ride
        /\ row'[i].passenger = row[i].passenger

HasRow(r, p) == RowsFor(r, p) # {}

(* An accept past its insert has a row.                                     *)
InsertedCallsBooked ==
    \A c \in calls:
        c.pc \in {"accept.adjust", "accept.device", "accept.publish"} =>
            HasRow(c.ride, c.passenger)

(* An estimate holds the fares of booked passengers and of the one to come. *)
EstimatesOfBooked ==
    \A c \in calls: c.pc = "accept.insert" =>
        \A p \in c.fare: p = c.passenger \/ HasRow(c.ride, p)

(* The fares callbacks are about to write are fares of booked passengers.   *)
CallbackFaresOfBooked ==
    \A k \in callbacks: \A p \in k.fare: HasRow(row[k.row].ride, p)

(* The types, and what they need to be inductive.                           *)
TypeInv == TypeOK /\ CallbacksOnRows /\ SlotsClear

Inv ==
    /\ TypeInv
    /\ AcceptedIsBooked
    /\ FareOfBookedPassengers
    /\ InsertedCallsBooked
    /\ EstimatesOfBooked
    /\ CallbackFaresOfBooked

------------------------------------------------------------------------------
(* A booking has the fields of the table's columns.                         *)
LEMMA BookingFields ==
    ASSUME TypeOK, NEW i \in Rows, row[i] # None
    PROVE  /\ row[i] \in Booking
           /\ row[i].ride \in Rides
           /\ row[i].passenger \in Passengers
           /\ row[i].status \in PassengerStatus
           /\ row[i].fare \in SUBSET Passengers
  <1>1. row[i] \in Booking
    BY DEF TypeOK
  <1>2. QED
    BY <1>1 DEF Booking

(* Changing a status or a fare leaves a booking a booking.                  *)
LEMMA BookingUpdates ==
    ASSUME NEW b \in Booking, NEW s \in PassengerStatus,
           NEW f \in SUBSET Passengers
    PROVE  /\ [b EXCEPT !.status = s] \in Booking
           /\ [b EXCEPT !.status = s].ride = b.ride
           /\ [b EXCEPT !.status = s].passenger = b.passenger
           /\ [b EXCEPT !.status = s].fare = b.fare
           /\ [b EXCEPT !.fare = f] \in Booking
           /\ [b EXCEPT !.fare = f].ride = b.ride
           /\ [b EXCEPT !.fare = f].passenger = b.passenger
           /\ [b EXCEPT !.fare = f].fare = f
  BY DEF Booking

(* A status or a fare written to a booked row: the one row that changes     *)
(* keeps its ride and passenger.                                            *)
LEMMA WriteKeepsRows ==
    ASSUME TypeOK, NEW i \in Rows, row[i] # None,
           NEW s \in PassengerStatus, NEW f \in SUBSET Passengers,
           \/ row' = [row EXCEPT ![i].status = s]
           \/ row' = [row EXCEPT ![i].fare = f]
    PROVE  /\ row' \in [Rows -> Booking \cup {None}]
           /\ RowsKept
           /\ row'[i].fare \in {row[i].fare, f}
           /\ \A j \in Rows: j # i => row'[j] = row[j]
  <1>1. row \in [Rows -> Booking \cup {None}] /\ row[i] \in Booking
    BY DEF TypeOK
  <1> DEFINE b == row'[i]
  <1>2. /\ b \in Booking
        /\ b.ride = row[i].ride
        /\ b.passenger = row[i].passenger
        /\ b.fare \in {row[i].fare, f}
    <2>1. CASE row' = [row EXCEPT ![i].status = s]
      <3>1. b = [row[i] EXCEPT !.status = s]
        BY <1>1, <2>1
      <3> DEFINE a == row[i]
      <3>2. a \in Booking /\ b = [a EXCEPT !.status = s]
        BY <1>1, <3>1
      <3> HIDE DEF a, b
      <3>3. /\ b \in Booking
            /\ b.ride = a.ride
            /\ b.passenger = a.passenger
            /\ b.fare = a.fare
        BY <3>2, BookingUpdates
      <3>4. QED
        BY <3>3 DEF a
    <2>2. CASE row' = [row EXCEPT ![i].fare = f]
      <3>1. b = [row[i] EXCEPT !.fare = f]
        BY <1>1, <2>2
      <3> DEFINE a == row[i]
      <3>2. a \in Booking /\ b = [a EXCEPT !.fare = f]
        BY <1>1, <3>1
      <3> HIDE DEF a, b
      <3>3. /\ b \in Booking
            /\ b.ride = a.ride
            /\ b.passenger = a.passenger
            /\ b.fare = f
        BY <3>2, BookingUpdates
      <3>4. QED
        BY <3>3 DEF a
    <2>3. QED
      BY <2>1, <2>2
  <1>3. \A j \in Rows: j # i => row'[j] = row[j]
    BY <1>1
  <1>4. row' = [row EXCEPT ![i] = b]
    BY <1>1
  <1>5. row' \in [Rows -> Booking \cup {None}]
    BY <1>1, <1>2, <1>4
  <1>6. RowsKept
    BY <1>1, <1>2, <1>3, NoneAssumption DEF RowsKept
  <1>7. QED
    BY <1>2, <1>3, <1>5, <1>6

(* The row an accept inserts is a booking, and lands on a free row.         *)
LEMMA InsertKeepsRows ==
    ASSUME TypeOK, NEW c \in calls, AcceptInsert(c), Exists(c.ride)
    PROVE  /\ row' \in [Rows -> Booking \cup {None}]
           /\ RowsKept
           /\ \E i \in FreeRows:
                 /\ row'[i] = [ride |-> c.ride, passenger |-> c.passenger,
                               status |-> "ACCEPTED", fare |-> c.fare]
                 /\ \A j \in Rows: j # i => row'[j] = row[j]
  <1>1. PICK i \in FreeRows:
           row' = [row EXCEPT ![i] = [ride |-> c.ride, passenger |-> c.passenger,
                                      status |-> "ACCEPTED", fare |-> c.fare]]
    BY DEF AcceptInsert
  <1>2. /\ c \in Call
        /\ c.passenger # None
        /\ row \in [Rows -> Booking \cup {None}]
        /\ i \in Rows /\ row[i] = None
    BY DEF TypeOK, AcceptInsert, FreeRows
  <1>3. [ride |-> c.ride, passenger |-> c.passenger,
         status |-> "ACCEPTED", fare |-> c.fare] \in Booking
    BY <1>2 DEF Call, Booking, PassengerStatus
  <1>4. QED
    BY <1>1, <1>2, <1>3 DEF RowsKept

(* No step of the service loses or moves a booking.                         *)
LEMMA RowsAreKept ==
    ASSUME TypeOK, CallbacksOnRows, [Next]_vars
    PROVE  RowsKept /\ row' \in [Rows -> Booking \cup {None}]
  <1> USE DEF TypeOK
  <1>1. CASE UNCHANGED row
    BY <1>1 DEF RowsKept
  <1>2. ASSUME NEW c \in calls, AcceptInsert(c)
        PROVE  RowsKept /\ row' \in [Rows -> Booking \cup {None}]
    <2>1. CASE Exists(c.ride)
      BY <1>2, <2>1, InsertKeepsRows
    <2>2. CASE ~Exists(c.ride)
      BY <1>1, <1>2, <2>2 DEF AcceptInsert
    <2>3. QED
      BY <2>1, <2>2
  <1>3. ASSUME NEW k \in callbacks, SetFare(k)
        PROVE  RowsKept /\ row' \in [Rows -> Booking \cup {None}]
    <2>1. k.row \in Rows /\ k.fare \in SUBSET Passengers /\ row[k.row] # None
      BY DEF Callback, CallbacksOnRows
    <2>2. "ACCEPTED" \in PassengerStatus
      BY DEF PassengerStatus
    <2>3. QED
      BY <1>3, <2>1, <2>2, WriteKeepsRows DEF SetFare
  <1>4. ASSUME NEW k \in callbacks, SetCompleted(k)
        PROVE  RowsKept /\ row' \in [Rows -> Booking \cup {None}]
    <2>1. k.row \in Rows /\ k.fare \in SUBSET Passengers /\ row[k.row] # None
      BY DEF Callback, CallbacksOnRows
    <2>2. "COMPLETED" \in PassengerStatus
      BY DEF PassengerStatus
    <2>3. QED
      BY <1>4, <2>1, <2>2, WriteKeepsRows DEF SetCompleted
  <1>5. ASSUME NEW r \in Rides, NEW p \in Passengers, NEW s \in PassengerStatus,
               UpdatePassengerRideStatus(r, p, s)
        PROVE  RowsKept /\ row' \in [Rows -> Booking \cup {None}]
    <2>1. PICK i \in RowsFor(r, p): row' = [row EXCEPT ![i].status = s]
      BY <1>5 DEF UpdatePassengerRideStatus
    <2>2. i \in Rows /\ row[i] # None
      BY DEF RowsFor, RowsOf
    <2>3. {} \in SUBSET Passengers
      OBVIOUS
    <2>4. QED
      BY <2>1, <2>2, <2>3, WriteKeepsRows
  <1>6. "COMPLETED" \in PassengerStatus
    BY DEF PassengerStatus
  <1>7. QED
    BY <1>1, <1>2, <1>3, <1>4, <1>5, <1>6
       DEF Next, NextUnfailing, NewRequest, OneStepRequest, HandlerStep,
           CallbackStep, vars, Stopped, Restart, ProcessEnds, CallFails,
           CreateRide, CreateLocation, UpdateRide, DeleteRide, RegisterDevice,
           RequestRide, RequestDevice, RequestPublish, PublishAndAnswer,
           Accept, AcceptEstimate, AcceptAdjust, AcceptDevice, AcceptPublish,
           NotifyFare, Reject, RejectDevice, RejectPublish,
           Complete, CompleteUpdate, CompleteDevice, CompletePublish,
           CompletePassengerRide

------------------------------------------------------------------------------
(* The conjuncts of TypeOK about what is in flight.                         *)
CallsOK ==
    /\ calls \subseteq Call
    /\ \A c \in calls: c.passenger = None =>
           c.pc \in {"create.location", "complete.update", "complete.device",
                     "complete.publish"}
    /\ \A c, d \in calls: c.id = d.id => c = d

CallbacksOK ==
    /\ callbacks \subseteq Callback
    /\ \A k, l \in callbacks: k.by = l.by /\ k.row = l.row => k = l

TablesOK ==
    /\ ride \in [Rides -> RideStatus \cup {"unused", "deleted"}]
    /\ devices \subseteq DeviceUsers
    /\ sent \subseteq Message
    /\ up \in BOOLEAN

LEMMA FewerCallsOK ==
    ASSUME CallsOK, calls' \subseteq calls
    PROVE  CallsOK'
  BY DEF CallsOK

LEMMA FewerCallbacksOK ==
    ASSUME CallbacksOK, callbacks' \subseteq callbacks
    PROVE  CallbacksOK'
  BY DEF CallbacksOK

(* A call that goes on to its next await stays the call of its slot.        *)
LEMMA NextAwaitOK ==
    ASSUME CallsOK, NEW c \in calls, NEW d \in Call,
           d.id = c.id, d.passenger = c.passenger,
           c.passenger = None => d.pc \in {"complete.device", "complete.publish"},
           calls' = (calls \ {c}) \cup {d}
    PROVE  CallsOK'
  BY DEF CallsOK

(* Await moves only the pc.                                                 *)
LEMMA AwaitOK ==
    ASSUME CallsOK, NEW c \in calls, NEW pc \in Awaits, Await(c, pc),
           c.passenger = None => pc \in {"complete.device", "complete.publish"}
    PROVE  CallsOK'
  <1> DEFINE d == [c EXCEPT !.pc = pc]
  <1>1. c \in Call
    BY DEF CallsOK
  <1>2. d \in Call /\ d.id = c.id /\ d.passenger = c.passenger /\ d.pc = pc
    BY <1>1 DEF Call
  <1>3. calls' = (calls \ {c}) \cup {d}
    BY DEF Await
  <1> HIDE DEF d
  <1>4. QED
    BY <1>2, <1>3, NextAwaitOK

(* A new call takes a slot no call has.                                     *)
LEMMA NewCallOK ==
    ASSUME CallsOK, NEW id \in Slots, CanServe(id), NEW d \in Call, d.id = id,
           d.passenger = None => d.pc \in {"create.location", "complete.update"},
           calls' = calls \cup {d}
    PROVE  CallsOK'
  BY DEF CallsOK, CanServe

(* The members of Call and Callback, as the actions write them.             *)
LEMMA NewCallTypes ==
    ASSUME NEW id \in Slots, NEW pc \in Awaits, NEW r \in Rides,
           NEW p \in Passengers \cup {None}
    PROVE  /\ NewCall(id, pc, r, p) \in Call
           /\ NewCall(id, pc, r, p).id = id
           /\ NewCall(id, pc, r, p).pc = pc
           /\ NewCall(id, pc, r, p).ride = r
           /\ NewCall(id, pc, r, p).passenger = p
  BY DEF NewCall, Call

(* The requester's call remembers what it read of the ride's status.        *)
LEMMA RequestCallTypes ==
    ASSUME NEW id \in Slots, NEW pc \in Awaits, NEW r \in Rides,
           NEW p \in Passengers \cup {None}, NEW o \in BOOLEAN
    PROVE  /\ [NewCall(id, pc, r, p) EXCEPT !.onGoing = o] \in Call
           /\ [NewCall(id, pc, r, p) EXCEPT !.onGoing = o].id = id
           /\ [NewCall(id, pc, r, p) EXCEPT !.onGoing = o].pc = pc
           /\ [NewCall(id, pc, r, p) EXCEPT !.onGoing = o].passenger = p
  BY DEF NewCall, Call

(* The list of adjusted fares: one entry for each of some booked rows of    *)
(* the ride, its fare one of booked passengers.                             *)
LEMMA AdjustedEntries ==
    ASSUME TypeOK, NEW r \in Rides, NEW p \in Passengers,
           NEW a \in Adjusted(r, p)
    PROVE  /\ a.row \in RowsOf(r)
           /\ a.fare \in SUBSET Passengers
           /\ a = [row |-> a.row, fare |-> a.fare]
           /\ a.fare = row[a.row].fare \/ a.fare = {row[a.row].passenger, p}
  <1>1. PICK i \in RowsOf(r):
           a = [row |-> i, fare |-> row[i].fare]
             \/ a = [row |-> i, fare |-> {row[i].passenger, p}]
    BY DEF Adjusted, RowsRiding
  <1>2. i \in Rows /\ row[i] # None
    BY DEF RowsOf
  <1>3. row[i].fare \in SUBSET Passengers /\ row[i].passenger \in Passengers
    BY <1>2, BookingFields
  <1>4. QED
    BY <1>1, <1>3

(* One entry per row.                                                       *)
LEMMA AdjustedOncePerRow ==
    ASSUME NEW r \in Rides, NEW p \in Passengers,
           NEW a \in Adjusted(r, p), NEW b \in Adjusted(r, p), a.row = b.row
    PROVE  a = b
  BY DEF Adjusted

------------------------------------------------------------------------------
(* No row id is the id of a passenger: the lookup rejects, whatever the     *)
(* tables hold.                                                             *)
LEMMA LookupRejects ==
    ASSUME TypeOK, NEW k \in callbacks, NotifyFare(k)
    PROVE  ProcessEnds
  <1>1. k.row \notin Passengers
    BY RowsAssumption DEF TypeOK, Callback
  <1>2. QED
    BY <1>1 DEF NotifyFare

(* TypeOK is inductive, given that callbacks are about booked rows.         *)

LEMMA TablesStep ==
    ASSUME TypeOK, CallbacksOnRows, [Next]_vars
    PROVE  TablesOK'
  <1> USE DEF TypeOK, TablesOK
  <1>1. CASE UNCHANGED <<ride, devices, sent, up>>
    BY <1>1
  <1>2. ASSUME NEW c \in calls, NEW m \in Message, PublishAndAnswer(c, m)
        PROVE  TablesOK'
    BY <1>2 DEF PublishAndAnswer
  <1>3. ASSUME NEW c \in calls, HandlerStep(c)
        PROVE  TablesOK'
    <2>1. c \in Call
      OBVIOUS
    <2>2. ASSUME c.pc \in {"request.publish", "accept.publish", "reject.publish"}
          PROVE  c.passenger \in Passengers
      BY <2>1, <2>2 DEF Call
    <2>3. CASE RequestPublish(c)
      BY <1>2, <2>1, <2>2, <2>3 DEF RequestPublish, Message, Call
    <2>4. CASE AcceptPublish(c)
      BY <1>2, <2>1, <2>2, <2>4 DEF AcceptPublish, Message, Call
    <2>5. CASE RejectPublish(c)
      BY <1>2, <2>1, <2>2, <2>5 DEF RejectPublish, Message, Call
    <2>6. CASE CompletePublish(c)
      BY <1>2, <2>1, <2>6 DEF CompletePublish, Message, Call
    <2>7. CASE CompleteUpdate(c)
      BY <2>1, <2>7 DEF CompleteUpdate, RideStatus, Call
    <2>8. CASE CreateLocation(c)
      BY <2>8 DEF CreateLocation, ProcessEnds
    <2>9. QED
      BY <1>1, <1>3, <2>3, <2>4, <2>5, <2>6, <2>7, <2>8
         DEF HandlerStep, RequestDevice, AcceptEstimate, AcceptInsert,
             AcceptAdjust, AcceptDevice, RejectDevice, CompleteDevice
  <1>4. ASSUME NEW k \in callbacks, CallbackStep(k)
        PROVE  TablesOK'
    <2>1. CASE NotifyFare(k)
      BY <2>1, LookupRejects DEF ProcessEnds
    <2>2. QED
      BY <1>1, <1>4, <2>1 DEF CallbackStep, SetFare, SetCompleted
  <1>5. ASSUME NEW id \in Slots, NewRequest(id)
        PROVE  TablesOK'
    BY <1>1, <1>5 DEF NewRequest, CreateRide, Complete, RequestRide, Accept,
                      Reject, RideStatus
  <1>6. CASE OneStepRequest
    <2>1. ASSUME NEW u \in DeviceUsers, RegisterDevice(u)
          PROVE  TablesOK'
      BY <2>1 DEF RegisterDevice
    <2>2. ASSUME NEW r \in Rides, DeleteRide(r)
          PROVE  TablesOK'
      BY <2>2 DEF DeleteRide
    <2>3. ASSUME NEW r \in Rides, NEW s \in RideStatus, UpdateRide(r, s)
          PROVE  TablesOK'
      BY <2>3 DEF UpdateRide
    <2>4. QED
      BY <1>1, <1>6, <2>1, <2>2, <2>3
         DEF OneStepRequest, CompletePassengerRide, UpdatePassengerRideStatus
  <1>7. QED
    BY <1>1, <1>3, <1>4, <1>5, <1>6
       DEF Next, NextUnfailing, vars, Stopped, Restart, ProcessEnds, CallFails

LEMMA CallsStep ==
    ASSUME TypeOK, [Next]_vars
    PROVE  CallsOK'
  <1>1. CallsOK
    BY DEF TypeOK, CallsOK
  <1>2. CASE calls' \subseteq calls
    BY <1>1, <1>2, FewerCallsOK
  <1>3. ASSUME NEW id \in Slots, NewRequest(id)
        PROVE  CallsOK'
    <2>1. /\ "create.location" \in Awaits /\ "complete.update" \in Awaits
          /\ "request.device" \in Awaits /\ "accept.estimate" \in Awaits
          /\ "reject.device" \in Awaits
      BY DEF Awaits
    <2>2. ASSUME NEW r \in Rides, CreateRide(id, r)
          PROVE  CallsOK'
      <3> DEFINE d == NewCall(id, "create.location", r, None)
      <3>1. d \in Call /\ d.id = id /\ d.passenger = None /\ d.pc = "create.location"
        BY <2>1, NewCallTypes
      <3>2. calls' = calls \cup {d} /\ CanServe(id)
        BY <2>2 DEF CreateRide
      <3> HIDE DEF d
      <3>3. QED
        BY <1>1, <3>1, <3>2, NewCallOK
    <2>3. ASSUME NEW r \in Rides, Complete(id, r)
          PROVE  CallsOK'
      <3> DEFINE d == NewCall(id, "complete.update", r, None)
      <3>1. d \in Call /\ d.id = id /\ d.passenger = None /\ d.pc = "complete.update"
        BY <2>1, NewCallTypes
      <3>2. calls' = calls \cup {d} /\ CanServe(id)
        BY <2>3 DEF Complete
      <3> HIDE DEF d
      <3>3. QED
        BY <1>1, <3>1, <3>2, NewCallOK
    <2>4. ASSUME NEW r \in Rides, NEW p \in Passengers, RequestRide(id, r, p)
          PROVE  CallsOK'
      <3> DEFINE o == ride[r] = "ON_GOING"
                 d == [NewCall(id, "request.device", r, p) EXCEPT !.onGoing = o]
      <3>1. o \in BOOLEAN
        OBVIOUS
      <3>2. calls' = calls \cup {d} /\ CanServe(id)
        BY <2>4 DEF RequestRide
      <3> HIDE DEF o
      <3>3. d \in Call /\ d.id = id /\ d.passenger = p
        BY <2>1, <3>1, RequestCallTypes
      <3> HIDE DEF d
      <3>4. QED
        BY <1>1, <3>2, <3>3, NewCallOK, NoneAssumption
    <2>5. ASSUME NEW r \in Rides, NEW p \in Passengers, Accept(id, r, p)
          PROVE  CallsOK'
      <3> DEFINE d == NewCall(id, "accept.estimate", r, p)
      <3>1. d \in Call /\ d.id = id /\ d.passenger = p
        BY <2>1, NewCallTypes
      <3>2. calls' = calls \cup {d} /\ CanServe(id)
        BY <2>5 DEF Accept
      <3> HIDE DEF d
      <3>3. QED
        BY <1>1, <3>1, <3>2, NewCallOK, NoneAssumption
    <2>6. ASSUME NEW r \in Rides, NEW p \in Passengers, Reject(id, r, p)
          PROVE  CallsOK'
      <3> DEFINE d == NewCall(id, "reject.device", r, p)
      <3>1. d \in Call /\ d.id = id /\ d.passenger = p
        BY <2>1, NewCallTypes
      <3>2. calls' = calls \cup {d} /\ CanServe(id)
        BY <2>6 DEF Reject
      <3> HIDE DEF d
      <3>3. QED
        BY <1>1, <3>1, <3>2, NewCallOK, NoneAssumption
    <2>7. QED
      BY <1>3, <2>2, <2>3, <2>4, <2>5, <2>6 DEF NewRequest
  <1>4. ASSUME NEW c \in calls, HandlerStep(c)
        PROVE  CallsOK'
    <2>1. /\ c \in Call
          /\ c.passenger = None => c.pc \in {"create.location", "complete.update",
                                "complete.device", "complete.publish"}
      BY DEF TypeOK
    <2>2. {"request.publish", "accept.insert", "accept.adjust", "accept.device",
           "accept.publish", "reject.publish", "complete.device",
           "complete.publish"} \subseteq Awaits
      BY DEF Awaits
    <2>3. CASE AcceptEstimate(c)
      <3>1. CASE Exists(c.ride)
        <4> DEFINE d == [c EXCEPT !.pc = "accept.insert",
                                  !.fare = Riding(c.ride) \cup {c.passenger}]
        <4>1. Riding(c.ride) \in SUBSET Passengers
          BY BookingFields DEF Riding, RowsRiding, RowsOf
        <4>2. c.passenger \in Passengers /\ c.pc = "accept.estimate"
          BY <2>1, <2>3 DEF AcceptEstimate, Call
        <4>3. d \in Call /\ d.id = c.id /\ d.passenger = c.passenger
          BY <2>1, <2>2, <4>1, <4>2 DEF Call
        <4>4. calls' = (calls \ {c}) \cup {d}
          BY <2>3, <3>1 DEF AcceptEstimate
        <4> HIDE DEF d
        <4>5. QED
          BY <1>1, <4>2, <4>3, <4>4, NextAwaitOK, NoneAssumption
      <3>2. QED
        BY <1>2, <2>3, <3>1 DEF AcceptEstimate, Answer
    <2>4. CASE AcceptInsert(c)
      BY <1>1, <1>2, <2>1, <2>2, <2>4, AwaitOK DEF AcceptInsert, Answer
    <2>5. CASE AcceptAdjust(c)
      BY <1>1, <2>1, <2>2, <2>5, AwaitOK DEF AcceptAdjust
    <2>6. CASE RequestDevice(c) \/ AcceptDevice(c) \/ RejectDevice(c)
      BY <1>1, <1>2, <2>1, <2>2, <2>6, AwaitOK
         DEF RequestDevice, AcceptDevice, RejectDevice, Answer
    <2>7. CASE CompleteUpdate(c) \/ CompleteDevice(c)
      BY <1>1, <1>2, <2>1, <2>2, <2>7, AwaitOK
         DEF CompleteUpdate, CompleteDevice, Answer
    <2>8. CASE \/ RequestPublish(c) \/ AcceptPublish(c) \/ RejectPublish(c)
               \/ CompletePublish(c) \/ CreateLocation(c)
      BY <1>2, <2>8 DEF RequestPublish, AcceptPublish, RejectPublish,
             CompletePublish, CreateLocation, PublishAndAnswer, Answer, ProcessEnds
    <2>9. QED
      BY <1>4, <2>3, <2>4, <2>5, <2>6, <2>7, <2>8 DEF HandlerStep
  <1>5. QED
    BY <1>2, <1>3, <1>4
       DEF Next, NextUnfailing, vars, Stopped, Restart, ProcessEnds, CallFails,
           OneStepRequest, RegisterDevice, DeleteRide, UpdateRide,
           CompletePassengerRide, UpdatePassengerRideStatus,
           CallbackStep, SetFare, NotifyFare, SetCompleted, Answer

LEMMA CallbacksStep ==
    ASSUME TypeOK, CallbacksOnRows, SlotsClear, [Next]_vars
    PROVE  CallbacksOK' /\ CallbacksOnRows'
  <1>1. CallbacksOK
    BY DEF TypeOK, CallbacksOK
  <1>2. RowsKept
    BY RowsAreKept
  <1>3. CASE callbacks' \subseteq callbacks
    BY <1>1, <1>2, <1>3, FewerCallbacksOK
       DEF CallbacksOnRows, RowsKept, CallbacksOK, Callback
  <1>4. ASSUME NEW k \in callbacks, SetFare(k)
        PROVE  CallbacksOK' /\ CallbacksOnRows'
    <2> DEFINE l == [k EXCEPT !.task = "findDevice"]
    <2>1. k \in Callback /\ k.row \in Rows /\ row[k.row] # None
      BY DEF TypeOK, Callback, CallbacksOnRows
    <2>2. l \in Callback /\ l.by = k.by /\ l.row = k.row
      BY <2>1 DEF Callback
    <2>3. callbacks' = (callbacks \ {k}) \cup {l}
      BY <1>4 DEF SetFare
    <2> HIDE DEF l
    <2>4. CallbacksOK'
      BY <1>1, <2>1, <2>2, <2>3 DEF CallbacksOK
    <2>5. CallbacksOnRows'
      BY <1>1, <1>2, <2>1, <2>2, <2>3
         DEF CallbacksOK, CallbacksOnRows, RowsKept, Callback
    <2>6. QED
      BY <2>4, <2>5
  <1>5. ASSUME NEW c \in calls, AcceptAdjust(c)
        PROVE  CallbacksOK' /\ CallbacksOnRows'
    <2> DEFINE new == {[by |-> c.id, task |-> "setFare",
                        row |-> a.row, fare |-> a.fare]:
                          a \in Adjusted(c.ride, c.passenger)}
    <2>1. /\ c \in Call /\ c.id \in Slots
          /\ c.ride \in Rides /\ c.passenger \in Passengers
      BY <1>5 DEF TypeOK, Call, AcceptAdjust
    <2>2. callbacks' = callbacks \cup new /\ row' = row
      BY <1>5 DEF AcceptAdjust
    <2>3. \A a \in Adjusted(c.ride, c.passenger):
             a.row \in Rows /\ row[a.row] # None /\ a.fare \in SUBSET Passengers
      BY <2>1, AdjustedEntries DEF RowsOf
    <2>4. \A k \in new: k \in Callback /\ k.by = c.id /\ row[k.row] # None
      BY <2>1, <2>3 DEF Callback
    <2>5. \A k, l \in new: k.row = l.row => k = l
      BY <2>1, AdjustedOncePerRow
    <2>6. \A k \in callbacks: k.by # c.id
      BY <1>5 DEF SlotsClear, AcceptAdjust
    <2> HIDE DEF new
    <2>7. QED
      BY <1>1, <2>2, <2>4, <2>5, <2>6 DEF CallbacksOK, CallbacksOnRows
  <1>6. ASSUME NEW id \in Slots, NEW r \in Rides, Complete(id, r)
        PROVE  CallbacksOK' /\ CallbacksOnRows'
    <2> DEFINE new == {[by |-> id, task |-> "setCompleted", row |-> i, fare |-> {}]:
                          i \in RowsOf(r)}
    <2>1. callbacks' = callbacks \cup new /\ row' = row
      BY <1>6 DEF Complete
    <2>2. \A k \in new: k \in Callback /\ k.by = id /\ row[k.row] # None
      BY DEF Callback, RowsOf
    <2>3. \A k, l \in new: k.row = l.row => k = l
      OBVIOUS
    <2>4. \A k \in callbacks: k.by # id
      BY <1>6 DEF Complete, CanServe
    <2> HIDE DEF new
    <2>5. QED
      BY <1>1, <2>1, <2>2, <2>3, <2>4 DEF CallbacksOK, CallbacksOnRows
  <1>7. QED
    BY <1>3, <1>4, <1>5, <1>6
       DEF Next, NextUnfailing, NewRequest, OneStepRequest, HandlerStep,
           CallbackStep, vars, Stopped, Restart, ProcessEnds, CallFails,
           CreateRide, CreateLocation, UpdateRide, DeleteRide, RegisterDevice,
           RequestRide, RequestDevice, RequestPublish, PublishAndAnswer,
           Accept, AcceptEstimate, AcceptInsert, AcceptDevice, AcceptPublish,
           NotifyFare, SetCompleted, Reject, RejectDevice, RejectPublish,
           CompleteUpdate, CompleteDevice, CompletePublish,
           CompletePassengerRide, UpdatePassengerRideStatus

(* A slot's callbacks are started when its accept leaves the adjustment     *)
(* behind, and by no step of another slot.                                  *)
LEMMA SlotsClearStep ==
    ASSUME TypeOK, SlotsClear, [Next]_vars
    PROVE  SlotsClear'
  <1> DEFINE Before == {"accept.estimate", "accept.insert", "accept.adjust"}
  <1>1. CASE /\ \A d \in calls': d.pc \in Before =>
                  \E c \in calls: c.pc \in Before /\ c.id = d.id
             /\ \A l \in callbacks': \E k \in callbacks: k.by = l.by
    BY <1>1 DEF SlotsClear
  <1>2. CASE calls' \subseteq calls /\ callbacks' \subseteq callbacks
    BY <1>1, <1>2
  <1>3. ASSUME NEW c \in calls, HandlerStep(c)
        PROVE  SlotsClear'
    <2>1. c \in Call
      BY DEF TypeOK
    <2>2. ASSUME NEW pc \in Awaits, Await(c, pc), UNCHANGED callbacks,
                 pc \in Before => c.pc \in Before
          PROVE  SlotsClear'
      <3> DEFINE d == [c EXCEPT !.pc = pc]
      <3>1. d.id = c.id /\ d.pc = pc
        BY <2>1 DEF Call
      <3>2. calls' = (calls \ {c}) \cup {d}
        BY <2>2 DEF Await
      <3> HIDE DEF d
      <3>3. QED
        BY <2>2, <3>1, <3>2 DEF SlotsClear
    <2>3. {"request.publish", "accept.adjust", "accept.device",
           "accept.publish", "reject.publish", "complete.device",
           "complete.publish"} \subseteq Awaits
      BY DEF Awaits
    <2>4. CASE AcceptEstimate(c)
      <3>1. CASE Exists(c.ride)
        <4> DEFINE d == [c EXCEPT !.pc = "accept.insert",
                                  !.fare = Riding(c.ride) \cup {c.passenger}]
        <4>1. d.id = c.id
          BY <2>1 DEF Call
        <4>2. calls' = (calls \ {c}) \cup {d} /\ UNCHANGED callbacks
          BY <2>4, <3>1 DEF AcceptEstimate
        <4>3. c.pc \in Before
          BY <2>4 DEF AcceptEstimate
        <4> HIDE DEF d
        <4>4. QED
          BY <4>1, <4>2, <4>3 DEF SlotsClear
      <3>2. QED
        BY <1>2, <2>4, <3>1 DEF AcceptEstimate, Answer
    <2>5. CASE AcceptAdjust(c)
      <3> DEFINE d == [c EXCEPT !.pc = "accept.device"]
      <3>1. d.pc = "accept.device"
        BY <2>1 DEF Call
      <3>2. calls' = (calls \ {c}) \cup {d}
        BY <2>5 DEF AcceptAdjust, Await
      <3>3. \A k \in callbacks': k \in callbacks \/ k.by = c.id
        BY <2>5 DEF AcceptAdjust
      <3>4. \A e \in calls: e.id = c.id => e = c
        BY DEF TypeOK
      <3> HIDE DEF d
      <3>5. QED
        BY <3>1, <3>2, <3>3, <3>4 DEF SlotsClear
    <2>6. CASE AcceptInsert(c)
      BY <1>2, <2>2, <2>3, <2>6 DEF AcceptInsert, Answer
    <2>7. CASE \/ RequestDevice(c) \/ AcceptDevice(c) \/ RejectDevice(c)
               \/ CompleteUpdate(c) \/ CompleteDevice(c)
      BY <1>2, <2>2, <2>3, <2>7
         DEF RequestDevice, AcceptDevice, RejectDevice, CompleteUpdate,
             CompleteDevice, Answer
    <2>8. CASE \/ RequestPublish(c) \/ AcceptPublish(c) \/ RejectPublish(c)
               \/ CompletePublish(c) \/ CreateLocation(c)
      BY <1>2, <2>8 DEF RequestPublish, AcceptPublish, RejectPublish,
             CompletePublish, CreateLocation, PublishAndAnswer, Answer, ProcessEnds
    <2>9. QED
      BY <1>3, <2>4, <2>5, <2>6, <2>7, <2>8 DEF HandlerStep
  <1>4. ASSUME NEW k \in callbacks, SetFare(k)
        PROVE  SlotsClear'
    <2> DEFINE l == [k EXCEPT !.task = "findDevice"]
    <2>1. l.by = k.by
      BY DEF TypeOK, Callback
    <2>2. callbacks' = (callbacks \ {k}) \cup {l} /\ UNCHANGED calls
      BY <1>4 DEF SetFare
    <2> HIDE DEF l
    <2>3. QED
      BY <1>1, <2>1, <2>2
  <1>5. ASSUME NEW id \in Slots, NewRequest(id)
        PROVE  SlotsClear'
    <2>1. ASSUME NEW d, d.id = id, CanServe(id), calls' = calls \cup {d},
                 UNCHANGED callbacks
          PROVE  SlotsClear'
      BY <2>1 DEF SlotsClear, CanServe
    <2>2. ASSUME NEW r \in Rides, Complete(id, r)
          PROVE  SlotsClear'
      <3> DEFINE d == NewCall(id, "complete.update", r, None)
      <3>1. d.id = id /\ d.pc = "complete.update"
        BY DEF NewCall
      <3>2. calls' = calls \cup {d} /\ CanServe(id)
        BY <2>2 DEF Complete
      <3>3. \A k \in callbacks': k \in callbacks \/ k.by = id
        BY <2>2 DEF Complete
      <3> HIDE DEF d
      <3>4. QED
        BY <3>1, <3>2, <3>3 DEF SlotsClear, CanServe
    <2>3. ASSUME NEW r \in Rides, CreateRide(id, r)
          PROVE  SlotsClear'
      BY <2>1, <2>3 DEF CreateRide, NewCall
    <2>4. ASSUME NEW r \in Rides, NEW p \in Passengers,
                 Accept(id, r, p) \/ Reject(id, r, p) \/ RequestRide(id, r, p)
          PROVE  SlotsClear'
      BY <2>1, <2>4 DEF Accept, Reject, RequestRide, NewCall
    <2>5. QED
      BY <1>5, <2>2, <2>3, <2>4 DEF NewRequest
  <1>6. QED
    BY <1>2, <1>3, <1>4, <1>5
       DEF Next, NextUnfailing, vars, Stopped, Restart, ProcessEnds, CallFails,
           OneStepRequest, RegisterDevice, DeleteRide, UpdateRide,
           CompletePassengerRide, UpdatePassengerRideStatus,
           CallbackStep, NotifyFare, SetCompleted, Answer

------------------------------------------------------------------------------
LEMMA TypeInvInit == Init => TypeInv
  BY DEF Init, TypeInv, TypeOK, CallbacksOnRows, SlotsClear

LEMMA TypeInvStep ==
    ASSUME TypeInv, [Next]_vars
    PROVE  TypeInv'
  <1>1. TablesOK' /\ CallsOK' /\ CallbacksOK' /\ CallbacksOnRows' /\ SlotsClear'
    BY TablesStep, CallsStep, CallbacksStep, SlotsClearStep DEF TypeInv
  <1>2. row' \in [Rows -> Booking \cup {None}]
    BY RowsAreKept DEF TypeInv
  <1>3. TypeOK'
    BY <1>1, <1>2 DEF TypeOK, TablesOK, CallsOK, CallbacksOK
  <1>4. QED
    BY <1>1, <1>3 DEF TypeInv

THEOREM TypeInvariance == Spec => []TypeInv
  <1>1. TypeInv /\ UNCHANGED vars => TypeInv'
    BY TypeInvStep
  <1>2. TypeInv /\ Next => TypeInv'
    BY TypeInvStep
  <1>3. QED
    BY TypeInvInit, <1>2, <1>1, PTL DEF Spec

(* Every reachable state is well typed, a slot serves one call at a time    *)
(* and runs one callback per row.                                           *)
THEOREM TypeCorrect == Spec => []TypeOK
  <1>1. TypeInv => TypeOK
    BY DEF TypeInv
  <1>2. QED
    BY <1>1, TypeInvariance, PTL

------------------------------------------------------------------------------
(* Where what is new in a state came from.  Each lemma looks at one         *)
(* variable, and the properties below need no other case analysis of Next.  *)

(* A message that tells an acceptance was published by an accept.           *)
LEMMA AcceptancesOrigin ==
    ASSUME TypeOK, [Next]_vars, NEW m \in sent', m.type = "RIDE_ACCEPTED"
    PROVE  \/ m \in sent
           \/ \E c \in calls: /\ AcceptPublish(c)
                             /\ m = [type |-> "RIDE_ACCEPTED", ride |-> c.ride,
                                     passenger |-> c.passenger]
  <1>1. CASE sent' = sent
    BY <1>1
  <1>2. ASSUME NEW c \in calls, HandlerStep(c), sent' # sent
        PROVE  \/ m \in sent
               \/ AcceptPublish(c) /\ m = [type |-> "RIDE_ACCEPTED",
                                  ride |-> c.ride, passenger |-> c.passenger]
    BY <1>2 DEF HandlerStep, CreateLocation, RequestDevice, RequestPublish,
           AcceptEstimate, AcceptInsert, AcceptAdjust, AcceptDevice,
           AcceptPublish, RejectDevice, RejectPublish, CompleteUpdate,
           CompleteDevice, CompletePublish, PublishAndAnswer, ProcessEnds
  <1>3. ASSUME NEW k \in callbacks, CallbackStep(k)
        PROVE  sent' = sent
    BY <1>3, LookupRejects DEF CallbackStep, SetFare, SetCompleted, ProcessEnds
  <1>4. QED
    BY <1>1, <1>2, <1>3
       DEF Next, NextUnfailing, NewRequest, OneStepRequest, vars, Stopped,
           Restart, ProcessEnds, CallFails, CreateRide, UpdateRide, DeleteRide,
           RegisterDevice, RequestRide, Accept, Reject, Complete,
           CompletePassengerRide, UpdatePassengerRideStatus

SameTrip(c, d) == d.ride = c.ride /\ d.passenger = c.passenger

(* A call past the estimate got there from the statement before, and is     *)
(* about the ride and the passenger it was about.                           *)
LEMMA AcceptsOrigin ==
    ASSUME TypeOK, [Next]_vars, NEW d \in calls',
           d.pc \in {"accept.insert", "accept.adjust",
                     "accept.device", "accept.publish"}
    PROVE  \/ d \in calls
           \/ \E c \in calls:
                /\ SameTrip(c, d)
                /\ \/ /\ AcceptEstimate(c)
                      /\ d.pc = "accept.insert"
                      /\ d.fare = Riding(c.ride) \cup {c.passenger}
                   \/ AcceptInsert(c) /\ Exists(c.ride) /\ d.pc = "accept.adjust"
                   \/ /\ c.pc \in {"accept.adjust", "accept.device"}
                      /\ d.pc \in {"accept.device", "accept.publish"}
  <1> DEFINE Past == {"accept.insert", "accept.adjust",
                      "accept.device", "accept.publish"}
  <1>1. ASSUME NEW c \in calls, HandlerStep(c), d \notin calls
        PROVE  /\ SameTrip(c, d)
               /\ \/ /\ AcceptEstimate(c)
                     /\ d.pc = "accept.insert"
                     /\ d.fare = Riding(c.ride) \cup {c.passenger}
                  \/ AcceptInsert(c) /\ Exists(c.ride) /\ d.pc = "accept.adjust"
                  \/ /\ c.pc \in {"accept.adjust", "accept.device"}
                     /\ d.pc \in {"accept.device", "accept.publish"}
    <2>1. c \in Call
      BY DEF TypeOK
    <2>2. ASSUME NEW pc, Await(c, pc)
          PROVE  d.pc = pc /\ SameTrip(c, d)
      BY <1>1, <2>1, <2>2 DEF Await, Call, SameTrip
    <2>3. CASE AcceptEstimate(c)
      <3>1. d = [c EXCEPT !.pc = "accept.insert",
                          !.fare = Riding(c.ride) \cup {c.passenger}]
        BY <1>1, <2>3 DEF AcceptEstimate, Answer
      <3>2. QED
        BY <2>1, <2>3, <3>1 DEF Call, SameTrip
    <2>4. CASE AcceptInsert(c)
      BY <1>1, <2>2, <2>4 DEF AcceptInsert, Answer
    <2>5. CASE AcceptAdjust(c) \/ AcceptDevice(c)
      BY <1>1, <2>2, <2>5 DEF AcceptAdjust, AcceptDevice, Answer
    <2>6. CASE \/ RequestDevice(c) \/ RejectDevice(c)
               \/ CompleteUpdate(c) \/ CompleteDevice(c)
      BY <1>1, <2>2, <2>6
         DEF RequestDevice, RejectDevice, CompleteUpdate, CompleteDevice, Answer
    <2>7. CASE \/ RequestPublish(c) \/ AcceptPublish(c) \/ RejectPublish(c)
               \/ CompletePublish(c) \/ CreateLocation(c)
      BY <1>1, <2>7 DEF RequestPublish, AcceptPublish, RejectPublish,
             CompletePublish, CreateLocation, PublishAndAnswer, Answer, ProcessEnds
    <2>8. QED
      BY <1>1, <2>3, <2>4, <2>5, <2>6, <2>7 DEF HandlerStep
  <1>2. ASSUME NEW id \in Slots, NewRequest(id)
        PROVE  d \in calls
    <2>1. ASSUME NEW e, e.pc \notin Past, calls' = calls \cup {e}
          PROVE  d \in calls
      BY <2>1
    <2>2. ASSUME NEW r \in Rides, CreateRide(id, r) \/ Complete(id, r)
          PROVE  d \in calls
      BY <2>1, <2>2 DEF CreateRide, Complete, NewCall
    <2>3. ASSUME NEW r \in Rides, NEW p \in Passengers,
                 Accept(id, r, p) \/ Reject(id, r, p) \/ RequestRide(id, r, p)
          PROVE  d \in calls
      BY <2>1, <2>3 DEF Accept, Reject, RequestRide, NewCall
    <2>4. QED
      BY <1>2, <2>2, <2>3 DEF NewRequest
  <1>3. CASE calls' \subseteq calls
    BY <1>3
  <1>4. QED
    BY <1>1, <1>2, <1>3
       DEF Next, NextUnfailing, vars, Stopped, Restart, ProcessEnds, CallFails,
           OneStepRequest, RegisterDevice, DeleteRide, UpdateRide,
           CompletePassengerRide, UpdatePassengerRideStatus,
           CallbackStep, SetFare, NotifyFare, SetCompleted, Answer

(* A callback writes no fare, the fare it was started with, or one of the   *)
(* fares an accept has just adjusted.                                       *)
LEMMA CallbacksOrigin ==
    ASSUME TypeOK, [Next]_vars, NEW k \in callbacks'
    PROVE  \/ \E l \in callbacks: l.row = k.row /\ l.fare = k.fare
           \/ k.fare = {}
           \/ \E c \in calls: /\ AcceptAdjust(c)
                             /\ \E a \in Adjusted(c.ride, c.passenger):
                                   k.row = a.row /\ k.fare = a.fare
  <1>1. CASE callbacks' \subseteq callbacks
    BY <1>1
  <1>2. ASSUME NEW l \in callbacks, SetFare(l)
        PROVE  \E j \in callbacks: j.row = k.row /\ j.fare = k.fare
    <2> DEFINE j == [l EXCEPT !.task = "findDevice"]
    <2>1. j.row = l.row /\ j.fare = l.fare
      BY DEF TypeOK, Callback
    <2>2. callbacks' = (callbacks \ {l}) \cup {j}
      BY <1>2 DEF SetFare
    <2> HIDE DEF j
    <2>3. QED
      BY <2>1, <2>2
  <1>3. ASSUME NEW id \in Slots, NewRequest(id)
        PROVE  k \in callbacks \/ k.fare = {}
    BY <1>3 DEF NewRequest, CreateRide, Complete, RequestRide, Accept, Reject
  <1>4. ASSUME NEW c \in calls, AcceptAdjust(c)
        PROVE  \/ k \in callbacks
               \/ \E a \in Adjusted(c.ride, c.passenger):
                     k.row = a.row /\ k.fare = a.fare
    BY <1>4 DEF AcceptAdjust
  <1>5. QED
    BY <1>1, <1>2, <1>3, <1>4
       DEF Next, NextUnfailing, OneStepRequest, HandlerStep,
           CallbackStep, vars, Stopped, Restart, ProcessEnds, CallFails,
           CreateLocation, UpdateRide, DeleteRide, RegisterDevice,
           RequestDevice, RequestPublish, PublishAndAnswer,
           AcceptEstimate, AcceptInsert, AcceptDevice, AcceptPublish,
           NotifyFare, SetCompleted, RejectDevice, RejectPublish,
           CompleteUpdate, CompleteDevice, CompletePublish,
           CompletePassengerRide, UpdatePassengerRideStatus

(* A booking was in its row before, with the fare it has now or the one a   *)
(* callback brought, or an accept has just inserted it.                     *)
LEMMA BookingsOrigin ==
    ASSUME TypeInv, [Next]_vars, NEW i \in Rows, row'[i] # None
    PROVE  \/ /\ row[i] # None
              /\ \/ row'[i].fare = row[i].fare
                 \/ \E k \in callbacks: k.row = i /\ row'[i].fare = k.fare
           \/ /\ row[i] = None
              /\ \E c \in calls: /\ AcceptInsert(c)
                               /\ Exists(c.ride)
                               /\ SameTrip(c, row'[i])
                               /\ row'[i].fare = c.fare
  <1> USE DEF TypeInv
  <1>1. CASE UNCHANGED row
    BY <1>1
  <1>2. ASSUME NEW c \in calls, AcceptInsert(c)
        PROVE  \/ row[i] # None /\ row'[i].fare = row[i].fare
               \/ /\ row[i] = None
                  /\ Exists(c.ride)
                  /\ SameTrip(c, row'[i])
                  /\ row'[i].fare = c.fare
    <2>1. CASE Exists(c.ride)
      <3>1. PICK j \in FreeRows:
               /\ row'[j] = [ride |-> c.ride, passenger |-> c.passenger,
                             status |-> "ACCEPTED", fare |-> c.fare]
               /\ \A h \in Rows: h # j => row'[h] = row[h]
        BY <1>2, <2>1, InsertKeepsRows
      <3>2. row[j] = None
        BY DEF FreeRows
      <3>3. QED
        BY <2>1, <3>1, <3>2 DEF SameTrip
    <2>2. QED
      BY <1>1, <1>2, <2>1 DEF AcceptInsert
  <1>3. ASSUME NEW k \in callbacks, SetFare(k)
        PROVE  /\ row[i] # None
               /\ \/ row'[i].fare = row[i].fare
                  \/ k.row = i /\ row'[i].fare = k.fare
    <2>1. /\ k.row \in Rows /\ k.fare \in SUBSET Passengers /\ row[k.row] # None
          /\ "ACCEPTED" \in PassengerStatus
      BY DEF TypeOK, Callback, CallbacksOnRows, PassengerStatus
    <2>2. /\ row'[k.row].fare \in {row[k.row].fare, k.fare}
          /\ \A j \in Rows: j # k.row => row'[j] = row[j]
      BY <1>3, <2>1, WriteKeepsRows DEF SetFare
    <2>3. QED
      BY <2>1, <2>2
  <1>4. ASSUME NEW h \in Rows, row[h] # None, NEW s \in PassengerStatus,
               row' = [row EXCEPT ![h].status = s]
        PROVE  row[i] # None /\ row'[i].fare = row[i].fare
    <2>1. /\ row'[h].fare \in {row[h].fare, row[h].fare}
          /\ \A j \in Rows: j # h => row'[j] = row[j]
      BY <1>4, BookingFields, WriteKeepsRows
    <2>2. QED
      BY <1>4, <2>1
  <1>5. ASSUME NEW k \in callbacks, SetCompleted(k)
        PROVE  row[i] # None /\ row'[i].fare = row[i].fare
    BY <1>4, <1>5 DEF SetCompleted, TypeOK, Callback, CallbacksOnRows, PassengerStatus
  <1>6. ASSUME NEW r \in Rides, NEW p \in Passengers, NEW s \in PassengerStatus,
               UpdatePassengerRideStatus(r, p, s)
        PROVE  row[i] # None /\ row'[i].fare = row[i].fare
    BY <1>4, <1>6 DEF UpdatePassengerRideStatus, RowsFor, RowsOf
  <1>7. "COMPLETED" \in PassengerStatus
    BY DEF PassengerStatus
  <1>8. QED
    BY <1>1, <1>2, <1>3, <1>5, <1>6, <1>7
       DEF Next, NextUnfailing, NewRequest, OneStepRequest, HandlerStep,
           CallbackStep, vars, Stopped, Restart, ProcessEnds, CallFails,
           CreateRide, CreateLocation, UpdateRide, DeleteRide, RegisterDevice,
           RequestRide, RequestDevice, RequestPublish, PublishAndAnswer,
           Accept, AcceptEstimate, AcceptAdjust, AcceptDevice, AcceptPublish,
           NotifyFare, Reject, RejectDevice, RejectPublish,
           Complete, CompleteUpdate, CompleteDevice, CompletePublish,
           CompletePassengerRide

(* A ride somebody is booked on stays: only the foreign key stands between  *)
(* a delete and an orphaned booking.                                        *)
LEMMA BookedRidesStay ==
    ASSUME TypeOK, [Next]_vars, NEW r \in Rides, Exists(r), RowsOf(r) # {}
    PROVE  Exists(r)'
  <1> USE DEF TypeOK, Exists
  <1>1. CASE UNCHANGED ride
    BY <1>1
  <1>2. ASSUME NEW q \in Rides, DeleteRide(q)
        PROVE  Exists(r)'
    BY <1>2 DEF DeleteRide
  <1>3. ASSUME NEW q \in Rides, NEW s \in RideStatus, UpdateRide(q, s)
        PROVE  Exists(r)'
    BY <1>3 DEF UpdateRide
  <1>4. ASSUME NEW q \in Rides, NEW id \in Slots, CreateRide(id, q)
        PROVE  Exists(r)'
    BY <1>4 DEF CreateRide, RideStatus
  <1>5. ASSUME NEW c \in calls, CompleteUpdate(c)
        PROVE  Exists(r)'
    BY <1>5 DEF CompleteUpdate, RideStatus
  <1>6. QED
    BY <1>1, <1>2, <1>3, <1>4, <1>5
       DEF Next, NextUnfailing, NewRequest, OneStepRequest, HandlerStep,
           CallbackStep, vars, Stopped, Restart, ProcessEnds, CallFails,
           CreateLocation, RegisterDevice, RequestRide, RequestDevice,
           RequestPublish, PublishAndAnswer, Accept, AcceptEstimate, AcceptInsert,
           AcceptAdjust, AcceptDevice, AcceptPublish, SetFare, SetCompleted,
           NotifyFare, Reject, RejectDevice, RejectPublish,
           Complete, CompleteDevice, CompletePublish,
           CompletePassengerRide, UpdatePassengerRideStatus

------------------------------------------------------------------------------
(* Bookings are never lost, so what once had a row has one from then on.    *)
LEMMA HasRowStays ==
    ASSUME TypeInv, [Next]_vars, NEW r, NEW p, HasRow(r, p)
    PROVE  HasRow(r, p)'
  <1>1. RowsKept
    BY RowsAreKept DEF TypeInv
  <1>2. QED
    BY <1>1 DEF RowsKept, HasRow, RowsFor, RowsOf

LEMMA BookedHasRow ==
    ASSUME NEW i \in Rows, row[i] # None
    PROVE  HasRow(row[i].ride, row[i].passenger)
  BY DEF HasRow, RowsFor, RowsOf

LEMMA AcceptedIsBookedStep ==
    ASSUME Inv, [Next]_vars
    PROVE  AcceptedIsBooked'
  <1> SUFFICES ASSUME NEW m \in sent', m.type = "RIDE_ACCEPTED"
               PROVE  HasRow(m.ride, m.passenger)'
    BY DEF AcceptedIsBooked, HasRow
  <1>1. HasRow(m.ride, m.passenger)
    <2>1. CASE m \in sent
      BY <2>1 DEF Inv, AcceptedIsBooked, HasRow
    <2>2. ASSUME NEW c \in calls, AcceptPublish(c),
                 m = [type |-> "RIDE_ACCEPTED", ride |-> c.ride,
                      passenger |-> c.passenger]
          PROVE  HasRow(m.ride, m.passenger)
      BY <2>2 DEF Inv, InsertedCallsBooked, AcceptPublish
    <2>3. QED
      BY <2>1, <2>2, AcceptancesOrigin DEF Inv, TypeInv
  <1>2. QED
    BY <1>1, HasRowStays DEF Inv

LEMMA InsertedCallsBookedStep ==
    ASSUME Inv, [Next]_vars
    PROVE  InsertedCallsBooked'
  <1> SUFFICES ASSUME NEW d \in calls',
                      d.pc \in {"accept.adjust", "accept.device", "accept.publish"}
               PROVE  HasRow(d.ride, d.passenger)'
    BY DEF InsertedCallsBooked
  <1>1. CASE d \in calls
    BY <1>1, HasRowStays DEF Inv, InsertedCallsBooked
  <1>2. ASSUME NEW c \in calls, SameTrip(c, d), AcceptInsert(c), Exists(c.ride)
        PROVE  HasRow(d.ride, d.passenger)'
    <2>1. PICK i \in FreeRows:
             row'[i] = [ride |-> c.ride, passenger |-> c.passenger,
                        status |-> "ACCEPTED", fare |-> c.fare]
      BY <1>2, InsertKeepsRows DEF Inv, TypeInv
    <2>2. /\ row' \in [Rows -> Booking \cup {None}]
          /\ c \in Call /\ c.passenger \in Passengers
      BY <1>2, InsertKeepsRows DEF Inv, TypeInv, TypeOK, AcceptInsert, Call
    <2>3. row'[i] # None
      BY <2>1, <2>2, NoneAssumption DEF Call, Booking, PassengerStatus
    <2>4. i \in Rows
      BY DEF FreeRows
    <2>5. QED
      BY <1>2, <2>1, <2>3, <2>4 DEF HasRow, RowsFor, RowsOf, SameTrip
  <1>3. ASSUME NEW c \in calls, SameTrip(c, d),
               c.pc \in {"accept.adjust", "accept.device"}
        PROVE  HasRow(d.ride, d.passenger)'
    BY <1>3, HasRowStays DEF Inv, InsertedCallsBooked, SameTrip
  <1>4. QED
    BY <1>1, <1>2, <1>3, AcceptsOrigin DEF Inv, TypeInv

LEMMA EstimatesOfBookedStep ==
    ASSUME Inv, [Next]_vars
    PROVE  EstimatesOfBooked'
  <1> SUFFICES ASSUME NEW d \in calls', d.pc = "accept.insert",
                      NEW p \in d.fare, p # d.passenger
               PROVE  HasRow(d.ride, p)'
    BY DEF EstimatesOfBooked
  <1>1. CASE d \in calls
    BY <1>1, HasRowStays DEF Inv, EstimatesOfBooked
  <1>2. ASSUME NEW c \in calls, SameTrip(c, d),
               d.fare = Riding(c.ride) \cup {c.passenger}
        PROVE  HasRow(d.ride, p)'
    <2>1. PICK i \in RowsRiding(c.ride): p = row[i].passenger
      BY <1>2 DEF SameTrip, Riding
    <2>2. HasRow(d.ride, p)
      BY <1>2, <2>1 DEF SameTrip, RowsRiding, RowsOf, RowsFor, HasRow
    <2>3. QED
      BY <2>2, HasRowStays DEF Inv
  <1>3. QED
    BY <1>1, <1>2, AcceptsOrigin DEF Inv, TypeInv

LEMMA CallbackFaresStep ==
    ASSUME Inv, [Next]_vars
    PROVE  CallbackFaresOfBooked'
  <1> SUFFICES ASSUME NEW k \in callbacks', NEW p \in k.fare,
                      NEW r, r = row'[k.row].ride
               PROVE  HasRow(r, p)'
    BY DEF CallbackFaresOfBooked, HasRow, RowsFor, RowsOf
  <1>1. RowsKept
    BY RowsAreKept DEF Inv, TypeInv
  <1>2. ASSUME NEW l \in callbacks, l.row = k.row, l.fare = k.fare
        PROVE  HasRow(r, p)'
    <2>1. l.row \in Rows /\ row[l.row] # None
      BY DEF Inv, TypeInv, TypeOK, Callback, CallbacksOnRows
    <2>2. HasRow(row[l.row].ride, p)
      BY <1>2 DEF Inv, CallbackFaresOfBooked
    <2>3. row'[l.row].ride = row[l.row].ride
      BY <1>1, <2>1 DEF RowsKept
    <2>4. QED
      BY <1>2, <2>2, <2>3, HasRowStays DEF Inv
  <1>3. ASSUME NEW c \in calls, AcceptAdjust(c),
               NEW a \in Adjusted(c.ride, c.passenger),
               k.row = a.row, k.fare = a.fare
        PROVE  HasRow(r, p)'
    <2>1. /\ c.ride \in Rides /\ c.passenger \in Passengers
          /\ HasRow(c.ride, c.passenger)
      BY <1>3 DEF Inv, TypeInv, TypeOK, Call, AcceptAdjust, InsertedCallsBooked
    <2>2. /\ a.row \in RowsOf(c.ride)
          /\ a.fare = row[a.row].fare \/ a.fare = {row[a.row].passenger, c.passenger}
      BY <2>1, AdjustedEntries DEF Inv, TypeInv
    <2>3. a.row \in Rows /\ row[a.row] # None /\ row[a.row].ride = c.ride
      BY <2>2 DEF RowsOf
    <2>4. HasRow(c.ride, p)
      BY <1>3, <2>1, <2>2, <2>3, BookedHasRow
         DEF Inv, FareOfBookedPassengers, HasRow
    <2>5. row'[a.row].ride = c.ride
      BY <1>1, <2>3 DEF RowsKept
    <2>6. QED
      BY <1>3, <2>4, <2>5, HasRowStays DEF Inv
  <1>4. QED
    BY <1>2, <1>3, CallbacksOrigin DEF Inv, TypeInv

LEMMA FareOfBookedPassengersStep ==
    ASSUME Inv, [Next]_vars
    PROVE  FareOfBookedPassengers'
  <1> SUFFICES ASSUME NEW i \in Rows, row'[i] # None,
                      NEW r, r = row'[i].ride
               PROVE  /\ Exists(r)'
                      /\ \A p \in row'[i].fare: HasRow(r, p)'
    BY DEF FareOfBookedPassengers, HasRow, RowsFor, RowsOf, Exists
  <1>1. RowsKept
    BY RowsAreKept DEF Inv, TypeInv
  <1>2. CASE row[i] # None
    <2>1. row'[i].ride = row[i].ride /\ row[i].ride \in Rides
      BY <1>1, <1>2, BookingFields DEF RowsKept, Inv, TypeInv
    <2>2. Exists(row[i].ride) /\ RowsOf(row[i].ride) # {}
      BY <1>2 DEF Inv, FareOfBookedPassengers, RowsOf
    <2>3. Exists(r)'
      BY <2>1, <2>2, BookedRidesStay DEF Inv, TypeInv
    <2>4. ASSUME NEW p \in row'[i].fare
          PROVE  HasRow(row[i].ride, p)
      BY <1>2, BookingsOrigin DEF Inv, FareOfBookedPassengers,
                                  CallbackFaresOfBooked, HasRow
    <2>5. QED
      BY <2>1, <2>3, <2>4, HasRowStays DEF Inv
  <1>3. ASSUME row[i] = None, NEW c \in calls, AcceptInsert(c), Exists(c.ride),
               SameTrip(c, row'[i]), row'[i].fare = c.fare
        PROVE  /\ Exists(r)'
               /\ \A p \in row'[i].fare: HasRow(r, p)'
    <2>1. Exists(r)'
      BY <1>3 DEF AcceptInsert, Exists, SameTrip
    <2>2. \A p: p = row'[i].passenger => HasRow(r, p)'
      BY DEF HasRow, RowsFor, RowsOf
    <2>3. ASSUME NEW p \in c.fare, p # c.passenger
          PROVE  HasRow(c.ride, p)
      BY <1>3, <2>3 DEF Inv, EstimatesOfBooked, AcceptInsert
    <2>4. QED
      BY <1>3, <2>1, <2>2, <2>3, HasRowStays DEF Inv, SameTrip
  <1>4. QED
    BY <1>2, <1>3, BookingsOrigin DEF Inv, TypeInv

LEMMA InvInit == Init => Inv
  BY TypeInvInit
     DEF Init, Inv, AcceptedIsBooked, FareOfBookedPassengers,
         InsertedCallsBooked, EstimatesOfBooked, CallbackFaresOfBooked

LEMMA InvStep ==
    ASSUME Inv, [Next]_vars
    PROVE  Inv'
  <1>1. TypeInv'
    BY TypeInvStep DEF Inv
  <1>2. QED
    BY <1>1, AcceptedIsBookedStep, FareOfBookedPassengersStep,
       InsertedCallsBookedStep, EstimatesOfBookedStep, CallbackFaresStep DEF Inv

LEMMA Invariance == Spec => []Inv
  <1>1. Inv /\ [Next]_vars => Inv'
    BY InvStep
  <1>2. QED
    BY InvInit, <1>1, PTL DEF Spec

(* Whatever crashes, retries, deletions and failed statements came between, *)
(* a passenger told RIDE_ACCEPTED has a row on the ride.                    *)
THEOREM AcceptedAreBooked == Spec => []AcceptedIsBooked
  <1>1. Inv => AcceptedIsBooked
    BY DEF Inv
  <1>2. QED
    BY <1>1, Invariance, PTL

(* Bookings refer to rides that exist, and fares to passengers booked with  *)
(* them, however late a callback writes the fare.                           *)
THEOREM FaresAreOfBooked == Spec => []FareOfBookedPassengers
  <1>1. Inv => FareOfBookedPassengers
    BY DEF Inv
  <1>2. QED
    BY <1>1, Invariance, PTL

------------------------------------------------------------------------------
(* What a step may never do.                                                *)

(* No accept sets out for a passenger who has a row on the ride.            *)
LEMMA BookedNotAcceptedAnew ==
    ASSUME TypeInv, [Next]_vars, NEW d \in calls',
           HasRow(d.ride, d.passenger), d.pc = "accept.estimate"
    PROVE  d \in calls
  <1>1. ASSUME NEW c \in calls, NEW pc, pc # "accept.estimate", Await(c, pc)
        PROVE  d \in calls
    BY <1>1 DEF Await, TypeInv, TypeOK, Call
  <1>2. ASSUME NEW c \in calls, HandlerStep(c)
        PROVE  d \in calls
    <2>1. CASE AcceptEstimate(c)
      <3>1. CASE Exists(c.ride)
        <4> DEFINE e == [c EXCEPT !.pc = "accept.insert",
                                  !.fare = Riding(c.ride) \cup {c.passenger}]
        <4>1. e.pc = "accept.insert"
          BY DEF TypeInv, TypeOK, Call
        <4>2. calls' = (calls \ {c}) \cup {e}
          BY <2>1, <3>1 DEF AcceptEstimate
        <4> HIDE DEF e
        <4>3. QED
          BY <4>1, <4>2
      <3>2. QED
        BY <2>1, <3>1 DEF AcceptEstimate, Answer
    <2>2. QED
      BY <1>1, <1>2, <2>1
         DEF HandlerStep, CreateLocation, RequestDevice, RequestPublish,
             AcceptInsert, AcceptAdjust, AcceptDevice, AcceptPublish,
             RejectDevice, RejectPublish, CompleteUpdate, CompleteDevice,
             CompletePublish, PublishAndAnswer, Answer, ProcessEnds
  <1>3. ASSUME NEW id \in Slots, NewRequest(id)
        PROVE  d \in calls
    <2>1. ASSUME NEW e, e.pc # "accept.estimate", calls' = calls \cup {e}
          PROVE  d \in calls
      BY <2>1
    <2>2. ASSUME NEW r \in Rides, CreateRide(id, r) \/ Complete(id, r)
          PROVE  d \in calls
      BY <2>1, <2>2 DEF CreateRide, Complete, NewCall
    <2>3. ASSUME NEW r \in Rides, NEW p \in Passengers,
                 Reject(id, r, p) \/ RequestRide(id, r, p)
          PROVE  d \in calls
      BY <2>1, <2>3 DEF Reject, RequestRide, NewCall
    <2>4. ASSUME NEW r \in Rides, NEW p \in Passengers, Accept(id, r, p)
          PROVE  d \in calls
      <3>1. d \in calls \/ d = NewCall(id, "accept.estimate", r, p)
        BY <2>4 DEF Accept
      <3>2. d = NewCall(id, "accept.estimate", r, p) =>
                d.ride = r /\ d.passenger = p
        BY DEF NewCall
      <3>3. ~HasRow(r, p)
        BY <2>4 DEF Accept, HasRow
      <3>4. QED
        BY <3>1, <3>2, <3>3
    <2>5. QED
      BY <1>3, <2>2, <2>3, <2>4 DEF NewRequest
  <1>4. calls' \subseteq calls => d \in calls
    OBVIOUS
  <1>5. QED
    BY <1>2, <1>3, <1>4
       DEF Next, NextUnfailing, vars, Stopped, Restart, ProcessEnds, CallFails,
           OneStepRequest, RegisterDevice, DeleteRide, UpdateRide,
           CompletePassengerRide, UpdatePassengerRideStatus,
           CallbackStep, SetFare, NotifyFare, SetCompleted, Answer

(* Once p is booked on r and no accept that missed the row is in flight,    *)
(* nothing books p on r again, and no such accept comes up.                 *)
THEOREM SettledBookingsAreFinal == Spec => SettledBookingIsFinal
  <1>1. ASSUME TypeInv, [Next]_vars, NEW r \in Rides, NEW p \in Passengers,
               Settled(r, p)
        PROVE  Settled(r, p)' /\ RowsFor(r, p)' = RowsFor(r, p)
    <2> USE DEF Settled
    <2>1. RowsKept
      BY <1>1, RowsAreKept DEF TypeInv
    <2>2. RowsFor(r, p) \subseteq RowsFor(r, p)'
      BY <2>1 DEF RowsKept, RowsFor, RowsOf
    <2>3. ASSUME NEW i \in RowsFor(r, p)'
          PROVE  i \in RowsFor(r, p)
      <3>1. /\ i \in Rows /\ row'[i] # None
            /\ row'[i].ride = r /\ row'[i].passenger = p
        BY <2>3 DEF RowsFor, RowsOf
      <3>2. CASE row[i] # None
        BY <2>1, <3>1, <3>2 DEF RowsKept, RowsFor, RowsOf
      <3>3. ASSUME NEW c \in calls, AcceptInsert(c), SameTrip(c, row'[i])
            PROVE  FALSE
        BY <1>1, <3>1, <3>3 DEF Deciding, AcceptsInFlight, AcceptInsert, SameTrip
      <3>4. QED
        BY <1>1, <3>1, <3>2, <3>3, BookingsOrigin
    <2>4. ASSUME NEW d \in calls', d.pc \in {"accept.estimate", "accept.insert"},
                 d.ride = r, d.passenger = p
          PROVE  FALSE
      <3>1. d \notin calls
        BY <1>1, <2>4 DEF Deciding, AcceptsInFlight
      <3>2. CASE d.pc = "accept.estimate"
        BY <1>1, <2>4, <3>1, <3>2, BookedNotAcceptedAnew DEF HasRow
      <3>3. CASE d.pc = "accept.insert"
        <4>1. PICK c \in calls: SameTrip(c, d) /\ AcceptEstimate(c)
          BY <1>1, <3>1, <3>3, AcceptsOrigin DEF TypeInv
        <4>2. QED
          BY <1>1, <2>4, <4>1
             DEF Deciding, AcceptsInFlight, AcceptEstimate, SameTrip
      <3>4. QED
        BY <2>4, <3>2, <3>3
    <2>5. ~Deciding(r, p)'
      BY <2>4 DEF Deciding, AcceptsInFlight
    <2>6. QED
      BY <1>1, <2>2, <2>3, <2>5
  <1>2. TypeInv /\ [Next]_vars =>
          [\A r \in Rides, p \in Passengers:
              Settled(r, p) => Settled(r, p)' /\ RowsFor(r, p)' = RowsFor(r, p)]_vars
    BY <1>1
  <1>3. QED
    BY <1>2, TypeInvariance, PTL DEF Spec, SettledBookingIsFinal

(* While p has a row on r no new call sets out to tell p.                   *)
LEMMA TellingOrigin ==
    ASSUME TypeInv, [Next]_vars, NEW d \in calls',
           HasRow(d.ride, d.passenger), d.pc \in Telling
    PROVE  \E c \in calls: SameTrip(c, d) /\ c.pc \in Telling
  <1>1. CASE d.pc # "accept.estimate"
    BY <1>1, AcceptsOrigin DEF TypeInv, Telling, AcceptEstimate, AcceptInsert, SameTrip
  <1>2. CASE d.pc = "accept.estimate"
    BY <1>2, BookedNotAcceptedAnew DEF SameTrip
  <1>3. QED
    BY <1>1, <1>2

(* A passenger booked but not told, with no accept left to tell, is told by *)
(* nothing that can still happen: retries are refused by the row.           *)
THEOREM UntoldStaysUntold == Spec => UntoldForEver
  <1>1. ASSUME TypeInv, [Next]_vars, NEW r \in Rides, NEW p \in Passengers,
               Untold(r, p)
        PROVE  Untold(r, p)'
    <2>1. HasRow(r, p) /\ HasRow(r, p)'
      BY <1>1, HasRowStays DEF Untold, HasRow
    <2>2. ASSUME [type |-> "RIDE_ACCEPTED", ride |-> r, passenger |-> p] \in sent'
          PROVE  FALSE
      <3> DEFINE m == [type |-> "RIDE_ACCEPTED", ride |-> r, passenger |-> p]
      <3>1. m \in sent' /\ m \notin sent /\ m.type = "RIDE_ACCEPTED"
        BY <1>1, <2>2 DEF Untold
      <3>2. m.ride = r /\ m.passenger = p
        OBVIOUS
      <3> HIDE DEF m
      <3>3. PICK c \in calls: /\ AcceptPublish(c)
                              /\ m.ride = c.ride /\ m.passenger = c.passenger
        BY <1>1, <3>1, AcceptancesOrigin DEF TypeInv
      <3>4. QED
        BY <1>1, <3>2, <3>3 DEF Untold, AcceptPublish, Telling
    <2>3. ASSUME NEW d \in calls', d.ride = r, d.passenger = p, d.pc \in Telling
          PROVE  FALSE
      BY <1>1, <2>1, <2>3, TellingOrigin DEF Untold, SameTrip
    <2>4. QED
      BY <2>1, <2>2, <2>3 DEF Untold, HasRow
  <1>2. TypeInv /\ [Next]_vars =>
          [\A r \in Rides, p \in Passengers: Untold(r, p) => Untold(r, p)']_vars
    BY <1>1
  <1>3. QED
    BY <1>2, TypeInvariance, PTL DEF Spec, UntoldForEver

------------------------------------------------------------------------------
(* The service implements the ledger.  The refinement mapping, by name:     *)

Life == [r \in Rides |-> IF Exists(r) THEN "open" ELSE ride[r]]
Entries == [i \in Rows |->
               IF row[i] = None THEN None
               ELSE [ride |-> row[i].ride, passenger |-> row[i].passenger]]
Told == {[ride |-> m.ride, passenger |-> m.passenger]:
            m \in {n \in sent: n.type = "RIDE_ACCEPTED"}}

(* Only these steps change what the ledger shows.                           *)
Inserting == \E c \in calls: AcceptInsert(c) /\ Exists(c.ride)
Opening == \E id \in Slots, r \in Rides: CreateRide(id, r)
Deleting == \E r \in Rides: DeleteRide(r)
Publishing == \E c \in calls: AcceptPublish(c)

LEMMA EntriesUnchanged ==
    ASSUME TypeInv, [Next]_vars, ~Inserting
    PROVE  Entries' = Entries
  <1>1. RowsKept
    BY RowsAreKept DEF TypeInv
  <1>2. ASSUME NEW i \in Rows, row[i] = None
        PROVE  row'[i] = None
    BY <1>2, BookingsOrigin DEF Inserting
  <1>3. QED
    BY <1>1, <1>2 DEF Entries, RowsKept

LEMMA MessagesStay ==
    ASSUME TypeOK, [Next]_vars
    PROVE  sent \subseteq sent'
  <1>1. ASSUME NEW c \in calls, HandlerStep(c)
        PROVE  sent \subseteq sent'
    BY <1>1 DEF HandlerStep, CreateLocation, RequestDevice, RequestPublish,
           AcceptEstimate, AcceptInsert, AcceptAdjust, AcceptDevice,
           AcceptPublish, RejectDevice, RejectPublish, CompleteUpdate,
           CompleteDevice, CompletePublish, PublishAndAnswer, ProcessEnds
  <1>2. ASSUME NEW k \in callbacks, CallbackStep(k)
        PROVE  sent \subseteq sent'
    BY <1>2, LookupRejects DEF CallbackStep, SetFare, SetCompleted, ProcessEnds
  <1>3. QED
    BY <1>1, <1>2
       DEF Next, NextUnfailing, NewRequest, OneStepRequest, vars, Stopped,
           Restart, ProcessEnds, CallFails, CreateRide, UpdateRide, DeleteRide,
           RegisterDevice, RequestRide, Accept, Reject, Complete,
           CompletePassengerRide, UpdatePassengerRideStatus

LEMMA ToldUnchanged ==
    ASSUME TypeOK, [Next]_vars, ~Publishing
    PROVE  Told' = Told
  <1>1. \A m \in sent': m.type = "RIDE_ACCEPTED" => m \in sent
    BY AcceptancesOrigin DEF Publishing
  <1>2. QED
    BY <1>1, MessagesStay DEF Told

LEMMA LifeUnchanged ==
    ASSUME TypeOK, [Next]_vars, ~Opening, ~Deleting
    PROVE  Life' = Life
  <1> USE DEF TypeOK
  <1>1. CASE UNCHANGED ride
    BY <1>1 DEF Life, Exists
  <1>2. ASSUME NEW q \in Rides, NEW s \in RideStatus, Exists(q),
               ride' = [ride EXCEPT ![q] = s]
        PROVE  Life' = Life
    BY <1>2 DEF Life, Exists
  <1>3. ASSUME NEW q \in Rides, NEW s \in RideStatus, UpdateRide(q, s)
        PROVE  Life' = Life
    BY <1>2, <1>3 DEF UpdateRide
  <1>4. ASSUME NEW c \in calls, CompleteUpdate(c)
        PROVE  Life' = Life
    BY <1>1, <1>2, <1>4 DEF CompleteUpdate, RideStatus, Call
  <1>5. QED
    BY <1>1, <1>3, <1>4
       DEF Opening, Deleting,
           Next, NextUnfailing, NewRequest, OneStepRequest, HandlerStep,
           CallbackStep, vars, Stopped, Restart, ProcessEnds, CallFails,
           CreateLocation, RegisterDevice, RequestRide, RequestDevice,
           RequestPublish, PublishAndAnswer, Accept, AcceptEstimate, AcceptInsert,
           AcceptAdjust, AcceptDevice, AcceptPublish, SetFare, SetCompleted,
           NotifyFare, Reject, RejectDevice, RejectPublish,
           Complete, CompleteDevice, CompletePublish,
           CompletePassengerRide, UpdatePassengerRideStatus

LEMMA InsertingBooks ==
    ASSUME TypeInv, Inserting
    PROVE  Ledger!Next
  <1>1. PICK c \in calls: AcceptInsert(c) /\ Exists(c.ride)
    BY DEF Inserting
  <1>2. PICK i \in FreeRows:
           /\ row'[i] = [ride |-> c.ride, passenger |-> c.passenger,
                         status |-> "ACCEPTED", fare |-> c.fare]
           /\ \A j \in Rows: j # i => row'[j] = row[j]
    BY <1>1, InsertKeepsRows DEF TypeInv
  <1>3. /\ c.ride \in Rides /\ c.passenger \in Passengers
        /\ c.fare \in SUBSET Passengers
        /\ i \in Rows /\ row[i] = None
    BY <1>1 DEF TypeInv, TypeOK, Call, AcceptInsert, FreeRows
  <1>4. row'[i] # None
    BY <1>2, <1>3, NoneAssumption DEF Booking, PassengerStatus
  <1>5. Entries' = [Entries EXCEPT ![i] =
                      [ride |-> c.ride, passenger |-> c.passenger]]
    <2> DEFINE e == [ride |-> c.ride, passenger |-> c.passenger]
    <2>1. row'[i].ride = c.ride /\ row'[i].passenger = c.passenger
      BY <1>2
    <2>2. Entries'[i] = e
      BY <1>3, <1>4, <2>1 DEF Entries
    <2>3. ASSUME NEW j \in Rows, j # i
          PROVE  Entries'[j] = Entries[j]
      BY <1>2, <2>3 DEF Entries
    <2>4. Entries = [j \in Rows |-> Entries[j]] /\ Entries' = [j \in Rows |-> Entries'[j]]
      BY DEF Entries
    <2> HIDE DEF e
    <2>5. QED
      BY <1>3, <2>2, <2>3, <2>4 DEF e
  <1>6. Life[c.ride] = "open" /\ Entries[i] = None
    BY <1>1, <1>3 DEF Life, Entries
  <1>7. Life' = Life /\ Told' = Told
    BY <1>1 DEF AcceptInsert, Life, Told, Exists
  <1>8. Ledger!Book(i, c.ride, c.passenger)
    BY <1>5, <1>6, <1>7 DEF Ledger!Book, Life, Entries, Told
  <1>9. QED
    BY <1>3, <1>8 DEF Ledger!Next

LEMMA OpeningOpens ==
    ASSUME TypeInv, Opening
    PROVE  Ledger!Next
  <1>1. PICK id \in Slots, r \in Rides: CreateRide(id, r)
    BY DEF Opening
  <1>2. Life[r] = "unused" /\ Life' = [Life EXCEPT ![r] = "open"]
    BY <1>1 DEF CreateRide, Life, Exists, RideStatus, TypeInv, TypeOK
  <1>3. Entries' = Entries /\ Told' = Told
    BY <1>1 DEF CreateRide, Entries, Told
  <1>4. Ledger!Open(r)
    BY <1>2, <1>3 DEF Ledger!Open, Life, Entries, Told
  <1>5. QED
    BY <1>4 DEF Ledger!Next

LEMMA DeletingDeletes ==
    ASSUME TypeInv, Deleting
    PROVE  Ledger!Next
  <1>1. PICK r \in Rides: DeleteRide(r)
    BY DEF Deleting
  <1>2. Life[r] = "open" /\ Life' = [Life EXCEPT ![r] = "deleted"]
    BY <1>1 DEF DeleteRide, Life, Exists, RideStatus, TypeInv, TypeOK
  <1>3. Entries' = Entries /\ Told' = Told
    BY <1>1 DEF DeleteRide, Entries, Told
  <1>4. ASSUME NEW p \in Passengers, NEW i \in Rows,
               Entries[i] = [ride |-> r, passenger |-> p]
        PROVE  FALSE
    <2>1. CASE row[i] = None
      BY <1>4, <2>1, NoneAssumption DEF Entries
    <2>2. CASE row[i] # None
      BY <1>1, <1>4, <2>2 DEF Entries, DeleteRide, RowsOf
    <2>3. QED
      BY <2>1, <2>2
  <1>5. Ledger!Delete(r)
    BY <1>2, <1>3, <1>4 DEF Ledger!Delete, Ledger!Booked, Life, Entries, Told
  <1>6. QED
    BY <1>5 DEF Ledger!Next

LEMMA PublishingTells ==
    ASSUME Inv, Publishing
    PROVE  Ledger!Next
  <1> USE DEF Inv, TypeInv
  <1>1. PICK c \in calls: AcceptPublish(c)
    BY DEF Publishing
  <1>2. c.ride \in Rides /\ c.passenger \in Passengers /\ HasRow(c.ride, c.passenger)
    BY <1>1 DEF TypeOK, Call, AcceptPublish, InsertedCallsBooked
  <1>3. PICK i \in Rows: /\ row[i] # None /\ row[i].ride = c.ride
                         /\ row[i].passenger = c.passenger
    BY <1>2 DEF HasRow, RowsFor, RowsOf
  <1>4. Entries[i] = [ride |-> c.ride, passenger |-> c.passenger]
    BY <1>3 DEF Entries
  <1>5. sent' = sent \cup {[type |-> "RIDE_ACCEPTED", ride |-> c.ride,
                            passenger |-> c.passenger]}
    BY <1>1 DEF AcceptPublish, PublishAndAnswer
  <1>6. Told' = Told \cup {[ride |-> c.ride, passenger |-> c.passenger]}
    <2> DEFINE m == [type |-> "RIDE_ACCEPTED", ride |-> c.ride,
                     passenger |-> c.passenger]
    <2>1. m.type = "RIDE_ACCEPTED" /\ m.ride = c.ride /\ m.passenger = c.passenger
      OBVIOUS
    <2>2. sent' = sent \cup {m}
      BY <1>5
    <2> HIDE DEF m
    <2>3. QED
      BY <2>1, <2>2 DEF Told
  <1>7. Life' = Life /\ Entries' = Entries
    BY <1>1 DEF AcceptPublish, PublishAndAnswer, Life, Entries, Exists
  <1>8. Ledger!TellAccepted(c.ride, c.passenger)
    BY <1>4, <1>6, <1>7
       DEF Ledger!TellAccepted, Ledger!Booked, Life, Entries, Told
  <1>9. QED
    BY <1>2, <1>8 DEF Ledger!Next

LEMMA LedgerStep ==
    ASSUME Inv, [Next]_vars
    PROVE  [Ledger!Next]_(Ledger!ledgerVars)
  <1>1. CASE Inserting \/ Opening \/ Deleting \/ Publishing
    BY <1>1, InsertingBooks, OpeningOpens, DeletingDeletes, PublishingTells DEF Inv
  <1>2. CASE ~(Inserting \/ Opening \/ Deleting \/ Publishing)
    <2>1. Entries' = Entries /\ Told' = Told /\ Life' = Life
      BY <1>2, EntriesUnchanged, ToldUnchanged, LifeUnchanged DEF Inv, TypeInv
    <2>2. QED
      BY <2>1 DEF Ledger!ledgerVars, Life, Entries, Told
  <1>3. QED
    BY <1>1, <1>2

(* Every behaviour of the service, with its races, lost callbacks and       *)
(* restarts, is a behaviour of the ledger.                                  *)
THEOREM Implementation == Spec => LedgerSpec
  <1>1. Init => Ledger!Init
    BY DEF Init, Ledger!Init, Exists, RideStatus
  <1>2. Inv /\ [Next]_vars => [Ledger!Next]_(Ledger!ledgerVars)
    BY LedgerStep
  <1>3. QED
    BY <1>1, <1>2, Invariance, PTL DEF Spec, LedgerSpec, Ledger!Spec

==============================================================================
