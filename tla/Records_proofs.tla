--------------------------- MODULE Records_proofs ---------------------------
(***************************************************************************)
(* Theorems about Records, for any people, seed files and number of rows.  *)
(* A step of the service or of the import leaves the rows alone, or adds   *)
(* rows whose references are there (Grows), or removes rows that nothing   *)
(* refers to (Shrinks); so what a row refers to is there (Referring), and  *)
(* what a booking refers to, directly or not, stays.  An import removes    *)
(* and creates in an order the references allow (ImportInv, from           *)
(* SortIsRight); Accompanied says which users and drivers have their       *)
(* passengers and vehicles meanwhile, and CleanInv what the rows are when  *)
(* nobody else writes.                                                     *)
(***************************************************************************)
EXTENDS SortEntities_proofs

Fits(t, x) == x \in IF t = "passengersOnRide" THEN Booking ELSE Row

RowTypes ==
    /\ DOMAIN rows = Tables /\ rows = [t \in Tables |-> rows[t]]
    /\ \A t \in Tables: \A x \in rows[t]: Fits(t, x)

Unique == \A t \in OnePerPerson: \A x, y \in rows[t]: x.of = y.of => x = y

Referring == \A u \in Tables: \A t \in References[u]: \A x \in rows[u]:
                 \E y \in rows[t]: Refers(x, t, y)

(* Rows of tables that are not imported are the service's.                  *)
OwnOnly == \A t \in Tables \ Importable: \A x \in rows[t]: t # "passengersOnRide" => x = Own(x.of)

ImportTypes ==
    /\ import \in [pc: {"none", "removing", "creating", "done", "failed"},
                   sorted: Seq(Importable), left: Seq(Entity)]
    /\ clean \in BOOLEAN
    /\ broken \in BOOLEAN

RowsInv == RowTypes /\ Unique /\ Referring /\ OwnOnly

Grows ==
    /\ DOMAIN rows' = Tables /\ rows' = [t \in Tables |-> rows'[t]]
    /\ \A t \in Tables: rows[t] \subseteq rows'[t]
    /\ \A t \in Tables: \A x \in rows'[t]: x \notin rows[t] =>
           /\ Fits(t, x)
           /\ t \in OnePerPerson => \A y \in rows'[t]: y.of = x.of => y = x
           /\ \A u \in References[t]: \E y \in rows'[u]: Refers(x, u, y)
           /\ t \notin Importable /\ t # "passengersOnRide" => x = Own(x.of)

Shrinks ==
    /\ DOMAIN rows' = Tables /\ rows' = [t \in Tables |-> rows'[t]]
    /\ \A t \in Tables: rows'[t] \subseteq rows[t]
    /\ \A t \in Tables: \A x \in rows[t]: x \notin rows'[t] =>
           ~Referred(t, x) /\ t # "passengersOnRide"

------------------------------------------------------------------------------
LEMMA TableNames ==
    /\ Tables = {"user", "driver", "vehicle", "passenger", "ride", "passengersOnRide",
                 "device", "passengerRidePreferences", "driverRidePreferences"}
    /\ Importable = {"user", "driver", "vehicle", "passenger", "ride"}
    /\ OnePerPerson = {"user", "driver", "passenger", "device", "passengerRidePreferences",
                       "driverRidePreferences"}
    /\ References["user"] = {}
    /\ References["driver"] = {"user"}
    /\ References["vehicle"] = {"driver"}
    /\ References["passenger"] = {"user"}
    /\ References["ride"] = {"driver"}
    /\ References["passengersOnRide"] = {"ride", "passenger"}
    /\ References["device"] = {"user"}
    /\ References["passengerRidePreferences"] = {"passenger"}
    /\ References["driverRidePreferences"] = {"driver"}
  <1>1. Tables = {"user", "driver", "vehicle", "passenger", "ride", "passengersOnRide",
                  "device", "passengerRidePreferences", "driverRidePreferences"}
    BY DEF Tables, References
  <1>2. QED
    BY <1>1, EntityNames DEF OnePerPerson, References

LEMMA ReferencesAreTables == \A u \in Tables: References[u] \subseteq Tables
  BY TableNames

(* What refers to a row that is removed has to be gone before.              *)
LEMMA GrowingKeeps ==
    ASSUME RowsInv, Grows
    PROVE  RowsInv'
  <1>1. RowTypes'
    BY DEF RowsInv, RowTypes, Grows
  <1>2. Unique'
    <2>1. OnePerPerson \subseteq Tables
      BY DEF OnePerPerson
    <2>2. QED
      BY <2>1 DEF RowsInv, Unique, Grows
  <1>3. Referring'
    BY ReferencesAreTables DEF RowsInv, Referring, Grows
  <1>4. OwnOnly'
    BY DEF RowsInv, OwnOnly, Grows
  <1>5. QED
    BY <1>1, <1>2, <1>3, <1>4 DEF RowsInv

LEMMA ShrinkingKeeps ==
    ASSUME RowsInv, Shrinks
    PROVE  RowsInv'
  <1>1. RowTypes'
    BY DEF RowsInv, RowTypes, Shrinks
  <1>2. Unique'
    <2>1. OnePerPerson \subseteq Tables
      BY DEF OnePerPerson
    <2>2. QED
      BY <2>1 DEF RowsInv, Unique, Shrinks
  <1>3. Referring'
    <2>1. ASSUME NEW u \in Tables, NEW t \in References[u], NEW x \in rows'[u]
          PROVE  \E y \in rows'[t]: Refers(x, t, y)
      <3>1. t \in Tables /\ x \in rows[u]
        BY ReferencesAreTables DEF Shrinks
      <3>2. PICK y \in rows[t]: Refers(x, t, y)
        BY <3>1 DEF RowsInv, Referring
      <3>3. Referred(t, y)
        BY <3>1, <3>2 DEF Referred
      <3>4. y \in rows'[t]
        BY <3>1, <3>3 DEF Shrinks
      <3>5. QED
        BY <3>2, <3>4
    <2>2. QED
      BY <2>1 DEF Referring
  <1>4. OwnOnly'
    BY DEF RowsInv, OwnOnly, Shrinks
  <1>5. QED
    BY <1>1, <1>2, <1>3, <1>4 DEF RowsInv

(* The rows a booking is about, one reference after the other.              *)
BookingKept(b) ==
    /\ b \in rows'.passengersOnRide
    /\ b.on \in rows'.ride
    /\ Of("driver", b.on.of) \subseteq rows'.driver
    /\ Of("passenger", b.of) \subseteq rows'.passenger
    /\ Of("user", b.of) \cup Of("user", b.on.of) \subseteq rows'.user

LEMMA ShrinkingSparesBookings ==
    ASSUME RowsInv, Shrinks, NEW b \in rows.passengersOnRide
    PROVE  BookingKept(b)
  <1>0. /\ {"passengersOnRide", "ride", "driver", "passenger", "user"} \subseteq Tables
        /\ References["passengersOnRide"] = {"ride", "passenger"}
        /\ References["ride"] = {"driver"} /\ References["driver"] = {"user"}
        /\ References["passenger"] = {"user"}
    BY TableNames
  <1>1. b.on \in rows.ride /\ Refers(b, "ride", b.on)
    BY <1>0 DEF RowsInv, Referring, Refers
  <1>2. PICK d \in rows.driver: d.of = b.on.of
    BY <1>0, <1>1 DEF RowsInv, Referring, Refers
  <1>3. PICK p \in rows.passenger: p.of = b.of
    BY <1>0 DEF RowsInv, Referring, Refers
  <1>4. b \in rows'.passengersOnRide
    BY <1>0 DEF Shrinks
  <1>5. b.on \in rows'.ride
    BY <1>0, <1>1 DEF Shrinks, Referred
  <1>6. ASSUME NEW x \in Of("driver", b.on.of)
        PROVE  x \in rows'.driver
    <2>1. x \in rows.driver /\ Refers(b.on, "driver", x)
      BY <1>6 DEF Of, Refers
    <2>2. QED
      BY <1>0, <1>1, <2>1 DEF Shrinks, Referred
  <1>7. ASSUME NEW x \in Of("passenger", b.of)
        PROVE  x \in rows'.passenger
    <2>1. x \in rows.passenger /\ Refers(b, "passenger", x)
      BY <1>7 DEF Of, Refers
    <2>2. QED
      BY <1>0, <2>1 DEF Shrinks, Referred
  <1>8. ASSUME NEW x \in Of("user", b.of)
        PROVE  x \in rows'.user
    <2>1. x \in rows.user /\ Refers(p, "user", x)
      BY <1>3, <1>8 DEF Of, Refers
    <2>2. QED
      BY <1>0, <1>3, <2>1 DEF Shrinks, Referred
  <1>9. ASSUME NEW x \in Of("user", b.on.of)
        PROVE  x \in rows'.user
    <2>1. x \in rows.user /\ Refers(d, "user", x)
      BY <1>2, <1>9 DEF Of, Refers
    <2>2. QED
      BY <1>0, <1>2, <2>1 DEF Shrinks, Referred
  <1>10. QED
    BY <1>4, <1>5, <1>6, <1>7, <1>8, <1>9 DEF BookingKept

LEMMA GrowingSparesBookings ==
    ASSUME RowsInv, Grows \/ UNCHANGED rows, NEW b \in rows.passengersOnRide
    PROVE  BookingKept(b)
  <1>0. /\ {"passengersOnRide", "ride", "driver", "passenger", "user"} \subseteq Tables
        /\ References["passengersOnRide"] = {"ride", "passenger"}
    BY TableNames
  <1>1. b.on \in rows.ride
    BY <1>0 DEF RowsInv, Referring, Refers
  <1>2. \A t \in Tables: rows[t] \subseteq rows'[t]
    BY DEF Grows
  <1>3. QED
    BY <1>0, <1>1, <1>2 DEF BookingKept, Of

------------------------------------------------------------------------------
(* Writes.                                                                  *)

InsertAll(t, S) == [rows EXCEPT ![t] = @ \cup S]

Insertable(t, S) ==
    \A x \in S:
        /\ Fits(t, x)
        /\ t \in OnePerPerson =>
               /\ \A y \in S: y.of = x.of => y = x
               /\ x \in rows[t] \/ Of(t, x.of) = {}
        /\ \A u \in References[t]: \E y \in rows[u]: Refers(x, u, y)
        /\ t \notin Importable /\ t # "passengersOnRide" => x = Own(x.of)

LEMMA InsertGrows ==
    ASSUME RowsInv, NEW t \in Tables, NEW S, Insertable(t, S), rows' = InsertAll(t, S)
    PROVE  Grows
  <1>0. rows' = [rows EXCEPT ![t] = @ \cup S]
    BY DEF InsertAll
  <1>1. DOMAIN rows = Tables /\ rows = [u \in Tables |-> rows[u]]
    BY DEF RowsInv, RowTypes
  <1>2. rows'[t] = rows[t] \cup S /\ \A u \in Tables: u # t => rows'[u] = rows[u]
    BY <1>0, <1>1
  <1>3. DOMAIN rows' = Tables /\ rows' = [u \in Tables |-> rows'[u]]
    BY <1>0, <1>1
  <1>4. \A u \in Tables: rows[u] \subseteq rows'[u]
    BY <1>2
  <1>5. ASSUME NEW u \in Tables, NEW x \in rows'[u], x \notin rows[u]
        PROVE  /\ Fits(u, x)
               /\ u \in OnePerPerson => \A y \in rows'[u]: y.of = x.of => y = x
               /\ \A v \in References[u]: \E y \in rows'[v]: Refers(x, v, y)
               /\ u \notin Importable /\ u # "passengersOnRide" => x = Own(x.of)
    <2>1. u = t /\ x \in S
      BY <1>2, <1>5
    <2>2. u \in OnePerPerson => \A y \in rows'[u]: y.of = x.of => y = x
      BY <1>2, <1>5, <2>1 DEF Insertable, Of
    <2>3. \A v \in References[u]: \E y \in rows'[v]: Refers(x, v, y)
      BY <1>4, <2>1, ReferencesAreTables DEF Insertable
    <2>4. QED
      BY <2>1, <2>2, <2>3 DEF Insertable
  <1>6. QED
    BY <1>3, <1>4, <1>5 DEF Grows

LEMMA InsertOneGrows ==
    ASSUME RowsInv, NEW t \in Tables, NEW x, rows' = [rows EXCEPT ![t] = @ \cup {x}],
           Fits(t, x),
           t \in OnePerPerson => x \in rows[t] \/ Of(t, x.of) = {},
           \A u \in References[t]: \E y \in rows[u]: Refers(x, u, y),
           t \notin Importable /\ t # "passengersOnRide" => x = Own(x.of)
    PROVE  Grows
  <1> DEFINE S == {x}
  <1>1. \A z \in S: z = x
    OBVIOUS
  <1>2. rows' = [rows EXCEPT ![t] = @ \cup S]
    OBVIOUS
  <1> HIDE DEF S
  <1>3. Insertable(t, S)
    BY <1>1 DEF Insertable
  <1>4. rows' = InsertAll(t, S)
    BY <1>2 DEF InsertAll
  <1>5. QED
    BY <1>3, <1>4, InsertGrows

LEMMA DeleteShrinks ==
    ASSUME RowsInv, NEW t \in Tables, t # "passengersOnRide", NEW S,
           rows' = [rows EXCEPT ![t] = @ \ S],
           \A x \in rows[t] \cap S: ~Referred(t, x)
    PROVE  Shrinks
  <1>1. DOMAIN rows = Tables /\ rows = [u \in Tables |-> rows[u]]
    BY DEF RowsInv, RowTypes
  <1>2. rows'[t] = rows[t] \ S /\ \A u \in Tables: u # t => rows'[u] = rows[u]
    BY <1>1
  <1>3. DOMAIN rows' = Tables /\ rows' = [u \in Tables |-> rows'[u]]
    BY <1>1
  <1>4. QED
    BY <1>2, <1>3 DEF Shrinks

(* One row of a person's own.                                               *)
LEMMA OwnGrows ==
    ASSUME RowsInv, NEW t \in Tables, NEW p \in People, rows' = Insert(t, Own(p)),
           t \notin {"user", "passengersOnRide"},
           t \in OnePerPerson \cap Importable => Of(t, p) = {},
           \A u \in References[t]: Of(u, p) # {} /\ u # "ride"
    PROVE  Grows
  <1> DEFINE x == Own(p)
  <1>1. x.of = p /\ x = Own(x.of) /\ x \in Row
    BY DEF Own, Row
  <1>2. t \in OnePerPerson => x \in rows[t] \/ Of(t, p) = {}
    <2>1. CASE t \in Importable
      BY <2>1
    <2>2. CASE t \notin Importable
      <3>1. \A y \in rows[t]: y = Own(y.of)
        BY <2>2 DEF RowsInv, OwnOnly
      <3>2. QED
        BY <3>1 DEF Of
    <2>3. QED
      BY <2>1, <2>2
  <1>3. \A u \in References[t]: \E y \in rows[u]: Refers(x, u, y)
    BY <1>1 DEF Of, Refers
  <1>4. rows' = [rows EXCEPT ![t] = @ \cup {x}] /\ Fits(t, x)
    BY <1>1 DEF Insert, Fits
  <1> HIDE DEF x
  <1>5. QED
    BY <1>1, <1>2, <1>3, <1>4, InsertOneGrows

LEMMA RegisterGrows ==
    ASSUME RowsInv, NEW p \in People, Register(p)
    PROVE  Grows
  <1> DEFINE x == Own(p)
  <1>1. x.of = p /\ x \in Row
    BY DEF Own, Row
  <1>2. /\ DOMAIN rows = Tables /\ rows = [u \in Tables |-> rows[u]]
        /\ "user" \in Tables /\ "passenger" \in Tables
    BY TableNames DEF RowsInv, RowTypes
  <1>3. /\ rows' = [rows EXCEPT !.user = @ \cup {x}, !.passenger = @ \cup {x}]
        /\ \A y \in rows.user: y.of # p
    BY DEF Register, Writes, Of
  <1>4. \A y \in rows.passenger: y.of # p
    <2>1. \A y \in rows.passenger: \E z \in rows.user: z.of = y.of
      BY TableNames DEF RowsInv, Referring, Refers
    <2>2. QED
      BY <1>3, <2>1
  <1> HIDE DEF x
  <1>5. /\ rows'["user"] = rows["user"] \cup {x}
        /\ rows'["passenger"] = rows["passenger"] \cup {x}
        /\ \A u \in Tables: u \notin {"user", "passenger"} => rows'[u] = rows[u]
        /\ DOMAIN rows' = Tables /\ rows' = [u \in Tables |-> rows'[u]]
    BY <1>2, <1>3
  <1>6. ASSUME NEW u \in Tables, NEW z \in rows'[u], z \notin rows[u]
        PROVE  /\ Fits(u, z)
               /\ u \in OnePerPerson => \A y \in rows'[u]: y.of = z.of => y = z
               /\ \A v \in References[u]: \E y \in rows'[v]: Refers(z, v, y)
               /\ u \notin Importable /\ u # "passengersOnRide" => z = Own(z.of)
    <2>1. u \in {"user", "passenger"} /\ z = x
      BY <1>5, <1>6
    <2>2. Fits(u, z)
      BY <1>1, <2>1 DEF Fits
    <2>3. \A y \in rows'[u]: y.of = z.of => y = z
      BY <1>1, <1>3, <1>4, <1>5, <2>1
    <2>4. \A v \in References[u]: \E y \in rows'[v]: Refers(z, v, y)
      BY <1>5, <2>1, TableNames DEF Refers
    <2>5. QED
      BY <2>1, <2>2, <2>3, <2>4, TableNames
  <1>7. QED
    BY <1>5, <1>6 DEF Grows

LEMMA CreateDriverGrows ==
    ASSUME RowsInv, NEW p \in People, CreateDriver(p)
    PROVE  Grows
  <1> DEFINE x == Own(p)
  <1>1. x.of = p /\ x \in Row
    BY DEF Own, Row
  <1>2. /\ DOMAIN rows = Tables /\ rows = [u \in Tables |-> rows[u]]
        /\ "driver" \in Tables /\ "vehicle" \in Tables /\ "user" \in Tables
    BY TableNames DEF RowsInv, RowTypes
  <1>3. /\ rows' = [rows EXCEPT !.driver = @ \cup {x}, !.vehicle = @ \cup {x}]
        /\ \A y \in rows.driver: y.of # p
        /\ \E y \in rows.user: y.of = p
    BY DEF CreateDriver, Writes, Of
  <1> HIDE DEF x
  <1>4. /\ rows'["driver"] = rows["driver"] \cup {x}
        /\ rows'["vehicle"] = rows["vehicle"] \cup {x}
        /\ \A u \in Tables: u \notin {"driver", "vehicle"} => rows'[u] = rows[u]
        /\ DOMAIN rows' = Tables /\ rows' = [u \in Tables |-> rows'[u]]
    BY <1>2, <1>3
  <1>5. ASSUME NEW u \in Tables, NEW z \in rows'[u], z \notin rows[u]
        PROVE  /\ Fits(u, z)
               /\ u \in OnePerPerson => \A y \in rows'[u]: y.of = z.of => y = z
               /\ \A v \in References[u]: \E y \in rows'[v]: Refers(z, v, y)
               /\ u \notin Importable /\ u # "passengersOnRide" => z = Own(z.of)
    <2>1. u \in {"driver", "vehicle"} /\ z = x
      BY <1>4, <1>5
    <2>2. Fits(u, z)
      BY <1>1, <2>1 DEF Fits
    <2>3. u \in OnePerPerson => \A y \in rows'[u]: y.of = z.of => y = z
      BY <1>1, <1>3, <1>4, <2>1, TableNames
    <2>4. \A v \in References[u]: \E y \in rows'[v]: Refers(z, v, y)
      BY <1>1, <1>2, <1>3, <1>4, <2>1, TableNames DEF Refers
    <2>5. QED
      BY <2>1, <2>2, <2>3, <2>4, TableNames
  <1>6. QED
    BY <1>4, <1>5 DEF Grows

LEMMA AcceptRideGrows ==
    ASSUME RowsInv, NEW ride \in Row, NEW p \in People, AcceptRide(ride, p)
    PROVE  Grows
  <1> DEFINE x == [of |-> p, on |-> ride]
             t == "passengersOnRide"
  <1>1. x.of = p /\ x.on = ride /\ x \in Booking
    BY DEF Booking
  <1>2. /\ rows' = [rows EXCEPT ![t] = @ \cup {x}]
        /\ ride \in rows.ride /\ \E y \in rows.passenger: y.of = p
    BY DEF AcceptRide, WritesOther, Writes, Insert, Of
  <1>3. t \in Tables /\ t \notin OnePerPerson /\ References[t] = {"ride", "passenger"}
    BY TableNames
  <1> HIDE DEF x
  <1>4. \A u \in References[t]: \E y \in rows[u]: Refers(x, u, y)
    BY <1>1, <1>2, <1>3 DEF Refers
  <1>5. Fits(t, x)
    BY <1>1 DEF Fits
  <1>6. QED
    BY <1>2, <1>3, <1>4, <1>5, InsertOneGrows

LEMMA ServiceSteps ==
    ASSUME RowsInv, ServiceStep
    PROVE  Grows \/ Shrinks \/ UNCHANGED rows
  <1>1. ASSUME NEW p \in People,
               Register(p) \/ CreateDriver(p) \/ CreateRide(p) \/ RegisterUserDevice(p)
                   \/ UpsertDriverRidePreferences(p) \/ UpsertPassengerRidePreferences(p)
        PROVE  Grows
    <2>1. ASSUME NEW t \in {"ride", "device", "driverRidePreferences",
                            "passengerRidePreferences"},
                 rows' = Insert(t, Own(p)), \A u \in References[t]: Of(u, p) # {}
          PROVE  Grows
      BY <2>1, OwnGrows, TableNames
    <2>2. CASE CreateRide(p)
      BY <2>1, <2>2, TableNames DEF CreateRide, Writes
    <2>3. CASE RegisterUserDevice(p)
      BY <2>1, <2>3, TableNames DEF RegisterUserDevice, WritesOther, Writes
    <2>4. CASE UpsertDriverRidePreferences(p)
      BY <2>1, <2>4, TableNames DEF UpsertDriverRidePreferences, WritesOther, Writes
    <2>5. CASE UpsertPassengerRidePreferences(p)
      BY <2>1, <2>5, TableNames DEF UpsertPassengerRidePreferences, WritesOther, Writes
    <2>6. QED
      BY <1>1, <2>2, <2>3, <2>4, <2>5, RegisterGrows, CreateDriverGrows
  <1>2. ASSUME NEW x \in Row, DeleteUser(x) \/ DeleteDriver(x) \/ DeleteRide(x)
        PROVE  Shrinks
    <2>1. PICK t \in {"user", "driver", "ride"}: rows' = Delete(t, x) /\ ~Referred(t, x)
      BY <1>2 DEF DeleteUser, DeleteDriver, DeleteRide, Writes
    <2>2. rows' = [rows EXCEPT ![t] = @ \ {x}]
      BY <2>1 DEF Delete
    <2>3. t \in Tables /\ t # "passengersOnRide"
      BY TableNames
    <2>4. \A y \in rows[t] \cap {x}: ~Referred(t, y)
      BY <2>1
    <2>5. QED
      BY <2>2, <2>3, <2>4, DeleteShrinks
  <1>3. QED
    <2>1. ASSUME NEW p \in People, UpdateUser(p) \/ UpdateDriver(p) \/ VerifyDriver(p)
          PROVE  UNCHANGED rows
      BY <2>1 DEF UpdateUser, UpdateDriver, VerifyDriver, Updates, Writes
    <2>2. CASE UserController
      BY <1>1, <1>2, <2>1, <2>2 DEF UserController
    <2>3. CASE DriverController
      BY <1>1, <1>2, <2>1, <2>3 DEF DriverController
    <2>4. CASE PassengerController
      BY <1>1, <2>4 DEF PassengerController
    <2>5. CASE RideController
      BY <1>1, <1>2, <2>5, AcceptRideGrows DEF RideController
    <2>6. QED
      BY <1>1, <2>2, <2>3, <2>4, <2>5 DEF ServiceStep

------------------------------------------------------------------------------
(* The import.  What is left to remove comes before what it depends on, and *)
(* what is left to create after it, and drivers with vehicles.              *)
RemovingOrder(s) ==
    /\ Distinct(s)
    /\ \A i \in 1..Len(s): \A e \in EntityDependencies[s[i]]: \E j \in (i + 1)..Len(s): s[j] = e

CreatingOrder(s) ==
    /\ s \in Seq(Importable)
    /\ Distinct(s)
    /\ \A i \in 1..Len(s): \A j \in i..Len(s): s[j] \notin EntityDependencies[s[i]]
    /\ "driver" \in Range(s) => "vehicle" \in Range(s)

ImportOrder ==
    /\ import.pc = "removing" => RemovingOrder(import.left) /\ CreatingOrder(import.sorted)
    /\ import.pc = "creating" => CreatingOrder(import.left)

ImportInv == ImportTypes /\ ImportOrder

LEMMA EmptyInOrder == <<>> \in Seq(Importable) /\ <<>> \in Seq(Entity) /\ CreatingOrder(<<>>)
  <1>1. Range(<<>>) = {}
    BY DEF Range
  <1>2. QED
    BY <1>1 DEF CreatingOrder, Distinct

LEMMA ReverseInOrder ==
    ASSUME NEW s, Sorted(s)
    PROVE  /\ Reverse(s) \in Seq(Entity)
           /\ RemovingOrder(Reverse(s))
           /\ Range(Reverse(s)) = Range(s)
  <1> DEFINE r == Reverse(s)
             n == Len(s)
  <1>1. s \in Seq(Entity) /\ n \in Nat /\ \A i \in 1..n: s[i] \in Entity
    BY DEF Sorted
  <1>2. r = [i \in 1..n |-> s[(n - i) + 1]]
    BY DEF Reverse
  <1>3. \A i \in 1..n: (n - i) + 1 \in 1..n /\ n - ((n - i) + 1) + 1 = i
    BY <1>1
  <1>4. r \in Seq(Entity) /\ Len(r) = n /\ \A i \in 1..n: r[i] = s[(n - i) + 1]
    BY <1>1, <1>2, <1>3
  <1>5. (\A e: e \in Range(s) <=> \E i \in 1..n: s[i] = e)
    BY <1>1, RangeOfSequence, Zenon
  <1> HIDE DEF r
  <1>6. (\A e: e \in Range(r) <=> \E i \in 1..n: r[i] = e)
    BY <1>4, RangeOfSequence, Zenon
  <1> HIDE DEF n
  <1>7. Range(r) = Range(s)
    <2>1. \A e: (\E i \in 1..n: s[i] = e) <=> \E i \in 1..n: r[i] = e
      BY <1>1, <1>3, <1>4
    <2>2. QED
      BY <1>5, <1>6, <2>1
  <1>8. Distinct(r)
    <2> SUFFICES ASSUME NEW i \in 1..n, NEW j \in 1..n, r[i] = r[j]
                 PROVE  i = j
      BY <1>4 DEF Distinct
    <2>1. (n - i) + 1 = (n - j) + 1
      BY <1>3, <1>4 DEF Sorted, Distinct, n
    <2>2. QED
      BY <1>1, <2>1
  <1>9. ASSUME NEW i \in 1..n, NEW e \in EntityDependencies[r[i]]
        PROVE  \E j \in (i + 1)..n: r[j] = e
    <2>1. (n - i) + 1 \in 1..n /\ e \in EntityDependencies[s[(n - i) + 1]]
      BY <1>3, <1>4, <1>9
    <2>2. PICK k \in 1..(((n - i) + 1) - 1): s[k] = e
      BY <2>1 DEF Sorted, Topological, n
    <2>3. (n - k) + 1 \in (i + 1)..n /\ (n - k) + 1 \in 1..n /\ (n - ((n - k) + 1)) + 1 = k
      BY <1>1
    <2>4. r[(n - k) + 1] = e
      BY <1>4, <2>2, <2>3
    <2>5. QED
      BY <2>3, <2>4
  <1>10. QED
    BY <1>4, <1>7, <1>8, <1>9 DEF RemovingOrder, r

LEMMA SortedInOrder ==
    ASSUME NEW s \in Seq(Importable), Sorted(s),
           "driver" \in Range(s) => "vehicle" \in Range(s)
    PROVE  CreatingOrder(s)
  <1>1. ASSUME NEW i \in 1..Len(s), NEW j \in i..Len(s), s[j] \in EntityDependencies[s[i]]
        PROVE  FALSE
    <2>1. PICK k \in 1..(i - 1): s[k] = s[j]
      BY <1>1 DEF Sorted, Topological
    <2>2. k \in 1..Len(s) /\ j \in 1..Len(s) /\ k # j
      OBVIOUS
    <2>3. QED
      BY <2>1, <2>2 DEF Sorted, Distinct
  <1>2. QED
    BY <1>1 DEF CreatingOrder, Sorted

LEMMA TailInOrder ==
    ASSUME NEW s \in Seq(Entity), s # <<>>
    PROVE  /\ Head(s) \in Entity /\ Tail(s) \in Seq(Entity)
           /\ Range(s) = {Head(s)} \cup Range(Tail(s))
           /\ Distinct(s) => Head(s) \notin Range(Tail(s))
           /\ RemovingOrder(s) =>
                  RemovingOrder(Tail(s)) /\ EntityDependencies[Head(s)] \subseteq Range(Tail(s))
           /\ CreatingOrder(s) =>
                  /\ CreatingOrder(Tail(s)) /\ Head(s) \in Importable
                  /\ \A e \in EntityDependencies[Head(s)]: e \notin Range(s)
  <1> DEFINE t == Tail(s)
             n == Len(s)
  <1>1. n \in Nat /\ n > 0 /\ Head(s) = s[1] /\ \A i \in 1..n: s[i] \in Entity
    OBVIOUS
  <1>2. t \in Seq(Entity) /\ Len(t) = n - 1
    OBVIOUS
  <1>3. \A i \in 1..(n - 1): t[i] = s[i + 1]
    OBVIOUS
  <1>4. (\A e: e \in Range(s) <=> \E i \in 1..n: s[i] = e)
    BY <1>1, RangeOfSequence, Zenon
  <1> HIDE DEF t
  <1>5. (\A e: e \in Range(t) <=> \E i \in 1..(n - 1): t[i] = e)
    BY <1>2, RangeOfSequence, Zenon
  <1>6. \A i \in 1..(n - 1): i + 1 \in 1..n
    BY <1>1
  <1>7. \A i \in 1..n: i = 1 \/ (i - 1 \in 1..(n - 1) /\ (i - 1) + 1 = i)
    BY <1>1
  <1>8. 1 \in 1..n /\ \A e: e \in Range(t) <=> \E i \in 2..n: s[i] = e
    <2>1. \A i: i \in 2..n <=> i - 1 \in 1..(n - 1) /\ i \in 1..n /\ (i - 1) + 1 = i
      BY <1>1
    <2>2. \A i \in 1..(n - 1): i + 1 \in 2..n
      BY <1>1
    <2>3. ASSUME NEW e
          PROVE  (\E i \in 1..(n - 1): t[i] = e) <=> \E i \in 2..n: s[i] = e
      <3>1. ASSUME NEW i \in 1..(n - 1), t[i] = e
            PROVE  \E k \in 2..n: s[k] = e
        BY <1>3, <2>2, <3>1
      <3>2. ASSUME NEW i \in 2..n, s[i] = e
            PROVE  \E k \in 1..(n - 1): t[k] = e
        <4>1. t[i - 1] = s[(i - 1) + 1]
          BY <1>3, <2>1
        <4>2. QED
          BY <2>1, <3>2, <4>1
      <3>3. QED
        BY <3>1, <3>2
    <2>4. \A e: e \in Range(t) <=> \E i \in 2..n: s[i] = e
      BY <1>5, <2>3, Zenon
    <2>5. QED
      BY <1>1, <2>4
  <1> HIDE DEF n
  <1>9. \A e: e \in Range(s) <=> e = s[1] \/ e \in Range(t)
    <2>1. \A i: i \in 1..n <=> i = 1 \/ i \in 2..n
      BY <1>1
    <2>2. QED
      BY <1>4, <1>8, <2>1
  <1>10. Range(s) = {Head(s)} \cup Range(t)
    BY <1>1, <1>9
  <1>11. ASSUME Distinct(s)
         PROVE  Distinct(t) /\ Head(s) \notin Range(t)
    <2>1. \A i, j \in 1..n: s[i] = s[j] => i = j
      BY <1>11 DEF Distinct, n
    <2>2. \A i, j \in 1..(n - 1): t[i] = t[j] => i = j
      BY <1>1, <1>3, <1>6, <2>1
    <2>3. Head(s) \notin Range(t)
      BY <1>1, <1>8, <2>1
    <2>4. QED
      BY <1>2, <2>2, <2>3 DEF Distinct
  <1>12. ASSUME RemovingOrder(s)
         PROVE  RemovingOrder(t) /\ EntityDependencies[Head(s)] \subseteq Range(t)
    <2>1. \A i \in 1..n: \A e \in EntityDependencies[s[i]]: \E j \in (i + 1)..n: s[j] = e
      BY <1>12 DEF RemovingOrder, n
    <2>2. ASSUME NEW i \in 1..(n - 1), NEW e \in EntityDependencies[t[i]]
          PROVE  \E j \in (i + 1)..(n - 1): t[j] = e
      <3>1. PICK k \in ((i + 1) + 1)..n: s[k] = e
        BY <1>3, <1>6, <2>1
      <3>2. k - 1 \in (i + 1)..(n - 1) /\ k - 1 \in 1..(n - 1) /\ (k - 1) + 1 = k
        BY <1>1
      <3>3. t[k - 1] = e
        BY <1>3, <3>1, <3>2
      <3>4. QED
        BY <3>2, <3>3
    <2>3. EntityDependencies[Head(s)] \subseteq Range(t)
      <3>1. \A e \in EntityDependencies[s[1]]: \E j \in 2..n: s[j] = e
        BY <1>8, <2>1
      <3>2. QED
        BY <1>1, <1>8, <3>1
    <2>4. QED
      BY <1>2, <1>11, <1>12, <2>2, <2>3 DEF RemovingOrder
  <1>13. ASSUME CreatingOrder(s)
         PROVE  /\ CreatingOrder(t) /\ Head(s) \in Importable
                /\ \A e \in EntityDependencies[Head(s)]: e \notin Range(s)
    <2>1. \A i \in 1..n: \A j \in i..n: s[j] \notin EntityDependencies[s[i]]
      BY <1>13 DEF CreatingOrder, n
    <2>2. \A i \in 1..(n - 1): \A j \in i..(n - 1): t[j] \notin EntityDependencies[t[i]]
      <3>1. \A i \in 1..(n - 1): \A j \in i..(n - 1):
                j \in 1..(n - 1) /\ i + 1 \in 1..n /\ j + 1 \in (i + 1)..n
        BY <1>1
      <3>2. QED
        BY <1>3, <2>1, <3>1
    <2>3. \A e \in EntityDependencies[Head(s)]: e \notin Range(s)
      BY <1>1, <1>4, <1>8, <2>1
    <2>4. Head(s) \in Importable /\ t \in Seq(Importable)
      BY <1>13 DEF CreatingOrder, t
    <2>5. "driver" \in Range(t) => "vehicle" \in Range(t)
      <3>1. "driver" \in EntityDependencies["vehicle"]
        BY EntityNames
      <3>2. QED
        BY <1>1, <1>9, <1>13, <2>3, <3>1 DEF CreatingOrder
    <2>6. QED
      BY <1>2, <1>11, <1>13, <2>2, <2>3, <2>4, <2>5 DEF CreatingOrder
  <1>14. QED
    BY <1>1, <1>2, <1>10, <1>11, <1>12, <1>13 DEF t

(* What an import sorts.                                                    *)
LEMMA SortedDirectory ==
    ASSUME NEW directory \in Directories, Range(Entities(directory)) \subseteq Entity
    PROVE  LET sorted == SortEntities(Entities(directory))
           IN  /\ Sorted(sorted) /\ CreatingOrder(sorted)
               /\ Importable \subseteq Range(Entities(directory)) => Importable \subseteq Range(sorted)
  <1> DEFINE es == Entities(directory)
             sorted == SortEntities(es)
  <1>1. es \in Seq(Tables) /\ Range(es) = Range(directory) \cap Tables
    BY DirectoriesAssumption, EntitiesAreTables
  <1>2. \A i \in 1..Len(es): es[i] \in Tables /\ es[i] \in Range(es)
    BY <1>1, RangeOfSequence
  <1>3. es \in Seq(Entity) /\ Range(es) \subseteq Importable
    BY <1>1, <1>2 DEF Importable
  <1> HIDE DEF es
  <1>4. /\ Sorted(sorted) /\ Range(sorted) \subseteq Range(es)
        /\ \A D: D \subseteq Range(es) /\ Closed(D) => D \subseteq Range(sorted)
    BY <1>3, SortIsRight
  <1> HIDE DEF sorted
  <1>5. sorted \in Seq(Importable)
    <2>1. sorted \in Seq(Entity)
      BY <1>4 DEF Sorted
    <2>2. \A i \in 1..Len(sorted): sorted[i] \in Range(sorted)
      BY <2>1, RangeOfSequence
    <2>3. QED
      BY <1>3, <1>4, <2>1, <2>2
  <1>6. ASSUME "driver" \in Range(sorted)
        PROVE  "vehicle" \in Range(sorted)
    <2> DEFINE D == {"user", "driver", "vehicle"}
    <2>1. "user" \in Range(sorted)
      <3>1. PICK i \in 1..Len(sorted): sorted[i] = "driver"
        BY <1>5, <1>6, RangeOfSequence
      <3>2. PICK j \in 1..(i - 1): sorted[j] = "user"
        BY <1>4, <3>1, EntityNames DEF Sorted, Topological
      <3>3. j \in 1..Len(sorted)
        BY <1>5
      <3>4. QED
        BY <1>5, <3>2, <3>3, RangeOfSequence
    <2>2. "vehicle" \in Range(es)
      BY <1>1, <1>4, <1>6, DirectoriesAssumption, TableNames DEF es
    <2>3. D \subseteq Range(es) /\ Closed(D)
      BY <1>4, <1>6, <2>1, <2>2, EntityNames DEF Closed
    <2>4. QED
      BY <1>4, <2>3
  <1>7. Importable \subseteq Range(es) => Importable \subseteq Range(sorted)
    <2>1. Closed(Importable)
      BY EntityNames DEF Closed
    <2>2. QED
      BY <1>4, <2>1
  <1>8. QED
    BY <1>4, <1>5, <1>6, <1>7, SortedInOrder DEF sorted, es

LEMMA RemoveEntityShrinks ==
    ASSUME RowsInv, ImportInv, RemoveEntity
    PROVE  Shrinks \/ UNCHANGED rows
  <1> DEFINE t == Head(import.left)
  <1>1. t # "passengersOnRide"
    BY TailInOrder, EntityNames DEF RemoveEntity, Running, ImportInv, ImportTypes
  <1>2. \/ UNCHANGED rows
        \/ /\ t \in Tables
           /\ ~(\E x \in rows[t]: Referred(t, x)) /\ rows' = [rows EXCEPT ![t] = {}]
    BY DEF RemoveEntity
  <1> HIDE DEF t
  <1>3. CASE /\ t \in Tables
             /\ ~(\E x \in rows[t]: Referred(t, x)) /\ rows' = [rows EXCEPT ![t] = {}]
    <2>1. rows' = [rows EXCEPT ![t] = @ \ rows[t]]
      BY <1>3
    <2>2. \A x \in rows[t] \cap rows[t]: ~Referred(t, x)
      BY <1>3
    <2>3. QED
      BY <1>1, <1>3, <2>1, <2>2, DeleteShrinks
  <1>4. QED
    BY <1>2, <1>3

LEMMA CreateEntityGrows ==
    ASSUME RowsInv, ImportInv, CreateEntity
    PROVE  Grows \/ UNCHANGED rows
  <1> DEFINE t == Head(import.left)
  <1>1. t \in Tables /\ t # "passengersOnRide" /\ t \in Importable
    <2>1. t \in Importable
      BY TailInOrder DEF CreateEntity, Running, ImportInv, ImportTypes, ImportOrder
    <2>2. QED
      BY <2>1, TableNames
  <1>2. \/ UNCHANGED rows
        \/ /\ \A x \in Missing(t), u \in References[t]: x \in rows[u]
           /\ rows' = [rows EXCEPT ![t] = @ \cup Missing(t)]
    BY DEF CreateEntity
  <1> HIDE DEF t
  <1>3. ASSUME \A x \in Missing(t), u \in References[t]: x \in rows[u],
               rows' = [rows EXCEPT ![t] = @ \cup Missing(t)]
        PROVE  Grows
    <2>1. rows' = InsertAll(t, Missing(t))
      BY <1>3 DEF InsertAll
    <2>2. "ride" \notin References[t]
      BY <1>1, TableNames
    <2>3. ASSUME NEW x \in Missing(t)
          PROVE  /\ Fits(t, x)
                 /\ t \in OnePerPerson =>
                        /\ \A y \in Missing(t): y.of = x.of => y = x
                        /\ x \in rows[t] \/ Of(t, x.of) = {}
                 /\ \A u \in References[t]: \E y \in rows[u]: Refers(x, u, y)
                 /\ t \notin Importable /\ t # "passengersOnRide" => x = Own(x.of)
      <3>0. /\ Seed[t] \subseteq People
            /\ \A y \in Missing(t): \E p \in Seed[t]: y = SeedRow(p)
        BY <1>1, SeedAssumption DEF Missing
      <3>a. \A y \in Missing(t): y.of \in Seed[t] /\ y = SeedRow(y.of)
        <4>1. \A p \in Seed[t]: SeedRow(p).of = p
          BY DEF SeedRow
        <4>2. QED
          BY <3>0, <4>1
      <3>1. x \in Row
        <4>1. \A p \in People: SeedRow(p) \in Row
          BY DEF SeedRow, Row
        <4>2. QED
          BY <3>0, <3>a, <4>1
      <3>2. \A y \in Missing(t): y.of = x.of => y = x
        BY <3>a
      <3>3. t \in OnePerPerson => Of(t, x.of) = {}
        <4>1. ~IsDuplicate(t, x)
          BY DEF Missing
        <4>2. CASE t = "user"
          BY <4>1, <4>2 DEF IsDuplicate
        <4>3. CASE t \in {"driver", "passenger"}
          <5>1. x \in rows["user"] /\ x = SeedRow(x.of)
            BY <1>3, <3>a, <4>3, TableNames
          <5>2. QED
            BY <4>1, <4>3, <5>1 DEF IsDuplicate
        <4>4. QED
          BY <1>1, <4>2, <4>3, TableNames
      <3>4. \A u \in References[t]: x \in rows[u] /\ Refers(x, u, x)
        BY <1>3, <2>2 DEF Refers
      <3>5. Fits(t, x)
        BY <1>1, <3>1 DEF Fits
      <3>6. QED
        BY <1>1, <3>2, <3>3, <3>4, <3>5
    <2>4. Insertable(t, Missing(t))
      BY <2>3 DEF Insertable
    <2>5. QED
      BY <1>1, <2>1, <2>4, InsertGrows
  <1>4. QED
    BY <1>2, <1>3

(* The rows after any step of the system.                                   *)
LEMMA RowSteps ==
    ASSUME RowsInv, ImportInv, [Next]_vars
    PROVE  Grows \/ Shrinks \/ UNCHANGED rows
  <1>1. CASE \E directory \in Directories, flush \in BOOLEAN: ImportEntities(directory, flush)
    BY <1>1 DEF ImportEntities
  <1>2. CASE ImportFails \/ FlushAllEntities
    BY <1>2 DEF ImportFails, FlushAllEntities
  <1>3. CASE UNCHANGED vars
    BY <1>3 DEF vars
  <1>4. QED
    BY <1>1, <1>2, <1>3, ServiceSteps, RemoveEntityShrinks, CreateEntityGrows
    DEF Next, ImportStep

(* What a write of the service leaves alone.                                *)
LEMMA ServiceWrites ==
    ASSUME ServiceStep
    PROVE  UNCHANGED <<import, broken>> /\ clean' = FALSE
  BY DEF ServiceStep, UserController, DriverController, PassengerController,
         RideController, Register, UpdateUser, DeleteUser, CreateDriver, UpdateDriver,
         VerifyDriver, DeleteDriver, CreateRide, DeleteRide, AcceptRide,
         RegisterUserDevice, UpsertDriverRidePreferences,
         UpsertPassengerRidePreferences, Updates, WritesOther, Writes

(* The statements an import has left.                                       *)
Imports(pc, sorted, left) == import' = [pc |-> pc, sorted |-> sorted, left |-> left]

LEMMA ImportsInOrder ==
    ASSUME NEW pc \in {"none", "removing", "creating", "done", "failed"},
           NEW sorted \in Seq(Importable), NEW left \in Seq(Entity),
           Imports(pc, sorted, left), clean' \in BOOLEAN, broken' \in BOOLEAN,
           pc = "removing" => RemovingOrder(left) /\ CreatingOrder(sorted),
           pc = "creating" => CreatingOrder(left)
    PROVE  ImportInv'
  BY DEF Imports, ImportInv, ImportTypes, ImportOrder

LEMMA IdleInOrder ==
    ASSUME NEW pc \in {"none", "done", "failed"}, import' = [Idle EXCEPT !.pc = pc],
           clean' \in BOOLEAN, broken' \in BOOLEAN
    PROVE  ImportInv'
  <1> DEFINE empty == <<>>
  <1>1. empty \in Seq(Importable) /\ empty \in Seq(Entity) /\ CreatingOrder(empty)
    BY EmptyInOrder
  <1>2. [Idle EXCEPT !.pc = pc] = [pc |-> pc, sorted |-> empty, left |-> empty]
    BY DEF Idle
  <1> HIDE DEF empty
  <1>3. QED
    BY <1>1, <1>2, ImportsInOrder DEF Imports

LEMMA RangeOfOne ==
    ASSUME NEW s \in Seq(Entity), s # <<>>, ~(Len(s) > 1)
    PROVE  Range(s) = {Head(s)}
  <1>1. Len(s) = 1
    <2>1. Len(s) \in Nat /\ Len(s) > 0
      OBVIOUS
    <2>2. \A n \in Nat: n > 0 /\ ~(n > 1) => n = 1
      OBVIOUS
    <2>3. QED
      BY <2>1, <2>2, Zenon
  <1>2. \A e: e \in Range(s) <=> \E i \in 1..Len(s): s[i] = e
    BY RangeOfSequence, Zenon
  <1>3. Head(s) = s[1]
    OBVIOUS
  <1>4. \A e: e \in Range(s) <=> e = Head(s)
    BY <1>1, <1>2, <1>3
  <1>5. QED
    BY <1>4

(* After a statement that succeeded.                                        *)
LEMMA Continuing ==
    ASSUME ImportInv, import.left # <<>>, import.pc \in {"removing", "creating"}, Continues
    PROVE  /\ broken' = broken
           /\ \/ Len(import.left) > 1 /\ Imports(import.pc, import.sorted, Tail(import.left))
              \/ /\ Range(import.left) = {Head(import.left)} /\ import.pc = "removing"
                 /\ import.sorted # <<>> /\ Imports("creating", <<>>, import.sorted)
              \/ /\ Range(import.left) = {Head(import.left)}
                 /\ import.pc = "creating" \/ import.sorted = <<>>
                 /\ Imports("done", <<>>, <<>>)
  <1> DEFINE empty == <<>>
  <1>1. import = [pc |-> import.pc, sorted |-> import.sorted, left |-> import.left]
    BY DEF ImportInv, ImportTypes
  <1>2. [Idle EXCEPT !.pc = "done"] = [pc |-> "done", sorted |-> empty, left |-> empty]
    BY DEF Idle
  <1>3. CASE Len(import.left) > 1
    <2>1. [import EXCEPT !.left = Tail(@)] =
              [pc |-> import.pc, sorted |-> import.sorted, left |-> Tail(import.left)]
      BY <1>1
    <2>2. QED
      BY <1>3, <2>1 DEF Continues, Imports
  <1>4. CASE ~(Len(import.left) > 1)
    <2>1. Range(import.left) = {Head(import.left)}
      <3>1. import.left \in Seq(Entity)
        BY DEF ImportInv, ImportTypes
      <3>2. QED
        BY <1>4, <3>1, RangeOfOne
    <2> HIDE DEF empty
    <2>2. QED
      BY <1>2, <1>4, <2>1 DEF Continues, Imports, empty
  <1>5. QED
    BY <1>3, <1>4

(* An import that starts.                                                   *)
LEMMA Starting ==
    ASSUME NEW directory \in Directories, NEW flush \in BOOLEAN,
           ImportEntities(directory, flush)
    PROVE  LET entities == Entities(directory)
               sorted == SortEntities(entities)
           IN  /\ UNCHANGED rows /\ import.pc \in {"none", "done", "failed"}
               /\ clean' \in BOOLEAN
               /\ \/ /\ import' = [Idle EXCEPT !.pc = "failed"] /\ broken' = TRUE /\ clean' = FALSE
                  \/ /\ sorted = <<>> /\ import' = [Idle EXCEPT !.pc = "done"]
                     /\ Range(entities) \subseteq Entity
                     /\ broken' = broken
                  \/ /\ sorted # <<>> /\ flush /\ Imports("removing", sorted, Reverse(sorted))
                     /\ Range(entities) \subseteq Entity /\ broken' = broken
                  \/ /\ sorted # <<>> /\ ~flush /\ Imports("creating", <<>>, sorted)
                     /\ Range(entities) \subseteq Entity /\ broken' = broken
               /\ clean' = TRUE =>
                      /\ flush = TRUE
                      /\ \A t \in Tables \ Range(entities): Seed[t] = {} /\ rows[t] = {}
  <1> DEFINE entities == Entities(directory)
             sorted == SortEntities(entities)
             first == IF sorted = <<>> THEN [Idle EXCEPT !.pc = "done"]
                      ELSE IF flush
                           THEN [pc |-> "removing", sorted |-> sorted, left |-> Reverse(sorted)]
                           ELSE [pc |-> "creating", sorted |-> <<>>, left |-> sorted]
             fresh == flush /\ \A t \in Tables \ Range(entities): Seed[t] = {} /\ rows[t] = {}
  <1>1. /\ UNCHANGED rows /\ import.pc \in {"none", "done", "failed"}
        /\ IF Range(entities) \subseteq Entity
           THEN import' = first /\ clean' = fresh /\ UNCHANGED broken
           ELSE Fails /\ clean' = FALSE
    BY DEF ImportEntities
  <1>2. \/ sorted = <<>> /\ first = [Idle EXCEPT !.pc = "done"]
        \/ /\ sorted # <<>> /\ flush
           /\ first = [pc |-> "removing", sorted |-> sorted, left |-> Reverse(sorted)]
        \/ /\ sorted # <<>> /\ ~flush
           /\ first = [pc |-> "creating", sorted |-> <<>>, left |-> sorted]
    OBVIOUS
  <1>3. fresh \in BOOLEAN /\ (fresh => flush)
        /\ (fresh => \A t \in Tables \ Range(entities): Seed[t] = {} /\ rows[t] = {})
    OBVIOUS
  <1> HIDE DEF entities, sorted, first, fresh
  <1>4. CASE Range(entities) \subseteq Entity
    BY <1>1, <1>2, <1>3, <1>4 DEF Imports, entities, sorted
  <1>5. CASE ~(Range(entities) \subseteq Entity)
    BY <1>1, <1>5 DEF Fails, entities, sorted
  <1>6. QED
    BY <1>4, <1>5

(* What flushAllEntities sorts is all it knows.                             *)
LEMMA FlushingAll ==
    ASSUME FlushAllEntities
    PROVE  \E left \in Seq(Entity):
               /\ RemovingOrder(left) /\ Entity \subseteq Range(left)
               /\ Imports("removing", <<>>, left)
  <1> DEFINE all == <<"user", "driver", "passenger", "ride", "passengerOnRide", "vehicle">>
             sorted == SortEntities(all)
  <1>1. all \in Seq(Entity)
    BY EntityNames
  <1>2. Entity \subseteq Range(all)
    <2>1. /\ Len(all) = 6 /\ all[1] = "user" /\ all[2] = "driver" /\ all[3] = "passenger"
          /\ all[4] = "ride" /\ all[5] = "passengerOnRide" /\ all[6] = "vehicle"
      OBVIOUS
    <2> HIDE DEF all
    <2>2. \A e: e \in Range(all) <=> \E i \in 1..Len(all): all[i] = e
      BY <1>1, RangeOfSequence, Zenon
    <2>3. QED
      BY <2>1, <2>2, EntityNames
  <1>3. Imports("removing", <<>>, Reverse(sorted))
    BY DEF FlushAllEntities, Imports
  <1> HIDE DEF all
  <1>4. Closed(Entity)
    BY DependenciesAreLower DEF Closed
  <1>5. Sorted(sorted) /\ Entity \subseteq Range(sorted)
    BY <1>1, <1>2, <1>4, SortIsRight
  <1> HIDE DEF sorted
  <1>6. QED
    BY <1>3, <1>5, ReverseInOrder

LEMMA ImportKept ==
    ASSUME ImportInv, [Next]_vars
    PROVE  ImportInv'
  <1>1. ASSUME Fails, clean' \in BOOLEAN
        PROVE  ImportInv'
    BY <1>1, IdleInOrder DEF Fails
  <1>2. ASSUME import.left # <<>>, import.pc \in {"removing", "creating"},
               Continues \/ Fails, UNCHANGED clean
        PROVE  ImportInv'
    <2>1. clean' \in BOOLEAN /\ broken \in BOOLEAN /\ import.sorted \in Seq(Importable)
          /\ import.left \in Seq(Entity)
      BY <1>2 DEF ImportInv, ImportTypes
    <2>2. \A s \in Seq(Importable): s \in Seq(Entity)
      BY DEF Importable
    <2>3. ASSUME Imports(import.pc, import.sorted, Tail(import.left)), UNCHANGED broken
          PROVE  ImportInv'
      <3>1. /\ import.pc = "removing" =>
                   RemovingOrder(Tail(import.left)) /\ CreatingOrder(import.sorted)
            /\ import.pc = "creating" => CreatingOrder(Tail(import.left))
            /\ Tail(import.left) \in Seq(Entity)
        BY <1>2, <2>1, TailInOrder DEF ImportInv, ImportOrder
      <3>2. QED
        BY <1>2, <2>1, <2>3, <3>1, ImportsInOrder
    <2>4. ASSUME import.pc = "removing", Imports("creating", <<>>, import.sorted),
                 UNCHANGED broken
          PROVE  ImportInv'
      BY <2>1, <2>2, <2>4, ImportsInOrder, EmptyInOrder DEF ImportInv, ImportOrder
    <2>5. ASSUME Imports("done", <<>>, <<>>), UNCHANGED broken
          PROVE  ImportInv'
      BY <2>1, <2>5, ImportsInOrder, EmptyInOrder
    <2>6. QED
      BY <1>1, <1>2, <2>1, <2>3, <2>4, <2>5, Continuing
  <1>3. CASE ServiceStep
    BY <1>3, ServiceWrites DEF ImportInv, ImportTypes, ImportOrder
  <1>4. ASSUME NEW directory \in Directories, NEW flush \in BOOLEAN,
               ImportEntities(directory, flush)
        PROVE  ImportInv'
    <2> DEFINE entities == Entities(directory)
               sorted == SortEntities(entities)
    <2>1. /\ clean' \in BOOLEAN
          /\ \/ import' = [Idle EXCEPT !.pc = "failed"] /\ broken' = TRUE
             \/ import' = [Idle EXCEPT !.pc = "done"] /\ broken' = broken
             \/ /\ Imports("removing", sorted, Reverse(sorted)) /\ broken' = broken
                /\ Range(entities) \subseteq Entity
             \/ /\ Imports("creating", <<>>, sorted) /\ broken' = broken
                /\ Range(entities) \subseteq Entity
      BY <1>4, Starting
    <2>2. ASSUME Range(entities) \subseteq Entity
          PROVE  /\ Sorted(sorted) /\ CreatingOrder(sorted)
                 /\ Reverse(sorted) \in Seq(Entity) /\ RemovingOrder(Reverse(sorted))
      BY <2>2, SortedDirectory, ReverseInOrder
    <2> HIDE DEF sorted, entities
    <2>3. broken \in BOOLEAN
      BY DEF ImportInv, ImportTypes
    <2>4. \A s: CreatingOrder(s) => s \in Seq(Importable) /\ s \in Seq(Entity)
      BY DEF CreatingOrder, Importable
    <2>5. CASE import' = [Idle EXCEPT !.pc = "failed"] /\ broken' = TRUE
      BY <2>1, <2>5, IdleInOrder
    <2>6. CASE import' = [Idle EXCEPT !.pc = "done"] /\ broken' = broken
      BY <2>1, <2>3, <2>6, IdleInOrder
    <2>7. CASE /\ Imports("removing", sorted, Reverse(sorted)) /\ broken' = broken
               /\ Range(entities) \subseteq Entity
      BY <2>1, <2>2, <2>3, <2>4, <2>7, ImportsInOrder
    <2>8. CASE /\ Imports("creating", <<>>, sorted) /\ broken' = broken
               /\ Range(entities) \subseteq Entity
      BY <2>1, <2>2, <2>3, <2>4, <2>8, ImportsInOrder, EmptyInOrder
    <2>9. QED
      BY <2>1, <2>5, <2>6, <2>7, <2>8
  <1>5. CASE FlushAllEntities
    <2>1. clean' = FALSE /\ UNCHANGED broken
      BY <1>5 DEF FlushAllEntities
    <2>2. QED
      BY <1>5, <2>1, FlushingAll, ImportsInOrder, EmptyInOrder DEF ImportInv, ImportTypes
  <1>6. CASE RemoveEntity
    <2>1. /\ import.left # <<>> /\ import.pc = "removing"
          /\ Continues \/ Fails
          /\ UNCHANGED clean
      BY <1>6 DEF RemoveEntity, Running
    <2>2. QED
      BY <1>2, <2>1
  <1>7. CASE CreateEntity
    <2>1. /\ import.left # <<>> /\ import.pc = "creating"
          /\ Continues \/ Fails
          /\ UNCHANGED clean
      BY <1>7 DEF CreateEntity, Running
    <2>2. QED
      BY <1>2, <2>1
  <1>8. CASE ImportFails
    BY <1>1, <1>8 DEF ImportFails
  <1>9. CASE UNCHANGED vars
    BY <1>9 DEF vars, ImportInv, ImportTypes, ImportOrder
  <1>10. QED
    BY <1>3, <1>4, <1>5, <1>6, <1>7, <1>8, <1>9 DEF Next, ImportStep

------------------------------------------------------------------------------
(* Who registered has a passenger, and a driver a vehicle, unless an import *)
(* failed, is about to remove them too, or is about to create the vehicle.  *)
Removes(t) == import.pc = "removing" /\ t \in Range(import.left)
Creates(t) == import.pc = "creating" /\ t \in Range(import.left)

UserHasPassenger(x) == x.seed \/ Of("passenger", x.of) # {} \/ Removes("user")
DriverHasVehicle(x) ==
    \/ x.seed /\ x.of \notin Seed["vehicle"]
    \/ Of("vehicle", x.of) # {}
    \/ Removes("driver")
    \/ Creates("vehicle") /\ x = SeedRow(x.of)

Accompanied ==
    broken = FALSE =>
        /\ \A x \in rows["user"]: UserHasPassenger(x)
        /\ \A x \in rows["driver"]: DriverHasVehicle(x)

(* What the service does to the rows of users and drivers.                  *)
Accompanies ==
    /\ rows["passenger"] \subseteq rows'["passenger"] /\ rows["vehicle"] \subseteq rows'["vehicle"]
    /\ \A x \in rows'["user"]: x \in rows["user"] \/ \E y \in rows'["passenger"]: y.of = x.of
    /\ \A x \in rows'["driver"]: x \in rows["driver"] \/ \E y \in rows'["vehicle"]: y.of = x.of

LEMMA ServiceAccompanies ==
    ASSUME RowsInv, ServiceStep
    PROVE  Accompanies
  <1>0. /\ DOMAIN rows = Tables
        /\ {"user", "driver", "passenger", "vehicle"} \subseteq Tables
    BY TableNames DEF RowsInv, RowTypes
  <1>1. CASE UNCHANGED rows
    BY <1>1 DEF Accompanies
  <1>2. ASSUME NEW t \in {"ride", "device", "driverRidePreferences", "passengersOnRide",
                          "passengerRidePreferences"},
               NEW x, rows' = Insert(t, x) \/ rows' = Delete(t, x)
        PROVE  Accompanies
    <2>1. \A u \in {"user", "driver", "passenger", "vehicle"}: rows'[u] = rows[u]
      BY <1>0, <1>2 DEF Insert, Delete
    <2>2. QED
      BY <2>1 DEF Accompanies
  <1>3. ASSUME NEW t \in {"user", "driver"}, NEW x, rows' = Delete(t, x)
        PROVE  Accompanies
    <2>1. /\ rows'["passenger"] = rows["passenger"] /\ rows'["vehicle"] = rows["vehicle"]
          /\ rows'["user"] \subseteq rows["user"] /\ rows'["driver"] \subseteq rows["driver"]
      BY <1>0, <1>3 DEF Delete
    <2>2. QED
      BY <2>1 DEF Accompanies
  <1>4. ASSUME NEW p \in People, Register(p)
        PROVE  Accompanies
    <2> DEFINE x == Own(p)
    <2>1. x.of = p
      BY DEF Own
    <2>2. rows' = [rows EXCEPT !.user = @ \cup {x}, !.passenger = @ \cup {x}]
      BY <1>4 DEF Register, Writes
    <2> HIDE DEF x
    <2>3. /\ rows'["user"] = rows["user"] \cup {x} /\ rows'["driver"] = rows["driver"]
          /\ rows'["passenger"] = rows["passenger"] \cup {x} /\ rows'["vehicle"] = rows["vehicle"]
      BY <1>0, <2>2
    <2>4. QED
      BY <2>1, <2>3 DEF Accompanies
  <1>5. ASSUME NEW p \in People, CreateDriver(p)
        PROVE  Accompanies
    <2> DEFINE x == Own(p)
    <2>1. x.of = p
      BY DEF Own
    <2>2. rows' = [rows EXCEPT !.driver = @ \cup {x}, !.vehicle = @ \cup {x}]
      BY <1>5 DEF CreateDriver, Writes
    <2> HIDE DEF x
    <2>3. /\ rows'["driver"] = rows["driver"] \cup {x} /\ rows'["user"] = rows["user"]
          /\ rows'["vehicle"] = rows["vehicle"] \cup {x} /\ rows'["passenger"] = rows["passenger"]
      BY <1>0, <2>2
    <2>4. QED
      BY <2>1, <2>3 DEF Accompanies
  <1>6. CASE UserController
    <2>1. ASSUME NEW p \in People, UpdateUser(p) \/ RegisterUserDevice(p)
          PROVE  Accompanies
      BY <1>1, <1>2, <2>1 DEF UpdateUser, Updates, RegisterUserDevice, WritesOther, Writes
    <2>2. ASSUME NEW x \in Row, DeleteUser(x)
          PROVE  Accompanies
      BY <1>3, <2>2 DEF DeleteUser, Writes
    <2>3. QED
      BY <1>6, <2>1, <2>2 DEF UserController
  <1>7. CASE DriverController
    <2>1. ASSUME NEW p \in People,
                 UpdateDriver(p) \/ VerifyDriver(p) \/ UpsertDriverRidePreferences(p)
          PROVE  Accompanies
      BY <1>1, <1>2, <2>1
      DEF UpdateDriver, VerifyDriver, Updates, UpsertDriverRidePreferences, WritesOther, Writes
    <2>2. ASSUME NEW x \in Row, DeleteDriver(x)
          PROVE  Accompanies
      BY <1>3, <2>2 DEF DeleteDriver, Writes
    <2>3. QED
      BY <1>5, <1>7, <2>1, <2>2 DEF DriverController
  <1>8. CASE PassengerController
    BY <1>2, <1>8 DEF PassengerController, UpsertPassengerRidePreferences, WritesOther, Writes
  <1>9. CASE RideController
    <2>1. ASSUME NEW p \in People, CreateRide(p)
          PROVE  Accompanies
      BY <1>2, <2>1 DEF CreateRide, Writes
    <2>2. ASSUME NEW x \in Row, DeleteRide(x)
          PROVE  Accompanies
      BY <1>2, <2>2 DEF DeleteRide, Writes
    <2>3. ASSUME NEW ride \in Row, NEW p \in People, AcceptRide(ride, p)
          PROVE  Accompanies
      BY <1>2, <2>3 DEF AcceptRide, WritesOther, Writes
    <2>4. QED
      BY <1>9, <2>1, <2>2, <2>3 DEF RideController
  <1>10. QED
    BY <1>4, <1>6, <1>7, <1>8, <1>9 DEF ServiceStep

(* What is left after a statement that succeeded, and what was.             *)
LEMMA ContinuesWithTail ==
    ASSUME ImportInv, import.left # <<>>, import.pc \in {"removing", "creating"}, Continues,
           NEW u \in Range(import.left), u # Head(import.left)
    PROVE  import'.pc = import.pc /\ u \in Range(import'.left)
  <1>1. Range(import.left) # {Head(import.left)}
    OBVIOUS
  <1>2. Imports(import.pc, import.sorted, Tail(import.left))
    BY <1>1, Continuing
  <1>3. Range(import.left) = {Head(import.left)} \cup Range(Tail(import.left))
    BY TailInOrder DEF ImportInv, ImportTypes
  <1>4. import'.pc = import.pc /\ import'.left = Tail(import.left)
    BY <1>2 DEF Imports
  <1>5. QED
    BY <1>3, <1>4

LEMMA RemovingAccompanies ==
    ASSUME RowsInv, ImportInv, Accompanied, RemoveEntity
    PROVE  Accompanied'
  <1> DEFINE t == Head(import.left)
             left == import.left
  <1>1. import.pc = "removing" /\ left # <<>>
    BY DEF RemoveEntity, Running
  <1>2. \/ Continues /\ t \in Tables /\ rows' = [rows EXCEPT ![t] = {}]
        \/ broken' = TRUE
    BY DEF RemoveEntity, Fails
  <1> SUFFICES ASSUME Continues, t \in Tables, rows' = [rows EXCEPT ![t] = {}]
               PROVE  Accompanied'
    BY <1>2 DEF Accompanied
  <1>3. ASSUME NEW u, u \in Range(left), u # t
        PROVE  Removes(u)'
    BY <1>1, <1>3, ContinuesWithTail DEF Removes
  <1>4. EntityDependencies[t] \subseteq Range(Tail(left)) /\ t \notin Range(Tail(left))
        /\ Range(left) = {t} \cup Range(Tail(left))
    BY <1>1, TailInOrder DEF ImportInv, ImportTypes, ImportOrder, RemovingOrder
  <1>5. (t = "passenger" => Removes("user")') /\ (t = "vehicle" => Removes("driver")')
    BY <1>3, <1>4, EntityNames
  <1>6. /\ rows'[t] = {} /\ \A u \in Tables: u # t => rows'[u] = rows[u]
        /\ {"user", "driver", "passenger", "vehicle"} \subseteq Tables
    BY TableNames DEF RowsInv, RowTypes
  <1>7. broken' = broken
    BY DEF Continues
  <1> HIDE DEF t, left
  <1>8. ASSUME broken = FALSE, NEW x \in rows'["user"]
        PROVE  UserHasPassenger(x)'
    <2>1. x \in rows["user"] /\ t # "user"
      BY <1>6, <1>8
    <2>2. CASE Removes("user")
      BY <1>3, <2>1, <2>2 DEF Removes, UserHasPassenger, left
    <2>3. CASE t = "passenger"
      BY <1>5, <2>3 DEF UserHasPassenger
    <2>4. CASE ~Removes("user") /\ t # "passenger"
      <3>1. x.seed \/ Of("passenger", x.of) # {}
        BY <1>8, <2>1, <2>4 DEF Accompanied, UserHasPassenger
      <3>2. rows'["passenger"] = rows["passenger"]
        BY <1>6, <2>4
      <3>3. QED
        BY <3>1, <3>2 DEF UserHasPassenger, Of
    <2>5. QED
      BY <2>2, <2>3, <2>4
  <1>9. ASSUME broken = FALSE, NEW x \in rows'["driver"]
        PROVE  DriverHasVehicle(x)'
    <2>1. x \in rows["driver"] /\ t # "driver"
      BY <1>6, <1>9
    <2>2. CASE Removes("driver")
      BY <1>3, <2>1, <2>2 DEF Removes, DriverHasVehicle, left
    <2>3. CASE t = "vehicle"
      BY <1>5, <2>3 DEF DriverHasVehicle
    <2>4. CASE ~Removes("driver") /\ t # "vehicle"
      <3>1. (x.seed /\ x.of \notin Seed["vehicle"]) \/ Of("vehicle", x.of) # {}
        BY <1>1, <1>9, <2>1, <2>4 DEF Accompanied, DriverHasVehicle, Creates
      <3>2. rows'["vehicle"] = rows["vehicle"]
        BY <1>6, <2>4
      <3>3. QED
        BY <3>1, <3>2 DEF DriverHasVehicle, Of
    <2>5. QED
      BY <2>2, <2>3, <2>4
  <1>10. QED
    BY <1>7, <1>8, <1>9 DEF Accompanied

LEMMA CreatingAccompanies ==
    ASSUME RowsInv, ImportInv, Accompanied, CreateEntity
    PROVE  Accompanied'
  <1> DEFINE t == Head(import.left)
             left == import.left
  <1>1. import.pc = "creating" /\ left # <<>>
    BY DEF CreateEntity, Running
  <1>2. \/ Continues /\ rows' = [rows EXCEPT ![t] = @ \cup Missing(t)]
        \/ broken' = TRUE
    BY DEF CreateEntity, Fails
  <1> SUFFICES ASSUME Continues, rows' = [rows EXCEPT ![t] = @ \cup Missing(t)]
               PROVE  Accompanied'
    BY <1>2 DEF Accompanied
  <1>3. ASSUME NEW u, u \in Range(left), u # t
        PROVE  Creates(u)'
    BY <1>1, <1>3, ContinuesWithTail DEF Creates
  <1>4. t \in Importable /\ t \in Range(left)
        /\ ("driver" \in Range(left) => "vehicle" \in Range(left))
    BY <1>1, TailInOrder DEF ImportInv, ImportTypes, ImportOrder, CreatingOrder
  <1>5. t = "driver" => Creates("vehicle")'
    BY <1>3, <1>4
  <1>6. /\ rows'[t] = rows[t] \cup Missing(t) /\ \A u \in Tables: u # t => rows'[u] = rows[u]
        /\ {"user", "driver", "passenger", "vehicle"} \subseteq Tables
    BY <1>4, TableNames DEF RowsInv, RowTypes
  <1>7. broken' = broken
    BY DEF Continues
  <1>8. \A x \in Missing(t): x.seed = TRUE /\ x = SeedRow(x.of)
    BY DEF Missing, SeedRow
  <1> HIDE DEF t, left
  <1>9. ASSUME broken = FALSE, NEW x \in rows'["user"]
        PROVE  UserHasPassenger(x)'
    <2>1. CASE x \in rows["user"]
      <3>1. x.seed \/ Of("passenger", x.of) # {}
        BY <1>1, <1>9, <2>1 DEF Accompanied, UserHasPassenger, Removes
      <3>2. rows["passenger"] \subseteq rows'["passenger"]
        BY <1>6
      <3>3. QED
        BY <3>1, <3>2 DEF UserHasPassenger, Of
    <2>2. CASE x \notin rows["user"]
      BY <1>6, <1>8, <2>2 DEF UserHasPassenger
    <2>3. QED
      BY <2>1, <2>2
  <1>10. ASSUME broken = FALSE, NEW x \in rows'["driver"]
         PROVE  DriverHasVehicle(x)'
    <2>1. CASE x \in rows["driver"]
      <3>1. \/ x.seed /\ x.of \notin Seed["vehicle"]
            \/ Of("vehicle", x.of) # {}
            \/ Creates("vehicle") /\ x = SeedRow(x.of)
        BY <1>1, <1>10, <2>1 DEF Accompanied, DriverHasVehicle, Removes
      <3>2. rows["vehicle"] \subseteq rows'["vehicle"]
        BY <1>6
      <3>3. CASE Creates("vehicle") /\ x = SeedRow(x.of) /\ t # "vehicle"
        BY <1>3, <3>3 DEF DriverHasVehicle, Creates, left
      <3>4. CASE x = SeedRow(x.of) /\ t = "vehicle" /\ x.of \in Seed["vehicle"]
        <4>1. x \in {SeedRow(p): p \in Seed["vehicle"]}
          BY <3>4
        <4>2. x \in rows["vehicle"] \/ x \in Missing("vehicle")
          BY <4>1, TableNames DEF Missing, IsDuplicate
        <4>3. x \in rows'["vehicle"]
          BY <1>6, <3>4, <4>2
        <4>4. QED
          BY <4>3 DEF DriverHasVehicle, Of
      <3>5. QED
        <4>1. x = SeedRow(x.of) => x.seed = TRUE
          BY DEF SeedRow
        <4>2. CASE x.seed /\ x.of \notin Seed["vehicle"]
          BY <4>2 DEF DriverHasVehicle
        <4>3. CASE Of("vehicle", x.of) # {}
          BY <3>2, <4>3 DEF DriverHasVehicle, Of
        <4>4. CASE Creates("vehicle") /\ x = SeedRow(x.of) /\ x.of \in Seed["vehicle"]
          BY <3>3, <3>4, <4>4
        <4>5. QED
          BY <3>1, <4>1, <4>2, <4>3, <4>4
    <2>2. CASE x \notin rows["driver"]
      BY <1>5, <1>6, <1>8, <2>2 DEF DriverHasVehicle
    <2>3. QED
      BY <2>1, <2>2
  <1>11. QED
    BY <1>7, <1>9, <1>10 DEF Accompanied

LEMMA AccompaniedKept ==
    ASSUME RowsInv, ImportInv, Accompanied, [Next]_vars
    PROVE  Accompanied'
  <1>1. CASE ServiceStep
    <2>1. import' = import /\ broken' = broken
      BY <1>1, ServiceWrites
    <2>2. Accompanies
      BY <1>1, ServiceAccompanies
    <2>3. QED
      BY <2>1, <2>2 DEF Accompanied, Accompanies, UserHasPassenger, DriverHasVehicle, Of,
                        Removes, Creates
  <1>2. ASSUME UNCHANGED rows, import.pc \in {"none", "done", "failed"},
               broken' = broken \/ broken' = TRUE
        PROVE  Accompanied'
    BY <1>2 DEF Accompanied, UserHasPassenger, DriverHasVehicle, Of, Removes, Creates
  <1>3. CASE \E directory \in Directories, flush \in BOOLEAN: ImportEntities(directory, flush)
    BY <1>2, <1>3, Starting
  <1>4. CASE FlushAllEntities
    BY <1>2, <1>4 DEF FlushAllEntities
  <1>5. CASE ImportFails
    BY <1>5 DEF ImportFails, Fails, Accompanied
  <1>6. CASE UNCHANGED vars
    BY <1>6 DEF vars, Accompanied, UserHasPassenger, DriverHasVehicle, Of, Removes, Creates
  <1>7. QED
    BY <1>1, <1>3, <1>4, <1>5, <1>6, RemovingAccompanies, CreatingAccompanies
    DEF Next, ImportStep

------------------------------------------------------------------------------
(* A flush that is alone with the database, and began with no rows but of   *)
(* the files: what it has removed is gone, what it has created is what the  *)
(* file holds, and nothing else is there.                                   *)
SeedRows(t) == {SeedRow(p): p \in Seed[t]}

CleanRemoving ==
    /\ import.pc = "removing"
    /\ Range(import.left) \subseteq Importable /\ Importable \subseteq Range(import.sorted)
    /\ \A t \in Importable: t \notin Range(import.left) => rows[t] = {}

CleanCreating ==
    /\ import.pc = "creating"
    /\ \A t \in Importable: rows[t] = IF t \in Range(import.left) THEN {} ELSE SeedRows(t)

CleanDone ==
    /\ import.pc = "done"
    /\ \A t \in Importable: rows[t] = SeedRows(t)

CleanInv ==
    clean = TRUE =>
        /\ \A t \in Tables \ Importable: Seed[t] = {} /\ rows[t] = {}
        /\ CleanRemoving \/ CleanCreating \/ CleanDone

LEMMA ReferencesOfImportable == \A t \in Importable: References[t] = EntityDependencies[t]
  BY TableNames, EntityNames

LEMMA RemovingIsClosed ==
    ASSUME NEW s \in Seq(Entity), RemovingOrder(s), NEW u \in Range(s)
    PROVE  EntityDependencies[u] \subseteq Range(s)
  <1>1. \A e: e \in Range(s) <=> \E i \in 1..Len(s): s[i] = e
    BY RangeOfSequence, Zenon
  <1>2. PICK i \in 1..Len(s): s[i] = u
    BY <1>1
  <1>3. \A e \in EntityDependencies[u]: \E j \in (i + 1)..Len(s): s[j] = e
    BY <1>2 DEF RemovingOrder
  <1>4. \A j \in (i + 1)..Len(s): j \in 1..Len(s)
    BY <1>2
  <1>5. QED
    BY <1>1, <1>3, <1>4

LEMMA CleanStart ==
    ASSUME NEW directory \in Directories, NEW flush \in BOOLEAN,
           ImportEntities(directory, flush)
    PROVE  CleanInv'
  <1> DEFINE entities == Entities(directory)
             sorted == SortEntities(entities)
  <1> SUFFICES ASSUME clean' = TRUE PROVE CleanInv'
    BY DEF CleanInv
  <1>1. /\ UNCHANGED rows
        /\ flush = TRUE /\ \A t \in Tables \ Range(entities): Seed[t] = {} /\ rows[t] = {}
        /\ Range(entities) \subseteq Entity
        /\ sorted = <<>> \/ Imports("removing", sorted, Reverse(sorted))
    BY Starting
  <1>2. Entities(directory) \in Seq(Tables)
    BY DirectoriesAssumption, EntitiesAreTables
  <1>3. Range(entities) \subseteq Importable
    BY <1>1, <1>2, RangeOfSequence DEF Importable
  <1>4. Importable \subseteq Range(entities)
    BY <1>1, FilesAssumption, TableNames
  <1>5. Sorted(sorted) /\ CreatingOrder(sorted) /\ Importable \subseteq Range(sorted)
    BY <1>1, <1>4, SortedDirectory
  <1>6. Range(sorted) \subseteq Importable /\ Range(Reverse(sorted)) = Range(sorted)
    BY <1>5, RangeOfSequence, ReverseInOrder DEF CreatingOrder
  <1>7. sorted # <<>>
    <2>1. Range(<<>>) = {}
      BY DEF Range
    <2>2. QED
      BY <1>5, <2>1, TableNames
  <1>8. Imports("removing", sorted, Reverse(sorted))
    BY <1>1, <1>7
  <1> HIDE DEF sorted, entities
  <1>9. import'.pc = "removing" /\ import'.left = Reverse(sorted) /\ import'.sorted = sorted
    BY <1>8 DEF Imports
  <1>10. CleanRemoving'
    BY <1>5, <1>6, <1>9 DEF CleanRemoving
  <1>11. \A t \in Tables \ Importable: Seed[t] = {} /\ rows'[t] = {}
    BY <1>1, <1>3
  <1>12. QED
    BY <1>10, <1>11 DEF CleanInv

LEMMA CleanRemovingStep ==
    ASSUME RowsInv, ImportInv, CleanInv, RemoveEntity
    PROVE  CleanInv'
  <1> DEFINE t == Head(import.left)
             left == import.left
  <1>1. import.pc = "removing" /\ left # <<>> /\ clean' = clean
    BY DEF RemoveEntity, Running
  <1> SUFFICES ASSUME clean = TRUE PROVE CleanInv'
    BY <1>1 DEF CleanInv
  <1>2. /\ \A u \in Tables \ Importable: Seed[u] = {} /\ rows[u] = {}
        /\ Range(left) \subseteq Importable /\ Importable \subseteq Range(import.sorted)
        /\ \A u \in Importable: u \notin Range(left) => rows[u] = {}
    BY <1>1 DEF CleanInv, CleanRemoving, CleanCreating, CleanDone
  <1>3. /\ Range(left) = {t} \cup Range(Tail(left)) /\ t \notin Range(Tail(left))
        /\ Tail(left) \in Seq(Entity) /\ RemovingOrder(Tail(left))
    BY <1>1, TailInOrder DEF ImportInv, ImportTypes, ImportOrder, RemovingOrder
  <1>4. t \in Importable /\ t \in Tables
    BY <1>2, <1>3 DEF Importable
  <1>5. ASSUME NEW x \in rows[t], Referred(t, x)
        PROVE  FALSE
    <2>1. PICK u \in Tables: t \in References[u] /\ rows[u] # {}
      BY <1>5 DEF Referred
    <2>2. u \in Importable /\ u \in Range(left)
      BY <1>2, <2>1
    <2>3. t \in EntityDependencies[u]
      BY <2>1, <2>2, ReferencesOfImportable
    <2>4. CASE u = t
      BY <2>3, <2>4, EntityNames, <1>4
    <2>5. CASE u # t
      BY <1>3, <2>2, <2>3, <2>5, RemovingIsClosed
    <2>6. QED
      BY <2>4, <2>5
  <1>6. Continues /\ rows' = [rows EXCEPT ![t] = {}]
    BY <1>4, <1>5 DEF RemoveEntity
  <1>7. rows'[t] = {} /\ \A u \in Tables: u # t => rows'[u] = rows[u]
    BY <1>4, <1>6 DEF RowsInv, RowTypes
  <1>8. \A u \in Tables \ Importable: Seed[u] = {} /\ rows'[u] = {}
    BY <1>2, <1>4, <1>7
  <1>9. \A u \in Importable: u \notin Range(Tail(left)) => rows'[u] = {}
    BY <1>2, <1>3, <1>7 DEF Importable
  <1>10. CleanRemoving' \/ CleanCreating'
    <2>1. CASE Imports(import.pc, import.sorted, Tail(left))
      <3>1. /\ import'.pc = "removing" /\ import'.left = Tail(left)
            /\ import'.sorted = import.sorted
        BY <1>1, <2>1 DEF Imports
      <3>2. QED
        BY <1>2, <1>3, <1>9, <3>1 DEF CleanRemoving
    <2>2. CASE Range(left) = {t} /\ Imports("creating", <<>>, import.sorted)
      <3>1. import'.pc = "creating" /\ import'.left = import.sorted
        BY <2>2 DEF Imports
      <3>2. \A u \in Importable: rows'[u] = {}
        BY <1>3, <1>9, <2>2
      <3>3. QED
        BY <1>2, <3>1, <3>2 DEF CleanCreating
    <2>3. import.sorted # <<>>
      <3>1. Range(<<>>) = {}
        BY DEF Range
      <3>2. QED
        BY <1>2, <3>1, TableNames
    <2>4. QED
      BY <1>1, <1>6, <2>1, <2>2, <2>3, Continuing
  <1>11. QED
    BY <1>8, <1>10 DEF CleanInv

LEMMA CleanCreatingStep ==
    ASSUME RowsInv, ImportInv, CleanInv, CreateEntity
    PROVE  CleanInv'
  <1> DEFINE t == Head(import.left)
             left == import.left
  <1>1. import.pc = "creating" /\ left # <<>> /\ clean' = clean
    BY DEF CreateEntity, Running
  <1> SUFFICES ASSUME clean = TRUE PROVE CleanInv'
    BY <1>1 DEF CleanInv
  <1>2. /\ \A u \in Tables \ Importable: Seed[u] = {} /\ rows[u] = {}
        /\ \A u \in Importable: rows[u] = IF u \in Range(left) THEN {} ELSE SeedRows(u)
    BY <1>1 DEF CleanInv, CleanRemoving, CleanCreating, CleanDone
  <1>3. /\ t \in Importable /\ t \in Tables
        /\ Range(left) = {t} \cup Range(Tail(left)) /\ t \notin Range(Tail(left))
        /\ \A e \in EntityDependencies[t]: e \notin Range(left)
    BY <1>1, TailInOrder DEF ImportInv, ImportTypes, ImportOrder, CreatingOrder, Importable
  <1>4. Missing(t) = SeedRows(t) /\ rows[t] = {}
    <2>1. rows[t] = {}
      BY <1>2, <1>3
    <2>2. QED
      BY <2>1 DEF Missing, IsDuplicate, SeedRows, Of
  <1>5. ASSUME NEW x \in Missing(t), NEW u \in References[t]
        PROVE  x \in rows[u]
    <2>1. u \in EntityDependencies[t] /\ u \in Importable /\ Seed[t] \subseteq Seed[u]
      BY <1>3, <1>5, ReferencesOfImportable, EntityNames, TableNames, FilesAssumption
    <2>2. rows[u] = SeedRows(u)
      BY <1>2, <1>3, <2>1
    <2>3. QED
      BY <1>4, <1>5, <2>1, <2>2 DEF SeedRows
  <1>6. Continues /\ rows' = [rows EXCEPT ![t] = @ \cup Missing(t)]
    <2>1. Seed[t] # {}
      BY <1>3, FilesAssumption, TableNames
    <2>2. \A x \in Missing(t), u \in References[t]: x \in rows[u]
      BY <1>5
    <2>3. QED
      BY <2>1, <2>2 DEF CreateEntity
  <1>7. rows'[t] = SeedRows(t) /\ \A u \in Tables: u # t => rows'[u] = rows[u]
    BY <1>3, <1>4, <1>6 DEF RowsInv, RowTypes
  <1>8. \A u \in Tables \ Importable: Seed[u] = {} /\ rows'[u] = {}
    BY <1>2, <1>3, <1>7
  <1>9. \A u \in Importable: rows'[u] = IF u \in Range(Tail(left)) THEN {} ELSE SeedRows(u)
    BY <1>2, <1>3, <1>7 DEF Importable
  <1>10. CleanCreating' \/ CleanDone'
    <2>1. CASE Imports(import.pc, import.sorted, Tail(left))
      <3>1. import'.pc = "creating" /\ import'.left = Tail(left)
        BY <1>1, <2>1 DEF Imports
      <3>2. QED
        BY <1>9, <3>1 DEF CleanCreating
    <2>2. CASE Range(left) = {t} /\ Imports("done", <<>>, <<>>)
      <3>1. import'.pc = "done"
        BY <2>2 DEF Imports
      <3>2. \A u \in Importable: rows'[u] = SeedRows(u)
        BY <1>3, <1>9, <2>2
      <3>3. QED
        BY <3>1, <3>2 DEF CleanDone
    <2>3. QED
      BY <1>1, <1>6, <2>1, <2>2, Continuing
  <1>11. QED
    BY <1>8, <1>10 DEF CleanInv

LEMMA CleanKept ==
    ASSUME RowsInv, ImportInv, CleanInv, [Next]_vars
    PROVE  CleanInv'
  <1>1. CASE ServiceStep
    BY <1>1, ServiceWrites DEF CleanInv
  <1>2. CASE \E directory \in Directories, flush \in BOOLEAN: ImportEntities(directory, flush)
    BY <1>2, CleanStart
  <1>3. CASE FlushAllEntities \/ ImportFails
    BY <1>3 DEF FlushAllEntities, ImportFails, CleanInv
  <1>4. CASE UNCHANGED vars
    BY <1>4 DEF vars, CleanInv, CleanRemoving, CleanCreating, CleanDone
  <1>5. QED
    BY <1>1, <1>2, <1>3, <1>4, CleanRemovingStep, CleanCreatingStep DEF Next, ImportStep

------------------------------------------------------------------------------
RecordsInv == RowsInv /\ ImportInv /\ Accompanied /\ CleanInv

LEMMA Invariance == Spec => []RecordsInv
  <1>1. Init => RecordsInv
    <2>1. ASSUME Init
          PROVE  RowsInv
      <3>1. rows = [t \in Tables |-> {}]
        BY <2>1 DEF Init
      <3>2. \A t \in Tables: rows[t] = {}
        BY <3>1
      <3>3. OnePerPerson \subseteq Tables
        BY DEF OnePerPerson
      <3>4. QED
        BY <3>1, <3>2, <3>3 DEF RowsInv, RowTypes, Unique, Referring, OwnOnly
    <2>2. ASSUME Init
          PROVE  ImportInv
      <3>1. import = [pc |-> "none", sorted |-> <<>>, left |-> <<>>]
        BY <2>2 DEF Init, Idle
      <3>2. clean \in BOOLEAN /\ broken \in BOOLEAN
        BY <2>2 DEF Init
      <3>3. QED
        BY <3>1, <3>2, EmptyInOrder DEF ImportInv, ImportTypes, ImportOrder
    <2>3. ASSUME Init
          PROVE  Accompanied /\ CleanInv
      <3>1. rows["user"] = {} /\ rows["driver"] = {} /\ clean = FALSE
        BY <2>3, TableNames DEF Init
      <3>2. QED
        BY <3>1 DEF Accompanied, CleanInv
    <2>4. QED
      BY <2>1, <2>2, <2>3 DEF RecordsInv
  <1>2. RecordsInv /\ [Next]_vars => RecordsInv'
    <2>1. ASSUME RowsInv, UNCHANGED rows
          PROVE  RowsInv'
      BY <2>1 DEF RowsInv, RowTypes, Unique, Referring, OwnOnly
    <2>2. QED
      BY <2>1, RowSteps, GrowingKeeps, ShrinkingKeeps, ImportKept,
         AccompaniedKept, CleanKept
      DEF RecordsInv
  <1>3. QED
    BY <1>1, <1>2, PTL DEF Spec

(* Every table holds rows of its kind, users, drivers, passengers, devices  *)
(* and preferences one per person, whatever the service and an import do to *)
(* them beside each other.                                                  *)
THEOREM TypeCorrect == Spec => []TypeOK
  <1>1. RecordsInv => TypeOK
    BY DEF RecordsInv, RowsInv, RowTypes, Unique, ImportInv, ImportTypes, TypeOK, Fits
  <1>2. QED
    BY <1>1, Invariance, PTL

(* What a row refers to is there: no import, however it ends, leaves a ride *)
(* without its driver or a passenger without the user.                      *)
THEOREM ReferencesHold == Spec => []Referring
  <1>1. RecordsInv => Referring
    BY DEF RecordsInv, RowsInv
  <1>2. QED
    BY <1>1, Invariance, PTL

(* A driver has a vehicle whenever no import runs and none has failed,      *)
(* whoever registered while one ran and whatever it removed and created.    *)
THEOREM DriversAlwaysHaveVehicles == Spec => []DriversHaveVehicles
  <1>1. ASSUME RecordsInv, broken = FALSE, ~Importing, NEW x \in rows.driver,
               ~x.seed \/ x.of \in Seed["vehicle"]
        PROVE  Of("vehicle", x.of) # {}
    <2>1. DriverHasVehicle(x)
      BY <1>1 DEF RecordsInv, Accompanied
    <2>2. QED
      BY <1>1, <2>1 DEF DriverHasVehicle, Removes, Creates, Importing
  <1>2. RecordsInv => (broken = TRUE \/ broken = FALSE)
    BY DEF RecordsInv, ImportInv, ImportTypes
  <1>3. RecordsInv => DriversHaveVehicles
    BY <1>1, <1>2, Zenon DEF DriversHaveVehicles
  <1>4. QED
    BY <1>3, Invariance, PTL

(* Whenever no import runs and none has failed, no request removes a user   *)
(* or driver who registered: the passenger and the vehicle refer to them.   *)
THEOREM RegisteredAreAlwaysKept == Spec => RegisteredAreKept
  <1>1. ASSUME RecordsInv, [Next]_vars, broken = FALSE, ~Importing,
               NEW t \in {"user", "driver"}, NEW p \in People, Own(p) \in rows[t]
        PROVE  Own(p) \in rows'[t]
    <2> DEFINE x == Own(p)
    <2>1. x.of = p /\ x.seed = FALSE
      BY DEF Own
    <2> HIDE DEF x
    <2>2. Referred(t, x)
      <3>1. CASE t = "user"
        <4>1. UserHasPassenger(x)
          BY <1>1, <3>1 DEF RecordsInv, Accompanied, x
        <4>2. PICK y \in rows["passenger"]: y.of = x.of
          BY <1>1, <2>1, <4>1 DEF UserHasPassenger, Removes, Importing, Of
        <4>3. QED
          BY <3>1, <4>2, TableNames DEF Referred, Refers
      <3>2. CASE t = "driver"
        <4>1. DriverHasVehicle(x)
          BY <1>1, <3>2 DEF RecordsInv, Accompanied, x
        <4>2. PICK y \in rows["vehicle"]: y.of = x.of
          BY <1>1, <2>1, <4>1 DEF DriverHasVehicle, Removes, Creates, Importing, Of
        <4>3. QED
          BY <3>2, <4>2, TableNames DEF Referred, Refers
      <3>3. QED
        BY <3>1, <3>2
    <2>3. t \in Tables /\ x \in rows[t]
      BY <1>1, TableNames DEF x
    <2>4. x \in rows'[t]
      BY <1>1, <2>2, <2>3, RowSteps DEF RecordsInv, Grows, Shrinks
    <2>5. QED
      BY <2>4 DEF x
  <1>2. RecordsInv => (broken = TRUE \/ broken = FALSE)
    BY DEF RecordsInv, ImportInv, ImportTypes
  <1>3. RecordsInv /\ [Next]_vars =>
            [~broken /\ ~Importing =>
                \A t \in {"user", "driver"}, p \in People:
                    Own(p) \in rows[t] => Own(p) \in rows'[t]]_vars
    BY <1>1, <1>2, Zenon
  <1>4. QED
    BY <1>3, Invariance, PTL DEF Spec, RegisteredAreKept

(* A flush with all the files that is alone with the database, and finds no *)
(* rows but of those, does not fail, and leaves what is in the files: what  *)
(* it removes next nothing refers to, and what it creates next finds what   *)
(* it refers to.                                                            *)
THEOREM CleanFlushAlwaysRestoresSeed == Spec => []CleanFlushRestoresSeed
  <1>1. RecordsInv => CleanFlushRestoresSeed
    <2> SUFFICES ASSUME RecordsInv, clean = TRUE PROVE CleanFlushRestoresSeed
      BY DEF CleanFlushRestoresSeed, RecordsInv, ImportInv, ImportTypes
    <2>1. import.pc # "failed"
      BY DEF RecordsInv, CleanInv, CleanRemoving, CleanCreating, CleanDone
    <2>2. ASSUME import.pc = "done"
          PROVE  rows = [t \in Tables |-> {SeedRow(p): p \in Seed[t]}]
      <3>1. \A t \in Tables: rows[t] = {SeedRow(p): p \in Seed[t]}
        BY <2>2 DEF RecordsInv, CleanInv, CleanRemoving, CleanCreating, CleanDone, SeedRows
      <3>2. rows = [t \in Tables |-> rows[t]]
        BY DEF RecordsInv, RowsInv, RowTypes
      <3>3. QED
        BY <3>1, <3>2
    <2>3. QED
      BY <2>1, <2>2 DEF CleanFlushRestoresSeed
  <1>2. QED
    BY <1>1, Invariance, PTL

(* No step, of an import or of the service, takes a booking or the ride,    *)
(* driver, passenger and users it is about.                                 *)
THEOREM BookingsAlwaysSurvive == Spec => BookingsSurvive
  <1>1. ASSUME RecordsInv, [Next]_vars, NEW b \in rows.passengersOnRide
        PROVE  BookingKept(b)
    BY <1>1, RowSteps, GrowingSparesBookings, ShrinkingSparesBookings DEF RecordsInv
  <1>2. RecordsInv /\ [Next]_vars =>
            [\A b \in rows.passengersOnRide: BookingKept(b)]_vars
    BY <1>1
  <1>3. QED
    BY <1>2, Invariance, PTL DEF Spec, BookingsSurvive, BookingKept
=============================================================================
