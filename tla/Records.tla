------------------------------ MODULE Records ------------------------------
(***************************************************************************)
(* The rows behind a ride and the console command that seeds them:         *)
(* drivers and vehicles (backend/src/driver), preferences, devices, and    *)
(* import-entities (backend/src/import), which another process runs beside *)
(* the service, one statement at a time and without a transaction.         *)
(*                                                                         *)
(* A row is of a person, who has one phone and e-mail and so one User row. *)
(* Seed rows refer to seed rows, by the ids in the files; a row made by    *)
(* the service has an id of its own and refers to the row the person has.  *)
(* An endpoint finds a row and then makes one write; what the write needs, *)
(* the database checks again, so the two are one step.  The fields that    *)
(* updateUser, updateDriver and verifyDriver set are read by nothing here  *)
(* and left out (a change of phone: see AccountRegistration).  Definitions *)
(* marked "mistake" are plausible bugs that no behaviour uses.             *)
(***************************************************************************)
EXTENDS Naturals, SequencesExt

CONSTANTS
    People,
    Seed,           \* the people each file has rows of
    Directories,    \* what the data directory may hold, as readdirSync lists it
    MaxOthers       \* the bound on rows that are in no file

VARIABLES
    rows,           \* the rows of each table
    import,         \* the import command: where it is and the statements it has left
    clean,          \* history: the last import flushed all there was, and nobody else wrote
    broken          \* history: has an import failed yet

vars == <<rows, import, clean, broken>>

(* What the rows of a table refer to.  Rows that are referred to cannot be  *)
(* removed.                                                                 *)
References == [
    user |-> {}, driver |-> {"user"}, vehicle |-> {"driver"}, passenger |-> {"user"},
    ride |-> {"driver"}, passengersOnRide |-> {"ride", "passenger"}, device |-> {"user"},
    passengerRidePreferences |-> {"passenger"}, driverRidePreferences |-> {"driver"}]

Tables == DOMAIN References
OnePerPerson == Tables \ {"vehicle", "ride", "passengersOnRide"}
Row == [of: People, seed: BOOLEAN]
Booking == [of: People, on: Row]

(* The misspelt passengerOnRide is no table.                                *)
EntityDependencies == [
    user |-> {}, driver |-> {"user"}, passenger |-> {"user"}, ride |-> {"driver"},
    passengerOnRide |-> {"ride", "passenger"}, vehicle |-> {"driver"}]

Entity == DOMAIN EntityDependencies

(* The entities an import may remove and create.                            *)
Importable == Tables \cap Entity

(* The files are those of the repository: each has rows, which refer to     *)
(* rows of the files; where there are drivers there are vehicles.           *)
ASSUME SeedAssumption == Seed \in [Tables -> SUBSET People]

ASSUME FilesAssumption ==
    \A t \in {"user", "driver", "vehicle", "passenger", "ride"}:
        Seed[t] # {} /\ \A u \in References[t]: Seed[t] \subseteq Seed[u]

ASSUME DirectoriesAssumption ==
    /\ Directories \subseteq Seq(STRING)
    /\ \A directory \in Directories:
           "driver" \in Range(directory) => "vehicle" \in Range(directory)

Idle == [pc |-> "none", sorted |-> <<>>, left |-> <<>>]

Init ==
    /\ rows = [t \in Tables |-> {}]
    /\ import = Idle
    /\ clean = FALSE
    /\ broken = FALSE

------------------------------------------------------------------------------
Of(t, p) == {x \in rows[t]: x.of = p}

Refers(x, t, y) == IF t = "ride" THEN x.on = y ELSE x.of = y.of
\* mistake: a booking does not hold its ride and passenger (onDelete: Cascade)
ReferredByOthers(t, y) ==
    \E u \in Tables \ {"passengersOnRide"}:
        t \in References[u] /\ \E x \in rows[u]: Refers(x, t, y)
Referred(t, y) == \E u \in Tables: t \in References[u] /\ \E x \in rows[u]: Refers(x, t, y)

Insert(t, x) == [rows EXCEPT ![t] = @ \cup {x}]
Delete(t, x) == [rows EXCEPT ![t] = @ \ {x}]
Own(p) == [of |-> p, seed |-> FALSE]

(* A write of the service.                                                  *)
Writes(after) ==
    /\ rows' = after
    /\ clean' = FALSE
    /\ UNCHANGED <<import, broken>>

(* Bookings, devices and preferences are in no file.                        *)
Others == UNION {{<<t, x>>: x \in rows[t]}: t \in Tables \ Entity}
WritesOther(t, x) ==
    /\ Cardinality(Others) < MaxOthers \/ x \in rows[t]
    /\ Writes(Insert(t, x))

(* Fields of the row change that nothing reads.                             *)
Updates(t, p) ==
    /\ Of(t, p) # {}
    /\ Writes(rows)

(* register: the user and, nested, the passenger.                           *)
Register(p) ==
    /\ Of("user", p) = {}
    /\ Writes([rows EXCEPT !.user = @ \cup {Own(p)}, !.passenger = @ \cup {Own(p)}])

UpdateUser(p) == Updates("user", p)

DeleteUser(x) ==
    /\ x \in rows.user
    /\ ~Referred("user", x)
    /\ Writes(Delete("user", x))

(* The vehicle is created with the driver, in one transaction.              *)
\* mistake: without
CreateDriverOnly(p) ==
    /\ Of("user", p) # {} /\ Of("driver", p) = {}
    /\ Writes(Insert("driver", Own(p)))
CreateDriver(p) ==
    /\ Of("user", p) # {} /\ Of("driver", p) = {}
    /\ Writes([rows EXCEPT !.driver = @ \cup {Own(p)}, !.vehicle = @ \cup {Own(p)}])

UpdateDriver(p) == Updates("driver", p)
VerifyDriver(p) == Updates("driver", p)

DeleteDriver(x) ==
    /\ x \in rows.driver
    /\ ~Referred("driver", x)
    /\ Writes(Delete("driver", x))

(* A second time it throws.                                                 *)
UpsertDriverRidePreferences(p) ==
    /\ Of("driver", p) # {} /\ Of("driverRidePreferences", p) = {}
    /\ WritesOther("driverRidePreferences", Own(p))

(* A second time it updates the row.                                        *)
UpsertPassengerRidePreferences(p) ==
    /\ Of("passenger", p) # {}
    /\ WritesOther("passengerRidePreferences", Own(p))

RegisterUserDevice(p) ==
    /\ Of("user", p) # {}
    /\ WritesOther("device", Own(p))

CreateRide(p) ==
    /\ Of("driver", p) # {}
    /\ Writes(Insert("ride", Own(p)))

DeleteRide(x) ==
    /\ x \in rows.ride
    /\ ~Referred("ride", x)
    /\ Writes(Delete("ride", x))

AcceptRide(ride, p) ==
    /\ ride \in rows.ride /\ Of("passenger", p) # {}
    /\ WritesOther("passengersOnRide", [of |-> p, on |-> ride])

------------------------------------------------------------------------------
(* The import command.                                                      *)

(* One entity of one round: it is added once all it depends on is there.    *)
SortEntity(sorted, entity) ==
    IF entity \notin Range(sorted) /\ EntityDependencies[entity] \subseteq Range(sorted)
    THEN Append(sorted, entity) ELSE sorted

(* Rounds over the entities, as long as some are left (but at most 100: a   *)
(* round that adds none is followed by none that does).                     *)
\* mistake: one round
SortRound(entities, sorted) == FoldLeft(SortEntity, sorted, entities)
SortEntitiesOnce(entities) == SortRound(entities, <<>>)
SortEntities(entities) ==
    LET Round(sorted, i) == SortRound(entities, sorted)
    IN  FoldLeft(Round, <<>>, entities)

(* Files that are not of a table are skipped.                               *)
LoadFile(entities, file) == IF file \in Tables THEN Append(entities, file) ELSE entities
Entities(directory) == FoldLeft(LoadFile, <<>>, directory)

Fails ==
    /\ import' = [Idle EXCEPT !.pc = "failed"]
    /\ broken' = TRUE

(* After a statement: the next one, or the next phase.                      *)
Continues ==
    /\ import' =
         IF Len(import.left) > 1 THEN [import EXCEPT !.left = Tail(@)]
         ELSE IF import.pc = "removing" /\ import.sorted # <<>>
              THEN [pc |-> "creating", sorted |-> <<>>, left |-> import.sorted]
              ELSE [Idle EXCEPT !.pc = "done"]
    /\ UNCHANGED broken

(* An entity without a line in entityDependencies throws before anything is *)
(* removed; nothing sorted means nothing to do.                             *)
ImportEntities(directory, flush) ==
    LET entities == Entities(directory)
        sorted == SortEntities(entities)
    IN  /\ import.pc \in {"none", "done", "failed"}
        /\ IF Range(entities) \subseteq Entity
           THEN /\ import' =
                      IF sorted = <<>> THEN [Idle EXCEPT !.pc = "done"]
                      ELSE IF flush
                           THEN [pc |-> "removing", sorted |-> sorted, left |-> Reverse(sorted)]
                           ELSE [pc |-> "creating", sorted |-> <<>>, left |-> sorted]
                /\ clean' = (flush /\ \A t \in Tables \ Range(entities):
                                          Seed[t] = {} /\ rows[t] = {})
                /\ UNCHANGED broken
           ELSE Fails /\ clean' = FALSE
        /\ UNCHANGED rows

(* flushAllEntities, which the end-to-end tests call: every entity is       *)
(* removed, and nothing is created.                                         *)
FlushAllEntities ==
    /\ import.pc \in {"none", "done", "failed"}
    /\ import' = [pc |-> "removing", sorted |-> <<>>, left |-> Reverse(SortEntities(
                     <<"user", "driver", "passenger", "ride", "passengerOnRide", "vehicle">>))]
    /\ clean' = FALSE
    /\ UNCHANGED <<rows, broken>>

Running(pc) == import.pc = pc /\ import.left # <<>>

(* deleteMany of the next table: all of its rows or, when any is referred   *)
(* to, an error that ends the import; where there is no such table, the     *)
(* count of undefined is one.                                               *)
\* mistake: the error is ignored
RemoveEntityAnyway ==
    /\ Running("removing")
    /\ LET t == Head(import.left)
       IN  IF t \notin Tables \/ \E x \in rows[t]: Referred(t, x)
           THEN Continues /\ UNCHANGED rows
           ELSE Continues /\ rows' = [rows EXCEPT ![t] = {}]
    /\ UNCHANGED clean
RemoveEntity ==
    /\ Running("removing")
    /\ LET t == Head(import.left)
       IN  IF t \notin Tables \/ \E x \in rows[t]: Referred(t, x)
           THEN Fails /\ UNCHANGED rows
           ELSE Continues /\ rows' = [rows EXCEPT ![t] = {}]
    /\ UNCHANGED clean

SeedRow(p) == [of |-> p, seed |-> TRUE]

(* A row of a file is in the table already, by its id or by another unique  *)
(* column: a user's phone and e-mail, the user of a driver or a passenger.  *)
(* The driver of somebody who signed up is of another user than the file's, *)
(* and so no duplicate.                                                     *)
IsDuplicate(t, x) ==
    \/ x \in rows[t]
    \/ t = "user" /\ Of(t, x.of) # {}
    \/ t \in {"driver", "passenger"} /\ Of(t, x.of) # {} /\ SeedRow(x.of) \in rows.user

(* createMany leaves out duplicates (skipDuplicates).                       *)
\* mistake: rows with the same id only
MissingIds(t) == {SeedRow(p): p \in Seed[t]} \ rows[t]
Missing(t) == {x \in {SeedRow(p): p \in Seed[t]}: ~IsDuplicate(t, x)}

(* ... and inserts the others, in one statement: all of them, or none when  *)
(* one refers to a row that is not there.  An empty file stands for a       *)
(* hundred rows without their fields, which are refused.                    *)
CreateEntity ==
    /\ Running("creating")
    /\ LET t == Head(import.left)
       IN  IF Seed[t] # {} /\ \A x \in Missing(t), u \in References[t]: x \in rows[u]
           THEN Continues /\ rows' = [rows EXCEPT ![t] = @ \cup Missing(t)]
           ELSE Fails /\ UNCHANGED rows
    /\ UNCHANGED clean

(* PostgreSQL refuses a statement, or the command is ended.                 *)
ImportFails ==
    /\ Running("removing") \/ Running("creating")
    /\ Fails
    /\ clean' = FALSE
    /\ UNCHANGED rows

------------------------------------------------------------------------------
UserController ==
    \/ \E p \in People: UpdateUser(p) \/ RegisterUserDevice(p)
    \/ \E x \in Row: DeleteUser(x)

DriverController ==
    \/ \E p \in People: \/ CreateDriver(p) \/ UpdateDriver(p) \/ VerifyDriver(p)
                       \/ UpsertDriverRidePreferences(p)
    \/ \E x \in Row: DeleteDriver(x)

PassengerController == \E p \in People: UpsertPassengerRidePreferences(p)

RideController ==
    \/ \E p \in People: CreateRide(p)
    \/ \E x \in Row: DeleteRide(x)
    \/ \E ride \in Row, p \in People: AcceptRide(ride, p)

ServiceStep ==
    \/ \E p \in People: Register(p)
    \/ UserController \/ DriverController \/ PassengerController \/ RideController

ImportStep ==
    \/ \E directory \in Directories, flush \in BOOLEAN: ImportEntities(directory, flush)
    \/ FlushAllEntities
    \/ RemoveEntity
    \/ CreateEntity
    \/ ImportFails

Next == ServiceStep \/ ImportStep

Spec == Init /\ [][Next]_vars
------------------------------------------------------------------------------
TypeOK ==
    /\ rows \in [Tables -> SUBSET (Row \cup Booking)]
    /\ \A t \in Tables: rows[t] \subseteq IF t = "passengersOnRide" THEN Booking ELSE Row
    /\ \A t \in OnePerPerson: \A x, y \in rows[t]: x.of = y.of => x = y
    /\ import \in [pc: {"none", "removing", "creating", "done", "failed"},
                   sorted: Seq(Importable), left: Seq(Entity)]
    /\ clean \in BOOLEAN
    /\ broken \in BOOLEAN

Importing == import.pc \in {"removing", "creating"}

(* A driver has the vehicle that a search reads as vehicles[0]: drivers     *)
(* come with theirs, and an import that completes leaves none without, even *)
(* when drivers register while it runs.  Only an import that fails does     *)
(* (and seed drivers that have no vehicle in the file).                     *)
DriversHaveVehicles ==
    ~broken /\ ~Importing =>
        \A x \in rows.driver: ~x.seed \/ x.of \in Seed["vehicle"] => Of("vehicle", x.of) # {}

(* DELETE /user and DELETE /driver remove nobody who signed up: the         *)
(* passenger and the vehicle that come with them are removed by no          *)
(* endpoint.  Only an import leaves rows that can be removed: while it runs *)
(* or after it failed.                                                      *)
RegisteredAreKept ==
    [][~broken /\ ~Importing =>
         \A t \in {"user", "driver"}, p \in People: Own(p) \in rows[t] => Own(p) \in rows'[t]]_vars

(* A flush never takes a booking, nor the ride, driver, passenger or users  *)
(* it is about: it stops with an error before.                              *)
BookingsSurvive ==
    [][\A b \in rows.passengersOnRide:
         /\ b \in rows'.passengersOnRide
         /\ b.on \in rows'.ride
         /\ Of("driver", b.on.of) \subseteq rows'.driver
         /\ Of("passenger", b.of) \subseteq rows'.passenger
         /\ Of("user", b.of) \cup Of("user", b.on.of) \subseteq rows'.user]_vars

(* A flush with all the files that finds no rows but of those, and is alone *)
(* with the database, succeeds and leaves what is in the files: all of them *)
(* are sorted, and rows are removed and created in an order the references  *)
(* allow.                                                                   *)
CleanFlushRestoresSeed ==
    /\ clean => import.pc # "failed"
    /\ clean /\ import.pc = "done" => rows = [t \in Tables |-> {SeedRow(p): p \in Seed[t]}]
=============================================================================
