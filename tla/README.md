# HopOn in TLA+

TLA+ modules of the HopOn car-pooling application: a NestJS backend
(`src/backend`, Node 16 on Cloud Run, Prisma over PostgreSQL, Redis, AWS
Cognito, SNS and S3) and a Flutter app for drivers and passengers
(`src/frontend`). What the backend does to its tables, its cache and the services
it calls is modelled, model-checked and proved about: bookings, location
reports, sign-up, fares, the search for a ride, and the rows behind them with
the import that seeds them. The app is the environment that sends requests.

Paths below are relative to `src/`; `ride.service.ts` is
`backend/src/ride/services/ride.service.ts`, `auth.service.ts` is
`backend/src/auth/services/auth.service.ts`, `user.service.ts` is
`backend/src/user/services/user.service.ts`, and so on.

## The system

| Component | State it keeps | Operations | What is hard | What makes it correct |
|---|---|---|---|---|
| Ride service (`ride.service.ts`, `ride.controller.ts`) | `Ride` and `PassengersOnRide` tables | create, update, delete a ride; request, accept, reject; complete; set a passenger's status | check-then-insert over awaits, `forEach(async ...)` callbacks nobody awaits, a rejection ends the process, retries after timeouts | nobody is told of an acceptance that is not booked; bookings stay on rides that exist; fares come from passengers of the same ride; a retry does not book again; requests end |
| Devices and notifications (`user.service.ts`, `notification.service.ts`) | `Device` table, SNS endpoints | register a device, publish to a device | published is not withdrawn; a missing device fails the request that needs it | see the ride service |
| Sign-up (`auth.service.ts`, `user.service.ts`) | `User` table, Cognito's user pool | register, confirm a code, send it again, change the phone | two stores without a transaction, compensation that guesses what failed, un-awaited updates | users keep their accounts, an account belongs to one user, verified means confirmed |
| Location cache (`ride.service.ts:136-193`) | one Redis entry per ride | report a location, read the entry | read, change, write back over awaits; expiry | an entry holds passengers of the ride and locations they reported |
| Fares (`fare.service.ts`) | the fare column | estimate for a newcomer, adjust for the others | an in-place sort another line relies on, caps, overlapping shares, passengers who get off late | an estimate does not depend on the order of the riders, sharing is not dearer, an adjusted fare is bounded |
| Matching (`ride.service.ts:262-398`, `utility.service.ts`) | none (reads) | find rides for a passenger | ten awaits per search, undefined distances, one ride that fails the whole search | offered rides were right, right rides are offered, searches end |
| Drivers, vehicles, preferences (`driver.service.ts`, `passenger.service.ts`) | one row each, a vehicle per driver | register, verify, update, delete a driver; upsert preferences | an update path that throws, deletes restricted by rows made along | who registered is kept; a driver has a vehicle |
| Seed import (`import.service.ts`) | all tables | import, with or without flush | one statement at a time beside the service, failures half way, files in any order | no booking is taken; on a clean database the files come back |
| Login and tokens (`auth.service.ts`, guards) | none: stateless JWTs | log in, refresh | - | - |
| File upload (`file.service.ts`) | none (S3) | sign, upload | - | - |
| App: ride session (`map_view_model.dart`, `with_notificatons.dart`) | the session of one phone | search, request, accept, reject, report location, board, end | cron tasks with captured values, notifications in any order, stale ids | the session follows the server's ride |
| App: accounts and profile (`login_store.dart`, `profile_viewmodel.dart`) | stored ids and mode | sign up, log in, switch mode | ids of the other mode left behind | requests carry the id of the current mode |

The app calls the backend over HTTP with timeouts of 8 and 10 s and retries
nothing by itself; people tap again. The backend calls PostgreSQL, Redis,
Cognito and SNS and awaits most, not all, of these calls. SNS pushes to the app.

`PROJECT.json` lists the hazards line by line.

## Modules

    BookingLedger            what the ride service promises about bookings
    RideBooking              the ride service; implements BookingLedger
    RideLocationCache        location reports over Redis, with BookingLedger as environment
    AccountRegistration      sign-up over Cognito and the User table
    RouteMatching            distances on a road, for the next two
    FareAllocation           what passengers pay
    RideSearch               the search for rides, against all that changes what it reads
    Records                  rows and references, and the import beside the service

Each but `BookingLedger` and `RouteMatching` has an `MC_` module with its small
instances and a `_proofs` module with its theorems.
`FoldLemmas` (induction, and what folds over sequences compute) and
`SortEntities_proofs` (the sort of the import) are theorems those rest on.

Operators marked `\* mistake:` are an action or a helper with a plausible bug in
it: a dropped check, a swallowed error, a cascade in place of a restriction. No
behaviour uses them. Each property was seen to fail when one of them takes the
place of the definition after it (`PROJECT.json`, "mutants").

### How a handler becomes actions

Node runs one handler from one `await` to the next without interruption, so a
step of the models is that: the work from one database statement or call to a
service to the next. A *call* is a request being served: which statement it
awaits (`pc`), its arguments and the locals it will still use. Calls live in the
set `calls`, at most one per *slot*. A read and the statement after it are one
step where no other step can change what the read returned (ids, a row's owner)
or where the read only decides whether the statement is reached at all and the
statement decides it again (`findRide` before `update` and `delete`:
both fail when the ride is gone).

`forEach(async ...)` starts *callbacks* that outlive the handler. A promise that
rejects without a handler ends a Node 16 process: `ProcessEnds` drops every call
and callback in it and keeps the tables and what SNS or Cognito took. The
platform may stop an instance at any time (`Stopped`), which also stands for a
callback whose statement is refused, and starts it again (`Restart`). One server
process at a time is modelled; a second instance against the same database
behaves like more slots, as far as the tables go.

A statement or publish that fails, or whose answer is lost, ends its handler
(`CallFails`). A lost answer with the work done is the step that does the work
followed by `CallFails` at the next await, or by nothing at the last.

### RideBooking

| Variable | Code |
|---|---|
| `ride` | `Ride.rideStatus`; `"unused"` before the insert, `"deleted"` after the delete |
| `row` | `PassengersOnRide`: ride, passenger, status and fare of each row |
| `devices` | users with a `Device` row |
| `sent` | messages SNS has accepted |
| `up`, `calls`, `callbacks` | the Node process |

Endpoints and their steps: `POST /ride` is `CreateRide`, `CreateLocation` (the
un-awaited location upsert, as far as it may reject); `PUT` and `DELETE
/ride/:id` are `UpdateRide` and `DeleteRide`; `POST ride/request` is
`RequestRide`, `RequestDevice`, `RequestPublish`; `POST ride/accept-request` is
`Accept` (the availability check), `AcceptEstimate`, `AcceptInsert`,
`AcceptAdjust`, `AcceptDevice`, `AcceptPublish`, and per adjusted row the
callback `SetFare`, `NotifyFare`; `POST ride/reject-request` is `Reject`,
`RejectDevice`, `RejectPublish`; `GET ride/:rideId/complete` is `Complete`,
`CompleteUpdate`, `CompleteDevice`, `CompletePublish` and per row the callback
`SetCompleted`; `POST ride/passenger/status` and `ride/:rideId/end-passenger-ride`
are `UpdatePassengerRideStatus` and `CompletePassengerRide`; `POST user/device`
is `RegisterDevice`.

Data that is abstracted: a fare is the set of passengers whose trips it was
computed from (`Riding` with the newcomer for an estimate, two for an
adjustment), because which trips went in is what interleavings can spoil; the
sums are `FareAllocation`'s. A message carries its type, ride and
passenger. There is one driver, since which driver owns a ride is never compared
in these handlers. Sources, destinations, dates and totals are left out.

`DeleteRide` needs the ride to have no rows because of the foreign key
(`backend/prisma/migrations/20230330160924_init/migration.sql:68`, `ON DELETE
RESTRICT`); passengers are never deleted for the same reason.

`NotifyFare` looks wrong and is what the code does: `ride.service.ts:509` passes
the id of a `PassengersOnRide` row to `findDeviceArnForPassenger`. With uuids
for ids (`RowsAssumption`) the lookup finds nobody and rejects, and nobody
awaits it.

`BookingLedger` is the promise: rides open and, while nobody is booked on them,
are deleted for good; bookings are made on open rides, never moved and never
lost; an acceptance is told about only when it is booked. The mapping reads
`life` off `ride`, `booked` off `row` and `accepted` off the `RIDE_ACCEPTED`
messages in `sent` (`Ledger` in `RideBooking`).

### RideLocationCache

| Variable | Code |
|---|---|
| `life`, `booked`, `accepted` | the ledger's rides, bookings and acceptances |
| `cache` | the Redis entry of each ride: the driver's location, and per passenger a location, `Unknown` (`''`) or `None` (not in the list) |
| `up`, `calls` | the Node process and the reports it is serving |

This module composes with the ride service through `BookingLedger`: its actions
`Open` (with the report `createRide` sends off un-awaited, `CreateRide`),
`Delete`, `Book` and `TellAccepted` (`LedgerStep`) are what the rest of the
service does to the tables a report looks at, and `RideBooking_proofs` shows that
the service does no more. `POST ride/driver/current-location` and
`ride/passenger/current-location` are `Report`, then `FindRide`, `GetCache` (with
the check whether the reporter belongs to the ride) and `SetCache`, the three
awaits of `upsertRideLocationInCache`; the new entry is computed from what the
call read (`Updated`). A report that throws is answered with an error, or ends
the process when nobody awaits it (`Rejects`). `LoseEntry` is Redis's expiry,
eviction or restart, at any time: the time to live is left out. `outage` says
whether PostgreSQL and Redis may refuse now (`Outage` begins and ends one), so
that one run can say both what holds whatever they refuse and what holds while
they answer. The entry's list
of passengers is a function; of a passenger with two rows only the first element
is ever found. Reading the entry changes nothing and is no action.

### AccountRegistration

| Variable | Code |
|---|---|
| `accounts`, `issued` | Cognito's pool by sub, and the subs it has given out (external) |
| `users` | `User`: `coginitoId` (the sub), phone, e-mail, verified |
| `up`, `calls` | the Node process |
| `updates` | phones whose un-awaited `updateUser` is still running |
| `faulted` | history: Cognito or the database has failed a call |

`POST /register` is `Register`, `SignUp` (or `SignUpRefused`, `SignUpFails`),
`FindUser`, `CreateUser` (or `CreateUserFails`), and when the code believes the
database failed `DisableAccount`, `DeleteAccount`. `POST /verify-register` is
`VerifyOTP`, `Confirm`; `POST /resend-otp` is `ResendOTP`, `Resend`; both start
`MarkVerified`. `PUT user/:id` with a phone is `UpdateUser`; the app sends no
`verified` flag there, so neither does the model.

Cognito is modelled from how it is called: `signUp` of a taken phone answers
`UsernameExistsException` (status 400), any other 400 is a refusal, and an error
without that status (5xx, or an answer that is lost with the account made or not)
is `SignUpFails`. `adminDisableUser` and `adminDeleteUser` name the account by
phone, which is why the question whose account it is arises.

Deleting a user is not an action here: `Passenger_userId_fkey` (same migration,
line 59) restricts it, and `register` always makes the passenger. `Records` has
the delete, and says when it has an effect after all.

### FareAllocation, RouteMatching

| Variable | Code |
|---|---|
| `row`, `fare` | a ride's `PassengersOnRide`: source, destination and status, and the fare |

`Accept` is what `createPassengerRide` does to the rows: the newcomer's estimate
over the riders in any order the database may return them (`Estimates`), and the
adjusted fares of the others, of which any part may be written, because writing
them ends the process (`RideBooking`). Passengers are accepted, board and leave
wherever and in whatever order they like, as the endpoints allow. Points are
kilometres of a straight road, and a route may be longer than the straight line
(`Detours`). Money is in units of which as many as may share a ride get equal
numbers (`UnitAssumption`; twelfths in the run): the code computes in floating
point, and the model leaves the rounding out. `Ascending` is what `sort` makes of
the shared distances, by what a sorted array is and not by how one is sorted.

`RouteMatching` keeps the outcomes of `getDistanceFromPointToLineSegment`, which
compares two metrics (`utility.service.ts:49-71`). Points are `[lng, lat]`
(`data/ride.csv`). The along-track distance takes a degree of either for the same
length; the length of the segment comes from `getKmDistanceBetweenTwoPoints`,
which takes the first number for the latitude and shortens the second by its
cosine. On a straight road the first is a fixed multiple of the second, once along
a parallel and more than three times along a meridian at the longitudes of the
data: `skew`, per cent. A point that comes out further from the start than
the segment is long gets its distance to the end; it may well lie between the
ends. Any other gets `undefined` and counts as off the segment, whatever the
threshold; a negative along-track distance, the third case, does not occur.

### RideSearch

| Variable | Code |
|---|---|
| `ride`, `seated` | `Ride.rideStatus`, and how many `PassengersOnRide` rows the ride has |
| `location` | the driver's location in the Redis entry; `Unknown` is the empty one, `None` no entry |
| `driverPreferences`, `passengerPreferences` | the preferences rows |
| `vehicles` | rides whose driver has a vehicle |
| `calls` | searches; `branch` says where each ride is in the two `Promise.all` |
| `sometime`, `always` | history: which conditions a ride has met since the search came in, and which rides all of them ever since |

A search is `Search`, `FindPreferences`, `FindRides`, then for each ride of its
own accord `MatchCache`, `MatchDriver`, `MatchPreferences`, `MatchCount`; when all
are through, `FilterRides`, then for each match `OfferSeated`, `OfferFare`,
`OfferETA`, `OfferVehicle`; and `Answer`. A branch that throws ends the search
(`Promise.all` rejects); its siblings go on for nothing. The other actions are
what the service does to what a search reads: `Book`, `UpdateRide`, `DeleteRide`,
`Relocate` (a report or the loss of an entry), the two upserts of preferences and
`FlushVehicles`. They are coarser than in the modules of their own, but allow all
that those allow. Not every driver has a vehicle to begin with: `data/driver.csv`
has two drivers, `data/vehicle.csv` the vehicle of one.

### Records

| Variable | Code |
|---|---|
| `rows` | the rows of each table: whose they are and whether they are a file's |
| `import` | the `import-entities` command: removing, creating, and the entities left |
| `clean`, `broken` | history, for the properties |

`ImportEntities` reads the directory, sorts (`SortEntities`) and either throws,
does nothing, or goes on to `RemoveEntity` and `CreateEntity`, one statement
each; `ImportFails` is a refused statement or an interrupted command. The
service's endpoints are one step each: they look a row up and make one write,
whose references the database checks again. Tables and references are those of
`backend/prisma/schema.prisma`, and the migrations restrict every delete of a row
that is referred to. `entityDependencies` names an entity `passengerOnRide`,
which is no Prisma model; a file of that name is skipped, and bookings are
therefore never removed. `start-dev.sh:30` imports with `--flush` at every start.
`FlushAllEntities` is what `test/user/user.e2e-spec.ts:19` and
`test/driver/driver.e2e-spec.ts:20` call in `afterAll`: it removes the vehicles,
throws at `passengerOnRide` and so never completes. Creation skips duplicates
(`IsDuplicate`): a user of a file whose phone somebody signed up with is one, but
that person's driver or passenger row is not, since it is of another user than
the file's, and the import then fails on the reference to the user it skipped.

## Runs

| Run | Specification, instance | Shows | Distinct states |
|---|---|---|---|
| `book` | `Spec`; 1 ride, 2 passengers, 2 rows, 2 slots; create, delete, device, accept, status | `TypeOK`, `AcceptedIsBooked`, `FareOfBookedPassengers`, `SettledBookingIsFinal`, `UntoldForEver`, `LedgerSpec` | 83163 |
| `ride` | `FairSpec`; 1 ride, 1 passenger, 1 row, 2 slots, all endpoints | `AcceptedIsBooked`, `LedgerSpec`, `CallsEnd`, `CompletionReachesRows` | 67171 |
| `rides` | `Spec`; 2 rides, 2 passengers, 2 rows, 2 slots; endpoints as in `book`, symmetry | `FareOfBookedPassengers` | 264920 |
| `double` | violation of `OneBookingPerPassenger`, nothing failing | finding 1 | - |
| `fare` | violation of `NoAdjustmentDropped`, nothing failing, one device | finding 2 | - |
| `reports` | `Spec`; 1 ride, 1 passenger and the driver, 1 row, 2 slots, 2 locations | `TypeOK`, `CachedAreBooked`, `RevertsAreOvertaken`, `AcceptedAreHeard` | 186308 |
| `accounts` | `Spec`; 2 phones, 2 e-mails, 3 subs, 2 slots | `TypeOK`, `UsersKeepAccounts`, `OrphanedForEver`, `LostAccountIsForEver` | 683101 |
| `undo` | violation of `UndoneAccountIsOwn` | finding 3 | - |
| `verified` | violation of `VerifiedIsConfirmed` | finding 4 | - |
| `fares` | `Spec`; 3 passengers, points 0, 1 and 3, a detour of 1 | `TypeOK`, `EstimateIsOrderFree`, `SharingIsNotDearer`, `AdjustmentIsBounded` | 65590 |
| `search` | `Spec`; 1 ride, 1 passenger, 1 slot, a route of 3 points, 2 seats or 1 | `TypeOK`, `OffersWereRight`, `RightRidesAreOffered`, `SearchesEnd` | 69684 |
| `records` | `Spec`; 2 people in the files, 4 directories, 2 rows of no file | `TypeOK`, `DriversHaveVehicles`, `CleanFlushRestoresSeed`, `RegisteredAreKept`, `BookingsSurvive` | 137720 |

Why these bounds are enough to be interesting. Every race named in the hazards
is between two requests, or a request and a callback of another: two slots. Two
rows let one passenger be booked twice or two passengers once, so an adjustment
has somebody to adjust. Two rides are needed to tell the rides' rows apart
(`rides`: a fare that takes riders of another ride shows nowhere else). `fare` has three
passengers so that an accept adjusts two others. Entries of two rides share
nothing, so `reports` has one; the driver and a passenger are the two reporters
who can overtake each other (the theorems have any number), and with two
locations an earlier report cannot pass for a later one. Two phones and two e-mails let
two sign-ups collide on either and not the other; three subs allow a sign-up, its
undoing and another. `Endpoints` and `DeviceUsers` select, per run, which
requests clients make; `ride` has them all. `Rows` bounds the accepts ever taken
(`Accept` needs a free row), `Subs` the accounts ever made.

In `fares`, a third passenger meets up to two riders, whose order can then
matter, and three points at unequal distances put a newcomer's source before,
between and after the ends of a rider's trip. In `search`, rides do not look at
each other (the theorems have any number of them), so one ride suffices for its ten awaits;
two rows reach both seat limits, the one location is near and the entry may be
empty or gone, and the passenger gets on between the ends of the route's last
segment, on the route only because of the road's skew, and goes to its end (one
who is off the route is left to the theorem). `MaxRows` bounds bookings. In `records`, one of two
people has a driver, vehicle and ride in the files and the other may become a
driver meanwhile; the directories are the repository's with one file more, one
without passengers and rides, one that lacks what it depends on, and one with a
table the import does not know; `MaxOthers` bounds bookings, devices and
preferences together, of which one is enough to be referred to. Deadlock is
checked in every run. Symmetry over ids is used only in runs of safety
properties.

Fairness (`Fairness` in `RideBooking`). The event loop gets to every settled
promise, PostgreSQL and SNS answer each statement, and Cloud Run restarts a
container that exited: weak fairness of a slot's handler step, of each callback,
and of `Restart`. A failed statement also is an answer (`CallFails` ends the
call). Clients owe nothing, and no fairness makes a client retry. The callback's
fairness is per slot and row since each element of a `forEach(async ...)` is a
promise of its own. `RideLocationCache` assumes the handlers' part only, and
`AcceptedAreHeard` speaks of times without `outage`: a refused statement loses a
report. `RideSearch` assumes it for each search's handler and for each of its
branches, which are promises of their own: no branch waits for another, so
none is starved. `FareAllocation`, `AccountRegistration` and `Records` state no
liveness, and no fairness.

## Findings

1. `double`: two accepts of one passenger both pass
   `isPassengerAvailableForRide` before either inserts, and leave two rows
   (`ride.service.ts:559`).
2. `fare`: the adjustment of fares ends the process at its first notification
   (`ride.service.ts:509`); the other passengers' adjustments are lost, while
   `fare.service.ts:144-148` says each passenger's fare is adjusted.
3. `undo`: `register` for a taken phone deletes the registered user's Cognito
   account when `signUp` fails with anything but a status 400
   (`auth.service.ts:70-76`), and `LostAccountIsForEver` shows that the user has
   no way back.
4. `verified`: asking for the code again marks the user verified
   (`auth.service.ts:107`).

What holds with less than one might think, and is stated so:

- `OffersWereRight` says that each condition held at some moment of the search,
  not that all did at one, nor that any still does at the answer; that the seat
  was free at all rests on bookings never being removed and on preferences of a
  driver never changing, which is so because the update throws
  (`driver.service.ts:146`).
- `SharingIsNotDearer` is about up to two others aboard; with three, shares of
  overlapping stretches may add up to more than the way alone.
- `RightRidesAreOffered` is about the rides a search keeps: one ride that throws
  fails the search and the right ones with it (`ride.service.ts:373`), and of such
  a search only `SearchesEnd` is claimed.
- `RevertsAreOvertaken` does not exclude the lost update of the cache entry
  (`ride.service.ts:150`), which happens: it says that no report undoes another
  but one that was written between its own read and write.
- `SettledBookingIsFinal` is about retries after an accept is through; two accepts
  in flight are finding 1.
- The lower bound of `AdjustmentIsBounded` falls by the price of the way from
  where the newcomer boards to the old passenger's own trip, and may become
  negative (`fare.service.ts:172`): so may the fare.
- `DriversHaveVehicles` and `RegisteredAreKept` end with the first import that
  fails, since the vehicles are removed before the drivers; `BookingsSurvive` does
  not. `DriversHaveVehicles` does not cover seed drivers without a vehicle; a
  search that finds such a driver's ride fails as a whole (`ride.service.ts:386`).

## Proofs

TLAPS checks every theorem for any constants that satisfy the named assumptions:
`None` is no booking, no pair of a ride and a passenger and no passenger
(`NoneAssumption`; likewise in `RideLocationCache`, where the driver is no
passenger and `Unknown` no location); ids of rows are no passengers' (`RowsAssumption`); `Endpoints`
and `DeviceUsers` are what their names say; `SearchAssumption` and
`FareAssumption` give thresholds and fares their types, and `UnitAssumption` says
that money splits evenly among the passengers of a ride, of whom there are
finitely many. Of the repository's files in `backend/data`, `SeedAssumption` says
that each has rows of people, `FilesAssumption` that they are not empty and their
rows refer to rows of the files, and `DirectoriesAssumption` that a directory
with drivers has vehicles: a set of files without them leaves drivers without
vehicles, as it should. `Rows`, `Slots` and the other sets may otherwise be
infinite, with one reservation: `Accept` of `RideBooking` counts rows and accepts
in flight, and no proof uses that guard.

`RideBooking_proofs`:

| Theorem | States |
|---|---|
| `TypeCorrect` | `Spec => []TypeOK` |
| `AcceptedAreBooked` | `Spec => []AcceptedIsBooked` |
| `FaresAreOfBooked` | `Spec => []FareOfBookedPassengers` |
| `SettledBookingsAreFinal` | `Spec => SettledBookingIsFinal` |
| `UntoldStaysUntold` | `Spec => UntoldForEver` |
| `Implementation` | `Spec => LedgerSpec` |

None of the invariants is inductive alone. `Inv` adds what work in flight knows
about the tables: a callback was started for a row that is there
(`CallbacksOnRows`) and a call that has not started callbacks yet has a slot
without any (`SlotsClear`), which types need; an accept past its insert has its
row (`InsertedCallsBooked`), which the message needs; and every fare on its way
to the table, in a call (`EstimatesOfBooked`) or in a callback
(`CallbackFaresOfBooked`), is computed from passengers who have a row, which the
fares need. All of it rests on `RowsAreKept`: no step removes a row or gives it
to another passenger or ride. The steps are not proved one action at a time for
each part; "origin" lemmas (`AcceptancesOrigin`, `AcceptsOrigin`,
`CallbacksOrigin`, `BookingsOrigin`) first say where a new message, accept,
callback or booking can come from. The refinement shows that each step opens,
deletes, books, tells, or leaves the ledger as it is.

`RideLocationCache_proofs`:

| Theorem | States |
|---|---|
| `TypeCorrect` | `Spec => []TypeOK` |
| `ListedAreBooked` | `Spec => []CachedAreBooked` |
| `OnlyOvertakenReportsRevert` | `Spec => RevertsAreOvertaken` |

`CachedAreBooked` needs that what a call has read stays true: the passengers it
found on the ride, those listed in the entry it got, and a passenger about to be
written are booked (`CallsKnowBooked`). It does because no booking is ever taken
back (`BookingsAreKept`), which is the ledger's promise.

`AccountRegistration_proofs`:

| Theorem | States |
|---|---|
| `TypeCorrect` | `Spec => []TypeOK` |
| `LostAccountsAreForEver` | `Spec => LostAccountIsForEver` |
| `UsersAreKept` | `Spec => []UsersKeepAccounts` |
| `OrphansStay` | `Spec => OrphanedForEver` |

`FailingInv` holds whatever fails: subs that occur anywhere were issued, so an
account that is gone cannot come back under its sub; e-mails are unique. As
long as no call has failed, `Undoable` adds why an undo is harmless: phones of accounts
are unique and a register past `signUp` holds the account of its phone, so that
naming the account by phone names its own (`OwnAccount`), and that account is no
user's and no other register's. `undo` shows the first of these fail as soon as
`signUp` may fail without status 400.

`FareAllocation_proofs`, over `FoldLemmas`:

| Theorem | States |
|---|---|
| `TypeCorrect` | `Spec => []TypeOK` |
| `EstimatesAreOrderFree` | `Spec => []EstimateIsOrderFree` |
| `SharingIsNeverDearer` | `Spec => []SharingIsNotDearer` |
| `AdjustmentsAreBounded` | `Spec => AdjustmentIsBounded` |

Each follows from `RowsTyped`, that rows are passengers. The rest is about the
operators, which sort and sum sequences. `FoldLeft` is defined by a recursive
function that is chosen, so `FoldLemmas` proves that there is one (`FoldExists`)
and what it computes step by step (`FoldValue`); its induction is over sets of
numbers (`SetInduction`, from the well-foundedness of `<`), so that it can be
cited. For the sort, `SortingExists` takes the least that is left again and
again, so that `Ascending` sorts (`AscendingSorts`). A newcomer's fare then depends on
the values of one enumeration of the riders in ascending order, and any two of
those have the same values, by a pigeonhole argument (`EnumerationIsBelow`):
hence the order of the database does not matter. With one rider who shares `a`
of `d` kilometres, the price beyond the base fares is that of `d - a/2`, with two
who share `a <= b` that of `d + a/3 - b/2` kilometres: between 0 and that of `d`
(`ShareWithOne`, `ShareWithTwo`). Adjusted fares are a case analysis over where
three points lie on a line: from where the newcomer boards it is no further to
the old passenger's destination than the way to the trip and the trip
(`DistanceWithin`).

`RideSearch_proofs`:

| Theorem | States |
|---|---|
| `OnRouteIsNearAPoint` | what the route test accepts is near one of the route's points |
| `TypeCorrect` | `Spec => []TypeOK` |
| `OffersWereRightAlways` | `Spec => []OffersWereRight` |
| `RightRidesAreOfferedAlways` | `Spec => []RightRidesAreOffered` |

`FoundedInv` says, for each place a branch may be at, which conditions the search
has by then seen met; the seat is the delicate one: a branch about to count has
seen a free seat if there is one now, for the maximum it carries, because rows
only grow (`RowsStay`). `ConsideredInv` is the dual: a ride that was right
throughout is at some branch, still fits, and carries the maximum in force, so no
step drops it.

`Records_proofs`, over `SortEntities_proofs` and `FoldLemmas`:

| Theorem | States |
|---|---|
| `SortIsRight` | what `sortEntities` returns, for any order of the files |
| `TypeCorrect` | `Spec => []TypeOK` |
| `ReferencesHold` | `Spec => []Referring` |
| `DriversAlwaysHaveVehicles` | `Spec => []DriversHaveVehicles` |
| `RegisteredAreAlwaysKept` | `Spec => RegisteredAreKept` |
| `CleanFlushAlwaysRestoresSeed` | `Spec => []CleanFlushRestoresSeed` |
| `BookingsAlwaysSurvive` | `Spec => BookingsSurvive` |

Each step of the service or the import leaves the rows alone, adds rows whose
references are there (`Grows`) or removes rows nothing refers to (`Shrinks`), and
removes none of the bookings. So references hold (`Referring`), and a booking
keeps its ride and passenger, those their driver and users.

What the import does depends on the order of its statements. `SortIsRight` says
that the sort returns each entity once, after all it depends on, and leaves none
out of a set of files that is closed under dependencies; the invariant of a round
is a trace of the fold. `RecordsInv` has four parts. `RowsInv` is the above;
`ImportInv` says of the statements left to an import that what an entity depends
on is still to come while it removes, and no longer to come while it creates.
`Accompanied` says, as long as no import has failed, that a driver has a vehicle
and a user who signed up a passenger, unless the import has yet to remove the
drivers or the users, or has created the driver and has yet to create the
vehicles: one who registers in between brings a vehicle along. `CleanInv` says
which tables a flush that is alone has emptied or filled by now. The last two
are not inductive without the first two.

Only model-checked: liveness under fairness (`CallsEnd`,
`CompletionReachesRows`, `AcceptedAreHeard`,
`SearchesEnd`), which is out of the prover's reach, and the four violated
properties, where TLC's counterexample is the result. Every other property of a
run is a theorem.

## Plan

Done: all the modules above. Left, in this order:

1. `RideBooking` refining the ride part of `RideSearch`'s environment, so that the
   seat count of a search and the accepts it races are the same rows.
2. `ClientApp`: the session of a phone (request, notification, board, end, cron
   reports), composed with `BookingLedger` over HTTP with timeouts and SNS with
   loss, delay and reordering.

## Not modelled, and why

Login and refresh read a user and sign a token; nothing is stored. File upload is
a call to S3. DTO validation, interceptors, exceptions and configuration map
requests to the services one to one. The app keeps the session of one phone;
what it sends is covered by taking requests in any order, what it shows is not.
Of the search: the city filter (all rides are in the passenger's city), the value
of the ETA, and changes of a user's gender. Of distances: the trigonometry, over
reals, of which a straight road keeps the comparisons, with the ratio of the two
metrics as a parameter; routes that bend and points beside the road are left out. Of fares: floating-point rounding. Of the import: what a CSV field is
cast to (`castData`). And what nothing calls: `createVehicleOfDriver`,
`calculatePolygonRouteDistance`, `getSegmentOnRoute` and the API keys.
