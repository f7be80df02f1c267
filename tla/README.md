# SURP reservations: specification and proofs

SURP is the reservation and dispatch software of intercity bus agencies: a NestJS
API over PostgreSQL (`src/api`), a Next.js client (`src/ui`) and deployment scripts
(`src/ops`). What the program must never get wrong is small and concurrent: one seat
of one bus is not sold to two people who are aboard at the same time, a passenger's
bus does not change under the booking, an edit that breaks something asks first, and
the several copies of every timetable keep agreeing. This directory specifies the code
that decides those things, model-checks it on small tenants with TLC, and proves the
central results with TLAPS for tenants of any size.

Source paths below are relative to `src/api/src` unless they start with `src/`.

## 1. Inventory

Every tenant is isolated by `tenantId`. All state of the API is in PostgreSQL, so
"state" below means tables and the locks taken on them; the client keeps its tokens in
`localStorage`.

| Component (source) | State | Operations | Hard part | Module |
|---|---|---|---|---|
| Reservation writes (`reservations/reservations.service.ts`) | `Reservation` | `create`, `createBatch`, `update`, `moveSeat`, `cancel`, `softDelete`, `assignGroup` | check-then-write, read before lock | `Reservations` |
| Return-leg links (`reservations/return-leg-link.ts`) | `returnOfReservationId`, `roundTripId`, partial unique index | `linkReturnLeg`, stamp of the outbound leg | rows of a bus that is not locked; unique index waits; deadlock | `Reservations` |
| Route segments (`reservations/route-segment.ts`) | none | numbering, overlap, leg coverage, boarding and drop-off sets | half-open intervals | `RouteSegment` |
| Schedule lock (`prisma/schedule-lock.ts`) | one advisory lock per tenant | shared side for writers, exclusive side for edits, `lock_timeout` | queueing, starvation, timeouts | `Reservations` |
| Departure lock, booking departure (`departures/departure-lock.ts`, `booking-departure.ts`, `departure-link.ts`) | `Departure` row locks | name a bus, lock it, check it is bookable | order of locks; stale tabs | `Reservations` |
| Departure sync, generator, nightly job (`departures/departure-sync.ts`, `departure-generator.ts`, `departure-nightly.service.ts`) | `Departure`, time copies on reservations | produce, diff, insert, update, drop, delete, recopy | copies; partial failure between tenants | `Departures` |
| Departure operations (`departures/departure-operations.ts`, `departures.service.ts`) | `Departure`, `RideException` | cancel, restore, create, update, delete a bus | departure and exception must agree; no sync runs | `Departures` |
| Rides (`rides/rides.service.ts`) | `Ride`, day schedules, exceptions | create, update, day times, status, removal, exceptions | edits that reach every departure | `Lines`, `Departures`, `Consent` |
| Lines (`lines/`) | `Line`, `LineStop`, pair keys | create with its way back, update, `createReverse`, remove | three copies of one route | `Lines` |
| Pair and schedule repairs (`rides/ride-schedule-alignment.ts`, `invariants/checks/paired-directions-agree.ts`, `schedule-matches-route.ts`) | none of their own | scan, then one transaction per pair or schedule | scans that go stale; estimated times | `Lines` |
| Prospective write guard (`invariants/prospective-write.ts`, `checks/`) | none (tokens travel with the client) | measure before, write, measure after, commit, ask or repair | what it does not ask; stale confirmations | `Consent`, `Reservations` |
| Confirmation dialog (`src/ui/infrastructure/hooks/useConfirmableUpdate.ts`) | the edit held open and its answers | send, ask, answer, give up | lost replies, several questions | `Consent` |
| Invariant runner (`invariants/invariant-runner.service.ts`, `invariant-run-storage.ts`) | `InvariantRun` | daily claim, baseline, checks, ticket, email, settlement, retention | a crash between any two; replicas | `InvariantRunner` |
| Authentication (`auth/auth.service.ts`, `src/ui/infrastructure/requests/http-client.ts`, `src/ui/stores/authStore.ts`) | `RefreshSession`; tokens in the browser | login, refresh, logout, password reset; refresh once for many refused requests | racing rotations; late refusals | `Sessions` |
| Duplicate merge (`passengers/duplicate-passenger-merge.ts`) | `Passenger`, reservations | repoint reservations | beside live bookings | `Reservations` |
| Passengers, stations, tickets, users, tenants, storefront, reporting, marketing, platform, storage, health | own tables, read models | CRUD, forms, reports | no protocol of their own | see section 7 |

How they interact. A reservation write is one interactive transaction at READ
COMMITTED: it takes the tenant's schedule lock *shared*, finds out which departures it
is about, row-locks those departures in ID order, reads again, checks, writes,
commits. A schedule edit takes the same lock *exclusively*, so it runs when no
reservation write is open; it changes rides or lines, runs the departure sync inside
the same transaction, and the guard compares the invariants before and after. What the
guard refuses, the client asks its operator about and sends again with the answers. The
nightly job extends the stored departures under the same exclusive lock, and the
invariant runner reads everything and tells the agency what is wrong. Links are the one
place where a transaction touches reservations of a bus it has not locked.

Because an exclusive edit excludes everything else of its tenant, the modules divide
along that lock: `Reservations` models what runs *beside* each other statement by
statement and takes the effect of an edit as one step; `Departures`, `Consent` and `Lines`
model what edits *do*, one step per transaction, with the requests, replies, scans and
days that pass between them.

## 2. Modules

| Module | Models | Role |
|---|---|---|
| `RouteSegment` | `route-segment.ts` | pure operators used by `Reservations` |
| `RouteSegment_proof` | | facts about them for every route |
| `Bookings` | the promise of the write path | abstract specification: whole operations, no locks |
| `Reservations` | writes, links, locks, edits with sync and guard, merge | the concurrent core; implements `Bookings` |
| `Reservations_proof` | | inductive invariant; no double sale, cancellations are final |
| `Bookings_proof` | | the refinement of `Bookings`; copies, links, strandings, locks |
| `Departures` | sync, generator, nightly job, departure and exception endpoints | departures, exceptions and timetable in step |
| `Departures_proof` | | copies, links, mismatches, the night, the screen and the missing sync, for any calendar |
| `Consent` | guard, tokens, repair, confirmation dialog | the question an edit asks and its answer |
| `Consent_proof` | | what is written was confirmed, for any pages and passengers |
| `Lines` | lines, pairs, day schedules, repairs | the three copies of a route |
| `Lines_proof` | | the copies, the times and the reordered stations for routes of any length |
| `InvariantRunner` | the daily check and its alert | crash recovery and replicas |
| `InvariantRunner_proof` | | told baseline and one ticket, for any number of replicas |
| `Sessions` | refresh tokens and the browser's tabs | rotation and single flight |
| `Sessions_proof` | | one session per login and no sign-out by expired tokens, for any tabs and requests |
| `MCReservations`, `MCDepartures`, `MCConsent`, `MCLines`, `MCSessions` | | the instances TLC checks |

Definitions whose name is another's with a suffix (`WriteSeatInPlace`, `TokenOfSubjects`,
`RefreshedAlone`, ...) are that definition with a mistake in it. No specification uses
them; `PROJECT.json` names which property must notice each.

### `Reservations`

`departure` and `reservation` are the committed tables. `edit` is the exclusive side of
the schedule lock (its shared side is "some writer is past `schedule`"). For each writer
`pc` is the next statement, `holder` the departure row locks, `written` its uncommitted
rows *and* its row locks on reservations, `mem` the JavaScript variables that survive
from one statement to the next: the request, the departures still to lock, the
reservation as last read, the rows still to write, the settled link, the rows a batch has
inserted. `answer` is what the client was told. `View(w, r)` is the transaction's own
write, otherwise the committed row *at the time of the statement*.

| Action | Code |
|---|---|
| `Submit`, `AcquireScheduleLockShared`, `ScheduleLockTimeout` | `reservationWriteTransaction`, `acquireScheduleLockShared` |
| `NameCreate`, `NameOne`, `NameGroup`, `NameMerge` | the reads that say which departures to lock |
| `LockDeparture`, `DeparturesLocked` | `lockDepartures`: one row at a time, in ID order |
| `CheckItem`, `InsertItem`, `RefuseItem` | `createSingleInTransaction`, per item of a batch |
| `CheckUpdate`, `WriteUpdate` | `update` |
| `CheckMove`, `WriteSeat` | `moveSeat`, two rows for a swap |
| `CheckCancel`, `WriteCancel` | `cancel` (idempotent) and `softDelete` (strict) |
| `CheckMany`, `WriteMany` | `assignGroup`, `mergeDuplicatePassengers`: one `updateMany`, re-evaluated row by row |
| `CheckSlot` | `linkReturnLeg`'s second read, a statement after that of the outbound row: who already claims the return slot |
| `Stamp` | the outbound leg gets the marker |
| `Commit`, `Fail`, `AbortDeadlock` | commit; any outside failure; PostgreSQL's deadlock detector |
| `RequestEdit`, `AcquireScheduleLockExclusive`, `ApplyEdit`, `AbandonEdit` | `scheduleEditTransaction` around a ride, line or departure edit, with sync and guard |

Statements that read only what the transaction's locks freeze are one step; every
statement that another transaction can get in front of is a step of its own. `time`
stands for a bus's service date and its times together. A reservation with no departure
(history from before departures existed) can only be cancelled, as in the code. The
guard's confirmation is a yes or no here; `Consent` has the tokens.

### `Bookings`

The refinement's upper half. Its variables are the two tables alone and its actions whole
operations: `Book`, `Change`, `ChangeSeats`, `Cancel`, `Regroup`, `MergePassengers` and
`EditSchedule`. Each states the outcome, in terms of legs of the route instead of the
code's two-ended overlap test: who was touched travels along the bus's route, in a seat
that exists and that nobody else holds on any leg of the journey (a stop visited twice
counts where it is visited last, and at a terminus everybody may board and alight); a new
booking is on a
bus that runs, at the bus's own time; a cancelled reservation is not regrouped; a bus
with reservations stays stored and its passengers are told its time.
`ImplementsBookings` in `Reservations` says that every behaviour of the concurrent system
is one of these: `Commit` and `ApplyEdit` map to an operation, every other step to a
stutter. The mapping is the identity on the committed tables, which is where the clients
of the API look.

### `Departures`

`timetable` is what each ride and its line say, `departure` and `exception` the stored
rows, `copy` the time the reservations of a departure carry (`None` while nothing
references it), `today` the agency's date, `night` the progress of the nightly pass. Each
endpoint is one action, because each holds the exclusive lock: the departure endpoints
(`Decide`) write one bus and its exception row and run no sync, the exception endpoints
and timetable edits (`EditSchedule`) end in `FullSync`, and `Night` inserts what is
missing, tenant by tenant, with failures. `Synced` is `diffDepartures` as a function of
the tables. Rows stored before decisions moved to departures (`Legacy`) are among the
initial states.

### `Consent`

One ride with one bus on one date. `ride`, `bus`, `booking` are the tables, `tab` each
operator's page: the edit, the answers by invariant, the reply or the question on the
screen. `Handle` is `guardProspectiveWrite` as a function from the tables and the answers
to a write, a refusal or a repaired write, in the order of the code; `Deliver`, `Answer`
and `Lose` are the dialog. A token is the invariant and the set of violations it digests.
`Book` and `Cancel` are passengers between a question and its answer; `StaleTab` are pages
from before tokens, which can only say yes.

### `Lines`

`line` and `ride` are the rows with their stops and day schedules; `call` what each
`createReverse` has read so far (it holds no lock between its statements); `repair` what a
scan found and has still to visit. Line and ride edits are one step each, with everything
they do to the paired line and to the schedules of both; `SyncPair` and `RealignSchedule`
are one transaction each and re-read what they rewrite. Times are minutes of a short
day, so that midnight is reached.

### `InvariantRunner`

`rows` are the stored runs in order, `claimed` the day's unique row, `worker` each
replica's job with its statement, baseline, report and error; `told` and `tickets` record
what the tenant heard. Every statement of `runTenant` is a step, `Crash` may come between
any two, checks and deliveries may fail, and days pass with retention. `manual` are the
runs by hand, whose start, checks and result are steps beside the job's and may fail. Rows
carry their age, so that days go on for ever; a day ends when what was begun on it is over.

### `Sessions`

`user` and `session` are the rows, `valid` the access tokens that have not expired,
`storage` the `localStorage` that all tabs share, `tab`, `request` and `refresh` the pages,
the requests in flight and the refreshes they began. The API's `refresh` is three steps:
the read before the transaction (`ReadSession`), the conditional `updateMany`, which waits
for a row another transaction has updated (`RevokeOld`), and the insert with the commit
(`Rotate`). The browser's interceptor is `Refused` (wait for the refresh in flight, begin
one, or sign out), `Refreshed` and `RefreshFailed`. `Lose` loses a request or an answer,
before or after the commit, or lets the page give up on a refresh that the API still
commits; `Reload` loses the page. An access and a refresh token issued
together share a name, and a name nobody holds any more is reissued, which keeps the
instance finite without bounding the refreshes.

## 3. Model-checking runs

| Run | Question | Result |
|---|---|---|
| `Seats` | two operators book, update, move, swap and cancel on the two seats of one bus while an edit turns its route around | no writer double-sells, a cancellation is final, every commit is an operation of `Bookings` |
| `Timetable` | bookings by ID, by old tab and in batches over two buses, against every kind of edit, confirmed and not, with a failed transaction | time copies follow, no lock cycle without a link or a merge, nobody is stranded without a confirmation, and `Bookings` |
| `RoundTrips` | round trips sold in a batch, linked later, relinked by hand, with a retiming, a group and a merge | one live return leg, not earlier than its outbound leg, and `Bookings` |
| `Liveness` | links that cross and deadlock, moves, groups, a waiting edit | every request ends; the edit gets its lock |
| `Departures` | every departure and exception endpoint, timetable edits, the night with failures, days passing | departures, exceptions, screens and copies keep agreeing; no tenant is skipped |
| `Consent` | two operators, one with a stale page, passengers, lost replies | what is written is what was confirmed, a repaired passenger has a seat, the questions end |
| `Lines` | lines and rides edited, paired, removed, a reverse made beside the edits, two repairs from stale scans | the copies of a route agree, entered times stay, estimates are in order, `findReorderedStationIds` is minimal |
| `InvariantRunner` | two replicas, crashes, failed checks and deliveries, a run by hand | the baseline was told, one ticket a day, a standing violation is told |
| `Sessions` | two tabs, requests refused together and late, racing refreshes, reloads, revocations | one session per login, nobody signed out by an expired token, every request settles |
| `RetainedLink` | is a linked pair still one journey after updates? | **no**: the outbound leg is updated freely |
| `CancelledOutbound` | is a return leg ever attached to a cancelled reservation? | **yes**: its status is read without its bus's lock |
| `ReorderedStops` | does the guard ask about double-sold seats? | **no**: a line edit that swaps stops double-sells |

The last three each refute what a comment of the code says; the finding in `PROJECT.json`
quotes it. They do not contradict the others: `Seats` attributes double sales to edits
only, and the links of `RoundTrips` are asked for their number and order.

### Bounds, and why they are enough

- `Reservations`: two writers with one or two transactions each (`MaxTx`), at most seven
  reservation IDs, three departures, one or two edits, a failure. A double sale needs two
  transactions on one bus and a third for a swap that frees a seat; an overlap needs
  three stations; a cycle of two writers needs two buses; a stale read needs one
  write between two statements of one transaction. The requests of each scenario are
  chosen so that they meet on the same rows. The theorems remove the bounds for every
  safety property of these runs.
- `Departures`: a ride, a tenant the night meets before or after it, a calendar of
  three days with a window of two, two times, two capacities, two extras, two
  exceptions. The operated date is first beyond the window, then its last day, then today.
- `Consent`: two pages with two edits in all, three bookings, one change by a passenger
  and one lost message while a question is open. Three initial bookings: linked, one
  found by its time, and a double-sold pair, so that a repair has too few seats.
- `Lines`: a pair of lines over four stations with room for two more, one or two rides,
  two edits, one reverse, and four stored worlds, three of which earlier code left out
  of step. Two edits are enough to make a scan stale and to take a pair apart and join it.
- `InvariantRunner`: two replicas, two violations, retention of a day, two failures, one run by hand; days
  are unbounded.
- `Sessions`: three request slots in two tabs, two in flight at once, four tokens, one
  login, one expiry, one trouble. One expiry refuses two requests, together or one after
  the other's refresh is over; refreshes are not bounded.

Symmetry is used only where no operator of the module chooses among the values
permuted, and in no run that checks liveness. Deadlock checking is off where the bounds
let the system stop (`CHECK_DEADLOCK FALSE`); that nobody is *stuck* is what
`NoLockCycle` (of transactions that lock what they write), `EveryRequestAnswered`, `WaitingEditRuns`, `EditIsSettled`,
`StandingViolationIsTold` and `EveryRequestSettles` say.

### Fairness

- `Reservations!FairSpec`: weak fairness of every statement of a writer (the database and
  the event loop run what can run), of the deadlock abort (`deadlock_timeout`), of the
  schedule-lock timeout (`lock_timeout` is set for every transaction), of the exclusive
  acquisition once it is possible, and of the edit that holds the lock committing or
  rolling back (the interactive transaction has a timeout). Nothing is assumed of
  clients. A waiting edit is not starved because new writers queue behind it, which is in
  the guard of `AcquireScheduleLockShared`.
- `Consent!FairSpec`: the server handles what reaches it, a reply that is not lost
  arrives, and the operator of a page that knows tokens answers its questions. Nothing is
  assumed of a stale page.
- `InvariantRunner!FairSpec`: days pass, the cron fires on every replica, a job or a run
  by hand that can go on does. A crash is an action of its own and bounded.
- `Sessions!FairSpec`: the API answers and a page that is there hears it. Nobody has to
  send, reload, sign in or out, and no token has to expire.
- `Departures` and `Lines` check safety only.

## 4. Proofs

Assumptions: the named `ASSUME`s of the modules. Constants are typed and `None`, `Keep` and
`Saved` are not data. About what is stored at the start they say what the schema or every
earlier writer guarantees:

- `ForeignKeyAssumption`: a reservation's departure is stored
  (`src/api/prisma/schema.prisma:489`);
- `CopiesAssumption`: a reservation carries the time of its bus;
- `ReturnSlotAssumption`: no outbound leg has two live return legs (the partial unique
  index of the migration `20260921130000_reservation_return_leg`);
- `LegacyAssumption` (`Departures`): an extra that names an `ADDITIONAL` has its ride and
  date, and one that names none is cancelled or dropped;
- `StoredAssumption` (`Lines`): a stored line has a valid route, which every writer checks,
  a ride has a line and a day schedule has a station once. Nothing is assumed of the
  agreement of a pair or of a schedule with its line.

`WriterAssumption` and `TabAssumption` say that the open transactions and a browser's tabs
are finitely many, `ConsentAssumption` that one bus has finitely many reservations and its
capacities a largest one, and `RefusalAssumption` that no question or answer is `None`.
Nothing is assumed about how many writers, departures, reservations, seats, stations, requests, tenants, days, replicas,
tabs, tokens, lines or stops there are, nor about how long a route is.

`RouteSegment_proof`

- `StationOrderType`: every station of a route gets a natural number.
- `OverlapSymmetric`, `OverlapIsASharedLeg`: `segmentsOverlap` on the two ends is the
  same as sharing a leg, so the booking check and the per-leg occupancy agree.

`Reservations_proof`

- `TypeCorrect`: `Spec => []TypeOK`.
- `NoDoubleSale`: `Spec => NoWriterDoubleSells`. Only a schedule edit can leave two live
  reservations in one seat while both are aboard.
- `CancellationHolds`: `Spec => CancelledIsFinal`.

The argument. None of these is inductive alone, because a check and the writes that rely
on it are different steps. The invariant `Inv` is local: for each writer, `LocalInv(w)`
says what `w`'s own locks buy it.

- `Planned(w, r)` is reservation `r` as `w` will leave it: the row it sees, or, if `r` is
  still in its to-do set, the row it is going to write. A plan exists from the check on,
  so the facts about it bridge the steps in between.
- `OnHeldBuses(w)`: a plan changes the room a reservation takes up (`SameRoom`: bus,
  seat, stations, status) only on a stored departure whose lock `w` holds, only if the
  reservation is not cancelled, and never changes its bus.
- `NoNewClash(w)`: two plans clash only if the committed rows already clash.
- `Shape`, `LinkExists`, `TodoExists`, `ItsBus`, `EveryBus` say what `mem` holds in each
  phase and which locks are had; `RowsExclusive`, `Frozen`, `Referential` relate writers,
  edits and tables.

A step of another writer keeps `LocalInv(w)`: until it commits, `w` sees nothing of it
(`Bystander`), and its commit changes room only on *its* buses, where `w` plans nothing
(`BystanderCommit`). An edit keeps it because no transaction is open (`BystanderEdit`).
`w`'s own steps keep it action by action; the interesting ones are the checks that accept
(`NewPlans`, which needs `FreeNoClash`, which needs the symmetry of overlap). At the
commit nothing is left to do, so the plans *are* the new table, and `NoNewClash` is the
theorem.

`Sessions_proof`

- `TypeCorrect`: `Spec => []TypeOK`, whose last conjunct says that a request waits only
  for a refresh that is still heard.
- `RotationIsSingle`: `Spec => []OneSessionPerLogin`.
- `StaysSignedInAlways`: `Spec => StaysSignedIn`, for any number of requests, tokens and
  expiries in the one open tab.

The argument. The read of the session, the conditional update and the insert are three
steps, so that one session per login is not inductive. `RotatesAlone` carries it from the
update to the insert: the only usable session of a rotating login is the token it
replaces, and no two transactions rotate one login. The second half is what the row lock
and the "how many rows" question buy: whoever else rotates that login would hold the same
token, and the update waits for it. `LoginsApart` keeps a new login from meeting the
sessions of an old one, and `Awaited` and `HasToken` type what is in flight. Every other
step only ends sessions, abandons transactions or gives up logins (`Bystander`).

`StaysSignedIn` needs what holds while one tab is open and nothing comes from outside
(`Smooth`). There is one refresh at a time and its page hears it (`OneRefresh`): what the
tab waits for is then all that is in flight (`NothingFlies`, on top of `ClosedIdle`), so
that a token is never presented twice. The stored token can be used, or its successor is on
the way (`TokensGood`), and a request that is sent again is not refused again
(`RetriedGood`), which closes both ways to a sign-out. `NextGood` goes through the steps.

`Bookings_proof`

- `TransactionsAreOperations`: `Spec => ImplementsBookings`, the refinement.
- `StrandingConfirmed`: `Spec => StrandingWasConfirmed`.
- `CopiesAlwaysTell`: `Spec => []CopiesFollowBus`.
- `ReturnSlotHeld`: `Spec => []OneLiveReturnLeg`.
- `ReturnsInOrder`: `Spec => ReturnIsNotEarlier`.
- `LocksInOrder`: `Spec => []NoLockCycle`.
- `SoldOnce`: `Spec /\ SeatSoldOnce /\ [][RoutesKept]_vars => []SeatSoldOnce`. With no seat
  double-sold at the start and no edit that changes a stored route, none ever is;
  `ReorderedStops` shows that the second hypothesis cannot be dropped.

The argument. `LocalInv` says where a transaction changes room; to know which *operation*
its commit is, one must know what it has written so far. `Booked(w)` adds that:

- `Ledger(w)` compares each row `w` has written with the committed one, by kind of request
  (`Entry`): an update changes only its fields, the stamp only the marker, a swap is the
  swap that was agreed under the lock (`MoveAgreed`), an assignment stays on one bus
  (`GroupAgreed`). A row that is written is row-locked, so that the committed side stays.
- `SeatsPlanned(w)`: everybody `w` places (`Placed`) has, as planned, a seat of a bus `w`
  holds that nobody else has on an overlapping segment, on a route that carries the
  journey. `ItemChecked(w)` keeps the bus bookable between an item's check and its insert.
- `LinkTimed(w)`: a link that is settled or just written is to a journey that is not later.

Another transaction's commit keeps these (`BystanderBookedCommit`) because it changes room
only on buses it holds itself (`CommitPlans`) and never a row that is locked. At the commit
the ledger and the plans together are one action of `Bookings`: one lemma per kind of
request (`CreateBooks`, `UpdateChanges`, `MoveChangesSeats`, `CancelCancels`,
`GroupRegroups`, `MergeMerges`) and one for the edit (`EditIsEdit`). `PlacedIsSeated` and
`ApartShareNoLeg` turn the code's two-ended overlap test into `Bookings`' legs.

`CopiesTold` extends `CopiesFollowBus` to the uncommitted rows; an edit recopies when no
transaction is open. `SlotsInv` extends `OneLiveReturnLeg` to what each transaction sees
and to pairs of transactions (`ClaimedApart`): the wait on the unique index is exactly what
keeps the last one. `StrandingConfirmed` needs both halves: a commit strands nobody whom it
places (`CommitStrandsNobody`), and an edit that strands somebody raises a fault the guard
measures (`FaultsShow`, `EditStrandsNobody`).

`LockOrder` is the invariant behind `LocksInOrder`: the departures held are below those
wanted, and an assignment's rows are on a bus it holds. A transaction that waits for a row
then waits for a row of its own bus, and so does whoever wrote it, so that a circle is of
transactions in their lock phase (`CircleOfBuses`); the buses wanted around it only get
larger, and the set is finite (`NoCircle`). A stamp and a merge write rows of buses they do
not hold: a circle through one of them exists (section 6), and the theorem exempts it.

`Departures_proof`

- `TypeCorrect`, `CopiesTellAlways` (`[]CopiesTellTheTime`), `NightReachesAlways`
  (`[]NightReachesEveryTenant`), `ScreenShowsAlways` (`[]ScreenShowsTheBuses`), and
  `LinksResolve`: the link of an extra is to a stored `ADDITIONAL` of its ride and date.
- `EndpointsStayInStep`: `Spec => StaysInStep`.
- `NoneNewlyDisagree`: `Spec => NoNewMismatch`, if no two extras stored before share one
  `ADDITIONAL`. The hypothesis is needed (section 6).

The argument. None is inductive alone: the screen is worked out from exceptions, the bus
from its own row, and what keeps them equal are the links and the marks of every
endpoint. `RowsOK` says what each row owes the exceptions (`LinksAgree`, `SkipsApplied`)
and the copies; `Follows` what the rows of the window owe the timetable. A sync restores
`Follows` from any timetable as long as `RowsOK` holds (`SyncFollows`, `SyncRowsOK`) and
leaves nothing missing (`SyncCompletes`); an endpoint writes the bus and its record
together (`MarkKeeps`, `MarkSyncs`). `NightServes` carries completeness from tenant to
tenant of a pass, edits in between included. The tables an earlier version may have
stored (`Legacy`) satisfy `RowsOK` after one `Following`, which is how `Init` states them.

Every exception and timetable endpoint is one shape, `EditThenSync`: an edit of one
tenant's rows and records that leaves `RowsOK`, then the full sync; what is proved of the
shape holds of each. For `StaysInStep`, `InStep` says that each row is what the sync
would make of it. `RowFixed` says the same field by field (`FixedIsShaped`), and that
can be followed through a decision on one bus (`OneBusFixed`). A sync is idempotent row
by row (`ShapedFixed`), what it or the night inserts is fixed at once (`InsertedFixed`), and
what a booking adds only makes the sync keep more. For `NoNewMismatch`, `MismatchesAre`
shows that while the rows are in order only three of the reported kinds can occur (an
`ADDITIONAL` without a bus, a bus at another time than its `ADDITIONAL`, an extra that
runs without one), and `NothingWorse` that no step adds to any of them. An `ADDITIONAL` has
at most one bus (`OneBusEach`), which is what makes a move write the right record.

`Lines_proof`

- `TypeCorrect`, `RoutesVisitOnce` (`[]RouteVisitsOnce`), `SchedulesStayMirrored`
  (`StaysMirrored`), `EnteredTimesKept` (`KnownTimesKept`), `RidesStayListed`
  (`StaysOnTimetable`), `DirectionsChangeTogether` (`StopsChangeTogether`), `RepairsOnlyAdd`
  (`RepairOnlyAdds`), `ReorderedLeast` (`[]ReorderedIsLeast`).

The argument. The invariant is `TypeOK` and `RouteVisitsOnce` with what a request or a
repair still holds: the input of a reverse in flight is a valid row (`CallInput`), a ride's
line is stored (`RidesRun`), a schedule has a station once (`SchedulesOnce`). A repair needs
nothing, because it reads again what it rewrites. Leaving stops out (`Keep`) is a recursive
function; its equations are solved once (`KeptExists`, `KeepAppend`), and induction is from
a least counterexample (`NatAll`, `SeqAll`), which needs no operator parameter. On these
rest the facts about what the writers compute: what is kept, reversed and mirrored and in
which order (`KeepReverse`, `MirroredShape`, `MergedShape`), and that a stop list written
from any of them repeats nothing (`WithStops`). Two directions agree exactly when their
stops are the reverse of each other but for the termini (`Facing`); mirroring and repair
both end so (`MirroredFaces`, `SyncedFaces`), and the pair key leaves one other direction
to write (`PairOther`). For the times, an estimate goes on from the last known time by a
share of a gap of less than a day, so that it stays before the next (`EstimatedShape`,
`BetweenKnown`). `findReorderedStationIds` fills a table and walks through it: by
induction on the cells left, the walk keeps a common subsequence as long as the table says
and none is longer (`WalkIsLongest`), hence as few stations as possible are reported
(`LeastMoved`).

`Consent_proof`

- `TypeCorrect`, `NeverAskedTwiceAlways` (`[]NeverAskedTwice`), `ConfirmedIsWrittenAlways`
  (`ConfirmedIsWritten`), `RepairedIsSeatedAlways` (`RepairedIsSeated`).

The argument. The invariant is about pages: every answer a page holds carries the token
of what that page showed (`AnswersOK`), a question's token is of the violations it shows
(`QuestionOK`), and a question that repeats an answered invariant says why (`SaysWhy`). The
tables are unconstrained, because passengers come and go. The theorems about the commit
are then about one step: a write passes only if every invariant is settled, a settled
invariant adds exactly the violations its token digests (`SettledIsAgreed`), and harm is
among those violations (`AddedWhenMoved`, `AddedWhenStranded`, `AddedWhenUnseated`,
`AddedWhenDeepened`).

`InvariantRunner_proof`

- `TypeCorrect`, `BaselineToldAlways` (`[]BaselineWasTold`), `OneTicketAlways`
  (`[]OneTicketADay`), and `OwnRowAlways`: a job always settles the row it stored.

The argument. `DayHeldOnce` gives the day to one replica, `TicketFollowsClaim` bounds the
day's tickets by that replica's phase. `JobInv` says what a job may rely on between its
statements: what it compares with stays told, its report is told once the ticket is
open, and its row is still there, pending. Retention removes a prefix of the runs and a run
by hand appends to them (`KeepsAllAfter`), so that the baseline and the day's run are found
again (`RunsStay`).

What stays with TLC, and why.

- Liveness (`EveryRequestAnswered`, `WaitingEditRuns`, `EditIsSettled`,
  `StandingViolationIsTold`, `EveryRequestSettles`): out of the prover's reach. Every
  other property of the passing runs is a theorem.
- `LinkedPairAgrees`, `AttachedToLive` and `SeatSoldOnce` without its hypothesis are false
  (section 5).

## 5. Findings

Three runs end in a violation (`PROJECT.json`, "findings"):

1. `RetainedLink`. `update` revalidates a link from the return leg only
   (`reservations.service.ts:410`), so a change of the outbound leg's passenger or stations
   leaves a live pair that is no longer one passenger's journey there and back.
2. `CancelledOutbound`. `linkReturnLeg` reads the outbound leg without its departure's
   lock (`return-leg-link.ts:92`): cancelled between the check and the commit, it still
   gets its return leg.
3. `ReorderedStops`. A line edit does not ask `reservation.seatUnique`
   (`invariants/prospective-write.ts:35`): swapping two stops makes disjoint journeys of
   one seat overlap, and nothing is asked.

## 6. Observations

What was met while modelling and is in the models as the code has it, without a run that
calls it wrong:

- Two batches that link two outbound legs in opposite orders deadlock on the stamps
  (`return-leg-link.ts:139`); PostgreSQL aborts one, and `Liveness` shows that both end.
  Two passenger merges at once can do the same.
- Capacity is counted over the whole segment of a booking
  (`reservations.service.ts:824`), so a bus can refuse a passenger for whom every leg has
  a free seat.
- `assignGroup` can give reservations of different departures one group over several
  calls (`reservations.service.ts:347`), and unlinking a return leg clears its own marker
  even when it is itself an outbound leg (`reservations.service.ts:460`).
- Cancelling an extra bus that the timetable had dropped and that has no `ADDITIONAL`
  leaves it out of step until the next sync; `StaysInStep` exempts it by name.
- Two extras stored before decisions moved to departures can share one `ADDITIONAL`
  (`departures/departure-operations.ts:356`); moving either rewrites it for both
  (`departures/departure-operations.ts:597`) and leaves the other bus at another time than
  its `ADDITIONAL` says. No endpoint makes such a pair (`OneBusEach` is kept), and the run
  starts with none; with such a pair in `Legacy` TLC refutes `NoNewMismatch` in one move,
  which is why `NoneNewlyDisagree` excludes it by name.
- When one direction of a pair carries as a stop what is the other's terminus, the
  repair rewrites the same rows each time and the pair is reported for ever: the stop
  can never be mirrored. `RouteVisitsOnce` shows that at least it never is.
- `createReverse` of a `RETURN` line whose outbound line has since got another terminus
  finds no line on the outbound route and calls `create`, which makes a way back of its
  own: the line it started from is stored twice under one pair key
  (`lines/lines.service.ts:487`). `createReverse` of a `BOTH` line without a pair key gives
  only the new line one. An update of a terminus alone does not mirror the stops again.
- `ride-schedule-alignment.ts:272` and the advice of `schedule-matches-route.ts` say that
  new stations get no time; the code estimates one (`buildAlignedStationTimes`).
- Tabs share the tokens and each refreshes for itself: the one that loses the race for a
  rotation signs both out (`StaysSignedIn` is about one tab). A page that is reloaded
  while its refresh is in flight never stores the new tokens and is signed out by its
  next refusal; so is one whose answer was lost. An operator who signs out during a
  refresh has the tokens stored again by its answer. Signing out does not call the
  API's `logout`.

## 7. Not modelled, and why

- *Passengers, stations*: CRUD with a guarded deactivation. *Tickets*: the attachment
  upload is two independent requests checked against a unique storage key, and a status
  update reads before it writes; neither has a protocol. *Users* beyond who may sign in,
  *tenants, platform administration, leads*: CRUD.
- *Storefront, reporting, public pages, marketing*: read models and forms. *Storage,
  health, configuration*: I/O and wiring.
- *Backfills and maintenance scripts, sandbox, release, backup and staging scripts*: run
  once or by hand, under the same locks as the writers above or with no traffic.
- *The client* apart from its confirmation dialog and its session handling: pages,
  components and a generated API client, more than half of the repository's lines. They
  display and send; the API trusts nothing they send. This is why the share of mapped
  lines is small although the API's write paths are all modelled.
- *PostgreSQL and Prisma* are external: row locks, advisory locks, unique-index waits,
  READ COMMITTED, deadlock abort and transaction timeouts are modelled as the code uses
  them. Wording, logging, audit rows, prices, names and notes are left out.

## 8. What could come next

1. Liveness by hand: the variant by which a request's statements and the aborts of
   deadlocks run out, as lemmas about steps that TLC's liveness runs could then lean on.
2. The passing of a ticket's attachment and the tenant's own administration, should they
   get a protocol of their own.
