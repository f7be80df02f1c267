------------------------------ MODULE Departures ------------------------------
(***************************************************************************)
(* Stored departures, the exception rows that mirror the operators'        *)
(* decisions on them, and the timetable both follow.                       *)
(*                                                                         *)
(* A bus is stored as a Departure row: SCHEDULE when the timetable makes   *)
(* it, EXTRA when an operator added it.  A decision (a cancellation, an    *)
(* extra bus) is written on the departure, and a RideException row still   *)
(* repeats it for the screens that read the exceptions.  Three writers     *)
(* touch these rows: the departure endpoints, which never run the sync;    *)
(* the timetable and exception endpoints, whose transaction ends in a full *)
(* sync; and the nightly job, which only inserts.  Each holds its tenant's *)
(* exclusive schedule lock for its whole transaction, so each is one step. *)
(*                                                                         *)
(* A time stands for the pair of departure and arrival times; a path for   *)
(* the line and its stops.                                                 *)
(***************************************************************************)
EXTENDS Integers, FiniteSets

CONSTANTS
    Tenant,
    Ride,
    TenantOf,       \* the tenant of each ride
    Time,           \* pairs of departure and arrival times
    Capacity,
    Path,           \* a line and its stops
    ExtraId,        \* IDs an extra bus may get
    ExceptionId,    \* IDs an exception row may get
    None,
    LastDay,        \* bound: the last day of the calendar
    Horizon,        \* DEPARTURE_HORIZON_DAYS
    Timetables,     \* the timetables each ride may be given
    OperatedRide,   \* bound: the rides operators and passengers act on
    OperatedDate,   \* bound: the dates they act for
    Legacy          \* extras and exceptions stored before decisions moved
                    \* to departures

ASSUME CalendarAssumption == LastDay \in Nat /\ LastDay >= 1 /\ Horizon \in Nat

Date == 1 .. LastDay

ASSUME RideAssumption == /\ TenantOf \in [Ride -> Tenant]
                         /\ OperatedRide \subseteq Ride /\ OperatedDate \subseteq Date

VARIABLES
    timetable,      \* what each ride and its line say
    departure,      \* the stored departures
    exception,      \* the stored RideException rows
    copy,           \* the time the reservations of a departure carry, None
                    \* while no reservation references it
    today,          \* the agency's date
    night           \* tonight's pass: its tenants to come, those it failed on

vars == <<timetable, departure, exception, copy, today, night>>

-----------------------------------------------------------------------------
(* Rows *)

\* A timetable departure is known by its ride and date (the unique index).
ScheduleId == Ride \X Date
DepartureId == ScheduleId \cup ExtraId

TimetableRow ==
    [active: BOOLEAN,                 \* the ride's status is ACTIVE
     lineActive: BOOLEAN,
     base: [Date -> Time \cup {None}],\* baseInstanceForDate
     capacity: Capacity,
     path: Path]

Departure ==
    [ride: Ride, date: Date, time: Time, capacity: Capacity, path: Path,
     dropped: BOOLEAN, cancelled: BOOLEAN,
     exception: ExceptionId \cup {None}]

Exception ==
    [ride: Ride, date: Date, type: {"SKIP", "ADDITIONAL"}, time: Time \cup {None}]

ASSUME RowsAssumption ==
    /\ None \notin Departure \cup Exception \cup Time \cup ExceptionId
    /\ ScheduleId \cap ExtraId = {}
    /\ Timetables \in [Ride -> SUBSET TimetableRow]

TypeOK ==
    /\ timetable \in [Ride -> TimetableRow]
    /\ departure \in [DepartureId -> Departure \cup {None}]
    /\ exception \in [ExceptionId -> Exception \cup {None}]
    /\ copy \in [DepartureId -> Time \cup {None}]
    /\ today \in Date
    /\ night \in [left: SUBSET Tenant, failed: SUBSET Tenant, begun: BOOLEAN]

\* From the agency's date to the end of the horizon, both included.
DepartureWindow == {d \in Date : today <= d /\ d <= today + Horizon}

\* The departures a sync of tenant t reads and may change.
InReach(rows, t, b) ==
    /\ rows[b] # None
    /\ TenantOf[rows[b].ride] = t
    /\ rows[b].date \in DepartureWindow

Skips(records, r, d) ==
    {e \in ExceptionId : /\ records[e] # None
                         /\ records[e].type = "SKIP"
                         /\ records[e].ride = r /\ records[e].date = d}

\* The extras that link to an exception row.
LinkedTo(rows, e) ==
    {x \in ExtraId : rows[x] # None /\ rows[x].exception = e}

\* Deleting exceptions E: their rows go, and the foreign key clears the link
\* of every departure that named one (SetNull).
Without(records, E) == [e \in ExceptionId |-> IF e \in E THEN None ELSE records[e]]

Unlinked(rows, E) ==
    [b \in DepartureId |->
        IF rows[b] # None /\ rows[b].exception \in E
        THEN [rows[b] EXCEPT !.exception = None] ELSE rows[b]]

Free(S, table) == {i \in S : table[i] = None}

-----------------------------------------------------------------------------
(* The generator and the sync *)

RideRuns(tt, r) == tt[r].active /\ tt[r].lineActive

\* Mutant of Produces: the days of the week are not asked.
ProducesEveryDay(tt, r, d) == RideRuns(tt, r)

\* The dates on which the timetable produces a SCHEDULE departure of ride r.
Produces(tt, r, d) == RideRuns(tt, r) /\ tt[r].base[d] # None

Produced(tt, r, d) ==
    [ride |-> r, date |-> d, time |-> tt[r].base[d],
     capacity |-> tt[r].capacity, path |-> tt[r].path,
     dropped |-> FALSE, cancelled |-> FALSE, exception |-> None]

\* A new extra bus: on a ride that does not run it starts out dropped.
NewExtra(tt, r, d, t, c, e) ==
    [ride |-> r, date |-> d, time |-> t, capacity |-> c, path |-> tt[r].path,
     dropped |-> ~RideRuns(tt, r), cancelled |-> FALSE, exception |-> e]

\* An extra is dropped while its ride does not run, and for good once it is
\* an orphan the timetable dropped.
ExtraDropped(tt, row) ==
    \/ ~RideRuns(tt, row.ride)
    \/ row.exception = None /\ ~row.cancelled /\ row.dropped

\* An extra's path and dropped state follow its ride.
Following(tt, row) ==
    [row EXCEPT !.path = tt[row.ride].path, !.dropped = ExtraDropped(tt, row)]

\* What the sync keeps when the timetable stops producing it.
Kept(row, reference) == reference # None \/ row.cancelled

\* The row an existing departure of the tenant becomes: matched departures
\* follow the timetable and come back, extras follow their ride, and one no
\* longer produced is dropped or, carrying nothing, deleted.
Shaped(tt, rows, references, b) ==
    LET row == rows[b]
    IN  IF b \in ExtraId
        THEN Following(tt, row)
        ELSE IF Produces(tt, row.ride, row.date)
        THEN [Produced(tt, row.ride, row.date) EXCEPT !.cancelled = row.cancelled,
                                                      !.exception = row.exception]
        ELSE IF Kept(row, references[b]) THEN [row EXCEPT !.dropped = TRUE]
        ELSE None

\* The timetable departures of tenant t that are not stored.
MissingScheduled(tt, rows, t) ==
    {b \in ScheduleId : /\ TenantOf[b[1]] = t
                        /\ b[2] \in DepartureWindow
                        /\ Produces(tt, b[1], b[2])
                        /\ rows[b] = None}

\* The ADDITIONAL rows of tenant t with no extra bus stored.  One without
\* both times never produced a bus.
MissingExtras(rows, records, t) ==
    {e \in ExceptionId : /\ records[e] # None
                         /\ records[e].type = "ADDITIONAL"
                         /\ records[e].time # None
                         /\ TenantOf[records[e].ride] = t
                         /\ records[e].date \in DepartureWindow
                         /\ ~\E x \in LinkedTo(rows, e) : InReach(rows, t, x)}

\* The IDs of the extras a sync inserts: one of its own for each.
Placements(rows, missing) ==
    {f \in [missing -> Free(ExtraId, rows)] : \A e, g \in missing : f[e] = f[g] => e = g}

\* Mutant of Inserted: the date's SKIP is not applied.
InsertedUnskipped(tt, rows, records, t, placed) ==
    [b \in DepartureId |->
        IF b \in MissingScheduled(tt, rows, t) THEN Produced(tt, b[1], b[2])
        ELSE IF \E e \in DOMAIN placed : placed[e] = b
        THEN LET e == CHOOSE e \in DOMAIN placed : placed[e] = b
                 a == records[e]
             IN  NewExtra(tt, a.ride, a.date, a.time, tt[a.ride].capacity, e)
        ELSE rows[b]]

\* The rows after the creates of a sync.  A created timetable departure
\* carries its date's SKIP.
Inserted(tt, rows, records, t, placed) ==
    [b \in DepartureId |->
        IF b \in MissingScheduled(tt, rows, t)
        THEN [Produced(tt, b[1], b[2]) EXCEPT !.cancelled = Skips(records, b[1], b[2]) # {}]
        ELSE IF \E e \in DOMAIN placed : placed[e] = b
        THEN LET e == CHOOSE e \in DOMAIN placed : placed[e] = b
                 a == records[e]
             IN  NewExtra(tt, a.ride, a.date, a.time, tt[a.ride].capacity, e)
        ELSE rows[b]]

\* Creates, then updates, drops and deletes, all planned from the same read.
Synced(tt, rows, records, references, t, placed) ==
    [b \in DepartureId |->
        IF InReach(rows, t, b) THEN Shaped(tt, rows, references, b)
        ELSE Inserted(tt, rows, records, t, placed)[b]]

\* Mutant of Recopied: only a timetable departure takes its copies along.
RecopiedForTimetable(references, rows, next) ==
    [b \in DepartureId |->
        IF b \in ScheduleId /\ references[b] # None /\ rows[b] # None /\ next[b] # None
        THEN next[b].time ELSE references[b]]

\* The time copies follow every referenced departure that moved.
Recopied(references, rows, next) ==
    [b \in DepartureId |->
        IF references[b] # None /\ rows[b] # None /\ next[b] # None
           /\ next[b].time # rows[b].time
        THEN next[b].time ELSE references[b]]

\* The end of a schedule edit of tenant t that left rows and records behind.
FullSync(tt, rows, records, t) ==
    \E placed \in Placements(rows, MissingExtras(rows, records, t)) :
        LET next == Synced(tt, rows, records, copy, t, placed)
        IN  /\ timetable' = tt
            /\ departure' = next
            /\ exception' = records
            /\ copy' = Recopied(copy, rows, next)

-----------------------------------------------------------------------------
(* The departure endpoints: no sync *)

Decided == UNCHANGED <<timetable, today, night>>

\* assertDecisionDate, within the bounds.
Decidable(r, d) == r \in OperatedRide /\ d \in OperatedDate /\ d \in DepartureWindow

\* What prepare checks under the lock.
Operated(b) == departure[b] # None /\ Decidable(departure[b].ride, departure[b].date)

\* A SKIP already there stays the record of the cancellation.
SkipRecorded(r, d) ==
    IF Skips(exception, r, d) # {} THEN exception' = exception
    ELSE \E e \in Free(ExceptionId, exception) :
            exception' = [exception EXCEPT ![e] =
                            [ride |-> r, date |-> d, type |-> "SKIP", time |-> None]]

\* Mutant of Released: the ADDITIONAL stays behind.
ReleasedNever(rows, b) == {}

\* The ADDITIONAL an extra leaves behind goes, unless another extra links it.
Released(rows, b) ==
    LET e == departure[b].exception
    IN  IF e # None /\ LinkedTo(rows, e) \ {b} = {} THEN {e} ELSE {}

CancelScheduled(b) ==
    /\ b \in ScheduleId
    /\ Operated(b)
    /\ ~departure[b].cancelled
    /\ departure' = [departure EXCEPT ![b].cancelled = TRUE]
    /\ SkipRecorded(b[1], b[2])
    /\ Decided /\ UNCHANGED copy

CancelExtra(b) ==
    /\ b \in ExtraId
    /\ Operated(b)
    /\ ~departure[b].cancelled
    /\ LET rows == [departure EXCEPT ![b].cancelled = TRUE, ![b].exception = None]
           gone == Released(rows, b)
       IN  /\ departure' = Unlinked(rows, gone)
           /\ exception' = Without(exception, gone)
    /\ Decided /\ UNCHANGED copy

\* Mutant of RestoreScheduled: whether the timetable still makes it is not
\* asked.
RestoreScheduledDropped(b) ==
    /\ b \in ScheduleId
    /\ Operated(b)
    /\ departure[b].cancelled
    /\ departure' = [departure EXCEPT ![b].cancelled = FALSE]
    /\ exception' = Without(exception, Skips(exception, b[1], b[2]))
    /\ Decided /\ UNCHANGED copy

RestoreScheduled(b) ==
    /\ b \in ScheduleId
    /\ Operated(b)
    /\ departure[b].cancelled /\ ~departure[b].dropped
    /\ departure' = [departure EXCEPT ![b].cancelled = FALSE]
    /\ exception' = Without(exception, Skips(exception, b[1], b[2]))
    /\ Decided /\ UNCHANGED copy

RestoreExtra(b) ==
    /\ b \in ExtraId
    /\ Operated(b)
    /\ departure[b].cancelled /\ ~departure[b].dropped
    /\ \E e \in Free(ExceptionId, exception) :
          /\ exception' = [exception EXCEPT ![e] =
                             [ride |-> departure[b].ride, date |-> departure[b].date,
                              type |-> "ADDITIONAL", time |-> departure[b].time]]
          /\ departure' = [departure EXCEPT ![b].cancelled = FALSE, ![b].exception = e]
    /\ Decided /\ UNCHANGED copy

\* createExtra: the ADDITIONAL and the bus it adds.
ExtraAdded(r, d, t, c, e, x) ==
    /\ e \in Free(ExceptionId, exception) /\ x \in Free(ExtraId, departure)
    /\ Decidable(r, d)

CreateExtra(r, d, t, c) ==
    \E e \in ExceptionId, x \in ExtraId :
        /\ ExtraAdded(r, d, t, c, e, x)
        /\ exception' = [exception EXCEPT ![e] =
                           [ride |-> r, date |-> d, type |-> "ADDITIONAL", time |-> t]]
        /\ departure' = [departure EXCEPT ![x] = NewExtra(timetable, r, d, t, c, e)]
        /\ Decided /\ UNCHANGED copy

\* A change of seats alone touches nothing else; a move also follows the
\* ride's path and dropped state, the copies and the ADDITIONAL.
UpdateExtra(b, t, c) ==
    /\ b \in ExtraId
    /\ Operated(b)
    /\ LET row == departure[b]
           resized == [departure EXCEPT ![b].capacity = c]
           moved == [departure EXCEPT ![b] =
                       Following(timetable, [row EXCEPT !.time = t, !.capacity = c])]
       IN  \/ /\ t = row.time /\ c # row.capacity
              /\ departure' = resized
              /\ UNCHANGED <<exception, copy>>
           \/ /\ t # row.time
              /\ departure' = moved
              /\ copy' = Recopied(copy, departure, moved)
              /\ exception' = IF row.exception = None THEN exception
                              ELSE [exception EXCEPT ![row.exception].time = t]
    /\ Decided

DeleteExtra(b) ==
    /\ b \in ExtraId
    /\ Operated(b)
    /\ copy[b] = None
    /\ LET rows == [departure EXCEPT ![b] = None]
           gone == Released(rows, b)
       IN  /\ departure' = Unlinked(rows, gone)
           /\ exception' = Without(exception, gone)
    /\ Decided /\ UNCHANGED copy

-----------------------------------------------------------------------------
(* The exception and timetable endpoints: a full sync ends them *)

\* A SKIP needs no stored departure: the sync applies it when it makes one.
AddSkip(r, d) ==
    /\ Decidable(r, d)
    /\ Skips(exception, r, d) = {}
    /\ \E e \in Free(ExceptionId, exception) :
          FullSync(timetable,
                   IF departure[<<r, d>>] = None THEN departure
                   ELSE [departure EXCEPT ![<<r, d>>].cancelled = TRUE],
                   [exception EXCEPT ![e] =
                      [ride |-> r, date |-> d, type |-> "SKIP", time |-> None]],
                   TenantOf[r])
    /\ UNCHANGED <<today, night>>

AddAdditional(r, d, t) ==
    /\ ~\E e \in ExceptionId : exception[e] =
            [ride |-> r, date |-> d, type |-> "ADDITIONAL", time |-> t]
    /\ \E e \in ExceptionId, x \in ExtraId :
          /\ ExtraAdded(r, d, t, timetable[r].capacity, e, x)
          /\ FullSync(timetable,
                      [departure EXCEPT ![x] =
                         NewExtra(timetable, r, d, t, timetable[r].capacity, e)],
                      [exception EXCEPT ![e] =
                         [ride |-> r, date |-> d, type |-> "ADDITIONAL", time |-> t]],
                      TenantOf[r])
    /\ UNCHANGED <<today, night>>

RemoveSkip(e) ==
    /\ exception[e] # None /\ exception[e].type = "SKIP"
    /\ Decidable(exception[e].ride, exception[e].date)
    /\ LET r == exception[e].ride
           d == exception[e].date
       IN  FullSync(timetable,
                    IF departure[<<r, d>>] = None THEN departure
                    ELSE [departure EXCEPT ![<<r, d>>].cancelled = FALSE],
                    Without(exception, Skips(exception, r, d)),
                    TenantOf[r])
    /\ UNCHANGED <<today, night>>

\* Its extras go where nobody was booked and are cancelled where somebody was.
RemoveAdditional(e) ==
    /\ exception[e] # None /\ exception[e].type = "ADDITIONAL"
    /\ Decidable(exception[e].ride, exception[e].date)
    /\ LET rows == [b \in DepartureId |->
                      IF b \notin LinkedTo(departure, e) THEN departure[b]
                      ELSE IF copy[b] = None THEN None
                      ELSE [departure[b] EXCEPT !.cancelled = TRUE]]
       IN  FullSync(timetable, Unlinked(rows, {e}), Without(exception, {e}),
                    TenantOf[exception[e].ride])
    /\ UNCHANGED <<today, night>>

\* A ride's capacity edit reaches its extras still at the old capacity, from
\* the agency's date on.
FollowRideCapacity(r, from, to) ==
    [b \in DepartureId |->
        IF /\ b \in ExtraId /\ departure[b] # None
           /\ departure[b].ride = r /\ departure[b].capacity = from
           /\ departure[b].date >= today
        THEN [departure[b] EXCEPT !.capacity = to] ELSE departure[b]]

\* A ride or line edit: times, days, capacity, path, or whether either runs.
EditTimetable(r, next) ==
    /\ r \in OperatedRide
    /\ next # timetable[r]
    /\ FullSync([timetable EXCEPT ![r] = next],
                FollowRideCapacity(r, timetable[r].capacity, next.capacity),
                exception, TenantOf[r])
    /\ UNCHANGED <<today, night>>

-----------------------------------------------------------------------------
(* The night, bookings and the calendar *)

NoNight == [left |-> {}, failed |-> {}, begun |-> FALSE]

\* The pass reads the tenants and its own date once.
StartNight ==
    /\ ~night.begun
    /\ night' = [left |-> Tenant, failed |-> {}, begun |-> TRUE]
    /\ UNCHANGED <<timetable, departure, exception, copy, today>>

\* Insert only: the creates of the plan and nothing else.
NightInserts(t) ==
    /\ t \in night.left
    /\ \E placed \in Placements(departure, MissingExtras(departure, exception, t)) :
          departure' = Inserted(timetable, departure, exception, t, placed)
    /\ night' = [night EXCEPT !.left = @ \ {t}]
    /\ UNCHANGED <<timetable, exception, copy, today>>

\* Mutant of NightFails: the first failure ends the pass.
NightFailsForAll(t) ==
    /\ t \in night.left
    /\ night' = [night EXCEPT !.left = {}, !.failed = @ \cup {t}]
    /\ UNCHANGED <<timetable, departure, exception, copy, today>>

\* A tenant whose transaction fails is logged, and the pass goes on.
NightFails(t) ==
    /\ t \in night.left
    /\ night' = [night EXCEPT !.left = @ \ {t}, !.failed = @ \cup {t}]
    /\ UNCHANGED <<timetable, departure, exception, copy, today>>

Runs(b) == departure[b] # None /\ ~departure[b].cancelled /\ ~departure[b].dropped

\* A passenger is booked on a running departure, with a copy of its time.
Book(b) ==
    /\ Runs(b) /\ Decidable(departure[b].ride, departure[b].date)
    /\ copy[b] = None
    /\ copy' = [copy EXCEPT ![b] = departure[b].time]
    /\ UNCHANGED <<timetable, departure, exception, today, night>>

\* The pass is over long before the agency's date changes.
DayPasses ==
    /\ night.left = {}
    /\ today < LastDay
    /\ today' = today + 1
    /\ night' = NoNight
    /\ UNCHANGED <<timetable, departure, exception, copy>>

-----------------------------------------------------------------------------
(* Specification *)

\* What an earlier version may have stored: an extra has the ride and the
\* date of the ADDITIONAL it names, and one that names none was cancelled or
\* dropped.
ASSUME LegacyAssumption ==
    \A old \in Legacy :
        /\ old.exception \in [ExceptionId -> Exception \cup {None}]
        /\ old.extra \in [ExtraId -> Departure \cup {None}]
        /\ \A x \in ExtraId : old.extra[x] # None =>
              LET row == old.extra[x]
                  record == old.exception[row.exception]
              IN  /\ row.date <= 1 + Horizon
                  /\ row.exception = None => row.cancelled \/ row.dropped
                  /\ row.exception # None =>
                        /\ ~row.cancelled
                        /\ record # None /\ record.type = "ADDITIONAL" /\ record.time # None
                        /\ record.ride = row.ride /\ record.date = row.date

\* A sync the day before has run over some timetable and what was stored
\* then: the newest day of the window waits for the coming night.
Init ==
    /\ timetable \in [Ride -> UNION {Timetables[r] : r \in Ride}]
    /\ \A r \in Ride : timetable[r] \in Timetables[r]
    /\ today = 1
    /\ \E old \in Legacy :
          /\ exception = old.exception
          /\ departure = [b \in DepartureId |->
                IF b \in ExtraId
                THEN IF old.extra[b] = None THEN None ELSE Following(timetable, old.extra[b])
                ELSE IF b[2] \in 1 .. Horizon /\ Produces(timetable, b[1], b[2])
                THEN [Produced(timetable, b[1], b[2]) EXCEPT
                        !.cancelled = Skips(exception, b[1], b[2]) # {}]
                ELSE None]
    /\ copy = [b \in DepartureId |-> None]
    /\ night = NoNight

Decide ==
    \/ \E b \in DepartureId :
          \/ CancelScheduled(b) \/ CancelExtra(b)
          \/ RestoreScheduled(b) \/ RestoreExtra(b)
          \/ DeleteExtra(b)
          \/ \E t \in Time, c \in Capacity : UpdateExtra(b, t, c)
    \/ \E r \in Ride, d \in Date, t \in Time, c \in Capacity : CreateExtra(r, d, t, c)

EditSchedule ==
    \/ \E r \in Ride, d \in Date : AddSkip(r, d) \/ \E t \in Time : AddAdditional(r, d, t)
    \/ \E e \in ExceptionId : RemoveSkip(e) \/ RemoveAdditional(e)
    \/ \E r \in Ride : \E next \in Timetables[r] : EditTimetable(r, next)

Night == StartNight \/ \E t \in Tenant : NightInserts(t) \/ NightFails(t)

Next == Decide \/ EditSchedule \/ Night \/ (\E b \in DepartureId : Book(b)) \/ DayPasses

Spec == Init /\ [][Next]_vars

-----------------------------------------------------------------------------
(* Properties *)

InWindow(table, i) == table[i] # None /\ table[i].date \in DepartureWindow

\* What departure.matchesExceptions reports, as pairs of reason and subject.
\* Where rows stored before decisions moved to departures share one
\* ADDITIONAL, the check compares one of them; here every one counts.
Mismatches ==
    LET Listed(b) == departure[b].exception # None /\ InWindow(exception, departure[b].exception)
    IN  UNION {
          {<<"SKIP_NOT_APPLIED", e>> : e \in
             {e \in ExceptionId : /\ InWindow(exception, e) /\ exception[e].type = "SKIP"
                                  /\ LET b == <<exception[e].ride, exception[e].date>>
                                     IN  departure[b] # None /\ ~departure[b].cancelled}},
          {<<"CANCELLED_WITHOUT_SKIP", b>> : b \in
             {b \in ScheduleId : /\ InWindow(departure, b) /\ departure[b].cancelled
                                 /\ Skips(exception, b[1], b[2]) = {}}},
          {<<"ADDITIONAL_NOT_APPLIED", e>> : e \in
             {e \in ExceptionId : /\ InWindow(exception, e) /\ exception[e].type = "ADDITIONAL"
                                  /\ exception[e].time # None
                                  /\ \/ LinkedTo(departure, e) = {}
                                     \/ \E x \in LinkedTo(departure, e) :
                                            departure[x].time # exception[e].time}},
          {<<"EXTRA_WITHOUT_ADDITIONAL", b>> : b \in
             {b \in ExtraId : /\ InWindow(departure, b) /\ ~departure[b].cancelled
                              /\ ~Listed(b)}},
          {<<"CANCELLED_EXTRA_HAS_ADDITIONAL", b>> : b \in
             {b \in ExtraId : /\ InWindow(departure, b) /\ departure[b].cancelled
                              /\ Listed(b)}}}

\* Cancelling, restoring, adding, moving and deleting buses, from either
\* screen and through any timetable edit in between, never makes a departure
\* and its exception row disagree where they agreed
\* (departure-operations.ts:17-29).
NoNewMismatch ==
    [][today' # today \/ Mismatches' \subseteq Mismatches]_vars

NothingMissing(t) ==
    MissingScheduled(timetable, departure, t) = {} /\ MissingExtras(departure, exception, t) = {}

\* A full sync would change nothing that is stored.
InStep ==
    \A t \in Tenant, b \in DepartureId :
        InReach(departure, t, b) => Shaped(timetable, departure, copy, b) = departure[b]

\* The departure endpoints may skip the sync, and the nightly job may apply
\* its creates alone: neither leaves anything for a full sync to update, drop
\* or delete.  The one exception is cancelling an orphan the timetable
\* dropped, which a later sync takes off the dropped list.
StaysInStep ==
    [][InStep => \/ InStep'
                 \/ \E x \in ExtraId : /\ InWindow(departure, x)
                                       /\ departure[x].dropped /\ departure[x].exception = None
                                       /\ ~departure[x].cancelled /\ departure'[x].cancelled]_vars

\* After a night's pass nothing the timetable produces in the window is
\* missing for any tenant the pass did not fail on, whatever happened to the
\* tenants before it and whatever was edited since.
NightReachesEveryTenant ==
    night.begun /\ night.left = {} => \A t \in Tenant \ night.failed : NothingMissing(t)

\* A bus somebody was ever booked on stays stored, so that no delete runs into
\* the foreign key, and its passengers are told the time it leaves, moved by
\* an operator or by a timetable edit; a past bus keeps the time it ran at.
CopiesTellTheTime ==
    \A b \in DepartureId :
        copy[b] # None => departure[b] # None /\ departure[b].time = copy[b]

\* What listInstancesByDate materialises from the timetable and exceptions.
Screen(r, d) ==
    IF ~RideRuns(timetable, r) THEN {}
    ELSE {<<"BASE", t>> : t \in {timetable[r].base[d]} \
                                   (IF Skips(exception, r, d) = {} THEN {None} ELSE Time \cup {None})}
         \cup {<<e, exception[e].time>> : e \in
                 {e \in ExceptionId : /\ exception[e] # None
                                      /\ exception[e].type = "ADDITIONAL"
                                      /\ exception[e].ride = r /\ exception[e].date = d
                                      /\ exception[e].time # None}}

Buses(r, d) ==
    {<<"BASE", departure[b].time>> : b \in {b \in {<<r, d>>} : Runs(b)}}
    \cup {<<departure[x].exception, departure[x].time>> : x \in
            {x \in ExtraId : Runs(x) /\ departure[x].ride = r /\ departure[x].date = d}}

\* Once the day's departures are stored, the rides the old screen works out
\* from timetable and exceptions are the buses that are stored and running,
\* each extra under its own ADDITIONAL.
ScreenShowsTheBuses ==
    \A r \in Ride, d \in DepartureWindow :
        /\ NothingMissing(TenantOf[r])
        /\ ~\E e \in ExceptionId : <<"ADDITIONAL_NOT_APPLIED", e>> \in Mismatches
        => Screen(r, d) = Buses(r, d)

=============================================================================
